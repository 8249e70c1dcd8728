-------------------------- MODULE CodecCalls_proofs --------------------------
(***************************************************************************)
(* The parser accepts exactly the well-formed packets, and the codec keeps *)
(* what it is given: for every packet, frame, configuration and number of  *)
(* damaged fields.                                                         *)
(***************************************************************************)
EXTENDS CodecCalls, FiniteSetTheorems, SequenceTheorems, WellFoundedInduction, TLAPS

-----------------------------------------------------------------------------
(* Numbers.                                                                *)
LEMMA LeastNatural ==
    ASSUME NEW T \in SUBSET Nat, T # {}
    PROVE  \E x \in T : \A y \in T : x <= y
<1> DEFINE R == OpToRel(<, Nat)
<1>1. IsWellFoundedOn(R, Nat)
  BY NatLessThanWellFounded
<1>2. PICK x \in T : \A y \in T : ~ (<<y, x>> \in R)
  <2> HIDE DEF R
  <2> QED
    BY <1>1, WFMin
<1>3. \A y \in T : ~ (y < x)
  BY <1>2 DEF OpToRel
<1> QED
  BY <1>3

(* A set of numbers up to n has a largest one.                             *)
LEMMA LargestUpTo ==
    ASSUME NEW n \in Nat, NEW S \in SUBSET (0 .. n), S # {}
    PROVE  \E x \in S : \A y \in S : y <= x
<1> DEFINE T == {t \in Nat : \A y \in S : y <= t}
<1>1. T \in SUBSET Nat /\ T # {}
  <2>1. n \in T
    OBVIOUS
  <2> QED
    BY <2>1
<1>2. PICK t \in T : \A u \in T : t <= u
  <2> HIDE DEF T
  <2> QED
    BY <1>1, LeastNatural
<1>3. t \in S
  <2> SUFFICES ASSUME t \notin S PROVE FALSE
    OBVIOUS
  <2>1. \A y \in S : y \in Nat /\ y < t
    BY <1>2
  <2>2. t \in Nat /\ t > 0
    <3>1. PICK y \in S : TRUE
      OBVIOUS
    <3> QED
      BY <1>2, <2>1, <3>1
  <2>3. t - 1 \in T
    BY <1>2, <2>1, <2>2
  <2> QED
    BY <1>2, <2>3
<1> QED
  BY <1>2, <1>3

-----------------------------------------------------------------------------
(* The walk over the extensions.  Its lengths come from the wire, yet each *)
(* TLV ends after it starts: the walk moves forward.                       *)
PacketTypeOK(packet) ==
    /\ packet.length \in Nat
    /\ packet.header_length \in Nat
    /\ packet.payload_length \in Nat
    /\ packet.words \in Seq(U16 \X U16)

TlvType(packet, o) == Word(packet, o + 1)[1]

TlvEnd(packet, o) == o + TlvWords(Word(packet, o + 1)[2])

LEMMA TlvIs ==
    ASSUME NEW packet, PacketTypeOK(packet), NEW o \in Nat
    PROVE  /\ TlvType(packet, o) \in U16
           /\ TlvEnd(packet, o) \in Nat /\ TlvEnd(packet, o) > o
<1>1. Word(packet, o + 1) \in U16 \X U16
  <2>1. CASE o + 1 <= Len(packet.words)
    <3>1. o + 1 \in 1 .. Len(packet.words)
      BY <2>1, LenProperties DEF PacketTypeOK
    <3>2. packet.words[o + 1] \in U16 \X U16
      BY <3>1, ElementOfSeq DEF PacketTypeOK
    <3> QED
      BY <2>1, <3>2 DEF Word
  <2>2. CASE ~ (o + 1 <= Len(packet.words))
    <3>1. 0 \in U16
      BY DEF U16, MaxU16
    <3> QED
      BY <2>2, <3>1 DEF Word
  <2> QED
    BY <2>1, <2>2
<1>2. Word(packet, o + 1)[1] \in U16 /\ Word(packet, o + 1)[2] \in U16
  BY <1>1
<1>3. \A l \in U16 : TlvWords(l) \in Nat /\ TlvWords(l) >= 1
  <2>1. MaxU16 \in Nat
    BY DEF MaxU16
  <2> QED
    BY <2>1 DEF U16, TlvWords
<1> QED
  BY <1>2, <1>3 DEF TlvType, TlvEnd

WalkStep(packet, walk, o) ==
    IF o = ExtensionWords(packet) THEN "Ok"
    ELSE IF TlvEnd(packet, o) > ExtensionWords(packet) THEN "MalformedFrame"
    ELSE IF Critical(TlvType(packet, o)) /\ ~ is_known_extension(TlvType(packet, o))
         THEN "UnsupportedExtension"
         ELSE walk[TlvEnd(packet, o)]

Walk(packet) ==
    CHOOSE walk : walk = [o \in 0 .. ExtensionWords(packet) |-> WalkStep(packet, walk, o)]

LEMMA ExtensionWalkIs ==
    ASSUME NEW packet PROVE ExtensionWalk(packet) = Walk(packet)[0]
BY DEF ExtensionWalk, Walk, WalkStep, TlvType, TlvEnd

(* The recursion has a solution: one from offset k on extends to k - 1.    *)
WalksFrom(packet, k) ==
    \E walk : walk = [o \in k .. ExtensionWords(packet) |-> WalkStep(packet, walk, o)]

LEMMA WalkExists ==
    ASSUME NEW packet, PacketTypeOK(packet), ExtensionWords(packet) \in Nat
    PROVE  WalksFrom(packet, 0)
<1> DEFINE n == ExtensionWords(packet)
           T == {k \in 0 .. n : WalksFrom(packet, k)}
<1>1. n \in T
  <2> DEFINE w == [o \in n .. n |-> "Ok"]
  <2>1. \A o \in n .. n : WalkStep(packet, w, o) = "Ok"
    BY DEF WalkStep
  <2>2. w = [o \in n .. n |-> WalkStep(packet, w, o)]
    BY <2>1
  <2>3. WalksFrom(packet, n)
    BY <2>2 DEF WalksFrom
  <2> QED
    BY <2>3
<1>2. ASSUME NEW k \in T, k > 0 PROVE k - 1 \in T
  <2>1. PICK w : w = [o \in k .. n |-> WalkStep(packet, w, o)]
    BY DEF WalksFrom
  <2> DEFINE v == [o \in k - 1 .. n |-> IF o = k - 1 THEN WalkStep(packet, w, o) ELSE w[o]]
  <2>2. \A o \in k - 1 .. n : o \in Nat /\ TlvEnd(packet, o) \in Nat /\ TlvEnd(packet, o) > o
    BY <1>2, TlvIs
  <2>3. \A o \in k - 1 .. n : WalkStep(packet, v, o) = WalkStep(packet, w, o)
    <3> SUFFICES ASSUME NEW o \in k - 1 .. n, TlvEnd(packet, o) <= n
                 PROVE  v[TlvEnd(packet, o)] = w[TlvEnd(packet, o)]
      BY <2>2 DEF WalkStep
    <3> QED
      BY <1>2, <2>2
  <2>4. \A o \in k - 1 .. n : v[o] = WalkStep(packet, w, o)
    BY <1>2, <2>1
  <2>5. v = [o \in k - 1 .. n |-> WalkStep(packet, v, o)]
    BY <2>3, <2>4
  <2>6. WalksFrom(packet, k - 1)
    BY <2>5 DEF WalksFrom
  <2> QED
    BY <1>2, <2>6
<1>3. 0 \in T
  <2>1. T \in SUBSET Nat /\ T # {}
    BY <1>1
  <2>2. PICK k \in T : \A y \in T : k <= y
    <3> HIDE DEF T
    <3> QED
      BY <2>1, LeastNatural
  <2>3. k \in Nat
    BY <2>1, <2>2
  <2>4. ~ (k > 0)
    <3> HIDE DEF T
    <3> QED
      BY <1>2, <2>2, <2>3
  <2> QED
    BY <2>2, <2>3, <2>4
<1> QED
  BY <1>3

LEMMA WalkIs ==
    ASSUME NEW packet, PacketTypeOK(packet), ExtensionWords(packet) \in Nat
    PROVE  \A o \in 0 .. ExtensionWords(packet) :
              Walk(packet)[o] = WalkStep(packet, Walk(packet), o)
<1> DEFINE n == ExtensionWords(packet)
           Solves(walk) == walk = [o \in 0 .. n |-> WalkStep(packet, walk, o)]
<1>1. \E walk : Solves(walk)
  BY WalkExists DEF WalksFrom
<1>2. Walk(packet) = CHOOSE walk : Solves(walk)
  BY DEF Walk
<1>3. Solves(Walk(packet))
  <2> HIDE DEF Solves
  <2> QED
    BY <1>1, <1>2
<1> QED
  BY <1>3

(* The walk ends with one of three results.                                *)
WalkResult == {"Ok", "MalformedFrame", "UnsupportedExtension"}

LEMMA WalkRange ==
    ASSUME NEW packet, PacketTypeOK(packet), ExtensionWords(packet) \in Nat
    PROVE  ExtensionWalk(packet) \in WalkResult
<1> DEFINE n == ExtensionWords(packet)
           walk == Walk(packet)
           Bad == {o \in 0 .. n : walk[o] \notin WalkResult}
<1>1. Bad = {}
  <2> SUFFICES ASSUME Bad # {} PROVE FALSE
    OBVIOUS
  <2>1. PICK o \in Bad : \A y \in Bad : y <= o
    <3>1. Bad \in SUBSET (0 .. n)
      OBVIOUS
    <3> HIDE DEF Bad
    <3> QED
      BY <3>1, LargestUpTo
  <2>2. o \in 0 .. n /\ walk[o] \notin WalkResult /\ walk[o] = WalkStep(packet, walk, o)
    BY <2>1, WalkIs
  <2>3. /\ TlvEnd(packet, o) \in Nat /\ TlvEnd(packet, o) > o /\ TlvEnd(packet, o) <= n
        /\ walk[o] = walk[TlvEnd(packet, o)]
    <3> HIDE DEF walk
    <3> QED
      BY <2>2, TlvIs DEF WalkStep, WalkResult
  <2>4. TlvEnd(packet, o) \in Bad
    BY <2>2, <2>3
  <2> HIDE DEF Bad
  <2> QED
    BY <2>1, <2>2, <2>3, <2>4
<1> QED
  BY <1>1, ExtensionWalkIs

-----------------------------------------------------------------------------
(* The walk accepts an area iff it can be cut into TLVs.                   *)
Covers(packet, s, w) == s <= w /\ w < TlvEnd(packet, s)

TilesFrom(packet, starts, o) ==
    /\ starts \in SUBSET (o .. ExtensionWords(packet) - 1)
    /\ \A s \in starts : /\ TlvEnd(packet, s) <= ExtensionWords(packet)
                         /\ TlvType(packet, s) \notin CriticalTypes
    /\ \A w \in o .. ExtensionWords(packet) - 1 :
          \E s \in starts : /\ Covers(packet, s, w)
                            /\ \A u \in starts : Covers(packet, u, w) => u = s

Tileable(packet, o) == \E starts : TilesFrom(packet, starts, o)

LEMMA TypeAllowed ==
    ASSUME NEW type \in U16
    PROVE  ~ (Critical(type) /\ ~ is_known_extension(type)) <=> type \notin CriticalTypes
<1>1. CRITICAL_EXTENSION_BIT \in Nat /\ MaxU16 \in Nat /\ CRITICAL_EXTENSION_BIT > 2
  BY DEF CRITICAL_EXTENSION_BIT, MaxU16
<1> QED
  BY <1>1 DEF U16, CriticalTypes, Critical, is_known_extension

(* A tiling from o on starts with the TLV at o.                            *)
LEMMA FirstTile ==
    ASSUME NEW packet, PacketTypeOK(packet), NEW n \in Nat, n = ExtensionWords(packet),
           NEW o \in 0 .. n - 1, NEW starts, TilesFrom(packet, starts, o)
    PROVE  /\ o \in starts
           /\ TilesFrom(packet, starts \ {o}, TlvEnd(packet, o))
<1> DEFINE next == TlvEnd(packet, o)
<1>1. /\ \A s \in starts : s \in o .. n - 1 /\ TlvEnd(packet, s) <= n
      /\ \A s \in starts : TlvEnd(packet, s) \in Nat /\ TlvEnd(packet, s) > s
  BY TlvIs DEF TilesFrom
<1>2. o \in starts /\ next \in Nat /\ next > o
  <2>1. PICK s \in starts : Covers(packet, s, o)
    BY DEF TilesFrom
  <2>2. s = o
    BY <1>1, <2>1 DEF Covers
  <2> QED
    BY <1>1, <2>2
<1>3. \A s \in starts \ {o} : s \in next .. n - 1
  <2> SUFFICES ASSUME NEW s \in starts, s # o, s < next PROVE FALSE
    BY <1>1, <1>2
  <2>1. s \in o .. n - 1 /\ Covers(packet, s, s) /\ Covers(packet, o, s)
    BY <1>1, <1>2 DEF Covers
  <2> QED
    BY <1>2, <2>1 DEF TilesFrom
<1>4. ASSUME NEW w \in next .. n - 1
      PROVE  \E s \in starts \ {o} :
                /\ Covers(packet, s, w)
                /\ \A u \in starts \ {o} : Covers(packet, u, w) => u = s
  <2>1. w \in o .. n - 1 /\ ~ Covers(packet, o, w)
    BY <1>2 DEF Covers
  <2> QED
    BY <2>1 DEF TilesFrom
<1> QED
  BY <1>1, <1>2, <1>3, <1>4 DEF TilesFrom

(* A TLV at o in front of a tiling from its end on makes a tiling.         *)
LEMMA PrependTile ==
    ASSUME NEW packet, PacketTypeOK(packet), NEW n \in Nat, n = ExtensionWords(packet),
           NEW o \in 0 .. n - 1, TlvEnd(packet, o) <= n,
           TlvType(packet, o) \notin CriticalTypes,
           NEW rest, TilesFrom(packet, rest, TlvEnd(packet, o))
    PROVE  TilesFrom(packet, rest \cup {o}, o)
<1> DEFINE next == TlvEnd(packet, o)
           starts == rest \cup {o}
<1>1. next \in Nat /\ next > o
  BY TlvIs
<1>2. \A s \in rest : s \in next .. n - 1
  BY DEF TilesFrom
<1>3. ASSUME NEW w \in o .. n - 1
      PROVE  \E s \in starts : /\ Covers(packet, s, w)
                               /\ \A u \in starts : Covers(packet, u, w) => u = s
  <2>1. CASE w < next
    <3>1. Covers(packet, o, w) /\ \A u \in rest : ~ Covers(packet, u, w)
      BY <1>1, <1>2, <2>1 DEF Covers
    <3> QED
      BY <3>1
  <2>2. CASE ~ (w < next)
    <3>1. w \in next .. n - 1 /\ ~ Covers(packet, o, w)
      BY <1>1, <2>2 DEF Covers
    <3> QED
      BY <3>1 DEF TilesFrom
  <2> QED
    BY <2>1, <2>2
<1>4. starts \in SUBSET (o .. n - 1)
  BY <1>1, <1>2
<1> QED
  BY <1>3, <1>4 DEF TilesFrom

LEMMA WalkAccepts ==
    ASSUME NEW packet, PacketTypeOK(packet), ExtensionWords(packet) \in Nat
    PROVE  ExtensionWalk(packet) = "Ok" <=> Tileable(packet, 0)
<1> DEFINE n == ExtensionWords(packet)
           walk == Walk(packet)
           Bad == {o \in 0 .. n : ~ (walk[o] = "Ok" <=> Tileable(packet, o))}
<1>1. Bad = {}
  <2> SUFFICES ASSUME Bad # {} PROVE FALSE
    OBVIOUS
  <2>1. PICK o \in Bad : \A y \in Bad : y <= o
    <3>1. Bad \in SUBSET (0 .. n)
      OBVIOUS
    <3> HIDE DEF Bad
    <3> QED
      BY <3>1, LargestUpTo
  <2>2. o \in 0 .. n /\ ~ (walk[o] = "Ok" <=> Tileable(packet, o))
    BY <2>1
  <2>3. walk[o] = WalkStep(packet, walk, o)
    BY <2>2, WalkIs
  <2>4. TlvEnd(packet, o) \in Nat /\ TlvEnd(packet, o) > o /\ TlvType(packet, o) \in U16
    BY <2>2, TlvIs
  <2>5. TlvEnd(packet, o) <= n =>
           (walk[TlvEnd(packet, o)] = "Ok" <=> Tileable(packet, TlvEnd(packet, o)))
    BY <2>1, <2>2, <2>4
  <2> HIDE DEF Bad, walk
  <2>6. CASE o = n
    <3>1. TilesFrom(packet, {}, o)
      BY <2>6 DEF TilesFrom
    <3> QED
      BY <2>2, <2>3, <2>6, <3>1 DEF WalkStep, Tileable
  <2>7. CASE o # n
    <3>1. o \in 0 .. n - 1
      BY <2>2, <2>7
    <3>2. ASSUME walk[o] = "Ok" PROVE Tileable(packet, o)
      <4>1. /\ TlvEnd(packet, o) <= n /\ walk[TlvEnd(packet, o)] = "Ok"
            /\ TlvType(packet, o) \notin CriticalTypes
        BY <2>3, <2>4, <2>7, <3>2, TypeAllowed DEF WalkStep
      <4>2. PICK rest : TilesFrom(packet, rest, TlvEnd(packet, o))
        BY <2>5, <4>1 DEF Tileable
      <4> QED
        BY <3>1, <4>1, <4>2, PrependTile DEF Tileable
    <3>3. ASSUME Tileable(packet, o) PROVE walk[o] = "Ok"
      <4>1. PICK starts : TilesFrom(packet, starts, o)
        BY <3>3 DEF Tileable
      <4>2. o \in starts /\ Tileable(packet, TlvEnd(packet, o))
        BY <3>1, <4>1, FirstTile DEF Tileable
      <4>3. TlvEnd(packet, o) <= n /\ TlvType(packet, o) \notin CriticalTypes
        BY <4>1, <4>2 DEF TilesFrom
      <4> QED
        BY <2>3, <2>4, <2>5, <2>7, <4>2, <4>3, TypeAllowed DEF WalkStep
    <3> QED
      BY <2>2, <3>2, <3>3
  <2> QED
    BY <2>6, <2>7
<1> QED
  BY <1>1, ExtensionWalkIs

-----------------------------------------------------------------------------
(* decode's sequence of checks: it succeeds iff all of them pass, and what *)
(* it returns otherwise is the error of the first one that does not.       *)
LEMMA FirstErrorIs ==
    ASSUME NEW checks, NEW k \in Nat, DOMAIN checks = 1 .. k,
           \A i \in 1 .. k : checks[i][2] # "Ok"
    PROVE  /\ FirstError(checks) = "Ok" <=> \A i \in 1 .. k : checks[i][1]
           /\ FirstError(checks) # "Ok" =>
                 \E i \in 1 .. k : /\ ~ checks[i][1] /\ FirstError(checks) = checks[i][2]
                                   /\ \A j \in 1 .. i - 1 : checks[j][1]
<1> DEFINE failed == {i \in DOMAIN checks : ~ checks[i][1]}
<1>1. FirstError(checks) = IF failed = {} THEN "Ok" ELSE checks[Min(failed)][2]
  BY DEF FirstError
<1>2. failed \in SUBSET Nat /\ \A i \in 1 .. k : i \in failed <=> ~ checks[i][1]
  OBVIOUS
<1>3. failed # {} => Min(failed) \in failed /\ \A y \in failed : Min(failed) <= y
  <2> HIDE DEF failed
  <2> QED
    BY <1>2, LeastNatural DEF Min
<1>4. failed \subseteq 1 .. k
  OBVIOUS
<1> HIDE DEF failed
<1>5. CASE failed = {}
  BY <1>1, <1>2, <1>5
<1>6. CASE failed # {}
  <2>1. Min(failed) \in 1 .. k /\ ~ checks[Min(failed)][1]
    BY <1>2, <1>3, <1>4, <1>6
  <2>2. \A j \in 1 .. Min(failed) - 1 : checks[j][1]
    BY <1>2, <1>3, <1>6, <2>1
  <2> QED
    BY <1>1, <1>6, <2>1, <2>2
<1> QED
  BY <1>5, <1>6

LEMMA ChecksAre ==
    ASSUME NEW packet, NEW config
    PROVE  LET checks == Checks(packet, config)
           IN  /\ DOMAIN checks = 1 .. 6
               /\ checks[1][1] <=> LongEnough(packet)
               /\ checks[2][1] <=> SizeAllowed(packet, config)
               /\ checks[3][1] <=> MagicOK(packet)
               /\ checks[4][1] <=> VersionOK(packet)
               /\ checks[5][1] <=> HeaderLengthOK(packet)
               /\ checks[6][1] <=> LengthsAgree(packet)
               /\ checks[2][2] = "FrameTooLarge" /\ checks[4][2] = "VersionMismatch"
               /\ \A i \in {1, 3, 5, 6} : checks[i][2] = "MalformedFrame"
BY DEF Checks

LEMMA LateChecksAre ==
    ASSUME NEW packet, NEW config
    PROVE  LET checks == LateChecks(packet, config)
           IN  /\ DOMAIN checks = 1 .. 4
               /\ checks[1][1] <=> ChecksumOK(packet, config)
               /\ checks[2][1] <=> KnownMessageType(packet.message_type)
               /\ checks[3][1] <=> PayloadOK(packet)
               /\ checks[4][1] <=> RangeOK(packet)
               /\ checks[1][2] = "ChecksumFailed" /\ checks[2][2] = "UnsupportedMessageType"
               /\ checks[3][2] = "MalformedFrame" /\ checks[4][2] = "ReplayRangeInvalid"
BY DEF LateChecks

EarlyOK(packet, config) ==
    /\ LongEnough(packet)
    /\ SizeAllowed(packet, config)
    /\ MagicOK(packet)
    /\ VersionOK(packet)
    /\ HeaderLengthOK(packet)
    /\ LengthsAgree(packet)

LateOK(packet, config) ==
    /\ ChecksumOK(packet, config)
    /\ KnownMessageType(packet.message_type)
    /\ PayloadOK(packet)
    /\ RangeOK(packet)

LEMMA EarlyResult ==
    ASSUME NEW packet, NEW config
    PROVE  LET early == FirstError(Checks(packet, config))
           IN  /\ early = "Ok" <=> EarlyOK(packet, config)
               /\ early \in {"Ok", "MalformedFrame", "FrameTooLarge", "VersionMismatch"}
               /\ early = "FrameTooLarge" <=> LongEnough(packet) /\ ~ SizeAllowed(packet, config)
<1> DEFINE checks == Checks(packet, config)
           early == FirstError(checks)
<1>1. \A i \in 1 .. 6 : i \in {1, 2, 3, 4, 5, 6}
  OBVIOUS
<1>2. DOMAIN checks = 1 .. 6 /\ \A i \in 1 .. 6 : checks[i][2] # "Ok"
  <2> HIDE DEF checks
  <2> QED
    BY <1>1, ChecksAre DEF checks
<1>3. EarlyOK(packet, config) <=> \A i \in 1 .. 6 : checks[i][1]
  <2>1. (\A i \in 1 .. 6 : checks[i][1]) <=>
           /\ checks[1][1] /\ checks[2][1] /\ checks[3][1]
           /\ checks[4][1] /\ checks[5][1] /\ checks[6][1]
    <3> HIDE DEF checks
    <3> QED
      BY <1>1
  <2> QED
    BY <2>1, ChecksAre DEF EarlyOK
<1>4. /\ early = "Ok" <=> \A i \in 1 .. 6 : checks[i][1]
      /\ early # "Ok" =>
            \E i \in 1 .. 6 : /\ ~ checks[i][1] /\ early = checks[i][2]
                              /\ \A j \in 1 .. i - 1 : checks[j][1]
  <2> HIDE DEF checks
  <2> QED
    BY <1>2, FirstErrorIs DEF early
<1> HIDE DEF checks, early
<1>5. ASSUME early # "Ok"
      PROVE  /\ early \in {"MalformedFrame", "FrameTooLarge", "VersionMismatch"}
             /\ early = "FrameTooLarge" <=> checks[1][1] /\ ~ checks[2][1]
  <2>1. PICK i \in 1 .. 6 : /\ ~ checks[i][1] /\ early = checks[i][2]
                            /\ \A j \in 1 .. i - 1 : checks[j][1]
    BY <1>4, <1>5
  <2>2. i \in {1, 2, 3, 4, 5, 6}
    BY <1>1
  <2>3. /\ checks[2][2] = "FrameTooLarge" /\ checks[4][2] = "VersionMismatch"
        /\ \A l \in {1, 3, 5, 6} : checks[l][2] = "MalformedFrame"
    BY ChecksAre DEF checks
  <2>4. CASE i = 1
    BY <2>1, <2>3, <2>4
  <2>5. CASE i = 2
    <3>1. 1 \in 1 .. i - 1
      BY <2>5
    <3> QED
      BY <2>1, <2>3, <2>5, <3>1
  <2>6. CASE i \in {3, 4, 5, 6}
    <3>1. 2 \in 1 .. i - 1
      BY <2>6
    <3> QED
      BY <2>1, <2>3, <2>6, <3>1
  <2> QED
    BY <2>2, <2>4, <2>5, <2>6
<1>6. checks[1][1] <=> LongEnough(packet)
  BY ChecksAre DEF checks
<1>7. checks[2][1] <=> SizeAllowed(packet, config)
  BY ChecksAre DEF checks
<1> QED
  BY <1>3, <1>4, <1>5, <1>6, <1>7 DEF EarlyOK, checks, early

LEMMA LateResult ==
    ASSUME NEW packet, NEW config
    PROVE  LET late == FirstError(LateChecks(packet, config))
           IN  /\ late = "Ok" <=> LateOK(packet, config)
               /\ late \in {"Ok", "ChecksumFailed", "UnsupportedMessageType", "MalformedFrame",
                            "ReplayRangeInvalid"}
               /\ ChecksumOK(packet, config) => late # "ChecksumFailed"
<1> DEFINE checks == LateChecks(packet, config)
           late == FirstError(checks)
<1>1. \A i \in 1 .. 4 : i \in {1, 2, 3, 4}
  OBVIOUS
<1>2. DOMAIN checks = 1 .. 4 /\ \A i \in 1 .. 4 : checks[i][2] # "Ok"
  <2> HIDE DEF checks
  <2> QED
    BY <1>1, LateChecksAre DEF checks
<1>3. LateOK(packet, config) <=> \A i \in 1 .. 4 : checks[i][1]
  <2>1. (\A i \in 1 .. 4 : checks[i][1]) <=>
           checks[1][1] /\ checks[2][1] /\ checks[3][1] /\ checks[4][1]
    <3> HIDE DEF checks
    <3> QED
      BY <1>1
  <2> QED
    BY <2>1, LateChecksAre DEF LateOK
<1>4. /\ late = "Ok" <=> \A i \in 1 .. 4 : checks[i][1]
      /\ late # "Ok" => \E i \in 1 .. 4 : ~ checks[i][1] /\ late = checks[i][2]
  <2> HIDE DEF checks
  <2> QED
    BY <1>2, FirstErrorIs DEF late
<1>5. /\ checks[1][2] = "ChecksumFailed" /\ checks[2][2] = "UnsupportedMessageType"
      /\ checks[3][2] = "MalformedFrame" /\ checks[4][2] = "ReplayRangeInvalid"
  BY LateChecksAre DEF checks
<1>6. checks[1][1] <=> ChecksumOK(packet, config)
  BY LateChecksAre DEF checks
<1> HIDE DEF checks, late
<1>7. ASSUME late # "Ok"
      PROVE  /\ late \in {"ChecksumFailed", "UnsupportedMessageType", "MalformedFrame",
                          "ReplayRangeInvalid"}
             /\ ChecksumOK(packet, config) => late # "ChecksumFailed"
  <2>1. PICK i \in {1, 2, 3, 4} : ~ checks[i][1] /\ late = checks[i][2]
    BY <1>1, <1>4, <1>7
  <2> QED
    BY <1>5, <1>6, <2>1
<1> QED
  BY <1>3, <1>4, <1>7 DEF checks, late

(* decode's result.  The header is long enough when the walk begins.       *)
LEMMA DecodeIs ==
    ASSUME NEW packet, PacketTypeOK(packet), NEW config
    PROVE  /\ Decode(packet, config) = "Ok" <=>
                 /\ EarlyOK(packet, config)
                 /\ ExtensionWalk(packet) = "Ok"
                 /\ LateOK(packet, config)
           /\ Decode(packet, config) \in DOMAIN ErrorCode \cup {"Ok"}
           /\ Decode(packet, config) = "FrameTooLarge" <=>
                 LongEnough(packet) /\ ~ SizeAllowed(packet, config)
           /\ ChecksumOK(packet, config) => Decode(packet, config) # "ChecksumFailed"
<1> DEFINE early == FirstError(Checks(packet, config))
           late == FirstError(LateChecks(packet, config))
<1>1. /\ early = "Ok" <=> EarlyOK(packet, config)
      /\ early \in {"Ok", "MalformedFrame", "FrameTooLarge", "VersionMismatch"}
      /\ early = "FrameTooLarge" <=> LongEnough(packet) /\ ~ SizeAllowed(packet, config)
  BY EarlyResult
<1>2. /\ late = "Ok" <=> LateOK(packet, config)
      /\ late \in {"Ok", "ChecksumFailed", "UnsupportedMessageType", "MalformedFrame",
                   "ReplayRangeInvalid"}
      /\ ChecksumOK(packet, config) => late # "ChecksumFailed"
  BY LateResult
<1>3. Decode(packet, config) =
         IF early # "Ok" THEN early
         ELSE IF ExtensionWalk(packet) # "Ok" THEN ExtensionWalk(packet) ELSE late
  BY DEF Decode
<1>4. EarlyOK(packet, config) =>
         ExtensionWalk(packet) \in {"Ok", "MalformedFrame", "UnsupportedExtension"}
  <2>1. EarlyOK(packet, config) => ExtensionWords(packet) \in Nat
    BY DEF EarlyOK, HeaderLengthOK, PacketTypeOK, ExtensionWords, FIXED_HEADER_SIZE
  <2> QED
    BY <2>1, WalkRange DEF WalkResult
<1>5. DOMAIN ErrorCode =
         {"VersionMismatch", "MalformedFrame", "ChecksumFailed", "UnsupportedMessageType",
          "UnsupportedExtension", "ReplayRangeInvalid", "FrameTooLarge"}
  BY DEF ErrorCode
<1> HIDE DEF early, late
<1> QED
  BY <1>1, <1>2, <1>3, <1>4, <1>5

-----------------------------------------------------------------------------
(* The parser and the declarative reading of RTDP-1.md section 5 agree.    *)
LEMMA OneCover ==
    ASSUME NEW packet, NEW n \in Nat, NEW starts \in SUBSET (0 .. n - 1), NEW w
    PROVE  Cardinality({s \in starts : Covers(packet, s, w)}) = 1 <=>
              \E s \in starts : /\ Covers(packet, s, w)
                                /\ \A u \in starts : Covers(packet, u, w) => u = s
<1> DEFINE C == {s \in starts : Covers(packet, s, w)}
<1>1. IsFiniteSet(C)
  <2>1. IsFiniteSet(0 .. n - 1)
    BY FS_Interval
  <2>2. C \subseteq 0 .. n - 1
    OBVIOUS
  <2> HIDE DEF C
  <2> QED
    BY <2>1, <2>2, FS_Subset
<1>2. (\E x : C = {x}) <=> \E s \in starts : /\ Covers(packet, s, w)
                                           /\ \A u \in starts : Covers(packet, u, w) => u = s
  <2>1. ASSUME NEW x, C = {x}
        PROVE  /\ x \in starts /\ Covers(packet, x, w)
               /\ \A u \in starts : Covers(packet, u, w) => u = x
    <3>1. x \in C /\ \A u \in C : u = x
      BY <2>1
    <3> QED
      BY <3>1
  <2>2. ASSUME NEW s \in starts, Covers(packet, s, w),
               \A u \in starts : Covers(packet, u, w) => u = s
        PROVE  C = {s}
    BY <2>2
  <2> QED
    BY <2>1, <2>2
<1> HIDE DEF C
<1>3. Cardinality(C) = 1 <=> \E x : C = {x}
  BY <1>1, FS_Singleton
<1> QED
  BY <1>2, <1>3 DEF C

TiledArea(packet) ==
    \E starts \in SUBSET (0 .. ExtensionWords(packet) - 1) :
       /\ Tiles(starts, packet)
       /\ \A s \in starts : Word(packet, s + 1)[1] \notin CriticalTypes

LEMMA TiledAreaIs ==
    ASSUME NEW packet, ExtensionWords(packet) \in Nat
    PROVE  TiledArea(packet) <=> Tileable(packet, 0)
<1> DEFINE n == ExtensionWords(packet)
<1>1. ASSUME NEW starts \in SUBSET (0 .. n - 1)
      PROVE  Tiles(starts, packet) <=>
                /\ \A s \in starts : TlvEnd(packet, s) <= n
                /\ \A w \in 0 .. n - 1 : \E s \in starts :
                      /\ Covers(packet, s, w)
                      /\ \A u \in starts : Covers(packet, u, w) => u = s
  <2>1. Tiles(starts, packet) <=>
           /\ \A s \in starts : TlvEnd(packet, s) <= n
           /\ \A w \in 0 .. n - 1 : Cardinality({s \in starts : Covers(packet, s, w)}) = 1
    BY DEF Tiles, TlvEnd, Covers
  <2>2. \A w \in 0 .. n - 1 :
           Cardinality({s \in starts : Covers(packet, s, w)}) = 1 <=>
              \E s \in starts : /\ Covers(packet, s, w)
                                /\ \A u \in starts : Covers(packet, u, w) => u = s
    BY OneCover
  <2> QED
    BY <2>1, <2>2
<1>2. ASSUME NEW starts \in SUBSET (0 .. n - 1)
      PROVE  TilesFrom(packet, starts, 0) <=>
                /\ Tiles(starts, packet)
                /\ \A s \in starts : Word(packet, s + 1)[1] \notin CriticalTypes
  BY <1>1 DEF TilesFrom, TlvType
<1>3. \A starts : TilesFrom(packet, starts, 0) => starts \in SUBSET (0 .. n - 1)
  BY DEF TilesFrom
<1> QED
  BY <1>2, <1>3 DEF TiledArea, Tileable

(* The length checks, with and without an order.                           *)
LEMMA LengthsAre ==
    ASSUME NEW packet, PacketTypeOK(packet)
    PROVE  LongEnough(packet) /\ HeaderLengthOK(packet) /\ LengthsAgree(packet) <=>
              /\ packet.length >= FIXED_HEADER_SIZE
              /\ packet.header_length \in {FIXED_HEADER_SIZE + 4 * n : n \in 0 .. packet.length}
              /\ packet.length - packet.header_length = packet.payload_length
<1> DEFINE h == packet.header_length
           l == packet.length
           size == packet.payload_length
<1>1. h \in Nat /\ l \in Nat /\ size \in Nat
  BY DEF PacketTypeOK
<1>2. ASSUME h >= 48, h % 4 = 0, h <= l
      PROVE  \E n \in 0 .. l : h = 48 + 4 * n
  <2> DEFINE k == (h - 48) \div 4
  <2>1. k \in Int /\ h - 48 = 4 * k
    BY <1>1, <1>2
  <2>2. k \in 0 .. l
    BY <1>1, <1>2, <2>1
  <2> QED
    BY <1>1, <2>1, <2>2
<1>3. ASSUME NEW n \in 0 .. l, h = 48 + 4 * n
      PROVE  h >= 48 /\ h % 4 = 0
  BY <1>1, <1>3
<1> HIDE DEF h, l, size
<1>4. (h >= 48 /\ h % 4 = 0 /\ h <= l /\ h + size = l) <=>
         (h \in {48 + 4 * n : n \in 0 .. l} /\ l - h = size)
  BY <1>1, <1>2, <1>3
<1> QED
  BY <1>4 DEF LongEnough, HeaderLengthOK, LengthsAgree, FIXED_HEADER_SIZE, h, l, size

LEMMA KnownTypes ==
    ASSUME NEW type
    PROVE  KnownMessageType(type) <=> type \in MessageTypes \/ type \in SnapshotTypes
<1>1. type \in 1 .. 8 <=> type \in {1, 2, 3, 4, 5, 6, 7, 8}
  OBVIOUS
<1> QED
  BY <1>1 DEF KnownMessageType, MessageTypes, SnapshotTypes

(* Decoding accepts the well-formed packets, sound SNAPSHOT packets, and   *)
(* no others (codec.rs decode, extensions.rs ExtensionIterator): for every *)
(* packet, whatever lengths its fields and TLVs claim, and every           *)
(* configuration.                                                          *)
THEOREM ParserTheorem ==
    ASSUME NEW packet, PacketTypeOK(packet), NEW config, config.max_frame_size \in Nat
    PROVE  Decode(packet, config) = "Ok" <=>
              WellFormed(packet, config) \/ TakenSnapshot(packet, config)
<1>1. Decode(packet, config) = "Ok" <=>
         EarlyOK(packet, config) /\ ExtensionWalk(packet) = "Ok" /\ LateOK(packet, config)
  BY DecodeIs
<1>2. EarlyOK(packet, config) <=>
         /\ packet.length \in FIXED_HEADER_SIZE .. config.max_frame_size
         /\ packet.magic = MAGIC_RTDP
         /\ packet.version = RTDP_VERSION_1
         /\ packet.header_length \in {FIXED_HEADER_SIZE + 4 * n : n \in 0 .. packet.length}
         /\ packet.length - packet.header_length = packet.payload_length
  <2>1. packet.length \in FIXED_HEADER_SIZE .. config.max_frame_size <=>
           packet.length >= FIXED_HEADER_SIZE /\ packet.length <= config.max_frame_size
    BY DEF PacketTypeOK, FIXED_HEADER_SIZE
  <2> QED
    BY <2>1, LengthsAre DEF EarlyOK, LongEnough, SizeAllowed, MagicOK, VersionOK
<1>3. EarlyOK(packet, config) => (ExtensionWalk(packet) = "Ok" <=> TiledArea(packet))
  <2>1. EarlyOK(packet, config) => ExtensionWords(packet) \in Nat
    BY DEF EarlyOK, HeaderLengthOK, PacketTypeOK, ExtensionWords, FIXED_HEADER_SIZE
  <2> QED
    BY <2>1, WalkAccepts, TiledAreaIs
<1>4. LateOK(packet, config) <=>
         /\ config.validate_checksum => packet.checksum = Crc32c(packet)
         /\ packet.message_type \in MessageTypes \/ packet.message_type \in SnapshotTypes
         /\ packet.message_type = 2 => packet.payload_length = 0
         /\ packet.message_type = 3 => packet.payload_length = 24 /\ packet.range_ok
         /\ packet.message_type = 4 => packet.payload_length >= 8
         /\ packet.message_type = 5 => packet.payload_length = 24
  <2>1. PayloadOK(packet) /\ RangeOK(packet) <=>
           /\ packet.message_type = 2 => packet.payload_length = 0
           /\ packet.message_type = 3 => packet.payload_length = 24 /\ packet.range_ok
           /\ packet.message_type = 4 => packet.payload_length >= 8
           /\ packet.message_type = 5 => packet.payload_length = 24
    BY DEF PayloadOK, RangeOK, Heartbeat, ReplayRequest, ReplayResponse, ReplayUnavailable
  <2> QED
    BY <2>1, KnownTypes DEF LateOK, ChecksumOK
<1>5. WellFormed(packet, config) \/ TakenSnapshot(packet, config) <=>
         EarlyOK(packet, config) /\ TiledArea(packet) /\ LateOK(packet, config)
  BY <1>2, <1>4 DEF WellFormed, TakenSnapshot, Sound, TiledArea
<1> QED
  BY <1>1, <1>3, <1>5

-----------------------------------------------------------------------------
(* The ideal checksum.  A packet is a record of ten fields; Summed is the  *)
(* packet with another checksum field.                                     *)
Summed(p, sum) ==
    [length |-> p.length, magic |-> p.magic, version |-> p.version,
     message_type |-> p.message_type, header_length |-> p.header_length,
     payload_length |-> p.payload_length, meta |-> p.meta, words |-> p.words,
     range_ok |-> p.range_ok, checksum |-> sum]

IsPacket(p) == p = Summed(p, p.checksum)

LEMMA SummedIs ==
    ASSUME NEW p, NEW sum
    PROVE  /\ IsPacket(Summed(p, sum)) /\ Summed(p, sum).checksum = sum
           /\ \A other : Summed(Summed(p, sum), other) = Summed(p, other)
           /\ \A other : [Summed(p, sum) EXCEPT !.checksum = other] = Summed(p, other)
BY DEF IsPacket, Summed

LEMMA CrcIs ==
    ASSUME NEW p, IsPacket(p)
    PROVE  Crc32c(p) = Summed(p, 0)
BY SummedIs DEF IsPacket, Crc32c

(* The checksum encode writes, and that checksum damaged.                  *)
SumOf(frame) == Encoded(frame).checksum

DamagedSum(frame) == [SumOf(frame) EXCEPT !.checksum = 1]

LEMMA EncodedIs ==
    ASSUME NEW frame \in Frames
    PROVE  /\ IsPacket(Encoded(frame)) /\ PacketTypeOK(Encoded(frame))
           /\ SumOf(frame) = Summed(Encoded(frame), 0)
           /\ Encoded(frame).length = TotalSize(frame)
           /\ TotalSize(frame) \in Nat /\ TotalSize(frame) >= FIXED_HEADER_SIZE
           /\ ViewOf(Encoded(frame)) = frame
<1> DEFINE packet == [length |-> TotalSize(frame), magic |-> frame.magic,
                   version |-> frame.version, message_type |-> frame.message_type,
                   header_length |-> HeaderSize(frame) % 65536,
                   payload_length |-> frame.payload_length, meta |-> frame.meta,
                   words |-> frame.words, range_ok |-> frame.range_ok, checksum |-> 0]
<1>1. packet = Summed(packet, 0)
  BY DEF Summed
<1>2. Crc32c(packet) = Summed(packet, 0)
  BY <1>1, SummedIs DEF Crc32c
<1>3. Encoded(frame) = Summed(packet, Summed(packet, 0))
  <2>1. Encoded(frame) = [packet EXCEPT !.checksum = Crc32c(packet)]
    BY DEF Encoded
  <2> HIDE DEF packet
  <2> QED
    BY <1>1, <1>2, <2>1, SummedIs
<1>4. IsPacket(Encoded(frame)) /\ SumOf(frame) = Summed(Encoded(frame), 0)
  BY <1>3, SummedIs DEF SumOf
<1>5. frame \in [magic : Nat, version : Nat, message_type : Nat, meta : {f.meta : f \in Frames},
                words : Seq(U16 \X U16), payload_length : Nat, range_ok : BOOLEAN]
  BY CodecAssumption
<1>6. /\ frame.payload_length \in Nat /\ frame.words \in Seq(U16 \X U16)
      /\ frame = [magic |-> frame.magic, version |-> frame.version,
                  message_type |-> frame.message_type, meta |-> frame.meta,
                  words |-> frame.words, payload_length |-> frame.payload_length,
                  range_ok |-> frame.range_ok]
  BY <1>5
<1>7. Len(frame.words) \in Nat
  BY <1>6, LenProperties
<1>8. /\ HeaderSize(frame) \in Nat /\ HeaderSize(frame) % 65536 \in Nat
      /\ TotalSize(frame) \in Nat /\ TotalSize(frame) >= FIXED_HEADER_SIZE
  BY <1>6, <1>7 DEF HeaderSize, TotalSize, FIXED_HEADER_SIZE
<1>9. /\ Encoded(frame).length = TotalSize(frame)
      /\ Encoded(frame).header_length = HeaderSize(frame) % 65536
      /\ Encoded(frame).magic = frame.magic
      /\ Encoded(frame).version = frame.version
      /\ Encoded(frame).message_type = frame.message_type
      /\ Encoded(frame).meta = frame.meta
      /\ Encoded(frame).words = frame.words
      /\ Encoded(frame).payload_length = frame.payload_length
      /\ Encoded(frame).range_ok = frame.range_ok
  BY <1>3 DEF Summed
<1>10. ViewOf(Encoded(frame)) = frame
  BY <1>6, <1>9 DEF ViewOf
<1> QED
  BY <1>4, <1>6, <1>8, <1>9, <1>10 DEF PacketTypeOK

(* A packet that carries the checksum of a frame, damaged or not, and is   *)
(* not that frame's encoding, does not match its checksum.                 *)
LEMMA DamageShows ==
    ASSUME NEW frame \in Frames, NEW p, IsPacket(p),
           p.checksum \in {SumOf(frame), DamagedSum(frame)}, p # Encoded(frame)
    PROVE  p.checksum # Crc32c(p)
<1> SUFFICES ASSUME p.checksum = Crc32c(p) PROVE FALSE
  OBVIOUS
<1>1. p.checksum = Summed(p, 0)
  BY CrcIs
<1>2. CASE p.checksum = SumOf(frame)
  <2>1. Summed(p, 0) = Summed(Encoded(frame), 0)
    BY <1>1, <1>2, EncodedIs
  <2>2. p = Summed(Summed(p, 0), SumOf(frame))
    BY <1>2, SummedIs DEF IsPacket
  <2>3. Encoded(frame) = Summed(Summed(Encoded(frame), 0), SumOf(frame))
    BY EncodedIs, SummedIs DEF IsPacket, SumOf
  <2> QED
    BY <2>1, <2>2, <2>3
<1>3. CASE p.checksum = DamagedSum(frame)
  <2>1. DamagedSum(frame) = Summed(Encoded(frame), 1)
    BY EncodedIs, SummedIs DEF DamagedSum
  <2>2. Summed(p, 0).checksum = 1
    BY <1>1, <1>3, <2>1, SummedIs
  <2> QED
    BY <2>2, SummedIs
<1> QED
  BY <1>2, <1>3

-----------------------------------------------------------------------------
(* The buffer and the out parameters along a behaviour.  A damaged packet  *)
(* keeps its form and the checksum of the frame it was encoded from, apart *)
(* from damage to the checksum itself.                                     *)
Packets(frame) ==
    [length : Int, magic : Int, version : Int, message_type : Int, header_length : Int,
     payload_length : Int, meta : {frame.meta, "damaged"}, words : Seq(U16 \X U16),
     range_ok : BOOLEAN, checksum : {SumOf(frame), DamagedSum(frame)}]

BufferInv ==
    buffer # None =>
        /\ sent \in Frames
        /\ buffer \in Packets(sent) /\ PacketTypeOK(buffer)
        /\ damage = 0 => buffer = Encoded(sent)
        /\ damage > 0 => buffer # Encoded(sent)

ResultInv ==
    decoded =>
        /\ status = ReturnCode(DecodeResult)
        /\ DecodeResult = "Ok" => view = ViewOf(buffer)

CodecInv ==
    /\ codec # None => codec \in Configs
    /\ damage \in Nat
    /\ BufferInv
    /\ ResultInv

LEMMA PacketsAre ==
    ASSUME NEW frame, NEW p \in Packets(frame)
    PROVE  IsPacket(p) /\ p.checksum \in {SumOf(frame), DamagedSum(frame)}
BY DEF Packets, IsPacket, Summed

(* One damaged field.                                                      *)
LEMMA DamagedPacket ==
    ASSUME CodecInv, Damage
    PROVE  DamageTo(buffer') /\ buffer' \in Packets(sent)
<1> DEFINE WithLength(l) == [buffer EXCEPT !.length = l]
           WithMagic(v) == [buffer EXCEPT !.magic = v]
           WithVersion(v) == [buffer EXCEPT !.version = v]
           WithMeta == [buffer EXCEPT !.meta = "damaged"]
           WithRange(r) == [buffer EXCEPT !.range_ok = r]
           WithType(t) == [buffer EXCEPT !.message_type = t]
           WithHeader(l, r) == [buffer EXCEPT !.header_length = l, !.range_ok = r]
           WithPayload(l) == [buffer EXCEPT !.payload_length = l]
           WithSum(sum) == [buffer EXCEPT !.checksum = sum]
           WithWords(words) == [buffer EXCEPT !.words = words]
           BadSum == [buffer.checksum EXCEPT !.checksum = 1]
           BadWords(i, w) == [buffer.words EXCEPT ![i] = w]
<1>1. sent \in Frames /\ buffer \in Packets(sent)
  BY DEF Damage, CodecInv, BufferInv
<1>2. /\ \A l \in Int : WithLength(l) \in Packets(sent)
      /\ \A v \in Int : WithMagic(v) \in Packets(sent)
      /\ \A v \in Int : WithVersion(v) \in Packets(sent)
  BY <1>1 DEF Packets
<1>3. /\ WithMeta \in Packets(sent)
      /\ \A r \in BOOLEAN : WithRange(r) \in Packets(sent)
      /\ \A t \in Int : WithType(t) \in Packets(sent)
  BY <1>1 DEF Packets
<1>4. \A l \in Int, r \in BOOLEAN : WithHeader(l, r) \in Packets(sent)
  BY <1>1 DEF Packets
<1>5. \A l \in Int : WithPayload(l) \in Packets(sent)
  BY <1>1 DEF Packets
<1>6. \A sum \in {SumOf(sent), DamagedSum(sent)} : WithSum(sum) \in Packets(sent)
  BY <1>1 DEF Packets
<1>7. \A words \in Seq(U16 \X U16) : WithWords(words) \in Packets(sent)
  BY <1>1 DEF Packets
<1>8. /\ buffer.length \in Int /\ buffer.header_length \in Int /\ buffer.payload_length \in Int
      /\ buffer.words \in Seq(U16 \X U16)
      /\ buffer.checksum \in {SumOf(sent), DamagedSum(sent)}
  BY <1>1 DEF Packets
<1>9. BadSum = DamagedSum(sent)
  <2>1. SumOf(sent) = Summed(Encoded(sent), 0)
    BY <1>1, EncodedIs
  <2>2. /\ [SumOf(sent) EXCEPT !.checksum = 1] = Summed(Encoded(sent), 1)
        /\ DamagedSum(sent) = Summed(Encoded(sent), 1)
    BY <2>1, SummedIs DEF DamagedSum
  <2>3. [DamagedSum(sent) EXCEPT !.checksum = 1] = Summed(Encoded(sent), 1)
    BY <2>2, SummedIs
  <2> QED
    BY <1>8, <2>2, <2>3
<1>10. \A i \in DOMAIN buffer.words, w \in OtherWords : BadWords(i, w) \in Seq(U16 \X U16)
  <2>1. 32769 \in U16 /\ 0 \in U16 /\ 7 \in U16 /\ 8 \in U16
    BY DEF U16, MaxU16
  <2>2. \A w \in OtherWords : w \in U16 \X U16
    BY <2>1 DEF OtherWords
  <2> QED
    BY <1>8, <2>2, ExceptSeq
<1>11. /\ {40, buffer.length - 4, buffer.length - 1, buffer.length + 4} \subseteq Int
       /\ {44, 50, buffer.header_length - 4, buffer.header_length + 4} \subseteq Int
       /\ {buffer.payload_length - 4, buffer.payload_length + 4} \subseteq Int
       /\ OtherTypes \subseteq Int /\ 0 \in Int /\ 2 \in Int
  BY <1>8 DEF OtherTypes
<1>12. (~ buffer.range_ok) \in BOOLEAN
  OBVIOUS
<1>13. \/ \E l \in {40, buffer.length - 4, buffer.length - 1, buffer.length + 4} :
              DamageTo(WithLength(l))
       \/ DamageTo(WithMagic(0))
       \/ DamageTo(WithVersion(2))
       \/ \E t \in OtherTypes : DamageTo(WithType(t))
       \/ \E l \in {44, 50, buffer.header_length - 4, buffer.header_length + 4}, r \in BOOLEAN :
             DamageTo(WithHeader(l, r))
       \/ \E l \in {buffer.payload_length - 4, buffer.payload_length + 4} :
             DamageTo(WithPayload(l))
       \/ DamageTo(WithMeta)
       \/ \E i \in DOMAIN buffer.words, w \in OtherWords : DamageTo(WithWords(BadWords(i, w)))
       \/ DamageTo(WithRange(~ buffer.range_ok))
       \/ DamageTo(WithSum(BadSum))
  BY DEF Damage
<1> HIDE DEF WithLength, WithMagic, WithVersion, WithMeta, WithRange, WithType, WithHeader,
             WithPayload, WithSum, WithWords, BadSum, BadWords
<1>14. \E p \in Packets(sent) : DamageTo(p)
  BY <1>2, <1>3, <1>4, <1>5, <1>6, <1>7, <1>9, <1>10, <1>11, <1>12, <1>13, Zenon
<1> QED
  BY <1>14 DEF DamageTo

LEMMA InvDamage == ASSUME CodecInv, Damage PROVE CodecInv'
<1>1. /\ {buffer'.length, buffer'.header_length, buffer'.payload_length} \subseteq Nat
      /\ buffer' # Encoded(sent) /\ buffer' \in Packets(sent) /\ sent \in Frames
  BY DamagedPacket DEF DamageTo, Damage, CodecInv, BufferInv
<1>2. damage' = damage + 1 /\ decoded' = FALSE /\ UNCHANGED <<codec, status, view, sent>>
  BY DEF Damage
<1>3. PacketTypeOK(buffer')
  BY <1>1 DEF PacketTypeOK, Packets
<1> QED
  BY <1>1, <1>2, <1>3 DEF CodecInv, BufferInv, ResultInv

LEMMA InvEncode ==
    ASSUME CodecInv, NEW frame \in Frames, NEW capacity \in Capacities,
           rtdp_encode(frame, capacity)
    PROVE  CodecInv'
<1>1. decoded' = FALSE /\ UNCHANGED codec
  BY DEF rtdp_encode
<1>2. CASE EncodeResult(frame, capacity) = "Ok"
  <2>1. buffer' = Encoded(frame) /\ sent' = frame /\ damage' = 0
    BY <1>2 DEF rtdp_encode
  <2>2. Encoded(frame) \in Packets(frame)
    <3>1. frame \in [magic : Nat, version : Nat, message_type : Nat,
                    meta : {f.meta : f \in Frames}, words : Seq(U16 \X U16),
                    payload_length : Nat, range_ok : BOOLEAN]
      BY CodecAssumption
    <3>2. /\ frame.magic \in Int /\ frame.version \in Int /\ frame.message_type \in Int
          /\ frame.range_ok \in BOOLEAN
      BY <3>1
    <3> DEFINE e == Encoded(frame)
    <3>3. e = Summed(e, e.checksum) /\ PacketTypeOK(e) /\ ViewOf(e) = frame
          /\ e.checksum = SumOf(frame)
      BY EncodedIs DEF IsPacket, SumOf
    <3>4. /\ e.magic = frame.magic /\ e.version = frame.version
          /\ e.message_type = frame.message_type /\ e.meta = frame.meta
          /\ e.range_ok = frame.range_ok
      <4> HIDE DEF e
      <4> QED
        BY <3>3 DEF ViewOf
    <3> HIDE DEF e
    <3>5. Summed(e, e.checksum) \in Packets(frame)
      BY <3>2, <3>3, <3>4 DEF Summed, Packets, PacketTypeOK
    <3> QED
      BY <3>3, <3>5 DEF e
  <2> QED
    BY <1>1, <2>1, <2>2, EncodedIs DEF CodecInv, BufferInv, ResultInv
<1>3. CASE EncodeResult(frame, capacity) # "Ok"
  <2>1. UNCHANGED <<buffer, sent, damage>>
    BY <1>3 DEF rtdp_encode
  <2> QED
    BY <1>1, <2>1 DEF CodecInv, BufferInv, ResultInv
<1> QED
  BY <1>2, <1>3

LEMMA CodecInvInit == CodecInit => CodecInv
BY DEF CodecInit, CodecInv, BufferInv, ResultInv

LEMMA CodecInvNext == CodecInv /\ [CodecNext]_codecVars => CodecInv'
<1> SUFFICES ASSUME CodecInv, [CodecNext]_codecVars PROVE CodecInv'
  OBVIOUS
<1>1. ASSUME NEW config \in Configs, rtdp_codec_create(config) PROVE CodecInv'
  BY <1>1 DEF rtdp_codec_create, CodecInv, BufferInv, ResultInv
<1>2. CASE rtdp_codec_destroy
  BY <1>2 DEF rtdp_codec_destroy, CodecInv, BufferInv, ResultInv
<1>3. CASE rtdp_decode
  <2>1. UNCHANGED <<codec, buffer, sent, damage>>
    BY <1>3 DEF rtdp_decode
  <2>2. DecodeResult' = DecodeResult
    BY <2>1 DEF DecodeResult
  <2> QED
    BY <1>3, <2>1, <2>2 DEF rtdp_decode, CodecInv, BufferInv, ResultInv
<1>4. CASE UNCHANGED codecVars
  <2>1. DecodeResult' = DecodeResult
    BY <1>4 DEF codecVars, DecodeResult
  <2> QED
    BY <1>4, <2>1 DEF codecVars, CodecInv, BufferInv, ResultInv
<1> QED
  BY <1>1, <1>2, <1>3, <1>4, InvEncode, InvDamage DEF CodecNext

(* The buffer holds the encoding of what was sent or a damaged form of it, *)
(* and the C caller sees the result of the decode it asked for (c-abi      *)
(* lib.rs rtdp_encode, rtdp_decode).                                       *)
THEOREM CodecInvariant == CodecSpec => []CodecInv
BY CodecInvInit, CodecInvNext, PTL DEF CodecSpec

(* The return codes of three results.                                      *)
LEMMA ReturnCodeIs ==
    ASSUME NEW result \in DOMAIN ErrorCode \cup {"Ok"}
    PROVE  /\ ReturnCode(result) = 0 <=> result = "Ok"
           /\ ReturnCode(result) = -10 <=> result = "FrameTooLarge"
           /\ ReturnCode(result) = -3 <=> result = "ChecksumFailed"
BY DEF ErrorCode, ReturnCode

LEMMA DecodedIs ==
    ASSUME CodecInv, decoded, codec # None, buffer # None
    PROVE  /\ codec \in Configs /\ PacketTypeOK(buffer) /\ codec.max_frame_size \in Nat
           /\ status = 0 <=> Decode(buffer, codec) = "Ok"
           /\ status = -10 <=> LongEnough(buffer) /\ ~ SizeAllowed(buffer, codec)
           /\ status = -3 => ~ ChecksumOK(buffer, codec)
<1>1. codec \in Configs /\ PacketTypeOK(buffer) /\ status = ReturnCode(Decode(buffer, codec))
  BY DEF CodecInv, BufferInv, ResultInv, DecodeResult
<1>2. codec.max_frame_size \in Nat
  BY <1>1, CodecAssumption
<1> QED
  BY <1>1, <1>2, DecodeIs, ReturnCodeIs

(* rtdp_decode returns 0 exactly for the well-formed packets and sound     *)
(* SNAPSHOT packets, after any history of calls and any damage (codec.rs   *)
(* decode, extensions.rs ExtensionIterator, c-abi lib.rs rtdp_decode), for *)
(* all frames, settings and TLV lengths.                                   *)
THEOREM AcceptanceTheorem == CodecSpec => []AcceptsTheWellFormed
<1>1. CodecInv => AcceptsTheWellFormed
  BY DecodedIs, ParserTheorem DEF AcceptsTheWellFormed
<1> QED
  BY <1>1, CodecInvariant, PTL

(* An undamaged frame decodes to itself or is refused, for its size only   *)
(* if it is larger than the decoder's limit, and never for its checksum    *)
(* (codec.rs encode and decode): whatever the two codecs' settings.        *)
THEOREM RoundTripTheorem == CodecSpec => []RoundTrip
<1>1. ASSUME CodecInv PROVE RoundTrip
  <2> SUFFICES ASSUME decoded, codec # None, buffer # None, damage = 0
               PROVE  /\ status = 0 => view = sent
                      /\ status = -10 <=> TotalSize(sent) > codec.max_frame_size
                      /\ status # -3
    BY DEF RoundTrip
  <2>1. sent \in Frames /\ buffer = Encoded(sent)
    BY <1>1 DEF CodecInv, BufferInv
  <2>2. /\ IsPacket(buffer) /\ buffer.checksum = Summed(buffer, 0) /\ buffer.length = TotalSize(sent)
        /\ TotalSize(sent) \in Nat /\ TotalSize(sent) >= FIXED_HEADER_SIZE
        /\ ViewOf(buffer) = sent
    BY <2>1, EncodedIs DEF SumOf
  <2>3. ChecksumOK(buffer, codec)
    BY <2>2, CrcIs DEF ChecksumOK
  <2>4. status = 0 => view = sent
    BY <1>1, <2>2, DecodedIs DEF CodecInv, ResultInv, DecodeResult
  <2>5. status = -10 <=> TotalSize(sent) > codec.max_frame_size
    BY <1>1, <2>2, DecodedIs DEF LongEnough, SizeAllowed
  <2> QED
    BY <1>1, <2>3, <2>4, <2>5, DecodedIs
<1> QED
  BY <1>1, CodecInvariant, PTL

(* With checksum validation no damaged packet is accepted (codec.rs decode *)
(* step 6), however many fields are damaged, as far as CRC-32C is ideal.   *)
THEOREM DamageTheorem == CodecSpec => []DamageIsRejected
<1>1. ASSUME CodecInv PROVE DamageIsRejected
  <2> SUFFICES ASSUME decoded, codec # None, damage > 0, status = 0, codec.validate_checksum
               PROVE  FALSE
    BY DEF DamageIsRejected
  <2>1. buffer # None
    <3> SUFFICES ASSUME buffer = None PROVE FALSE
      OBVIOUS
    <3>1. status = ReturnCode("MalformedFrame")
      BY <1>1 DEF CodecInv, ResultInv, DecodeResult
    <3> QED
      BY <3>1, ReturnCodeIs DEF ErrorCode
  <2>2. sent \in Frames /\ buffer \in Packets(sent) /\ buffer # Encoded(sent)
    BY <1>1, <2>1 DEF CodecInv, BufferInv
  <2>3. buffer.checksum # Crc32c(buffer)
    BY <2>2, PacketsAre, DamageShows
  <2>4. ChecksumOK(buffer, codec)
    BY <1>1, <2>1, DecodedIs, DecodeIs DEF LateOK
  <2> QED
    BY <2>3, <2>4 DEF ChecksumOK
<1> QED
  BY <1>1, CodecInvariant, PTL
=============================================================================
