----------------------------- MODULE CodecCalls -----------------------------
(***************************************************************************)
(* The codec as its callers use it, through the C ABI (src/c-abi/src/      *)
(* lib.rs): codecs are created and destroyed, a frame is encoded into a    *)
(* buffer, the network may damage the buffer, and a decoder, which may be  *)
(* configured otherwise than the encoder, takes it in.  rtdp_encode passes *)
(* no extensions; the frames here have them, as those of Rust callers may. *)
(***************************************************************************)
EXTENDS FrameCodec

CONSTANTS
    Frames,      \* frames callers encode
    Configs,     \* CodecConfigs in use
    Capacities,  \* sizes of the callers' output buffers
    MaxDamage,   \* bound on the header or body fields the network damages
    None         \* a null pointer

(* Extensions are whole words; a TLV's type and length are u16.            *)
MaxU16 == 65535

U16 == 0 .. MaxU16

ASSUME CodecAssumption ==
    /\ Frames \subseteq
          [magic : Nat, version : Nat, message_type : Nat, meta : {f.meta : f \in Frames},
           words : Seq(U16 \X U16), payload_length : Nat, range_ok : BOOLEAN]
    /\ Configs \subseteq [max_frame_size : Nat, validate_checksum : BOOLEAN]
    /\ Capacities \subseteq Nat
    /\ MaxDamage \in Nat

VARIABLES
    codec,    \* rtdp_codec_t* : its config, or None
    buffer,   \* the packet in the caller's buffer, or None
    status,   \* value returned by the last rtdp_encode or rtdp_decode
    view,     \* what rtdp_decode wrote to its out parameters, or None
    sent,     \* history: the frame in the buffer was encoded from
    damage,   \* history: fields damaged since it was encoded
    decoded   \* history: the last call was rtdp_decode

codecVars == <<codec, buffer, status, view, sent, damage, decoded>>

CodecInit ==
    /\ codec = None
    /\ buffer = None
    /\ status = 0
    /\ view = None
    /\ sent = None
    /\ damage = 0
    /\ decoded = FALSE

(* 0, or the negative of the error's code.                                 *)
ReturnCode(error) == IF error = "Ok" THEN 0 ELSE - ErrorCode[error]

-----------------------------------------------------------------------------
rtdp_codec_create(config) ==
    /\ codec = None
    /\ codec' = config
    /\ decoded' = FALSE
    /\ UNCHANGED <<buffer, status, view, sent, damage>>

rtdp_codec_destroy ==
    /\ codec # None
    /\ codec' = None
    /\ decoded' = FALSE
    /\ UNCHANGED <<buffer, status, view, sent, damage>>

(* rtdp_encode: a null codec, then the message type, then encode's checks; *)
(* the buffer is written only if none fails.                               *)
EncodeResult(frame, capacity) ==
    IF codec = None THEN "MalformedFrame"
    ELSE IF ~ KnownMessageType(frame.message_type) THEN "UnsupportedMessageType"
         ELSE EncodeError(frame, codec, capacity)

rtdp_encode(frame, capacity) ==
    LET result == EncodeResult(frame, capacity)
    IN  /\ buffer = None
        /\ status' = ReturnCode(result)
        /\ buffer' = IF result = "Ok" THEN Encoded(frame) ELSE buffer
        /\ sent' = IF result = "Ok" THEN frame ELSE sent
        /\ damage' = IF result = "Ok" THEN 0 ELSE damage
        /\ decoded' = FALSE
        /\ UNCHANGED <<codec, view>>

(* rtdp_decode: a null codec or buffer, then decode.  The out parameters   *)
(* are written only on success.                                            *)
DecodeResult ==
    IF codec = None \/ buffer = None THEN "MalformedFrame" ELSE Decode(buffer, codec)

rtdp_decode ==
    /\ status' = ReturnCode(DecodeResult)
    /\ view' = IF DecodeResult = "Ok" THEN ViewOf(buffer) ELSE view
    /\ decoded' = TRUE
    /\ UNCHANGED <<codec, buffer, sent, damage>>

(* Values damaged message types and extension words take.                  *)
OtherTypes == {1, 3, 6, 9, 65280}

OtherWords == {<<32769, 0>>, <<7, 8>>}

DamageTo(p) ==
    /\ p # buffer
    /\ {p.length, p.header_length, p.payload_length} \subseteq Nat
    /\ p # Encoded(sent)
    /\ buffer' = p

(* The network: one field of the packet arrives with another value, the    *)
(* packet is cut short, or bytes follow it.  Other lengths make decode     *)
(* read other bytes where it looks for a replay request's range.           *)
Damage ==
    /\ buffer # None
    /\ damage < MaxDamage
    /\ \/ \E l \in {40, buffer.length - 4, buffer.length - 1, buffer.length + 4} :
             DamageTo([buffer EXCEPT !.length = l])
       \/ DamageTo([buffer EXCEPT !.magic = 0])
       \/ DamageTo([buffer EXCEPT !.version = 2])
       \/ \E t \in OtherTypes : DamageTo([buffer EXCEPT !.message_type = t])
       \/ \E l \in {44, 50, buffer.header_length - 4, buffer.header_length + 4}, r \in BOOLEAN :
             DamageTo([buffer EXCEPT !.header_length = l, !.range_ok = r])
       \/ \E l \in {buffer.payload_length - 4, buffer.payload_length + 4} :
             DamageTo([buffer EXCEPT !.payload_length = l])
       \/ DamageTo([buffer EXCEPT !.meta = "damaged"])
       \/ \E i \in DOMAIN buffer.words, w \in OtherWords :
             DamageTo([buffer EXCEPT !.words = [@ EXCEPT ![i] = w]])
       \/ DamageTo([buffer EXCEPT !.range_ok = ~ @])
       \/ DamageTo([buffer EXCEPT !.checksum = [@ EXCEPT !.checksum = 1]])
    /\ damage' = damage + 1
    /\ decoded' = FALSE
    /\ UNCHANGED <<codec, status, view, sent>>

CodecNext ==
    \/ \E config \in Configs : rtdp_codec_create(config)
    \/ rtdp_codec_destroy
    \/ \E frame \in Frames, capacity \in Capacities : rtdp_encode(frame, capacity)
    \/ rtdp_decode
    \/ Damage

CodecSpec == CodecInit /\ [][CodecNext]_codecVars

-----------------------------------------------------------------------------
(* Extension types with the critical bit set.                              *)
CriticalTypes == CRITICAL_EXTENSION_BIT .. MaxU16

(* RTDP-1.md section 5 as one condition without an order of checks: the    *)
(* extension area is cut into TLVs that cover every word once, and none of *)
(* them is critical and unknown.                                           *)
Tiles(starts, packet) ==
    LET n      == ExtensionWords(packet)
        End(s) == s + TlvWords(Word(packet, s + 1)[2])
    IN  /\ \A s \in starts : End(s) <= n
        /\ \A w \in 0 .. n - 1 : Cardinality({s \in starts : s <= w /\ w < End(s)}) = 1

(* All rules but the one on the message type itself.                       *)
Sound(packet, config) ==
    /\ packet.length \in FIXED_HEADER_SIZE .. config.max_frame_size
    /\ packet.magic = MAGIC_RTDP
    /\ packet.version = RTDP_VERSION_1
    /\ packet.header_length \in {FIXED_HEADER_SIZE + 4 * n : n \in 0 .. packet.length}
    /\ packet.length - packet.header_length = packet.payload_length
    /\ \E starts \in SUBSET (0 .. ExtensionWords(packet) - 1) :
          /\ Tiles(starts, packet)
          /\ \A s \in starts : Word(packet, s + 1)[1] \notin CriticalTypes
    /\ config.validate_checksum => packet.checksum = Crc32c(packet)
    /\ packet.message_type = 2 => packet.payload_length = 0
    /\ packet.message_type = 3 => packet.payload_length = 24 /\ packet.range_ok
    /\ packet.message_type = 4 => packet.payload_length >= 8
    /\ packet.message_type = 5 => packet.payload_length = 24

(* The types of RTDP-1.md section 4 that v0.1 has, and the two it lists as *)
(* "Rejected in v0.1".                                                     *)
MessageTypes == {1, 2, 3, 4, 5, 8} \cup 65280 .. 65535

SnapshotTypes == {6, 7}

WellFormed(packet, config) == Sound(packet, config) /\ packet.message_type \in MessageTypes

(* What RTDP-1.md:109-110 has rejected with UNSUPPORTED_MESSAGE_TYPE, as   *)
(* error-codes.md:36 has ("snapshot messages in v0.1"), and decode takes:  *)
(* MessageType::from_u16 knows both types (header.rs:31-32), and nothing   *)
(* after it looks at them.                                                 *)
TakenSnapshot(packet, config) == Sound(packet, config) /\ packet.message_type \in SnapshotTypes

(* The step-by-step parser, with its early returns and its walk over TLVs  *)
(* whose lengths come from the wire, accepts the well-formed packets and,  *)
(* against RTDP-1.md:109-110, sound SNAPSHOT packets, and nothing else: no *)
(* TLV length, alignment or cut makes it read or skip bytes that the       *)
(* declarative reading of RTDP-1.md section 5 would not.                   *)
AcceptsTheWellFormed ==
    decoded /\ codec # None /\ buffer # None =>
        (status = 0 <=> WellFormed(buffer, codec) \/ TakenSnapshot(buffer, codec))

(* A frame survives encode, the wire and decode unchanged, or is refused   *)
(* because it broke a rule encode does not check or is longer than the     *)
(* decoder accepts: whatever the two codecs' settings.                     *)
RoundTrip ==
    decoded /\ codec # None /\ buffer # None /\ damage = 0 =>
        /\ status = 0 => view = sent
        /\ status = -10 <=> TotalSize(sent) > codec.max_frame_size
        /\ status # -3

(* A codec that validates checksums accepts no damaged packet, also when   *)
(* two damaged length fields cancel out.                                   *)
DamageIsRejected ==
    decoded /\ codec # None /\ damage > 0 =>
        (status = 0 => ~ codec.validate_checksum)
=============================================================================
