----------------------------- MODULE FrameCodec -----------------------------
(***************************************************************************)
(* FrameCodec (src/core/src/serialization/codec.rs) with the fixed header  *)
(* and the TLV extensions it parses (protocol/header.rs, extensions.rs).   *)
(*                                                                         *)
(* A packet is the bytes of one datagram by what the checks read in them:  *)
(* its length, the header fields, the 4-byte words of the extension area,  *)
(* each as <<type, length>>, the form the walk reads a TLV header in, and, *)
(* of a replay request, whether from <= to.  The fields decode only copies *)
(* (flags, stream_id, sequence, timestamp_ns, publisher_id) are one opaque *)
(* value, meta.  A frame is what encode is given.                          *)
(***************************************************************************)
EXTENDS Integers, Sequences, FiniteSetsExt

FIXED_HEADER_SIZE == 48

MAGIC_RTDP == 21076  \* 0x5254

RTDP_VERSION_1 == 1

(* MessageType::from_u16 *)
KnownMessageType(type) == type \in 1 .. 8 \cup 65280 .. 65535

Heartbeat == 2

ReplayRequest == 3

ReplayResponse == 4

ReplayUnavailable == 5

ErrorCode ==
    [VersionMismatch |-> 1, MalformedFrame |-> 2, ChecksumFailed |-> 3,
     UnsupportedMessageType |-> 4, UnsupportedExtension |-> 5,
     ReplayRangeInvalid |-> 7, FrameTooLarge |-> 10]

-----------------------------------------------------------------------------
(* CRC-32C over the frame with the checksum field zeroed, as an injective  *)
(* function of everything else in the frame: damage that CRC-32C does not  *)
(* notice is outside the model.                                            *)
Crc32c(packet) == [packet EXCEPT !.checksum = 0]

(* wire_len and next: a TLV header and its value padded to whole words.    *)
TlvWords(length) == 1 + (length + 3) \div 4

CRITICAL_EXTENSION_BIT == 32768  \* 0x8000

Critical(type) == type >= CRITICAL_EXTENSION_BIT

is_known_extension(type) == type \in {1, 2}

(* Word i of the extension area as decode finds it.  A header_length that  *)
(* reaches into the payload makes the walk read payload bytes, here zeros. *)
Word(packet, i) == IF i <= Len(packet.words) THEN packet.words[i] ELSE <<0, 0>>

ExtensionWords(packet) == (packet.header_length - FIXED_HEADER_SIZE) \div 4

(* Mutant: the walk checks that a TLV starts, not that it ends, within the *)
(* header.                                                                 *)
WalkWithoutBound(packet) ==
    LET n == ExtensionWords(packet)
        from[o \in Nat] ==
            IF o >= n THEN "Ok"
            ELSE LET word == Word(packet, o + 1)
                 IN  IF Critical(word[1]) /\ ~ is_known_extension(word[1])
                     THEN "UnsupportedExtension"
                     ELSE from[o + TlvWords(word[2])]
    IN  from[0]

(* The walk over the extensions from word offset 0 (ExtensionIterator and  *)
(* step 5 of decode): a TLV that does not fit ends it before its type is   *)
(* looked at.                                                              *)
ExtensionWalk(packet) ==
    LET n == ExtensionWords(packet)
        from[o \in 0 .. n] ==
            IF o = n THEN "Ok"
            ELSE LET word == Word(packet, o + 1)
                     next == o + TlvWords(word[2])
                 IN  IF next > n THEN "MalformedFrame"
                     ELSE IF Critical(word[1]) /\ ~ is_known_extension(word[1])
                          THEN "UnsupportedExtension"
                          ELSE from[next]
    IN  from[0]

-----------------------------------------------------------------------------
(* The checks of decode that come before the extensions, as one predicate  *)
(* per step.                                                               *)
LongEnough(packet) == packet.length >= FIXED_HEADER_SIZE

SizeAllowed(packet, config) == packet.length <= config.max_frame_size

MagicOK(packet) == packet.magic = MAGIC_RTDP

VersionOK(packet) == packet.version = RTDP_VERSION_1

HeaderLengthOK(packet) ==
    /\ packet.header_length >= FIXED_HEADER_SIZE
    /\ packet.header_length % 4 = 0
    /\ packet.header_length <= packet.length

LengthsAgree(packet) == packet.header_length + packet.payload_length = packet.length

(* Mutant: the checksum leaves out the extensions.                         *)
ChecksumWithoutExtensions(packet, config) ==
    config.validate_checksum =>
        [packet.checksum EXCEPT !.words = <<>>] = [Crc32c(packet) EXCEPT !.words = <<>>]

ChecksumOK(packet, config) ==
    config.validate_checksum => packet.checksum = Crc32c(packet)

(* The payload rules of the message types.                                 *)
PayloadOK(packet) ==
    LET type == packet.message_type
        size == packet.payload_length
    IN  /\ type = Heartbeat => size = 0
        /\ type \in {ReplayRequest, ReplayUnavailable} => size = 24
        /\ type = ReplayResponse => size >= 8

RangeOK(packet) == packet.message_type = ReplayRequest => packet.range_ok

(* The checks in the order decode makes them, each with its error.         *)
Checks(packet, config) ==
    << <<LongEnough(packet), "MalformedFrame">>,
       <<SizeAllowed(packet, config), "FrameTooLarge">>,
       <<MagicOK(packet), "MalformedFrame">>,
       <<VersionOK(packet), "VersionMismatch">>,
       <<HeaderLengthOK(packet), "MalformedFrame">>,
       <<LengthsAgree(packet), "MalformedFrame">> >>

LateChecks(packet, config) ==
    << <<ChecksumOK(packet, config), "ChecksumFailed">>,
       <<KnownMessageType(packet.message_type), "UnsupportedMessageType">>,
       <<PayloadOK(packet), "MalformedFrame">>,
       <<RangeOK(packet), "ReplayRangeInvalid">> >>

FirstError(checks) ==
    LET failed == {i \in DOMAIN checks : ~ checks[i][1]}
    IN  IF failed = {} THEN "Ok" ELSE checks[Min(failed)][2]

(* decode: "Ok", or the code of the first check that fails.                *)
Decode(packet, config) ==
    LET early == FirstError(Checks(packet, config))
    IN  IF early # "Ok" THEN early
        ELSE IF ExtensionWalk(packet) # "Ok" THEN ExtensionWalk(packet)
             ELSE FirstError(LateChecks(packet, config))

(* The FrameView of an accepted packet: what encode was given.             *)
ViewOf(packet) ==
    [magic |-> packet.magic, version |-> packet.version,
     message_type |-> packet.message_type, meta |-> packet.meta,
     words |-> packet.words, payload_length |-> packet.payload_length,
     range_ok |-> packet.range_ok]

-----------------------------------------------------------------------------
HeaderSize(frame) == FIXED_HEADER_SIZE + 4 * Len(frame.words)

TotalSize(frame) == HeaderSize(frame) + frame.payload_length

(* encode checks sizes only: magic, version, extensions and payload rules  *)
(* are the caller's.  The error for extensions that are not whole words    *)
(* cannot occur here, where extensions are words.                          *)
EncodeError(frame, config, capacity) ==
    FirstError(<< <<TotalSize(frame) <= config.max_frame_size, "FrameTooLarge">>,
                  <<capacity >= TotalSize(frame), "MalformedFrame">> >>)

(* Mutant: the checksum is computed before the lengths are filled in.      *)
EncodedEarlySum(frame) ==
    LET packet == [length |-> TotalSize(frame), magic |-> frame.magic,
                   version |-> frame.version, message_type |-> frame.message_type,
                   header_length |-> HeaderSize(frame) % 65536,
                   payload_length |-> frame.payload_length, meta |-> frame.meta,
                   words |-> frame.words, range_ok |-> frame.range_ok, checksum |-> 0]
    IN  [packet EXCEPT !.checksum = Crc32c([packet EXCEPT !.header_length = 0])]

(* The bytes encode writes.  header_length is cast to u16, and wraps;      *)
(* payload_len is cast to u32, which is exact for the payloads considered  *)
(* here, below 2^32 bytes.                                                 *)
Encoded(frame) ==
    LET packet == [length |-> TotalSize(frame), magic |-> frame.magic,
                   version |-> frame.version, message_type |-> frame.message_type,
                   header_length |-> HeaderSize(frame) % 65536,
                   payload_length |-> frame.payload_length, meta |-> frame.meta,
                   words |-> frame.words, range_ok |-> frame.range_ok, checksum |-> 0]
    IN  [packet EXCEPT !.checksum = Crc32c(packet)]
=============================================================================
