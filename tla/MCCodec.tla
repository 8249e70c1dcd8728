------------------------------ MODULE MCCodec -------------------------------
(* Frames and codec settings for model checking CodecCalls.                *)
EXTENDS CodecCalls

(* No extension, a known one, padding, a TLV that does not fit, a critical *)
(* one, a value that looks like a critical header, a critical one that     *)
(* does not fit.                                                           *)
ExtensionAreas ==
    { <<>>,
      << <<1, 8>>, <<0, 0>>, <<0, 0>> >>,
      << <<7, 3>>, <<0, 0>> >>,
      << <<7, 5>>, <<0, 0>> >>,
      << <<7, 0>>, <<32769, 0>> >>,
      << <<7, 4>>, <<32769, 0>> >>,
      << <<32769, 4>> >> }

MCFrames ==
    [magic : {MAGIC_RTDP}, version : {RTDP_VERSION_1}, message_type : {2, 3, 4, 5},
     meta : {"meta"}, words : ExtensionAreas, payload_length : {0, 8, 24},
     range_ok : {TRUE}]
    \cup
    [magic : {0, MAGIC_RTDP}, version : {RTDP_VERSION_1, 2}, message_type : {1, 3, 6, 7, 9, 65280},
     meta : {"meta"}, words : {<<>>}, payload_length : {0, 24}, range_ok : BOOLEAN]

MCConfigs == [max_frame_size : {72, 1472}, validate_checksum : BOOLEAN]
=============================================================================
