\* Decoders of 72 and 1472 bytes, with and without checksum validation, and up
\* to two damaged fields, so that damaged lengths can cancel out.
CONSTANTS
    Frames <- MCFrames
    Configs <- MCConfigs
    Capacities = {64, 1500}
    MaxDamage = 2
    None = None
SPECIFICATION CodecSpec
INVARIANTS AcceptsTheWellFormed RoundTrip DamageIsRejected
