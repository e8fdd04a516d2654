SPECIFICATION Spec
CONSTANTS
    Radix = 4
    MaxRecordSize = 9
    Payloads <- Texts
    CrcDigits = {0, 3}
    None = None
    Faults = {"write"}
    MaxRots = 1
PROPERTY TruncatesOnlyDamage
CHECK_DEADLOCK FALSE
