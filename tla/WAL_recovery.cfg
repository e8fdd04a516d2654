SPECIFICATION Spec
CONSTANTS
    Radix = 4
    MaxRecordSize = 9
    Payloads <- Texts
    CrcDigits = {0, 3}
    None = None
    Faults = {"power", "write", "sync", "crc", "payload"}
    MaxRots = 1
INVARIANTS TypeOK AckedSurvive CrashesNeverBlockOpen
PROPERTIES FileIsMemory DamageIsDetected
CHECK_DEADLOCK FALSE
