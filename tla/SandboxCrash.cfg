CONSTANTS
    s1 = s1
    s2 = s2
    payload = payload
    note = note
    Sessions <- TwoSessions
    Files <- SomeFiles
    Payloads <- OnePayload
    Faults <- MountFaults
    MaxFetches = 0
    MaxStops = 2
SPECIFICATION Spec
INVARIANTS EvidenceKept NothingLeftBehind
PROPERTIES EvidenceCaptured
CHECK_DEADLOCK FALSE
