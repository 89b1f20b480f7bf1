CONSTANTS
    s1 = s1
    s2 = s2
    payload = payload
    note = note
    Sessions <- OneSession
    Files <- SomeFiles
    Payloads <- OnePayload
    Faults <- NoFaults
    MaxFetches = 1
    MaxStops = 0
SPECIFICATION Spec
INVARIANTS EvidenceKept
CHECK_DEADLOCK FALSE
