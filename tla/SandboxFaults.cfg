CONSTANTS
    s1 = s1
    s2 = s2
    payload = payload
    note = note
    Sessions <- OneSession
    Files <- SomeFiles
    Payloads <- OnePayload
    Faults <- AllFaults
    MaxFetches = 1
    MaxStops = 2
SPECIFICATION Spec
INVARIANTS CapturedIsQuarantined
PROPERTIES StartupReclaims
CHECK_DEADLOCK FALSE
