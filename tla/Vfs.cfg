CONSTANTS
    Home <- AHome
    Shadows = {"b"}
    Lines = {"echo"}
    Payloads = {"payload", "binary"}
    Garbled = {"binary"}
    Blank = "blank"
    Refusal = "refusal"
    Golden <- GoldenTree
    Default <- DefaultTree
    Targets <- SomeTargets
    Fetched = {"a"}
    MaxDepth = 3
    MaxLines = 1
    MaxCommands = 4
SPECIFICATION Spec
INVARIANTS ResolveNormal LsAgrees
PROPERTIES ReadYourWrites RemovedIsGone
CHECK_DEADLOCK FALSE
