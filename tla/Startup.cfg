CONSTANTS
    s1 = s1
    s2 = s2
    configured = configured
    default = default
    token = token
    none = none
    Sessions <- TwoSessions
    Golden = 2
    KeyPaths <- SomeKeyPaths
    TokenPaths <- SomeTokenPaths
    NoPath = none
    MaxMishaps = 2
SPECIFICATION StartupSpec
INVARIANTS SecretsStable LowerLayerWhole
 
CHECK_DEADLOCK FALSE
