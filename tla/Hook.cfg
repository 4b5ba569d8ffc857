SPECIFICATION HookSpec
CONSTANTS
    Scenarios <- AScenarios
    Bot = "bot"
    MaxNext = 30
 
INVARIANT OnlyByAuthority
INVARIANT LgtmTracksTree
 
PROPERTY Settles
CHECK_DEADLOCK FALSE
