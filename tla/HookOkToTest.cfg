SPECIFICATION HookSpec
CONSTANTS
    Scenarios <- OkToTestOnly
    Bot = "bot"
    MaxNext = 30
INVARIANT OkToTestStartsOnce
CHECK_DEADLOCK FALSE
