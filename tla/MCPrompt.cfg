SPECIFICATION LiveSpec
CONSTANTS
    Driver = Driver
    Pass = Pass
    A1 = A1
    A2 = A2
    Nobody = Nobody
    Callers <- MCCallers
    Client = Driver
    Readers <- MCPasses
    Passes <- MCPasses
    Appliers <- MCAppliers
    MaxAttempts = 1
    ExtraAttempts = 1
    MaxFailures = 1
    MaxEvents = 1
INVARIANTS
    SettledIsHosts
    UnsentNeverRan
    AppliedOnce
    ConflictWarranted
    PromptInv
PROPERTIES
    VerdictStands
    TurnIsApplied
