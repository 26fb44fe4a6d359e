SPECIFICATION FairSpec
CONSTANTS
    c1 = c1  c2 = c2
    Clients <- MCClients
    Desktop = desktop  Local = local  None = none
    PressLease = 1  PhraseLease = 2  Fade = 1
    Memory = 1  Retained = 1  JobLimit = 1
    Plans <- MCPlans
INVARIANTS GoneIsGone CopyAgrees
PROPERTIES FencedTextDropped MitaNotHeard MicReopens
CHECK_DEADLOCK FALSE
