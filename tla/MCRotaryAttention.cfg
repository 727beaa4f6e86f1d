\* The computation ends.
CONSTANTS
    NumHeads = 4
    NumKvHeads = 2
    HeadDim = 4
    InvFreq <- MCInvFreq
    MaxPosition = 5
SPECIFICATION Spec
CHECK_DEADLOCK FALSE
INVARIANTS
    IsRotaryAttention
