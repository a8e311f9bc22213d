SPECIFICATION Spec
CONSTANTS
    Journals = {j1}
    Records = {r1, r2, r3}
    None = none
    Every = 2
    MaxTrouble = 2
INVARIANTS KeptLineChains
CHECK_DEADLOCK FALSE
