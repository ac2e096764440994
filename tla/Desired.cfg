SPECIFICATION DesiredSpec
CONSTANTS
    Width = 3
    Special <- LastTwo
    MaxCandidates = 3
    MaxAllowed = 1
INVARIANTS NoCollateral Covered
