CONSTANTS
    Cap = 2
    MaxRuns = 3
    Largest = 3
SPECIFICATION Spec
INVARIANTS
    PriorIsCompared
