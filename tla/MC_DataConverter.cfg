CONSTANTS
    MaxGen = 3
    MaxRuns = 3
    Absent = Absent
SPECIFICATION Spec
INVARIANT CutShortCovered
CHECK_DEADLOCK FALSE
