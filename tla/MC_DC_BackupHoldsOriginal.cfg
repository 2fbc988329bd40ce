CONSTANTS
    MaxGen = 3
    MaxRuns = 3
    Absent = Absent
SPECIFICATION Spec
INVARIANT BackupHoldsOriginal
CHECK_DEADLOCK FALSE
