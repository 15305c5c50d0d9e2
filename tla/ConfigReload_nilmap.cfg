\* Two keys, one reader, one file rewrite.
CONSTANTS
    k1 = k1
    k2 = k2
    f1 = f1
    f2 = f2
    r1 = r1
    Bad = Bad
    Absent = Absent
    Zero = Zero
    NilMap = NilMap
    NoKey = NoKey
    Keys <- MCKeys
    FieldSeq <- MCFields
    Readers <- MCReaders
    MaxEdits = 1
SPECIFICATION Spec
INVARIANTS ReloadNeverPanics
