CONSTANTS
    r1 = r1
    r2 = r2
    Request <- MCRequest
    Main    = Main
    NoFile  = NoFile
    MaxRules = 2
    MaxEdits = 1
SYMMETRY MCSymmetry
SPECIFICATION Spec
INVARIANT
    OriginalPreserved
