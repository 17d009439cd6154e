SPECIFICATION Spec
CONSTANTS
    Reports = {r1, r2}
    None = None
INVARIANTS PublishedHasBytes RowAndBytesAgree
SYMMETRY ReportSymmetry
