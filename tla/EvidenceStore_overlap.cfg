SPECIFICATION Spec
CONSTANTS
    File = {f1}
    Bytes = {b1, b2}
    Missing = Missing
    Unreadable = Unreadable
    Source = {s1, s2, s3}
    Analysis = {a1, a2}
    None = None
    Thread = {w1, w2}
    MaxChanges = 1
    MaxRequests = 3
SYMMETRY Symmetry
CHECK_DEADLOCK FALSE
INVARIANTS
    ChangedImageRefused
