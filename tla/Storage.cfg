SPECIFICATION Spec
CONSTANTS
    top = top
    sub = sub
    k1 = k1
    k2 = k2
    k3 = k3
    Keys = {k1, k2, k3}
    Sizes = {1, 2, 4}
    Capacity = 4
    Absent = Absent
    NoKey = NoKey
    Threads = {t1, t2}
    Dirs = {top, sub}
    Base = Base
    Up <- TreeUp
    DirOf <- TreeDirOf
SYMMETRY Symmetry
INVARIANTS
    TypeOK
    BytesExactUntilRefusal
    StoredStaysWhole
    NoEmptyDirLeft
PROPERTY
    FittingWriteAccepted
