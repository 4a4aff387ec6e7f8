SPECIFICATION Spec
CONSTANTS
    NULL = NULL
    Junk = Junk
    Pending = Pending
    Key = {k1, k2}
    Bucket = {b}
    Flow = {f1, f2}
    Acts = {a1, a2}
    Table = {t1, t2, t3}
    Cpu = {c1}
INVARIANTS TypeOK NoReadAfterFree OneOwner
PROPERTY Refines
SYMMETRY Sym
CHECK_DEADLOCK FALSE
