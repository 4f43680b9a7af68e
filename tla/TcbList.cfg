SPECIFICATION Spec
CONSTANTS
    Tids = {t1, t2, t3, t4}
    ListNames = {run, paused}
    NULL_TID = null
INVARIANTS
    TypeOK
    Linked
PROPERTY
    ImplementsLists
