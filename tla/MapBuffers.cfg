CONSTANTS
    Threads = {t1, t2, t3}
    SLOTS = 4
    MaxFrames = 2

\* Whoever asks for the lock after a panic in drop() waits for good.
CHECK_DEADLOCK FALSE
SPECIFICATION Spec
INVARIANTS TypeOK BuffersApart PagesAccountedFor
