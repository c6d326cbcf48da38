\* Fewer slots than threads and than a batch: Acquire may panic, the list may
\* outgrow the slots.
SPECIFICATION Spec
CONSTANTS
    t1 = t1
    t2 = t2
    t3 = t3
    a = a
    b = b
    c = c
    d = d
    Threads <- ThreeThreads
    Slots = 1
    Batch = 2
    Ptrs <- FourPtrs
    None = None
SYMMETRY ThreadPtrSymmetry
INVARIANTS TypeOK ProtectedNotReclaimed OnePlaceEach BacklogBounded
CHECK_DEADLOCK FALSE
