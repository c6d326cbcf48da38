\* As many slots as threads.
SPECIFICATION Spec
CONSTANTS
    t1 = t1
    t2 = t2
    t3 = t3
    a = a
    b = b
    c = c
    d = d
    Threads <- ThreeThreads
    Slots = 3
    Batch = 1
    Ptrs <- OnePtr
    None = None
SYMMETRY ThreadPtrSymmetry
INVARIANTS SlotInv NeverExhausted
