CONSTANTS
    a1 = a1  a2 = a2  b = b  A = A  B = B
    Process = {A, B}
    Thread = {a1, a2, b}
    ProcessOf <- MCProcessOf
    Inode = {i1, i2, i3, i4, i5}
    Operation = {"acquire", "reclaim", "save", "guard", "crash"}
    Dead = Dead
    None = None
SPECIFICATION Spec
SYMMETRY Symmetry
INVARIANTS HolderIsNamed EntriesAreUsed
PROPERTY HeldEntryStays
