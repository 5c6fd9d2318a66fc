SPECIFICATION Spec
CONSTANTS
    TDs = {t1, t2, t3, t4, t5, t6, t7}
    Times = {1, 2, 3}
    None = None
SYMMETRY EntrySymmetry
PROPERTIES
    ImplementsQueue
