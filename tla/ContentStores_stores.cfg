\* Three calls on one key at once, of the local store and of the bucket, with crashes.
SPECIFICATION Spec
CONSTANTS
    Keys = {k1}
    Contents = {c1, c2}
    Callers = {p1, p2, p3}
    Chunks = 2
    FileIds = {f1, f2, f3}
    None = None
SYMMETRY Symmetry
INVARIANTS TypeOK ReadersSeeWholeObjects OnlyCrashesLeaveTempFiles
PROPERTIES ImplementsObjectStore
