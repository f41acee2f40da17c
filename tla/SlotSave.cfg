CONSTANTS
    Saves = {s1, s2}
    Machines = {m1, m2}
    Dirs = {commit, unknown}
    None = None
    Hole = Hole
    Attempts = 2
SPECIFICATION Spec
SYMMETRY Symmetry
INVARIANTS TypeOK PrefetchedIsWhole UploadedWasPublished RequiredUploadBeforeDestroy
CHECK_DEADLOCK FALSE
