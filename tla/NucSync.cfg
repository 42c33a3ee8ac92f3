SPECIFICATION Spec
CONSTANTS
    Workstations = {w1, w2}
    NUC = NUC
    Trees = {t1}
    Commits = {c1, c2}
    Runs = {r1, r2}
    Old = Old
    None = None
SYMMETRY Symmetry
INVARIANTS
    ClientIsAsReported
    ImagesAreTheirTree
PROPERTIES
    ReleasesStand
