CONSTANTS
    pa = pa
    pb = pb
    pbsub = pbsub
    fa = fa
    fb = fb
    c1 = c1
    c2 = c2
    va = va
    Paths = {pa, pb, pbsub}
    Files = {fa, fb}
    VNames = {va, vb}
    Contents = {c1, c2}
    None = None
    Below <- MC_Below
    FileDir <- MC_FileDir
    SizeOf <- MC_SizeOf
    MaxEdits = 1
    MaxRequests = 2
SPECIFICATION MC_Spec
INVARIANT TypeOK
INVARIANT IndexConsistent
INVARIANT HashedFilesShared
PROPERTY RefreshCompletes
PROPERTY SpliceKeepsOtherRoots
CHECK_DEADLOCK FALSE
INVARIANT ExTypeOK
PROPERTY ImplementsExcludeAbstract
