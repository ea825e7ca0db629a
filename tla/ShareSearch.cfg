CONSTANTS
    a = a  b = b  e1 = e1  t1 = t1  t2 = t2
    R1 = R1  R2 = R2  D1 = D1  F1 = F1  F2 = F2
    Terms = {a, b}
    Exts = {e1}
    TTHs = {t1, t2}
    Roots <- MC_Roots
    Children <- MC_Children
    Files <- MC_Files
    FileSize <- MC_FileSize
    FileTTH <- MC_FileTTH
    FileExt <- MC_FileExt
    TempShares <- MC_TempShares
    Cid = "cid"
    Cids = {"cid", "other"}
    VNames = {"S", "T"}
    Names = {"x", "y"}
    Paths <- MC_Paths
    MaxTemp = 4
    Endings <- MC_Endings
    NmdcTerms = {a}
    NmdcQueries <- MC_NmdcQueries
    Params <- MC_Params
    MaxResultsSet = {1, 2}
    NoTTH = NoTTH
    LongMax = 100
SPECIFICATION Spec
CHECK_DEADLOCK FALSE
INVARIANT TypeOK
INVARIANT SearchResultsMatch
INVARIANT ToRealMatchesShare
INVARIANT RealPathsComplete
INVARIANT RemovedTempShareGone
INVARIANT NmdcResultsMatch
