CONSTANTS
    d1 = d1
    d2 = d2
    d3 = d3
    na = na
    nA = nA
    nb = nb
    fa = fa
    fA = fA
    t1 = t1
    r1 = r1
    p1 = p1
    Dirs = {d1, d2, d3}
    Names = {na, nA, nb}
    Lower <- MC_Lower
    FileNames = {fa, fA}
    FileLower <- MC_FileLower
    TTHs = {t1}
    Sizes = {1, 2}
    RootPaths = {r1}
    RootName <- MC_RootName
    Profiles = {p1}
    None = None
SPECIFICATION MC_Spec
SYMMETRY MC_Symmetry
INVARIANT TypeOK
INVARIANT TreeLinksConsistent
INVARIANT IndicesMatchTree
INVARIANT SizesMatchFiles
INVARIANT FindInvertsAdcPath
INVARIANT FlTypeOK
INVARIANT ListingIsUnion
INVARIANT PartialListingAgrees
