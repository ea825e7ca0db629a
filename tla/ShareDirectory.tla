--------------------------- MODULE ShareDirectory ---------------------------
(***************************************************************************)
(* The share tree of the newer core, src/airdcpp/ShareDirectory.cpp: the  *)
(* directory nodes with their parent pointer, their children and files    *)
(* (sorted vectors keyed by lower-case name), the level size, the root    *)
(* record of a shared root, and the three indices the tree keeps in step  *)
(* with itself: the TTH multimap tthIndex, the directory-name multimap    *)
(* dirNames and the shared size.  Its callers (the refresh and root       *)
(* management of ShareManager) are not in the repository; they are the     *)
(* environment here, calling the node API in any order spec.md section 4  *)
(* allows and keeping the preconditions the code asserts with dcassert.   *)
(* A node is a model value of Dirs; a file is identified by its directory *)
(* and lower-case name, the key its directory stores it under.  The bloom *)
(* filter, timestamps and the real-name/lower-name pair are left out: a   *)
(* name is a model value and Lower gives its lower-case form.             *)
(***************************************************************************)
EXTENDS Integers, FiniteSets, Sequences, Bags, BagsExt, FiniteSetsExt

CONSTANTS
    Dirs,        \* node identities (ShareDirectory objects)
    Names,       \* directory names and virtual names as given
    Lower,       \* Text::toLower on Names: Names -> Names
    FileNames,   \* file names as given
    FileLower,   \* the lower-case form of a file name
    TTHs,        \* file content hashes
    Sizes,       \* file sizes
    RootPaths,   \* real paths of shared roots
    RootName,    \* Util::getLastDir of a root path: RootPaths -> Names
    Profiles,    \* share profile tokens
    None

FileKeys == {FileLower[f] : f \in FileNames}
FileRec == [name : FileNames, tth : TTHs, size : Sizes]
RootRec == [path : RootPaths, name : Names, profiles : SUBSET Profiles, cacheDirty : BOOLEAN]

VARIABLES
    alive,         \* the node objects that exist
    parent,        \* ShareDirectory::parent
    subdirs,       \* ShareDirectory::directories
    realName,      \* ShareDirectory::realName
    root,          \* ShareDirectory::root (a ShareRoot), None below the top
    files,         \* ShareDirectory::files: key -> file, None if absent
    size,          \* ShareDirectory::size, the level size
    sharedSize,    \* the caller's sharedSize_
    tthIndex,      \* the caller's tthIndex_: bag of <<tth, directory, key>>
    dirNames,      \* the caller's dirNameMap_: bag of <<lower name, directory>>
    rootPaths,     \* the caller's rootPaths_: root path -> node
    dirtyProfiles  \* the caller's dirtyProfiles_ set

vars == <<alive, parent, subdirs, realName, root, files, size, sharedSize,
          tthIndex, dirNames, rootPaths, dirtyProfiles>>

NoFiles == [k \in FileKeys |-> None]

-----------------------------------------------------------------------------
(* Helpers the code spells out as loops and recursions. *)

\* isRoot
IsRoot(d) == root[d] # None

\* getVirtualNameLower: the root's name for a root, else the real name
VirtualNameLower(d) == IF IsRoot(d) THEN Lower[root[d].name] ELSE Lower[realName[d]]

\* addDirName / removeDirName: the dirNameMap_ entry of d under its key
AddDirName(key, d) == BagAdd(dirNames, <<key, d>>)
RemoveDirName(key, d) == BagRemove(dirNames, <<key, d>>)

\* directories.find(key): the child stored under a lower-case key
Child(p, key) == {c \in subdirs[p] : Lower[realName[c]] = key}

RECURSIVE Subtree(_)
Subtree(d) == {d} \cup UNION {Subtree(c) : c \in subdirs[d]}

Slots(S) == {<<x, k>> \in S \X FileKeys : files[x][k] # None}

FilesSize(x) == MapThenSumSet(LAMBDA k : files[x][k].size, {k \in FileKeys : files[x][k] # None})

\* the root at the top of d's parent chain, None for a detached fragment
RECURSIVE RootAbove(_)
RootAbove(d) == IF root[d] # None THEN d
                ELSE IF parent[d] = None THEN None ELSE RootAbove(parent[d])

(* cleanIndices(sharedSize_, tthIndex_, dirNames_) over the directories S *)
(* of a subtree: every file's File::cleanIndices (decreaseSize on its     *)
(* directory and on sharedSize_, its tthIndex_ entry erased) and every    *)
(* directory's removeDirName.  The recursion visits each once.            *)
CleanIndicesKeepSharedSize(d) ==
    LET S == Subtree(d) IN
    /\ size' = [x \in Dirs |-> IF x \in S THEN size[x] - FilesSize(x) ELSE size[x]]
    /\ sharedSize' = sharedSize
    /\ tthIndex' = tthIndex (-) SetToBag({<<files[x][k].tth, x, k>> : <<x, k>> \in Slots(S)})
    /\ dirNames' = dirNames (-) SetToBag({<<VirtualNameLower(x), x>> : x \in S})

CleanIndices(d) ==
    LET S == Subtree(d) IN
    /\ size' = [x \in Dirs |-> IF x \in S THEN size[x] - FilesSize(x) ELSE size[x]]
    /\ sharedSize' = sharedSize - MapThenSumSet(FilesSize, S)
    /\ tthIndex' = tthIndex (-) SetToBag({<<files[x][k].tth, x, k>> : <<x, k>> \in Slots(S)})
    /\ dirNames' = dirNames (-) SetToBag({<<VirtualNameLower(x), x>> : x \in S})

\* the caller drops its last reference: the objects of S are destroyed
Destroy(S) ==
    /\ alive' = alive \ S
    /\ realName' = [x \in Dirs |-> IF x \in S THEN None ELSE realName[x]]
    /\ files' = [x \in Dirs |-> IF x \in S THEN NoFiles ELSE files[x]]

(* copyRootProfiles(profiles_, true) up the parent chain: the root's     *)
(* profiles are added and its cache is marked dirty.                      *)
CopyRootProfiles(d) ==
    LET r == RootAbove(d) IN
    IF r = None THEN UNCHANGED <<root, dirtyProfiles>>
    ELSE /\ dirtyProfiles' = dirtyProfiles \cup root[r].profiles
         /\ root' = [root EXCEPT ![r].cacheDirty = TRUE]

-----------------------------------------------------------------------------
(* Node operations *)

(* The ShareDirectory constructor: a live object with its real name,      *)
(* parent pointer and root, no files, subdirectories or size yet.         *)
Construct(d, n, p, r) ==
    /\ alive' = alive \cup {d}
    /\ realName' = [realName EXCEPT ![d] = n]
    /\ parent' = [parent EXCEPT ![d] = p]
    /\ root' = [root EXCEPT ![d] = r]

(* ShareRoot::create: path, virtual name and profiles as given, cache not *)
(* dirty (pathLower, incoming and lastRefreshTime are left out).          *)
NewShareRoot(rp, vn, profs) == [path |-> rp, name |-> vn, profiles |-> profs, cacheDirty |-> FALSE]

\* createRoot: rootPaths_[path] = dir (dcassert: not there yet), addDirName
CreateRoot(d, rp, vn, profs) ==
    /\ d \notin alive /\ rootPaths[rp] = None
    /\ Construct(d, RootName[rp], None, NewShareRoot(rp, vn, profs))
    /\ rootPaths' = [rootPaths EXCEPT ![rp] = d]
    /\ dirNames' = AddDirName(Lower[vn], d)
    /\ UNCHANGED <<subdirs, files, size, sharedSize, tthIndex, dirtyProfiles>>

(* createNormal: inserted into the parent's directories, or, if a child  *)
(* of that lower-case name exists, nullptr (the new object is released); *)
(* without a parent it starts a detached fragment (a refresh's new tree). *)
CreateNormal(d, p, n) ==
    /\ d \notin alive /\ (p = None \/ p \in alive)
    /\ IF p # None /\ Child(p, Lower[n]) # {}
       THEN UNCHANGED vars
       ELSE /\ Construct(d, n, p, None)
            /\ subdirs' = IF p = None THEN subdirs ELSE [subdirs EXCEPT ![p] = @ \cup {d}]
            /\ dirNames' = AddDirName(Lower[n], d)
            /\ UNCHANGED <<files, size, sharedSize, tthIndex, rootPaths, dirtyProfiles>>

(* setParent: a detached fragment is hung under p.  The insert fails only *)
(* on a duplicate name, which the code treats as a caller bug             *)
(* (dcassert(0)); callers check it.  updateModifyDate reads the disk.     *)
SetParentNoInsert(d, p) ==
    /\ d \in alive /\ root[d] = None /\ parent[d] = None
    /\ p \in alive /\ p \notin Subtree(d) /\ Child(p, Lower[realName[d]]) = {}
    /\ parent' = [parent EXCEPT ![d] = p]
    /\ UNCHANGED <<alive, subdirs, realName, root, files, size, sharedSize,
                   tthIndex, dirNames, rootPaths, dirtyProfiles>>

SetParent(d, p) ==
    /\ d \in alive /\ root[d] = None /\ parent[d] = None
    /\ p \in alive /\ p \notin Subtree(d) /\ Child(p, Lower[realName[d]]) = {}
    /\ parent' = [parent EXCEPT ![d] = p]
    /\ subdirs' = [subdirs EXCEPT ![p] = @ \cup {d}]
    /\ UNCHANGED <<alive, realName, root, files, size, sharedSize, tthIndex,
                   dirNames, rootPaths, dirtyProfiles>>

(* addFile: a file of the same lower-case name is cleaned from the       *)
(* indices and deleted first; the new one is inserted and indexed         *)
(* (increaseSize on the directory and sharedSize_, a tthIndex_ entry);    *)
(* with a dirtyProfiles_ set, copyRootProfiles.                           *)
AddFileKeepsOldEntry(d, f, tth, sz, dirty) ==
    LET k == FileLower[f]
        old == files[d][k]
        oldSize == IF old = None THEN 0 ELSE old.size
    IN  /\ d \in alive
        /\ files' = [files EXCEPT ![d][k] = [name |-> f, tth |-> tth, size |-> sz]]
        /\ size' = [size EXCEPT ![d] = @ - oldSize + sz]
        /\ sharedSize' = sharedSize - oldSize + sz
        /\ tthIndex' = BagAdd(tthIndex, <<tth, d, k>>)
        /\ IF dirty THEN CopyRootProfiles(d) ELSE UNCHANGED <<root, dirtyProfiles>>
        /\ UNCHANGED <<alive, parent, subdirs, realName, dirNames, rootPaths>>

AddFileSwapSizes(d, f, tth, sz, dirty) ==
    LET k == FileLower[f]
        old == files[d][k]
        oldSize == IF old = None THEN 0 ELSE old.size
    IN  /\ d \in alive
        /\ files' = [files EXCEPT ![d][k] = [name |-> f, tth |-> tth, size |-> sz]]
        /\ size' = [size EXCEPT ![d] = @ - sz + oldSize]
        /\ sharedSize' = sharedSize - sz + oldSize
        /\ tthIndex' = BagAdd(IF old = None THEN tthIndex
                              ELSE BagRemove(tthIndex, <<old.tth, d, k>>), <<tth, d, k>>)
        /\ IF dirty THEN CopyRootProfiles(d) ELSE UNCHANGED <<root, dirtyProfiles>>
        /\ UNCHANGED <<alive, parent, subdirs, realName, dirNames, rootPaths>>

AddFile(d, f, tth, sz, dirty) ==
    LET k == FileLower[f]
        old == files[d][k]
        oldSize == IF old = None THEN 0 ELSE old.size
    IN  /\ d \in alive
        /\ files' = [files EXCEPT ![d][k] = [name |-> f, tth |-> tth, size |-> sz]]
        /\ size' = [size EXCEPT ![d] = @ - oldSize + sz]
        /\ sharedSize' = sharedSize - oldSize + sz
        /\ tthIndex' = BagAdd(IF old = None THEN tthIndex
                              ELSE BagRemove(tthIndex, <<old.tth, d, k>>), <<tth, d, k>>)
        /\ IF dirty THEN CopyRootProfiles(d) ELSE UNCHANGED <<root, dirtyProfiles>>
        /\ UNCHANGED <<alive, parent, subdirs, realName, dirNames, rootPaths>>

(* static cleanIndices(aDirectory, ...): the subtree is unindexed, then   *)
(* erased from its parent's directories by key and its parent cleared;    *)
(* the caller (a refresh replacing it, or remove_subtree of spec 4.1)     *)
(* then releases it.                                                      *)
RemoveSubtree(d) ==
    /\ d \in alive /\ root[d] = None
    /\ CleanIndices(d)
    /\ subdirs' = [x \in Dirs |->
                     IF x \in Subtree(d) THEN {}
                     ELSE IF x = parent[d] THEN subdirs[x] \ Child(x, Lower[realName[d]])
                     ELSE subdirs[x]]
    /\ parent' = [x \in Dirs |-> IF x \in Subtree(d) THEN None ELSE parent[x]]
    /\ Destroy(Subtree(d))
    /\ UNCHANGED <<root, rootPaths, dirtyProfiles>>

(* remove_root (spec 4.2): cleanIndices on the root, its rootPaths_ entry *)
(* erased, the tree released.                                             *)
RemoveRoot(rp) ==
    LET d == rootPaths[rp] IN
    /\ d # None
    /\ CleanIndices(d)
    /\ rootPaths' = [rootPaths EXCEPT ![rp] = None]
    /\ subdirs' = [x \in Dirs |-> IF x \in Subtree(d) THEN {} ELSE subdirs[x]]
    /\ parent' = [x \in Dirs |-> IF x \in Subtree(d) THEN None ELSE parent[x]]
    /\ root' = [root EXCEPT ![d] = None]
    /\ Destroy(Subtree(d))
    /\ UNCHANGED dirtyProfiles

(* rename_root (spec 4.2): the node leaves the virtual-name index,        *)
(* ShareRoot::setName replaces the name, and the node is indexed again.   *)
RenameRoot(d, vn) ==
    /\ d \in alive /\ IsRoot(d)
    /\ root' = [root EXCEPT ![d].name = vn]
    /\ dirNames' = BagAdd(RemoveDirName(Lower[root[d].name], d), <<Lower[vn], d>>)
    /\ UNCHANGED <<alive, parent, subdirs, realName, files, size, sharedSize,
                   tthIndex, rootPaths, dirtyProfiles>>

\* ShareRoot::addRootProfile / removeRootProfile
SetRootProfile(d, pr, add) ==
    /\ d \in alive /\ IsRoot(d)
    /\ root' = [root EXCEPT ![d].profiles = IF add THEN @ \cup {pr} ELSE @ \ {pr}]
    /\ UNCHANGED <<alive, parent, subdirs, realName, files, size, sharedSize,
                   tthIndex, dirNames, rootPaths, dirtyProfiles>>

-----------------------------------------------------------------------------
(* Queries (no state change) *)

\* getTotalSize: the level size plus every subdirectory's total
RECURSIVE GetTotalSize(_)
GetTotalSize(d) == size[d] + MapThenSumSet(LAMBDA c : GetTotalSize(c), subdirs[d])

\* getAdcPath as its list of names: "/" root name "/" ... name "/"
RECURSIVE GetAdcPath(_)
GetAdcPath(d) ==
    IF parent[d] # None THEN Append(GetAdcPath(parent[d]), realName[d])
    ELSE IF root[d] # None THEN <<root[d].name>> ELSE <<>>

(* getRealPath(""): the root's real path followed by the real names down *)
(* to d; a detached fragment yields the names relative to its top.        *)
RECURSIVE GetRealPath(_)
GetRealPath(d) ==
    IF parent[d] # None THEN Append(GetRealPath(parent[d]), realName[d])
    ELSE IF root[d] # None THEN <<root[d].path>> ELSE <<>>

(* getContentInfo: <<size_, files_, folders_>> accumulated over d's      *)
(* subtree, the spec's total_size, file_count and dir_count.              *)
RECURSIVE GetContentInfo(_)
GetContentInfo(d) ==
    LET sub == [c \in subdirs[d] |-> GetContentInfo(c)] IN
    << size[d] + MapThenSumSet(LAMBDA c : sub[c][1], subdirs[d]),
       Cardinality(Slots({d})) + MapThenSumSet(LAMBDA c : sub[c][2], subdirs[d]),
       Cardinality(subdirs[d]) + MapThenSumSet(LAMBDA c : sub[c][3], subdirs[d]) >>

(* getProfileInfo(aProfile): <<totalSize_, filesCount_>> over the subtree; *)
(* the profile argument is not consulted below the root.                  *)
RECURSIVE GetProfileInfo(_, _)
GetProfileInfo(d, pr) ==
    << size[d] + MapThenSumSet(LAMBDA c : GetProfileInfo(c, pr)[1], subdirs[d]),
       Cardinality(Slots({d})) + MapThenSumSet(LAMBDA c : GetProfileInfo(c, pr)[2], subdirs[d]) >>

(* countStats for one directory, the figures the share statistics sum    *)
(* over every directory: file sizes, subdirectory and file counts (ages   *)
(* and name lengths left out).                                            *)
CountStats(d) == << FilesSize(d), Cardinality(subdirs[d]), Cardinality(Slots({d})) >>

(* findDirectoryByPath(aPath, '/') below d, aPath given by its names and *)
(* whether it ends in the separator.  The first name, lowered, selects a  *)
(* child; p == size - 1 (the separator ends the path) returns it.         *)
(* Without a separator find returns npos, and aPath.substr(npos + 1) is   *)
(* aPath again: the search goes on one level down with the same path.     *)
RECURSIVE FindDirectoryByPathNoEndTest(_, _, _)
FindDirectoryByPathNoEndTest(d, path, trailing) ==
    LET c == Child(d, Lower[Head(path)]) IN
    IF c = {} THEN None
    ELSE LET x == CHOOSE y \in c : TRUE IN
         IF Len(path) = 1 THEN FindDirectoryByPathNoEndTest(x, path, trailing)
         ELSE FindDirectoryByPathNoEndTest(x, Tail(path), trailing)

RECURSIVE FindDirectoryByPath(_, _, _)
FindDirectoryByPath(d, path, trailing) ==
    LET c == Child(d, Lower[Head(path)]) IN
    IF c = {} THEN None
    ELSE LET x == CHOOSE y \in c : TRUE IN
         IF Len(path) = 1 THEN IF trailing THEN x ELSE FindDirectoryByPath(x, path, trailing)
         ELSE FindDirectoryByPath(x, Tail(path), trailing)

-----------------------------------------------------------------------------
Init ==
    /\ alive = {}
    /\ parent = [d \in Dirs |-> None]
    /\ subdirs = [d \in Dirs |-> {}]
    /\ realName = [d \in Dirs |-> None]
    /\ root = [d \in Dirs |-> None]
    /\ files = [d \in Dirs |-> NoFiles]
    /\ size = [d \in Dirs |-> 0]
    /\ sharedSize = 0
    /\ tthIndex = EmptyBag
    /\ dirNames = EmptyBag
    /\ rootPaths = [rp \in RootPaths |-> None]
    /\ dirtyProfiles = {}

Next ==
    \/ \E d \in Dirs, rp \in RootPaths, vn \in Names, ps \in SUBSET Profiles : CreateRoot(d, rp, vn, ps)
    \/ \E d \in Dirs, p \in Dirs \cup {None}, n \in Names : CreateNormal(d, p, n)
    \/ \E d, p \in Dirs : SetParent(d, p)
    \/ \E d \in Dirs, f \in FileNames, t \in TTHs, s \in Sizes, dirty \in BOOLEAN :
          AddFile(d, f, t, s, dirty)
    \/ \E d \in Dirs : RemoveSubtree(d)
    \/ \E rp \in RootPaths : RemoveRoot(rp)
    \/ \E d \in Dirs, vn \in Names : RenameRoot(d, vn)
    \/ \E d \in Dirs, pr \in Profiles, add \in BOOLEAN : SetRootProfile(d, pr, add)

Spec == Init /\ [][Next]_vars

-----------------------------------------------------------------------------
(* Properties *)

TypeOK ==
    /\ alive \subseteq Dirs
    /\ parent \in [Dirs -> Dirs \cup {None}]
    /\ subdirs \in [Dirs -> SUBSET Dirs]
    /\ realName \in [Dirs -> Names \cup {None}]
    /\ root \in [Dirs -> RootRec \cup {None}]
    /\ files \in [Dirs -> [FileKeys -> FileRec \cup {None}]]
    /\ size \in [Dirs -> Nat] /\ sharedSize \in Nat
    /\ rootPaths \in [RootPaths -> Dirs \cup {None}]
    /\ dirtyProfiles \subseteq Profiles

\* the nodes reachable upwards from d in at most n steps
RECURSIVE Up(_, _)
Up(d, n) == IF n = 0 \/ parent[d] = None THEN {} ELSE {parent[d]} \cup Up(parent[d], n - 1)

(* Spec section 3: every directory but a root has at most one parent,    *)
(* whose child collection holds it under its lower-case name, and no     *)
(* sibling shares that name; a root has no parent; parent links form no  *)
(* cycle; a node's children are live nodes.  createNormal, setParent and  *)
(* cleanIndices each update both directions of the link.                 *)
TreeLinksConsistent ==
    /\ \A d \in alive : \A c \in subdirs[d] : c \in alive /\ parent[c] = d
    /\ \A c \in alive : parent[c] # None => c \in subdirs[parent[c]] /\ root[c] = None
    /\ \A d \in alive : \A c1, c2 \in subdirs[d] :
          c1 # c2 => Lower[realName[c1]] # Lower[realName[c2]]
    /\ \A d \in alive : d \notin Up(d, Cardinality(Dirs))

(* Spec section 3: the TTH index holds exactly one entry for every file  *)
(* in a live directory and nothing else (no dangling entry survives a    *)
(* replaced file or a removed subtree), and the name index exactly one   *)
(* entry per live directory under its current virtual name.              *)
IndicesMatchTree ==
    /\ tthIndex = SetToBag({<<files[x][k].tth, x, k>> : <<x, k>> \in Slots(alive)})
    /\ dirNames = SetToBag({<<VirtualNameLower(x), x>> : x \in alive})

(* Every live directory's level size is the sum of its files; the shared *)
(* size is the sum of getTotalSize over the trees' tops (roots and       *)
(* detached fragments) and the file-size total of countStats over every  *)
(* directory; getContentInfo and getProfileInfo report each subtree's     *)
(* file sizes, files and directories (spec 4.1's aggregates).  The        *)
(* counters are updated file by file by increaseSize and decreaseSize,   *)
(* the aggregates recompute them: they must agree after any sequence.    *)
SizesMatchFiles ==
    /\ \A x \in alive : size[x] = FilesSize(x)
    /\ sharedSize = MapThenSumSet(GetTotalSize, {x \in alive : parent[x] = None})
    /\ sharedSize = MapThenSumSet(LAMBDA x : CountStats(x)[1], alive)
    /\ \A x \in alive :
          LET T == Subtree(x) IN
          /\ GetContentInfo(x) = << MapThenSumSet(FilesSize, T), Cardinality(Slots(T)),
                                   Cardinality(T) - 1 >>
          /\ \A pr \in Profiles : GetProfileInfo(x, pr) = SubSeq(GetContentInfo(x), 1, 2)

(* findDirectoryByPath, given a directory's ADC path below its root (with *)
(* the trailing separator getAdcPath writes), finds that directory: the   *)
(* lower-casing of each name and the end-of-path test agree with how      *)
(* children are keyed.                                                    *)
FindInvertsAdcPath ==
    \A x \in alive : (parent[x] # None /\ RootAbove(x) # None) =>
        FindDirectoryByPath(RootAbove(x), Tail(GetAdcPath(x)), TRUE) = x

(* findDirectoryByPath finds a directory also from a path that does not   *)
(* end in the separator, as its p == aPath.size() test intends.           *)
FindAcceptsBarePath ==
    \A x \in alive : (parent[x] # None /\ RootAbove(x) # None) =>
        FindDirectoryByPath(RootAbove(x), Tail(GetAdcPath(x)), FALSE) = x
=============================================================================
