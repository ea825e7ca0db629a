---------------------------- MODULE ShareManager ----------------------------
(***************************************************************************)
(* The share of src/ShareManager.cpp: the root registry (shares and       *)
(* directories), the mirror of every shared root with its per-root TTH     *)
(* index, the refresh thread (refresh / run), the hasher's FileHashed      *)
(* callback (onFileHashed), the GUI's root edits (addDirectory,            *)
(* removeDirectory, renameDirectory), the queue's BundleHashed callback    *)
(* and shutdown.  All tree mutations happen under the exclusive lock cs;   *)
(* filesystem scans (buildTree) run outside it, so every unlocked scan is  *)
(* a step of its own and other threads may run between scan and splice.   *)
(*                                                                         *)
(* Data abstraction: a directory tree is reduced to the files it holds     *)
(* (directory nodes, release names, bloom filter and type masks are left   *)
(* out); a file's content is a member of Contents, which is also its TTH,  *)
(* and SizeOf gives its size.                                              *)
(***************************************************************************)
EXTENDS Naturals, FiniteSets, Bags, TLC, BagsExt, FiniteSetsExt

CONSTANTS
    Paths,      \* directories that can be shared as roots (real paths)
    Below,      \* Below[p]: p and the directories of Paths inside it
    Files,      \* files on disk
    FileDir,    \* FileDir[f]: the directory of Paths holding file f
    VNames,     \* virtual names
    Contents,   \* file contents; a content is its own TTH
    SizeOf,     \* SizeOf[c]: size in bytes of content c
    None,       \* model value: absent entry
    MaxEdits,   \* bound on modifications of files on disk
    MaxRequests   \* bound on user and queue requests (refresh, add, remove,
                  \* rename, bundle hashed)

ASSUME /\ Below \in [Paths -> SUBSET Paths]
       /\ \A p \in Paths : p \in Below[p]
       /\ FileDir \in [Files -> Paths]
       /\ SizeOf \in [Contents -> Nat]
       /\ None \notin Paths \cup VNames \cup Files \cup Contents

VARIABLES
    shares,        \* StringMap shares: real path -> virtual name (configuration)
    directories,   \* DirMap directories: real path -> root record (live tree)
    sharedSize,    \* int64 sharedSize, maintained by updateIndices
    refreshing,    \* atomic flag refreshing
    refreshOptions,\* REFRESH_ALL or REFRESH_DIRECTORY
    refreshPaths,  \* StringList refreshPaths, filled by refresh(aDir)
    rt,            \* refresh thread: "idle", "starting" (before run()), "scanning"
    dirs,          \* run(): StringPairList from getDirectories, path -> vname
    toScan,        \* run(): roots of dirs not yet scanned by buildTree
    newDirs,       \* run(): DirMap newDirs of freshly built roots
    aShutdown,     \* shutdown flag checked by run()
    gui,           \* GUI thread inside addDirectory: "idle" or "adding"
    addPath,       \* addDirectory: realPath
    addRoot,       \* addDirectory: the tree built before taking the lock
    disk,          \* content of every file on disk
    hashStore,     \* HashManager store: last content hashed per file
    hashQueue,     \* files waiting for the hasher
    hashing,       \* <<file, content read>> the hasher is hashing, or None
    edits,         \* number of file modifications so far
    requests       \* number of user and queue requests so far

shareVars == <<shares, directories, sharedSize>>
refreshVars == <<refreshing, refreshOptions, refreshPaths, rt, dirs, toScan, newDirs>>
guiVars == <<gui, addPath, addRoot>>
hashVars == <<hashStore, hashQueue, hashing>>
vars == <<shareVars, refreshVars, aShutdown, guiVars, disk, hashVars, edits, requests>>

\* a request of the user or of the queue, counted against MaxRequests
Request == requests < MaxRequests /\ requests' = requests + 1

-----------------------------------------------------------------------------
(* Helpers *)

Entry == [tth : Contents, size : {SizeOf[c] : c \in Contents}]
Trees == UNION {[S -> Entry] : S \in SUBSET Files}
IsRootRec(x) ==
    /\ DOMAIN x = {"name", "files", "index"}
    /\ x.name \in VNames
    /\ x.files \in Trees
    /\ IsABag(x.index) /\ DOMAIN x.index \subseteq Contents \X Files

Live == {r \in Paths : directories[r] # None}
Configured == {r \in Paths : shares[r] # None}
FilesUnder(p) == {f \in Files : FileDir[f] \in Below[p]}

\* HashManager::checkTTH: the store holds the hash of the current content
HashCurrent(f) == hashStore[f] = disk[f]

\* ShareManager::buildTree: the hashed files under p; the others are
\* handed to the hasher by checkTTH and left out of this scan
BuildTree(p) ==
    [f \in {g \in FilesUnder(p) : HashCurrent(g)} |->
        [tth |-> disk[f], size |-> SizeOf[disk[f]]]]
CheckTTH(queue, p) == queue \cup {g \in FilesUnder(p) : ~HashCurrent(g)}

\* the tthIndex multimap of a root, as a bag of <<tth, file>> entries
IndexOfTree(t) == SetToBag({<<t[f].tth, f>> : f \in DOMAIN t})
TreeSize(t) == MapThenSumSet(LAMBDA f : t[f].size, DOMAIN t)

\* ShareManager::rebuildIndices: clear and refill every root's tthIndex,
\* recompute sharedSize
RebuildIndices(d) ==
    [r \in Paths |-> IF d[r] = None THEN None
                     ELSE [d[r] EXCEPT !.index = IndexOfTree(d[r].files)]]
TotalSize(d) == MapThenSumSet(LAMBDA r : TreeSize(d[r].files),
                              {r \in Paths : d[r] # None})

\* ShareManager::findDirectory: the first live root (in path order, so the
\* outermost one) that is a parent of or equal to directory p
FindRoot(p) ==
    {r \in Live : p \in Below[r] /\
        ~\E q \in Live : q # r /\ p \in Below[q] /\ r \in Below[q]}

\* HashPauser: refresh and addDirectory pause the hasher while they run
HashingPaused == rt = "scanning" \/ gui = "adding"

-----------------------------------------------------------------------------
(* load() followed by loadCache(): the configured roots (never nested, as *)
(* addDirectory keeps them), their trees read from the Shares.xml cache,   *)
(* written when the share last matched the disk and the hash store, and   *)
(* indexed by updateIndices.                                              *)
Init ==
    /\ shares \in [Paths -> VNames \cup {None}]
    /\ \A p, q \in Configured : p # q => p \notin Below[q]
    /\ disk \in [Files -> Contents]
    /\ hashStore \in [Files -> Contents \cup {None}]
    /\ \A f \in Files : hashStore[f] \in {None, disk[f]}
    /\ directories = [p \in Paths |-> IF shares[p] = None THEN None
                        ELSE [name |-> shares[p], files |-> BuildTree(p),
                              index |-> IndexOfTree(BuildTree(p))]]
    /\ sharedSize = TotalSize(directories)
    /\ refreshing = FALSE
    /\ refreshOptions = "all"
    /\ refreshPaths = {}
    /\ rt = "idle"
    /\ dirs = <<>>
    /\ toScan = {}
    /\ newDirs = [p \in Paths |-> None]
    /\ aShutdown = FALSE
    /\ gui = "idle"
    /\ addPath = None
    /\ addRoot = None
    /\ hashQueue = {}
    /\ hashing = None
    /\ edits = 0
    /\ requests = 0

-----------------------------------------------------------------------------
(* refresh(const string& aDir): the path is a live root, or a virtual     *)
(* name naming one or more configured roots; the refresh thread starts.   *)
RefreshPathStarted(aDir) ==
    LET found == IF aDir \in Paths /\ directories[aDir] # None THEN {aDir}
                 ELSE {q \in Paths : shares[q] = aDir}
    IN /\ ~refreshing
       /\ found # {}
       /\ Request
       /\ refreshing' = TRUE
       /\ refreshPaths' = found
       /\ refreshOptions' = "dir"
       /\ rt' = "starting"
       /\ UNCHANGED <<shareVars, dirs, toScan, newDirs, aShutdown, guiVars,
                      disk, hashVars, edits>>

\* refresh(aDir) when nothing matches: REFRESH_PATH_NOT_FOUND, flag cleared
RefreshPathNotFound(aDir) ==
    /\ Request
    /\ ~refreshing
    /\ ~(aDir \in Paths /\ directories[aDir] # None)
    /\ \A q \in Paths : shares[q] # aDir
    /\ refreshPaths # {}
    /\ refreshPaths' = {}
    /\ UNCHANGED <<shareVars, refreshing, refreshOptions, rt, dirs, toScan,
                   newDirs, aShutdown, guiVars, disk, hashVars, edits>>

\* refresh(REFRESH_ALL | REFRESH_UPDATE), also fired by the Minute timer
RefreshAll ==
    /\ Request
    /\ ~refreshing
    /\ refreshing' = TRUE
    /\ refreshOptions' = "all"
    /\ rt' = "starting"
    /\ UNCHANGED <<shareVars, refreshPaths, dirs, toScan, newDirs, aShutdown,
                   guiVars, disk, hashVars, edits>>

(* variant of GetDirectories that takes no virtual name for a refresh   *)
(* path that is no longer configured                                      *)
GetDirectoriesNoName(garbage) ==
    IF refreshOptions = "all" THEN [q \in Configured |-> shares[q]]
    ELSE [q \in refreshPaths |-> shares[q]]

(* getDirectories(refreshOptions) under the read lock: every configured  *)
(* root for REFRESH_ALL; for REFRESH_DIRECTORY shares.find(path)->second *)
(* of each refresh path, which for a path no longer configured reads     *)
(* end() (undefined behaviour), modelled as an arbitrary virtual name.   *)
GetDirectories(garbage) ==
    IF refreshOptions = "all" THEN [q \in Configured |-> shares[q]]
    ELSE [q \in refreshPaths |->
            IF shares[q] # None THEN shares[q] ELSE garbage[q]]

\* run(), first part: getDirectories, then the HashPauser is taken
RunStart ==
    /\ rt = "starting"
    /\ \E garbage \in [Paths -> VNames] : dirs' = GetDirectories(garbage)
    /\ toScan' = DOMAIN dirs'
    /\ newDirs' = [p \in Paths |-> None]
    /\ rt' = "scanning"
    /\ UNCHANGED <<requests, shareVars, refreshing, refreshOptions, refreshPaths,
                   aShutdown, guiVars, disk, hashVars, edits>>

\* run(): buildTree of one root outside the lock, then the shutdown check
ScanRoot(p) ==
    /\ rt = "scanning"
    /\ p \in toScan
    /\ ~aShutdown
    /\ newDirs' = [newDirs EXCEPT ![p] =
                     [name |-> dirs[p], files |-> BuildTree(p), index |-> EmptyBag]]
    /\ toScan' = toScan \ {p}
    /\ hashQueue' = CheckTTH(hashQueue, p)
    /\ UNCHANGED <<requests, shareVars, refreshing, refreshOptions, refreshPaths, rt,
                   dirs, aShutdown, guiVars, disk, hashStore, hashing, edits>>

\* variant of ScanRootAbort whose jump to "end:" skips refreshing.clear()
ScanRootAbortKeepsFlag(p) ==
    /\ rt = "scanning"
    /\ p \in toScan
    /\ aShutdown
    /\ hashQueue' = CheckTTH(hashQueue, p)
    /\ newDirs' = [q \in Paths |-> None]
    /\ toScan' = {}
    /\ dirs' = <<>>
    /\ rt' = "idle"
    /\ UNCHANGED <<requests, shareVars, refreshing, refreshOptions, refreshPaths,
                   aShutdown, guiVars, disk, hashStore, hashing, edits>>

\* run(): "if(aShutdown) goto end": the new trees are dropped, flag cleared
ScanRootAbort(p) ==
    /\ rt = "scanning"
    /\ p \in toScan
    /\ aShutdown
    /\ hashQueue' = CheckTTH(hashQueue, p)
    /\ newDirs' = [q \in Paths |-> None]
    /\ toScan' = {}
    /\ dirs' = <<>>
    /\ rt' = "idle"
    /\ refreshing' = FALSE
    /\ UNCHANGED <<requests, shareVars, refreshOptions, refreshPaths, aShutdown,
                   guiVars, disk, hashStore, hashing, edits>>

\* variant of EraseRefreshed that clears every root for REFRESH_DIRECTORY too
EraseRefreshedAll(d) == [p \in Paths |-> None]

\* run(), under the write lock: erase the roots of dirs (REFRESH_DIRECTORY)
\* or clear directories (REFRESH_ALL)
EraseRefreshed(d) ==
    IF refreshOptions = "all" THEN [p \in Paths |-> None]
    ELSE [p \in Paths |-> IF p \in DOMAIN dirs THEN None ELSE d[p]]

(* run(), second part, under the write lock: EraseRefreshed, insert       *)
(* newDirs (std::map::insert keeps an existing key), rebuildIndices,      *)
(* setDirty; then the flag is cleared at "end:".                          *)
Splice ==
    /\ rt = "scanning"
    /\ toScan = {}
    /\ LET erased == EraseRefreshed(directories)
           inserted == [p \in Paths |-> IF erased[p] = None THEN newDirs[p]
                                        ELSE erased[p]]
       IN /\ directories' = RebuildIndices(inserted)
          /\ sharedSize' = TotalSize(inserted)
    /\ newDirs' = [p \in Paths |-> None]
    /\ dirs' = <<>>
    /\ rt' = "idle"
    /\ refreshing' = FALSE
    /\ UNCHANGED <<requests, shares, refreshOptions, refreshPaths, toScan,
                   aShutdown, guiVars, disk, hashVars, edits>>

-----------------------------------------------------------------------------
(* GUI thread *)

\* the effect of removeDirectory(p) once shares holds p
RemoveEffect(d, p) ==
    IF d[p] = None THEN d ELSE RebuildIndices([d EXCEPT ![p] = None])

(* addDirectory(realPath, virtualName), up to the write lock: every       *)
(* configured root that is a parent or child of realPath is removed with  *)
(* removeDirectory, the hasher is paused and the new tree is built        *)
(* without the lock.                                                      *)
AddDirectoryStart(p, v) ==
    /\ Request
    /\ gui = "idle"
    /\ LET removeMap == {q \in Configured : p \in Below[q] \/ q \in Below[p]}
           afterRemove == [q \in Paths |-> IF q \in removeMap THEN None
                                           ELSE directories[q]]
       IN /\ shares' = [q \in Paths |-> IF q \in removeMap THEN None
                                        ELSE shares[q]]
          /\ directories' = IF removeMap \cap Live = {} THEN directories
                            ELSE RebuildIndices(afterRemove)
          /\ sharedSize' = IF removeMap \cap Live = {} THEN sharedSize
                           ELSE TotalSize(afterRemove)
          /\ hashQueue' = CheckTTH(hashQueue \ UNION {FilesUnder(q) : q \in removeMap}, p)
    /\ gui' = "adding"
    /\ addPath' = p
    /\ addRoot' = [name |-> v, files |-> BuildTree(p), index |-> EmptyBag]
    /\ UNCHANGED <<refreshVars, aShutdown, disk, hashStore, hashing, edits>>

(* addDirectory, under the write lock: shares.insert and                  *)
(* directories.insert (both keep an existing key), then updateIndices on  *)
(* the new root, which adds its files to sharedSize in every case.        *)
AddDirectoryCommit ==
    /\ gui = "adding"
    /\ shares' = IF shares[addPath] = None
                 THEN [shares EXCEPT ![addPath] = addRoot.name] ELSE shares
    /\ directories' = IF directories[addPath] = None
                      THEN [directories EXCEPT ![addPath] =
                              [addRoot EXCEPT !.index = IndexOfTree(addRoot.files)]]
                      ELSE directories
    /\ sharedSize' = sharedSize + TreeSize(addRoot.files)
    /\ gui' = "idle"
    /\ addPath' = None
    /\ addRoot' = None
    /\ UNCHANGED <<requests, refreshVars, aShutdown, disk, hashVars, edits>>

\* removeDirectory(realPath): stopHashing, then under the write lock
RemoveDirectory(p) ==
    /\ Request
    /\ gui = "idle"
    /\ shares[p] # None
    /\ hashQueue' = hashQueue \ FilesUnder(p)
    /\ shares' = [shares EXCEPT ![p] = None]
    /\ directories' = RemoveEffect(directories, p)
    /\ sharedSize' = IF directories[p] = None THEN sharedSize
                     ELSE TotalSize([directories EXCEPT ![p] = None])
    /\ UNCHANGED <<refreshVars, aShutdown, guiVars, disk, hashStore, hashing, edits>>

\* renameDirectory(realPath, virtualName), under the write lock
RenameDirectory(p, v) ==
    /\ Request
    /\ gui = "idle"
    /\ shares[p] \notin {None, v}
    /\ shares' = [shares EXCEPT ![p] = v]
    /\ directories' = IF directories[p] = None THEN directories
                      ELSE [directories EXCEPT ![p].name = v]
    /\ UNCHANGED <<sharedSize, refreshVars, aShutdown, guiVars, disk, hashVars, edits>>

-----------------------------------------------------------------------------
(* Hasher thread and its FileHashed callback *)

HashStart(f) ==
    /\ ~HashingPaused
    /\ hashing = None
    /\ f \in hashQueue
    /\ hashing' = <<f, disk[f]>>
    /\ hashQueue' = hashQueue \ {f}
    /\ UNCHANGED <<requests, shareVars, refreshVars, aShutdown, guiVars, disk, hashStore, edits>>

(* variant of RehashFile that inserts the new index entry without       *)
(* erasing the old one                                                    *)
RehashFileKeepsOldEntry(rec, f, h) ==
    [rec EXCEPT !.files = [rec.files EXCEPT ![f].tth = h],
                !.index = BagAdd(rec.index, <<h, f>>)]

\* onFileHashed, file already in the tree: its tthIndex entry is erased and
\* re-inserted under the new TTH; setTTH leaves the size as it was
RehashFile(rec, f, h) ==
    [rec EXCEPT !.files = [rec.files EXCEPT ![f].tth = h],
                !.index = BagAdd(BagRemove(rec.index, <<rec.files[f].tth, f>>),
                                 <<h, f>>)]

\* variant of AddHashedFile that ignores a file the tree does not hold yet
AddHashedFileIgnored(rec, f, h) == rec

\* onFileHashed, file not in the tree: inserted with File::getSize(fname),
\* the size on disk when the callback runs, then updateIndices, which skips
\* a file already indexed under that TTH
AddHashedFile(rec, f, h) ==
    [rec EXCEPT !.files = rec.files @@ (f :> [tth |-> h, size |-> SizeOf[disk[f]]]),
                !.index = IF <<h, f>> \in DOMAIN rec.index THEN rec.index
                          ELSE BagAdd(rec.index, <<h, f>>)]
AddedSize(rec, f, h) ==
    IF <<h, f>> \in DOMAIN rec.index THEN 0 ELSE SizeOf[disk[f]]

(* The hasher stores the TTH of the content it read and calls             *)
(* onFileHashed(fname, root) under the write lock; findDirectory finds   *)
(* the root holding the file's directory (nothing happens outside the    *)
(* share).                                                                *)
HashFinish ==
    /\ hashing # None
    /\ LET f == hashing[1]
           h == hashing[2]
           roots == FindRoot(FileDir[f])
           r == CHOOSE x \in roots : TRUE
           known == f \in DOMAIN directories[r].files
       IN /\ hashStore' = [hashStore EXCEPT ![f] = h]
          /\ directories' =
                IF roots = {} THEN directories
                ELSE [directories EXCEPT ![r] =
                        IF known THEN RehashFile(@, f, h) ELSE AddHashedFile(@, f, h)]
          /\ sharedSize' =
                IF roots = {} \/ known THEN sharedSize
                ELSE sharedSize + AddedSize(directories[r], f, h)
    /\ hashing' = None
    /\ UNCHANGED <<requests, shares, refreshVars, aShutdown, guiVars, disk, hashQueue, edits>>

\* a file on disk is rewritten with other content
ModifyFile(f, c) ==
    /\ edits < MaxEdits
    /\ disk[f] # c
    /\ disk' = [disk EXCEPT ![f] = c]
    /\ edits' = edits + 1
    /\ UNCHANGED <<requests, shareVars, refreshVars, aShutdown, guiVars, hashVars>>

-----------------------------------------------------------------------------
(* Queue thread: on(QueueManagerListener::BundleHashed, path), under the  *)
(* write lock: findDirectory, cleanIndices (index entries and the files   *)
(* under the bundle are dropped, sizes are not subtracted), buildTree     *)
(* into the same directory, updateIndices (sizes added again).            *)
BundleHashed(d) ==
    /\ Request
    /\ FindRoot(d) # {}
    /\ LET r == CHOOSE x \in FindRoot(d) : TRUE
           rec == directories[r]
           cleaned == {f \in DOMAIN rec.files : FileDir[f] \in Below[d]}
           kept == [f \in DOMAIN rec.files \ cleaned |-> rec.files[f]]
           built == BuildTree(d)
           index0 == rec.index (-) SetToBag({<<rec.files[f].tth, f>> : f \in cleaned})
       IN /\ directories' = [directories EXCEPT ![r] =
                [rec EXCEPT !.files = kept @@ built,
                            !.index = index0 (+) IndexOfTree(built)]]
          /\ sharedSize' = sharedSize + TreeSize(built)
    /\ hashQueue' = CheckTTH(hashQueue, d)
    /\ UNCHANGED <<shares, refreshVars, aShutdown, guiVars, disk, hashStore,
                   hashing, edits>>

\* shutdown(): aShutdown = true
Shutdown ==
    /\ ~aShutdown
    /\ aShutdown' = TRUE
    /\ UNCHANGED <<requests, shareVars, refreshVars, guiVars, disk, hashVars, edits>>

-----------------------------------------------------------------------------
RefreshThread ==
    \/ RunStart
    \/ \E p \in Paths : ScanRoot(p) \/ ScanRootAbort(p)
    \/ Splice

Next ==
    \/ \E a \in Paths \cup VNames : RefreshPathStarted(a) \/ RefreshPathNotFound(a)
    \/ RefreshAll
    \/ RefreshThread
    \/ \E p \in Paths, v \in VNames : AddDirectoryStart(p, v) \/ RenameDirectory(p, v)
    \/ AddDirectoryCommit
    \/ \E p \in Paths : RemoveDirectory(p)
    \/ \E f \in Files : HashStart(f)
    \/ HashFinish
    \/ \E f \in Files, c \in Contents : ModifyFile(f, c)
    \/ \E d \in Paths : BundleHashed(d)
    \/ Shutdown

(* The refresh thread, the hasher and the GUI thread inside addDirectory  *)
(* run to completion once started; user requests, file edits, bundle     *)
(* completion and shutdown need not happen.                              *)
Fairness ==
    /\ WF_vars(RefreshThread)
    /\ WF_vars(\E f \in Files : HashStart(f))
    /\ WF_vars(HashFinish)
    /\ WF_vars(AddDirectoryCommit)

Spec == Init /\ [][Next]_vars /\ Fairness

-----------------------------------------------------------------------------
(* Properties *)

TypeOK ==
    /\ shares \in [Paths -> VNames \cup {None}]
    /\ DOMAIN directories = Paths
    /\ \A p \in Paths : directories[p] = None \/ IsRootRec(directories[p])
    /\ sharedSize \in Nat
    /\ refreshing \in BOOLEAN
    /\ refreshOptions \in {"all", "dir"}
    /\ refreshPaths \subseteq Paths
    /\ rt \in {"idle", "starting", "scanning"}
    /\ \A q \in DOMAIN dirs : q \in Paths /\ dirs[q] \in VNames
    /\ toScan \subseteq DOMAIN dirs
    /\ DOMAIN newDirs = Paths
    /\ \A p \in Paths : newDirs[p] = None \/ IsRootRec(newDirs[p])
    /\ gui \in {"idle", "adding"}
    /\ disk \in [Files -> Contents]
    /\ hashStore \in [Files -> Contents \cup {None}]
    /\ hashQueue \subseteq Files
    /\ hashing \in (Files \X Contents) \cup {None}
    /\ edits \in 0..MaxEdits
    /\ requests \in 0..MaxRequests

(* Every live root's tthIndex holds exactly one entry <<tth, file>> for   *)
(* each file of its tree, with the file's current TTH, and nothing else:  *)
(* onFileHashed's erase-and-reinsert, updateIndices' duplicate check,     *)
(* BundleHashed's cleanIndices and the refresh's rebuildIndices must keep *)
(* the multimap and the tree in step, or TTH searches return stale or     *)
(* dangling entries.                                                      *)
IndexConsistent ==
    \A r \in Live : directories[r].index = IndexOfTree(directories[r].files)

(* A refresh request always ends: the refreshing flag taken by refresh()  *)
(* is cleared on every path out of run() (splice or shutdown abort), so  *)
(* later refreshes are not refused forever with REFRESH_IN_PROGRESS.      *)
RefreshCompletes == refreshing ~> ~refreshing

(* A REFRESH_DIRECTORY splice replaces only the refreshed roots: every   *)
(* other live root keeps its files (run() erases exactly the paths of    *)
(* getDirectories before inserting newDirs).                             *)
SpliceKeepsOtherRoots ==
    [][rt = "scanning" /\ rt' = "idle" /\ refreshOptions = "dir" =>
        \A r \in Live \ DOMAIN dirs :
            directories'[r] # None /\ directories'[r].files = directories[r].files]_vars

(* When run() reads shares for the refresh paths, every one of them is   *)
(* still configured (otherwise shares.find(path)->second reads end()).   *)
RefreshPathsConfigured ==
    rt = "starting" /\ refreshOptions = "dir" => refreshPaths \subseteq Configured

(* Once shutdown() has set aShutdown, a refresh that is still running    *)
(* ends without touching the share: the spec says shutdown aborts the    *)
(* refresh in any phase and leaves the tree as it was.  run() checks the *)
(* flag only after each buildTree.                                        *)
ShutdownAbortsRefresh ==
    [][aShutdown /\ rt = "scanning" /\ rt' = "idle" => directories' = directories]_vars

(* Once the refresh thread and the GUI thread are idle, the shared roots *)
(* are exactly the configured ones: a root removed with removeDirectory   *)
(* is not shared again, and one added with addDirectory is not dropped,   *)
(* by a refresh that read shares before the change.                       *)
SharedRootsMatchConfig == (rt = "idle" /\ gui = "idle") => Live = Configured

(* A file whose hash has been computed and which lies under a live root  *)
(* is in that root's tree once the refresh thread and the GUI are idle   *)
(* and the hasher has nothing left (the spec: files skipped by a scan    *)
(* are "picked up later via the hash-completed callback").               *)
HashedFilesShared ==
    (rt = "idle" /\ gui = "idle" /\ hashing = None /\ hashQueue = {}) =>
        \A r \in Live : \A f \in FilesUnder(r) :
            (HashCurrent(f) /\ FindRoot(FileDir[f]) = {r}) => f \in DOMAIN directories[r].files

(* Every shared entry's size is the size of the content its TTH names:   *)
(* search results and toRealWithSize report size and TTH of one file.    *)
EntrySizeMatchesTTH ==
    \A r \in Live : \A f \in DOMAIN directories[r].files :
        directories[r].files[f].size = SizeOf[directories[r].files[f].tth]

(* sharedSize, kept incrementally by updateIndices, equals the total size *)
(* of the files in the live trees.                                        *)
SharedSizeMatches == sharedSize = TotalSize(directories)

=============================================================================
