----------------------------- MODULE ShareSearch -----------------------------
(***************************************************************************)
(* The ADC search of ShareManager.cpp: the AdcSearch constructor that      *)
(* parses the search parameters, ShareManager::search(params) that answers *)
(* a TTH search from the roots' tthIndex and the temp shares or checks the *)
(* bloom filter and walks the roots, and Directory::search, the recursive  *)
(* walk.                                                                   *)
(*                                                                         *)
(* The walk runs one step per loop iteration over an explicit stack of     *)
(* frames, because what matters is the pointer aStrings.include: a frame   *)
(* whose directory name consumed search terms points it at a list it owns  *)
(* (unique_ptr newStr) and restores it on exit only if the sizes differ.   *)
(* A list is identified by the directory whose frame owns it ("base" is    *)
(* srch.includeX); a freed list stays in lists, its id in freed.           *)
(*                                                                         *)
(* A name is abstracted to the set of search terms it contains, so         *)
(* StringSearch::match(name) of a term is membership.  The share tree is a *)
(* constant shape; which terms each name contains is chosen initially.     *)
(***************************************************************************)
EXTENDS Integers, Sequences, FiniteSets, SequencesExt

CONSTANTS
    Terms,        \* search words
    Exts,         \* file extensions
    TTHs,         \* content hashes
    Roots,        \* the DirMap directories, in map order
    Children,     \* [dir -> sequence of child dirs, in Directory::Map order]
    Files,        \* [dir -> sequence of files, in File::Set order]
    FileSize, FileTTH, FileExt,   \* [file -> ...]
    TempShares,   \* initial tempShares multimap: sequence of [tth, key]
    Cid,          \* the searching user's CID, a temp share key
    Cids,         \* CIDs of users asking for a file
    VNames,       \* virtual names of roots
    Names,        \* names of directories and files below the roots
    Paths,        \* virtual paths asked for, as sequences of segments
    MaxTemp,      \* bound on the number of temp shares
    Endings,      \* file name endings (see CheckType)
    NmdcTerms,    \* the terms names contain in an NMDC search
    NmdcQueries,  \* [tokens, searchType, size, fileType, tth, max]
    Params,       \* the parameter sequences a search may carry
    MaxResultsSet,\* values of maxResults
    NoTTH, LongMax

Dirs == DOMAIN Children
AllFiles == UNION {{Files[d][k] : k \in DOMAIN Files[d]} : d \in Dirs}
FileDir(f) == CHOOSE d \in Dirs : \E k \in DOMAIN Files[d] : Files[d][k] = f
RECURSIVE PathTo(_)
\* The directories from the root down to d.
PathTo(d) ==
    IF \E p \in Dirs : \E k \in DOMAIN Children[p] : Children[p][k] = d
    THEN LET p == CHOOSE p \in Dirs : \E k \in DOMAIN Children[p] : Children[p][k] = d
         IN PathTo(p) \o <<d>>
    ELSE <<d>>
RootOf(d) == PathTo(d)[1]

VARIABLES
    dirName, fileName,   \* [node -> SUBSET Terms]: the terms each name contains
    srch,                \* the AdcSearch built from the parameters
    maxResults,
    unShared,            \* roots the client's hub excludes (isHubExcluded)
    pc,                  \* "start", "roots" (ShareManager::search's loop), "done"
    j,                   \* index into Roots
    stack,               \* Directory::search frames, innermost last
    include,             \* aStrings.include: the id of the list it points to
    lists,               \* [id -> SUBSET Terms]
    freed,               \* ids of lists whose unique_ptr has been destroyed
    results,             \* SearchResultList: <<"dir", d>> or <<"file", f>>
    dangling,            \* a size was read through a freed include list
    vName, nodeName,     \* root virtual names, names of the other nodes
    tempShares,          \* the tempShares multimap, in iteration order
    req, answer,         \* a lookup asked and what it returned
    ending               \* [file -> Endings]: how each file name ends

searchVars == <<dirName, fileName, srch, maxResults, unShared, j, stack,
                include, lists, freed, results, dangling>>
lookupVars == <<vName, nodeName, tempShares, req, answer, ending>>
vars == <<pc, searchVars, lookupVars>>

(***************************************************************************)
(* AdcSearch(params): a parameter is <<code, value>>; codes of two         *)
(* characters or fewer are skipped, TR ends the parsing.                   *)
(***************************************************************************)
NoSearch == [hasRoot |-> FALSE, root |-> NoTTH, include |-> {}, exclude |-> {},
             ext |-> {}, gt |-> 0, lt |-> LongMax, isDirectory |-> FALSE, ty |-> 0]
\* ty records the TY value only for DirResultsAllowed; the code keeps isDirectory.

ParseParam(s, p) ==
    CASE p[1] = "AN" -> [s EXCEPT !.include = @ \cup {p[2]}]
      [] p[1] = "NO" -> [s EXCEPT !.exclude = @ \cup {p[2]}]
      [] p[1] = "EX" -> [s EXCEPT !.ext = @ \cup {p[2]}]
      [] p[1] = "GE" -> [s EXCEPT !.gt = p[2]]
      [] p[1] = "LE" -> [s EXCEPT !.lt = p[2]]
      [] p[1] = "EQ" -> [s EXCEPT !.gt = p[2], !.lt = p[2]]
      [] p[1] = "TY" -> [s EXCEPT !.isDirectory = (p[2] = 2), !.ty = p[2]]
      [] OTHER       -> s

RECURSIVE ParseFrom(_, _)
ParseFrom(s, ps) ==
    IF ps = <<>> THEN s
    ELSE IF Head(ps)[1] = "TR" THEN [s EXCEPT !.hasRoot = TRUE, !.root = Head(ps)[2]]
    ELSE ParseFrom(ParseParam(s, Head(ps)), Tail(ps))

AdcSearch(ps) == ParseFrom(NoSearch, ps)

\* AdcSearch::isExcluded and hasExt (ext empty, or the name ends with one).
IsExcluded(n) == n \cap srch.exclude # {}
HasExt(f) == srch.ext = {} \/ FileExt[f] \in srch.ext

\* The file loop's test of one file against the current include list.
FileMatches(f, inc) ==
    /\ FileSize[f] >= srch.gt /\ FileSize[f] <= srch.lt
    /\ ~IsExcluded(fileName[f])
    /\ inc \subseteq fileName[f]
    /\ HasExt(f)

(***************************************************************************)
(* Directory::search entry for d: the loop over aStrings.include removes   *)
(* from a copy every term the (non-excluded) directory name matches, the   *)
(* copy becomes aStrings.include, and the directory itself is a result     *)
(* when no term, no extension and no minimum size is left.  The caller's  *)
(* frame is already updated in stk.                                        *)
\* A directory entry that lets an excluded name consume terms.
VisitConsumesExcluded(d, stk) ==
    LET cur == lists[include]
        consumed == cur \cap dirName[d]
        own == consumed # {}
        inc == cur \ consumed
    IN  /\ stack' = Append(stk, [dir |-> d, fi |-> 0, ci |-> 0, old |-> include, own |-> own])
        /\ include' = IF own THEN d ELSE include
        /\ lists' = IF own THEN [lists EXCEPT ![d] = inc] ELSE lists
        /\ freed' = freed \ {d}
        /\ results' = IF inc = {} /\ srch.ext = {} /\ srch.gt = 0
                      THEN Append(results, <<"dir", d>>) ELSE results

(***************************************************************************)
Visit(d, stk) ==
    LET cur == lists[include]
        consumed == IF IsExcluded(dirName[d]) THEN {} ELSE cur \cap dirName[d]
        own == consumed # {}
        inc == cur \ consumed
    IN  /\ stack' = Append(stk, [dir |-> d, fi |-> 0, ci |-> 0, old |-> include, own |-> own])
        /\ include' = IF own THEN d ELSE include
        /\ lists' = IF own THEN [lists EXCEPT ![d] = inc] ELSE lists
        /\ freed' = freed \ {d}
        /\ results' = IF inc = {} /\ srch.ext = {} /\ srch.gt = 0
                      THEN Append(results, <<"dir", d>>) ELSE results

\* The first file to look at is fi + 1; fi = -1 once the file loop is over.
Top == stack[Len(stack)]
Pop(fr) == /\ stack' = SubSeq(stack, 1, Len(stack) - 1)
           /\ freed' = IF fr.own THEN freed \cup {fr.dir} ELSE freed

(***************************************************************************)
(* ShareManager::search(params).  A TTH search returns the first indexed   *)
(* file with that TTH from a root the client's hub does not exclude, else  *)
(* every temp share of that TTH whose key is empty or the searcher's CID.  *)
(* Otherwise the search stops unless the bloom filter may contain every    *)
(* AN term: a term some name contains always passes, any other may pass    *)
(* (a false positive).                                                     *)
(***************************************************************************)
IndexedFiles(t) ==
    {f \in AllFiles : FileTTH[f] = t /\ RootOf(FileDir(f)) \notin unShared}

Start ==
    /\ pc = "start"
    /\ IF srch.hasRoot
       THEN /\ results' =
                 IF IndexedFiles(srch.root) # {}
                 THEN LET r == CHOOSE k \in DOMAIN Roots :
                                   /\ \E f \in IndexedFiles(srch.root) : RootOf(FileDir(f)) = Roots[k]
                                   /\ \A l \in 1..(k - 1) : \A f \in IndexedFiles(srch.root) :
                                          RootOf(FileDir(f)) # Roots[l]
                      IN <<<<"file", CHOOSE f \in IndexedFiles(srch.root) : RootOf(FileDir(f)) = Roots[r]>>>>
                 ELSE LET ts == SelectSeq(tempShares,
                                     LAMBDA s : s.tth = srch.root /\ s.key \in {"", Cid})
                      IN [k \in DOMAIN ts |-> <<"temp", ts[k]>>]
            /\ pc' = "done"
       ELSE \E pass \in BOOLEAN :
               /\ (\A t \in srch.include : \E n \in Dirs \cup AllFiles :
                       t \in (IF n \in Dirs THEN dirName[n] ELSE fileName[n])) => pass
               /\ pc' = IF pass THEN "roots" ELSE "done"
               /\ UNCHANGED results
    /\ UNCHANGED <<dirName, fileName, srch, maxResults, unShared, j, stack, include, lists, freed, dangling>>

\* One iteration of the loop over directories: skip a root the hub
\* excludes, else search it.
TopStep ==
    /\ pc = "roots" /\ stack = <<>>
    /\ j < Len(Roots) /\ Len(results) < maxResults
    /\ j' = j + 1
    /\ IF Roots[j + 1] \in unShared
       THEN UNCHANGED <<stack, include, lists, freed, results>>
       ELSE Visit(Roots[j + 1], stack)
    /\ UNCHANGED <<dirName, fileName, srch, maxResults, unShared, pc, dangling>>

TopEnd ==
    /\ pc = "roots" /\ stack = <<>>
    /\ j = Len(Roots) \/ Len(results) >= maxResults
    /\ pc' = "done"
    /\ UNCHANGED <<dirName, fileName, srch, maxResults, unShared, j, stack, include, lists, freed, results, dangling>>

(***************************************************************************)
(* One iteration of the file loop (skipped for a directory-only search).   *)
(* A matching file is added; when that reaches maxResults the frame        *)
(* returns at once, without restoring aStrings.include.                    *)
(***************************************************************************)
\* A file loop that advances twice past a file that does not match.
FileStepSkipsNext ==
    /\ stack # <<>> /\ Top.fi >= 0 /\ ~srch.isDirectory
    /\ Top.fi < Len(Files[Top.dir])
    /\ LET f == Files[Top.dir][Top.fi + 1] IN
       IF FileMatches(f, lists[include])
       THEN /\ results' = Append(results, <<"file", f>>)
            /\ IF Len(results) + 1 >= maxResults
               THEN Pop(Top)
               ELSE /\ stack' = [stack EXCEPT ![Len(stack)].fi = @ + 1]
                    /\ UNCHANGED freed
       ELSE /\ stack' = [stack EXCEPT ![Len(stack)].fi = @ + 2]
            /\ UNCHANGED <<results, freed>>
    /\ UNCHANGED <<dirName, fileName, srch, maxResults, unShared, pc, j, include, lists, dangling>>

FileStep ==
    /\ stack # <<>> /\ Top.fi >= 0 /\ ~srch.isDirectory
    /\ Top.fi < Len(Files[Top.dir])
    /\ LET f == Files[Top.dir][Top.fi + 1] IN
       IF FileMatches(f, lists[include])
       THEN /\ results' = Append(results, <<"file", f>>)
            /\ IF Len(results) + 1 >= maxResults
               THEN Pop(Top)
               ELSE /\ stack' = [stack EXCEPT ![Len(stack)].fi = @ + 1]
                    /\ UNCHANGED freed
       ELSE /\ stack' = [stack EXCEPT ![Len(stack)].fi = @ + 1]
            /\ UNCHANGED <<results, freed>>
    /\ UNCHANGED <<dirName, fileName, srch, maxResults, unShared, pc, j, include, lists, dangling>>

FilesDone ==
    /\ stack # <<>> /\ Top.fi >= 0
    /\ srch.isDirectory \/ Top.fi = Len(Files[Top.dir])
    /\ stack' = [stack EXCEPT ![Len(stack)].fi = -1]
    /\ UNCHANGED <<dirName, fileName, srch, maxResults, unShared, pc, j, include, lists, freed, results, dangling>>

\* One iteration of the loop over subdirectories.
ChildStep ==
    /\ stack # <<>> /\ Top.fi = -1
    /\ Top.ci < Len(Children[Top.dir]) /\ Len(results) < maxResults
    /\ Visit(Children[Top.dir][Top.ci + 1], [stack EXCEPT ![Len(stack)].ci = @ + 1])
    /\ UNCHANGED <<dirName, fileName, srch, maxResults, unShared, pc, j, dangling>>

(***************************************************************************)
(* Return: aStrings.include is set back to old if its list's size differs  *)
(* from old's.  If include points to a list already freed (a descendant    *)
(* returned early), the size read is undefined behaviour: either outcome.  *)
(***************************************************************************)
Exit ==
    /\ stack # <<>> /\ Top.fi = -1
    /\ Top.ci = Len(Children[Top.dir]) \/ Len(results) >= maxResults
    /\ \E differ \in BOOLEAN :
          /\ include \notin freed =>
                (differ = (Cardinality(lists[include]) # Cardinality(lists[Top.old])))
          /\ include' = IF differ THEN Top.old ELSE include
    /\ dangling' = (dangling \/ include \in freed)
    /\ Pop(Top)
    /\ UNCHANGED <<dirName, fileName, srch, maxResults, unShared, pc, j, lists, results>>

(***************************************************************************)
(* Lookups by virtual path or TTH, each atomic under the share's read lock *)
(* (toRealWithSize, getTTH, getFileInfo, toVirtual, getRealPaths,          *)
(* getRealPath(TTH)), and the temp share operations under tScs.  A request *)
(* is [kind |-> "path", segs |-> s] for the string "/s1/s2/.../sn" (segs   *)
(* <<>> stands for an empty or relative string, a last segment "" for a    *)
(* trailing '/'), [kind |-> "tth", tth |-> t] for "TTH/t", or              *)
(* [kind |-> "name", name |-> n] for a file list name.  A directory or     *)
(* file stands for its real path; directory names are case-insensitive    *)
(* keys, abstracted to the names in Names.                                 *)
(***************************************************************************)
RootSet == Range(Roots)
NoDir == "NoDir"
NoFile == "NoFile"
ClientLists == SUBSET SUBSET RootSet   \* each hub's unShared roots
Requests == [kind : {"path"}, segs : Paths] \cup [kind : {"tth"}, tth : TTHs]
            \cup [kind : {"name"}, name : {"files.xml.bz2", "MyList.DcLst"}]

\* isExcluded / isHubExcluded: a root is hidden only if the user is in at
\* least one hub and every one of them lists it as unshared.
IsExcludedFor(r, cl) == cl # {} /\ \A c \in cl : r \in c

\* A getByVirtual that forgets the hub exclusion.
GetByVirtualNoExclusion(v, cl) ==
    IF v = "" THEN <<>> ELSE SelectSeq(Roots, LAMBDA r : vName[r] = v)

\* getByVirtual: the visible roots with that virtual name, in DirMap order.
GetByVirtual(v, cl) ==
    IF v = "" THEN <<>>
    ELSE SelectSeq(Roots, LAMBDA r : ~IsExcludedFor(r, cl) /\ vName[r] = v)

ChildNamed(d, n) ==
    IF \E c \in Range(Children[d]) : nodeName[c] = n
    THEN CHOOSE c \in Range(Children[d]) : nodeName[c] = n ELSE NoDir

RECURSIVE Walk(_, _)
\* The while loop of findVirtuals: d->directories.find of each segment.
Walk(d, ns) == IF ns = <<>> \/ d = NoDir THEN d ELSE Walk(ChildNamed(d, Head(ns)), Tail(ns))

\* findVirtuals: <<>> where it throws; otherwise the directories, one per
\* root of that virtual name, that hold the last segment.
FindVirtuals(segs, cl) ==
    IF Len(segs) < 2 \/ segs[1] = "" THEN <<>>
    ELSE LET vs == GetByVirtual(segs[1], cl)
         IN SelectSeq([k \in DOMAIN vs |-> Walk(vs[k], SubSeq(segs, 2, Len(segs) - 1))],
                      LAMBDA d : d # NoDir)

\* tthIndex of a root.
IndexOf(r) == {f \in AllFiles : RootOf(FileDir(f)) = r}
FileNamed(d, n) == {f \in Range(Files[d]) : nodeName[f] = n}

\* findFile: by TTH the first visible root that indexes it, else the first
\* directory of findVirtuals that holds a file of the last segment's name.
FindFile(rq, cl) ==
    IF rq.kind = "tth"
    THEN LET rs == SelectSeq(Roots, LAMBDA r : ~IsExcludedFor(r, cl) /\
                                     \E f \in IndexOf(r) : FileTTH[f] = rq.tth)
         IN IF rs = <<>> THEN NoFile ELSE CHOOSE f \in IndexOf(rs[1]) : FileTTH[f] = rq.tth
    ELSE IF rq.kind = "name" THEN NoFile   \* not starting with '/': findVirtuals throws
    ELSE LET ds == SelectSeq(FindVirtuals(rq.segs, cl),
                             LAMBDA d : FileNamed(d, Last(rq.segs)) # {})
         IN IF ds = <<>> THEN NoFile ELSE CHOOSE f \in FileNamed(ds[1], Last(rq.segs)) : TRUE

\* The first root, visible or not, whose tthIndex holds t.
IndexedAnywhere(t) ==
    LET rs == SelectSeq(Roots, LAMBDA r : \E f \in IndexOf(r) : FileTTH[f] = t)
    IN IF rs = <<>> THEN NoFile ELSE CHOOSE f \in IndexOf(rs[1]) : FileTTH[f] = t

\* getADCPath: the root's virtual name, then the names below it.
VPath(n) ==
    LET ds == IF n \in Dirs THEN PathTo(n) ELSE PathTo(FileDir(n)) \o <<n>>
    IN <<vName[ds[1]]>> \o [k \in 1..(Len(ds) - 1) |-> nodeName[ds[k + 1]]]

\* findTempShare: the first temp share of the TTH with no key or the key.
FindTempShare(key, rq) ==
    IF rq.kind # "tth" THEN <<>>
    ELSE SelectSeq(tempShares, LAMBDA s : s.tth = rq.tth /\ s.key \in {"", key})

Lookup(op, rq, cl, key, ans) ==
    /\ pc = "lookup" /\ pc' = "done"
    /\ req' = [op |-> op, rq |-> rq, clients |-> cl, key |-> key]
    /\ answer' = ans
    /\ UNCHANGED <<vName, nodeName, tempShares, ending>>

\* toRealWithSize: the file lists by name, else findFile, else a temp share.
ToRealWithSize ==
    \E rq \in Requests, cl \in ClientLists, key \in Cids, isInSharingHub \in BOOLEAN :
       Lookup("toReal", rq, cl, key,
          CASE rq.kind = "name" /\ rq.name = "MyList.DcLst" -> <<"error">>
            [] rq.kind = "name" -> IF isInSharingHub THEN <<"list">> ELSE <<"emptylist">>
            [] FindFile(rq, cl) # NoFile -> <<"share", FindFile(rq, cl)>>
            [] FindTempShare(key, rq) # <<>> -> <<"temp", Head(FindTempShare(key, rq))>>
            [] OTHER -> <<"error">>)

\* getTTH: the file list's root, else the TTH of findFile.
GetTTH ==
    \E rq \in Requests, cl \in ClientLists :
       Lookup("getTTH", rq, cl, "",
          IF rq.kind = "name" /\ rq.name = "files.xml.bz2" THEN <<"listroot">>
          ELSE IF FindFile(rq, cl) # NoFile THEN <<"tth", FileTTH[FindFile(rq, cl)]>>
          ELSE <<"error">>)

\* getFileInfo: the file list, else for "TTH/..." the ADC path of the file
\* in the first root indexing it; the hub exclusion check is commented out.
GetFileInfo ==
    \E rq \in Requests, cl \in ClientLists :
       Lookup("getFileInfo", rq, cl, "",
          CASE rq.kind = "name" /\ rq.name = "files.xml.bz2" -> <<"list">>
            [] rq.kind = "tth" /\ IndexedAnywhere(rq.tth) # NoFile ->
                   <<"path", VPath(IndexedAnywhere(rq.tth))>>
            [] OTHER -> <<"error">>)

\* toVirtual: the ADC path of the first indexed file with the TTH.
ToVirtual ==
    \E t \in TTHs :
       Lookup("toVirtual", [kind |-> "tth", tth |-> t], {}, "",
          IF IndexedAnywhere(t) # NoFile THEN <<"path", VPath(IndexedAnywhere(t))>>
          ELSE <<"error">>)

\* A getRealPaths whose directory loop returns after the first directory.
GetRealPathsFirstOnly ==
    \E segs \in Paths :
       LET rq == [kind |-> "path", segs |-> segs] IN
       Lookup("getRealPaths", rq, {}, "",
          CASE FindVirtuals(segs, {}) = <<>> -> <<"error">>
            [] Last(segs) = "" -> <<"dirs", <<Head(FindVirtuals(segs, {}))>>>>
            [] FindFile(rq, {}) # NoFile -> <<"files", <<FindFile(rq, {})>>>>
            [] OTHER -> <<"error">>)

\* getRealPaths: every directory of findVirtuals (no client list) for a
\* path ending in '/', else the real path of findFile.
GetRealPaths ==
    \E segs \in Paths :
       LET rq == [kind |-> "path", segs |-> segs] IN
       Lookup("getRealPaths", rq, {}, "",
          CASE FindVirtuals(segs, {}) = <<>> -> <<"error">>
            [] Last(segs) = "" -> <<"dirs", FindVirtuals(segs, {})>>
            [] FindFile(rq, {}) # NoFile -> <<"files", <<FindFile(rq, {})>>>>
            [] OTHER -> <<"error">>)

\* getRealPath(TTH): the first indexed file's real path, else "".
GetRealPath ==
    \E t \in TTHs :
       Lookup("getRealPath", [kind |-> "tth", tth |-> t], {}, "",
          IF IndexedAnywhere(t) # NoFile THEN <<"share", IndexedAnywhere(t)>> ELSE <<"none">>)

\* isFileShared: some root indexes a file of that TTH and name.
IsFileShared(t, n) == \E f \in AllFiles : FileTTH[f] = t /\ nodeName[f] = n
HasTempShare(t, key) == \E k \in DOMAIN tempShares : tempShares[k].tth = t /\ tempShares[k].key = key

TempReq(op, t, key) == [op |-> op, rq |-> [kind |-> "tth", tth |-> t], clients |-> {}, key |-> key]

\* An addTempShare that inserts without looking for the key first.
AddTempShareNoKeyCheck ==
    /\ pc = "temp" /\ Len(tempShares) < MaxTemp
    /\ \E key \in Cids \cup {""}, t \in TTHs, n \in Names, adcHub \in BOOLEAN :
         /\ req' = TempReq("addTemp", t, key)
         /\ tempShares' = IF ~IsFileShared(t, n) /\ adcHub
                          THEN Append(tempShares, [tth |-> t, key |-> key]) ELSE tempShares
         /\ answer' = <<IsFileShared(t, n) \/ adcHub>>
    /\ UNCHANGED <<pc, vName, nodeName, ending>>

\* addTempShare: true without adding if the file is already shared; on an
\* ADC hub true, adding it unless the TTH has a temp share of that key.
AddTempShare ==
    /\ pc = "temp" /\ Len(tempShares) < MaxTemp
    /\ \E key \in Cids \cup {""}, t \in TTHs, n \in Names, adcHub \in BOOLEAN :
         /\ req' = TempReq("addTemp", t, key)
         /\ tempShares' = IF ~IsFileShared(t, n) /\ adcHub /\ ~HasTempShare(t, key)
                          THEN Append(tempShares, [tth |-> t, key |-> key]) ELSE tempShares
         /\ answer' = <<IsFileShared(t, n) \/ adcHub>>
    /\ UNCHANGED <<pc, vName, nodeName, ending>>

\* removeTempShare: erase the first temp share of the TTH with the key.
RemoveTempShare ==
    /\ pc = "temp"
    /\ \E key \in Cids \cup {""}, t \in TTHs :
         LET ks == {k \in DOMAIN tempShares : tempShares[k].tth = t /\ tempShares[k].key = key}
         IN /\ req' = TempReq("removeTemp", t, key)
            /\ tempShares' = IF ks = {} THEN tempShares ELSE RemoveAt(tempShares, Min(ks))
            /\ answer' = <<>>
    /\ UNCHANGED <<pc, vName, nodeName, ending>>


(***************************************************************************)
(* The NMDC search: ShareManager::search(results, aString, aSearchType,   *)
(* aSize, aFileType, aClient, maxResults) and its Directory::search, one   *)
(* atomic step under the read lock (each frame's cur list is its own).     *)
(* A file name is abstracted to its ending: the last three characters,     *)
(* whether they are ASCII, the type2 suffixes it ends with, whether it is  *)
(* at least five characters long, and whether RAR_regexp matches it.       *)
(***************************************************************************)
TypeAudio == {"mp3", "mp2", "mid", "wav", "ogg", "wma", "669", "aac", "aif", "amf", "ams",
              "ape", "dbm", "dmf", "dsm", "far", "mdl", "med", "mod", "mol", "mp1", "mp4",
              "mpa", "mpc", "mpp", "mtm", "nst", "okt", "psm", "ptm", "rmi", "s3m", "stm",
              "ult", "umx", "wow"}
TypeCompressed == {"rar", "zip", "ace", "arj", "hqx", "lha", "sea", "tar", "tgz", "uc2"}
TypeDocument == {"nfo", "htm", "doc", "txt", "pdf", "chm"}
TypeExecutable == {"exe", "com"}
TypePicture == {"jpg", "gif", "png", "eps", "img", "pct", "psp", "pic", "tif", "rle", "bmp",
                "pcx", "jpe", "dcx", "emf", "ico", "psd", "tga", "wmf", "xif"}
TypeVideo == {"vob", "mpg", "mov", "asf", "avi", "wmv", "ogm", "mkv", "pxp", "m1v", "m2v",
              "mpe", "mps", "mpv", "ram"}
Type2Audio == {".au", ".it", ".ra", ".xm", ".aiff", ".flac", ".midi"}
Type2Compressed == {".gz"}
Type2Picture == {".jpeg", ".ai", ".ps", ".pict", ".tiff"}
Type2Video == {".mpeg", ".rm", ".divx", ".mp1v", ".mp2v", ".mpv1", ".mpv2", ".qt", ".rv", ".vivo"}

\* checkType: IS_TYPE compares '.' and the last three characters, lowered,
\* whatever precedes them; IS_TYPE2 compares a whole suffix.
CheckType(nm, t) ==
    LET T1(set) == nm.last3 \in set
        T2(set) == nm.ends \cap set # {}
    IN  CASE t = "any" -> TRUE
          [] ~nm.long \/ ~nm.ascii -> FALSE
          [] t = "audio" -> T1(TypeAudio) \/ T2(Type2Audio)
          [] t = "compressed" -> T1(TypeCompressed) \/ T2(Type2Compressed)
          [] t = "document" -> T1(TypeDocument)
          [] t = "executable" -> T1(TypeExecutable)
          [] t = "picture" -> T1(TypePicture) \/ T2(Type2Picture)
          [] t = "video" -> T1(TypeVideo) \/ T2(Type2Video)
          [] OTHER -> FALSE    \* dcassert(0)

\* getType: RAR_regexp first, then the categories in this order.
GetType(nm) ==
    CASE nm.rar -> "compressed"
      [] CheckType(nm, "audio") -> "audio"
      [] CheckType(nm, "video") -> "video"
      [] CheckType(nm, "document") -> "document"
      [] CheckType(nm, "compressed") -> "compressed"
      [] CheckType(nm, "picture") -> "picture"
      [] CheckType(nm, "executable") -> "executable"
      [] OTHER -> "any"

Below(d) == {f \in AllFiles : \E k \in DOMAIN PathTo(FileDir(f)) : PathTo(FileDir(f))[k] = d}

\* fileTypes: TYPE_DIRECTORY, and addType(getType(name)) of every file
\* below, propagated to each ancestor.
FileTypes(d) == {"directory"} \cup {GetType(ending[f]) : f \in Below(d)}

\* hasType: TYPE_ANY is never pruned.
HasType(d, t) == t = "any" \/ t \in FileTypes(d)

RECURSIVE NmdcDirNoErase(_, _, _, _), NmdcDir(_, _, _, _), NmdcFiles(_, _, _, _, _),
          NmdcChildren(_, _, _, _, _)
\* A Directory::search that passes its caller's terms on unchanged.
NmdcDirNoErase(d, strs, q, res) ==
    IF ~HasType(d, q.fileType) THEN res
    ELSE LET sizeOk == q.searchType # "atleast" \/ q.size = 0
             res1 == IF strs = <<>> /\ ((q.fileType = "any" /\ sizeOk) \/ q.fileType = "directory")
                     THEN Append(res, <<"dir", d>>) ELSE res
             res2 == IF q.fileType # "directory" THEN NmdcFiles(d, strs, q, res1, 1) ELSE res1
         IN  NmdcChildren(d, strs, q, res2, 1)

\* Directory::search: cur drops every term the directory name matches.
NmdcDir(d, strs, q, res) ==
    IF ~HasType(d, q.fileType) THEN res
    ELSE LET cur == SelectSeq(strs, LAMBDA s : s \notin dirName[d])
             sizeOk == q.searchType # "atleast" \/ q.size = 0
             res1 == IF cur = <<>> /\ ((q.fileType = "any" /\ sizeOk) \/ q.fileType = "directory")
                     THEN Append(res, <<"dir", d>>) ELSE res
             res2 == IF q.fileType # "directory" THEN NmdcFiles(d, cur, q, res1, 1) ELSE res1
         IN  NmdcChildren(d, cur, q, res2, 1)

\* The file loop: size, then every term, then checkType; break at maxResults.
NmdcFiles(d, cur, q, res, k) ==
    IF k > Len(Files[d]) THEN res
    ELSE LET f == Files[d][k]
             ok == /\ ~(q.searchType = "atleast" /\ q.size > FileSize[f])
                   /\ ~(q.searchType = "atmost" /\ q.size < FileSize[f])
                   /\ Range(cur) \subseteq fileName[f]
                   /\ CheckType(ending[f], q.fileType)
         IN  IF ~ok THEN NmdcFiles(d, cur, q, res, k + 1)
             ELSE IF Len(res) + 1 >= q.max THEN Append(res, <<"file", f>>)
             ELSE NmdcFiles(d, cur, q, Append(res, <<"file", f>>), k + 1)

NmdcChildren(d, cur, q, res, k) ==
    IF k > Len(Children[d]) \/ Len(res) >= q.max THEN res
    ELSE NmdcChildren(d, cur, q, NmdcDir(Children[d][k], cur, q, res), k + 1)

RECURSIVE NmdcRoots(_, _, _, _)
NmdcRoots(strs, q, res, k) ==
    IF k > Len(Roots) \/ Len(res) >= q.max THEN res
    ELSE NmdcRoots(strs, q, NmdcDir(Roots[k], strs, q, res), k + 1)

\* ShareManager::search (NMDC): "TTH:" looks up the first root indexing
\* the TTH; otherwise the non-empty '$' tokens pass the bloom filter (a term
\* some name contains always does), and the roots are
\* searched while results.size() < maxResults.
NmdcSearch ==
    /\ pc = "nmdc" /\ pc' = "done"
    /\ \E q \in NmdcQueries, pass \in BOOLEAN :
         LET ssl == SelectSeq(q.tokens, LAMBDA s : s # "") IN
         /\ (\A t \in Range(ssl) : \E n \in Dirs \cup AllFiles :
               t \in (IF n \in Dirs THEN dirName[n] ELSE fileName[n])) => pass
         /\ req' = [op |-> "nmdc", rq |-> q, clients |-> {}, key |-> ""]
         /\ results' =
              CASE q.fileType = "tth" ->
                     IF q.tth # NoTTH /\ IndexedAnywhere(q.tth) # NoFile
                     THEN <<<<"file", IndexedAnywhere(q.tth)>>>> ELSE <<>>
                [] ~pass \/ ssl = <<>> -> <<>>
                [] OTHER -> NmdcRoots(ssl, q, <<>>, 1)
    /\ UNCHANGED <<dirName, fileName, srch, maxResults, unShared, j, stack, include,
                   lists, freed, dangling, vName, nodeName, tempShares, answer, ending>>

NonRoots == (Dirs \ RootSet) \cup AllFiles
\* Names as Directory::Map and File::Set keys: distinct within a directory.
NameAssignments ==
    {nn \in [NonRoots -> Names] :
        \A d \in Dirs : \A x, y \in Range(Children[d]) \cup Range(Files[d]) : x # y => nn[x] # nn[y]}
NoReq == [op |-> "none", rq |-> [kind |-> "name", name |-> "files.xml.bz2"], clients |-> {}, key |-> ""]

\* A search ("start"), a single lookup ("lookup"), or temp share updates
\* ("temp").  A mode's inputs are chosen; the other variables keep a fixed
\* value.
Init ==
    /\ \/ /\ pc = "start"
          /\ dirName \in [Dirs -> SUBSET Terms]
          /\ fileName \in [AllFiles -> SUBSET Terms]
          /\ srch \in {AdcSearch(ps) : ps \in Params}
          /\ maxResults \in MaxResultsSet
          /\ unShared \in SUBSET RootSet
          /\ vName = [r \in RootSet |-> CHOOSE v \in VNames : TRUE]
          /\ nodeName = CHOOSE nn \in NameAssignments : TRUE
          /\ ending = [f \in AllFiles |-> CHOOSE e \in Endings : TRUE]
       \/ /\ pc = "nmdc"
          /\ dirName \in [Dirs -> SUBSET NmdcTerms]
          /\ fileName \in [AllFiles -> SUBSET NmdcTerms]
          /\ ending \in [AllFiles -> Endings]
          /\ srch = NoSearch /\ maxResults = CHOOSE m \in MaxResultsSet : TRUE
          /\ unShared = {}
          /\ vName = [r \in RootSet |-> CHOOSE v \in VNames : TRUE]
          /\ nodeName = CHOOSE nn \in NameAssignments : TRUE
       \/ /\ pc \in {"lookup", "temp"}
          /\ dirName = [d \in Dirs |-> {}] /\ fileName = [f \in AllFiles |-> {}]
          /\ srch = NoSearch /\ maxResults = CHOOSE m \in MaxResultsSet : TRUE
          /\ unShared = {}
          /\ vName \in [RootSet -> VNames]
          /\ nodeName \in NameAssignments
          /\ ending = [f \in AllFiles |-> CHOOSE e \in Endings : TRUE]
    /\ j = 0 /\ stack = <<>>
    /\ include = "base"
    /\ lists = [id \in {"base"} \cup Dirs |-> IF id = "base" THEN srch.include ELSE {}]
    /\ freed = {} /\ results = <<>> /\ dangling = FALSE
    /\ tempShares = TempShares /\ req = NoReq /\ answer = <<>>

SearchNext == Start \/ TopStep \/ TopEnd \/ FileStep \/ FilesDone \/ ChildStep \/ Exit
LookupNext == pc = "lookup" /\ (ToRealWithSize \/ GetTTH \/ GetFileInfo \/ ToVirtual \/ GetRealPaths \/ GetRealPath)
TempNext == pc = "temp" /\ (AddTempShare \/ RemoveTempShare)

Next == \/ SearchNext /\ UNCHANGED lookupVars
        \/ NmdcSearch
        \/ (LookupNext \/ TempNext) /\ UNCHANGED searchVars

Spec == Init /\ [][Next]_vars

(***************************************************************************)
(* Reference: the matches the walk is meant to find.  A term is consumed   *)
(* for everything below a directory whose name contains it and is not      *)
(* excluded; a file matches if it passes the file tests with the terms not *)
(* consumed on its path, a directory if every term is consumed there and   *)
(* neither an extension nor a minimum size is asked for.                   *)
(***************************************************************************)
Consumed(d) ==
    UNION {srch.include \cap dirName[PathTo(d)[k]] :
             k \in {k \in DOMAIN PathTo(d) : ~IsExcluded(dirName[PathTo(d)[k]])}}

RefMatches ==
    {<<"file", f>> : f \in {f \in AllFiles :
        /\ RootOf(FileDir(f)) \notin unShared /\ ~srch.isDirectory
        /\ FileMatches(f, srch.include \ Consumed(FileDir(f)))}}
    \cup
    {<<"dir", d>> : d \in {d \in Dirs :
        /\ RootOf(d) \notin unShared
        /\ srch.include \subseteq Consumed(d) /\ srch.ext = {} /\ srch.gt = 0}}

Reported == {results[k] : k \in DOMAIN results}

(***************************************************************************)
(* Properties.                                                             *)
(***************************************************************************)
TypeOK ==
    /\ pc \in {"start", "roots", "done", "lookup", "temp", "nmdc"} /\ j \in 0..Len(Roots)
    /\ \A k \in DOMAIN stack : stack[k].dir \in Dirs /\ stack[k].fi \in -1..Len(Files[stack[k].dir])
                               /\ stack[k].ci \in 0..Len(Children[stack[k].dir])
    /\ include \in {"base"} \cup Dirs /\ freed \subseteq Dirs
    /\ lists \in [{"base"} \cup Dirs -> SUBSET Terms]
    /\ dangling \in BOOLEAN
    /\ vName \in [RootSet -> VNames] /\ nodeName \in [NonRoots -> Names]
    /\ ending \in [AllFiles -> Endings]
    /\ tempShares \in Seq([tth : TTHs, key : Cids \cup {""}]) /\ Len(tempShares) <= MaxTemp

\* A name search returns each match of the query once, only matches, and
\* all of them unless it stopped at maxResults: the frames' consumption of
\* terms in directory names, the restore of aStrings.include on return and
\* the early returns in the file and directory loops agree with the
\* reference.
SearchResultsMatch ==
    (pc = "done" /\ req = NoReq /\ ~srch.hasRoot) =>
        /\ Reported \subseteq RefMatches
        /\ Cardinality(Reported) = Len(results)
        /\ Len(results) < maxResults => Reported = RefMatches

\* aStrings.include never points to a list that has been freed when the
\* walk reads it: Directory::search's early return at maxResults leaves it
\* pointing to the returning frame's newStr.
NoDanglingInclude == ~dangling

\* The search returns at most maxResults results, the hard cap the spec
\* gives (section 4.4, step 5).
ResultsCapped == Len(results) <= maxResults

\* A directory is returned only if no exclude term matches its name and
\* the query allows directories (not TY1), as the spec's step 4 says.
DirResultsAllowed ==
    \A k \in DOMAIN results :
        results[k][1] = "dir" => ~IsExcluded(dirName[results[k][2]]) /\ srch.ty # 1

\* Files a user sees at a virtual path, or with a TTH, and the directories
\* at a path ending in '/'.
FilesAt(segs, cl) == {f \in AllFiles : VPath(f) = segs /\ ~IsExcludedFor(RootOf(FileDir(f)), cl)}
FilesWith(t, cl) == {f \in AllFiles : FileTTH[f] = t /\ ~IsExcludedFor(RootOf(FileDir(f)), cl)}
DirsAt(segs) == {d \in Dirs : VPath(d) \o <<"">> = segs}

\* toRealWithSize serves a shared file exactly when one the user may see
\* (a root not unshared on every hub the user is in) has the asked virtual
\* path or TTH, whichever of the roots sharing a virtual name holds it;
\* otherwise, for a TTH, a temp share of no key or the user's CID, and
\* getTTH answers for the same files: getByVirtual, the directory walk of
\* findVirtuals, findFile and findTempShare agree with the reference.
ToRealMatchesShare ==
    (pc = "done" /\ req.op \in {"toReal", "getTTH"} /\ req.rq.kind # "name") =>
        LET hits == IF req.rq.kind = "path" THEN FilesAt(req.rq.segs, req.clients)
                    ELSE FilesWith(req.rq.tth, req.clients)
        IN  IF req.op = "toReal"
            THEN /\ (answer[1] = "share") = (hits # {})
                 /\ answer[1] = "share" => answer[2] \in hits
                 /\ (answer[1] = "temp") = (hits = {} /\ req.rq.kind = "tth" /\
                        \E s \in Range(tempShares) : s.tth = req.rq.tth /\ s.key \in {"", req.key})
            ELSE /\ (answer[1] = "tth") = (hits # {})
                 /\ answer[1] = "tth" => answer[2] \in {FileTTH[f] : f \in hits}

\* getRealPaths of a directory path returns the real path of every root or
\* directory with that virtual path, one per root sharing the virtual
\* name, each once, and fails when there is none.
RealPathsComplete ==
    (pc = "done" /\ req.op = "getRealPaths" /\ req.rq.segs # <<>> /\ Last(req.rq.segs) = "") =>
        IF DirsAt(req.rq.segs) = {} THEN answer = <<"error">>
        ELSE /\ answer[1] = "dirs" /\ Range(answer[2]) = DirsAt(req.rq.segs)
             /\ Len(answer[2]) = Cardinality(DirsAt(req.rq.segs))

\* After removeTempShare(key, tth) no temp share of that TTH and key is
\* left to serve: addTempShare never inserts a second one.
RemovedTempShareGone ==
    req.op = "removeTemp" => ~HasTempShare(req.rq.tth, req.key)

\* getFileInfo answers "TTH/..." only with the path of a file the asking
\* hub's user may see, as the spec's NotFound under profile visibility
\* says (the check in the loop is commented out).
FileInfoVisible ==
    (pc = "done" /\ req.op = "getFileInfo" /\ answer[1] = "path") =>
        \E f \in FilesWith(req.rq.tth, req.clients) : VPath(f) = answer[2]

\* The NMDC reference: the terms a directory's path has consumed; a file
\* matches if the size test passes, its name holds every other term and
\* checkType accepts it; a directory if its path consumed every term and
\* the type asks for directories, or for anything with no minimum size.
PathTerms(d) == UNION {dirName[p] : p \in Range(PathTo(d))}
NmdcRef(q) ==
    LET terms == Range(SelectSeq(q.tokens, LAMBDA s : s # ""))
    IN  {<<"file", f>> : f \in {f \in AllFiles :
            /\ q.fileType # "directory"
            /\ ~(q.searchType = "atleast" /\ q.size > FileSize[f])
            /\ ~(q.searchType = "atmost" /\ q.size < FileSize[f])
            /\ terms \ PathTerms(FileDir(f)) \subseteq fileName[f]
            /\ CheckType(ending[f], q.fileType)}}
        \cup
        {<<"dir", d>> : d \in {d \in Dirs :
            /\ terms \subseteq PathTerms(d)
            /\ \/ q.fileType = "any" /\ (q.searchType # "atleast" \/ q.size = 0)
               \/ q.fileType = "directory"}}

NmdcDone == pc = "done" /\ req.op = "nmdc" /\ req.rq.fileType # "tth"
                       /\ SelectSeq(req.rq.tokens, LAMBDA s : s # "") # <<>>

\* An NMDC name search returns only matches, each once, and, for a search
\* of any type or of directories, all of them unless it stopped at
\* maxResults: the term erasure of each frame's cur list, the file tests
\* and the maxResults breaks of Directory::search agree with the reference.
NmdcResultsMatch ==
    NmdcDone =>
        /\ Reported \subseteq NmdcRef(req.rq)
        /\ Cardinality(Reported) = Len(results)
        /\ (Len(results) < req.rq.max /\ req.rq.fileType \in {"any", "directory"})
               => Reported = NmdcRef(req.rq)

\* A search for a file type finds every file checkType accepts for it:
\* the fileTypes mask of each directory, built by getType, must not prune
\* a directory holding one.
NmdcTypedSearchComplete ==
    NmdcDone => (Len(results) < req.rq.max => Reported = NmdcRef(req.rq))
=============================================================================
