--------------------------- MODULE FileListMerge ---------------------------
(***************************************************************************)
(* The peer-facing file list of the newer core, src/airdcpp/ShareDirectory *)
(* .cpp: ShareDirectory::toFileList merges the trees of the shared roots   *)
(* into a tree of FilelistDirectory nodes keyed by lower-case virtual name *)
(* (several roots, and their subdirectories, may share a name), and        *)
(* FilelistDirectory::toXml writes it, either in full (every merged        *)
(* directory with its files, a file name repeated in a later merged        *)
(* directory left out) or partially (each top entry with the size, file    *)
(* and directory counts of its content).                                   *)
(*                                                                         *)
(* The caller, the list generation of ShareManager, is not in this source  *)
(* tree (spec 6 names only the serializer consuming a depth-first walk):  *)
(* it is modelled as calling toFileList on every root of the profile in   *)
(* turn and writing the top entries of the merged tree.  A                *)
(* ShareDirectory is a record: its virtual name (the root's name for a     *)
(* root), lastWrite, its files and its subdirectories, each keyed by lower *)
(* case as the sorted vectors key them.  XML escaping and layout are left  *)
(* out: an entry is a record of what it states.                            *)
(***************************************************************************)
EXTENDS Integers, Sequences, SequencesExt, FiniteSetsExt, Bags

CONSTANTS
    Lower,       \* Text::toLower on directory names
    FileLower,   \* Text::toLower on file names
    Calls        \* the root sequences a list generation may be asked for

VARIABLES
    flRoots,     \* the roots of the call in progress, <<>> when idle
    flRecursive, \* the aRecursive argument
    listRoot,    \* the FilelistDirectory the roots are merged into
    flNext,      \* the index of the next root to merge
    flOut        \* the written entries, once written

flVars == <<flRoots, flRecursive, listRoot, flNext, flOut>>

\* a FilelistDirectory without share directories or children
NewListDir(n, date) == [name |-> n, date |-> date, shareDirs |-> <<>>, listDirs |-> <<>>]

Keys(d) == {FileLower[f.name] : f \in d.files}

-----------------------------------------------------------------------------
(* toFileList(aListDir, aRecursive): the entry of this directory's lower  *)
(* virtual name is found (its date raised to lastWrite) or created; the   *)
(* directory is appended to its shareDirs, and with aRecursive each       *)
(* subdirectory is merged into that entry in turn.                        *)
\* mutant: the entry is keyed by the display name it is inserted under
RECURSIVE ToFileListDisplayKey(_, _, _)
ToFileListDisplayKey(d, ld, rec) ==
    LET key == d.name
        entry == IF key \in DOMAIN ld.listDirs
                 THEN [ld.listDirs[key] EXCEPT !.date = Max({@, d.date})]
                 ELSE NewListDir(d.name, d.date)
        here == [entry EXCEPT !.shareDirs = Append(@, d)]
        filled == IF rec THEN FoldSet(LAMBDA c, acc : ToFileListDisplayKey(c, acc, rec), here, d.dirs)
                  ELSE here
    IN  [ld EXCEPT !.listDirs = (key :> filled) @@ ld.listDirs]

RECURSIVE ToFileList(_, _, _)
ToFileList(d, ld, rec) ==
    LET key == Lower[d.name]
        entry == IF key \in DOMAIN ld.listDirs
                 THEN [ld.listDirs[key] EXCEPT !.date = Max({@, d.date})]
                 ELSE NewListDir(d.name, d.date)
        here == [entry EXCEPT !.shareDirs = Append(@, d)]
        filled == IF rec THEN FoldSet(LAMBDA c, acc : ToFileList(c, acc, rec), here, d.dirs)
                  ELSE here
    IN  [ld EXCEPT !.listDirs = (key :> filled) @@ ld.listDirs]

\* mutant: the directories of each level are not counted
RECURSIVE ContentInfoNoFolders(_)
ContentInfoNoFolders(d) ==
    LET sub == [c \in d.dirs |-> ContentInfoNoFolders(c)] IN
    << MapThenSumSet(LAMBDA f : f.size, d.files) + MapThenSumSet(LAMBDA c : sub[c][1], d.dirs),
       Cardinality(d.files) + MapThenSumSet(LAMBDA c : sub[c][2], d.dirs),
       MapThenSumSet(LAMBDA c : sub[c][3], d.dirs) >>

\* getContentInfo(size_, files_, folders_) over a directory's subtree
RECURSIVE ContentInfo(_)
ContentInfo(d) ==
    LET sub == [c \in d.dirs |-> ContentInfo(c)] IN
    << MapThenSumSet(LAMBDA f : f.size, d.files) + MapThenSumSet(LAMBDA c : sub[c][1], d.dirs),
       Cardinality(d.files) + MapThenSumSet(LAMBDA c : sub[c][2], d.dirs),
       Cardinality(d.dirs) + MapThenSumSet(LAMBDA c : sub[c][3], d.dirs) >>

\* mutant: later share directories write every file
FilesToXmlAllFiles(sd) ==
    LET Step(acc, i) ==
          IF acc.added THEN [acc EXCEPT !.written = @ (+) SetToBag(sd[i].files)]
          ELSE IF sd[i].files # {} THEN [acc EXCEPT !.added = TRUE, !.written = SetToBag(sd[i].files)]
          ELSE acc
    IN  FoldLeftDomain(Step, [added |-> FALSE, written |-> EmptyBag, dupes |-> 0], sd)

(* filesToXml: the first share directory that has files writes them all; *)
(* a later one writes a file only if no share directory before it has    *)
(* one of that lower-case name, and counts it as a dupe otherwise.       *)
FilesToXml(sd) ==
    LET Step(acc, i) ==
          LET earlier == UNION {Keys(sd[j]) : j \in 1..i - 1}
          IN  IF acc.added
              THEN [acc EXCEPT !.written = @ (+) SetToBag({f \in sd[i].files : FileLower[f.name] \notin earlier}),
                               !.dupes = @ + Cardinality({f \in sd[i].files : FileLower[f.name] \in earlier})]
              ELSE IF sd[i].files # {} THEN [acc EXCEPT !.added = TRUE, !.written = SetToBag(sd[i].files)]
              ELSE acc
    IN  FoldLeftDomain(Step, [added |-> FALSE, written |-> EmptyBag, dupes |-> 0], sd)

(* FilelistDirectory::toXml: recursively, the entry with its child       *)
(* entries and filesToXml's files; otherwise the entry with the sums of  *)
(* getContentInfo over its share directories.                             *)
RECURSIVE ToXml(_, _)
ToXml(ld, rec) ==
    IF rec
    THEN [name |-> ld.name, date |-> ld.date,
          dirs |-> {ToXml(ld.listDirs[k], rec) : k \in DOMAIN ld.listDirs},
          files |-> FilesToXml(ld.shareDirs).written]
    ELSE LET info == [i \in DOMAIN ld.shareDirs |-> ContentInfo(ld.shareDirs[i])]
             Total(n) == FoldSeq(LAMBDA x, acc : x[n] + acc, 0, info)
         IN  [name |-> ld.name, date |-> ld.date, size |-> Total(1), nfiles |-> Total(2), ndirs |-> Total(3)]

-----------------------------------------------------------------------------
FlInit ==
    /\ flRoots = <<>> /\ flRecursive = FALSE
    /\ listRoot = NewListDir("", 0) /\ flNext = 1 /\ flOut = {}

\* a list is requested: an empty list root
GenerateList(rs, rec) ==
    /\ flRoots = <<>>
    /\ flRoots' = rs /\ flRecursive' = rec
    /\ listRoot' = NewListDir("", 0) /\ flNext' = 1 /\ flOut' = {}

\* the caller's loop: the next root's toFileList into the list root
MergeRoot ==
    /\ flNext <= Len(flRoots)
    /\ listRoot' = ToFileList(flRoots[flNext], listRoot, flRecursive)
    /\ flNext' = flNext + 1
    /\ UNCHANGED <<flRoots, flRecursive, flOut>>

\* every top entry is written
WriteList ==
    /\ flRoots # <<>> /\ flNext > Len(flRoots) /\ flOut = {}
    /\ flOut' = {ToXml(listRoot.listDirs[k], flRecursive) : k \in DOMAIN listRoot.listDirs}
    /\ UNCHANGED <<flRoots, flRecursive, listRoot, flNext>>

\* the list is handed out; the next request starts afresh
ListDone ==
    /\ flOut # {}
    /\ flRoots' = <<>> /\ flRecursive' = FALSE
    /\ listRoot' = NewListDir("", 0) /\ flNext' = 1 /\ flOut' = {}

FlNext ==
    \/ \E rs \in Calls, rec \in BOOLEAN : GenerateList(rs, rec)
    \/ MergeRoot \/ WriteList \/ ListDone

-----------------------------------------------------------------------------
(* What spec 4.2 says a peer sees: the union of the roots under one       *)
(* virtual name.  A directory of the union is a path of lower-case names; *)
(* At(p) are the share directories on that path, in root order.  The     *)
(* union entry has the first one's name, the latest date, the union of    *)
(* the children, and for each lower-case file name the file of the first *)
(* share directory that has one.                                          *)
RECURSIVE PathsOf(_, _)
PathsOf(d, pre) ==
    LET p == Append(pre, Lower[d.name]) IN
    {<<p, d>>} \cup UNION {PathsOf(c, p) : c \in d.dirs}

Placed == UNION {{<<i, x[1], x[2]>> : x \in PathsOf(flRoots[i], <<>>)} : i \in DOMAIN flRoots}

At(p) == LET idx == {x[1] : x \in {y \in Placed : y[2] = p}}
         IN  [k \in 1..Cardinality(idx) |->
                (CHOOSE y \in Placed : y[2] = p /\ y[1] = SetToSortSeq(idx, <)[k])[3]]

RECURSIVE RefDir(_)
RefDir(p) ==
    LET ds == At(p)
        kids == {y[2] : y \in {x \in Placed : Len(x[2]) = Len(p) + 1 /\ SubSeq(x[2], 1, Len(p)) = p}}
        keys == UNION {Keys(ds[i]) : i \in DOMAIN ds}
        First(k) == CHOOSE i \in DOMAIN ds : k \in Keys(ds[i]) /\ \A j \in 1..i - 1 : k \notin Keys(ds[j])
    IN  [name |-> ds[1].name,
         date |-> Max({ds[i].date : i \in DOMAIN ds}),
         dirs |-> {RefDir(q) : q \in kids},
         files |-> SetToBag({CHOOSE f \in ds[First(k)].files : FileLower[f.name] = k : k \in keys})]

TopPaths == {x[2] : x \in {y \in Placed : Len(y[2]) = 1}}

\* the size, file count and directory count below a full entry
RECURSIVE FullInfo(_)
FullInfo(e) ==
    LET sub == [c \in e.dirs |-> FullInfo(c)] IN
    << MapThenSumSet(LAMBDA f : f.size * CopiesIn(f, e.files), BagToSet(e.files))
         + MapThenSumSet(LAMBDA c : sub[c][1], e.dirs),
       BagCardinality(e.files) + MapThenSumSet(LAMBDA c : sub[c][2], e.dirs),
       Cardinality(e.dirs) + MapThenSumSet(LAMBDA c : sub[c][3], e.dirs) >>

-----------------------------------------------------------------------------
(* Properties *)

\* the list entries are keyed by lower-case names (and the flags typed)
FlTypeOK ==
    /\ \A i \in DOMAIN flRoots : flRoots[i].name \in DOMAIN Lower
    /\ flRecursive \in BOOLEAN
    /\ flNext \in 1..Len(flRoots) + 1
    /\ DOMAIN listRoot.listDirs \subseteq Range(Lower)

(* A full list shows the union of the roots: each lower-case virtual path *)
(* once, under the first root's spelling, with the latest date, and each *)
(* file name once, the copy of the first root that has it.  This needs    *)
(* toFileList to merge by lower-case key at every level and filesToXml to *)
(* skip exactly the names an earlier share directory already wrote.       *)
ListingIsUnion ==
    flOut # {} /\ flRecursive => flOut = {RefDir(p) : p \in TopPaths}

(* A partial list names the same top entries as the full one, with their  *)
(* spelling and date, and counts at least what the full list shows below  *)
(* each (getContentInfo counts a file or directory of every merged root,  *)
(* the full list each name once); for an entry of a single root the size, *)
(* file and directory counts are exactly those of its full listing.       *)
PartialListingAgrees ==
    flOut # {} /\ ~flRecursive =>
        /\ Cardinality(flOut) = Cardinality(TopPaths)
        /\ \A p \in TopPaths : \E e \in flOut :
              LET ref == RefDir(p)
                  full == FullInfo(ref)
              IN  /\ e.name = ref.name /\ e.date = ref.date
                  /\ e.size >= full[1] /\ e.nfiles >= full[2] /\ e.ndirs >= full[3]
                  /\ Len(At(p)) = 1 => <<e.size, e.nfiles, e.ndirs>> = full
=============================================================================
