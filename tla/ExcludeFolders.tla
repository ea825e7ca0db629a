---------------------------- MODULE ExcludeFolders ----------------------------
(***************************************************************************)
(* The excluded folders of src/ShareManager.cpp: the list notShared, kept *)
(* by addExcludeFolder and removeExcludeFolder (called from the settings   *)
(* page, outside this tree), and read by shareFolder, which buildTree asks *)
(* about every subdirectory a refresh walks into.                          *)
(*                                                                         *)
(* Paths are TLA+ strings in the form ShareManager keeps them: real paths  *)
(* ending in the separator '\'.  Lower-casing is Text::toLower on ASCII,  *)
(* stricmp compares lowered strings, Util::compare compares exactly, and  *)
(* Util::getDirSize sums the files below a path on a file system that     *)
(* ignores case; Util is not in this source tree.  The hasher that        *)
(* addExcludeFolder first tells to stop hashing the path is not part of   *)
(* this model; it is modelled in ShareManager.tla.                         *)
(***************************************************************************)
EXTENDS Integers, Sequences, SequencesExt, FiniteSetsExt, AsciiCase

CONSTANTS
    Dirs,         \* the real directories on disk, each path ending in '\'
    Shares,       \* the keys of shares: the shared roots, a subset of Dirs
    DirBytes,     \* [Dirs -> Nat]: the bytes of the files directly in a directory
    Inputs,       \* the paths the settings page passes, in any case
    MaxExcludes   \* bound on the length of notShared

VARIABLES
    notShared,      \* ShareManager::notShared, a StringList in insertion order
    bytesExcluded   \* the caller's total: what addExcludeFolder returned minus
                    \* what removeExcludeFolder returned

exVars == <<notShared, bytesExcluded>>

Sep == "\\"
Prefix(s, n) == SubSeq(s, 1, n)

\* Util::stricmp(a, b) == 0
Stricmp(a, b) == StrToLower(a) = StrToLower(b)

\* Util::compare(a, b) == 0
Compare(a, b) == a = b

\* a directory and everything below it, as the file system matches paths
Subtree(p) == {d \in Dirs : Len(d) >= Len(p) /\ Stricmp(Prefix(d, Len(p)), p)}

\* the subtree of each directory, and of each path as notShared stores it
UnderMap == [d \in Dirs |-> Subtree(d)]
LowerInputs == {StrToLower(p) : p \in Inputs}
EntryUnder == [e \in LowerInputs |-> Subtree(e)]

\* Util::getDirSize
GetDirSize(p) == MapThenSumSet(LAMBDA d : DirBytes[d], Subtree(p))

-----------------------------------------------------------------------------
\* mutant: the exclusion loop decides on the first entry alone
ShareFolderFirstOnly(path, thoroughCheck, quickCheck) ==
    IF quickCheck THEN path \in Shares
    ELSE notShared = <<>> \/ ~Compare(path, notShared[1])

(* ShareManager::shareFolder(path, thoroughCheck, QuickCheck).  The quick *)
(* check asks the shares map.  The thorough one first requires path to be *)
(* a share (then it is shared, exclusions unchecked) or below one with a  *)
(* separator after the share's length.  Then path is refused if it equals *)
(* an exclusion or, thoroughly checked, if the exclusion is a prefix      *)
(* followed by a separator in path.                                       *)
ShareFolder(path, thoroughCheck, quickCheck) ==
    LET perfect == \E s \in Shares : Len(path) = Len(s) /\ Stricmp(path, StrToLower(s))
        below   == \E s \in Shares : /\ Len(path) > Len(s)
                                     /\ Stricmp(Prefix(path, Len(s)), s)
                                     /\ \E k \in Len(s) + 1..Len(path) : CharAt(path, k) = Sep
        Refuses(e) == \/ Compare(path, e)
                      \/ /\ thoroughCheck /\ Len(path) > Len(e)
                         /\ Stricmp(Prefix(path, Len(e)), e)
                         /\ CharAt(path, Len(e) + 1) = Sep
    IN  IF quickCheck THEN path \in Shares
        ELSE IF thoroughCheck /\ perfect THEN TRUE
        ELSE IF thoroughCheck /\ ~below THEN FALSE
        ELSE ~\E k \in DOMAIN notShared : Refuses(notShared[k])

(* The subdirectories buildTree walks into: name + PATH_SEPARATOR under   *)
(* the current path, kept if shareFolder(newName) holds; the recursion    *)
(* does not enter a refused one.  The name checks and the queued bundles  *)
(* are left out.                                                          *)
ChildMap == [p \in Dirs |-> {d \in Dirs : Len(d) > Len(p) /\ Prefix(d, Len(p)) = p
                                       /\ \A k \in Len(p) + 1..Len(d) - 1 : CharAt(d, k) # Sep}]

RECURSIVE BuildTree(_)
BuildTree(p) == {p} \cup UNION {BuildTree(c) : c \in {c \in ChildMap[p] : ShareFolder(c, FALSE, FALSE)}}

\* the directories a refresh of every root shares
SharedDirs == UNION {BuildTree(s) : s \in Shares}

-----------------------------------------------------------------------------
\* load(): the NoShare list of a fresh configuration
ExInit == notShared = <<>> /\ bytesExcluded = 0

\* mutant: the path is appended as given, not lower-cased
AddExcludeFolderNoLower(path) ==
    LET IsSub(e) == Len(path) < Len(e) /\ Stricmp(Prefix(e, Len(path)), path)
    IN  /\ \E s \in Shares : Len(path) > Len(s) /\ Stricmp(Prefix(path, Len(s)), s)
        /\ ~\E k \in DOMAIN notShared :
               Len(path) >= Len(notShared[k]) /\ Stricmp(Prefix(path, Len(notShared[k])), notShared[k])
        /\ Len(notShared) < MaxExcludes
        /\ notShared' = SelectSeq(notShared, LAMBDA e : ~IsSub(e)) \o <<path>>
        /\ bytesExcluded' = bytesExcluded + GetDirSize(path)
                            - FoldSeq(LAMBDA e, acc : acc + GetDirSize(e), 0, SelectSeq(notShared, IsSub))

\* mutant: the sizes of the erased sub-exclusions are not subtracted
AddExcludeFolderFullSize(path) ==
    LET IsSub(e) == Len(path) < Len(e) /\ Stricmp(Prefix(e, Len(path)), path)
    IN  /\ \E s \in Shares : Len(path) > Len(s) /\ Stricmp(Prefix(path, Len(s)), s)
        /\ ~\E k \in DOMAIN notShared :
               Len(path) >= Len(notShared[k]) /\ Stricmp(Prefix(path, Len(notShared[k])), notShared[k])
        /\ Len(notShared) < MaxExcludes
        /\ notShared' = SelectSeq(notShared, LAMBDA e : ~IsSub(e)) \o <<StrToLower(path)>>
        /\ bytesExcluded' = bytesExcluded + GetDirSize(path)

(* addExcludeFolder(path), when it goes through: path lies strictly below *)
(* a share's length and not at or below an exclusion; exclusions below    *)
(* path are erased, path is appended lower-cased, and the call returns    *)
(* the size of path minus the sizes of the erased exclusions.  Otherwise  *)
(* it returns 0 and changes nothing.                                      *)
AddExcludeFolder(path) ==
    LET IsSub(e) == Len(path) < Len(e) /\ Stricmp(Prefix(e, Len(path)), path)
        subs == SelectSeq(notShared, IsSub)
    IN  /\ \E s \in Shares : Len(path) > Len(s) /\ Stricmp(Prefix(path, Len(s)), s)
        /\ ~\E k \in DOMAIN notShared :
               Len(path) >= Len(notShared[k]) /\ Stricmp(Prefix(path, Len(notShared[k])), notShared[k])
        /\ Len(notShared) < MaxExcludes
        /\ notShared' = SelectSeq(notShared, LAMBDA e : ~IsSub(e)) \o <<StrToLower(path)>>
        /\ bytesExcluded' = bytesExcluded + GetDirSize(path)
                            - FoldSeq(LAMBDA e, acc : acc + GetDirSize(e), 0, subs)

(* removeExcludeFolder(path, true): every exclusion at or below path is   *)
(* erased and its size returned.  (returnSize is false only for folders   *)
(* that are gone from disk, which this model does not delete.)            *)
RemoveExcludeFolder(path) ==
    LET IsSub(e) == Len(path) <= Len(e) /\ Stricmp(Prefix(e, Len(path)), path)
    IN  /\ notShared' = SelectSeq(notShared, LAMBDA e : ~IsSub(e))
        /\ bytesExcluded' = bytesExcluded
                            - FoldSeq(LAMBDA e, acc : acc + GetDirSize(e), 0, SelectSeq(notShared, IsSub))

ExNext == \E path \in Inputs : AddExcludeFolder(path) \/ RemoveExcludeFolder(path)

ExSpec == ExInit /\ [][ExNext]_exVars

-----------------------------------------------------------------------------
(* Properties *)

\* notShared holds lower-cased input paths; the total is an integer
ExTypeOK ==
    /\ notShared \in Seq(LowerInputs)
    /\ bytesExcluded \in Int

\* the directories at or below a shared root
SharesBelow == UNION {UnderMap[s] : s \in Shares}

\* the directories the exclusions cover, as the file system matches paths
ListHidden == UNION {EntryUnder[notShared[k]] : k \in DOMAIN notShared}

(* A refresh shares exactly the directories below a share that no         *)
(* exclusion covers: buildTree, asking shareFolder for every name +       *)
(* separator it walks into, stops at each excluded folder and nowhere     *)
(* else, whatever the case the settings page gave the path in.            *)
RefreshHonoursExclusions == SharedDirs = SharesBelow \ ListHidden

\* the refinement mapping: hidden is what the exclusions cover
Abs == INSTANCE ExcludeAbstract
         WITH Under <- UnderMap,
              hidden <- ListHidden,
              bytes <- bytesExcluded

(* The list kept by the two calls implements the abstract exclusions:     *)
(* each call hides a subtree, shares one again or changes nothing, and    *)
(* the sizes the calls return add up to the size of what is hidden.       *)
ImplementsExcludeAbstract == Abs!Spec
=============================================================================
