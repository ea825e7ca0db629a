------------------------- MODULE MC_ShareDirectory -------------------------
(* Model-checking instance of ShareDirectory: three nodes (a root, a      *)
(* child, a grandchild or a detached fragment), directory names na and nA  *)
(* that differ only in case and nb, one file key with two spellings, one  *)
(* hash, two sizes, one root path and one profile.                        *)
(*                                                                         *)
(* The same run checks the file-list merge of FileListMerge: Init picks a *)
(* mode, and each behaviour either edits the tree or generates lists from *)
(* the roots below, whose names, subdirectory names and file names         *)
(* collide in case and whose dates differ.                                 *)
EXTENDS ShareDirectory, TLC

CONSTANTS d1, d2, d3, na, nA, nb, fa, fA, t1, r1, p1

MC_Lower == [n \in {na, nA, nb} |-> IF n = nb THEN nb ELSE na]
MC_FileLower == [f \in {fa, fA} |-> fa]
MC_RootName == [rp \in {r1} |-> nb]

MC_Symmetry == Permutations({d1, d2, d3})

VARIABLES flRoots, flRecursive, listRoot, flNext, flOut, mode

\* a file, a directory without subdirectories, a directory
F(n, s) == [name |-> n, size |-> s]
L(n, date, fs) == [name |-> n, date |-> date, files |-> fs, dirs |-> {}]
D(n, date, fs, ds) == [name |-> n, date |-> date, files |-> fs, dirs |-> ds]

\* roots named na or nA (one virtual name) and nb; subdirectories and files
\* whose names collide across roots in either case; an empty root; a
\* subdirectory two levels down
MC_ListRoots ==
    { D(na, 1, {F(fa, 1)}, {L(nb, 1, {F(fa, 2)})}),
      D(nA, 2, {F(fA, 2)}, {L(nb, 2, {F(fA, 1)}), L(na, 1, {})}),
      D(na, 2, {}, {L(nA, 1, {F(fa, 1)})}),
      D(nb, 1, {F(fa, 1)}, {}),
      D(nA, 1, {}, {}),
      D(na, 1, {}, {D(nb, 1, {}, {L(na, 2, {F(fa, 2)})})}) }

\* every sequence of one to three of them
MC_Calls == UNION {[1..k -> MC_ListRoots] : k \in 1..3}

FL == INSTANCE FileListMerge WITH Calls <- MC_Calls

listVars == <<flRoots, flRecursive, listRoot, flNext, flOut>>

mcVars == <<vars, listVars, mode>>

MC_Next ==
    \/ mode = "tree" /\ Next /\ UNCHANGED <<listVars, mode>>
    \/ mode = "list" /\ FL!FlNext /\ UNCHANGED <<vars, mode>>

\* an empty tree and no list in progress, in either mode
MC_AllInit == Init /\ FL!FlInit /\ mode \in {"tree", "list"}

MC_Spec == MC_AllInit /\ [][MC_Next]_mcVars

\* the file-list properties of FileListMerge.tla; in the tree mode no list
\* is written, and they hold vacuously
FlTypeOK == FL!FlTypeOK

(* A full list shows each lower-case virtual path of the roots once, with *)
(* the first root's spelling, the latest date, and each file name once    *)
(* (toFileList's merge and filesToXml's duplicate skip).                  *)
ListingIsUnion == FL!ListingIsUnion

(* A partial list has the full list's top entries, names and dates, and   *)
(* counts no less than it; exactly as much for an entry of one root       *)
(* (toXml's sums of getContentInfo).                                      *)
PartialListingAgrees == FL!PartialListingAgrees
=============================================================================
