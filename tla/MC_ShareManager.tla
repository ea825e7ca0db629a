-------------------------- MODULE MC_ShareManager --------------------------
(* Model-checking instance of ShareManager: two top-level directories, one *)
(* of them with a subdirectory, one file in each branch, two contents of   *)
(* different size, two virtual names.                                      *)
(*                                                                         *)
(* The same run checks the excluded-folder list of ExcludeFolders, whose   *)
(* paths are strings rather than the model values of ShareManager: Init    *)
(* picks a mode, and each behaviour is either the share engine or the      *)
(* settings page editing the exclusions over a fixed share of two roots.   *)
EXTENDS ShareManager

CONSTANTS pa, pb, pbsub, fa, fb, c1, c2, va

MC_Below == [p \in {pa, pb, pbsub} |->
                IF p = pb THEN {pb, pbsub} ELSE {p}]
MC_FileDir == [f \in {fa, fb} |-> IF f = fa THEN pa ELSE pbsub]
MC_SizeOf == [c \in {c1, c2} |-> IF c = c1 THEN 1 ELSE 2]

\* initial states whose configured roots all carry the virtual name va;
\* other names arise through renameDirectory and addDirectory
MC_Init == Init /\ \A p \in Paths : shares[p] \in {va, None}

VARIABLES notShared, bytesExcluded, mode

\* two shared roots, one with a subfolder below a subfolder and a sibling
\* whose name starts like it, the other with a folder whose real name is
\* upper-case; an unshared root; inputs in two cases
MC_XDirs == {"s\\", "s\\a\\", "s\\a\\b\\", "s\\ab\\", "t\\", "t\\D\\", "u\\", "u\\c\\"}
MC_XShares == {"s\\", "t\\"}
MC_XBytes == [d \in MC_XDirs |-> IF d = "s\\a\\b\\" THEN 2 ELSE 1]
MC_XInputs == {"s\\", "s\\a\\", "S\\A\\", "s\\a\\b\\", "s\\ab\\", "t\\d\\", "u\\c\\"}

EF == INSTANCE ExcludeFolders
        WITH Dirs <- MC_XDirs, Shares <- MC_XShares, DirBytes <- MC_XBytes,
             Inputs <- MC_XInputs, MaxExcludes <- 4

\* EF!UnderMap, computed once: TLC evaluates a constant definition of this
\* module at startup but one of an instance at every use, so the mapping
\* EF!Abs is restated here with the evaluated map
MC_XUnder == EF!UnderMap

mcVars == <<vars, notShared, bytesExcluded, mode>>

MC_Next ==
    \/ mode = "share" /\ Next /\ UNCHANGED <<notShared, bytesExcluded, mode>>
    \/ mode = "exclude" /\ EF!ExNext /\ UNCHANGED <<vars, mode>>

\* the share engine's initial states, with an empty exclusion list, in either mode
MC_AllInit == MC_Init /\ EF!ExInit /\ mode \in {"share", "exclude"}

MC_Spec == MC_AllInit /\ [][MC_Next]_mcVars /\ Fairness

\* the excluded-folder properties of ExcludeFolders.tla, evaluated in the
\* behaviours of the exclude mode (the share engine leaves notShared and
\* bytesExcluded at their initial values, which the exclude mode checks)
ExTypeOK == mode = "exclude" => EF!ExTypeOK

(* A refresh shares exactly the directories below a share that no         *)
(* exclusion covers (buildTree and shareFolder against the list).  Not a  *)
(* property of any run: shareFolder's exact compare of the real-case path *)
(* with the lower-cased entry lets t\D\ stay shared once excluded.       *)
RefreshHonoursExclusions == mode = "exclude" => EF!RefreshHonoursExclusions

(* EF!ImplementsExcludeAbstract: the excluded-folder list implements the  *)
(* abstract exclusions of ExcludeAbstract: addExcludeFolder and removeExcludeFolder each hide or *)
(* share a whole subtree, and the sizes they return add up to what is     *)
(* hidden.                                                                *)
XAbs == INSTANCE ExcludeAbstract
          WITH Dirs <- MC_XDirs, Shares <- MC_XShares, Under <- MC_XUnder,
               DirBytes <- MC_XBytes, hidden <- EF!ListHidden, bytes <- bytesExcluded
ImplementsExcludeAbstract == XAbs!Spec
=============================================================================
