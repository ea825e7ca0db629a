--------------------------- MODULE ExcludeAbstract ---------------------------
(***************************************************************************)
(* What the excluded-folder list of ShareManager promises its user, as a   *)
(* set of hidden directories: excluding a folder inside a shared root      *)
(* hides it with everything below it; taking an exclusion back shares its  *)
(* subtree again unless the folder lies inside another hidden one.  The    *)
(* caller keeps a running total of the bytes the calls report, which is    *)
(* the size of what is hidden.                                             *)
(***************************************************************************)
EXTENDS Integers, FiniteSetsExt

CONSTANTS
    Dirs,       \* the directories on disk
    Shares,     \* the shared roots
    Under,      \* [Dirs -> SUBSET Dirs]: a directory and all below it
    DirBytes    \* [Dirs -> Nat]: the bytes of the files directly in a directory

VARIABLES
    hidden,     \* the directories below a shared root that are not shared
    bytes       \* the caller's total of the bytes reported hidden

Bytes(S) == MapThenSumSet(LAMBDA d : DirBytes[d], S)

InsideShare(d) == \E s \in Shares : d \in Under[s] \ {s}
InsideHidden(d) == \E e \in hidden : e # d /\ d \in Under[e]

Init == hidden = {} /\ bytes = 0

\* a visible folder inside a share is hidden with its subtree
Exclude(d) ==
    /\ InsideShare(d) /\ d \notin hidden
    /\ hidden' = hidden \cup Under[d]
    /\ bytes' = bytes + Bytes(Under[d] \ hidden)

\* a folder not inside a hidden one is shared again with its subtree
Include(d) ==
    /\ ~InsideHidden(d)
    /\ hidden' = hidden \ Under[d]
    /\ bytes' = bytes - Bytes(hidden \cap Under[d])

Next == \E d \in Dirs : Exclude(d) \/ Include(d)

Spec == Init /\ [][Next]_<<hidden, bytes>>
=============================================================================
