----------------------------- MODULE HttpRequest -----------------------------
(***************************************************************************)
(* What HttpConnection promises its owner (HttpConnectionListener): each  *)
(* downloadFile starts a request that ends exactly once, with Complete or  *)
(* with Failed, and a request that has started keeps going until it      *)
(* ends.  Redirected and Data events are not outcomes and are left out.   *)
(* downloadFile may also fail at once (a connect that throws), so a start *)
(* may go straight to "failed".                                           *)
(***************************************************************************)
EXTENDS Naturals

CONSTANT MaxRequests    \* bound on downloadFile calls by the owner

VARIABLES
    status,     \* "idle" before the first request, then the last request's state
    started     \* downloadFile calls so far

reqVars == <<status, started>>

Ended == status \in {"idle", "completed", "failed"}

\* downloadFile, called when no request is running
Start ==
    /\ Ended
    /\ started < MaxRequests
    /\ started' = started + 1
    /\ status' \in {"running", "failed"}

\* the Complete event
Complete == status = "running" /\ status' = "completed" /\ UNCHANGED started

\* the Failed event
Fail == status = "running" /\ status' = "failed" /\ UNCHANGED started

Init == status = "idle" /\ started = 0

Next == Start \/ Complete \/ Fail

(* A running request is not left hanging: the owner hears its outcome. *)
Spec == Init /\ [][Next]_reqVars /\ WF_reqVars(Complete \/ Fail)
====
