----------------------------- MODULE Lifecycle ------------------------------
(***************************************************************************)
(* What the process promises to whoever supervises it: it starts, it may   *)
(* serve once the node was verified (or the operator waived that), and it  *)
(* ends by exiting, which it can do at any moment and does not take back.  *)
(***************************************************************************)

VARIABLES
    phase,     \* "starting", "serving" or "exited"
    verified   \* "yes" when the node was checked or the check was waived

vars == <<phase, verified>>

Init == phase = "starting" /\ verified = "no"

Verify ==
    /\ phase = "starting"
    /\ verified' = "yes"
    /\ UNCHANGED phase

Serve ==
    /\ phase = "starting" /\ verified = "yes"
    /\ phase' = "serving"
    /\ UNCHANGED verified

Stop ==
    /\ phase # "exited"
    /\ phase' = "exited"
    /\ UNCHANGED verified

Spec == Init /\ [][Verify \/ Serve \/ Stop]_vars

\* The process does not hang in its start.
FairSpec == Spec /\ WF_vars(phase = "starting" /\ (Serve \/ Stop))

==============================================================================
