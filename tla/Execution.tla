----------------------------- MODULE Execution ------------------------------
(***************************************************************************)
(* What one execution promises to whoever asked for it, however it is      *)
(* carried out.  Processes come to life and die; at some point a verdict   *)
(* is reached.  "clean" is the permission to run the next input in the     *)
(* same VM: it is given only when nothing of this execution is alive and   *)
(* the target kept to the contract, and it is final.  "retired" withdraws  *)
(* the VM for good and promises nothing about what is still alive.         *)
(***************************************************************************)
CONSTANTS Procs

VARIABLES
    live,     \* processes of this execution that are alive
    broken,   \* the target left the contract
    verdict   \* unstarted, open, clean or retired

vars == <<live, broken, verdict>>

Init == live = {} /\ broken = FALSE /\ verdict = "unstarted"

Begin ==
    /\ verdict = "unstarted" /\ verdict' = "open"
    /\ \E p \in Procs : live' = {p}
    /\ UNCHANGED broken

\* A process may appear after the one that asked for it is dead, but never
\* once the VM has been cleared.
Fork ==
    /\ verdict \in {"open", "retired"} /\ \E p \in Procs : live' = live \cup {p}
    /\ broken' \in {broken, TRUE}
    /\ UNCHANGED verdict

\* Only the living break anything.
Break ==
    /\ live # {} /\ broken' = TRUE
    /\ UNCHANGED <<live, verdict>>

Leave ==
    /\ \E p \in live : live' = live \ {p}
    /\ UNCHANGED <<broken, verdict>>

Clear ==
    /\ verdict = "open" /\ live = {} /\ ~broken
    /\ verdict' = "clean"
    /\ UNCHANGED <<live, broken>>

Retire ==
    /\ verdict \in {"unstarted", "open"} /\ verdict' = "retired"
    /\ UNCHANGED <<live, broken>>

Next == Begin \/ Fork \/ Break \/ Leave \/ Clear \/ Retire

Spec == Init /\ [][Next]_vars
=============================================================================
