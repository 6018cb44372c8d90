----------------------------- MODULE MCGuardian -----------------------------
(* Instances of Guardian for TLC.                                          *)
EXTENDS Guardian, TLC

CONSTANTS root, a, b

MCProcs == {root, a, b}
MCPair == {root, a}
Symmetric == Permutations({a, b})

(* One kind of misbehaviour of the target and one death of the caller or   *)
(* the guardian in an execution: enough for each of them to meet every     *)
(* point of the lifecycle.                                                 *)
Misbehaviours == spoiled \cup (IF loader = "idle" THEN {} ELSE {"load"})
OneScenario ==
    /\ Cardinality(Misbehaviours) <= 1
    /\ ~(caller = "dead" /\ phase = "dead")
    /\ (Misbehaviours \ {"plain_spawn"} # {} => \E p \in {a,b} : pstate[p] = "unborn")

(* The caller dies, the guardian dies, or the target talks. It bounds what  *)
(* has no fairness, so it takes no step away that must come.               *)
OneDisturbance ==
    \/ spoiled = {} /\ ~(caller = "dead" /\ phase = "dead")
    \/ spoiled # {} /\ caller # "dead" /\ phase # "dead"
=============================================================================
