---------------------------- MODULE AtomicRouter ----------------------------
(***************************************************************************)
(* What a hot-reloadable router promises: there is always one              *)
(* configuration in force, a reload replaces it in one step, and every     *)
(* request is answered by the configuration in force.                      *)
(***************************************************************************)
CONSTANTS Configs, Contexts, Callers, Answer(_, _), NoAnswer

VARIABLES current, answer
vars == <<current, answer>>

Init == current \in Configs /\ answer = [c \in Callers |-> NoAnswer]

Reload(cfg) == current' = cfg /\ UNCHANGED answer

Route(c, rc) == answer' = [answer EXCEPT ![c] = [request |-> rc, out |-> Answer(current, rc)]] /\ UNCHANGED current

Next == \/ \E cfg \in Configs : Reload(cfg)
        \/ \E c \in Callers, rc \in Contexts : Route(c, rc)

Spec == Init /\ [][Next]_vars
=============================================================================
