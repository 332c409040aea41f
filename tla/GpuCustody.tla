----------------------------- MODULE GpuCustody -----------------------------
(* What a deployment promises the cluster about its GPUs: they are reserved  *)
(* before any engine occupies one, and given back only when no engine does.  *)
(* Each rank's engine is started at most once, and a reservation given back  *)
(* is never taken again by the same deployment.                              *)
CONSTANT Ranks

VARIABLES custody, running, used
vars == <<custody, running, used>>

TypeOK == /\ custody \in {"free", "held", "returned"}
          /\ running \subseteq Ranks
          /\ used \subseteq Ranks

Init == custody = "free" /\ running = {} /\ used = {}

Reserve == /\ custody = "free"
           /\ custody' = "held"
           /\ UNCHANGED <<running, used>>

Occupy(r) == /\ custody = "held"
             /\ r \notin used
             /\ running' = running \cup {r}
             /\ used' = used \cup {r}
             /\ UNCHANGED custody

Vacate(r) == /\ r \in running
             /\ running' = running \ {r}
             /\ UNCHANGED <<custody, used>>

(* Who used a reservation need not be known once it is given back. *)
Return == /\ custody = "held"
          /\ running = {}
          /\ custody' = "returned"
          /\ used' \subseteq used
          /\ UNCHANGED running

Next == \/ Reserve \/ Return
        \/ \E r \in Ranks : Occupy(r) \/ Vacate(r)

Spec == Init /\ [][Next]_vars
=============================================================================
