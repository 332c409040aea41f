----------------------------- MODULE LinkCosts -----------------------------
(* links.py: resolve_link_costs(), which turns directional measurements into *)
(* one bandwidth per pair of nodes.  A measurement is a record of its        *)
(* direction from, to, whether it succeeded (ok), its throughput (speed),    *)
(* the time it finished (at) and the endpoints whose advertised speed it     *)
(* knows (known).  Speeds have one unit: bytes per second and Mbit per       *)
(* second are both taken to GB/s by a constant factor.                       *)
EXTENDS Integers, Sequences, FiniteSets, FiniteSetsExt

CONSTANTS MaxAge,      \* max_age_seconds
          Advertised   \* advertised_mbps of each node's interface

ASSUME MaxAgeAssumption == MaxAge \in Nat \ {0}

Missing == [ok |-> FALSE, at |-> 0, speed |-> 0, known |-> {}]

(* Mutant: the last record of the report is taken for the newest. *)
LatestInReport(report, from, to) ==
  LET found == {i \in DOMAIN report : report[i].from = from /\ report[i].to = to}
  IN IF found = {} THEN Missing
     ELSE report[CHOOSE i \in found : \A j \in found : j <= i]

(* latest: the newest record of a direction, the first of them in a tie. *)
Latest(report, from, to) ==
  LET found == {i \in DOMAIN report : report[i].from = from /\ report[i].to = to}
  IN IF found = {} THEN Missing
     ELSE report[CHOOSE i \in found : \A j \in found \ {i} :
                   report[j].at < report[i].at \/ (report[j].at = report[i].at /\ i < j)]

Usable(item, now) == item.ok /\ now - item.at <= MaxAge

(* resolve_link_costs for one pair of names l < r: a set with the cost, or   *)
(* the empty set for a pair without one.  Fallback 0 stands for None.        *)
PairCost(report, l, r, now, useAdvertised, fallback) ==
  LET items == {Latest(report, l, r), Latest(report, r, l)}
      known == UNION {item.known : item \in items}
  IN CASE \A item \in items : Usable(item, now) ->
            {[speed |-> Min({item.speed : item \in items}), source |-> "measured"]}
       [] OTHER ->
            IF useAdvertised /\ known = {l, r}
            THEN {[speed |-> Min({Advertised[l], Advertised[r]}), source |-> "advertised"]}
            ELSE IF fallback > 0 THEN {[speed |-> fallback, source |-> "fallback"]} ELSE {}
=============================================================================
