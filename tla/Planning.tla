------------------------------ MODULE Planning ------------------------------
(* Probing links over time and planning with what the report says: records   *)
(* of probe runs are merged into one report in any order, time passes, and   *)
(* at some moment resolve_link_costs() and choose_placement() run on it.     *)
(* now is the clock of the driver, which also plans; the clock of a node     *)
(* differs from it by a constant Skew.                                       *)
EXTENDS Placement, LinkCosts

CONSTANTS Probed,       \* directions that are probed
          Skew,         \* a node's clock minus the driver's
          Speeds,       \* measured speeds
          Readings,     \* sets of nodes whose interface speed may be read
          Settings,     \* arguments of a planning call
          MaxRecords,   \* bound on the records of the report
          MaxTime       \* bound on the clock

VARIABLES now, report,
          setting,   \* arguments of the planning call
          costs,     \* resolved cost per link that has one
          plan
vars == <<now, report, setting, costs, plan>>

ASSUME ProbedAssumption == Probed \subseteq {d \in Nodes \X Nodes : d[1] # d[2]}
ASSUME SkewAssumption == Skew \in [Nodes -> Int]
ASSUME SpeedsAssumption == \A s \in Speeds : s \in Nat \ {0} /\ Traffic % s = 0
ASSUME AdvertisedAssumption ==
  \A n \in Nodes : Advertised[n] \in Nat \ {0} /\ Traffic % Advertised[n] = 0
ASSUME SettingsAssumption ==
  \A s \in Settings : /\ s.gpus \in [Nodes -> Nat]
                      /\ s.fallback \in Nat /\ (s.fallback > 0 => Traffic % s.fallback = 0)

Idle == [policy |-> "none", accelerator |-> "none", gpus |-> [n \in Nodes |-> 0],
         memory |-> 0, useAdvertised |-> FALSE, fallback |-> 0]

Init == /\ now = 0 /\ report = <<>>
        /\ setting = Idle /\ costs = <<>> /\ plan = NoPlan

Tick == /\ setting = Idle /\ now < MaxTime
        /\ now' = now + 1
        /\ UNCHANGED <<report, setting, costs, plan>>

(* The advertised speeds that a record has of the endpoints that answered. *)
Inventories(answered) == {answered \cap known : known \in Readings}

(* A client task that returned, with a result or an error, brings the source *)
(* node's inventory and the time on its clock; a success needs one.  Without *)
(* it the driver takes the time, and has an inventory of the destination at  *)
(* most.  ended is the moment itself, which no record of the code tells.     *)
Records(d) ==
  LET FromSource(how) == [from : {d[1]}, to : {d[2]}, ok : {how}, ended : {now},
                          at : {now + Skew[d[1]]}, known : Inventories({d[1], d[2]}),
                          speed : IF how THEN Speeds ELSE {0}]
      FromDriver == [from : {d[1]}, to : {d[2]}, ok : {FALSE}, ended : {now}, at : {now},
                     known : {{}} \cup Inventories({d[2]}), speed : {0}]
  IN FromSource(TRUE) \cup FromSource(FALSE) \cup FromDriver

(* The records of a run come after or before those of earlier runs. *)
Probe(d) ==
  /\ setting = Idle /\ Len(report) < MaxRecords
  /\ \E item \in Records(d) : report' \in {Append(report, item), <<item>> \o report}
  /\ UNCHANGED <<now, setting, costs, plan>>

Resolved(s) ==
  LET cost(l) == PairCost(report, l[1], l[2], now, s.useAdvertised, s.fallback)
  IN [l \in {k \in Links : cost(k) # {}} |-> CHOOSE c \in cost(l) : TRUE]

Bandwidth(resolved) == [l \in DOMAIN resolved |-> resolved[l].speed]

Plan(s) ==
  /\ setting = Idle
  /\ setting' = s
  /\ costs' = Resolved(s)
  /\ plan' = ChoosePlacement(s, Bandwidth(Resolved(s)))
  /\ UNCHANGED <<now, report>>

Next == Tick \/ (\E d \in Probed : Probe(d)) \/ (\E s \in Settings : Plan(s))

Spec == Init /\ [][Next]_vars

-----------------------------------------------------------------------------
(* Properties.                                                               *)

Planned == setting # Idle

(* Times of a source whose clock is ahead exceed the driver's by Ahead, of   *)
(* one that is behind by the negative Behind.                                *)
Ahead(n)  == IF Skew[n] > 0 THEN Skew[n] ELSE 0
Behind(n) == IF Skew[n] < 0 THEN Skew[n] ELSE 0

RecordsOf(d) == {i \in DOMAIN report : report[i].from = d[1] /\ report[i].to = d[2]}
Fresh(i) == report[i].ok /\ now - report[i].ended <= MaxAge + Skew[report[i].from]
Measured(l) == l \in DOMAIN costs /\ costs[l].source = "measured"

(* A "measured" cost rests on a success of each direction that is too old by *)
(* no more than its source's clock is ahead, and that hides no probe which   *)
(* ended later by more than that.  And a success that is fresh, and later    *)
(* than every other record by more than the clock is behind, does count.     *)
(* So with equal clocks an older success never hides a later failure,        *)
(* whatever the order of the records; only records of one moment are decided *)
(* by their order.                                                           *)
MeasuredIsCurrent ==
  Planned => \A l \in Links :
    LET directions == {l, <<l[2], l[1]>>}
    IN /\ Measured(l) => \A d \in directions : \E i \in RecordsOf(d) :
            Fresh(i) /\ \A j \in RecordsOf(d) : report[j].ended <= report[i].ended + Ahead(d[1])
       /\ (\A d \in directions : \E i \in RecordsOf(d) :
             /\ Fresh(i)
             /\ \A j \in RecordsOf(d) \ {i} : report[j].ended < report[i].ended + Behind(d[1]))
          => Measured(l)

(* What it means for workers to be placed on nodes, in any order, as far as  *)
(* the setting's policy looks.                                               *)
Possible(w) ==
  /\ \A n \in Nodes : Cardinality(On(w, n)) <= setting.gpus[n]
  /\ \A i \in 1 .. Workers :
       /\ Memory[w[i]] >= setting.memory
       /\ setting.policy \in {"workload_compute", "combined"} => Model[w[i]] \in DOMAIN Compute
       /\ setting.policy = "accelerator_type" => Model[w[i]] = setting.accelerator
  /\ setting.policy \in {"topology_only", "combined"} => Connected(w, Bandwidth(costs))

(* A plan is possible, and of all assignments of the workers, also of those  *)
(* the search leaves out because they only permute workers, none is better,  *)
(* or as good with names that come first.                                    *)
PlanIsBest ==
  LET cost(w) == Estimate(w, setting.policy, Bandwidth(costs))
  IN Planned /\ plan # NoPlan =>
       /\ Possible(plan)
       /\ \A w \in [1 .. Workers -> Nodes] \ {plan} :
            Possible(w) => cost(plan) < cost(w) \/ (cost(plan) = cost(w) /\ Before(plan, w))

(* A workload that could be placed is placed, unless the search is too large. *)
PlanIsFound ==
  Planned /\ plan = NoPlan =>
    \/ TooMany(setting)
    \/ \A w \in [1 .. Workers -> Nodes] : ~Possible(w)
=============================================================================
