---------------------------- MODULE PlanningProof ----------------------------
(* What the report of the link probes means for a plan, and that the search  *)
(* for a plan looks at enough placements and takes the best of them: for any *)
(* nodes, workers, directions, speeds and settings and reports of any length. *)
EXTENDS Planning, FiniteSetTheorems, WellFoundedInduction, TLAPS

(* The records that probes leave.                                            *)
Items == [from : Nodes, to : Nodes, ok : BOOLEAN, ended : Nat, at : Int,
          speed : Speeds \cup {0}, known : SUBSET Nodes]

TypeOK == now \in Nat /\ report \in Seq(Items)

(* A record is of a probe that ended, by the clock of its source or, if it   *)
(* failed, by the driver's.                                                  *)
ReportInv ==
  \A i \in DOMAIN report :
    LET item == report[i]
    IN /\ <<item.from, item.to>> \in Probed
       /\ item.ended <= now
       /\ item.at = item.ended + Skew[item.from] \/ (~item.ok /\ item.at = item.ended)
       /\ item.ok => item.speed \in Speeds

(* Bandwidths that a division by gives a time.                               *)
Positive(bandwidth) == \A l \in DOMAIN bandwidth : bandwidth[l] \in Nat \ {0}

(* The costs are what the report says now, and the plan is what the search   *)
(* answers to the costs.                                                     *)
PlanInv ==
  Planned => /\ setting \in Settings
             /\ costs = Resolved(setting)
             /\ Positive(Bandwidth(costs))
             /\ plan = ChoosePlacement(setting, Bandwidth(costs))

IInv == TypeOK /\ ReportInv /\ PlanInv

-----------------------------------------------------------------------------
(* Every set of natural numbers that has a member has a least one.           *)
LEMMA LeastNat ==
  ASSUME NEW T \in SUBSET Nat, T # {}
  PROVE  \E n \in T : \A m \in T : n <= m
<1>1. PICK n \in T : \A m \in T : ~ (<<m, n>> \in OpToRel(<, Nat))
  BY NatLessThanWellFounded, WFMin
<1>2. \A m \in T : ~ (m < n)
  BY <1>1 DEF OpToRel
<1> QED BY <1>2

LEMMA SkewTypes ==
  ASSUME NEW n \in Nodes
  PROVE  /\ Skew[n] \in Int /\ Ahead(n) \in Nat /\ Behind(n) \in Int
         /\ Behind(n) <= Skew[n] /\ Skew[n] <= Ahead(n) /\ Behind(n) <= 0
BY SkewAssumption DEF Ahead, Behind

LEMMA ItemTypes ==
  ASSUME TypeOK, ReportInv, NEW d, NEW i \in RecordsOf(d)
  PROVE  /\ i \in Nat /\ report[i].ended \in Nat /\ report[i].at \in Int
         /\ report[i].ok \in BOOLEAN /\ report[i].from = d[1] /\ d[1] \in Nodes
         /\ report[i].ended <= now
         /\ report[i].ok => report[i].speed \in Speeds
         /\ \/ report[i].at = report[i].ended + Skew[d[1]]
            \/ ~report[i].ok /\ report[i].at = report[i].ended
<1>1. i \in DOMAIN report /\ report[i] \in Items /\ report[i].from = d[1] /\ i \in Nat
  BY DEF TypeOK, RecordsOf
<1>2. report[i].from \in Nodes /\ report[i].ended \in Nat /\ report[i].at \in Int /\ report[i].ok \in BOOLEAN
  BY <1>1 DEF Items
<1>3. /\ report[i].ended <= now
      /\ report[i].ok => report[i].speed \in Speeds
      /\ \/ report[i].at = report[i].ended + Skew[report[i].from]
         \/ ~report[i].ok /\ report[i].at = report[i].ended
  BY <1>1 DEF ReportInv
<1> QED BY <1>1, <1>2, <1>3

(* The newest record of a direction by its own time, wherever it stands in   *)
(* the report: there is one, though several may have the same time.          *)
LEMMA LatestRecord ==
  ASSUME TypeOK, ReportInv, NEW d
  PROVE  IF RecordsOf(d) = {} THEN Latest(report, d[1], d[2]) = Missing
         ELSE \E i \in RecordsOf(d) :
                /\ Latest(report, d[1], d[2]) = report[i]
                /\ \A j \in RecordsOf(d) : report[j].at <= report[i].at
<1> DEFINE found == RecordsOf(d)
           latest(i) == \A j \in found \ {i} :
                          report[j].at < report[i].at \/ (report[j].at = report[i].at /\ i < j)
<1>1. Latest(report, d[1], d[2]) = IF found = {} THEN Missing ELSE report[CHOOSE i \in found : latest(i)]
  BY DEF Latest, RecordsOf
<1>2. ASSUME found # {} PROVE \E i \in found : latest(i)
  <2>1. ASSUME NEW j \in found
        PROVE  j \in Nat /\ report[j].at \in Int /\ (now + Ahead(d[1])) - report[j].at \in Nat
    <3> HIDE DEF found
    <3>1. j \in RecordsOf(d)
      BY DEF found
    <3>2. /\ d[1] \in Nodes /\ j \in Nat /\ report[j].ended \in Nat /\ report[j].at \in Int
          /\ report[j].ended <= now
          /\ report[j].at = report[j].ended + Skew[d[1]] \/ report[j].at = report[j].ended
      BY <3>1, ItemTypes
    <3>3. Skew[d[1]] \in Int /\ Ahead(d[1]) \in Nat /\ Skew[d[1]] <= Ahead(d[1])
      BY <3>2, SkewTypes
    <3>4. now \in Nat
      BY DEF TypeOK
    <3> QED BY <3>2, <3>3, <3>4
  <2>2. PICK base \in Int, age \in [found -> Nat] : \A j \in found : report[j].at = base - age[j]
    <3> DEFINE base == now + Ahead(d[1])
               age  == [j \in found |-> base - report[j].at]
    <3>1. base \in Int
      BY <1>2, ItemTypes, SkewTypes DEF TypeOK
    <3>2. age \in [found -> Nat]
      <4>1. \A j \in found : base - report[j].at \in Nat
        <5> HIDE DEF found
        <5> QED BY <2>1
      <4> HIDE DEF base, found
      <4> QED BY <4>1
    <3>3. \A j \in found : report[j].at = base - age[j]
      <4> HIDE DEF base
      <4> QED BY <2>1, <3>1
    <3> HIDE DEF base, age
    <3> QED BY <3>1, <3>2, <3>3
  <2> HIDE DEF found
  <2>3. PICK k \in found : \A j \in found : age[k] <= age[j]
    <3> DEFINE T == {age[j] : j \in found}
    <3>1. T \in SUBSET Nat /\ T # {}
      BY <1>2
    <3>2. \E n \in T : \A m \in T : n <= m
      <4> HIDE DEF T
      <4> QED BY <3>1, LeastNat
    <3> QED BY <3>2
  <2> DEFINE B == {j \in found : age[j] = age[k]}
  <2>4. PICK i \in B : \A j \in B : i <= j
    <3>1. B \in SUBSET Nat /\ B # {}
      BY <2>1
    <3> HIDE DEF B
    <3> QED BY <3>1, LeastNat
  <2>5. ASSUME NEW j \in found \ {i}
        PROVE  report[j].at < report[i].at \/ (report[j].at = report[i].at /\ i < j)
    <3>1. /\ report[i].at = base - age[i] /\ report[j].at = base - age[j]
          /\ age[i] \in Nat /\ age[j] \in Nat /\ age[i] = age[k] /\ age[k] <= age[j]
          /\ i \in Nat /\ j \in Nat
      BY <2>1, <2>2, <2>3, <2>4
    <3>2. CASE age[j] = age[k]
      <4>1. i <= j /\ i # j
        BY <2>4, <3>2
      <4> QED BY <3>1, <3>2, <4>1
    <3>3. CASE age[j] # age[k]
      BY <3>1, <3>3
    <3> QED BY <3>2, <3>3
  <2> QED BY <2>4, <2>5
<1>3. CASE found # {}
  <2> DEFINE i == CHOOSE i \in found : latest(i)
  <2>1. i \in found /\ latest(i)
    <3> HIDE DEF found, latest
    <3> QED BY <1>2, <1>3
  <2> HIDE DEF i
  <2>2. \A j \in found : report[j].at \in Int
    BY ItemTypes
  <2>3. \A j \in found : report[j].at <= report[i].at
    BY <2>1, <2>2
  <2>4. Latest(report, d[1], d[2]) = report[i]
    BY <1>1, <1>3 DEF i
  <2> QED BY <1>3, <2>1, <2>3, <2>4
<1> QED BY <1>1, <1>3

(* A usable record is a fresh success, and no probe ended later by more than *)
(* its source's clock is ahead.                                              *)
LEMMA UsableIsFresh ==
  ASSUME TypeOK, ReportInv, NEW d, Usable(Latest(report, d[1], d[2]), now)
  PROVE  /\ Latest(report, d[1], d[2]).speed \in Speeds
         /\ \E i \in RecordsOf(d) :
              /\ Fresh(i)
              /\ \A j \in RecordsOf(d) : report[j].ended <= report[i].ended + Ahead(d[1])
<1>1. PICK i \in RecordsOf(d) : /\ Latest(report, d[1], d[2]) = report[i]
                                /\ \A j \in RecordsOf(d) : report[j].at <= report[i].at
  BY LatestRecord DEF Usable, Missing
<1>2. report[i].ok /\ now - report[i].at <= MaxAge
  BY <1>1 DEF Usable
<1>3. report[i].at = report[i].ended + Skew[d[1]] /\ report[i].speed \in Speeds
  <2> HIDE DEF TypeOK, ReportInv
  <2>1. /\ report[i].ok => report[i].speed \in Speeds
        /\ \/ report[i].at = report[i].ended + Skew[d[1]]
           \/ ~report[i].ok /\ report[i].at = report[i].ended
    BY ItemTypes
  <2> QED BY <1>2, <2>1
<1>4. d[1] \in Nodes /\ report[i].from = d[1] /\ report[i].ended \in Nat
  BY ItemTypes
<1>5. Fresh(i)
  <2>1. Skew[d[1]] \in Int /\ now \in Nat /\ MaxAge \in Nat
    BY <1>4, SkewTypes, MaxAgeAssumption DEF TypeOK
  <2>2. now - report[i].ended <= MaxAge + Skew[d[1]]
    BY <1>2, <1>3, <1>4, <2>1
  <2> QED BY <1>2, <1>4, <2>2 DEF Fresh
<1>6. ASSUME NEW j \in RecordsOf(d)
      PROVE  report[j].ended <= report[i].ended + Ahead(d[1])
  <2>1. /\ report[j].ended \in Nat
        /\ report[j].at = report[j].ended + Skew[d[1]] \/ report[j].at = report[j].ended
    BY ItemTypes
  <2> QED BY <1>1, <1>3, <1>4, <2>1, SkewTypes
<1> QED BY <1>1, <1>3, <1>5, <1>6

(* And a fresh success that is later than all other records by more than its *)
(* source's clock is behind is the newest record.                            *)
LEMMA FreshIsUsable ==
  ASSUME TypeOK, ReportInv, NEW d, NEW i \in RecordsOf(d), Fresh(i),
         \A j \in RecordsOf(d) \ {i} : report[j].ended < report[i].ended + Behind(d[1])
  PROVE  Usable(Latest(report, d[1], d[2]), now)
<1>1. PICK k \in RecordsOf(d) : /\ Latest(report, d[1], d[2]) = report[k]
                                /\ \A j \in RecordsOf(d) : report[j].at <= report[k].at
  BY LatestRecord
<1>2. /\ d[1] \in Nodes /\ report[i].from = d[1] /\ report[i].ended \in Nat
      /\ report[i].at = report[i].ended + Skew[d[1]]
  BY ItemTypes DEF Fresh
<1>3. k = i
  <2> SUFFICES ASSUME k # i PROVE FALSE
    OBVIOUS
  <2>1. /\ report[k].ended \in Nat
        /\ report[k].at = report[k].ended + Skew[d[1]] \/ report[k].at = report[k].ended
    BY ItemTypes
  <2>2. report[k].ended < report[i].ended + Behind(d[1]) /\ report[i].at <= report[k].at
    BY <1>1
  <2> QED BY <1>2, <2>1, <2>2, SkewTypes
<1>4. report[i].ok /\ now - report[i].ended <= MaxAge + Skew[d[1]]
  BY <1>2 DEF Fresh
<1>5. now - report[i].at <= MaxAge
  BY SMTT(30), <1>2, <1>4, SkewTypes, MaxAgeAssumption DEF TypeOK
<1> QED BY <1>1, <1>3, <1>4, <1>5 DEF Usable

(* A cost is called measured when both directions are usable.                *)
LEMMA MeasuredWhenUsable ==
  ASSUME NEW s, NEW l \in Links
  PROVE  (l \in DOMAIN Resolved(s) /\ Resolved(s)[l].source = "measured")
         <=> Usable(Latest(report, l[1], l[2]), now) /\ Usable(Latest(report, l[2], l[1]), now)
<1> DEFINE cost(k) == PairCost(report, k[1], k[2], now, s.useAdvertised, s.fallback)
           there == Latest(report, l[1], l[2])
           back  == Latest(report, l[2], l[1])
           both  == Usable(there, now) /\ Usable(back, now)
<1>1. DOMAIN Resolved(s) = {k \in Links : cost(k) # {}}
  BY DEF Resolved
<1>2. l \in DOMAIN Resolved(s) => Resolved(s)[l] = CHOOSE c \in cost(l) : TRUE
  BY <1>1 DEF Resolved
<1>3. both => \E speed : cost(l) = {[speed |-> speed, source |-> "measured"]}
  BY DEF PairCost
<1>4. ~both => cost(l) = {} \/ \E speed : \E source \in {"advertised", "fallback"} :
                                  cost(l) = {[speed |-> speed, source |-> source]}
  BY DEF PairCost
<1> HIDE DEF cost, both
<1>5. both => l \in DOMAIN Resolved(s) /\ Resolved(s)[l].source = "measured"
  <2>1. ASSUME both PROVE l \in DOMAIN Resolved(s) /\ Resolved(s)[l].source = "measured"
    <3>1. PICK speed : cost(l) = {[speed |-> speed, source |-> "measured"]}
      BY <2>1, <1>3
    <3>2. cost(l) # {} /\ l \in DOMAIN Resolved(s)
      BY <3>1, <1>1
    <3>3. Resolved(s)[l] = [speed |-> speed, source |-> "measured"]
      BY <3>1, <3>2, <1>2
    <3> QED BY <3>2, <3>3
  <2> QED BY <2>1
<1>6. ~both => ~(l \in DOMAIN Resolved(s) /\ Resolved(s)[l].source = "measured")
  <2>1. ASSUME ~both, l \in DOMAIN Resolved(s) PROVE Resolved(s)[l].source # "measured"
    <3>1. cost(l) # {}
      BY <2>1, <1>1
    <3>2. PICK speed, source : source # "measured" /\ cost(l) = {[speed |-> speed, source |-> source]}
      BY <2>1, <3>1, <1>4
    <3>3. Resolved(s)[l] = [speed |-> speed, source |-> source]
      BY <2>1, <3>2, <1>2
    <3> QED BY <3>2, <3>3
  <2> QED BY <2>1
<1> QED BY <1>5, <1>6 DEF both

(* Whatever a cost comes from, it is a bandwidth.                            *)
LEMMA ResolvedIsPositive ==
  ASSUME TypeOK, ReportInv, NEW s \in Settings
  PROVE  Positive(Bandwidth(Resolved(s)))
<1> DEFINE cost(k) == PairCost(report, k[1], k[2], now, s.useAdvertised, s.fallback)
<1> SUFFICES ASSUME NEW l \in Links, NEW c \in cost(l) PROVE c.speed \in Nat \ {0}
  <2>1. \A l \in Links : cost(l) # {} => (CHOOSE c \in cost(l) : TRUE) \in cost(l)
    OBVIOUS
  <2> QED BY <2>1 DEF Positive, Bandwidth, Resolved
<1> DEFINE there == Latest(report, l[1], l[2])
           back  == Latest(report, l[2], l[1])
           Least(a, b) == Min({a, b})
<1>1. ASSUME NEW a \in Nat \ {0}, NEW b \in Nat \ {0} PROVE Least(a, b) \in Nat \ {0}
  <2>1. \E x \in {a, b} : \A y \in {a, b} : x <= y
    OBVIOUS
  <2>2. Least(a, b) \in {a, b}
    BY <2>1 DEF Min
  <2> QED BY <2>2
<1>2. CASE Usable(there, now) /\ Usable(back, now)
  <2>1. there.speed \in Nat \ {0} /\ back.speed \in Nat \ {0}
    <3>1. there.speed \in Speeds /\ back.speed \in Speeds
      <4> DEFINE k == <<l[2], l[1]>>
      <4>1. there.speed \in Speeds
        BY <1>2, UsableIsFresh
      <4>2. back = Latest(report, k[1], k[2])
        OBVIOUS
      <4>3. Usable(Latest(report, k[1], k[2]), now)
        BY <1>2, <4>2
      <4>4. Latest(report, k[1], k[2]).speed \in Speeds
        <5> HIDE DEF k
        <5> QED BY <4>3, UsableIsFresh
      <4> QED BY <4>1, <4>2, <4>4
    <3> QED BY <3>1, SpeedsAssumption
  <2>2. {item.speed : item \in {there, back}} = {there.speed, back.speed}
    OBVIOUS
  <2>3. cost(l) = {[speed |-> Least(there.speed, back.speed), source |-> "measured"]}
    BY <1>2, <2>2 DEF PairCost
  <2> HIDE DEF Least, cost, there, back
  <2>4. PICK least \in Nat \ {0} : cost(l) = {[speed |-> least, source |-> "measured"]}
    BY <1>1, <2>1, <2>3
  <2> QED BY <2>4
<1>3. CASE ~ (Usable(there, now) /\ Usable(back, now))
  <2>1. l[1] \in Nodes /\ l[2] \in Nodes
    BY DEF Links
  <2>2. Advertised[l[1]] \in Nat \ {0} /\ Advertised[l[2]] \in Nat \ {0}
    BY <2>1, AdvertisedAssumption
  <2>3. s.fallback \in Nat
    BY SettingsAssumption
  <2>4. \/ cost(l) = {[speed |-> Least(Advertised[l[1]], Advertised[l[2]]), source |-> "advertised"]}
        \/ s.fallback > 0 /\ cost(l) = {[speed |-> s.fallback, source |-> "fallback"]}
    BY <1>3 DEF PairCost
  <2> HIDE DEF Least, cost, there, back
  <2>5. Least(Advertised[l[1]], Advertised[l[2]]) \in Nat \ {0}
    BY <1>1, <2>2
  <2> QED BY <2>3, <2>4, <2>5
<1> QED BY <1>2, <1>3

(* Nothing is probed or planned at first.                                    *)
LEMMA InitInv == Init => IInv
BY DEF Init, IInv, TypeOK, ReportInv, PlanInv, Planned

(* The record of a probe joins the others at either end of the report.       *)
LEMMA ProbeStep ==
  ASSUME IInv, NEW d \in Probed, Probe(d)
  PROVE  IInv'
<1>1. PICK item \in Records(d) : report' \in {Append(report, item), <<item>> \o report}
  BY DEF Probe
<1>2. /\ now' = now /\ setting = Idle /\ setting' = setting /\ now \in Nat
      /\ report \in Seq(Items)
  BY DEF Probe, IInv, TypeOK
<1>3. d[1] \in Nodes /\ d[2] \in Nodes /\ d = <<d[1], d[2]>>
  BY ProbedAssumption
<1>4. /\ item \in Items /\ <<item.from, item.to>> \in Probed /\ item.ended <= now
      /\ item.at = item.ended + Skew[item.from] \/ (~item.ok /\ item.at = item.ended)
      /\ item.ok => item.speed \in Speeds
  <2>1. Skew[d[1]] \in Int
    BY <1>3, SkewTypes
  <2>2. \A answered \in SUBSET Nodes : Inventories(answered) \subseteq SUBSET Nodes
    BY DEF Inventories
  <2> DEFINE FromSource(how) == [from : {d[1]}, to : {d[2]}, ok : {how}, ended : {now},
                                 at : {now + Skew[d[1]]}, known : Inventories({d[1], d[2]}),
                                 speed : IF how THEN Speeds ELSE {0}]
             FromDriver == [from : {d[1]}, to : {d[2]}, ok : {FALSE}, ended : {now}, at : {now},
                            known : {{}} \cup Inventories({d[2]}), speed : {0}]
  <2>3. item \in FromSource(TRUE) \/ item \in FromSource(FALSE) \/ item \in FromDriver
    BY DEF Records
  <2>4. Inventories({d[1], d[2]}) \subseteq SUBSET Nodes /\ Inventories({d[2]}) \subseteq SUBSET Nodes
    BY <1>3, <2>2
  <2>5. ASSUME NEW how \in BOOLEAN, item \in FromSource(how) PROVE <1>4!1
    <3>1. /\ item.from = d[1] /\ item.to = d[2] /\ item.ok = how /\ item.ended = now
          /\ item.at = now + Skew[d[1]] /\ item.known \in Inventories({d[1], d[2]})
          /\ item.speed \in IF how THEN Speeds ELSE {0}
      BY <2>5
    <3>2. item \in Items
      BY <1>2, <1>3, <2>1, <2>4, <2>5 DEF Items
    <3>3. item.ok => item.speed \in Speeds
      BY <3>1
    <3> QED BY <1>2, <1>3, <3>1, <3>2, <3>3
  <2>6. CASE item \in FromDriver
    <3>1. /\ item.from = d[1] /\ item.to = d[2] /\ item.ok = FALSE /\ item.ended = now
          /\ item.at = now /\ item.known \in {{}} \cup Inventories({d[2]}) /\ item.speed = 0
      BY <2>6
    <3>2. item.known \in SUBSET Nodes
      <4>1. CASE item.known = {}
        BY <4>1
      <4>2. CASE item.known \in Inventories({d[2]})
        BY <2>4, <4>2
      <4> QED BY <3>1, <4>1, <4>2
    <3>3. item \in Items
      <4>1. item = [from |-> item.from, to |-> item.to, ok |-> item.ok, ended |-> item.ended,
                    at |-> item.at, known |-> item.known, speed |-> item.speed]
        BY <2>6
      <4>2. item.ok \in BOOLEAN
        BY <2>6
      <4>3. /\ item.from \in Nodes /\ item.to \in Nodes /\ item.ended \in Nat /\ item.at \in Int
            /\ item.speed \in Speeds \cup {0}
        BY <1>2, <1>3, <3>1
      <4> QED BY <3>2, <4>1, <4>2, <4>3 DEF Items
    <3> QED BY <1>2, <1>3, <3>1, <3>3
  <2> QED BY <2>3, <2>5, <2>6
<1>5. /\ report' \in Seq(Items)
      /\ \A k \in DOMAIN report' : report'[k] = item \/ \E i \in DOMAIN report : report'[k] = report[i]
  <2>1. CASE report' = Append(report, item)
    BY <2>1, <1>2, <1>4
  <2>2. CASE report' = <<item>> \o report
    <3>1. <<item>> \in Seq(Items) /\ Len(<<item>>) = 1 /\ <<item>>[1] = item
      BY <1>4
    <3>2. report' \in Seq(Items) /\ Len(report') = Len(report) + 1 /\ report'[1] = item
      BY <2>2, <3>1, <1>2
    <3>3. \A i \in 1 .. Len(report) : report'[i + 1] = report[i]
      BY <2>2, <3>1, <1>2
    <3>4. ASSUME NEW k \in DOMAIN report', k # 1 PROVE \E i \in DOMAIN report : report'[k] = report[i]
      <4>1. k - 1 \in 1 .. Len(report) /\ k = (k - 1) + 1
        BY <1>2, <3>2, <3>4
      <4>2. report'[k] = report[k - 1]
        BY <3>3, <4>1
      <4> QED BY <1>2, <4>1, <4>2
    <3> QED BY <3>2, <3>4
  <2> QED BY <1>1, <2>1, <2>2
<1>6. TypeOK'
  BY <1>2, <1>5 DEF TypeOK
<1>7. ReportInv'
  <2>1. ASSUME NEW k \in DOMAIN report'
        PROVE  /\ <<report'[k].from, report'[k].to>> \in Probed /\ report'[k].ended <= now
               /\ \/ report'[k].at = report'[k].ended + Skew[report'[k].from]
                  \/ ~report'[k].ok /\ report'[k].at = report'[k].ended
               /\ report'[k].ok => report'[k].speed \in Speeds
    <3>1. CASE report'[k] = item
      BY <3>1, <1>4
    <3>2. ASSUME NEW i \in DOMAIN report, report'[k] = report[i] PROVE <2>1!2
      BY <3>2 DEF IInv, ReportInv
    <3> QED BY <1>5, <3>1, <3>2
  <2> QED BY <2>1, <1>2 DEF ReportInv
<1>8. PlanInv'
  BY <1>2 DEF PlanInv, Planned
<1> QED BY <1>6, <1>7, <1>8 DEF IInv

(* Time, a probe and a plan preserve the invariant.                          *)
LEMMA StepInv == IInv /\ [Next]_vars => IInv'
<1> SUFFICES ASSUME IInv, [Next]_vars PROVE IInv'
  OBVIOUS
<1>1. CASE Tick
  <2>1. now' = now + 1 /\ UNCHANGED <<report, setting>> /\ setting = Idle
    BY <1>1 DEF Tick
  <2>2. TypeOK'
    BY <2>1 DEF IInv, TypeOK
  <2>3. ASSUME NEW i \in DOMAIN report PROVE report[i].ended <= now'
    <3>1. report[i] \in Items /\ now \in Nat
      BY DEF IInv, TypeOK
    <3>3. report[i].ended <= now
      BY DEF IInv, ReportInv
    <3>2. report[i].ended \in Nat
      BY <3>1 DEF Items
    <3> QED BY <2>1, <3>1, <3>2, <3>3
  <2>4. ReportInv'
    BY <2>1, <2>3 DEF IInv, ReportInv
  <2> QED BY <2>1, <2>2, <2>4 DEF IInv, PlanInv, Planned
<1>2. CASE \E d \in Probed : Probe(d)
  BY <1>2, ProbeStep
<1>3. CASE \E s \in Settings : Plan(s)
  <2>1. PICK s \in Settings : /\ costs' = Resolved(s) /\ UNCHANGED <<now, report>>
                              /\ setting' = s /\ plan' = ChoosePlacement(s, Bandwidth(Resolved(s)))
    BY <1>3 DEF Plan
  <2>2. TypeOK' /\ ReportInv'
    BY <2>1 DEF IInv, TypeOK, ReportInv
  <2>3. Positive(Bandwidth(Resolved(s)))
    BY ResolvedIsPositive DEF IInv
  <2>4. costs' = Resolved(setting)'
    BY <2>1 DEF Resolved
  <2>5. PlanInv'
    BY <2>1, <2>3, <2>4 DEF PlanInv, Bandwidth
  <2> QED BY <2>2, <2>5 DEF IInv
<1>4. CASE UNCHANGED vars
  BY <1>4 DEF vars, IInv, TypeOK, ReportInv, PlanInv, Bandwidth, Resolved, Planned
<1> QED BY <1>1, <1>2, <1>3, <1>4 DEF Next

-----------------------------------------------------------------------------
(* The theorems.                                                             *)

(* The invariant holds in every state.                                       *)
THEOREM Inductive == Spec => []IInv
<1> QED BY InitInv, StepInv, PTL DEF Spec

(* A cost passes for measured only on a success of each direction that is    *)
(* fresh, and that no probe followed, up to what the clock of its source is  *)
(* ahead; and a success that is last by more than its clock is behind counts *)
(* - for any skews, in whatever order the runs of the probes were merged and *)
(* however many records there are.                                           *)
THEOREM MeasuredCosts == Spec => []MeasuredIsCurrent
<1>1. IInv => MeasuredIsCurrent
  <2> SUFFICES ASSUME IInv, Planned, NEW l \in Links
               PROVE  LET directions == {l, <<l[2], l[1]>>}
                      IN /\ Measured(l) => \A d \in directions : \E i \in RecordsOf(d) :
                              Fresh(i) /\ \A j \in RecordsOf(d) :
                                           report[j].ended <= report[i].ended + Ahead(d[1])
                         /\ (\A d \in directions : \E i \in RecordsOf(d) :
                               /\ Fresh(i)
                               /\ \A j \in RecordsOf(d) \ {i} :
                                    report[j].ended < report[i].ended + Behind(d[1]))
                            => Measured(l)
    BY DEF MeasuredIsCurrent
  <2> DEFINE directions == {l, <<l[2], l[1]>>}
             usable(d) == Usable(Latest(report, d[1], d[2]), now)
  <2>1. Measured(l) <=> \A d \in directions : usable(d)
    <3>1. costs = Resolved(setting)
      BY DEF IInv, PlanInv
    <3>2. (l \in DOMAIN Resolved(setting) /\ Resolved(setting)[l].source = "measured")
          <=> Usable(Latest(report, l[1], l[2]), now) /\ Usable(Latest(report, l[2], l[1]), now)
      BY MeasuredWhenUsable
    <3>3. (\A d \in directions : usable(d))
          <=> Usable(Latest(report, l[1], l[2]), now) /\ Usable(Latest(report, l[2], l[1]), now)
      OBVIOUS
    <3> HIDE DEF directions, usable
    <3> QED BY <3>1, <3>2, <3>3 DEF Measured
  <2>2. ASSUME NEW d \in directions, usable(d)
        PROVE  \E i \in RecordsOf(d) :
                 Fresh(i) /\ \A j \in RecordsOf(d) : report[j].ended <= report[i].ended + Ahead(d[1])
    BY <2>2, UsableIsFresh DEF IInv
  <2>3. ASSUME NEW d \in directions, NEW i \in RecordsOf(d), Fresh(i),
               \A j \in RecordsOf(d) \ {i} : report[j].ended < report[i].ended + Behind(d[1])
        PROVE  usable(d)
    BY <2>3, FreshIsUsable DEF IInv
  <2> HIDE DEF directions, usable
  <2>4. /\ Measured(l) => \A d \in directions : \E i \in RecordsOf(d) :
             Fresh(i) /\ \A j \in RecordsOf(d) : report[j].ended <= report[i].ended + Ahead(d[1])
        /\ (\A d \in directions : \E i \in RecordsOf(d) :
              /\ Fresh(i)
              /\ \A j \in RecordsOf(d) \ {i} : report[j].ended < report[i].ended + Behind(d[1]))
           => Measured(l)
    BY <2>1, <2>2, <2>3
  <2> QED BY <2>4 DEF directions
<1> QED BY <1>1, Inductive, PTL

-----------------------------------------------------------------------------
(* Sums over finite sets, which MapThenSumSet computes by recursion.         *)

(* The recursive function that MapThenSumSet evaluates, for an f that is a   *)
(* function.                                                                 *)
Picked(s) == CHOOSE x \in s : TRUE
AddsUp(g, f, S) ==
  g = [s \in SUBSET S |-> IF s = {} THEN 0 ELSE f[Picked(s)] + g[s \ {Picked(s)}]]

(* A set without one of its members.                                         *)
LEMMA Smaller ==
  ASSUME NEW S, IsFiniteSet(S), NEW s \in SUBSET S, NEW x \in s
  PROVE  /\ s \ {x} \in SUBSET S
         /\ Cardinality(s) \in Nat /\ Cardinality(s \ {x}) \in Nat
         /\ Cardinality(s \ {x}) = Cardinality(s) - 1
<1>1. IsFiniteSet(s) /\ IsFiniteSet(s \ {x})
  BY FS_Subset
<1> QED BY <1>1, FS_RemoveElement, FS_CardinalityType

(* The member that is added first.                                           *)
LEMMA PickedIn == ASSUME NEW s, s # {} PROVE Picked(s) \in s
BY DEF Picked

(* Induction over the subsets of a finite set: of some of them there is one  *)
(* from which no member can be taken away.                                   *)
LEMMA SmallestSet ==
  ASSUME NEW S, IsFiniteSet(S), NEW B \in SUBSET (SUBSET S), B # {}
  PROVE  \E s \in B : \A x \in s : s \ {x} \notin B
<1> DEFINE T == {n \in Nat : \E s \in B : n = Cardinality(s)}
<1>1. \A s \in B : Cardinality(s) \in T
  BY FS_Subset, FS_CardinalityType
<1>2. T # {} /\ T \in SUBSET Nat
  BY <1>1
<1>3. PICK n \in T : \A m \in T : n <= m
  <2> HIDE DEF T
  <2> QED BY <1>2, LeastNat
<1>4. PICK s \in B : n = Cardinality(s)
  OBVIOUS
<1>5. ASSUME NEW x \in s PROVE s \ {x} \notin B
  <2>1. Cardinality(s \ {x}) = n - 1 /\ n \in Nat
    BY <1>4, Smaller
  <2>2. ~(n <= n - 1)
    BY <2>1
  <2> HIDE DEF T
  <2> QED BY <1>1, <1>3, <2>1, <2>2
<1> QED BY <1>4, <1>5

(* There is such a function: were there sizes up to which there is none, one *)
(* of them would be the least, and the function of the size below extends to it. *)
LEMMA SumExists ==
  ASSUME NEW S, IsFiniteSet(S), NEW f \in [S -> Nat]
  PROVE  \E g \in [SUBSET S -> Nat] : AddsUp(g, f, S)
<1> DEFINE next(g, s) == IF s = {} THEN 0 ELSE f[Picked(s)] + g[s \ {Picked(s)}]
           upTo(k, g) == \A s \in SUBSET S : Cardinality(s) <= k => g[s] = next(g, s)
           T == {k \in Nat : ~ \E g \in [SUBSET S -> Nat] : upTo(k, g)}
<1>1. ASSUME NEW g \in [SUBSET S -> Nat], NEW s \in SUBSET S PROVE next(g, s) \in Nat
  <2>1. CASE s # {}
    BY <2>1, PickedIn
  <2> QED BY <2>1
<1>2. \A s \in SUBSET S : s # {} => /\ s \ {Picked(s)} \in SUBSET S /\ Cardinality(s) \in Nat
                                   /\ Cardinality(s \ {Picked(s)}) = Cardinality(s) - 1
  BY Smaller, PickedIn
<1>3. \A s \in SUBSET S : Cardinality(s) \in Nat /\ (Cardinality(s) = 0 <=> s = {})
  BY FS_Subset, FS_CardinalityType, FS_EmptySet
<1>4. T = {}
  <2> SUFFICES ASSUME T # {} PROVE FALSE
    OBVIOUS
  <2>1. PICK k \in T : \A m \in T : k <= m
    BY LeastNat
  <2>2. CASE k = 0
    <3> DEFINE g == [s \in SUBSET S |-> 0]
    <3>1. upTo(0, g)
      BY <1>3
    <3> QED BY <2>2, <3>1
  <2>3. CASE k # 0
    <3>1. k - 1 \in Nat /\ k - 1 \notin T
      <4>1. k \in Nat /\ k - 1 \in Nat /\ ~(k <= k - 1)
        BY <2>3
      <4> HIDE DEF T
      <4> QED BY <2>1, <4>1
    <3>2. PICK g \in [SUBSET S -> Nat] : upTo(k - 1, g)
      BY <3>1
    <3> DEFINE h == [s \in SUBSET S |-> IF Cardinality(s) <= k - 1 THEN g[s] ELSE next(g, s)]
    <3>3. h \in [SUBSET S -> Nat]
      BY <1>1
    <3>4. ASSUME NEW s \in SUBSET S, Cardinality(s) <= k PROVE h[s] = next(h, s)
      <4>1. CASE s = {}
        BY <4>1, <3>2, <1>3
      <4>2. CASE s # {}
        <5> DEFINE r == s \ {Picked(s)}
        <5>1. r \in SUBSET S /\ Cardinality(r) <= k - 1
          BY <1>2, <3>4, <4>2
        <5>2. h[r] = g[r]
          BY <5>1
        <5>3. h[s] = next(g, s)
          BY <3>2
        <5> QED BY <4>2, <5>2, <5>3
      <4> QED BY <4>1, <4>2
    <3> QED BY <3>3, <3>4
  <2> QED BY <2>2, <2>3
<1>5. Cardinality(S) \in Nat /\ \A s \in SUBSET S : Cardinality(s) <= Cardinality(S)
  BY FS_CardinalityType, FS_Subset
<1>6. PICK g \in [SUBSET S -> Nat] : upTo(Cardinality(S), g)
  BY <1>4, <1>5
<1>7. \A s \in SUBSET S : g[s] = next(g, s)
  BY <1>5, <1>6
<1> QED BY <1>7 DEF AddsUp

(* There is only one: two would differ at a set whose smaller sets they agree on. *)
LEMMA SumIsOne ==
  ASSUME NEW S, IsFiniteSet(S), NEW f, NEW g, NEW h, AddsUp(g, f, S), AddsUp(h, f, S)
  PROVE  g = h
<1> DEFINE B == {s \in SUBSET S : g[s] # h[s]}
<1>1. B = {}
  <2> SUFFICES ASSUME B # {} PROVE FALSE
    OBVIOUS
  <2>1. PICK s \in B : \A x \in s : s \ {x} \notin B
    BY SmallestSet
  <2>2. s # {}
    BY DEF AddsUp
  <2>3. Picked(s) \in s
    BY <2>2, PickedIn
  <2>4. g[s \ {Picked(s)}] = h[s \ {Picked(s)}]
    BY <2>1, <2>3
  <2> QED BY <2>2, <2>4 DEF AddsUp
<1>2. g = [s \in SUBSET S |-> g[s]] /\ h = [s \in SUBSET S |-> h[s]]
  BY DEF AddsUp
<1>3. \A s \in SUBSET S : g[s] = h[s]
  BY <1>1
<1> QED BY <1>2, <1>3

(* Which member is added first does not matter.                              *)
AddsAny(g, f, S) == \A s \in SUBSET S : \A x \in s : g[s] = f[x] + g[s \ {x}]

(* So the function that picks a member also satisfies the equation of the others. *)
LEMMA SumOfAny ==
  ASSUME NEW S, IsFiniteSet(S), NEW f \in [S -> Nat], NEW g \in [SUBSET S -> Nat],
         AddsUp(g, f, S)
  PROVE  AddsAny(g, f, S)
<1> USE DEF AddsAny
<1> DEFINE odd(r) == \E y \in r : g[r] # f[y] + g[r \ {y}]
           B == {r \in SUBSET S : odd(r)}
<1>1. B = {}
  <2> SUFFICES ASSUME B # {} PROVE FALSE
    OBVIOUS
  <2>1. PICK r \in B : \A y \in r : r \ {y} \notin B
    BY SmallestSet
  <2>2. PICK y \in r : g[r] # f[y] + g[r \ {y}]
    OBVIOUS
  <2> DEFINE z == Picked(r)
             both == (r \ {z}) \ {y}
  <2>3. z \in r /\ g[r] = f[z] + g[r \ {z}]
    BY <2>2, PickedIn DEF AddsUp
  <2>4. y # z
    BY <2>2, <2>3
  <2>5. ~odd(r \ {z}) /\ ~odd(r \ {y})
    <3> HIDE DEF odd, z
    <3> QED BY <2>1, <2>2, <2>3
  <2>6. g[r \ {z}] = f[y] + g[both]
    BY <2>2, <2>4, <2>5
  <2>7. both = (r \ {y}) \ {z}
    OBVIOUS
  <2>8. g[r \ {y}] = f[z] + g[both]
    BY <2>3, <2>4, <2>5, <2>7
  <2>9. f[y] \in Nat /\ f[z] \in Nat /\ g[both] \in Nat
    BY <2>2, <2>3
  <2> HIDE DEF z, both
  <2> QED BY <2>2, <2>3, <2>6, <2>8, <2>9
<1> QED BY <1>1

(* The sum of the values of f.                                               *)
Total(f, S) == MapThenSumSet(LAMBDA x : f[x], S)

(* The function that MapThenSumSet chooses is the one there is.              *)
LEMMA TotalIsSum ==
  ASSUME NEW S, NEW f, NEW h, AddsUp(h, f, S), \A g : AddsUp(g, f, S) => g = h
  PROVE  Total(f, S) = h[S]
BY DEF Total, MapThenSumSet, MapThenFoldSet, AddsUp, Picked

(* The same numbers have the same sum.                                       *)
LEMMA SameTotal ==
  ASSUME NEW S, NEW R, IsFiniteSet(S), IsFiniteSet(R),
         NEW f \in [S -> Nat], NEW e \in [R -> Nat], NEW b \in [S -> R],
         \A x, y \in S : b[x] = b[y] => x = y, \A y \in R : \E x \in S : b[x] = y,
         \A x \in S : f[x] = e[b[x]]
  PROVE  Total(f, S) = Total(e, R) /\ Total(f, S) \in Nat
<1>1. PICK g \in [SUBSET S -> Nat] : AddsUp(g, f, S)
  BY SumExists
<1>2. PICK h \in [SUBSET R -> Nat] : AddsUp(h, e, R)
  BY SumExists
<1>3. Total(f, S) = g[S] /\ Total(e, R) = h[R]
  BY <1>1, <1>2, SumIsOne, TotalIsSum
<1>4. \A s \in SUBSET S : \A x \in s : g[s] = f[x] + g[s \ {x}]
  <2>1. AddsAny(g, f, S)
    BY <1>1, SumOfAny
  <2> QED BY <2>1 DEF AddsAny
<1>5. \A s \in SUBSET R : \A y \in s : h[s] = e[y] + h[s \ {y}]
  <2>1. AddsAny(h, e, R)
    BY <1>2, SumOfAny
  <2> QED BY <2>1 DEF AddsAny
<1> DEFINE image(s) == {b[x] : x \in s}
           B == {s \in SUBSET S : g[s] # h[image(s)]}
<1>6. B = {}
  <2> SUFFICES ASSUME B # {} PROVE FALSE
    OBVIOUS
  <2>1. PICK s \in B : \A x \in s : s \ {x} \notin B
    <3> HIDE DEF B
    <3>1. B \in SUBSET (SUBSET S)
      BY DEF B
    <3> QED BY <3>1, SmallestSet
  <2>2. s \in SUBSET S /\ g[s] # h[image(s)] /\ image(s) \in SUBSET R
    OBVIOUS
  <2>3. s # {}
    BY <1>1, <1>2, <2>2 DEF AddsUp
  <2>4. PICK x \in s : TRUE
    BY <2>3
  <2>5. g[s \ {x}] = h[image(s \ {x})]
    BY <2>1, <2>2
  <2>6. image(s \ {x}) = image(s) \ {b[x]} /\ b[x] \in image(s)
    BY <2>2, <2>4
  <2> HIDE DEF image, B
  <2>7. g[s] = f[x] + g[s \ {x}]
    BY <2>2, <2>4, <1>4
  <2>8. h[image(s)] = e[b[x]] + h[image(s) \ {b[x]}]
    BY <2>2, <2>6, <1>5
  <2> QED BY <2>2, <2>4, <2>5, <2>6, <2>7, <2>8
<1>7. image(S) = R
  OBVIOUS
<1>8. g[S] = h[image(S)]
  <2> HIDE DEF image
  <2> QED BY <1>6
<1>9. g[S] \in Nat /\ g[S] = h[R]
  BY <1>1, <1>7, <1>8
<1> QED BY <1>3, <1>9

-----------------------------------------------------------------------------
(* Placements: their order, and what does not depend on the order of the     *)
(* workers.                                                                  *)

(* Workers and their placements, in any order.                               *)
Indices == 1 .. Workers
Placements == [Indices -> Nodes]

USE NodesAssumption, WorkersAssumption, WorkloadAssumption DEF Indices

(* Before orders placements totally ...                                      *)
LEMMA BeforeIsOrder ==
  ASSUME NEW v \in Placements, NEW w \in Placements
  PROVE  /\ v # w => Before(v, w) \/ Before(w, v)
         /\ ~ (Before(v, w) /\ Before(w, v))
<1> USE DEF Placements
<1>1. ASSUME v # w PROVE Before(v, w) \/ Before(w, v)
  <2> DEFINE T == {i \in Indices : v[i] # w[i]}
  <2>1. T # {} /\ T \in SUBSET Nat
    BY <1>1
  <2>2. PICK i \in T : \A j \in T : i <= j
    <3> HIDE DEF T
    <3> QED BY <2>1, LeastNat
  <2>3. \A j \in 1 .. i - 1 : v[j] = w[j]
    <3> SUFFICES ASSUME NEW j \in 1 .. i - 1, v[j] # w[j] PROVE FALSE
      OBVIOUS
    <3>1. i \in Int /\ j \in Int /\ ~ (i <= j) /\ j \in Indices
      OBVIOUS
    <3> QED BY <2>2, <3>1
  <2>4. v[i] < w[i] \/ w[i] < v[i]
    <3>1. i \in Indices /\ v[i] # w[i]
      OBVIOUS
    <3>2. v[i] \in Nat /\ w[i] \in Nat
      BY <3>1
    <3> QED BY <3>1, <3>2
  <2> QED BY <2>3, <2>4 DEF Before
<1>2. ASSUME Before(v, w), Before(w, v) PROVE FALSE
  <2>1. PICK i \in Indices : v[i] < w[i] /\ \A j \in 1 .. i - 1 : v[j] = w[j]
    BY <1>2 DEF Before
  <2>2. PICK k \in Indices : w[k] < v[k] /\ \A j \in 1 .. k - 1 : w[j] = v[j]
    BY <1>2 DEF Before
  <2>3. v[i] \in Nat /\ w[i] \in Nat /\ v[k] \in Nat /\ w[k] \in Nat
    OBVIOUS
  <2>4. CASE i < k
    BY <2>1, <2>2, <2>3, <2>4
  <2>5. CASE k < i
    BY <2>1, <2>2, <2>3, <2>5
  <2>6. CASE k = i
    BY <2>1, <2>2, <2>3, <2>6
  <2> QED BY <2>4, <2>5, <2>6
<1> QED BY <1>1, <1>2

LEMMA BeforeIsTransitive ==
  ASSUME NEW u \in Placements, NEW v \in Placements, NEW w \in Placements, Before(u, v), Before(v, w)
  PROVE  Before(u, w)
<1> USE DEF Placements
<1>1. PICK i \in Indices : u[i] < v[i] /\ \A j \in 1 .. i - 1 : u[j] = v[j]
  BY DEF Before
<1>2. PICK k \in Indices : v[k] < w[k] /\ \A j \in 1 .. k - 1 : v[j] = w[j]
  BY DEF Before
<1>3. \A j \in Indices : u[j] \in Nat /\ v[j] \in Nat /\ w[j] \in Nat
  OBVIOUS
<1>4. CASE i <= k
  <2>1. u[i] < w[i]
    <3>1. CASE i = k
      BY <1>1, <1>2, <1>3, <3>1
    <3>2. CASE i # k
      <4>1. v[i] = w[i]
        BY <1>2, <1>4, <3>2
      <4> QED BY <1>1, <4>1
    <3> QED BY <3>1, <3>2
  <2>2. \A j \in 1 .. i - 1 : u[j] = w[j]
    BY <1>1, <1>2, <1>4
  <2> QED BY <2>1, <2>2 DEF Before
<1>5. CASE k < i
  <2>1. u[k] < w[k]
    BY <1>1, <1>2, <1>3, <1>5
  <2>2. \A j \in 1 .. k - 1 : u[j] = w[j]
    BY <1>1, <1>2, <1>5
  <2> QED BY <2>1, <2>2 DEF Before
<1> QED BY <1>4, <1>5

(* ... and some placement of any set of placements is first.                 *)
LEMMA FirstPlacement ==
  ASSUME NEW T \in SUBSET Placements, T # {}
  PROVE  \E w \in T : \A v \in T \ {w} : Before(w, v)
<1> DEFINE less == OpToRel(<, Nat)
           lex  == LexProductOrdering(less, Nat, Workers)
<1>1. IsWellFoundedOn(lex, [1 .. Workers -> Nat])
  BY NatLessThanWellFounded, WFLexProductOrdering
<1>2. T \subseteq [1 .. Workers -> Nat]
  BY DEF Placements
<1>3. PICK w \in T : \A v \in T : ~ (<<v, w>> \in lex)
  <2> HIDE DEF lex
  <2> QED BY <1>1, <1>2, WFMin
<1>4. ASSUME NEW v \in T, Before(v, w) PROVE <<v, w>> \in lex
  <2>1. PICK i \in Indices : v[i] < w[i] /\ \A j \in 1 .. i - 1 : v[j] = w[j]
    BY <1>4 DEF Before
  <2>2. v \in [1 .. Workers -> Nat] /\ w \in [1 .. Workers -> Nat]
    BY <1>2
  <2>3. <<v[i], w[i]>> \in less
    BY <2>1, <2>2 DEF OpToRel
  <2> HIDE DEF less
  <2> QED BY <2>1, <2>2, <2>3 DEF LexProductOrdering
<1> QED BY <1>3, <1>4, BeforeIsOrder

(* Workers put in another order.                                             *)
Reorderings ==
  {p \in [Indices -> Indices] :
     /\ \A i, j \in Indices : p[i] = p[j] => i = j
     /\ \A j \in Indices : \E i \in Indices : p[i] = j}
Reordered(w, p) == [i \in Indices |-> w[p[i]]]

(* Some order of the workers is one the search looks at: the first of all.   *)
LEMMA SortedExists ==
  ASSUME NEW w \in Placements
  PROVE  \E p \in Reorderings :
           /\ \A i \in 1 .. Workers - 1 : Reordered(w, p)[i] <= Reordered(w, p)[i + 1]
           /\ Reordered(w, p) = w \/ Before(Reordered(w, p), w)
<1> DEFINE T == {Reordered(w, p) : p \in Reorderings}
<1>1. [i \in Indices |-> i] \in Reorderings
  BY DEF Reorderings
<1>2. T # {} /\ T \in SUBSET Placements
  <2>1. \A p \in Reorderings : Reordered(w, p) \in Placements
    BY DEF Reorderings, Reordered, Placements
  <2> QED BY <1>1, <2>1
<1>3. PICK v \in T : \A u \in T \ {v} : Before(v, u)
  <2> HIDE DEF T
  <2> QED BY <1>2, FirstPlacement
<1>4. PICK p \in Reorderings : v = Reordered(w, p)
  OBVIOUS
<1>5. ASSUME NEW i \in 1 .. Workers - 1, ~ (v[i] <= v[i + 1]) PROVE FALSE
  <2> DEFINE q == [k \in Indices |-> IF k = i THEN p[i + 1] ELSE IF k = i + 1 THEN p[i] ELSE p[k]]
             u == Reordered(w, q)
  <2>1. i \in Indices /\ i + 1 \in Indices
    OBVIOUS
  <2>2. q \in Reorderings
    <3>1. q \in [Indices -> Indices]
      BY <2>1 DEF Reorderings
    <3>2. \A k, m \in Indices : q[k] = q[m] => k = m
      BY <2>1 DEF Reorderings
    <3>3. ASSUME NEW j \in Indices PROVE \E k \in Indices : q[k] = j
      <4>1. PICK m \in Indices : p[m] = j
        BY DEF Reorderings
      <4>2. \E k \in Indices : q[k] = p[m]
        <5>1. CASE m = i
          BY <2>1, <5>1
        <5>2. CASE m = i + 1
          BY <2>1, <5>2
        <5>3. CASE m # i /\ m # i + 1
          BY <5>3
        <5> QED BY <5>1, <5>2, <5>3
      <4> QED BY <4>1, <4>2
    <3> QED BY <3>1, <3>2, <3>3 DEF Reorderings
  <2>3. u \in T
    BY <2>2
  <2>4. u[i] = v[i + 1] /\ \A j \in 1 .. i - 1 : u[j] = v[j]
    BY <1>4, <2>1 DEF Reordered
  <2>5. v \in Placements /\ u \in Placements
    BY <1>2, <2>3
  <2> HIDE DEF u, T
  <2>6. u[i] < v[i]
    <3>1. v[i] \in Nat /\ v[i + 1] \in Nat
      BY <2>1, <2>5 DEF Placements
    <3> QED BY <1>5, <2>4, <3>1
  <2>7. Before(u, v)
    BY <2>1, <2>4, <2>6 DEF Before
  <2>8. u # v
    <3>1. v[i] \in Nat
      BY <2>1, <2>5 DEF Placements
    <3> QED BY <2>6, <3>1
  <2> QED BY <1>3, <2>3, <2>5, <2>7, <2>8, BeforeIsOrder
<1>6. w \in T
  <2>1. Reordered(w, [i \in Indices |-> i]) = w
    BY DEF Reordered, Placements
  <2> QED BY <1>1, <2>1
<1>7. v = w \/ Before(v, w)
  BY <1>3, <1>6
<1> QED BY <1>4, <1>5, <1>7

(* What a policy looks at does not depend on the order of the workers.       *)
LEMMA ReorderedOn ==
  ASSUME NEW w \in Placements, NEW p \in Reorderings, NEW n
  PROVE  Cardinality(On(Reordered(w, p), n)) = Cardinality(On(w, n))
<1> DEFINE v == Reordered(w, p)
           b == [i \in On(v, n) |-> p[i]]
<1>1. IsFiniteSet(On(v, n))
  BY FS_Interval, FS_Subset DEF On
<1>2. b \in [On(v, n) -> On(w, n)]
  BY DEF On, Reordered, Reorderings
<1>3. \A i, j \in On(v, n) : b[i] = b[j] => i = j
  BY DEF On, Reorderings
<1>4. ASSUME NEW j \in On(w, n) PROVE \E i \in On(v, n) : b[i] = j
  <2>1. PICK i \in Indices : p[i] = j
    BY DEF Reorderings, On
  <2>2. i \in On(v, n)
    BY <2>1 DEF On, Reordered
  <2> QED BY <2>1, <2>2
<1> HIDE DEF b, v
<1>5. b \in Bijection(On(v, n), On(w, n))
  BY <1>2, <1>3, <1>4 DEF Bijection, Injection, Surjection, IsInjective
<1>6. Cardinality(On(w, n)) = Cardinality(On(v, n))
  BY <1>1, <1>5, FS_Bijection DEF ExistsBijection
<1> QED BY <1>6 DEF v

(* The slowest worker is the slowest in any order.                           *)
LEMMA ReorderedCompute ==
  ASSUME NEW w \in Placements, NEW p \in Reorderings
  PROVE  ComputeTime(Reordered(w, p)) = ComputeTime(w)
<1> DEFINE times(u) == {Compute[Model[u[i]]] : i \in 1 .. Workers}
<1>1. times(Reordered(w, p)) \subseteq times(w)
  BY DEF Reordered, Reorderings
<1>2. ASSUME NEW j \in 1 .. Workers PROVE Compute[Model[w[j]]] \in times(Reordered(w, p))
  <2>1. PICK i \in Indices : p[i] = j
    BY DEF Reorderings
  <2>2. Reordered(w, p)[i] = w[j]
    BY <2>1 DEF Reordered
  <2> QED BY <2>1, <2>2
<1>3. times(Reordered(w, p)) = times(w)
  BY <1>1, <1>2
<1> QED BY <1>3 DEF ComputeTime

(* Where a pair of the reordered workers comes from.                         *)
Origin(p, q) == IF p[q[1]] < p[q[2]] THEN <<p[q[1]], p[q[2]]>> ELSE <<p[q[2]], p[q[1]]>>

(* Each pair of workers on two nodes comes from one pair, over the same link. *)
LEMMA ReorderedPairs ==
  ASSUME NEW w \in Placements, NEW p \in Reorderings
  PROVE  /\ \A q \in Crossing(Reordered(w, p)) :
              /\ Origin(p, q) \in Crossing(w)
              /\ Link(w, Origin(p, q)) = Link(Reordered(w, p), q)
         /\ \A q, r \in Crossing(Reordered(w, p)) : Origin(p, q) = Origin(p, r) => q = r
         /\ \A r \in Crossing(w) : \E q \in Crossing(Reordered(w, p)) : Origin(p, q) = r
<1> DEFINE v == Reordered(w, p)
<1>1. \A i \in Indices : p[i] \in Indices /\ v[i] = w[p[i]] /\ w[i] \in Nat /\ v[i] \in Nat
  BY DEF Reordered, Reorderings, Placements
<1>2. \A q \in Crossing(v) : /\ q = <<q[1], q[2]>> /\ q[1] \in Indices /\ q[2] \in Indices
                             /\ q[1] < q[2] /\ v[q[1]] # v[q[2]] /\ Traffic # 0
  BY DEF Crossing
<1>3. \A i, j \in Indices : Traffic # 0 /\ i < j /\ v[i] # v[j] => <<i, j>> \in Crossing(v)
  BY DEF Crossing
<1>4. \A i, j \in Indices : Traffic # 0 /\ i < j /\ w[i] # w[j] => <<i, j>> \in Crossing(w)
  BY DEF Crossing
<1>5. \A i, j \in Indices : p[i] = p[j] => i = j
  BY DEF Reorderings
<1>6. ASSUME NEW q \in Crossing(v)
      PROVE  Origin(p, q) \in Crossing(w) /\ Link(w, Origin(p, q)) = Link(v, q)
  <2> DEFINE a == p[q[1]]
             c == p[q[2]]
  <2>1. a \in Indices /\ c \in Indices /\ w[a] = v[q[1]] /\ w[c] = v[q[2]] /\ w[a] # w[c]
    BY <1>1, <1>2
  <2>2. a # c /\ Traffic # 0 /\ w[a] \in Nat /\ w[c] \in Nat
    BY <1>1, <1>2, <2>1
  <2>3. CASE a < c
    <3>1. Origin(p, q) = <<a, c>>
      BY <2>3 DEF Origin
    <3>2. Link(w, <<a, c>>) = Link(v, q)
      BY <2>1 DEF Link
    <3> QED BY <2>1, <2>2, <2>3, <3>1, <3>2, <1>4
  <2>4. CASE ~ (a < c)
    <3>1. Origin(p, q) = <<c, a>> /\ c < a
      BY <2>1, <2>2, <2>4 DEF Origin
    <3>2. Link(w, <<c, a>>) = Link(v, q)
      BY <2>1, <2>2 DEF Link
    <3> QED BY <2>1, <2>2, <3>1, <3>2, <1>4
  <2> QED BY <2>3, <2>4
<1>7. ASSUME NEW q \in Crossing(v), NEW r \in Crossing(v), Origin(p, q) = Origin(p, r) PROVE q = r
  <2>1. \/ p[q[1]] = p[r[1]] /\ p[q[2]] = p[r[2]]
        \/ p[q[1]] = p[r[2]] /\ p[q[2]] = p[r[1]]
    BY <1>7 DEF Origin
  <2>2. \/ q[1] = r[1] /\ q[2] = r[2]
        \/ q[1] = r[2] /\ q[2] = r[1]
    BY <1>2, <1>5, <2>1
  <2>3. q[1] \in Int /\ q[2] \in Int /\ r[1] \in Int /\ r[2] \in Int
    BY <1>2
  <2> QED BY <1>2, <2>2, <2>3
<1>8. ASSUME NEW r \in Crossing(w) PROVE \E q \in Crossing(v) : Origin(p, q) = r
  <2>1. /\ r = <<r[1], r[2]>> /\ r[1] \in Indices /\ r[2] \in Indices
        /\ r[1] < r[2] /\ w[r[1]] # w[r[2]] /\ Traffic # 0
    BY DEF Crossing
  <2>2. PICK i \in Indices : p[i] = r[1]
    BY <2>1 DEF Reorderings
  <2>3. PICK j \in Indices : p[j] = r[2]
    BY <2>1 DEF Reorderings
  <2>4. i # j /\ v[i] # v[j] /\ ~ (r[2] < r[1])
    BY <1>1, <2>1, <2>2, <2>3
  <2>5. CASE i < j
    <3>1. Origin(p, <<i, j>>) = r
      BY <2>1, <2>2, <2>3 DEF Origin
    <3> QED BY <1>3, <2>1, <2>4, <2>5, <3>1
  <2>6. CASE j < i
    <3>1. Origin(p, <<j, i>>) = r
      BY <2>1, <2>2, <2>3, <2>4 DEF Origin
    <3> QED BY <1>3, <2>1, <2>4, <2>6, <3>1
  <2> QED BY <2>4, <2>5, <2>6
<1> QED BY <1>6, <1>7, <1>8

(* A placement whose links are known keeps them.                             *)
LEMMA ReorderedConnected ==
  ASSUME NEW w \in Placements, NEW p \in Reorderings, NEW bandwidth, Connected(w, bandwidth)
  PROVE  Connected(Reordered(w, p), bandwidth)
BY ReorderedPairs DEF Connected

(* The cost of communication is a sum over the crossing pairs.               *)
LEMMA CostIsTotal ==
  ASSUME NEW w \in Placements, NEW bandwidth, Positive(bandwidth), Connected(w, bandwidth)
  PROVE  LET f == [p \in Crossing(w) |-> Traffic \div bandwidth[Link(w, p)]]
         IN /\ IsFiniteSet(Crossing(w)) /\ f \in [Crossing(w) -> Nat]
            /\ CommunicationCost(w, bandwidth) = Total(f, Crossing(w))
<1> DEFINE C == Crossing(w)
           f == [p \in C |-> Traffic \div bandwidth[Link(w, p)]]
<1>1. IsFiniteSet(C)
  <2>1. IsFiniteSet(1 .. Workers)
    BY FS_Interval
  <2>2. IsFiniteSet((1 .. Workers) \X (1 .. Workers))
    BY <2>1, FS_Product
  <2> QED BY <2>2, FS_Subset, FS_EmptySet DEF Crossing
<1>2. f \in [C -> Nat]
  <2> SUFFICES ASSUME NEW p \in C PROVE Traffic \div bandwidth[Link(w, p)] \in Nat
    OBVIOUS
  <2>1. bandwidth[Link(w, p)] \in Nat \ {0}
    BY DEF Positive, Connected
  <2> QED BY <2>1
<1>3. PICK g \in [SUBSET C -> Nat] : AddsUp(g, f, C)
  BY <1>1, <1>2, SumExists
<1>4. \A h : AddsUp(h, f, C) => h = g
  BY <1>1, <1>3, SumIsOne
<1>5. Total(f, C) = g[C]
  BY <1>3, <1>4, TotalIsSum
<1>6. \A x \in C : f[x] = Traffic \div bandwidth[Link(w, x)]
  OBVIOUS
<1> HIDE DEF f, C
<1>7. CommunicationCost(w, bandwidth) = g[C]
  <2> DEFINE sums(h) == h = [s \in SUBSET C |->
                 IF s = {} THEN 0 ELSE LET x == CHOOSE x \in s : TRUE
                                       IN (Traffic \div bandwidth[Link(w, x)]) + h[s \ {x}]]
  <2>1. \A s \in SUBSET C : s # {} =>
          f[CHOOSE x \in s : TRUE] = Traffic \div bandwidth[Link(w, CHOOSE x \in s : TRUE)]
    BY <1>6
  <2>2. ASSUME NEW h PROVE sums(h) <=> AddsUp(h, f, C)
    BY <2>1 DEF AddsUp, Picked
  <2>3. sums(g) /\ \A h : sums(h) => h = g
    BY <1>3, <1>4, <2>2
  <2>4. (CHOOSE h : sums(h)) = g
    <3> HIDE DEF sums
    <3> QED BY <2>3
  <2>5. CommunicationCost(w, bandwidth) = (CHOOSE h : sums(h))[C]
    BY DEF CommunicationCost, MapThenSumSet, MapThenFoldSet, C
  <2> QED BY <2>4, <2>5
<1> QED BY <1>1, <1>2, <1>5, <1>7 DEF C, f

(* The sum is over the same numbers.                                         *)
LEMMA ReorderedCost ==
  ASSUME NEW w \in Placements, NEW p \in Reorderings, NEW bandwidth,
         Positive(bandwidth), Connected(w, bandwidth)
  PROVE  /\ CommunicationCost(Reordered(w, p), bandwidth) = CommunicationCost(w, bandwidth)
         /\ CommunicationCost(w, bandwidth) \in Nat
<1> DEFINE v == Reordered(w, p)
           f == [q \in Crossing(v) |-> Traffic \div bandwidth[Link(v, q)]]
           e == [q \in Crossing(w) |-> Traffic \div bandwidth[Link(w, q)]]
           b == [q \in Crossing(v) |-> Origin(p, q)]
<1>1. v \in Placements /\ Connected(v, bandwidth)
  <2>1. v \in Placements
    BY DEF Reordered, Reorderings, Placements
  <2>2. Connected(v, bandwidth)
    BY ReorderedConnected
  <2> QED BY <2>1, <2>2
<1>2. /\ IsFiniteSet(Crossing(v)) /\ f \in [Crossing(v) -> Nat]
      /\ CommunicationCost(v, bandwidth) = Total(f, Crossing(v))
  <2> HIDE DEF v
  <2> QED BY <1>1, CostIsTotal
<1>3. /\ IsFiniteSet(Crossing(w)) /\ e \in [Crossing(w) -> Nat]
      /\ CommunicationCost(w, bandwidth) = Total(e, Crossing(w))
  BY CostIsTotal
<1>4. /\ b \in [Crossing(v) -> Crossing(w)]
      /\ \A q, r \in Crossing(v) : b[q] = b[r] => q = r
      /\ \A r \in Crossing(w) : \E q \in Crossing(v) : b[q] = r
      /\ \A q \in Crossing(v) : f[q] = e[b[q]]
  BY ReorderedPairs
<1> HIDE DEF v, f, e, b
<1>5. Total(f, Crossing(v)) = Total(e, Crossing(w)) /\ Total(f, Crossing(v)) \in Nat
  BY <1>2, <1>3, <1>4, SameTotal
<1> QED BY <1>2, <1>3, <1>5 DEF v

(* The slowest of the workers exists.                                        *)
LEMMA ComputeIsTime ==
  ASSUME NEW w \in Placements, \A i \in Indices : Model[w[i]] \in DOMAIN Compute
  PROVE  ComputeTime(w) \in Nat
<1> DEFINE c(i) == Compute[Model[w[i]]]
           largest(j, k) == \A i \in 1 .. k : c(i) <= c(j)
           T == {k \in Indices : ~ \E j \in 1 .. k : largest(j, k)}
<1>1. \A i \in Indices : c(i) \in Nat
  OBVIOUS
<1> HIDE DEF c
<1>2. T = {}
  <2> SUFFICES ASSUME T # {} PROVE FALSE
    OBVIOUS
  <2>1. PICK k \in T : \A m \in T : k <= m
    <3>1. T \in SUBSET Nat
      OBVIOUS
    <3> HIDE DEF T
    <3> QED BY <3>1, LeastNat
  <2>2. k # 1
    BY <1>1
  <2>3. k - 1 \in Indices /\ ~ (k <= k - 1) /\ k \in Nat
    BY <2>2
  <2>4. PICK j \in 1 .. k - 1 : largest(j, k - 1)
    BY <2>1, <2>3
  <2>5. \A i \in 1 .. k : i = k \/ i \in 1 .. k - 1
    BY <2>3
  <2>6. c(j) \in Nat /\ c(k) \in Nat /\ j \in 1 .. k /\ k \in 1 .. k
    BY <1>1, <2>3
  <2>7. CASE c(j) <= c(k)
    <3>1. largest(k, k)
      BY <1>1, <2>4, <2>5, <2>6, <2>7
    <3> QED BY <2>6, <3>1
  <2>8. CASE ~ (c(j) <= c(k))
    <3>1. c(k) <= c(j)
      BY <2>6, <2>8
    <3>2. \A i \in 1 .. k : c(i) <= c(j)
      BY <2>4, <2>5, <3>1
    <3>3. largest(j, k)
      BY <3>2
    <3> QED BY <2>6, <3>3
  <2> QED BY <2>7, <2>8
<1>3. PICK j \in Indices : \A i \in Indices : c(i) <= c(j)
  <2>1. Workers \in Indices
    OBVIOUS
  <2>2. \E j \in 1 .. Workers : largest(j, Workers)
    <3> HIDE DEF largest
    <3> QED BY <1>2, <2>1
  <2> QED BY <2>2
<1> DEFINE times == {c(i) : i \in Indices}
<1>4. ComputeTime(w) = CHOOSE max \in times : \A x \in times : max >= x
  BY DEF ComputeTime, Max, c
<1>5. c(j) \in times /\ \A x \in times : c(j) >= x
  BY <1>1, <1>3
<1>6. times \subseteq Nat
  BY <1>1
<1> HIDE DEF times
<1>7. ComputeTime(w) \in times
  BY <1>4, <1>5
<1> QED BY <1>6, <1>7

(* What a policy needs to know of a placement to judge it.                   *)
Judged(w, policy, bandwidth) ==
  /\ policy \in {"workload_compute", "combined"} => \A i \in Indices : Model[w[i]] \in DOMAIN Compute
  /\ policy \in {"topology_only", "combined"} => Connected(w, bandwidth)

LEMMA ReorderedEstimate ==
  ASSUME NEW w \in Placements, NEW p \in Reorderings, NEW policy, NEW bandwidth,
         Positive(bandwidth), Judged(w, policy, bandwidth)
  PROVE  /\ Estimate(Reordered(w, p), policy, bandwidth) = Estimate(w, policy, bandwidth)
         /\ Estimate(w, policy, bandwidth) \in Nat
<1>1. ComputeTime(Reordered(w, p)) = ComputeTime(w)
  BY ReorderedCompute
<1>2. CASE policy = "workload_compute"
  BY <1>1, <1>2, ComputeIsTime DEF Estimate, Judged
<1>3. CASE policy = "topology_only"
  BY <1>3, ReorderedCost DEF Estimate, Judged
<1>4. CASE policy = "combined"
  <2>1. ComputeTime(w) \in Nat
    BY <1>4, ComputeIsTime DEF Judged
  <2>2. /\ CommunicationCost(Reordered(w, p), bandwidth) = CommunicationCost(w, bandwidth)
        /\ CommunicationCost(w, bandwidth) \in Nat
    BY <1>4, ReorderedCost DEF Judged
  <2> QED BY <1>1, <1>4, <2>1, <2>2 DEF Estimate
<1>5. CASE policy \notin {"workload_compute", "topology_only", "combined"}
  BY <1>5 DEF Estimate
<1> QED BY <1>2, <1>3, <1>4, <1>5

(* The search's own answer: the first of the cheapest candidates.            *)
LEMMA ChosenIsLeast ==
  ASSUME NEW call, NEW bandwidth, Candidates(call, bandwidth) # {}, ~ TooMany(call),
         \A w \in Candidates(call, bandwidth) : Estimate(w, call.policy, bandwidth) \in Nat
  PROVE  LET chosen == ChoosePlacement(call, bandwidth)
         IN /\ chosen \in Candidates(call, bandwidth)
            /\ \A w \in Candidates(call, bandwidth) \ {chosen} :
                 \/ Estimate(chosen, call.policy, bandwidth) < Estimate(w, call.policy, bandwidth)
                 \/ /\ Estimate(chosen, call.policy, bandwidth) = Estimate(w, call.policy, bandwidth)
                    /\ Before(chosen, w)
<1> DEFINE C == Candidates(call, bandwidth)
           cost(w) == Estimate(w, call.policy, bandwidth)
           best(w) == \A v \in C \ {w} : cost(w) < cost(v) \/ (cost(w) = cost(v) /\ Before(w, v))
<1>1. C \subseteq Placements
  BY DEF Candidates, Combinations, Eligible, Placements
<1>2. C # {} /\ \A w \in C : cost(w) \in Nat
  OBVIOUS
<1>3. ChoosePlacement(call, bandwidth) = CHOOSE w \in C : best(w)
  BY DEF ChoosePlacement
<1> HIDE DEF C, cost
<1> DEFINE K == {cost(w) : w \in C}
<1>4. PICK k \in K : \A m \in K : k <= m
  <2>1. K # {} /\ K \in SUBSET Nat
    BY <1>2
  <2> HIDE DEF K
  <2> QED BY <2>1, LeastNat
<1> DEFINE B == {w \in C : cost(w) = k}
<1>5. PICK w \in B : \A v \in B \ {w} : Before(w, v)
  <2>1. B # {} /\ B \in SUBSET Placements
    BY <1>1, <1>4
  <2> HIDE DEF B
  <2> QED BY <2>1, FirstPlacement
<1>6. w \in C /\ best(w)
  <2>1. w \in C /\ cost(w) = k /\ k \in Nat
    BY <1>2, <1>5
  <2>2. ASSUME NEW v \in C \ {w} PROVE cost(w) < cost(v) \/ (cost(w) = cost(v) /\ Before(w, v))
    <3>1. cost(v) \in Nat /\ k <= cost(v)
      BY <1>2, <1>4
    <3>2. CASE cost(v) = k
      BY <1>5, <2>1, <3>2
    <3>3. CASE cost(v) # k
      BY <2>1, <3>1, <3>3
    <3> QED BY <3>2, <3>3
  <2> QED BY <2>1, <2>2
<1>7. (CHOOSE v \in C : best(v)) \in C /\ best(CHOOSE v \in C : best(v))
  <2> HIDE DEF best
  <2> QED BY <1>6
<1> QED BY <1>3, <1>7 DEF C, cost

-----------------------------------------------------------------------------
(* The search.                                                               *)

(* What is possible in some order is possible in the order the search takes. *)
LEMMA SearchCoversAll ==
  ASSUME setting \in Settings, NEW w \in [1 .. Workers -> Nodes], Possible(w)
  PROVE  \E p \in Reorderings :
           /\ Reordered(w, p) \in Candidates(setting, Bandwidth(costs))
           /\ Reordered(w, p) = w \/ Before(Reordered(w, p), w)
<1> DEFINE bandwidth == Bandwidth(costs)
<1>1. w \in Placements
  BY DEF Placements
<1>2. PICK p \in Reorderings :
        /\ \A i \in 1 .. Workers - 1 : Reordered(w, p)[i] <= Reordered(w, p)[i + 1]
        /\ Reordered(w, p) = w \/ Before(Reordered(w, p), w)
  BY <1>1, SortedExists
<1> DEFINE v == Reordered(w, p)
<1>3. \A n \in Nodes : Cardinality(On(v, n)) <= setting.gpus[n]
  BY <1>1, ReorderedOn DEF Possible
<1>4. ASSUME NEW i \in Indices PROVE w[i] \in Eligible(setting)
  <2>1. w[i] \in Nodes /\ setting.gpus[w[i]] \in Nat
    BY SettingsAssumption
  <2>2. IsFiniteSet(On(w, w[i])) /\ i \in On(w, w[i])
    BY FS_Interval, FS_Subset DEF On
  <2>3. Cardinality(On(w, w[i])) \in Nat /\ Cardinality(On(w, w[i])) # 0
    BY <2>2, FS_CardinalityType, FS_EmptySet
  <2>4. setting.gpus[w[i]] > 0
    <3>1. Cardinality(On(w, w[i])) <= setting.gpus[w[i]]
      BY <2>1 DEF Possible
    <3> QED BY <2>1, <2>3, <3>1
  <2> QED BY <2>1, <2>4 DEF Eligible, Possible
<1>5. v \in Combinations(Eligible(setting))
  <2>1. v \in [1 .. Workers -> Eligible(setting)]
    BY <1>4 DEF Reordered, Reorderings
  <2> QED BY <1>2, <2>1 DEF Combinations
<1>6. setting.policy \in {"topology_only", "combined"} => Connected(v, bandwidth)
  BY <1>1, ReorderedConnected DEF Possible
<1> QED BY <1>2, <1>3, <1>5, <1>6 DEF Candidates

(* What the search looks at is possible.                                     *)
LEMMA CandidatesArePossible ==
  ASSUME setting \in Settings, NEW w \in Candidates(setting, Bandwidth(costs))
  PROVE  w \in [1 .. Workers -> Nodes] /\ Possible(w)
BY DEF Candidates, Combinations, Eligible, Possible

(* What is possible has an estimate ...                                      *)
LEMMA PossibleIsJudged ==
  ASSUME NEW w \in [1 .. Workers -> Nodes], Possible(w)
  PROVE  w \in Placements /\ Judged(w, setting.policy, Bandwidth(costs))
BY DEF Possible, Judged, Placements, Indices

(* ... and the estimate is a number.                                         *)
LEMMA EstimateIsTime ==
  ASSUME NEW w \in Placements, NEW policy, NEW bandwidth,
         Positive(bandwidth), Judged(w, policy, bandwidth)
  PROVE  Estimate(w, policy, bandwidth) \in Nat
BY SortedExists, ReorderedEstimate

(* The search ends with the first of the best placements, or there is none.  *)
LEMMA SearchIsRight ==
  ASSUME PlanInv, Planned
  PROVE  /\ plan = NoPlan => TooMany(setting) \/ \A w \in [1 .. Workers -> Nodes] : ~ Possible(w)
         /\ plan # NoPlan =>
              /\ Possible(plan)
              /\ \A w \in [1 .. Workers -> Nodes] \ {plan} : Possible(w) =>
                   \/ Estimate(plan, setting.policy, Bandwidth(costs))
                      < Estimate(w, setting.policy, Bandwidth(costs))
                   \/ /\ Estimate(plan, setting.policy, Bandwidth(costs))
                         = Estimate(w, setting.policy, Bandwidth(costs))
                      /\ Before(plan, w)
<1> DEFINE bandwidth == Bandwidth(costs)
           cost(w) == Estimate(w, setting.policy, bandwidth)
           C == Candidates(setting, bandwidth)
<1>1. setting \in Settings /\ Positive(bandwidth) /\ plan = ChoosePlacement(setting, bandwidth)
  BY DEF PlanInv
<1>2. ASSUME NEW w \in [1 .. Workers -> Nodes], Possible(w)
      PROVE  \E v \in C : cost(v) = cost(w) /\ (v = w \/ Before(v, w))
  <2>1. PICK p \in Reorderings : /\ Reordered(w, p) \in C
                                 /\ Reordered(w, p) = w \/ Before(Reordered(w, p), w)
    BY <1>1, <1>2, SearchCoversAll
  <2>2. w \in Placements /\ Judged(w, setting.policy, bandwidth)
    BY <1>2, PossibleIsJudged
  <2>3. cost(Reordered(w, p)) = cost(w)
    BY <1>1, <2>2, ReorderedEstimate
  <2> QED BY <2>1, <2>3
<1>3. CASE C = {} \/ TooMany(setting)
  <2>1. plan = NoPlan
    BY <1>1, <1>3 DEF ChoosePlacement
  <2> QED BY <1>2, <1>3, <2>1
<1>4. CASE C # {} /\ ~ TooMany(setting)
  <2>1. ASSUME NEW w \in C PROVE cost(w) \in Nat
    <3>1. w \in Placements /\ Judged(w, setting.policy, bandwidth)
      BY <1>1, CandidatesArePossible, PossibleIsJudged
    <3> QED BY <1>1, <3>1, EstimateIsTime
  <2>2. /\ plan \in C
        /\ \A w \in C \ {plan} : cost(plan) < cost(w) \/ (cost(plan) = cost(w) /\ Before(plan, w))
    BY <1>1, <1>4, <2>1, ChosenIsLeast
  <2>3. plan \in [1 .. Workers -> Nodes] /\ Possible(plan)
    BY <1>1, <2>2, CandidatesArePossible
  <2>4. plan # NoPlan
    <3>1. DOMAIN plan = 1 .. Workers /\ 1 \in 1 .. Workers /\ 1 \notin DOMAIN NoPlan
      BY <2>3, WorkersAssumption DEF NoPlan
    <3> QED BY <3>1
  <2>5. ASSUME NEW w \in [1 .. Workers -> Nodes] \ {plan}, Possible(w)
        PROVE  cost(plan) < cost(w) \/ (cost(plan) = cost(w) /\ Before(plan, w))
    <3>1. PICK v \in C : cost(v) = cost(w) /\ (v = w \/ Before(v, w))
      BY <1>2, <2>5
    <3>2. v \in Placements /\ w \in Placements /\ plan \in Placements
      BY <1>1, <2>3, CandidatesArePossible DEF Placements
    <3>3. CASE v = plan
      BY <2>5, <3>1, <3>3
    <3>4. CASE v # plan
      BY <2>2, <3>1, <3>2, <3>4, BeforeIsTransitive
    <3> QED BY <3>3, <3>4
  <2> QED BY <2>3, <2>4, <2>5
<1> QED BY <1>3, <1>4

(* A plan is possible, and no assignment of the workers to the nodes, in     *)
(* whatever order they are named, is better, or as good and named first.     *)
THEOREM BestPlan == Spec => []PlanIsBest
<1>1. IInv => PlanIsBest
  BY SearchIsRight DEF IInv, PlanIsBest
<1> QED BY <1>1, Inductive, PTL

(* A workload that some assignment of its workers could place is placed,     *)
(* unless the search is too large.                                           *)
THEOREM FoundPlan == Spec => []PlanIsFound
<1>1. IInv => PlanIsFound
  BY SearchIsRight DEF IInv, PlanIsFound
<1> QED BY <1>1, Inductive, PTL
=============================================================================
