----------------------------- MODULE Placement -----------------------------
(* policy.py: choose_placement(), an exhaustive search over the placements   *)
(* of a workload's workers on nodes.  Node names are numbers, in the order   *)
(* of the names; a placement is the sequence of its workers' nodes.  Times   *)
(* are integers: Traffic is a multiple of every bandwidth.                   *)
EXTENDS Integers, FiniteSets, FiniteSetsExt

CONSTANTS Nodes,          \* names of the nodes, numbers
          Model,          \* gpu_model of each node
          Memory,         \* memory_gb_per_gpu of each node
          Workers,        \* workload.workers
          Compute,        \* workload.compute_seconds_by_gpu
          Traffic,        \* workload.cross_node_gb_per_pair
          MaxCandidates   \* max_candidates

ASSUME NodesAssumption == Nodes \subseteq Nat /\ IsFiniteSet(Nodes)
ASSUME WorkersAssumption == Workers \in Nat \ {0}
ASSUME WorkloadAssumption == Traffic \in Nat /\ \A m \in DOMAIN Compute : Compute[m] \in Nat

Links == {l \in Nodes \X Nodes : l[1] < l[2]}
NoPlan == <<>>

(* Nodes that may be used.  A call is a record of the policy, accelerator it *)
(* asks for, the GPUs that each node has available and the memory per worker.*)
Eligible(call) ==
  {n \in Nodes :
     /\ call.gpus[n] > 0 /\ Memory[n] >= call.memory
     /\ call.policy \in {"workload_compute", "combined"} => Model[n] \in DOMAIN Compute
     /\ call.policy = "accelerator_type" => Model[n] = call.accelerator}

(* combinations_with_replacement of the nodes in the order of their names. *)
Combinations(eligible) ==
  {w \in [1 .. Workers -> eligible] : \A i \in 1 .. Workers - 1 : w[i] <= w[i + 1]}

On(w, n) == {i \in 1 .. Workers : w[i] = n}

(* Pairs of workers whose traffic crosses nodes. *)
Crossing(w) == IF Traffic = 0 THEN {}
               ELSE {p \in (1 .. Workers) \X (1 .. Workers) : p[1] < p[2] /\ w[p[1]] # w[p[2]]}

Link(w, p) == IF w[p[1]] < w[p[2]] THEN <<w[p[1]], w[p[2]]>> ELSE <<w[p[2]], w[p[1]]>>

(* Every link that w communicates over has a bandwidth. *)
Connected(w, bandwidth) == \A p \in Crossing(w) : Link(w, p) \in DOMAIN bandwidth

CommunicationCost(w, bandwidth) ==
  MapThenSumSet(LAMBDA p : Traffic \div bandwidth[Link(w, p)], Crossing(w))

ComputeTime(w) == Max({Compute[Model[w[i]]] : i \in 1 .. Workers})

Estimate(w, policy, bandwidth) ==
  CASE policy = "workload_compute" -> ComputeTime(w)
    [] policy = "topology_only"    -> CommunicationCost(w, bandwidth)
    [] policy = "combined"         -> ComputeTime(w) + CommunicationCost(w, bandwidth)
    [] OTHER                       -> 0

(* Mutant: a node takes any number of workers. *)
CandidatesUnlimited(call, bandwidth) ==
  {w \in Combinations(Eligible(call)) :
     call.policy \in {"topology_only", "combined"} => Connected(w, bandwidth)}

(* Mutant: no two workers on one node. *)
CandidatesSpread(call, bandwidth) ==
  {w \in Combinations(Eligible(call)) :
     /\ \A n \in Nodes : Cardinality(On(w, n)) <= 1
     /\ call.policy \in {"topology_only", "combined"} => Connected(w, bandwidth)}

Candidates(call, bandwidth) ==
  {w \in Combinations(Eligible(call)) :
     /\ \A n \in Nodes : Cardinality(On(w, n)) <= call.gpus[n]
     /\ call.policy \in {"topology_only", "combined"} => Connected(w, bandwidth)}

(* Order of the node names of two placements. *)
Before(v, w) == \E i \in 1 .. Workers : v[i] < w[i] /\ \A j \in 1 .. i - 1 : v[j] = w[j]

TooMany(call) ==
  Cardinality(Combinations(Eligible(call))) > MaxCandidates

(* NoPlan stands for the ValueError of a search that is too large or finds   *)
(* nothing.                                                                  *)
ChoosePlacement(call, bandwidth) ==
  LET candidates == Candidates(call, bandwidth)
      cost(w) == Estimate(w, call.policy, bandwidth)
  IN IF candidates = {} \/ TooMany(call) THEN NoPlan
     ELSE CHOOSE w \in candidates : \A v \in candidates \ {w} :
            cost(w) < cost(v) \/ (cost(w) = cost(v) /\ Before(w, v))
=============================================================================
