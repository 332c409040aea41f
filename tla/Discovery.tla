----------------------------- MODULE Discovery ------------------------------
(* Calls of the driver that begin with the live nodes of Ray's listing:      *)
(*   "gpu"     inventory.py, discover_ray_gpu_inventory                      *)
(*   "planner" inventory.py, discover_planner_nodes, and the names' check of  *)
(*             policy.py, choose_placement                                   *)
(*   "nic"     nic_inventory.py, discover_nic_inventory                      *)
(*   "links"   links.py, measure_ray_links, up to the batches of its probes  *)
(* The first three pin a probe to each node; nodes die and Ray fails, stops  *)
(* or misplaces probes meanwhile.                                            *)
EXTENDS NvLinks, NicReading, Sequences

CONSTANTS NodeIds,     \* Ray node IDs
          Scenarios,   \* a call, and what each live node advertises to Ray;
                       \* the names in markers are integers, for their order
          Hardware(_, _),   \* what a probe may find in a scenario on a node
          Faults       \* "misplaced", "cancel": of Ray; "interrupt": of the user

ASSUME DiscoveryFaults == Faults \subseteq {"misplaced", "cancel", "interrupt"}

ASSUME NodesAssumption == IsFiniteSet(NodeIds)

(* The markers and the GPUs that a listed node advertises.                   *)
IsOffer(offer) ==
  IsFiniteSet(offer.markers) /\ offer.markers \subseteq Int /\ offer.gpus \in Nat

IsGpuHost(host) ==
  /\ host.devices \in Seq(STRING)
  /\ DOMAIN host.links \subseteq Nat \ {Off}
  /\ \A g \in DOMAIN host.links : IsFiniteSet(DOMAIN host.links[g])
  /\ TwoEnded(host.links)

ASSUME ScenariosAssumption ==
  \A s \in Scenarios :
    /\ DOMAIN s.offers \subseteq NodeIds
    /\ \A n \in DOMAIN s.offers :
         /\ IsOffer(s.offers[n])
         /\ \A host \in Hardware(s, n) : IF s.kind = "nic" THEN IsNicHost(host) ELSE IsGpuHost(host)

(* ProbeParameters checks max_concurrent_pairs.                              *)
ASSUME LimitAssumption == \A s \in Scenarios : s.kind = "links" => s.limit \in Nat \ {0}

VARIABLES
  scenario, alive,
  (* the call: its statement, its list of nodes, the number of its refs and  *)
  (* of those whose cancellation it has tried, what it returns, and whether  *)
  (* an interrupt cut its cleanup short                                      *)
  step, metadata, refs, cancelled, inventory, nodes, cut,
  (* Ray, per probe: its state and its result; requests to cancel it; and    *)
  (* the probes that have no request, because it raised or because there is  *)
  (* no reference to the probe                                               *)
  probe, result, cancelling, missed,
  (* directions in no batch yet, the place of the inner loop among them, the *)
  (* batch that grows, and the batches that are measured                     *)
  remaining, at, batch, measured

call  == <<step, metadata, refs, cancelled, inventory, nodes, cut>>
ray   == <<alive, probe, result, cancelling, missed>>
batches == <<remaining, at, batch, measured>>
vars  == <<scenario, call, ray, batches>>

offers == scenario.offers   \* resources of the nodes
Ends == {"returned", "raised"}

TypeOK ==
  /\ scenario \in Scenarios /\ alive \subseteq NodeIds
  /\ step \in {"list", "submit", "get", "cancel", "convert", "plan", "batch"} \cup Ends
  /\ Len(metadata) <= Cardinality(NodeIds)
  /\ refs \in 0 .. Len(metadata) /\ cancelled \in 0 .. refs /\ cut \in BOOLEAN
  /\ probe \in [NodeIds -> {"none", "queued", "running", "done", "failed"}]
  /\ cancelling \subseteq NodeIds /\ missed \subseteq NodeIds

Init ==
  /\ scenario \in Scenarios /\ alive = DOMAIN scenario.offers
  /\ step = "list" /\ metadata = <<>> /\ refs = 0 /\ cancelled = 0
  /\ inventory = <<>> /\ nodes = <<>> /\ cut = FALSE
  /\ probe = [n \in NodeIds |-> "none"] /\ result = [n \in NodeIds |-> {}]
  /\ cancelling = {} /\ missed = {}
  /\ remaining = <<>> /\ at = 1 /\ batch = <<>> /\ measured = <<>>

-----------------------------------------------------------------------------
(* The listing.                                                              *)

Goto(where) == step' = where /\ UNCHANGED <<metadata, refs, cancelled, inventory, nodes, cut>>

(* _node_marker raises unless there is one marker. *)
HasMarker(n) == Cardinality(offers[n].markers) = 1
NameOf(n)    == CHOOSE name \in offers[n].markers : TRUE

Orders(S) ==
  {s \in [1 .. Cardinality(S) -> S] : \A i, j \in DOMAIN s : i # j => s[i] # s[j]}
ByName(S) ==
  {s \in Orders(S) : \A i, j \in DOMAIN s : i < j => NameOf(s[i]) <= NameOf(s[j])}

(* The nodes of the listing that discover_nic_inventory and                  *)
(* _live_topology_nodes take, or none when they raise.                       *)
Marked == {n \in alive : offers[n].markers # {}}
MarkedInOrder ==
  /\ \A n \in Marked : HasMarker(n)
  /\ \A n, m \in Marked : NameOf(n) = NameOf(m) => n = m

ListNic ==
  /\ step = "list" /\ scenario.kind = "nic"
  /\ \/ /\ MarkedInOrder /\ Marked # {}
        /\ metadata' \in ByName(Marked)
        /\ step' = "submit"
        /\ UNCHANGED <<refs, cancelled, inventory, nodes, cut>>
     \/ ~ (MarkedInOrder /\ Marked # {}) /\ Goto("raised")
  /\ UNCHANGED <<scenario, ray, batches>>

(* The GPU call looks at the markers of a node when it comes to it. *)
ListGpus ==
  /\ step = "list" /\ scenario.kind \in {"gpu", "planner"}
  /\ LET listed == {n \in alive : offers[n].gpus > 0}
     IN \/ /\ listed # {}
           /\ metadata' \in Orders(listed)
           /\ step' = "submit"
           /\ UNCHANGED <<refs, cancelled, inventory, nodes, cut>>
        \/ listed = {} /\ Goto("raised")
  /\ UNCHANGED <<scenario, ray, batches>>

-----------------------------------------------------------------------------
(* The probes.                                                               *)

IsNic == scenario.kind = "nic"

(* NIC discovery cancels what it has submitted, GPU discovery does not. *)
Fail == Goto(IF IsNic THEN "cancel" ELSE "raised")

Acceptable(n) == IsNic \/ (HasMarker(n) /\ offers[n].integral /\ offers[n].gpus >= 1)

Launch(n) ==
  /\ step = "submit" /\ Acceptable(n)
  /\ probe' = [probe EXCEPT ![n] = IF n \in alive THEN "queued" ELSE "failed"]

Submit ==
  /\ Launch(metadata[refs + 1])
  /\ refs' = refs + 1
  /\ step' = IF refs' = Len(metadata) THEN "get" ELSE "submit"
  /\ UNCHANGED <<scenario, metadata, cancelled, inventory, nodes, cut, alive, result,
                 cancelling, missed, batches>>

(* remote() does its work, but its reference does not get into the list. *)
LaunchUnkept(n) ==
  /\ Launch(n)
  /\ missed' = missed \cup {n}
  /\ UNCHANGED <<alive, result, cancelling>>

SubmitRaises ==
  /\ step = "submit" /\ Fail
  /\ UNCHANGED ray \/ LaunchUnkept(metadata[refs + 1])
  /\ UNCHANGED <<scenario, batches>>

(* ray.get raises the error of a probe, or its timeout. *)
GetRaises ==
  /\ step = "get" /\ Fail
  /\ UNCHANGED <<scenario, ray, batches>>

(* What a probe returns besides the ID of the node it ran on. *)
Reads(host) ==
  IF IsNic THEN Collect(host)
  ELSE [devices |-> host.devices, connections |-> Connections(host.links)]

Answer(n) == CHOOSE a \in result[n] : TRUE

(* Mutant: a probe is believed wherever it ran. *)
RightNodesBelieved(s) == TRUE

(* Every probe ran on the node it was pinned to. *)
RightNodes(s) == \A i \in DOMAIN s : Answer(s[i]).node = s[i]

GetReturns ==
  /\ step = "get" /\ \A i \in DOMAIN metadata : probe[metadata[i]] = "done"
  /\ \/ ~RightNodes(metadata) /\ Goto("raised")
     \/ /\ RightNodes(metadata)
        /\ \E s \in ByName({metadata[i] : i \in DOMAIN metadata}) :
             inventory' = [i \in DOMAIN s |->
               [id |-> s[i], name |-> NameOf(s[i]), configured |-> offers[s[i]].gpus,
                read |-> Reads(Answer(s[i]).host)]]
        /\ step' = IF scenario.kind = "planner" THEN "convert" ELSE "returned"
        /\ UNCHANGED <<metadata, refs, cancelled, nodes, cut>>
  /\ UNCHANGED <<scenario, ray, batches>>

(* The loop over the refs; the error of one cancellation is dropped. *)
Cancel ==
  /\ step = "cancel" /\ cancelled < refs
  /\ LET n == metadata[cancelled + 1]
     IN \/ cancelling' = cancelling \cup {n} /\ UNCHANGED missed
        \/ "cancel" \in Faults /\ missed' = missed \cup {n} /\ UNCHANGED cancelling
  /\ cancelled' = cancelled + 1
  /\ UNCHANGED <<scenario, step, metadata, refs, inventory, nodes, cut, alive, probe, result, batches>>

(* Mutant: the error of one cancellation ends the loop. *)
CancelsDoneEarly ==
  /\ step = "cancel" /\ Goto("raised")
  /\ cancelled = refs \/ \E i \in 1 .. cancelled : metadata[i] \in missed
  /\ UNCHANGED <<scenario, ray, batches>>

CancelsDone ==
  /\ step = "cancel" /\ cancelled = refs /\ Goto("raised")
  /\ UNCHANGED <<scenario, ray, batches>>

(* KeyboardInterrupt, which the cleanup of NIC discovery does not catch      *)
(* while it runs.                                                            *)
Interrupt ==
  /\ "interrupt" \in Faults
  /\ \/ step \in {"submit", "get"} /\ Fail /\ UNCHANGED ray
     \/ step = "submit" /\ Fail /\ LaunchUnkept(metadata[refs + 1])
     \/ /\ step = "cancel"
        /\ step' = "raised" /\ cut' = TRUE
        /\ UNCHANGED <<metadata, refs, cancelled, inventory, nodes, ray>>
  /\ UNCHANGED <<scenario, batches>>

-----------------------------------------------------------------------------
(* Planner nodes.                                                            *)

(* Mutant: Ray's capacity is not compared with the devices. *)
IsPlannerNodeTrusting(item) ==
  /\ item.read.devices # <<>>
  /\ \A i \in DOMAIN item.read.devices : item.read.devices[i] = item.read.devices[1]

(* as_planner_node raises for other items; a device is its model with its    *)
(* memory.                                                                   *)
IsPlannerNode(item) ==
  /\ item.read.devices # <<>>
  /\ \A i \in DOMAIN item.read.devices : item.read.devices[i] = item.read.devices[1]
  /\ item.configured <= Len(item.read.devices)

(* discover_planner_nodes converts every item ...                            *)
Convert ==
  /\ step = "convert"
  /\ \/ /\ \A i \in DOMAIN inventory : IsPlannerNode(inventory[i])
        /\ nodes' = [i \in DOMAIN inventory |->
             [name |-> inventory[i].name, model |-> inventory[i].read.devices[1],
              gpus |-> inventory[i].configured]]
        /\ step' = "plan"
     \/ /\ \E i \in DOMAIN inventory : ~IsPlannerNode(inventory[i])
        /\ step' = "raised" /\ UNCHANGED nodes
  /\ UNCHANGED <<scenario, metadata, refs, cancelled, inventory, cut, ray, batches>>

(* ... and choose_placement, called with the nodes, refuses two of one name. *)
CheckNames ==
  /\ step = "plan"
  /\ Goto(IF \A i, j \in DOMAIN nodes : nodes[i].name = nodes[j].name => i = j
          THEN "returned" ELSE "raised")
  /\ UNCHANGED <<scenario, ray, batches>>

-----------------------------------------------------------------------------
(* Link measurement.                                                         *)

(* list(permutations(s, 2)) *)
Directions(s) ==
  LET m == Len(s)
      other(i, j) == IF j < i THEN j ELSE j + 1
      first(k)  == ((k - 1) \div (m - 1)) + 1
      second(k) == ((k - 1) % (m - 1)) + 1
  IN [k \in 1 .. m * (m - 1) |-> <<s[first(k)], s[other(first(k), second(k))]>>]

ListLinks ==
  /\ step = "list" /\ scenario.kind = "links"
  /\ LET live == {NameOf(n) : n \in Marked}
         selected == IF scenario.wanted = {} THEN live ELSE scenario.wanted
     IN \/ /\ MarkedInOrder
           /\ selected \subseteq live /\ Cardinality(selected) >= 2
           /\ \E s \in Orders(selected) :
                /\ \A i, j \in DOMAIN s : i < j => s[i] < s[j]
                /\ remaining' = Directions(s)
           /\ Goto("batch")
        \/ /\ ~ (MarkedInOrder /\ selected \subseteq live /\ Cardinality(selected) >= 2)
           /\ Goto("raised") /\ UNCHANGED remaining
  /\ UNCHANGED <<scenario, ray, at, batch, measured>>

NodesOf(pairs) == {pairs[i][1] : i \in DOMAIN pairs} \cup {pairs[i][2] : i \in DOMAIN pairs}

(* Mutant: a node may be the target of several probes of a batch. *)
FitsSource(pairs, pair, limit) == Len(pairs) < limit /\ pair[1] \notin NodesOf(pairs)

Fits(pairs, pair, limit) ==
  Len(pairs) < limit /\ {pair[1], pair[2]} \cap NodesOf(pairs) = {}

(* _disjoint_batches: the inner loop comes to the next pair. *)
ConsiderPair ==
  /\ step = "batch" /\ at <= Len(remaining)
  /\ batch' = IF Fits(batch, remaining[at], scenario.limit) THEN Append(batch, remaining[at]) ELSE batch
  /\ at' = at + 1
  /\ UNCHANGED <<scenario, call, ray, remaining, measured>>

(* [pair for pair in pairs if pair not in batch] *)
Without(pairs, taken) ==
  LET kept == {i \in DOMAIN pairs : \A j \in DOMAIN taken : taken[j] # pairs[i]}
      place(i) == Cardinality({j \in kept : j <= i})
  IN [k \in 1 .. Cardinality(kept) |-> pairs[CHOOSE i \in kept : place(i) = k]]

(* The outer loop; the batches are then measured in order, LinkProbe says    *)
(* how, and failures are results too.                                        *)
EndBatch ==
  /\ step = "batch" /\ remaining # <<>> /\ at > Len(remaining)
  /\ measured' = Append(measured, batch)
  /\ remaining' = Without(remaining, batch)
  /\ batch' = <<>> /\ at' = 1
  /\ UNCHANGED <<scenario, call, ray>>

LinksReturn ==
  /\ step = "batch" /\ remaining = <<>> /\ Goto("returned")
  /\ UNCHANGED <<scenario, ray, batches>>

-----------------------------------------------------------------------------
(* Ray.                                                                      *)

Unfinished(n) == probe[n] \in {"queued", "running"}

Becomes(n, what) ==
  /\ probe' = [probe EXCEPT ![n] = what]
  /\ UNCHANGED <<scenario, call, batches, alive, result, cancelling, missed>>

ProbeStarts(n) == probe[n] = "queued" /\ Becomes(n, "running")

(* The affinity is hard, yet the caller checks where the probe ran. *)
ProbeEnds(n) ==
  /\ probe[n] = "running"
  /\ \E m \in IF "misplaced" \in Faults THEN alive ELSE alive \cap {n} :
       \E host \in Hardware(scenario, m) :
         result' = [result EXCEPT ![n] = {[node |-> m, host |-> host]}]
  /\ probe' = [probe EXCEPT ![n] = "done"]
  /\ UNCHANGED <<scenario, call, batches, alive, cancelling, missed>>

ProbeRaises(n) == probe[n] = "running" /\ Becomes(n, "failed")

(* The worker process dies; only the probes of NIC discovery have            *)
(* max_retries 0.                                                            *)
WorkerDies(n) ==
  /\ probe[n] = "running"
  /\ Becomes(n, "failed") \/ (~IsNic /\ Becomes(n, "queued"))

NodeDies(n) ==
  /\ n \in alive /\ step \notin Ends
  /\ alive' = alive \ {n}
  /\ probe' = [probe EXCEPT ![n] = IF Unfinished(n) THEN "failed" ELSE @]
  /\ UNCHANGED <<scenario, call, batches, result, cancelling, missed>>

ProbeStopped(n) == n \in cancelling /\ Unfinished(n) /\ Becomes(n, "failed")

CallNext == \/ ListNic \/ ListGpus \/ ListLinks
            \/ Submit \/ SubmitRaises \/ GetReturns \/ GetRaises
            \/ Cancel \/ CancelsDone \/ Convert \/ CheckNames \/ ConsiderPair \/ EndBatch \/ LinksReturn

RayNext == \E n \in NodeIds :
             \/ ProbeStarts(n) \/ ProbeEnds(n) \/ ProbeRaises(n) \/ WorkerDies(n)
             \/ NodeDies(n) \/ ProbeStopped(n)

Next == CallNext \/ Interrupt \/ RayNext

Spec == Init /\ [][Next]_vars

(* The driver runs, its wait has a deadline, and Ray carries out the         *)
(* cancellations it accepted.  No probe has to start or to end.              *)
FairSpec == Spec /\ WF_vars(CallNext) /\ \A n \in NodeIds : WF_vars(ProbeStopped(n))

-----------------------------------------------------------------------------
(* Properties.                                                               *)

(* An inventory is complete and in order: each record holds what was read on *)
(* the node whose name it bears, no node that is still alive and in question *)
(* is left out, and names of NIC records are unique, whatever died or went   *)
(* astray between the listing and the answers.                               *)
InventoryIsWhole ==
  inventory # <<>> =>
    /\ \A i \in DOMAIN inventory :
         /\ inventory[i].name \in offers[inventory[i].id].markers
         /\ \E a \in result[inventory[i].id] :
              a.node = inventory[i].id /\ inventory[i].read = Reads(a.host)
         /\ \A j \in DOMAIN inventory : i < j =>
              /\ inventory[i].id # inventory[j].id
              /\ inventory[i].name <= inventory[j].name
              /\ IsNic => inventory[i].name # inventory[j].name
    /\ \A n \in alive :
         (IF IsNic THEN offers[n].markers # {} ELSE offers[n].gpus > 0) =>
           \E i \in DOMAIN inventory : inventory[i].id = n

(* The nodes that are planned with are each one Ray node that really has the *)
(* GPUs it is planned with, all of the same model; and two of one name, which*)
(* discover_planner_nodes may return, are not planned with.                  *)
PlannedNodesAreBacked ==
  \A i \in DOMAIN nodes :
    /\ step = "returned" => \A j \in DOMAIN nodes \ {i} : nodes[j].name # nodes[i].name
    /\ \E n \in NodeIds : \E a \in result[n] :
         /\ a.node = n /\ offers[n].markers = {nodes[i].name}
         /\ nodes[i].gpus \in 1 .. Len(a.host.devices)
         /\ \A d \in DOMAIN a.host.devices : a.host.devices[d] = nodes[i].model

(* The count of links between two GPUs that a call returns.                  *)
NvlinkCountIsSound ==
  ~IsNic => \A i \in DOMAIN inventory : \A a \in result[inventory[i].id] :
    \A pair \in Pairs(a.host.links) :
      CountIsSound(a.host.links, pair, inventory[i].read.connections[pair])

(* inventory.py and docs/v1.2-topology-discovery.md: a count of zero means   *)
(* that NVML answered the queries and that there is no direct link.          *)
ZeroMeansNone ==
  ~IsNic => \A i \in DOMAIN inventory : \A a \in result[inventory[i].id] :
    \A pair \in Pairs(a.host.links) :
      inventory[i].read.connections[pair] = 0 => LinksTo(a.host.links[pair[1]], pair[2]) = {}

(* A NIC inventory forgets no interface and no RDMA device that the kernel   *)
(* lists, gives no device to a stranger, and keeps apart what is zero, what  *)
(* is not supported and what is unreadable.  A refused listing of interfaces *)
(* is a problem of the node; one of RDMA devices leaves no trace.            *)
NicRecordIsHonest ==
  IsNic => \A i \in DOMAIN inventory : \A a \in result[inventory[i].id] :
    RdmaIsKept(a.host, inventory[i].read) /\ UnknownIsNotZero(a.host, inventory[i].read)

(* Every direction between the chosen nodes is probed once, and no node      *)
(* takes part in two probes of a batch.                                      *)
DirectionsOnce ==
  step = "returned" /\ scenario.kind = "links" =>
    LET chosen == UNION {NodesOf(measured[b]) : b \in DOMAIN measured}
        places == {p \in (DOMAIN measured) \X (1 .. scenario.limit) : p[2] \in DOMAIN measured[p[1]]}
    IN /\ scenario.wanted \subseteq chosen /\ Cardinality(chosen) >= 2
       /\ \A from, to \in chosen : from # to =>
            Cardinality({p \in places : measured[p[1]][p[2]] = <<from, to>>}) = 1
       /\ Cardinality(places) = Cardinality(chosen) * (Cardinality(chosen) - 1)
       /\ \A p, q \in places : p[1] = q[1] /\ p # q =>
            NodesOf(<<measured[p[1]][p[2]]>>) \cap NodesOf(<<measured[q[1]][q[2]]>>) = {}

(* Every call ends.  However NIC discovery fails, its probes end or are      *)
(* stopped, except those whose cancellation Ray refused and the one that was *)
(* launched as its submission broke off; an interrupt during the cleanup is  *)
(* the one thing that cuts it short.                                         *)
DiscoveryEndsClean ==
  <>[](/\ step \in Ends
       /\ IsNic /\ ~cut => \A n \in NodeIds : Unfinished(n) => n \in missed)
=============================================================================
