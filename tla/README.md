# Verification of topology-aware GPU scheduling

TLA+ models of the parts of `topology_scheduler` that hold state, wait, fail or
search, the TLC runs that check them on small instances, and TLAPS proofs of the
properties that matter most. Paths below are relative to `src/`.

To check a module: `tlc -config X.cfg M`, where X is the run's name in capitals
(`LeaseTiming.cfg` for `lease_timing`, `NvlinkDoc.cfg` for `nvlink_doc`) and M the module that
`PROJECT.json` gives for it; to check the proofs: `tlapm M.tla` for M each of
`DynamoServiceProof`, `GuardianProof`, `LeaseTiming`, `KaiProof`, `LinkProbeProof`,
`PlanningProof`, `MatchedTraceProof`, `DiscoveryProof`.
`PROJECT.json` maps every definition that models code to its lines.

## 1. Inventory

| Component | State it keeps | Operations | Talks to |
|---|---|---|---|
| Dynamo service, driver side (`topology_scheduler/dynamo_backend.py`) | `state`, `error`, `_stop`, `group`, `actors`, `records`, `_launched`, a lock, a monitor thread | `start`, `_watch`, `close`, `status`, `recover_for_cleanup`, exit hook | Ray (placement group, actors), frontend over HTTP |
| Replica actor (`_Replica`, same file) | `closed`, `process`, the guardian's stdin | `info`, `launch`, `heartbeat`, `status`, `stop` | guardian: pipe, exit status, receipt file |
| Replica guardian (`_dynamo_guardian.py`) | child, lease deadline, `stopping` flag; the kernel's process tree | `main`, `stop_tree`, `_signal_owned`, `_reap`, `descendants` | engine processes by signal and wait; the receipt file |
| KAI backend (`kai_backend.py`) | none between calls but the cluster's objects; `created_pods` and the deadline inside calls | `preflight`, `submit`, `status`, `cancel`, `run` | Kubernetes API: PodGroup and Pods |
| Link measurement (`links.py`) | server: listener, connections, errors, received counts, handler threads; client: sockets; driver: refs | `LinkProbeServer`, `run_link_client`, `_measure_batch`, `_disjoint_batches`, `measure_ray_links`, `resolve_link_costs` | TCP, Ray actors and tasks, the report |
| Placement policies (`policy.py`) | none | `choose_placement` | costs from `resolve_link_costs` |
| Ray finite-task backend (`ray_backend.py`) | the placement group and the refs of one `run`, with the tasks they stand for | `run` | Ray |
| GPU inventory (`inventory.py`) | node listing and probe refs of one call | `discover_ray_gpu_inventory`, `as_planner_node`, `_undirected_nvlink_count` | Ray tasks pinned to nodes, NVML there |
| NIC inventory (`nic_inventory.py`) | node listing and probe refs of one call | `discover_nic_inventory`, `collect_nic_inventory` | Ray tasks pinned to nodes, sysfs there |
| Records and traces (`comparison.py`) | none between calls; copies of the inputs and the list of records inside `run_matched_trace` | `plan_with_record`, `run_with_record`, `run_matched_trace` | the planner and a backend |

Examples, deployment manifests, scripts and metadata hold no logic of their own.

**How they interact.** `DynamoService` calls its actors by Ray RPC and never touches
a process. The actor starts a guardian and can reach it only through its stdin;
a dead actor is an end of file there. The guardian owns the engine's tree and
answers only through a receipt on its node's disk. So four parties know parts of
one fact - is a process of this engine still on the GPU? - and the reservation may be
given back only when the answer is no. `resolve_link_costs` reads what probes left
in a report, and `choose_placement` reads its result; nothing calls back.
`run_matched_trace` calls the planner and `ray_backend.run` in turn; Ray carries out the
cancellations and the removal of one run while the next has begun. The inventories give the
planner its nodes by name only.

**What is hard.** Two threads of the driver share one object and a lock held during
RPCs; every RPC may time out at its caller and run all the same; actors, guardians,
engines and the driver die independently; a recovered driver does not know what its
predecessor was doing. Process trees change while they are read and pids are
reused. Kubernetes requests take effect and still raise. The probe's server, client
and driver each keep a deadline of their own. A listing of live nodes is old when the
probes it is used for answer, and a node's files or NVML queries may answer in part.

**What makes each component correct.** Dynamo: an occupied GPU is always reserved; teardown
comes after every engine is down for good; "closed" leaves nothing that the service knows
of; a failure of a ready
service is acted upon; calls return. Guardian: a "stopped" receipt is true; no stranger is
signalled; nothing owned escapes. KAI: success is real, cleanup is complete, ordered and
spares others. Probe: success is a whole session, and what outlives it is stopped. Planner: the
freshest evidence decides, as far as clocks agree, and the plan is an optimum that is found
when one exists. Ray backend: what a run leaves on the cluster is being removed, or its
request raised, and goes in the end. Traces:
attempts share their inputs, and ratios compare like with like. Inventories: complete, of
the right node, and honest about what could not be read.

## 2. Plan

The order puts first what costs most when it is wrong: a GPU given away while in use.

| Step | Modules | State |
|---|---|---|
| 1 | `GpuCustody` (abstract), `DynamoService`, `DynamoServiceProof` | done |
| 2 | `GuardianContract` (abstract), `Guardian`, `GuardianProof` | done, proved with its refinement |
| 3 | `LeaseTiming` | done, proved |
| 4 | `KaiLifecycle`, `KaiProof` | done, proved |
| 5 | `LinkProbe`, `LinkProbeProof` | done, proved |
| 6 | `Placement`, `LinkCosts`, composed by `Planning`; `PlanningProof` | done, proved |
| 7 | `RayRun`, composed by `MatchedTrace`, against `GpuCustody`; `MatchedTraceProof` | done, proved with its refinement |
| 8 | `NvLinks`, `NicReading`, composed by `Discovery` (inventories, batches of links); `DiscoveryProof` | done, proved |
| 9 | A second user thread of `DynamoService`: `close()` beside `start()` | planned |

No module declares a RECURSIVE operator, so each of them can be proved about.

## 3. Modules

### GpuCustody
The promise of a deployment to the cluster: reserve, occupy, vacate, give back, in
that order, each rank used once. `DynamoService` implements it (`CustodySpec`), and so
does each run of a trace (`CustodyOfRuns`): the long-lived and the finite workload keep
the same contract.

### DynamoService
One deployment with `Replicas` ranks and the failures named in `Faults`.

* **Driver object**: `state`, `error`, `stop` (`_stop`), `group`, and
  `actors`, `records`, `launched` as counts, since ranks are appended in order.
* **Threads**: `main` is the statement of `start()` or `close()` the user thread is at,
  `monitor` that of `_watch()`. `lock` is `_lock`; `closing`, `cursor`, `failures`
  the progress of the thread inside `close()`.
* **Cluster**: `ray` (connected), `reservation` (the detached placement group),
  `snapshot` (a saved `status()`, the input of `recover_for_cleanup`).
* **Per rank**: `actor`, `closed`, `launchRpc`, `stopRpc`, `guardian`, `tree`, `receipt`.

One action per step between two points at which another party can act: `MarkLaunched`
and `SendLaunch` are separate because `_launched` is written before the RPC is issued,
`Commit` is separate from `StatusAllReady` because the monitor may record an error between
them. Creation and assignment are separate steps (`Reserve` and `AssignGroup`, `CreateActor`
and `AppendActor`), since `start()` may raise or be interrupted between them. That leaves a
gap in the code: a detached group that Ray created before `placement_group()` raised is not
in `self.group`, `close()` finds nothing to give back and reports "closed", and the
reservation stays held. `ClosedLeavesNothing` says exactly this much: such a group holds no
actor and no engine. An actor that was never appended is stopped with its group.

"removed" and "dead" mean that Ray was asked: it carries `remove_placement_group` and
`ray.kill` out a little later, and what the properties say of engines does not rest on when.
Assumptions:

* one user thread owns the object, as the class documents; interrupts reach it;
* `close()` sends its `stop()` RPCs as one step (`CloseSends`): an interrupt comes before
  the first or after the last of them;
* a deadline is the right of its waiter to give up at any step;
* RPCs of one driver run in order and one at a time on an actor; those of a recovered
  driver are not ordered after its predecessor's;
* `ready` is an observation: an engine may fail right after it was seen healthy;
* a launch that failed before anything was spawned, followed by a teardown that failed
  half way, cannot be confirmed by a later `close()`: the actor that could say so is
  dead. The reservation is then retained, which is safe;
* a SIGKILLed guardian leaves no receipt; again the reservation is retained;
* loss of a node, and a newer deployment of the same namespace, are not modelled.

### GuardianContract and Guardian
`Guardian` is one guardian with a kernel: processes fork, exit, become zombies, are
re-parented to the subreaper and reaped; a freed pid may go to a stranger. A reading
of `/proc` is any subset of the true descendants, because it is not atomic.
`stop_tree()` is the loop `Scan`, `CompareBirth`, `SendSignal`, `ReapChild`, `Verify`
until nothing is seen or both deadlines passed. `GuardianContract` is what
`DynamoService` assumes of a guardian; `ContractSpec` shows that `Guardian` implements it,
so the two models meet at the same guardian, tree and receipt states.

### LeaseTiming
The one place where durations matter: heartbeat interval, RPC timeout and
lease of one replica in whole time units. A thread whose wait is over runs within
`Slack` units. It keeps a detail of `main()`: the deadline is looked at before stdin
is read, so a late-read ping does not count.

### KaiLifecycle
`run()` with every request of `submit()`, `status()` and `cancel()` as a step
that may be rejected, take effect and raise ("lost"), or be interrupted. The cluster
moves Pods through their phases, evicts them, and keeps a deleted Pod listed until it
has terminated. `Leftovers` are Pods of an earlier workload of the same name.

### LinkProbe
Server thread, one handler per connection, client task and driver of one direction.
Directions of a batch share no node (`_disjoint_batches`), so one is modelled
alone. A connection of somebody else (`Strays`) never sends a valid header.
`CloseServer` closes the listener and the connections listed so far: one
accepted a moment before is `fresh` and not in the list yet. The finally clause only asks Ray
(`asked`): `CancelClient` and `KillServer` are requests that Ray carries out some steps later
(`ClientCancelled`, `ServerKilled`), and the driver is in the next batch by then. Each may
raise (`ReleaseRaises`), which skips those after it and loses the records. The servers are
created outside the `try` statement (`links.py:807`); a driver that is interrupted or fails
there is not modelled.

### Placement, LinkCosts, Planning, MCPlanning
`Placement` is `choose_placement()` and `LinkCosts` is `resolve_link_costs()`, as operators.
`Planning` composes them over time: probes leave records in a report in any order, time
passes, and a planning call uses the report. Node names are numbers; bandwidths have one
unit, and `Traffic` is a multiple of each, so that times are integers. Driver and planner
share one clock; a node's clock differs from it by a constant `Skew`. A record has the time
of the source's clock when the client task returned and of the driver's when it did not, and
knows the advertised speeds of the endpoints that answered; `ended`, the moment itself, is
in no record of the code and only serves the property. Several probes of a direction may end
in one unit of time, on one clock or on two: `Latest` then takes the first record of the
report. An interface's advertised speed does not change during a run. The assumptions are
what `Node`, `Workload` and `positive()` check: speeds, advertised bandwidths and fallbacks
are positive, GPUs and compute times are not negative.

### RayRun
`ray_backend.run()` on a cluster. `step` is the statement the caller is at, `refs` and
`cancelled` count the tasks submitted and cancelled, `result` is what will be returned
or raised. Per run, `group` and `task` are the cluster's placement group and tasks,
`cancelling` and `removing` the requests it has not carried out. A call that raises or is
interrupted may have taken effect: `placement_group()` leaves a group that no variable holds
(`CreateRaises`), `remote()` a task without a ref (`SubmitRaises`, `InterruptInside`), and
the removal may be on its way or not. `created` is the instant between the creation of the
group and the `try` statement: an interrupt there leaves the group too. The runs that left
without asking for the removal are `abandoned`. `ray.cancel()` that raises
goes on with the removal and replaces the outcome. A placement group waits until the GPUs
of others are given back. A task whose worker dies is not retried (`max_retries=0`).

### MatchedTrace, MCMatchedTrace
`run_matched_trace()` over `RayRun`: the copies of the caller's maps are taken one after the
other (`CopyBandwidth`, `CopyCosts`), then checked; every job is planned and executed under
every policy, and `Normalize` computes the ratios from the records. `MapsChange` is the
caller, or a worker that shares its memory, changing the maps, at the moments where that
could tell: between the two copies, before the check, and while a run waits for its workers.
Whether planner and workers succeed is a choice, but a plan is only made with costs that
describe the bandwidths, the check that `choose_placement` makes too.

### NvLinks and NicReading
Pure operators. `NvLinks` is `_direct_nvlink_count()` and `_undirected_nvlink_count()` over
the link slots of two GPUs, of which any query may raise. `NicReading` is
`collect_nic_inventory()` over one host's files: confidence of a reading, kind of an
interface, RDMA devices by PCI address, problems. One numeric attribute stands for all
attributes that are read alike, and a file is its text or the reason it was refused.
`listed` says which of the directories of interfaces and of RDMA devices can be inspected
with all their entries: `directories()` lists a directory or nothing of it. The hardware
does not change during one probe. `AddressesAssumption` says that the text of an address is
neither empty nor one of the words that stand for an unreadable file.

### Discovery, MCDiscovery
Four calls that begin with Ray's listing of live nodes: GPU discovery, its conversion to
planner nodes, NIC discovery, and link measurement up to its batches. Nodes die, probes
raise, hang, lose their worker or (`"misplaced"`) run elsewhere, cancellations raise. NIC
discovery cancels its probes when it fails; GPU discovery does not, and keeps Ray's default
retries. An interrupt in the middle of the NIC cleanup cuts it short (`cut`); a submission
that breaks off may have launched its probe, with no reference in the list (`missed`).
`Convert` is `discover_planner_nodes()`, which may return two nodes of one name, and
`CheckNames` the check of `choose_placement()` that they meet.
`_disjoint_batches` is `ConsiderPair`, its inner loop, and `EndBatch`, its outer loop.
`MCDiscovery` holds the listings and the hardware. A planner node carries a name, a model
and a number: a machine that is exchanged under the same marker after the call cannot be
noticed later. `ScenariosAssumption` says what a host can be: devices with the names of
models, GPUs numbered from 1, finitely many link slots and interfaces, and links with two
ends (`TwoEnded`): if a slot of one GPU leads to another, as many slots lead back.
`LimitAssumption` is the check of `max_concurrent_pairs`.

## 4. Runs

All bounds are in the `.cfg` files. Every run sets `CHECK_DEADLOCK FALSE` because
the systems may stop: a closed service, a written receipt, a finished run, a
finished probe, a plan.

| Run | Bounds | What it shows |
|---|---|---|
| `dynamo_service` | 2 replicas whose engines fail and whose guardians may be killed; `WatchSpec` | `EnginesHoldReservation`, `TeardownAfterStop`, `ReadyIsWatched`: an engine always has its reservation, actors are killed only after all engines are down for good; `FailureClosesService`: a service does not stay ready with fewer replicas; the guardian is the only fault of this run |
| `dynamo_recovery` | 1 replica, all faults: death of actor, guardian and driver, recovery, loss of Ray, interrupts | the inductive invariant `IInv` of the proofs; `ClosedLeavesNothing`, `NoLaunchAfterStop`, refinement `CustodySpec`; `DriverDeathStopsEngines`, `CallsReturn` |
| `guardian` | 3 pids, 4 process creations | `ReceiptIsTrue`, `StrangersSpared`, `NothingEscapes`, `EngineExitIsHandled`, `ContractSpec` |
| `lease_timing` | heartbeat 4, RPC 2, lease 13, slack 1 | `HealthyLeaseHolds` at the shortest lease that `validate()` accepts; `LeaseInv` |
| `kai_lifecycle` | 3 workers, 3 leftover Pods, every fault | `SuccessIsReal`, `NothingLeft`, `GroupGoesLast`, `OthersSpared`, `RunEnds` |
| `kai_rollback_doc`, `kai_status_doc` | 2 workers | refute two sentences of the docs (see 6) |
| `link_probe` | 2 streams, 1 stray connection; requests to Ray raise or come late | `SuccessIsWhole`, `DoneClosesAll`, `ProbeEnds` |
| `planning` | 4 nodes, one clock ahead and one behind, 3 workers, 8 planning calls, 3 records, 3 moments | `MeasuredIsCurrent`, `PlanIsBest`, `PlanIsFound` |
| `matched_trace` | 2 jobs, 2 policies, 2 workers, 2 GPUs; every request may raise, interrupts | `LeftoversAreAccounted`, `InputsMatch`, `RatiosAreMatched`, refinement `CustodyOfRuns`, `TraceEndsClean` |
| `discovery` | up to 4 nodes, the listings and the hardware of `MCDiscovery` | `InventoryIsWhole`, `PlannedNodesAreBacked`, `NvlinkCountIsSound`, `NicRecordIsHonest`, `DirectionsOnce`, `DiscoveryEndsClean` |
| `nvlink_doc` | the same | refutes a sentence of the docs (see 6) |

**Why the bounds are enough.** Two replicas are the least with which one can be confirmed
and the other not, or one fails while the other serves; ranks interact only through the
counters and the all-or-nothing decision of `close()`, and the safety properties are proved
for every number. The faults are split over the runs because all of them with two replicas
exceed TLC; the proofs need no such split: every safety property of the two runs is a
theorem for every number of replicas and every set of faults, so what the runs add is
liveness and the check of the model before it is proved about. Three pids allow an engine, a
grandchild whose parent exits first, and a stranger that takes a freed pid; four creations
include the reuse. `MaxBirth` also ends what a real engine may do for ever: fork faster than
it is killed, in which case `stop_tree()` gives up at its second deadline, a case the model
includes because `DeadlinePasses` may come at any round. Three workers let `submit()` fail
before, between and after creations, and leftovers clash at every rank; what one beyond the
ranks does is the subject of `kai_status_doc`. Two streams let one be served while the place
of the other is taken by the stray. The four nodes of the planner differ in model, memory
and estimates, one link of six is measured and all have a fallback or none, three workers
force a node to be shared or a link to be crossed, and a limit of 15 candidates (of 20)
reaches the refusal of a search that is too large. Two runs that need all GPUs make each run
of a trace wait for what is left of the one before; two jobs and two policies are the least
with which a baseline can be the wrong one. Tasks and reservation of a run are still there
while the next one waits for its GPUs; with more GPUs it is placed beside them, which the
proofs cover. A clock that is ahead, one that is behind and two that agree show each side of
the bounds of `MeasuredIsCurrent`. A GPU with two link slots can answer for one and raise
for the other, and two interfaces with two RDMA devices can share an address or miss it;
four nodes give batches of two disjoint directions and batches whose greedy choice leaves
some for later. What a node has is chosen freely only when it is alone in its listing, since
nodes are read independently.

`TypeOK` is checked by the run of the guardian and is part of `IInv` in `dynamo_recovery`.
The other modules state theirs as documentation of their state, and as the first part of the
inductive invariant of their proofs.

**Fairness**, used only by the liveness properties:

* Dynamo: threads, actors and guardians that can run do run; `StartFails` and `ConfirmFails`
  stand for deadlines that pass, since every wait in `start()` and `close()` has one. A
  lease is certain to expire only while nothing renews it. Nothing makes a fault, a signal
  or a further user call happen, and nothing makes a poll succeed. `WatchSpec` asks for
  less: only the monitor with its alarm, `close()`, and guardians that see why they must
  stop and finish or give up, which is all that `FailureClosesService` needs; any behaviour
  of `FairSpec` satisfies it.
* Guardian: its loop is scheduled and time passes (`SF` on `DeadlinePasses`, which the
  rounds enable again and again). Nothing is asked of engine processes: they may ignore
  SIGTERM and outlive SIGKILL.
* KAI: the caller runs and its clock reaches the deadline. No Pod has to run or end.
* Probe: the driver and the accepting thread run; handlers and the client may hang.
* Trace: the caller runs and its waits have deadlines; Ray carries out the cancellations and
  removals it accepted. No group has to be placed, no task has to start or end.
* Discovery: the driver runs, `ray.get` has a timeout, and accepted cancellations are
  carried out. No probe has to start or end.

## 5. Proofs

`DynamoServiceProof` proves, for every `Replicas` and every set `Faults`:

| Theorem | Property |
|---|---|
| `Inductive` | `IInv`, the inductive invariant |
| `TypeCorrect` | `TypeOK`, the first conjunct of `IInv` |
| `Reserved` | `EnginesHoldReservation` |
| `StopBeforeTeardown` | `TeardownAfterStop` |
| `Watched` | `ReadyIsWatched` |
| `ClosedIsClean` | `ClosedLeavesNothing` |
| `NeverLaunchedAgain` | `NoLaunchAfterStop` |
| `Refinement` | `CustodySpec` |

The only assumptions are those of `DynamoService`: at least one replica, and known
kinds of faults. The argument: none of the properties is inductive, because each
relies on facts that different parties hold. The centre is `Quiet(r)`: rank `r` has no engine
and can get none, since its launch was never issued, its receipt says
stopped, or it was told to stop before anything was spawned. `IInv` says

* `LaunchInv`: how far a launch RPC got determines how far the guardian can be;
* `ReceiptInv`: a positive receipt and a positive answer of `stop()` are true;
* `StartInv`, `CloseInv`: the counters are ordered, `start()` runs once and not
  beside a `close()`, and the thread inside `close()` has the lock;
* `QuietInv`: every rank `close()` has passed is quiet or a recorded failure, hence
  all are quiet in teardown and once the reservation is gone;
* `ReadyInv`, `ClosedInv`: what "ready" and "closed" imply.

`Quiet` is stable under every step of actors, guardians and faults (this is where
`closed` being checked by `launch()` matters), so `QuietInv` carries a confirmation that
was made at one moment to the moment of teardown, and beyond a recovery.

`GuardianProof`, for every set of pids and every bound on births, and nothing assumed but
that the guardian and init are no engine's pids:

| Theorem | Property |
|---|---|
| `Inductive`, `TypeCorrect` | `IInv`, `TypeOK` |
| `TrueReceipt`, `SparesStrangers`, `OwnedIsFound` | `ReceiptIsTrue`, `StrangersSpared`, `NothingEscapes` |
| `Implements` | `ContractSpec`, what `DynamoService` assumes of a guardian |

The difficulty is that `descendants()` is a closure: that it finds all the guardian owns says
something of every path of parent links while parents exit. `TreeInv` states it without
paths: every set of pids that holds the guardian's children and the children of its own
members (`Closed`) holds all that is owned. When a process exits, its children go to
the subreaper and the sets that are closed become fewer; when one is freed or created, a
closed set stays closed without or with it (`FreedTree`, `CreatedTree`). `BirthInv` says of
each pid that was noted with its birth that no stranger can have both, since births only
grow. `StopInv` then leads from an empty reading to a receipt.

`LeaseTiming` proves `LeaseBounded` and `LeaseHolds` for all integer times with
`Lease > 2 * (Heartbeat + RpcTimeout)`, the check of `validate()`, and
`4 * Slack <= Heartbeat`, an assumption about the machines that the code
does not state. `AgeBound` is the strengthening: it bounds the time since the last
renewal by what the monitor and the pipe have waited since.

`KaiProof`, for every number of workers, any leftovers and every set of faults:

| Theorem | Property |
|---|---|
| `Inductive` | `IInv` |
| `SuccessIsOfEveryRank` | `SuccessIsReal`, if no leftover Pod has a number beyond the ranks |
| `LeavesNothing`, `GroupIsLast`, `SparesOthers` | `NothingLeft`, `GroupGoesLast`, `OthersSpared` |

`SubmitInv` says that what is listed under an acknowledged name is the run's own Pod,
`OutcomeInv` that phases and outcomes of own Pods agree, and `DeleteInv` that what remains to
be deleted covers what was created. `SuccessInv` counts: as many listed Pods as there are
ranks, each named after a rank and succeeded, are one for every rank (`CollapseCounts`). The
hypothesis on leftovers is the one thing `status()` does not check, and `kai_status_doc`
shows that without it `run()` can report a false success (see 6).

`LinkProbeProof`, for every number of streams and any strays: `Inductive`, `WholeSession`
(`SuccessIsWhole`) and `ClosedDown` (`DoneClosesAll`). `HandlerInv` says what a handler that
ended well has seen, `ServeInv` what the accepting thread knows when it leaves its loop, and
`DriverInv` what a good record rests on. A count decides here too: `Streams + 1` handlers
ended well, only the client's connections can, so it was each of them.

`MatchedTraceProof`, for any jobs, ranks and GPUs, any distinct policies with the baseline
`gpu_count` among them (`comparison.py:266` adds it) and any integer times but the one that
stands for `None`:

| Theorem | Property |
|---|---|
| `Inductive`, `TypeCorrect` | `IInv`, `TypeOK` |
| `AccountedLeftovers` | `LeftoversAreAccounted` |
| `MatchedInputs`, `MatchedRatios` | `InputsMatch`, `RatiosAreMatched` |
| `RunsKeepCustody` | `CustodyOfRuns`: each run of a trace implements `GpuCustody` |

`CallerInv` and `ClusterInv` relate the caller's statement to what Ray still holds of this
run and of earlier ones, of which `AccountedLeftovers` is the part a reader asks for: a
result in hand means that no task of its run is left, so tasks that overlap with a later run
are those of a failure; `RecordsInv` gives the record of each attempt its job and policy
by division of its number (`JobOf`, `PolicyOf`), so that the baseline of a job is
attempted exactly once (`BaselineAttempted`) and a ratio can only use that one.

`DiscoveryProof`, for any finite set of nodes, any listings and faults and any hardware with
`ScenariosAssumption`:

| Theorem | Property |
|---|---|
| `Inductive`, `TypeCorrect` | `IInv`, `TypeOK` |
| `WholeInventory`, `BackedNodes` | `InventoryIsWhole`, `PlannedNodesAreBacked` |
| `SoundCounts` | `NvlinkCountIsSound` |
| `HonestRecords` | `NicRecordIsHonest` |
| `Shared`, `DirectionsAreOnce` | `BatchInv`, `DirectionsOnce` |

`ListInv` says that the listing names every node that is alive and in question, once;
`ProbeInv` and `RecordsInv` that an answer is a reading of a listed node and a record what
its own node answered; `NodesInv` that a planner node comes from one record. The lemmas on
data carry the rest: `CountOfOneSide` and `PairIsSound` bound what `_direct_nvlink_count()`
can miss by the queries that raised, `HostIsKept` and `HostIsHonest` say that
`collect_nic_inventory()` keeps each device once and does not make up a reading, and
`OrderIsWhole` that a listing in any order loses no node. That links have two ends is a fact
about hardware; without it the two counts of a pair have nothing to agree on.

A host of `HonestRecords` may refuse either listing: `UnknownIsNotZero` asks for a problem of
the node when no interface is listed, while nothing can be asked of RDMA devices that are not
(see 6).

`BatchInv` is an invariant of its own, beside `IInv`. It says of the directions between the
chosen nodes that each is either left or in one place of one batch, and that the batch that
grows takes from those that are left (`IsShared`). `DirectionsAreRoutes` starts it:
`permutations(s, 2)` holds each direction once, by division of its position. `WithoutIsRest`
keeps it when a batch is taken out. The count n(n - 1) follows at the end from a bijection
between places and directions.

`PlanningProof`, for any finite set of nodes, any number of workers, any measured directions
and speeds, any skews of the clocks, and any settings of a call:

| Theorem | Property |
|---|---|
| `Inductive` | `IInv` |
| `MeasuredCosts` | `MeasuredIsCurrent` |
| `BestPlan`, `FoundPlan` | `PlanIsBest`, `PlanIsFound` |

`ReportInv` says how far a record's time can be from the moment its probe ended: by the skew
of its source, or, for a failure, not at all. So what is newest by its own time is, up to the
skew, the last outcome, wherever it stands and whatever its ties, and a cost is measured
exactly when the newest records of both directions are usable. With equal clocks this is the
plain statement that no older success hides a later failure.

That the search misses nothing has two parts. It only looks at placements whose nodes are in
order, so every placement must have such an order: the first of its reorderings is one, since
exchanging two neighbours that are out of order gives an earlier one (`SortedExists`). And
the order may not matter: the workers on a node are as many (`ReorderedOn`), the slowest is
the slowest (`ReorderedCompute`), and the crossing pairs correspond one to one, over the same
links (`ReorderedPairs`), so their costs have the same sum (`ReorderedCost`). The best of the
candidates exists because costs and placements are well ordered (`FirstPlacement`).

The sum is a recursive function on sets (`MapThenSumSet`). Its equation is proved to have a
solution and only one (`SumExists`, `SumIsOne`), and its value not to depend on the
member that is added first (`SumOfAny`), so that a bijection keeps it (`SameTotal`). The
induction these need is stated without a parameter: of any nonempty set of numbers, or of
subsets of a finite set, one is least (`LeastNat`, `SmallestSet`), which leaves no room for a
least counterexample.

**With TLC only**:

* liveness under fairness: `FailureClosesService`, `DriverDeathStopsEngines`, `CallsReturn`,
  `EngineExitIsHandled`, `RunEnds`, `ProbeEnds`, `TraceEndsClean`, `DiscoveryEndsClean`,
  because the prover has no support for fairness and `ENABLED`;
* the sentences of the documentation that three runs refute.

## 6. Disagreements between code and documentation

By a run:

* `kai_rollback_doc`: `docs/kai-integration.md:23` says `submit()` rolls back a partial Pod
  submission; a Pod whose creation took effect and raised is not in `created_pods` and
  stays.
* `kai_status_doc`: `docs/kai-integration.md:25` says `status()` reduces the worker Pod
  phases; Pods are selected by label only and their number is compared with the workers
  (`kai_backend.py:367`). A Pod of an earlier, larger workload of the same name that
  succeeded and is still listed takes the place of a worker that was evicted and is gone, and
  `run()` returns although that worker never ended. By the same selection one that failed
  makes a healthy workload fail.
* `nvlink_doc`: `docs/v1.2-topology-discovery.md:48` says a count of zero means NVML
  answered and found no direct link; a link whose state query raises is skipped while the
  others of the GPU count, so it can hide a real one.

Read in the source while modelling, and part of the models, without a run of their own:

* `docs/dynamo-lifecycle.md:138` says a receipt is written only after all owned descendants
  are gone; `main()` (`_dynamo_guardian.py:121`) also writes one, with `stopped: false`,
  when they are not. The readers require `stopped: true`, so nothing depends on it.
* `docs/baseline-policies.md:70` says process interrupts propagate. When an interrupt comes
  while `run()` waits and `ray.cancel()` then raises in the finally clause
  (`ray_backend.py:50`), the error takes the place of the interrupt (`CancelRaises`) and the
  trace records a failed job and goes on.
* `docs/nic-inventory.md:98` says an inaccessible RDMA device cannot look like a host without
  RDMA hardware. When the directory, or one entry of it, cannot be inspected, `directories()`
  (`nic_inventory.py:146`) returns an empty list and no problem is recorded (`Directories`).
* `docs/link-measurement.md:66` says directions run one at a time by default and unfinished
  clients are cancelled after each batch. `ray.cancel` (`links.py:860`) only asks, so a client
  may still send when the next batch has begun (`ClientCancelled`).
* The docstring at `links.py:134` says times come from the source node's clock when the probe
  ran there; a client that ran and did not return in time is recorded with the driver's
  (`links.py:850`, `Records`).
* `ray_backend.py:12` says both success and failure release the placement group; an exception
  of `placement_group()` after it took effect, or an interrupt before the `try` statement,
  does not (`CreateRaises`, `InterruptBefore`).

## 7. Not modelled

* Contents: commands, environment, manifests, JSON, messages, classification of errors.
* Validation of arguments: a step that passes or raises without effect.
* Inventories: what is read and passed on unchanged, such as names, UUIDs, memory sizes with
  their tolerance, and the PCI ancestor that relates a GPU and an interface.
* Records: their JSON form, and backends other than `ray_backend.run`.
* Link measurement: the text and JSON of reports, classification of errors, NIC evidence of
  endpoints.
* A second user thread of `DynamoService`: see the plan.
* Package surface, examples, deployment manifests and scripts: no logic of their own.
* The port probe of `launch()`, and the instant between `_signal_owned`'s second look at a
  birth and `os.kill`: no check in user space closes either.
* Floating point in the planner: ties are compared exactly here, while sums of inexact
  quotients may break them differently.
