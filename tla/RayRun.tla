------------------------------- MODULE RayRun -------------------------------
(* ray_backend.py: run(), one task per worker of a plan inside an atomic     *)
(* reservation.  Several runs follow each other on one cluster, which        *)
(* carries out removals and cancellations some time after it was asked: what *)
(* is left of a run overlaps with the next one.                              *)
EXTENDS Integers, FiniteSets

CONSTANTS Runs,      \* names of the runs
          Workers,   \* len(plan.workers)
          Gpus,      \* GPUs of the nodes of the plans
          Faults     \* "create", "cancel", "remove": that request may raise,
                     \* the first and the last with effect or without;
                     \* "interrupt": KeyboardInterrupt

ASSUME WorkersAssumption == Workers \in Nat \ {0}
ASSUME GpusAssumption == Gpus \in Nat
ASSUME FaultsAssumption == Faults \subseteq {"create", "cancel", "remove", "interrupt"}

Ranks == 0 .. Workers - 1

VARIABLES
  (* the caller of run(): its statement, what it will return or raise, the   *)
  (* number of its refs and of those it has cancelled; the runs that left    *)
  (* without asking for the removal of their group                           *)
  step, result, refs, cancelled, abandoned,
  (* the cluster, per run: the placement group and the tasks; the requests   *)
  (* to cancel a task and to remove a group                                  *)
  group, task, cancelling, removing

caller  == <<step, result, refs, cancelled, abandoned>>
cluster == <<group, task, cancelling, removing>>
runVars == <<caller, cluster>>

RunTypeOK ==
  /\ step \in {"out", "preflight", "created", "ready", "submit", "get", "cancel", "remove"}
  /\ result \in {"none", "ok", "failed", "interrupted"}
  /\ refs \in 0 .. Workers /\ cancelled \in 0 .. refs
  /\ group \in [Runs -> {"none", "pending", "placed", "gone"}]
  /\ task \in [Runs -> [Ranks -> {"none", "queued", "running", "ok", "failed"}]]
  /\ cancelling \subseteq Runs \X Ranks /\ removing \subseteq Runs /\ abandoned \subseteq Runs

RunInit ==
  /\ step = "out" /\ result = "none" /\ refs = 0 /\ cancelled = 0
  /\ group = [k \in Runs |-> "none"]
  /\ task = [k \in Runs |-> [r \in Ranks |-> "none"]]
  /\ cancelling = {} /\ removing = {} /\ abandoned = {}

-----------------------------------------------------------------------------
(* The caller of run k.                                                      *)

(* run() returns or raises, and its locals are gone. *)
Leave(how) ==
  step' = "out" /\ result' = how /\ refs' = 0 /\ cancelled' = 0 /\ UNCHANGED abandoned
Abandon(k, how) ==
  step' = "out" /\ result' = how /\ refs' = 0 /\ cancelled' = 0 /\ abandoned' = abandoned \cup {k}

Unfinished(k, r) == task[k][r] \in {"queued", "running"}

(* The finally clause begins; how is what the body returned or raised. *)
Finally(how) == step' = "cancel" /\ result' = how /\ UNCHANGED <<refs, cancelled, abandoned>>

(* Arguments and the cluster's total resources are in order, and the group   *)
(* is created.                                                               *)
CreateGroup(k) ==
  /\ step = "preflight"
  /\ group' = [group EXCEPT ![k] = "pending"]
  /\ step' = "created"
  /\ UNCHANGED <<result, refs, cancelled, abandoned, task, cancelling, removing>>

(* placement_group() raises, yet the group is created. *)
CreateRaises(k) ==
  /\ "create" \in Faults /\ step = "preflight"
  /\ group' = [group EXCEPT ![k] = "pending"]
  /\ Abandon(k, "failed")
  /\ UNCHANGED <<task, cancelling, removing>>

PreflightRaises ==
  /\ step = "preflight"
  /\ Leave("failed")
  /\ UNCHANGED cluster

EnterTry ==
  /\ step = "created"
  /\ step' = "ready"
  /\ UNCHANGED <<result, refs, cancelled, abandoned, cluster>>

GroupReady(k) ==
  /\ step = "ready" /\ group[k] = "placed"
  /\ step' = "submit"
  /\ UNCHANGED <<result, refs, cancelled, abandoned, cluster>>

ReadyTimesOut ==
  /\ step = "ready"
  /\ Finally("failed")
  /\ UNCHANGED cluster

Launch(k) ==
  task' = [task EXCEPT ![k][refs] = "queued"] /\ UNCHANGED <<group, cancelling, removing>>

Submit(k) ==
  /\ step = "submit" /\ refs < Workers
  /\ Launch(k)
  /\ refs' = refs + 1
  /\ step' = IF refs' = Workers THEN "get" ELSE "submit"
  /\ UNCHANGED <<result, cancelled, abandoned>>

(* The task may be launched all the same, with no ref in the list. *)
SubmitRaises(k) ==
  /\ step = "submit"
  /\ Launch(k) \/ UNCHANGED cluster
  /\ Finally("failed")

(* Mutant: the results of the ranks that have answered are enough. *)
GetReturnsSome(k) ==
  /\ step = "get" /\ \E r \in Ranks : task[k][r] = "ok"
  /\ Finally("ok")
  /\ UNCHANGED cluster

GetReturns(k) ==
  /\ step = "get" /\ \A r \in Ranks : task[k][r] = "ok"
  /\ Finally("ok")
  /\ UNCHANGED cluster

GetRaises(k) ==
  /\ step = "get" /\ \E r \in Ranks : task[k][r] = "failed"
  /\ Finally("failed")
  /\ UNCHANGED cluster

GetTimesOut ==
  /\ step = "get"
  /\ Finally("failed")
  /\ UNCHANGED cluster

Cancel(k) ==
  /\ step = "cancel" /\ cancelled < refs
  /\ cancelling' = cancelling \cup (IF Unfinished(k, cancelled) THEN {<<k, cancelled>>} ELSE {})
  /\ cancelled' = cancelled + 1
  /\ UNCHANGED <<step, result, refs, abandoned, group, task, removing>>

CancelsDone ==
  /\ step = "cancel" /\ cancelled = refs
  /\ step' = "remove"
  /\ UNCHANGED <<result, refs, cancelled, abandoned, cluster>>

(* Mutant: an error of ray.cancel leaves the whole finally clause. *)
CancelRaisesOut ==
  /\ "cancel" \in Faults /\ step = "cancel" /\ cancelled < refs
  /\ Leave("failed")
  /\ UNCHANGED cluster

(* ray.cancel raises: the refs after it are not cancelled, and the error     *)
(* takes the place of the result, or of the interrupt.                       *)
CancelRaises ==
  /\ "cancel" \in Faults /\ step = "cancel" /\ cancelled < refs
  /\ step' = "remove" /\ result' = "failed"
  /\ UNCHANGED <<refs, cancelled, abandoned, cluster>>

(* The removal stops what is left of the tasks, cancelled or not.            *)
AskRemoval(k) ==
  /\ removing' = removing \cup {k}
  /\ cancelling' = {c \in cancelling : c[1] # k}
  /\ UNCHANGED <<group, task>>

Remove(k) ==
  /\ step = "remove"
  /\ AskRemoval(k)
  /\ Leave(result)

(* remove_placement_group raises. *)
RemoveRaises(k) ==
  /\ "remove" \in Faults /\ step = "remove"
  /\ \/ Abandon(k, "failed") /\ UNCHANGED cluster
     \/ Leave("failed") /\ AskRemoval(k)

(* KeyboardInterrupt: inside the try statement the group is still removed;   *)
(* before it, once the group is created, and during the removal it may stay. *)
InterruptBefore(k) ==
  /\ \/ step = "preflight" /\ Leave("interrupted")
     \/ step = "created" /\ Abandon(k, "interrupted")
  /\ UNCHANGED cluster

InterruptInside(k) ==
  /\ step \in {"ready", "submit", "get"} /\ Finally("interrupted")
  /\ UNCHANGED cluster \/ (step = "submit" /\ Launch(k))

InterruptFinally(k) ==
  \/ /\ step = "cancel"
     /\ step' = "remove" /\ result' = "interrupted"
     /\ UNCHANGED <<refs, cancelled, abandoned, cluster>>
  \/ step = "remove" /\ Abandon(k, "interrupted") /\ UNCHANGED cluster
  \/ step = "remove" /\ Leave("interrupted") /\ AskRemoval(k)

Interrupt(k) ==
  /\ "interrupt" \in Faults
  /\ InterruptBefore(k) \/ InterruptInside(k) \/ InterruptFinally(k)

CallerNext(k) ==
  \/ CreateGroup(k) \/ CreateRaises(k) \/ PreflightRaises
  \/ EnterTry \/ GroupReady(k) \/ ReadyTimesOut
  \/ Submit(k) \/ SubmitRaises(k) \/ GetReturns(k) \/ GetRaises(k) \/ GetTimesOut
  \/ Cancel(k) \/ CancelsDone \/ CancelRaises
  \/ Remove(k) \/ RemoveRaises(k)

-----------------------------------------------------------------------------
(* The cluster.                                                              *)

(* All bundles at once, when the GPUs that other groups have not given back  *)
(* suffice, and possibly while the removal is on its way.                    *)
GroupPlaced(k) ==
  /\ group[k] = "pending"
  /\ Workers * (Cardinality({j \in Runs : group[j] = "placed"}) + 1) <= Gpus
  /\ group' = [group EXCEPT ![k] = "placed"]
  /\ UNCHANGED <<caller, task, cancelling, removing>>

TaskStarts(k, r) ==
  /\ task[k][r] = "queued" /\ group[k] = "placed"
  /\ task' = [task EXCEPT ![k][r] = "running"]
  /\ UNCHANGED <<caller, group, cancelling, removing>>

(* A task leaves the queue or its worker; a request to cancel it is spent. *)
TaskBecomes(k, r, what) ==
  /\ task' = [task EXCEPT ![k][r] = what]
  /\ cancelling' = cancelling \ {<<k, r>>}
  /\ UNCHANGED <<caller, group, removing>>

TaskEnds(k, r) ==
  /\ task[k][r] = "running"
  /\ TaskBecomes(k, r, "ok") \/ TaskBecomes(k, r, "failed")

(* Mutant: Ray runs the task again. *)
WorkerDiesRetried(k, r) ==
  /\ task[k][r] = "running"
  /\ TaskBecomes(k, r, "queued")

(* The worker process dies: max_retries is 0. *)
WorkerDies(k, r) ==
  /\ task[k][r] = "running"
  /\ TaskBecomes(k, r, "failed")

(* A task that is stopped in the queue leaves no trace. *)
TaskStopped(k, r) ==
  /\ <<k, r>> \in cancelling \/ k \in removing
  /\ \/ task[k][r] = "running" /\ TaskBecomes(k, r, "failed")
     \/ task[k][r] = "queued" /\ TaskBecomes(k, r, "none")

(* The bundles are given back once no task is left in them, and the tasks    *)
(* are forgotten: their run has ended.                                       *)
GroupRemoved(k) ==
  /\ k \in removing
  /\ \A r \in Ranks : ~Unfinished(k, r)
  /\ group' = [group EXCEPT ![k] = IF @ = "pending" THEN "none" ELSE "gone"]
  /\ task' = [task EXCEPT ![k] = [r \in Ranks |-> "none"]]
  /\ removing' = removing \ {k}
  /\ UNCHANGED <<caller, cancelling>>

ClusterNext(k) ==
  \/ GroupPlaced(k) \/ GroupRemoved(k)
  \/ \E r \in Ranks : TaskStarts(k, r) \/ TaskEnds(k, r) \/ WorkerDies(k, r)
                      \/ TaskStopped(k, r)

=============================================================================
