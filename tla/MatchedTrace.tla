---------------------------- MODULE MatchedTrace ----------------------------
(* comparison.py: run_matched_trace(), which plays one trace of jobs under   *)
(* each policy, one after the other, with ray_backend.run() as the backend.  *)
(* The maps it is called with stay in the hands of the caller and of the     *)
(* jobs' workers, who may change them at any time.  What planner and workers *)
(* compute is a choice between success and failure.                          *)
EXTENDS RayRun, Sequences

CONSTANTS Policies,   \* PolicyName, in order; "gpu_count" is the baseline
          Jobs,       \* number of jobs of the trace
          Times       \* completion times of a successful job, 0 among them

ASSUME PoliciesAssumption ==
  /\ Policies \in Seq(STRING)
  /\ \E i \in DOMAIN Policies : Policies[i] = "gpu_count"
  /\ \A i, j \in DOMAIN Policies : Policies[i] = Policies[j] => i = j
ASSUME JobsAssumption == Jobs \in Nat \ {0}
ASSUME TimesAssumption == Times \subseteq Int \ {-1}      \* -1 is None

Attempts == Len(Policies) * Jobs

ASSUME RunsAssumption == 1 .. Attempts \subseteq Runs

VARIABLES
  live,      \* the state the caller's maps are in
  held,      \* the trace's copies of them
  phase, attempt,
  records,   \* list of TraceRecord
  report     \* what the trace returns

traceVars == <<live, held, phase, attempt, records, report>>
vars == <<runVars, traceVars>>

(* bandwidth_gbps and link_costs; the list of nodes and the jobs' compute    *)
(* maps are copied in the same way.  The caller may replace the values of    *)
(* both; the costs describe the bandwidths when both are in the same state.  *)
Maps == {"bandwidth", "costs"}
Status == {"succeeded", "failed"}

TypeOK ==
  /\ RunTypeOK
  /\ live \in {"old", "new"} /\ held \in [Maps -> {"none", "old", "new"}]
  /\ phase \in {"call", "costs", "check", "plan", "execute", "done", "raised"}
  /\ attempt \in 1 .. Attempts + 1
  /\ Len(records) <= Attempts
  /\ \A i \in DOMAIN records :
       records[i] \in [job : 1 .. Jobs, policy : {Policies[p] : p \in DOMAIN Policies},
                       inputs : [Maps -> {"old", "new"}], status : Status, jct : Times \cup {-1}]
  /\ Len(report) \in {0, Attempts}

Init ==
  /\ RunInit
  /\ live = "old" /\ held = [m \in Maps |-> "none"]
  /\ phase = "call" /\ attempt = 1 /\ records = <<>> /\ report = <<>>

JobOf(a)    == ((a - 1) % Jobs) + 1
PolicyOf(a) == Policies[((a - 1) \div Jobs) + 1]

-----------------------------------------------------------------------------
(* The arguments.                                                            *)

Copy(maps, from, to) ==
  /\ phase = from /\ phase' = to
  /\ held' = [m \in Maps |-> IF m \in maps THEN live ELSE held[m]]
  /\ UNCHANGED <<runVars, live, attempt, records, report>>

CopyBandwidth == Copy({"bandwidth"}, "call", "costs")
CopyCosts     == Copy({"costs"}, "costs", "check")

(* _validate_link_costs *)
Described(inputs) == inputs["bandwidth"] = inputs["costs"]

CheckCosts ==
  /\ phase = "check"
  /\ phase' = IF Described(held) THEN "plan" ELSE "raised"
  /\ UNCHANGED <<runVars, live, held, attempt, records, report>>

(* Mutant: the trace works on the caller's maps. *)
InputsShared == [m \in Maps |-> live]

Inputs == held

-----------------------------------------------------------------------------
(* One attempt: a job under a policy.                                        *)

Record(status, jct) ==
  [job |-> JobOf(attempt), policy |-> PolicyOf(attempt), inputs |-> Inputs,
   status |-> status, jct |-> jct]

(* No status but "succeeded" has a completion time. *)
NextAttempt(record) ==
  /\ records' = Append(records, record)
  /\ attempt' = attempt + 1
  /\ phase' = "plan"

(* plan_with_record raises: costs that do not describe, or no placement. *)
PlanFails ==
  /\ phase = "plan" /\ attempt <= Attempts
  /\ NextAttempt(Record("failed", -1))
  /\ UNCHANGED <<runVars, live, held, report>>

PlanPasses ==
  /\ phase = "plan" /\ attempt <= Attempts
  /\ Described(Inputs)
  /\ phase' = "execute"
  /\ step' = "preflight"
  /\ UNCHANGED <<result, refs, cancelled, abandoned, cluster, live, held, attempt, records, report>>

Finished == phase = "execute" /\ step = "out"

Executed ==
  /\ Finished
  /\ \/ /\ result = "ok"
        /\ \E jct \in Times : NextAttempt(Record("succeeded", jct))
     \/ /\ result = "failed"
        /\ NextAttempt(Record("failed", -1))
  /\ result' = "none"
  /\ UNCHANGED <<step, refs, cancelled, abandoned, cluster, live, held, report>>

(* run_with_record and the trace catch Exception, not KeyboardInterrupt. *)
Interrupted ==
  /\ Finished /\ result = "interrupted"
  /\ phase' = "raised"
  /\ UNCHANGED <<runVars, live, held, attempt, records, report>>

-----------------------------------------------------------------------------
(* Normalization.                                                            *)

(* Mutant: a job's last record is its baseline. *)
BaselineLast(job) ==
  records[CHOOSE i \in DOMAIN records :
            records[i].job = job /\ \A j \in DOMAIN records : records[j].job = job => j <= i]

Baseline(job) ==
  records[CHOOSE i \in DOMAIN records : records[i].job = job /\ records[i].policy = "gpu_count"]

Reason(record, baseline) ==
  CASE record.status # "succeeded"   -> "job_failed"
    [] baseline.status # "succeeded" /\ record.status = "succeeded" -> "baseline_failed"
    [] OTHER -> IF baseline.jct <= 0 THEN "nonpositive_baseline_jct" ELSE "none"

(* normalized_jct: whether there is a ratio. *)
HasRatio(record, baselineJct) == record.jct # -1 /\ baselineJct > 0

Normalize ==
  /\ phase = "plan" /\ attempt > Attempts
  /\ report' = [i \in 1 .. Attempts |->
       LET baseline == Baseline(records[i].job)
       IN [baselineJct |-> baseline.jct, reason |-> Reason(records[i], baseline),
           ratio |-> HasRatio(records[i], baseline.jct)]]
  /\ phase' = "done"
  /\ UNCHANGED <<runVars, live, held, attempt, records>>

-----------------------------------------------------------------------------
(* The caller's other threads, or a worker that shares its memory, at the    *)
(* moments that differ: around the copies, and while a run awaits its tasks. *)
MapsChange ==
  /\ live = "old" /\ (phase \in {"costs", "check"} \/ step = "get")
  /\ live' = "new"
  /\ UNCHANGED <<runVars, held, phase, attempt, records, report>>

TraceNext == \/ CopyBandwidth \/ CopyCosts \/ CheckCosts
             \/ PlanFails \/ PlanPasses \/ Executed \/ Interrupted \/ Normalize

RunNext == CallerNext(attempt) /\ UNCHANGED traceVars

(* The cluster carries out what it was asked to cancel or to remove. *)
CleanNext ==
  /\ \E k \in Runs : GroupRemoved(k) \/ \E r \in Ranks : TaskStopped(k, r)
  /\ UNCHANGED traceVars

Next == \/ TraceNext \/ RunNext
        \/ Interrupt(attempt) /\ UNCHANGED traceVars
        \/ \E k \in Runs : ClusterNext(k) /\ UNCHANGED traceVars
        \/ MapsChange

Spec == Init /\ [][Next]_vars

(* The trace runs and its waits have deadlines; removals and cancellations   *)
(* are carried out at last.  No reservation has to be granted, and no task   *)
(* has to start or to end.                                                   *)
FairSpec == Spec /\ WF_vars(TraceNext) /\ WF_vars(RunNext) /\ WF_vars(CleanNext)

-----------------------------------------------------------------------------
(* Properties.                                                               *)

(* What the runs before leave on the cluster.  Their reservations stay only  *)
(* while a removal that they asked for is on its way, unless the creation or *)
(* the removal raised or was interrupted; and tasks that go on beside those  *)
(* of the next run belong to an attempt that is recorded as failed.          *)
LeftoversAreAccounted ==
  /\ \A k \in Runs : group[k] \in {"pending", "placed"} =>
       (k = attempt /\ step # "out") \/ k \in removing \cup abandoned
  /\ \A k \in DOMAIN records : (\E r \in Ranks : Unfinished(k, r)) => records[k].status = "failed"

(* The comparison is matched: every attempt, failed ones included, is        *)
(* recorded with the same maps, and costs that describe its bandwidths,      *)
(* however the caller's maps change during the trace.                        *)
InputsMatch ==
  \A i, j \in DOMAIN records :
    records[i].inputs = records[j].inputs /\ Described(records[i].inputs)

(* A ratio is there exactly when no reason is given against it, and then it  *)
(* divides by a positive time of the same job under gpu_count, which was     *)
(* attempted once.                                                           *)
RatiosAreMatched ==
  \A i \in DOMAIN report :
    /\ report[i].ratio <=> report[i].reason = "none"
    /\ \E b \in DOMAIN records :
         /\ records[b].policy = "gpu_count" /\ records[b].job = JobOf(i)
         /\ \A c \in DOMAIN records \ {b} :
              records[c].policy # "gpu_count" \/ records[c].job # JobOf(i)
         /\ report[i].ratio <=> /\ records[i].status = "succeeded"
                                /\ records[b].status = "succeeded" /\ records[b].jct > 0
         /\ report[i].ratio => report[i].baselineJct = records[b].jct

(* Each run implements the custody contract that DynamoService implements:   *)
(* no GPU is used before the reservation or after its end, and no rank runs  *)
(* twice.                                                                    *)
Custody(k) == INSTANCE GpuCustody WITH
                custody <- CASE group[k] = "placed" -> "held"
                             [] group[k] = "gone" -> "returned"
                             [] OTHER -> "free",
                running <- {r \in Ranks : task[k][r] = "running"},
                used    <- {r \in Ranks : task[k][r] \in {"running", "ok", "failed"}}

CustodyOfRuns ==
  /\ \A k \in Runs : Custody(k)!Init
  /\ [][\A k \in Runs : Custody(k)!Next \/ UNCHANGED Custody(k)!vars]_vars

(* The trace ends, by its report or by an exception, and nothing of its runs *)
(* is left on the cluster, even when a cancellation raised; only a run whose *)
(* reservation or removal raised, or was interrupted, leaves a group behind. *)
TraceEndsClean ==
  <>[](/\ phase \in {"done", "raised"}
       /\ \A k \in Runs \ abandoned :
                          /\ group[k] \in {"none", "gone"}
                          /\ \A r \in Ranks : ~Unfinished(k, r))
=============================================================================
