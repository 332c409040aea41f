------------------------- MODULE MatchedTraceProof -------------------------
(* Theorems of MatchedTrace, and of the runs of RayRun it makes, for every   *)
(* number of policies, jobs, workers and GPUs.                               *)
EXTENDS MatchedTrace, SequenceTheorems, TLAPS

(* The runs that have been begun: their names may be known to the cluster.   *)
Begun == IF phase \in {"execute", "raised"} /\ step # "preflight"
         THEN 1 .. attempt ELSE 1 .. attempt - 1

(* Where the trace is, and the run of its attempt.                           *)
CallerInv ==
  /\ phase = "execute" => attempt <= Attempts
  /\ phase # "execute" => step = "out"
  /\ phase \notin {"execute", "raised"} => result = "none"
  /\ step \in {"preflight", "created", "ready", "submit", "get"} => result = "none"
  /\ step \notin {"submit", "get", "cancel", "remove"} => refs = 0
  /\ step \notin {"cancel", "remove"} => cancelled = 0
  /\ step = "submit" => refs < Workers

(* The groups and the tasks of the runs: a task is only there while the      *)
(* bundles are held, a removal is only asked for once, and the run of the    *)
(* attempt has its bundles as long as it submits or waits.                   *)
ClusterInv ==
  /\ \A k \in Runs : \A r \in Ranks : task[k][r] # "none" => group[k] = "placed"
  /\ \A k \in removing : group[k] \in {"pending", "placed"}
  /\ \A k \in Runs \ Begun : group[k] = "none"
  /\ step \in {"created", "ready", "submit", "get", "cancel", "remove"} =>
       attempt \notin removing /\ group[attempt] \in {"pending", "placed"}
  /\ step \in {"submit", "get"} => group[attempt] = "placed"
  /\ step \in {"preflight", "created", "ready", "submit"} =>
       \A r \in Ranks : r >= refs => task[attempt][r] = "none"

(* A run that succeeds leaves no task that goes on.                          *)
LeftInv ==
  /\ result = "ok" /\ attempt \in Runs => \A r \in Ranks : ~Unfinished(attempt, r)
  /\ LeftoversAreAccounted

RunInv == RunTypeOK /\ CallerInv /\ ClusterInv /\ LeftInv

TraceRecord ==
  [job : 1 .. Jobs, policy : {Policies[p] : p \in DOMAIN Policies},
   inputs : [Maps -> {"old", "new"}], status : Status, jct : Times \cup {-1}]

TraceTypeOK ==
  /\ live \in {"old", "new"} /\ held \in [Maps -> {"none", "old", "new"}]
  /\ phase \in {"call", "costs", "check", "plan", "execute", "done", "raised"}
  /\ attempt \in 1 .. Attempts + 1
  /\ records \in Seq(TraceRecord)

(* What has been recorded, in the order of the attempts, and the copies that *)
(* every attempt works on.                                                   *)
RecordsInv ==
  /\ Len(records) = attempt - 1
  /\ phase \in {"call", "costs", "check"} => records = <<>>
  /\ phase # "call" => held["bandwidth"] # "none"
  /\ phase \notin {"call", "costs"} => held["costs"] # "none"
  /\ phase \in {"plan", "execute", "done"} \/ records # <<>> => Described(held)
  /\ \A i \in DOMAIN records :
       /\ records[i].job = JobOf(i) /\ records[i].policy = PolicyOf(i)
       /\ records[i].inputs = held
       /\ records[i].status = "succeeded" <=> records[i].jct # -1

Normalized ==
  [i \in 1 .. Attempts |->
     LET baseline == Baseline(records[i].job)
     IN [baselineJct |-> baseline.jct, reason |-> Reason(records[i], baseline),
         ratio |-> HasRatio(records[i], baseline.jct)]]

ReportInv ==
  /\ phase # "done" => report = <<>>
  /\ phase = "done" => attempt = Attempts + 1 /\ report = Normalized

TraceInv == TraceTypeOK /\ RecordsInv /\ ReportInv

IInv == RunInv /\ TraceInv

-----------------------------------------------------------------------------
(* Attempts, jobs and policies.                                              *)

LEMMA Division ==
  ASSUME NEW n \in Nat \ {0}, NEW a \in Nat
  PROVE  /\ a \div n \in Nat /\ a % n \in 0 .. n - 1
         /\ a = (n * (a \div n)) + (a % n)
OBVIOUS

LEMMA DivisionUnique ==
  ASSUME NEW n \in Nat \ {0}, NEW q \in Nat, NEW r \in 0 .. n - 1
  PROVE  /\ (n * q) + r \in Nat
         /\ ((n * q) + r) \div n = q /\ ((n * q) + r) % n = r
OBVIOUS

LEMMA ProductsGrow ==
  ASSUME NEW n \in Nat, NEW q \in Nat, NEW l \in Nat, l <= q
  PROVE  n * l \in Nat /\ n * q \in Nat /\ n * l <= n * q
OBVIOUS

LEMMA QuotientBound ==
  ASSUME NEW n \in Nat \ {0}, NEW l \in Nat, NEW a \in Nat, a < l * n
  PROVE  a \div n < l
<1>1. a \div n \in Nat /\ a % n \in 0 .. n - 1 /\ a = (n * (a \div n)) + (a % n)
  BY Division
<1>2. l * n = n * l
  OBVIOUS
<1>3. CASE l <= a \div n
  <2>1. n * l \in Nat /\ n * (a \div n) \in Nat /\ n * l <= n * (a \div n)
    BY <1>1, <1>3, ProductsGrow
  <2> QED BY <1>1, <1>2, <2>1
<1> QED BY <1>1, <1>3

LEMMA AttemptsType ==
  /\ Attempts \in Nat /\ Len(Policies) \in Nat /\ DOMAIN Policies = 1 .. Len(Policies)
  /\ \A a \in 1 .. Attempts : a - 1 \in Nat /\ a - 1 < Len(Policies) * Jobs
<1>1. Len(Policies) \in Nat /\ DOMAIN Policies = 1 .. Len(Policies)
  BY PoliciesAssumption, LenProperties
<1>2. Attempts \in Nat
  BY <1>1, JobsAssumption DEF Attempts
<1>3. Attempts = Len(Policies) * Jobs
  BY DEF Attempts
<1> QED BY <1>1, <1>2, <1>3

(* The attempts are the pairs of a policy and a job, each once.              *)
LEMMA AttemptIsPair ==
  ASSUME NEW a \in 1 .. Attempts
  PROVE  /\ JobOf(a) \in 1 .. Jobs
         /\ (a - 1) \div Jobs \in Nat
         /\ (a - 1) \div Jobs + 1 \in DOMAIN Policies
         /\ PolicyOf(a) \in {Policies[p] : p \in DOMAIN Policies}
<1> DEFINE x == a - 1
<1>1. x \in Nat /\ x < Len(Policies) * Jobs
  BY AttemptsType
<1> HIDE DEF x
<1>2. x \div Jobs \in Nat /\ x % Jobs \in 0 .. Jobs - 1
  BY <1>1, Division, JobsAssumption
<1>3. x \div Jobs < Len(Policies)
  BY <1>1, AttemptsType, QuotientBound, JobsAssumption
<1>4. (x \div Jobs) + 1 \in DOMAIN Policies /\ (x % Jobs) + 1 \in 1 .. Jobs
  BY <1>2, <1>3, AttemptsType, JobsAssumption
<1> QED BY <1>2, <1>4 DEF JobOf, PolicyOf, x

LEMMA PairsDiffer ==
  ASSUME NEW a \in 1 .. Attempts, NEW b \in 1 .. Attempts,
         JobOf(a) = JobOf(b), PolicyOf(a) = PolicyOf(b)
  PROVE  a = b
<1> DEFINE x == a - 1
           y == b - 1
<1>1. x \in Nat /\ y \in Nat
  BY AttemptsType
<1>2. /\ x \div Jobs \in Nat /\ (x \div Jobs) + 1 \in DOMAIN Policies
      /\ y \div Jobs \in Nat /\ (y \div Jobs) + 1 \in DOMAIN Policies
  BY AttemptIsPair
<1>3. Policies[(x \div Jobs) + 1] = Policies[(y \div Jobs) + 1] /\ (x % Jobs) + 1 = (y % Jobs) + 1
  BY DEF PolicyOf, JobOf
<1>4. a = x + 1 /\ b = y + 1
  BY AttemptsType
<1> HIDE DEF x, y
<1>5. (x \div Jobs) + 1 = (y \div Jobs) + 1
  BY <1>2, <1>3, PoliciesAssumption
<1>6. x \div Jobs = y \div Jobs
  BY <1>2, <1>5
<1>7. /\ x % Jobs \in 0 .. Jobs - 1 /\ x = (Jobs * (x \div Jobs)) + (x % Jobs)
      /\ y % Jobs \in 0 .. Jobs - 1 /\ y = (Jobs * (y \div Jobs)) + (y % Jobs)
  BY <1>1, Division, JobsAssumption
<1>8. x % Jobs = y % Jobs
  BY <1>3, <1>7, JobsAssumption
<1> QED BY <1>4, <1>6, <1>7, <1>8

(* Every job is attempted under gpu_count.                                   *)
LEMMA BaselineAttempted ==
  ASSUME NEW job \in 1 .. Jobs
  PROVE  \E b \in 1 .. Attempts : JobOf(b) = job /\ PolicyOf(b) = "gpu_count"
<1>1. PICK p \in DOMAIN Policies : Policies[p] = "gpu_count"
  BY PoliciesAssumption
<1>2. p \in 1 .. Len(Policies) /\ Len(Policies) \in Nat /\ p - 1 \in Nat /\ job - 1 \in 0 .. Jobs - 1
  BY AttemptsType, JobsAssumption
<1> DEFINE x == (Jobs * (p - 1)) + (job - 1)
<1>3. x \in Nat /\ x \div Jobs = p - 1 /\ x % Jobs = job - 1
  BY <1>2, DivisionUnique, JobsAssumption
<1>4. x + 1 <= Attempts
  <2> DEFINE l == Len(Policies) - 1
             q == p - 1
  <2>1. l \in Nat /\ q \in Nat /\ q <= l /\ Len(Policies) = l + 1
    BY <1>2
  <2>2. x = (Jobs * q) + (job - 1)
    OBVIOUS
  <2> HIDE DEF l, q, x
  <2>3. Jobs * q <= Jobs * l /\ Jobs * q \in Nat /\ Jobs * l \in Nat
    BY <2>1, ProductsGrow, JobsAssumption
  <2>4. Attempts = (Jobs * l) + Jobs
    BY <2>1, JobsAssumption DEF Attempts
  <2> QED BY <1>2, <2>2, <2>3, <2>4, JobsAssumption
<1> HIDE DEF x
<1>5. x + 1 \in 1 .. Attempts /\ (x + 1) - 1 = x
  BY <1>3, <1>4, AttemptsType
<1>6. JobOf(x + 1) = job /\ PolicyOf(x + 1) = "gpu_count"
  BY <1>1, <1>2, <1>3, <1>5, JobsAssumption DEF JobOf, PolicyOf
<1> QED BY <1>5, <1>6

-----------------------------------------------------------------------------
USE WorkersAssumption, GpusAssumption, RunsAssumption, AttemptsType DEF Ranks, caller, cluster

(* Each attempt before the present one has a record, and a run of its own.   *)
LEMMA RecordsAreRuns ==
  ASSUME IInv
  PROVE  DOMAIN records = 1 .. attempt - 1 /\ attempt \notin DOMAIN records /\ DOMAIN records \subseteq Runs
<1>1. DOMAIN records = 1 .. attempt - 1 /\ attempt \in 1 .. Attempts + 1
  BY LenProperties DEF IInv, TraceInv, TraceTypeOK, RecordsInv
<1> QED BY <1>1

(* A step of the caller that asks nothing of the cluster.                    *)
LEMMA CallerAlone ==
  ASSUME IInv, phase = "execute", UNCHANGED <<cluster, traceVars>>, RunTypeOK', CallerInv',
         \/ step' = "out"
         \/ step' \in {"cancel", "remove"} /\ step \notin {"preflight", "out"}
         \/ step = "created" /\ step' = "ready" /\ refs' = refs
         \/ step = "ready" /\ step' = "submit" /\ group[attempt] = "placed" /\ refs' = refs,
         result' = "ok" => result = "ok" \/ \A r \in Ranks : task[attempt][r] = "ok",
         abandoned \subseteq abandoned', step' = "out" => step = "preflight" \/ attempt \in abandoned'
  PROVE  RunInv'
<1>1. ClusterInv'
  <2>1. Begun \subseteq Begun'
    BY DEF Begun, IInv, TraceInv, TraceTypeOK, traceVars
  <2> USE <2>1 DEF IInv, RunInv, ClusterInv, CallerInv, traceVars
  <2>2. CASE step' = "out"
    BY <2>2
  <2>3. CASE step' \in {"cancel", "remove"} /\ step \notin {"preflight", "out"}
    BY <2>3 DEF RunTypeOK
  <2>4. CASE step = "created" /\ step' = "ready" /\ refs' = refs
    BY <2>4
  <2>5. CASE step = "ready" /\ step' = "submit" /\ group[attempt] = "placed" /\ refs' = refs
    BY <2>5
  <2> QED BY <2>2, <2>3, <2>4, <2>5
<1>2. step = "preflight" => group[attempt] = "none"
  <2>1. attempt \in Runs /\ (step = "preflight" => attempt \notin Begun)
    BY DEF Begun, IInv, RunInv, CallerInv, TraceInv, TraceTypeOK
  <2> QED BY <2>1 DEF IInv, RunInv, ClusterInv
<1>3. LeftInv'
  BY <1>2 DEF IInv, RunInv, CallerInv, LeftInv, LeftoversAreAccounted, Unfinished, traceVars
<1> QED BY <1>1, <1>3 DEF RunInv

(* The run of attempt k steps; the trace stands still.                       *)
LEMMA CallerStep ==
  ASSUME IInv, phase = "execute", CallerNext(attempt) \/ Interrupt(attempt), UNCHANGED traceVars
  PROVE  RunInv'
<1> DEFINE k == attempt
<1>1. k \in 1 .. Attempts /\ k \in Runs
  BY DEF IInv, RunInv, CallerInv, TraceInv, TraceTypeOK
<1> USE DEF IInv, RunInv, RunTypeOK, traceVars
<1>2. CASE CreateGroup(k)
  <2> USE <1>1, <1>2 DEF CreateGroup
  <2>1. group[k] = "none" /\ k \notin removing
    BY DEF ClusterInv, Begun
  <2>2. RunTypeOK' /\ CallerInv'
    BY DEF CallerInv
  <2>3. ClusterInv'
    BY <2>1 DEF ClusterInv, Begun, CallerInv
  <2>4. LeftInv'
    BY DEF LeftInv, LeftoversAreAccounted, Unfinished, CallerInv
  <2> QED BY <2>2, <2>3, <2>4
<1>3. CASE CreateRaises(k)
  <2> USE <1>1, <1>3 DEF CreateRaises, Abandon
  <2>1. group[k] = "none" /\ k \notin removing
    BY DEF ClusterInv, Begun
  <2>2. RunTypeOK' /\ CallerInv'
    BY DEF CallerInv
  <2>3. ClusterInv'
    BY <2>1 DEF ClusterInv, Begun, CallerInv
  <2>4. LeftInv'
    BY DEF LeftInv, LeftoversAreAccounted, Unfinished, CallerInv
  <2> QED BY <2>2, <2>3, <2>4
<1>4. CASE PreflightRaises
  <2>1. RunTypeOK' /\ CallerInv'
    BY <1>1, <1>4 DEF PreflightRaises, Leave, CallerInv
  <2> QED BY <1>4, <2>1, CallerAlone DEF PreflightRaises, Leave
<1>5. CASE EnterTry
  <2>1. RunTypeOK' /\ CallerInv'
    BY <1>1, <1>5 DEF EnterTry, CallerInv
  <2> QED BY <1>5, <2>1, CallerAlone DEF EnterTry
<1>6. CASE GroupReady(k)
  <2>1. RunTypeOK' /\ CallerInv'
    BY <1>1, <1>6 DEF GroupReady, CallerInv
  <2> QED BY <1>6, <2>1, CallerAlone DEF GroupReady
<1>7. CASE ReadyTimesOut
  <2>1. RunTypeOK' /\ CallerInv'
    BY <1>1, <1>7 DEF ReadyTimesOut, Finally, CallerInv
  <2> QED BY <1>7, <2>1, CallerAlone DEF ReadyTimesOut, Finally
<1>8. ASSUME step = "submit", Launch(k), UNCHANGED <<cancelled, abandoned>>,
             result' \in {"none", "failed", "interrupted"},
             \/ refs' = refs /\ step' = "cancel"
             \/ /\ refs' = refs + 1 /\ step' = IF refs' = Workers THEN "get" ELSE "submit"
                /\ result' = result
      PROVE  RunInv'
  <2> USE <1>1, <1>8 DEF Launch
  <2>1. refs \in Ranks /\ result = "none"
    BY DEF CallerInv
  <2>2. task' = [task EXCEPT ![k] = [task[k] EXCEPT ![refs] = "queued"]]
    OBVIOUS
  <2>3. RunTypeOK' /\ CallerInv'
    BY <2>1, <2>2 DEF CallerInv
  <2>4. ClusterInv'
    BY <2>1, <2>2 DEF ClusterInv, Begun, CallerInv
  <2>5. LeftInv'
    <3>1. k \notin DOMAIN records /\ DOMAIN records \subseteq Runs
      BY RecordsAreRuns
    <3>2. \A j \in Runs \ {k} : task'[j] = task[j]
      BY <2>2
    <3> QED BY <2>1, <3>1, <3>2 DEF LeftInv, LeftoversAreAccounted, Unfinished
  <2> QED BY <2>3, <2>4, <2>5
<1>9. CASE SubmitRaises(k)
  <2>1. CASE UNCHANGED cluster
    <3>1. RunTypeOK' /\ CallerInv'
      BY <1>1, <1>9, <2>1 DEF SubmitRaises, Finally, CallerInv
    <3> QED BY <1>9, <2>1, <3>1, CallerAlone DEF SubmitRaises, Finally
  <2> QED BY <1>9, <1>8, <2>1 DEF SubmitRaises, Finally
<1>10. CASE GetReturns(k)
  <2>1. RunTypeOK' /\ CallerInv'
    BY <1>1, <1>10 DEF GetReturns, Finally, CallerInv
  <2> QED BY <1>10, <2>1, CallerAlone DEF GetReturns, Finally
<1>11. CASE GetRaises(k)
  <2>1. RunTypeOK' /\ CallerInv'
    BY <1>1, <1>11 DEF GetRaises, Finally, CallerInv
  <2> QED BY <1>11, <2>1, CallerAlone DEF GetRaises, Finally
<1>12. CASE GetTimesOut
  <2>1. RunTypeOK' /\ CallerInv'
    BY <1>1, <1>12 DEF GetTimesOut, Finally, CallerInv
  <2> QED BY <1>12, <2>1, CallerAlone DEF GetTimesOut, Finally
<1>13. CASE CancelsDone
  <2>1. RunTypeOK' /\ CallerInv'
    BY <1>1, <1>13 DEF CancelsDone, CallerInv
  <2> QED BY <1>13, <2>1, CallerAlone DEF CancelsDone
<1>14. CASE CancelRaises
  <2>1. RunTypeOK' /\ CallerInv'
    BY <1>1, <1>14 DEF CancelRaises, CallerInv
  <2> QED BY <1>14, <2>1, CallerAlone DEF CancelRaises
<1>15. ASSUME step = "remove", AskRemoval(k), NEW how \in {result, "failed", "interrupted"}, Leave(how)
       PROVE  RunInv'
  <2> USE <1>1, <1>15 DEF AskRemoval, Leave
  <2>1. RunTypeOK'
    OBVIOUS
  <2>2. CallerInv'
    BY DEF CallerInv
  <2>3. ClusterInv'
    BY DEF ClusterInv, Begun, CallerInv
  <2>4. LeftInv'
    BY DEF LeftInv, LeftoversAreAccounted, Unfinished, CallerInv
  <2> QED BY <2>1, <2>2, <2>3, <2>4
<1>16. CASE RemoveRaises(k)
  <2>1. CASE Abandon(k, "failed") /\ UNCHANGED cluster
    <3>1. RunTypeOK' /\ CallerInv'
      BY <1>1, <1>16, <2>1 DEF RemoveRaises, Abandon, CallerInv
    <3> QED BY <1>16, <2>1, <3>1, CallerAlone DEF RemoveRaises, Abandon
  <2> QED BY <1>16, <1>15, <2>1 DEF RemoveRaises
<1>17. CASE Submit(k)
  <2>1. result = "none"
    BY <1>17 DEF Submit, CallerInv
  <2> QED BY <1>17, <1>8, <2>1 DEF Submit
<1>18. CASE Cancel(k)
  <2> USE <1>1, <1>18 DEF Cancel
  <2>1. RunTypeOK' /\ CallerInv'
    BY DEF CallerInv
  <2>2. ClusterInv'
    BY DEF ClusterInv, Begun, CallerInv
  <2>3. LeftInv'
    BY DEF LeftInv, LeftoversAreAccounted, Unfinished, CallerInv
  <2> QED BY <2>1, <2>2, <2>3
<1>19. CASE Remove(k)
  BY <1>19, <1>15 DEF Remove
<1>20. CASE Interrupt(k)
  <2>1. CASE InterruptBefore(k)
    <3>1. RunTypeOK' /\ CallerInv'
      BY <1>1, <2>1 DEF InterruptBefore, Leave, Abandon, CallerInv
    <3> QED BY <2>1, <3>1, CallerAlone DEF InterruptBefore, Leave, Abandon
  <2>2. CASE InterruptInside(k) /\ UNCHANGED cluster
    <3>1. RunTypeOK' /\ CallerInv'
      BY <1>1, <2>2 DEF InterruptInside, Finally, CallerInv
    <3> QED BY <2>2, <3>1, CallerAlone DEF InterruptInside, Finally
  <2>3. CASE InterruptInside(k) /\ step = "submit" /\ Launch(k)
    BY <1>8, <2>3 DEF InterruptInside, Finally
  <2>4. CASE step = "remove" /\ Leave("interrupted") /\ AskRemoval(k)
    BY <1>15, <2>4
  <2>5. CASE /\ step = "cancel" /\ step' = "remove" /\ result' = "interrupted"
             /\ UNCHANGED <<refs, cancelled, abandoned, cluster>>
    <3>1. RunTypeOK' /\ CallerInv'
      BY <1>1, <2>5 DEF CallerInv
    <3> QED BY <2>5, <3>1, CallerAlone
  <2>6. CASE step = "remove" /\ Abandon(k, "interrupted") /\ UNCHANGED cluster
    <3>1. RunTypeOK' /\ CallerInv'
      BY <1>1, <2>6 DEF Abandon, CallerInv
    <3> QED BY <2>6, <3>1, CallerAlone DEF Abandon
  <2> QED BY <1>20, <2>1, <2>2, <2>3, <2>4, <2>5, <2>6 DEF Interrupt, InterruptInside, InterruptFinally
<1> QED BY <1>2, <1>3, <1>4, <1>5, <1>6, <1>7, <1>9, <1>10, <1>11, <1>12, <1>13, <1>14, <1>16,
           <1>17, <1>18, <1>19, <1>20 DEF CallerNext

(* The cluster steps, for a run that may be over.                            *)
LEMMA ClusterStep ==
  ASSUME IInv, NEW k \in Runs, ClusterNext(k), UNCHANGED traceVars
  PROVE  RunInv'
<1> USE DEF IInv, RunInv, RunTypeOK, traceVars
<1>1. CallerInv'
  BY DEF CallerInv, ClusterNext, GroupPlaced, GroupRemoved, TaskStarts, TaskEnds, WorkerDies,
     TaskStopped, TaskBecomes
<1>2. CASE GroupPlaced(k)
  <2> USE <1>2 DEF GroupPlaced
  <2>1. RunTypeOK'
    OBVIOUS
  <2>2. k \in Begun
    BY DEF ClusterInv
  <2>3. ClusterInv'
    BY <2>2 DEF ClusterInv, Begun
  <2>4. LeftInv'
    BY DEF LeftInv, LeftoversAreAccounted, Unfinished
  <2> QED BY <1>1, <2>1, <2>3, <2>4
<1>3. CASE GroupRemoved(k)
  <2> USE <1>3 DEF GroupRemoved
  <2>1. RunTypeOK'
    OBVIOUS
  <2>2. k \in Begun /\ (group[k] = "pending" \/ group'[k] = "gone")
    BY DEF ClusterInv
  <2>3. ClusterInv'
    BY <2>2 DEF ClusterInv, Begun
  <2>4. LeftInv'
    BY <2>2, RecordsAreRuns DEF LeftInv, LeftoversAreAccounted, Unfinished
  <2> QED BY <1>1, <2>1, <2>3, <2>4
<1>4. ASSUME NEW r \in Ranks, NEW what \in {"none", "running", "ok", "failed"},
             task[k][r] \in {"queued", "running"},
             task' = [task EXCEPT ![k][r] = what],
             cancelling' \subseteq cancelling, UNCHANGED <<caller, group, removing>>
      PROVE  RunInv'
  <2> USE <1>4
  <2>1. task' = [task EXCEPT ![k] = [task[k] EXCEPT ![r] = what]]
    OBVIOUS
  <2>2. RunTypeOK'
    BY <2>1
  <2>3. ClusterInv'
    BY <2>1 DEF ClusterInv, Begun
  <2>4. LeftInv'
    <3>1. \A j \in Runs : \A q \in Ranks : Unfinished(j, q)' => Unfinished(j, q)
      BY <2>1 DEF Unfinished
    <3> QED BY <3>1, RecordsAreRuns DEF LeftInv, LeftoversAreAccounted
  <2> QED BY <1>1, <2>2, <2>3, <2>4
<1>5. ASSUME NEW r \in Ranks,
             TaskStarts(k, r) \/ TaskEnds(k, r) \/ WorkerDies(k, r) \/ TaskStopped(k, r)
      PROVE  RunInv'
  BY <1>4, <1>5 DEF TaskStarts, TaskEnds, WorkerDies, TaskStopped, TaskBecomes
<1> QED BY <1>2, <1>3, <1>5 DEF ClusterNext

-----------------------------------------------------------------------------
(* The trace.                                                                *)

LEMMA InitInv == Init => IInv
<1> SUFFICES ASSUME Init PROVE IInv
  OBVIOUS
<1> USE DEF Init, RunInit
<1>1. RunTypeOK
  BY DEF RunTypeOK
<1>2. CallerInv /\ ClusterInv /\ LeftInv
  BY EmptySeq DEF CallerInv, ClusterInv, LeftInv, LeftoversAreAccounted, Begun
<1>3. TraceTypeOK
  BY EmptySeq DEF TraceTypeOK
<1>4. RecordsInv /\ ReportInv
  BY EmptySeq DEF RecordsInv, ReportInv, Maps
<1> QED BY <1>1, <1>2, <1>3, <1>4 DEF IInv, RunInv, TraceInv

(* Before the first attempt the trace only copies and checks.                *)
LEMMA ArgumentStep ==
  ASSUME IInv, CopyBandwidth \/ CopyCosts \/ CheckCosts \/ MapsChange
  PROVE  IInv'
<1> USE DEF IInv, CopyBandwidth, CopyCosts, CheckCosts, MapsChange, Copy
<1>1. RunInv'
  <2>1. UNCHANGED <<runVars, attempt>>
    OBVIOUS
  <2>2. phase' = phase \/ (phase \notin {"execute", "raised"} /\ phase' # "execute")
    OBVIOUS
  <2>3. Begun \subseteq Begun'
    BY <2>1, <2>2 DEF Begun, runVars, TraceInv, TraceTypeOK
  <2> QED BY <2>1, <2>2, <2>3 DEF RunInv, RunTypeOK, CallerInv, ClusterInv, LeftInv, LeftoversAreAccounted,
       Unfinished, runVars
<1>2. TraceTypeOK'
  BY DEF TraceInv, TraceTypeOK, Maps
<1>3. RecordsInv'
  BY DEF TraceInv, TraceTypeOK, RecordsInv, Maps, Described
<1>4. ReportInv'
  BY DEF TraceInv, ReportInv, Normalized, Baseline
<1> QED BY <1>1, <1>2, <1>3, <1>4 DEF TraceInv

(* A record is added for the attempt, and its run's name is spent.           *)
LEMMA NextAttemptInv ==
  ASSUME IInv, attempt <= Attempts, phase \in {"plan", "execute"},
         NEW status \in Status, NEW jct \in Times \cup {-1},
         status = "succeeded" <=> jct # -1,
         NextAttempt(Record(status, jct)),
         UNCHANGED <<live, held, report>>
  PROVE  /\ TraceInv'
         /\ DOMAIN records' = DOMAIN records \cup {attempt} /\ records'[attempt].status = status
         /\ \A i \in DOMAIN records : records'[i] = records[i]
<1> DEFINE record == Record(status, jct)
<1> USE DEF IInv, TraceInv, TraceTypeOK
<1>1. attempt \in 1 .. Attempts
  OBVIOUS
<1>2. held \in [Maps -> {"old", "new"}]
  BY DEF RecordsInv, Maps
<1>3. record \in TraceRecord
  BY <1>1, <1>2, AttemptIsPair DEF Record, Inputs, TraceRecord
<1>4. /\ records' \in Seq(TraceRecord) /\ Len(records') = attempt /\ records'[attempt] = record
      /\ \A i \in 1 .. attempt - 1 : records'[i] = records[i]
      /\ DOMAIN records' = 1 .. attempt /\ DOMAIN records = 1 .. attempt - 1
  BY <1>1, <1>3, AppendProperties, LenProperties DEF NextAttempt, RecordsInv
<1>5. TraceTypeOK'
  BY <1>1, <1>4 DEF NextAttempt
<1>6. RecordsInv'
  <2>1. ASSUME NEW i \in 1 .. attempt
        PROVE  /\ records'[i].job = JobOf(i) /\ records'[i].policy = PolicyOf(i)
               /\ records'[i].inputs = held
               /\ records'[i].status = "succeeded" <=> records'[i].jct # -1
    <3>1. CASE i = attempt
      BY <1>4, <3>1 DEF Record, Inputs
    <3>2. CASE i \in 1 .. attempt - 1
      BY <1>4, <3>2 DEF RecordsInv
    <3> QED BY <1>1, <3>1, <3>2
  <2>2. Described(held') /\ phase' = "plan" /\ Len(records') = attempt' - 1
    BY <1>1, <1>4 DEF NextAttempt, RecordsInv
  <2> QED BY <1>4, <2>1, <2>2 DEF RecordsInv
<1>7. ReportInv'
  BY DEF ReportInv, NextAttempt
<1>8. DOMAIN records' = DOMAIN records \cup {attempt} /\ records'[attempt].status = status
  BY <1>1, <1>4 DEF Record
<1> QED BY <1>4, <1>5, <1>6, <1>7, <1>8

LEMMA AttemptStep ==
  ASSUME IInv, PlanFails \/ PlanPasses \/ Executed \/ Interrupted
  PROVE  IInv'
<1> USE DEF IInv
<1>1. CASE PlanFails
  <2> USE <1>1 DEF PlanFails
  <2>1. RunTypeOK' /\ CallerInv' /\ ClusterInv'
    BY DEF RunInv, RunTypeOK, CallerInv, ClusterInv, Begun, runVars, TraceInv, TraceTypeOK, NextAttempt
  <2>2. /\ TraceInv'
        /\ DOMAIN records' = DOMAIN records \cup {attempt} /\ records'[attempt].status = "failed"
        /\ \A i \in DOMAIN records : records'[i] = records[i]
    BY NextAttemptInv DEF Status
  <2>3. LeftInv'
    BY <2>2 DEF RunInv, CallerInv, LeftInv, LeftoversAreAccounted, Unfinished, runVars
  <2> QED BY <2>1, <2>2, <2>3 DEF RunInv
<1>2. CASE PlanPasses
  <2> USE <1>2 DEF PlanPasses
  <2>1. attempt \in 1 .. Attempts /\ attempt \in Runs /\ attempt \notin Begun
    BY DEF TraceInv, TraceTypeOK, Begun
  <2>2. RunTypeOK' /\ CallerInv' /\ LeftInv'
    BY <2>1 DEF RunInv, RunTypeOK, CallerInv, LeftInv, LeftoversAreAccounted, Unfinished
  <2>3. ClusterInv'
    BY <2>1 DEF RunInv, ClusterInv, CallerInv, Begun
  <2>4. TraceInv'
    BY DEF TraceInv, TraceTypeOK, RecordsInv, ReportInv
  <2> QED BY <2>2, <2>3, <2>4 DEF RunInv
<1>3. CASE Executed
  <2> USE <1>3 DEF Executed, Finished
  <2>1. attempt \in 1 .. Attempts /\ attempt' = attempt + 1 /\ phase' = "plan"
    BY DEF RunInv, CallerInv, TraceInv, TraceTypeOK, NextAttempt
  <2>2. Begun' = Begun
    BY <2>1 DEF Begun
  <2>3. RunTypeOK' /\ CallerInv' /\ ClusterInv'
    BY <2>1, <2>2 DEF RunInv, RunTypeOK, CallerInv, ClusterInv
  <2>4. PICK status \in Status :
          /\ TraceInv'
          /\ DOMAIN records' = DOMAIN records \cup {attempt} /\ records'[attempt].status = status
          /\ \A i \in DOMAIN records : records'[i] = records[i]
          /\ result = "ok" \/ status = "failed"
    <3>1. CASE result = "ok"
      <4>1. PICK jct \in Times : NextAttempt(Record("succeeded", jct))
        BY <3>1
      <4>2. /\ "succeeded" \in Status /\ jct \in Times \cup {-1}
            /\ "succeeded" = "succeeded" <=> jct # -1
            /\ attempt <= Attempts /\ phase \in {"plan", "execute"} /\ UNCHANGED <<live, held, report>>
        BY <2>1, TimesAssumption DEF Status
      <4>3. /\ TraceInv'
            /\ DOMAIN records' = DOMAIN records \cup {attempt} /\ records'[attempt].status = "succeeded"
            /\ \A i \in DOMAIN records : records'[i] = records[i]
        BY <4>1, <4>2, NextAttemptInv, Zenon
      <4> QED BY <3>1, <4>2, <4>3
    <3>2. CASE result = "failed"
      <4>1. /\ "failed" \in Status /\ -1 \in Times \cup {-1}
            /\ "failed" = "succeeded" <=> -1 # -1
            /\ attempt <= Attempts /\ phase \in {"plan", "execute"} /\ UNCHANGED <<live, held, report>>
            /\ NextAttempt(Record("failed", -1))
        BY <2>1, <3>2 DEF Status
      <4>2. /\ TraceInv'
            /\ DOMAIN records' = DOMAIN records \cup {attempt} /\ records'[attempt].status = "failed"
            /\ \A i \in DOMAIN records : records'[i] = records[i]
        BY <4>1, NextAttemptInv, Zenon
      <4> QED BY <4>1, <4>2
    <3> QED BY <3>1, <3>2
  <2>5. LeftInv'
    BY <2>1, <2>4 DEF RunInv, LeftInv, LeftoversAreAccounted, Unfinished
  <2> QED BY <2>3, <2>4, <2>5 DEF RunInv
<1>4. CASE Interrupted
  <2> USE <1>4 DEF Interrupted, Finished
  <2>1. RunInv'
    BY DEF RunInv, RunTypeOK, CallerInv, ClusterInv, LeftInv, LeftoversAreAccounted, Unfinished, Begun, runVars
  <2>2. TraceInv'
    BY DEF TraceInv, TraceTypeOK, RecordsInv, ReportInv
  <2> QED BY <2>1, <2>2
<1> QED BY <1>1, <1>2, <1>3, <1>4

LEMMA NormalizeStep ==
  ASSUME IInv, Normalize
  PROVE  IInv'
<1> USE DEF IInv, Normalize
<1>1. RunInv'
  BY DEF RunInv, RunTypeOK, CallerInv, ClusterInv, LeftInv, LeftoversAreAccounted, Unfinished, Begun, runVars
<1>2. attempt = Attempts + 1
  BY DEF TraceInv, TraceTypeOK
<1>3. report' = Normalized'
  BY DEF Normalized, Baseline
<1>4. TraceInv'
  BY <1>2, <1>3 DEF TraceInv, TraceTypeOK, RecordsInv, ReportInv
<1> QED BY <1>1, <1>4

(* The trace's own part holds while the trace stands still.                  *)
LEMMA TraceKept ==
  ASSUME TraceInv, UNCHANGED traceVars
  PROVE  TraceInv'
<1>1. Normalized' = Normalized
  BY DEF Normalized, Baseline, traceVars
<1>2. TraceTypeOK'
  BY DEF TraceInv, TraceTypeOK, traceVars
<1>3. RecordsInv'
  BY DEF TraceInv, RecordsInv, traceVars
<1>4. ReportInv'
  BY <1>1 DEF TraceInv, ReportInv, traceVars
<1> QED BY <1>2, <1>3, <1>4 DEF TraceInv

(* The inductive invariant.                                                  *)
THEOREM Inductive == Spec => []IInv
<1>1. IInv /\ [Next]_vars => IInv'
  <2> SUFFICES ASSUME IInv, [Next]_vars PROVE IInv'
    OBVIOUS
  <2>1. UNCHANGED traceVars => TraceInv'
    BY TraceKept DEF IInv
  <2>2. CASE RunNext \/ (Interrupt(attempt) /\ UNCHANGED traceVars)
    <3>1. step # "out"
      BY <2>2 DEF RunNext, CallerNext, CreateGroup, PreflightRaises, EnterTry, GroupReady,
         ReadyTimesOut, Submit, SubmitRaises, GetReturns, GetRaises, GetTimesOut, Cancel,
         CancelsDone, CancelRaises, Remove, RemoveRaises, CreateRaises, Interrupt, InterruptBefore,
         InterruptInside, InterruptFinally
    <3> QED BY <2>1, <2>2, <3>1, CallerStep DEF RunNext, IInv, RunInv, CallerInv
  <2>3. ASSUME NEW k \in Runs, ClusterNext(k), UNCHANGED traceVars PROVE IInv'
    BY <2>1, <2>3, ClusterStep DEF IInv
  <2>4. CASE UNCHANGED vars
    <3>1. RunInv'
      BY <2>4 DEF IInv, RunInv, RunTypeOK, CallerInv, ClusterInv, LeftInv, LeftoversAreAccounted, Unfinished, Begun, vars,
         runVars, traceVars
    <3> QED BY <2>1, <2>4, <3>1 DEF IInv, vars
  <2> QED BY <2>2, <2>3, <2>4, ArgumentStep, AttemptStep, NormalizeStep DEF Next, TraceNext
<1> QED BY <1>1, InitInv, PTL DEF Spec

THEOREM TypeCorrect == Spec => []TypeOK
<1>1. IInv => TypeOK
  <2> SUFFICES ASSUME IInv PROVE TypeOK
    OBVIOUS
  <2> USE DEF IInv, RunInv, TraceInv, TraceTypeOK
  <2>1. Len(records) <= Attempts
    BY DEF RecordsInv
  <2>2. \A i \in DOMAIN records : records[i] \in TraceRecord
    BY ElementOfSeq, LenProperties
  <2>3. Len(report) \in {0, Attempts}
    <3>1. CASE phase = "done"
      <4>1. report = Normalized
        BY <3>1 DEF ReportInv
      <4> QED BY <4>1 DEF Normalized
    <3>2. CASE phase # "done"
      BY <3>2, EmptySeq DEF ReportInv
    <3> QED BY <3>1, <3>2
  <2> QED BY <2>1, <2>2, <2>3 DEF TypeOK, TraceRecord
<1> QED BY <1>1, Inductive, PTL

(* However runs fail and whatever the cluster puts off, what is left of them *)
(* is on its way out or abandoned, and only failed attempts compute on.      *)
THEOREM AccountedLeftovers == Spec => []LeftoversAreAccounted
BY Inductive, PTL DEF IInv, RunInv, LeftInv

(* All attempts are recorded with the same maps, whatever the caller does to *)
(* its own.                                                                  *)
THEOREM MatchedInputs == Spec => []InputsMatch
<1>1. IInv => InputsMatch
  <2> SUFFICES ASSUME IInv, NEW i \in DOMAIN records, NEW j \in DOMAIN records
               PROVE  records[i].inputs = records[j].inputs /\ Described(records[i].inputs)
    BY DEF InputsMatch
  <2>1. records # <<>>
    BY EmptySeq
  <2> QED BY <2>1 DEF IInv, TraceInv, RecordsInv
<1> QED BY <1>1, Inductive, PTL

(* Every ratio divides by the one time of the same job under gpu_count.      *)
THEOREM MatchedRatios == Spec => []RatiosAreMatched
<1>1. IInv => RatiosAreMatched
  <2> SUFFICES ASSUME IInv, NEW i \in DOMAIN report
               PROVE  /\ report[i].ratio <=> report[i].reason = "none"
                      /\ \E b \in DOMAIN records :
                           /\ records[b].policy = "gpu_count" /\ records[b].job = JobOf(i)
                           /\ \A c \in DOMAIN records \ {b} :
                                records[c].policy # "gpu_count" \/ records[c].job # JobOf(i)
                           /\ report[i].ratio <=> /\ records[i].status = "succeeded"
                                                  /\ records[b].status = "succeeded"
                                                  /\ records[b].jct > 0
                           /\ report[i].ratio => report[i].baselineJct = records[b].jct
    BY DEF RatiosAreMatched
  <2>1. phase = "done" /\ report = Normalized /\ attempt = Attempts + 1
    BY EmptySeq DEF IInv, TraceInv, ReportInv
  <2>2. i \in 1 .. Attempts /\ DOMAIN records = 1 .. Attempts
    <3>1. Len(records) = Attempts
      BY <2>1 DEF IInv, TraceInv, RecordsInv
    <3>2. DOMAIN records = 1 .. Len(records)
      BY LenProperties DEF IInv, TraceInv, TraceTypeOK
    <3>3. DOMAIN report = 1 .. Attempts
      BY <2>1 DEF Normalized
    <3> QED BY <3>1, <3>2, <3>3
  <2>3. \A j \in 1 .. Attempts :
          /\ records[j].job = JobOf(j) /\ records[j].policy = PolicyOf(j)
          /\ records[j].status = "succeeded" <=> records[j].jct # -1
          /\ records[j].jct \in Int
    <3>1. ASSUME NEW j \in 1 .. Attempts PROVE records[j] \in TraceRecord
      BY <2>2, ElementOfSeq DEF IInv, TraceInv, TraceTypeOK
    <3>2. \A t \in Times \cup {-1} : t \in Int
      BY TimesAssumption
    <3>3. \A j \in 1 .. Attempts : records[j].jct \in Times \cup {-1}
      BY <3>1 DEF TraceRecord
    <3>4. \A j \in 1 .. Attempts : records[j].jct \in Int
      BY <3>2, <3>3
    <3> QED BY <2>2, <3>4 DEF IInv, TraceInv, RecordsInv
  <2> DEFINE job == JobOf(i)
             Is(b) == records[b].job = job /\ records[b].policy = "gpu_count"
  <2>4. \E b \in DOMAIN records : Is(b)
    <3>1. job \in 1 .. Jobs
      BY <2>2, AttemptIsPair
    <3> QED BY <2>2, <2>3, <3>1, BaselineAttempted
  <2>5. PICK b \in DOMAIN records : b = (CHOOSE x \in DOMAIN records : Is(x)) /\ Is(b)
    BY <2>4
  <2>6. Baseline(records[i].job) = records[b]
    BY <2>2, <2>3, <2>5 DEF Baseline
  <2>7. report[i] = [baselineJct |-> records[b].jct, reason |-> Reason(records[i], records[b]),
                     ratio |-> HasRatio(records[i], records[b].jct)]
    BY <2>1, <2>2, <2>6 DEF Normalized
  <2>8. ASSUME NEW c \in DOMAIN records, Is(c) PROVE c = b
    BY <2>2, <2>3, <2>5, <2>8, PairsDiffer
  <2>9. Reason(records[i], records[b]) = "none"
          <=> /\ records[i].status = "succeeded" /\ records[b].status = "succeeded"
              /\ ~(records[b].jct <= 0)
    BY DEF Reason
  <2>10. HasRatio(records[i], records[b].jct)
          <=> /\ records[i].status = "succeeded" /\ records[b].status = "succeeded"
              /\ records[b].jct > 0
    BY <2>2, <2>3 DEF HasRatio
  <2>11. /\ report[i].ratio = HasRatio(records[i], records[b].jct)
         /\ report[i].reason = Reason(records[i], records[b])
         /\ report[i].baselineJct = records[b].jct
    BY <2>7
  <2>12. HasRatio(records[i], records[b].jct) \in BOOLEAN /\ records[b].jct \in Int
    BY <2>2, <2>3 DEF HasRatio
  <2>13. report[i].ratio <=> report[i].reason = "none"
    BY <2>9, <2>10, <2>11, <2>12
  <2>14. /\ report[i].ratio <=> /\ records[i].status = "succeeded"
                                /\ records[b].status = "succeeded" /\ records[b].jct > 0
         /\ \A c \in DOMAIN records \ {b} :
              records[c].policy # "gpu_count" \/ records[c].job # JobOf(i)
    BY <2>8, <2>10, <2>11
  <2> QED BY <2>5, <2>11, <2>13, <2>14
<1> QED BY <1>1, Inductive, PTL

-----------------------------------------------------------------------------
(* Custody.                                                                  *)

(* What a step of the trace or of the caller of run() does to the group and  *)
(* the tasks of a run: only a group that was not there is created, and only  *)
(* a task that was not there is queued.                                      *)
LEMMA CallerEffect ==
  ASSUME IInv, NEW k \in Runs,
         TraceNext \/ RunNext \/ (Interrupt(attempt) /\ UNCHANGED traceVars) \/ MapsChange
           \/ UNCHANGED vars
  PROVE  /\ group'[k] = group[k] \/ (group[k] = "none" /\ group'[k] = "pending")
         /\ \A q \in Ranks : \/ task'[k][q] = task[k][q]
                             \/ task[k][q] = "none" /\ task'[k][q] = "queued"
<1> USE DEF IInv, RunInv
<1>1. CASE UNCHANGED <<group, task>>
  BY <1>1
<1>2. CASE (CreateGroup(attempt) \/ CreateRaises(attempt)) /\ UNCHANGED traceVars
  <2>1. attempt \notin Begun
    BY <1>2 DEF CreateGroup, CreateRaises, CallerInv, Begun, TraceInv, TraceTypeOK
  <2>2. group[k] = "none" \/ k # attempt
    BY <2>1 DEF ClusterInv
  <2> QED BY <1>2, <2>2 DEF CreateGroup, CreateRaises, RunTypeOK
<1>3. CASE step = "submit" /\ Launch(attempt) /\ UNCHANGED traceVars
  <2>1. attempt \in Runs /\ refs \in Ranks
    BY <1>3 DEF RunTypeOK, CallerInv, TraceInv, TraceTypeOK
  <2>2. task[attempt][refs] = "none"
    BY <1>3, <2>1 DEF ClusterInv
  <2>3. \A q \in Ranks : task'[k][q] = IF k = attempt /\ q = refs THEN "queued" ELSE task[k][q]
    BY <1>3, <2>1 DEF Launch, RunTypeOK
  <2> QED BY <1>3, <2>2, <2>3 DEF Launch
<1> QED
  BY <1>1, <1>2, <1>3 DEF TraceNext, RunNext, CallerNext, CopyBandwidth, CopyCosts, CheckCosts,
     MapsChange, Copy, PlanFails, PlanPasses, Executed, Interrupted, Normalize, PreflightRaises,
     EnterTry, GroupReady, ReadyTimesOut, Submit, SubmitRaises, GetReturns, GetRaises, GetTimesOut,
     Cancel, CancelsDone, CancelRaises, Remove, RemoveRaises, AskRemoval, Interrupt, InterruptBefore,
     InterruptInside, InterruptFinally, vars, runVars

LEMMA CustodyStep ==
  ASSUME IInv, [Next]_vars, NEW k \in Runs
  PROVE  Custody(k)!Next \/ UNCHANGED Custody(k)!vars
<1> USE DEF IInv, RunInv, Custody!Next, Custody!vars
<1>1. ASSUME /\ group'[k] = group[k] \/ (group[k] = "none" /\ group'[k] \in {"none", "pending"})
                                     \/ (group[k] = "pending" /\ group'[k] = "none"),
             \A q \in Ranks : /\ task'[k][q] = "running" <=> task[k][q] = "running"
                              /\ task'[k][q] \in {"ok", "failed"} <=> task[k][q] \in {"ok", "failed"}
      PROVE  UNCHANGED Custody(k)!vars
  BY <1>1
<1>2. CASE TraceNext \/ RunNext \/ (Interrupt(attempt) /\ UNCHANGED traceVars) \/ MapsChange
             \/ UNCHANGED vars
  <2>1. /\ group'[k] = group[k] \/ (group[k] = "none" /\ group'[k] = "pending")
        /\ \A q \in Ranks : \/ task'[k][q] = task[k][q]
                            \/ task[k][q] = "none" /\ task'[k][q] = "queued"
    BY <1>2, CallerEffect
  <2> QED BY <1>1, <2>1
<1>3. ASSUME NEW j \in Runs, GroupPlaced(j) PROVE Custody(k)!Next \/ UNCHANGED Custody(k)!vars
  <2>1. CASE k = j
    <3>1. group[k] = "pending" /\ group'[k] = "placed" /\ task' = task
      BY <1>3, <2>1 DEF GroupPlaced, RunTypeOK
    <3> QED BY <3>1 DEF Custody!Reserve
  <2>2. CASE k # j
    BY <1>1, <1>3, <2>2 DEF GroupPlaced, RunTypeOK
  <2> QED BY <2>1, <2>2
<1>4. ASSUME NEW j \in Runs, GroupRemoved(j) PROVE Custody(k)!Next \/ UNCHANGED Custody(k)!vars
  <2>1. CASE k = j
    <3>1. /\ group[k] \in {"pending", "placed"}
          /\ group'[k] = IF group[k] = "pending" THEN "none" ELSE "gone"
          /\ \A q \in Ranks : task'[k][q] = "none" /\ task[k][q] # "running"
      BY <1>4, <2>1 DEF GroupRemoved, RunTypeOK, ClusterInv, Unfinished
    <3>2. CASE group[k] = "pending"
      <4>1. \A q \in Ranks : task[k][q] = "none"
        BY <3>2 DEF ClusterInv
      <4> QED BY <1>1, <3>1, <3>2, <4>1
    <3>3. CASE group[k] = "placed"
      BY <3>1, <3>3 DEF Custody!Return
    <3> QED BY <3>1, <3>2, <3>3
  <2>2. CASE k # j
    BY <1>1, <1>4, <2>2 DEF GroupRemoved, RunTypeOK
  <2> QED BY <2>1, <2>2
<1>5. ASSUME NEW j \in Runs, NEW r \in Ranks, TaskStarts(j, r)
      PROVE  Custody(k)!Next \/ UNCHANGED Custody(k)!vars
  <2>1. \A q \in Ranks : task'[k][q] = IF k = j /\ q = r THEN "running" ELSE task[k][q]
    BY <1>5 DEF TaskStarts, RunTypeOK
  <2>2. CASE k = j
    <3>1. group[k] = "placed" /\ group' = group /\ task[k][r] = "queued"
      BY <1>5, <2>2 DEF TaskStarts
    <3>2. Custody(k)!Occupy(r)
      BY <2>1, <2>2, <3>1 DEF Custody!Occupy
    <3> QED BY <3>2
  <2>3. CASE k # j
    BY <1>1, <1>5, <2>1, <2>3 DEF TaskStarts
  <2> QED BY <2>2, <2>3
<1>6. ASSUME NEW j \in Runs, NEW r \in Ranks,
             TaskEnds(j, r) \/ WorkerDies(j, r) \/ TaskStopped(j, r)
      PROVE  Custody(k)!Next \/ UNCHANGED Custody(k)!vars
  <2>1. PICK what \in {"none", "ok", "failed"} :
          /\ task' = [task EXCEPT ![j][r] = what] /\ group' = group
          /\ \/ task[j][r] = "running" /\ what # "none"
             \/ task[j][r] = "queued" /\ what = "none"
    BY <1>6 DEF TaskEnds, WorkerDies, TaskStopped, TaskBecomes
  <2>2. \A q \in Ranks : task'[k][q] = IF k = j /\ q = r THEN what ELSE task[k][q]
    BY <2>1 DEF RunTypeOK
  <2>3. CASE k = j /\ task[j][r] = "running"
    <3>1. Custody(k)!Vacate(r)
      BY <2>1, <2>2, <2>3 DEF Custody!Vacate
    <3> QED BY <3>1
  <2>4. CASE k # j \/ task[j][r] = "queued"
    BY <1>1, <2>1, <2>2, <2>4
  <2> QED BY <2>1, <2>3, <2>4
<1> QED BY <1>2, <1>3, <1>4, <1>5, <1>6 DEF Next, ClusterNext

(* Each run keeps the custody contract.                                      *)
THEOREM RunsKeepCustody == Spec => CustodyOfRuns
<1> DEFINE Step == \A k \in Runs : Custody(k)!Next \/ UNCHANGED Custody(k)!vars
<1>1. Init => \A k \in Runs : Custody(k)!Init
  BY DEF Init, RunInit, Custody!Init
<1>2. IInv /\ [Next]_vars => Step
  BY CustodyStep
<1>3. Spec => (\A k \in Runs : Custody(k)!Init) /\ [][Step]_vars
  BY <1>1, <1>2, Inductive, PTL DEF Spec
<1> QED BY <1>3 DEF CustodyOfRuns
=============================================================================
