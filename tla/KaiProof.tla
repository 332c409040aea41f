------------------------------ MODULE KaiProof ------------------------------
(* Theorems of KaiLifecycle for every number of workers, any Pods left by an *)
(* earlier workload and any set of faults.                                   *)
EXTENDS KaiLifecycle, FiniteSetTheorems, TLAPS

(* How far submit() is.  A name is acknowledged once and never created again *)
(* by this run, so what is listed under it is the run's own Pod.             *)
SubmitInv ==
  /\ pc \in {"preflight", "group"} => acked = 0 /\ group # "mine" /\ ~unsure
  /\ pc = "pods" => acked < Workers
  /\ pc \in {"status", "poll", "cleanup", "kept"} => acked = Workers
  /\ pc \in {"preflight", "group", "pods", "status", "poll"} =>
       result = "none" /\ mine \subseteq 0 .. acked - 1
  /\ pc \in {"pods", "status", "poll", "kept", "rollback", "cleanup"} => group # "old"
  /\ \A p \in 0 .. acked - 1 : p \in mine \/ pod[p] = "none"

(* The phases of the run's Pods and the outcomes they have reached.          *)
OutcomeInv ==
  /\ \A p \in mine : /\ pod[p] # "none"
                     /\ pod[p] \in {"pending", "running"} => outcome[p] = "none"
                     /\ pod[p] \in {"succeeded", "failed"} => outcome[p] = pod[p]
  /\ pc \in {"preflight", "group", "pods"} =>
       \A p \in Ranks : p >= acked => outcome[p] = "none"

(* What is still to be deleted covers what the run has created, and only     *)
(* that, unless a cancel() selected by label.                                *)
DeleteInv ==
  /\ pc \in Deleting =>
       \A p \in 0 .. acked - 1 : p \in targets \/ pod[p] = "none" \/ p \in leaving
  /\ pc \in Deleting /\ ~unsure => mine \ leaving \subseteq targets
  /\ pc \in {"rollback", "cleanup"} => targets \subseteq 0 .. acked - 1
  /\ NothingLeft

IInv == TypeOK /\ SubmitInv /\ OutcomeInv /\ DeleteInv

-----------------------------------------------------------------------------
USE WorkersAssumption, LeftoversAssumption DEF Pods, Ranks, Phases, Deleting

LEMMA InitInv == Init => IInv
<1> SUFFICES ASSUME Init PROVE IInv
  OBVIOUS
<1>1. acked = 0 /\ acked \in 0 .. Workers /\ outcome \in [Ranks -> {"none", "succeeded", "failed"}]
  BY DEF Init
<1>2. pod \in [Pods -> {"none"} \cup Phases]
  BY DEF Init
<1>3. TypeOK
  BY <1>1, <1>2 DEF Init, TypeOK
<1>4. SubmitInv /\ OutcomeInv /\ DeleteInv
  BY DEF Init, SubmitInv, OutcomeInv, DeleteInv, NothingLeft
<1> QED BY <1>3, <1>4 DEF IInv

LEMMA CollapseType == Collapse \in Phases
BY DEF Collapse

(* The steps of submit() up to the last Pod.                                 *)
LEMMA SubmitStep ==
  ASSUME IInv,
         PreflightPasses \/ PreflightRaises \/ CreateGroup \/ CreateGroupRaises
           \/ CreatePod \/ CreatePodRaises \/ SubmitReturns \/ SubmitStatusRaises
  PROVE  IInv'
<1> USE DEF IInv, TypeOK, vars, client, cluster, Raise
<1>1. CASE PreflightPasses
  BY <1>1 DEF PreflightPasses, SubmitInv, OutcomeInv, DeleteInv, NothingLeft
<1>2. CASE PreflightRaises
  BY <1>2 DEF PreflightRaises, SubmitInv, OutcomeInv, DeleteInv, NothingLeft
<1>3. CASE CreateGroup
  BY <1>3 DEF CreateGroup, SubmitInv, OutcomeInv, DeleteInv, NothingLeft
<1>4. CASE CreateGroupRaises
  <2> USE <1>4 DEF CreateGroupRaises
  <2>1. mine = {} /\ pc' = "done" /\ acked = 0
    BY DEF SubmitInv
  <2>2. CASE UNCHANGED <<group, unsure>>
    BY <2>1, <2>2 DEF SubmitInv, OutcomeInv, DeleteInv, NothingLeft
  <2>3. CASE group' = "mine" /\ unsure' = TRUE
    BY <2>1, <2>3 DEF SubmitInv, OutcomeInv, DeleteInv, NothingLeft
  <2> QED BY <2>2, <2>3
<1>5. CASE CreatePod
  <2> USE <1>5 DEF CreatePod, PodAppears
  <2>1. acked \in Ranks /\ acked \notin mine /\ acked \notin leaving
    BY DEF SubmitInv, OutcomeInv
  <2>2. TypeOK'
    BY <2>1
  <2>3. SubmitInv'
    BY <2>1 DEF SubmitInv
  <2>4. OutcomeInv'
    BY <2>1 DEF OutcomeInv
  <2>5. DeleteInv'
    BY DEF DeleteInv, NothingLeft
  <2> QED BY <2>2, <2>3, <2>4, <2>5
<1>6. CASE CreatePodRaises
  <2> USE <1>6 DEF CreatePodRaises, Rollback
  <2>1. CASE UNCHANGED <<pod, mine, unsure>>
    BY <2>1 DEF SubmitInv, OutcomeInv, DeleteInv, NothingLeft
  <2>2. CASE PodAppears /\ unsure' = TRUE
    <3> USE <2>2 DEF PodAppears
    <3>1. acked \in Ranks /\ acked \notin mine /\ acked \notin leaving
      BY DEF SubmitInv, OutcomeInv
    <3>2. TypeOK'
      BY <3>1
    <3>3. SubmitInv'
      BY <3>1 DEF SubmitInv
    <3>4. OutcomeInv'
      BY <3>1 DEF OutcomeInv
    <3>5. DeleteInv'
      BY <3>1 DEF DeleteInv, NothingLeft, SubmitInv
    <3> QED BY <3>2, <3>3, <3>4, <3>5
  <2> QED BY <2>1, <2>2
<1>7. CASE SubmitReturns
  BY <1>7, CollapseType DEF SubmitReturns, SubmitInv, OutcomeInv, DeleteInv, NothingLeft
<1>8. CASE SubmitStatusRaises
  BY <1>8 DEF SubmitStatusRaises, Rollback, SubmitInv, OutcomeInv, DeleteInv, NothingLeft
<1> QED BY <1>1, <1>2, <1>3, <1>4, <1>5, <1>6, <1>7, <1>8

(* run() is left from its polling loop.                                      *)
LEMMA LeaveInv ==
  ASSUME IInv, pc = "poll", NEW how \in {"succeeded", "raised"}, Leave(how),
         UNCHANGED <<keep, acked, observed, unsure, cluster>>
  PROVE  IInv'
BY DEF IInv, TypeOK, Leave, cluster, SubmitInv, OutcomeInv, DeleteInv, NothingLeft

LEMMA PollStep ==
  ASSUME IInv, PollEnds \/ PollAgain \/ PollRaises \/ PollTimesOut
  PROVE  IInv'
<1>1. CASE PollEnds
  BY <1>1, LeaveInv DEF PollEnds
<1>2. CASE PollAgain
  BY <1>2, CollapseType DEF PollAgain, IInv, TypeOK, cluster, SubmitInv, OutcomeInv, DeleteInv,
     NothingLeft
<1>3. CASE PollRaises
  BY <1>3, LeaveInv DEF PollRaises
<1>4. CASE PollTimesOut
  BY <1>4, LeaveInv DEF PollTimesOut
<1> QED BY <1>1, <1>2, <1>3, <1>4

LEMMA DeleteStep ==
  ASSUME IInv,
         (\E p \in Pods : DeletePod(p)) \/ DeleteGroup \/ DeleteRaises \/ UserCancels \/ Interrupt
  PROVE  IInv'
<1> USE DEF IInv, TypeOK, Listed, Raise, cluster
<1>1. ASSUME NEW p \in Pods, DeletePod(p) PROVE IInv'
  <2> USE <1>1 DEF DeletePod
  <2>1. TypeOK' /\ SubmitInv' /\ OutcomeInv'
    BY DEF SubmitInv, OutcomeInv
  <2>2. DeleteInv'
    BY DEF DeleteInv, NothingLeft, OutcomeInv
  <2> QED BY <2>1, <2>2
<1>2. CASE DeleteGroup
  BY <1>2 DEF DeleteGroup, SubmitInv, OutcomeInv, DeleteInv, NothingLeft
<1>3. CASE DeleteRaises
  <2> USE <1>3 DEF DeleteRaises
  <2>1. leaving' \subseteq Listed
    OBVIOUS
  <2>2. TypeOK'
    BY <2>1
  <2>3. SubmitInv' /\ OutcomeInv' /\ DeleteInv'
    BY DEF SubmitInv, OutcomeInv, DeleteInv, NothingLeft
  <2> QED BY <2>2, <2>3
<1>4. CASE UserCancels
  BY <1>4 DEF UserCancels, SubmitInv, OutcomeInv, DeleteInv, NothingLeft
<1>5. CASE Interrupt
  <2>1. CASE pc = "poll"
    BY <1>5, <2>1, LeaveInv DEF Interrupt
  <2>2. CASE pc # "poll"
    BY <1>5, <2>2 DEF Interrupt, SubmitInv, OutcomeInv, DeleteInv, NothingLeft
  <2> QED BY <2>1, <2>2
<1> QED BY <1>1, <1>2, <1>3, <1>4, <1>5

LEMMA ClusterStep ==
  ASSUME IInv, ClusterNext
  PROVE  IInv'
<1> USE DEF IInv, TypeOK, client
<1>1. ASSUME NEW p \in Pods, PodRuns(p) PROVE IInv'
  BY <1>1 DEF PodRuns, SubmitInv, OutcomeInv, DeleteInv, NothingLeft
<1>2. ASSUME NEW p \in Pods, PodEnds(p) PROVE IInv'
  <2> USE <1>2 DEF PodEnds
  <2>1. PICK how \in {"succeeded", "failed"} :
          /\ pod' = [pod EXCEPT ![p] = how]
          /\ outcome' = IF p \in mine THEN [outcome EXCEPT ![p] = how] ELSE outcome
    OBVIOUS
  <2>2. TypeOK'
    BY <2>1
  <2>3. SubmitInv'
    BY <2>1 DEF SubmitInv
  <2>4. OutcomeInv'
    BY <2>1 DEF OutcomeInv, SubmitInv
  <2>5. DeleteInv'
    BY <2>1 DEF DeleteInv, NothingLeft
  <2> QED BY <2>2, <2>3, <2>4, <2>5
<1>3. ASSUME NEW p \in Pods, PodEvicted(p) PROVE IInv'
  BY <1>3 DEF PodEvicted, SubmitInv, OutcomeInv, DeleteInv, NothingLeft
<1>4. ASSUME NEW p \in Pods, PodGone(p) PROVE IInv'
  BY <1>4 DEF PodGone, SubmitInv, OutcomeInv, DeleteInv, NothingLeft
<1> QED BY <1>1, <1>2, <1>3, <1>4 DEF ClusterNext

(* The inductive invariant.                                                  *)
THEOREM Inductive == Spec => []IInv
<1>1. IInv /\ [Next]_vars => IInv'
  <2> SUFFICES ASSUME IInv, [Next]_vars PROVE IInv'
    OBVIOUS
  <2>1. CASE UNCHANGED vars
    BY <2>1 DEF IInv, TypeOK, SubmitInv, OutcomeInv, DeleteInv, NothingLeft, vars, client, cluster
  <2> QED BY <2>1, SubmitStep, PollStep, DeleteStep, ClusterStep DEF Next, RunNext
<1> QED BY <1>1, InitInv, PTL DEF Spec

(* What a "succeeded" status() says of the workers, as long as every Pod of  *)
(* this workload's label has the name of one of its workers.                 *)
SuccessInv ==
  /\ observed = "succeeded" => \A r \in Ranks : outcome[r] = "succeeded"
  /\ result = "succeeded" => observed = "succeeded"
  /\ pc \in {"preflight", "group", "pods", "status"} => observed = "pending"

LEMMA CollapseCounts ==
  ASSUME Leftovers \subseteq Ranks, IInv, acked = Workers, Collapse = "succeeded"
  PROVE  \A r \in Ranks : outcome[r] = "succeeded"
<1>1. (\A p \in Listed : pod[p] = "succeeded") /\ Cardinality(Listed) = Workers
  <2> DEFINE phases == {pod[p] : p \in Listed}
  <2>1. phases = {"succeeded"} /\ Cardinality(Listed) = Workers
    BY DEF Collapse
  <2> QED BY <2>1
<1>2. Listed \subseteq Ranks
  BY DEF Listed
<1>3. IsFiniteSet(Ranks) /\ Cardinality(Ranks) = Workers
  BY FS_Interval
<1>4. Listed = Ranks
  BY <1>1, <1>2, <1>3, FS_Subset
<1>5. \A r \in Ranks : pod[r] = "succeeded" /\ r \in mine
  BY <1>1, <1>4 DEF IInv, SubmitInv
<1> QED BY <1>5 DEF IInv, OutcomeInv

(* run() returns only when the Pod of every rank ended in Succeeded.  The    *)
(* hypothesis is needed: KaiStatusDoc shows what a Pod with a higher number  *)
(* than any worker of this run does to the count.                            *)
THEOREM SuccessIsOfEveryRank ==
  ASSUME Leftovers \subseteq Ranks
  PROVE  Spec => []SuccessIsReal
<1>1. Init => SuccessInv
  BY DEF Init, SuccessInv
<1>2. IInv /\ SuccessInv /\ [Next]_vars => SuccessInv'
  <2> SUFFICES ASSUME IInv, SuccessInv, [Next]_vars PROVE SuccessInv'
    OBVIOUS
  <2> USE DEF SuccessInv, client, cluster
  <2>1. CASE SubmitReturns \/ PollAgain
    <3>1. acked = Workers /\ observed' = Collapse /\ UNCHANGED <<outcome, result>>
      BY <2>1 DEF SubmitReturns, PollAgain, IInv, SubmitInv
    <3>2. result # "succeeded" /\ pc' = "poll"
      BY <2>1 DEF SubmitReturns, PollAgain, IInv, SubmitInv
    <3> QED BY <3>1, <3>2, CollapseCounts
  <2>2. CASE PreflightPasses \/ PreflightRaises \/ CreateGroup \/ CreateGroupRaises
               \/ CreatePod \/ CreatePodRaises \/ SubmitStatusRaises
    BY <2>2 DEF PreflightPasses, PreflightRaises, CreateGroup, CreateGroupRaises, CreatePod,
       CreatePodRaises, SubmitStatusRaises, Raise, Rollback
  <2>3. CASE PollEnds \/ PollRaises \/ PollTimesOut
    BY <2>3 DEF PollEnds, PollRaises, PollTimesOut, Leave
  <2>4. CASE (\E p \in Pods : DeletePod(p)) \/ DeleteGroup \/ DeleteRaises
               \/ UserCancels \/ Interrupt
    BY <2>4 DEF DeletePod, DeleteGroup, DeleteRaises, UserCancels, Interrupt, Raise, Leave
  <2>5. ASSUME NEW p \in Pods, PodEnds(p) PROVE SuccessInv'
    <3>1. p \in mine => outcome[p] = "none"
      BY <2>5 DEF PodEnds, IInv, OutcomeInv
    <3>2. p \in mine => p \in Ranks
      BY DEF IInv, TypeOK
    <3>3. observed = "succeeded" => outcome' = outcome
      BY <2>5, <3>1, <3>2 DEF PodEnds
    <3> QED BY <2>5, <3>3 DEF PodEnds
  <2>6. ASSUME NEW p \in Pods, PodRuns(p) \/ PodEvicted(p) \/ PodGone(p) PROVE SuccessInv'
    BY <2>6 DEF PodRuns, PodEvicted, PodGone
  <2>7. CASE UNCHANGED vars
    BY <2>7 DEF vars
  <2> QED BY <2>1, <2>2, <2>3, <2>4, <2>5, <2>6, <2>7 DEF Next, RunNext, ClusterNext
<1>3. SuccessInv => SuccessIsReal
  BY DEF SuccessInv, SuccessIsReal
<1> QED BY <1>1, <1>2, <1>3, Inductive, PTL DEF Spec

(* A run() or a cancel() that is over leaves nothing of the run behind,      *)
(* whichever request failed and whatever the cluster did meanwhile.          *)
THEOREM LeavesNothing == Spec => []NothingLeft
BY Inductive, PTL DEF IInv, DeleteInv

(* The PodGroup outlives the deletion of every acknowledged Pod.             *)
THEOREM GroupIsLast == Spec => GroupGoesLast
<1> DEFINE Step == group = "mine" /\ group' # "mine" =>
                     \A p \in 0 .. acked - 1 : pod[p] = "none" \/ p \in leaving
<1>1. IInv /\ [Next]_vars => Step
  <2> SUFFICES ASSUME IInv, [Next]_vars, group = "mine", group' # "mine"
               PROVE  \A p \in 0 .. acked - 1 : pod[p] = "none" \/ p \in leaving
    OBVIOUS
  <2>1. pc \in Deleting /\ targets = {}
    BY DEF Next, RunNext, ClusterNext, vars, client, cluster, PreflightPasses, PreflightRaises,
       CreateGroup, CreateGroupRaises, CreatePod, CreatePodRaises, SubmitReturns,
       SubmitStatusRaises, PollEnds, PollAgain, PollRaises, PollTimesOut, DeletePod, DeleteGroup,
       DeleteRaises, UserCancels, Interrupt, PodRuns, PodEnds, PodEvicted, PodGone
  <2> QED BY <2>1 DEF IInv, DeleteInv
<1>2. Spec => [][Step]_vars
  BY <1>1, Inductive, PTL DEF Spec
<1> QED BY <1>2 DEF GroupGoesLast

(* Before a cancel() by label, run() asks for the deletion of nothing that   *)
(* it did not create.                                                        *)
THEOREM SparesOthers == Spec => OthersSpared
<1> DEFINE Step == pc # "cancel" => /\ group = "old" => group' = "old"
                                    /\ leaving' \subseteq leaving \cup mine
<1>1. IInv /\ [Next]_vars => Step
  <2> SUFFICES ASSUME IInv, [Next]_vars, pc # "cancel"
               PROVE  /\ group = "old" => group' = "old"
                      /\ leaving' \subseteq leaving \cup mine
    OBVIOUS
  <2> USE DEF IInv, TypeOK, Listed
  <2>1. pc \in {"rollback", "cleanup"} => \A p \in targets \cap Listed : p \in mine
    BY DEF DeleteInv, SubmitInv
  <2>2. CASE (\E p \in Pods : DeletePod(p)) \/ DeleteGroup \/ DeleteRaises
    BY <2>1, <2>2 DEF DeletePod, DeleteGroup, DeleteRaises, SubmitInv
  <2>3. CASE UNCHANGED vars \/ ClusterNext
    BY <2>3 DEF ClusterNext, vars, cluster, PodRuns, PodEnds, PodEvicted, PodGone
  <2>4. CASE ~(UNCHANGED vars \/ ClusterNext
                 \/ (\E p \in Pods : DeletePod(p)) \/ DeleteGroup \/ DeleteRaises)
    BY <2>4 DEF Next, RunNext, cluster, PreflightPasses, PreflightRaises, CreateGroup,
       CreateGroupRaises, CreatePod, CreatePodRaises, SubmitReturns, SubmitStatusRaises, PollEnds,
       PollAgain, PollRaises, PollTimesOut, UserCancels, Interrupt
  <2> QED BY <2>2, <2>3, <2>4
<1>2. Spec => [][Step]_vars
  BY <1>1, Inductive, PTL DEF Spec
<1> QED BY <1>2 DEF OthersSpared
=============================================================================
