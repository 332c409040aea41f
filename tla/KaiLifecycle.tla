---------------------------- MODULE KaiLifecycle ----------------------------
(* kai_backend.py: run() creates an external PodGroup and one Pod per rank,  *)
(* polls the phases of the Pods its label selects and deletes what it made.  *)
(* The cluster keeps the objects, moves the Pods through their phases and    *)
(* may evict them; a deleted Pod stays, and is listed, until it has          *)
(* terminated.  Objects of an earlier workload with the same name may still  *)
(* be there.  Pods are named by number: the number of a worker is its rank.  *)
EXTENDS Integers, FiniteSets

CONSTANTS Workers,     \* len(plan.workers)
          Leftovers,   \* Pods that an earlier workload of this name may have left
          Faults       \* how an API request may fail

FaultKinds == {"reject", "lost", "list", "delete", "interrupt"}

ASSUME WorkersAssumption == Workers \in Nat \ {0}
ASSUME LeftoversAssumption == Leftovers \subseteq Nat
ASSUME FaultsAssumption == Faults \subseteq FaultKinds

Ranks == 0 .. Workers - 1
Pods  == Ranks \cup Leftovers

VARIABLES
  (* the caller *)
  pc,         \* where run() is
  keep,       \* not cleanup_on_finish
  acked,      \* len(created_pods)
  targets,    \* Pods still to be deleted
  observed,   \* phase of the last status()
  result,     \* how run() ends
  unsure,     \* a request failed whose effect is not known, or was cut short
  (* the cluster *)
  group,      \* the PodGroup of this name
  pod,        \* phase of each Pod, "none" if there is none of that name
  mine,       \* Pods this run created
  leaving,    \* Pods being terminated
  outcome     \* terminal phase that the run's Pod of a rank has reached

client  == <<pc, keep, acked, targets, observed, result, unsure>>
cluster == <<group, pod, mine, leaving, outcome>>
vars    == <<client, cluster>>

Phases   == {"pending", "running", "succeeded", "failed"}
Deleting == {"rollback", "cleanup", "cancel"}

TypeOK ==
  /\ pc \in {"preflight", "group", "pods", "status", "poll", "kept", "done"} \cup Deleting
  /\ keep \in BOOLEAN /\ unsure \in BOOLEAN
  /\ acked \in 0 .. Workers
  /\ targets \subseteq Pods
  /\ targets # {} => pc \in Deleting
  /\ observed \in Phases
  /\ result \in {"none", "succeeded", "raised"}
  /\ group \in {"none", "mine", "old"}
  /\ pod \in [Pods -> {"none"} \cup Phases]
  /\ mine \subseteq Ranks
  /\ leaving \subseteq {p \in Pods : pod[p] # "none"}
  /\ outcome \in [Ranks -> {"none", "succeeded", "failed"}]

Init ==
  /\ pc = "preflight" /\ keep \in BOOLEAN /\ acked = 0 /\ targets = {}
  /\ observed = "pending" /\ result = "none" /\ unsure = FALSE
  /\ group \in {"none", "old"}
  /\ pod \in {f \in [Pods -> {"none", "running", "failed"}] : \A p \in Pods \ Leftovers : f[p] = "none"}
  /\ mine = {}
  /\ leaving \in SUBSET {p \in Pods : pod[p] # "none"}
  /\ outcome = [r \in Ranks |-> "none"]

Listed == {p \in Pods : pod[p] # "none"}

-----------------------------------------------------------------------------
(* submit().                                                                 *)

(* The exception leaves the call, and run() if that is where it was. *)
Raise == /\ pc' = "done"
         /\ result' = IF pc = "cancel" THEN result ELSE "raised"

PreflightPasses ==
  /\ pc = "preflight"
  /\ pc' = "group"
  /\ UNCHANGED <<keep, acked, targets, observed, result, unsure, cluster>>

PreflightRaises ==
  /\ pc = "preflight"
  /\ Raise
  /\ UNCHANGED <<keep, acked, targets, observed, unsure, cluster>>

CreateGroup ==
  /\ pc = "group" /\ group = "none"
  /\ group' = "mine"
  /\ pc' = "pods"
  /\ UNCHANGED <<keep, acked, targets, observed, result, unsure, pod, mine, leaving, outcome>>

(* The name is taken, the request is rejected, or it fails after it had its  *)
(* effect; nothing has been created that a rollback could know of.           *)
CreateGroupRaises ==
  /\ pc = "group"
  /\ \/ (group # "none" \/ "reject" \in Faults) /\ UNCHANGED <<group, unsure>>
     \/ group = "none" /\ "lost" \in Faults /\ group' = "mine" /\ unsure' = TRUE
  /\ Raise
  /\ UNCHANGED <<keep, acked, targets, observed, pod, mine, leaving, outcome>>

PodAppears == /\ pod[acked] = "none"
              /\ pod' = [pod EXCEPT ![acked] = "pending"]
              /\ mine' = mine \cup {acked}

CreatePod ==
  /\ pc = "pods" /\ PodAppears
  /\ acked' = acked + 1
  /\ pc' = IF acked + 1 = Workers THEN "status" ELSE "pods"
  /\ UNCHANGED <<keep, targets, observed, result, unsure, group, leaving, outcome>>

(* Mutant: the rollback deletes every name of the plan. *)
RollbackAll == pc' = "rollback" /\ result' = "raised" /\ targets' = Ranks

(* The handler of submit(): delete the Pods whose creation returned. *)
Rollback == pc' = "rollback" /\ result' = "raised" /\ targets' = 0 .. acked - 1

CreatePodRaises ==
  /\ pc = "pods"
  /\ \/ (pod[acked] # "none" \/ "reject" \in Faults) /\ UNCHANGED <<pod, mine, unsure>>
     \/ "lost" \in Faults /\ PodAppears /\ unsure' = TRUE
  /\ Rollback
  /\ UNCHANGED <<keep, acked, observed, group, leaving, outcome>>

-----------------------------------------------------------------------------
(* status() and the polling loop of run().                                   *)

(* Mutant: the number of Pods is not compared with the number of workers. *)
CollapseUncounted ==
  LET phases == {pod[p] : p \in Listed}
  IN CASE "failed" \in phases                            -> "failed"
       [] phases = {"succeeded"}                         -> "succeeded"
       [] phases \cap {"running", "succeeded"} # {}      -> "running"
       [] OTHER                                          -> "pending"

Collapse ==
  LET phases == {pod[p] : p \in Listed}
  IN CASE "failed" \in phases                            -> "failed"
       [] phases = {"succeeded"}
            /\ Cardinality(Listed) = Workers             -> "succeeded"
       [] phases \cap {"running", "succeeded"} # {}      -> "running"
       [] OTHER                                          -> "pending"

SubmitReturns ==
  /\ pc = "status"
  /\ observed' = Collapse
  /\ pc' = "poll"
  /\ UNCHANGED <<keep, acked, targets, result, unsure, cluster>>

SubmitStatusRaises ==
  /\ pc = "status" /\ "list" \in Faults
  /\ Rollback
  /\ UNCHANGED <<keep, acked, observed, unsure, cluster>>

(* Mutant: only a successful run is cleaned up. *)
LeaveFailures(how) == /\ result' = how
                      /\ pc' = IF keep THEN "kept" ELSE "cleanup"
                      /\ targets' = IF keep \/ how = "raised" THEN {} ELSE Ranks

(* run() is left with a result or an exception: its finally clause. *)
Leave(how) == /\ result' = how
              /\ pc' = IF keep THEN "kept" ELSE "cleanup"
              /\ targets' = IF keep THEN {} ELSE Ranks

Ended == observed \in {"succeeded", "failed"}

PollEnds ==
  /\ pc = "poll" /\ Ended
  /\ Leave(IF observed = "succeeded" THEN "succeeded" ELSE "raised")
  /\ UNCHANGED <<keep, acked, observed, unsure, cluster>>

PollAgain ==
  /\ pc = "poll" /\ ~Ended
  /\ observed' = Collapse
  /\ UNCHANGED <<pc, keep, acked, targets, result, unsure, cluster>>

PollRaises ==
  /\ pc = "poll" /\ ~Ended /\ "list" \in Faults
  /\ Leave("raised")
  /\ UNCHANGED <<keep, acked, observed, unsure, cluster>>

(* Mutant: only a running workload can time out. *)
PollTimesOutRunning ==
  /\ pc = "poll" /\ observed = "running"
  /\ Leave("raised")
  /\ UNCHANGED <<keep, acked, observed, unsure, cluster>>

PollTimesOut ==
  /\ pc = "poll" /\ ~Ended
  /\ Leave("raised")
  /\ UNCHANGED <<keep, acked, observed, unsure, cluster>>

-----------------------------------------------------------------------------
(* Deletion: the rollback, run()'s cleanup by name, and a cancel() by label  *)
(* that the user calls.                                                      *)

DeletePod(p) ==
  /\ pc \in Deleting /\ p \in targets
  /\ targets' = targets \ {p}
  /\ leaving' = IF p \in Listed THEN leaving \cup {p} ELSE leaving
  /\ UNCHANGED <<pc, keep, acked, observed, result, unsure, group, pod, mine, outcome>>

(* Mutant: the loop over the Pods is left early. *)
DeleteGroupEarly ==
  /\ pc \in Deleting
  /\ group' = "none"
  /\ pc' = "done"
  /\ UNCHANGED <<keep, acked, targets, observed, result, unsure, pod, mine, leaving, outcome>>

DeleteGroup ==
  /\ pc \in Deleting /\ targets = {}
  /\ group' = "none"
  /\ pc' = "done"
  /\ UNCHANGED <<keep, acked, targets, observed, result, unsure, pod, mine, leaving, outcome>>

(* A delete request raises, done or not, and the rest is skipped. *)
DeleteRaises ==
  /\ pc \in Deleting /\ "delete" \in Faults
  /\ \/ \E p \in targets : leaving' \in {leaving, leaving \cup ({p} \cap Listed)} /\ UNCHANGED group
     \/ targets = {} /\ group' \in {group, "none"} /\ UNCHANGED leaving
  /\ targets' = {} /\ unsure' = TRUE
  /\ Raise
  /\ UNCHANGED <<keep, acked, observed, pod, mine, outcome>>

(* cancel() without a worker count lists the Pods of its label; it may raise *)
(* and be called again.                                                      *)
UserCancels ==
  /\ pc \in {"kept", "done"}
  /\ pc' = "cancel"
  /\ targets' = Listed
  /\ unsure' = FALSE
  /\ UNCHANGED <<keep, acked, observed, result, cluster>>

(* KeyboardInterrupt: submit() only catches Exception, so it leaves what it  *)
(* made; the polling loop goes to its finally clause.                        *)
Interrupt ==
  /\ "interrupt" \in Faults
  /\ \/ /\ pc \in {"group", "pods", "status"} \cup Deleting
        /\ Raise
        /\ targets' = {} /\ unsure' = TRUE
     \/ /\ pc = "poll"
        /\ Leave("raised")
        /\ UNCHANGED unsure
  /\ UNCHANGED <<keep, acked, observed, cluster>>

-----------------------------------------------------------------------------
(* The cluster.                                                              *)

PodRuns(p) ==
  /\ pod[p] = "pending"
  /\ pod' = [pod EXCEPT ![p] = "running"]
  /\ UNCHANGED <<client, group, mine, leaving, outcome>>

PodEnds(p) ==
  /\ pod[p] = "running"
  /\ \E how \in {"succeeded", "failed"} :
       /\ pod' = [pod EXCEPT ![p] = how]
       /\ outcome' = IF p \in mine THEN [outcome EXCEPT ![p] = how] ELSE outcome
  /\ UNCHANGED <<client, group, mine, leaving>>

PodEvicted(p) ==
  /\ p \in mine \ leaving /\ pod[p] \in {"pending", "running"}
  /\ leaving' = leaving \cup {p}
  /\ UNCHANGED <<client, group, pod, mine, outcome>>

PodGone(p) ==
  /\ p \in leaving
  /\ pod' = [pod EXCEPT ![p] = "none"]
  /\ mine' = mine \ {p}
  /\ leaving' = leaving \ {p}
  /\ UNCHANGED <<client, group, outcome>>

-----------------------------------------------------------------------------
RunNext == \/ PreflightPasses \/ PreflightRaises \/ CreateGroup \/ CreateGroupRaises
           \/ CreatePod \/ CreatePodRaises \/ SubmitReturns \/ SubmitStatusRaises
           \/ PollEnds \/ PollAgain \/ PollRaises \/ PollTimesOut
           \/ (\E p \in Pods : DeletePod(p)) \/ DeleteGroup \/ DeleteRaises

ClusterNext == \E p \in Pods : PodRuns(p) \/ PodEnds(p) \/ PodEvicted(p) \/ PodGone(p)

Next == RunNext \/ UserCancels \/ Interrupt \/ ClusterNext

Spec == Init /\ [][Next]_vars

(* The caller runs, API requests answer or fail, and its clock reaches the   *)
(* deadline; no Pod has to run, end or go.                                   *)
FairSpec == /\ Spec
            /\ WF_vars(pc # "poll" /\ RunNext)
            /\ WF_vars(PollEnds) /\ WF_vars(PollTimesOut)

-----------------------------------------------------------------------------
(* Properties.                                                               *)

(* run() only returns when the Pod of every rank ended in Succeeded, however *)
(* Pods were evicted or vanished between the status() calls, provided that   *)
(* the name of no Pod left by an earlier workload lies beyond the ranks.     *)
SuccessIsReal == result = "succeeded" => \A r \in Ranks : outcome[r] = "succeeded"

(* A run() that is over, and a cancel() that returned, leave no PodGroup of  *)
(* theirs and no Pod that is not being terminated, unless a request failed   *)
(* with an unknown effect or they were interrupted.                          *)
NothingLeft == pc = "done" /\ ~unsure => group # "mine" /\ mine \subseteq leaving

(* The PodGroup is only deleted after the deletion of every Pod whose        *)
(* creation was acknowledged has been asked for.                             *)
GroupGoesLast ==
  [][group = "mine" /\ group' # "mine" =>
       \A p \in 0 .. acked - 1 : pod[p] = "none" \/ p \in leaving]_vars

(* run() deletes nothing it did not create: a name clash in the middle of a  *)
(* submission rolls back this submission and not the other workload.         *)
OthersSpared ==
  [][pc # "cancel" => /\ group = "old" => group' = "old"
                      /\ leaving' \subseteq leaving \cup mine]_vars

(* run() ends, also when Pods never run or have been evicted for good. *)
RunEnds == pc = "preflight" ~> pc \in {"kept", "done"}

(* The doc's sentence: submit() rolls back a partial Pod submission. *)
SubmitRollsBack ==
  pc = "done" /\ result = "raised" /\ acked < Workers => mine \subseteq leaving

(* The doc's sentence: status() reduces the worker Pod phases, so a workload *)
(* whose status is "succeeded" has workers that all succeeded.               *)
SuccessIsOfWorkers ==
  pc = "poll" /\ observed = "succeeded" => \A r \in Ranks : outcome[r] = "succeeded"
=============================================================================
