------------------------- MODULE DynamoServiceProof -------------------------
(* Theorems of DynamoService for every number of replicas and every set of   *)
(* faults.                                                                   *)
EXTENDS DynamoService, TLAPS

(* Rank r has no engine and can never have one again, as long as no further  *)
(* launch RPC is issued.                                                     *)
Quiet(r) == \/ r >= launched
            \/ receipt[r] = "stopped"
            \/ closed[r] /\ guardian[r] = "none"

(* A reservation the driver does not hold has no actor in it, and one it     *)
(* never knew of never had any.                                              *)
GroupInv ==
  ~group => /\ \A r \in Ranks : actor[r] # "alive"
            /\ reservation # "removed" => \A r \in Ranks : actor[r] = "none"
            /\ reservation # "removed" => actors = 0

(* What the launch protocol leaves at each rank. *)
LaunchInv ==
  \A r \in Ranks :
    /\ r > actors => actor[r] = "none"
    /\ main \in StartSteps \ {"append"} /\ r = actors => actor[r] = "none"
    /\ r >= launched => launchRpc[r] = "none"
    /\ launchRpc[r] \in {"none", "queued"} => guardian[r] = "none"
    /\ launchRpc[r] = "spawned" => guardian[r] \in {"booting", "exited", "killed"}
    /\ guardian[r] \in {"none", "booting"} => tree[r] = "none"

(* A positive receipt, and a positive answer of stop(), tell the truth. *)
ReceiptInv ==
  \A r \in Ranks :
    /\ receipt[r] = "stopped" => guardian[r] = "exited" /\ ~Occupied(r)
    /\ stopRpc[r] = "waiting" => closed[r] /\ guardian[r] # "none"
    /\ stopRpc[r] = "yes" => closed[r] /\ (guardian[r] = "none" \/ receipt[r] = "stopped")

(* start() runs once, and no close() runs beside it. *)
StartInv ==
  /\ launched <= records /\ records <= actors
  /\ state = "new" => monitor = "none" /\ lock = "none" /\ ~error /\ ~stop
                      /\ reservation = "none" /\ ~group
                      /\ launched = 0 /\ records = 0 /\ actors = 0
  /\ main \in StartSteps =>
       /\ DriverUp /\ state = "starting" /\ lock = "none" /\ ~stop
       /\ monitor \in {"none", "wait", "await", "alarm", "ended"}
       /\ monitor = "ended" => error
       /\ main \in {"reserve", "assign", "create", "append", "info", "monitor"} =>
            launched = 0 /\ monitor = "none"
       /\ main \notin {"reserve", "assign", "create", "append", "info", "monitor"} =>
            monitor # "none"
       /\ reservation = IF main = "reserve" THEN "none" ELSE "held"
       /\ main \in {"reserve", "assign"} => ~group
       /\ main \notin {"reserve", "assign"} => group
       /\ IF main = "info" THEN actors = records + 1 ELSE actors = records
       /\ main \in {"reserve", "assign", "create", "append"} => actors < Replicas
       /\ main = "launch" => launched < records
       /\ main = "send_launch" => launched > 0 /\ launchRpc[launched - 1] = "none"
       /\ main = "await_launch" => launched > 0
       /\ main \notin {"reserve", "assign", "create", "append", "info"} => records = Replicas

(* The thread in close() holds the lock; the monitor only closes after start *)
(* returned.                                                                 *)
CloseInv ==
  /\ ~DriverUp => main = "idle" /\ monitor = "none"
  /\ IF lock = "none" THEN closing = "none" ELSE closing # "none" /\ state = "closing"
  /\ lock = "main" => main = "close"
  /\ lock = "monitor" => monitor = "close"
  /\ monitor = "close" => main \notin StartSteps /\ state # "new"
  /\ cursor <= actors
  /\ reservation = "none" => ~group

(* Confirmed ranks, and all ranks once the group is given back, are quiet. *)
QuietInv ==
  /\ closing = "confirm" => \A r \in Ranks : r < cursor => r \in failures \/ Quiet(r)
  /\ closing = "teardown" => /\ \A r \in Ranks : Quiet(r)
                             /\ \A r \in Ranks : r < cursor => actor[r] # "alive"
  /\ reservation # "held" => \A r \in Ranks : Quiet(r)

ReadyInv ==
  DriverUp /\ state = "ready" =>
    /\ main \in {"idle", "close"} /\ ~stop
    /\ monitor \in {"wait", "await", "alarm", "close"}
    /\ error => monitor = "close"

ClosedInv ==
  DriverUp /\ state = "closed" =>
    /\ main \in {"idle", "close"}
    /\ ~group

IInv == /\ TypeOK /\ LaunchInv /\ ReceiptInv /\ StartInv /\ CloseInv
        /\ GroupInv /\ QuietInv /\ ReadyInv /\ ClosedInv

-----------------------------------------------------------------------------
USE DEF vars, service, remote, object, ranks, closer, replies, cluster, replica, worker

(* What an interrupt of close() can leave behind. *)
LEMMA InterruptEffect ==
  ASSUME CloseInterrupted
  PROVE  /\ main = "close" /\ main' = "idle" /\ monitor' = monitor
         /\ \/ lock = "monitor" /\ UNCHANGED closer
            \/ /\ lock # "monitor" /\ lock' = "none" /\ closing' = "none"
               /\ cursor' = 0 /\ failures' = {}
         /\ UNCHANGED <<state, error, stop, ranks, driver, replies, ray, snapshot, closed,
                        launchRpc, stopRpc, worker>>
         /\ \/ MayRemove("main") /\ GroupRemoved
            \/ UNCHANGED <<reservation, actor, group>>
  <1>1. CASE lock = "monitor"
    BY <1>1 DEF CloseInterrupted
  <1>2. CASE lock # "monitor"
    BY <1>2 DEF CloseInterrupted, Return
  <1> QED BY <1>1, <1>2

(* Types are preserved.  Start steps need the progress counters of StartInv. *)
LEMMA TypeStep == ASSUME TypeOK, StartInv, CloseInv, [Next]_vars
                  PROVE  TypeOK'
<1> USE ReplicasAssumption DEF TypeOK, Ranks, States
<1>1. CASE Start
  BY <1>1 DEF Start, StartSteps
<1>2. CASE Reserve \/ AssignGroup
  <2>1. CASE Reserve
    BY <2>1 DEF Reserve, StartSteps
  <2>2. CASE AssignGroup
    BY <2>2 DEF AssignGroup, StartSteps
  <2> QED BY <1>2, <2>1, <2>2
<1>3. CASE CreateActor \/ AppendActor
  <2>1. CASE CreateActor
    BY <2>1 DEF CreateActor, StartInv, StartSteps
  <2>2. CASE AppendActor
    BY <2>2 DEF AppendActor, StartInv, StartSteps
  <2> QED BY <1>3, <2>1, <2>2
<1>4. CASE ActorInfo
  BY <1>4 DEF ActorInfo, StartInv, StartSteps
<1>5. CASE StartMonitor
  BY <1>5 DEF StartMonitor, StartSteps
<1>6. CASE MarkLaunched
  BY <1>6 DEF MarkLaunched, StartInv, StartSteps
<1>7. CASE SendLaunch
  BY <1>7 DEF SendLaunch, StartInv, StartSteps
<1>8. CASE LaunchReturned
  BY <1>8 DEF LaunchReturned, StartSteps
<1>9. CASE PollStatus
  BY <1>9 DEF PollStatus, StartSteps
<1>10. CASE StatusNotReady
  BY <1>10 DEF StatusNotReady, StartSteps
<1>11. CASE StatusAllReady
  BY <1>11 DEF StatusAllReady, StartSteps
<1>12. CASE Commit
  BY <1>12 DEF Commit
<1>13. CASE StartFails
  BY <1>13 DEF StartFails
<1>14. ASSUME NEW r \in Ranks, StatusReady(r) PROVE TypeOK'
  BY <1>14 DEF StatusReady
<1>15. CASE HeartbeatSend
  BY <1>15 DEF HeartbeatSend
<1>16. CASE HeartbeatsHealthy
  BY <1>16 DEF HeartbeatsHealthy
<1>17. CASE HeartbeatsFail
  BY <1>17 DEF HeartbeatsFail
<1>18. CASE Alarm
  BY <1>18 DEF Alarm
<1>19. CASE MonitorStops
  BY <1>19 DEF MonitorStops
<1>20. ASSUME NEW r \in Ranks, Heartbeat(r) PROVE TypeOK'
  BY <1>20 DEF Heartbeat
<1>21. CASE UserCloses
  BY <1>21 DEF UserCloses
<1>22. ASSUME NEW p \in {"main", "monitor"}, CloseAlreadyClosed(p) PROVE TypeOK'
  BY <1>22 DEF CloseAlreadyClosed, Return
<1>23. ASSUME NEW p \in {"main", "monitor"}, CloseDisconnected(p) PROVE TypeOK'
  BY <1>23 DEF CloseDisconnected, Return
<1>24. ASSUME NEW p \in {"main", "monitor"}, CloseSends(p) PROVE TypeOK'
  BY <1>24 DEF CloseSends
<1>25. ASSUME NEW p \in {"main", "monitor"}, ConfirmStopped(p) PROVE TypeOK'
  BY <1>25 DEF ConfirmStopped, Confirming, NextRank
<1>26. ASSUME NEW p \in {"main", "monitor"}, ConfirmFails(p) PROVE TypeOK'
  BY <1>26 DEF ConfirmFails, Confirming, NextRank
<1>27. ASSUME NEW p \in {"main", "monitor"}, CleanupUnconfirmed(p) PROVE TypeOK'
  BY <1>27 DEF CleanupUnconfirmed, Return
<1>28. ASSUME NEW p \in {"main", "monitor"}, TeardownBegins(p) PROVE TypeOK'
  BY <1>28 DEF TeardownBegins
<1>29. ASSUME NEW p \in {"main", "monitor"}, KillActor(p) PROVE TypeOK'
  BY <1>29 DEF KillActor, NextRank, StartInv, StartSteps
<1>30. ASSUME NEW p \in {"main", "monitor"}, RemoveGroup(p) PROVE TypeOK'
  <2>1. /\ group' \in BOOLEAN /\ reservation' \in {"none", "held", "removed"}
        /\ actor' \in [Ranks -> {"none", "alive", "dead"}]
    <3>1. \/ UNCHANGED <<reservation, actor>>
          \/ /\ reservation' = "removed"
             /\ actor' = [r \in Ranks |-> IF actor[r] = "alive" THEN "dead" ELSE actor[r]]
      BY <1>30 DEF RemoveGroup, GroupRemoved
    <3>2. group' \in BOOLEAN
      BY <1>30 DEF RemoveGroup
    <3> QED BY <3>1, <3>2
  <2>2. main' \in {"idle", "close"} \cup StartSteps /\ monitor' \in {"none", "wait", "await", "alarm", "close", "ended"}
    BY <1>30 DEF RemoveGroup, Return
  <2> QED BY <1>30, <2>1, <2>2 DEF RemoveGroup, Return
<1>31. ASSUME NEW p \in {"main", "monitor"}, TeardownFails(p) PROVE TypeOK'
  <2>1. /\ reservation' \in {"none", "held", "removed"}
        /\ actor' \in [Ranks -> {"none", "alive", "dead"}]
    BY <1>31 DEF TeardownFails, GroupRemoved
  <2>2. main' \in {"idle", "close"} \cup StartSteps /\ monitor' \in {"none", "wait", "await", "alarm", "close", "ended"}
    BY <1>31 DEF TeardownFails, Return
  <2> QED BY <1>31, <2>1, <2>2 DEF TeardownFails, Return
<1>32. ASSUME NEW r \in Ranks, LaunchRefused(r) PROVE TypeOK'
  BY <1>32 DEF LaunchRefused
<1>33. ASSUME NEW r \in Ranks, LaunchSpawns(r) PROVE TypeOK'
  BY <1>33 DEF LaunchSpawns
<1>34. ASSUME NEW r \in Ranks, LaunchWrites(r) PROVE TypeOK'
  BY <1>34 DEF LaunchWrites
<1>35. ASSUME NEW r \in Ranks, StopBegins(r) PROVE TypeOK'
  BY <1>35 DEF StopBegins
<1>36. ASSUME NEW r \in Ranks, StopAnswers(r) PROVE TypeOK'
  <2>1. stopRpc' = [stopRpc EXCEPT ![r] = "yes"] \/ stopRpc' = [stopRpc EXCEPT ![r] = "no"]
    BY <1>36 DEF StopAnswers
  <2> QED BY <1>36, <2>1 DEF StopAnswers
<1>37. ASSUME NEW r \in Ranks, GuardianStartsEngine(r) PROVE TypeOK'
  <2>1. /\ guardian' \in [Ranks -> {"none", "booting", "running", "stopping", "exited", "killed"}]
        /\ tree' \in [Ranks -> {"none", "serving", "exited", "gone"}]
    BY ZenonT(60), <1>37 DEF GuardianStartsEngine
  <2> QED BY <1>37, <2>1 DEF GuardianStartsEngine
<1>38. ASSUME NEW r \in Ranks, GuardianNeverLaunched(r) PROVE TypeOK'
  BY <1>38 DEF GuardianNeverLaunched
<1>39. ASSUME NEW r \in Ranks, GuardianStops(r) PROVE TypeOK'
  BY <1>39 DEF GuardianStops
<1>40. ASSUME NEW r \in Ranks, GuardianFinishes(r) PROVE TypeOK'
  BY <1>40 DEF GuardianFinishes
<1>41. ASSUME NEW r \in Ranks, GuardianGivesUp(r) PROVE TypeOK'
  BY <1>41 DEF GuardianGivesUp
<1>42. ASSUME NEW r \in Ranks, EngineExits(r) PROVE TypeOK'
  BY <1>42 DEF EngineExits
<1>43. ASSUME NEW r \in Ranks, TreeGone(r) PROVE TypeOK'
  BY <1>43 DEF TreeGone
<1>44. ASSUME NEW r \in Ranks, ActorCrashes(r) PROVE TypeOK'
  BY <1>44 DEF ActorCrashes
<1>45. ASSUME NEW r \in Ranks, GuardianKilled(r) PROVE TypeOK'
  BY <1>45 DEF GuardianKilled
<1>46. CASE DriverDies
  BY <1>46 DEF DriverDies
<1>47. CASE CloseInterrupted
  <2>1. /\ group' \in BOOLEAN /\ reservation' \in {"none", "held", "removed"}
        /\ actor' \in [Ranks -> {"none", "alive", "dead"}]
    BY <1>47 DEF CloseInterrupted, GroupRemoved
  <2>2. CASE lock = "monitor"
    <3>1. main' = "idle" /\ UNCHANGED <<monitor, closer>>
      BY <1>47, <2>2 DEF CloseInterrupted
    <3> QED BY <1>47, <2>1, <3>1 DEF CloseInterrupted
  <2>3. CASE lock # "monitor"
    BY <1>47, <2>1, <2>3 DEF CloseInterrupted, Return
  <2> QED BY <2>2, <2>3
<1>48. CASE RayShutdown
  <2>1. ray' \in BOOLEAN
    BY <1>48 DEF RayShutdown
  <2> QED BY <1>48, <2>1 DEF RayShutdown
<1>49. CASE RayReconnects
  BY <1>49 DEF RayReconnects
<1>50. CASE SaveStatus
  BY <1>50 DEF SaveStatus
<1>51. CASE Recover
  <2>1. error' \in BOOLEAN /\ stop' \in BOOLEAN
    BY <1>51 DEF Recover
  <2> QED BY <1>51, <2>1 DEF Recover
<1>52. CASE UNCHANGED vars
  BY <1>52
<1> QED
  BY ZenonT(60), <1>1, <1>2, <1>3, <1>4, <1>5, <1>6, <1>7, <1>8, <1>9, <1>10, <1>11, <1>12, <1>13,
     <1>14, <1>15, <1>16, <1>17, <1>18, <1>19, <1>20, <1>21, <1>22, <1>23, <1>24,
     <1>25, <1>26, <1>27, <1>28, <1>29, <1>30, <1>31, <1>32, <1>33, <1>34, <1>35,
     <1>36, <1>37, <1>38, <1>39, <1>40, <1>41, <1>42, <1>43, <1>44, <1>45, <1>46,
     <1>47, <1>48, <1>49, <1>50, <1>51, <1>52
  DEF Next, StartNext, MonitorNext, CloseNext, ActorNext, GuardianNext, FaultNext,
      GuardianSees, LeaseExpires

(* A guardian exists only where a launch RPC began, and an engine only where *)
(* a guardian read its launch line.                                          *)
LEMMA LaunchStep == ASSUME TypeOK, LaunchInv, StartInv, CloseInv, GroupInv, [Next]_vars
                    PROVE  LaunchInv'
<1> USE ReplicasAssumption DEF TypeOK, LaunchInv, StartInv, Ranks, Occupied, StartSteps, Busy, GuardianAlive
<1>1. CASE CreateActor \/ AppendActor
  BY <1>1 DEF CreateActor, AppendActor
<1>2. CASE MarkLaunched
  BY <1>2 DEF MarkLaunched
<1>3. CASE SendLaunch
  <2>1. UNCHANGED <<actors, launched, actor, guardian, tree>> /\ main' = "await_launch"
    BY <1>3 DEF SendLaunch
  <2>2. launchRpc' = [launchRpc EXCEPT ![launched - 1] = "queued"] /\ launched - 1 \in Ranks
    BY <1>3 DEF SendLaunch
  <2>3. launchRpc[launched - 1] = "none"
    BY <1>3 DEF SendLaunch
  <2>4. ASSUME NEW r \in Ranks
        PROVE  /\ r > actors => actor'[r] = "none"
               /\ main' \in StartSteps \ {"append"} /\ r = actors => actor'[r] = "none"
    BY <1>3, <2>1 DEF SendLaunch
  <2>5. ASSUME NEW r \in Ranks, r = launched - 1
        PROVE  launchRpc'[r] = "queued" /\ guardian[r] = "none" /\ r < launched
    BY <2>2, <2>3, <2>5
  <2>6. ASSUME NEW r \in Ranks, r # launched - 1 PROVE launchRpc'[r] = launchRpc[r]
    BY <2>2, <2>6
  <2>7. ASSUME NEW r \in Ranks
        PROVE  /\ r >= launched' => launchRpc'[r] = "none"
               /\ launchRpc'[r] \in {"none", "queued"} => guardian'[r] = "none"
               /\ launchRpc'[r] = "spawned" => guardian'[r] \in {"booting", "exited", "killed"}
               /\ guardian'[r] \in {"none", "booting"} => tree'[r] = "none"
    <3>1. CASE r = launched - 1
      BY <2>1, <2>5, <3>1
    <3>2. CASE r # launched - 1
      BY <2>1, <2>6, <3>2
    <3> QED BY <3>1, <3>2
  <2> QED BY <2>1, <2>4, <2>7
<1>4. ASSUME NEW p \in {"main", "monitor"}, CloseSends(p) PROVE LaunchInv'
  BY <1>4 DEF CloseSends
<1>5. ASSUME NEW p \in {"main", "monitor"}, KillActor(p) PROVE LaunchInv'
  BY <1>5 DEF KillActor, NextRank
<1>6. ASSUME NEW r \in Ranks, LaunchRefused(r) PROVE LaunchInv'
  BY <1>6 DEF LaunchRefused
<1>7. ASSUME NEW r \in Ranks, LaunchSpawns(r) PROVE LaunchInv'
  BY <1>7 DEF LaunchSpawns
<1>8. ASSUME NEW r \in Ranks, LaunchWrites(r) PROVE LaunchInv'
  BY <1>8 DEF LaunchWrites
<1>9. ASSUME NEW r \in Ranks, GuardianStartsEngine(r) PROVE LaunchInv'
  BY <1>9 DEF GuardianStartsEngine
<1>10. ASSUME NEW r \in Ranks, GuardianNeverLaunched(r) PROVE LaunchInv'
  BY <1>10 DEF GuardianNeverLaunched
<1>11. ASSUME NEW r \in Ranks, GuardianStops(r) PROVE LaunchInv'
  BY ZenonT(60), <1>11 DEF GuardianStops
<1>12. ASSUME NEW r \in Ranks, GuardianFinishes(r) PROVE LaunchInv'
  BY <1>12 DEF GuardianFinishes
<1>13. ASSUME NEW r \in Ranks, GuardianGivesUp(r) PROVE LaunchInv'
  BY <1>13 DEF GuardianGivesUp
<1>14. ASSUME NEW r \in Ranks, EngineExits(r) PROVE LaunchInv'
  BY <1>14 DEF EngineExits
<1>15. ASSUME NEW r \in Ranks, TreeGone(r) PROVE LaunchInv'
  BY <1>15 DEF TreeGone
<1>16. ASSUME NEW r \in Ranks, ActorCrashes(r) PROVE LaunchInv'
  BY <1>16 DEF ActorCrashes
<1>17. ASSUME NEW r \in Ranks, GuardianKilled(r) PROVE LaunchInv'
  BY <1>17 DEF GuardianKilled
<1>18. CASE Recover
  BY <1>18 DEF Recover
<1>25. CASE AssignGroup \/ ActorInfo
  BY <1>25 DEF AssignGroup, ActorInfo
<1>26. CASE Start
  <2>1. \A r \in Ranks : actor[r] = "none"
    BY <1>26 DEF Start, GroupInv
  <2> QED BY <1>26, <2>1 DEF Start
<1>19. CASE Reserve \/ StartMonitor \/ LaunchReturned \/
          PollStatus \/ StatusNotReady \/ StatusAllReady \/ Commit \/ StartFails \/
          HeartbeatSend \/ HeartbeatsHealthy \/ HeartbeatsFail \/ Alarm \/
          MonitorStops \/ UserCloses \/ DriverDies \/
          RayShutdown \/ RayReconnects \/ SaveStatus
  BY <1>19 DEF Reserve, StartMonitor, LaunchReturned, PollStatus,
     StatusNotReady, StatusAllReady, Commit, StartFails, HeartbeatSend,
     HeartbeatsHealthy, HeartbeatsFail, Alarm, MonitorStops, UserCloses, DriverDies,
     RayShutdown, RayReconnects, SaveStatus
<1>20. ASSUME NEW r \in Ranks,
        StatusReady(r) \/ Heartbeat(r) \/ StopBegins(r) \/ StopAnswers(r)
      PROVE LaunchInv'
  BY <1>20 DEF StatusReady, Heartbeat, StopBegins, StopAnswers
<1>21. ASSUME NEW p \in {"main", "monitor"},
        CloseAlreadyClosed(p) \/ CloseDisconnected(p) \/ ConfirmStopped(p) \/
        ConfirmFails(p) \/ CleanupUnconfirmed(p) \/ TeardownBegins(p)
      PROVE LaunchInv'
  BY <1>21 DEF CloseAlreadyClosed, Return, CloseDisconnected, ConfirmStopped, Confirming,
     NextRank, ConfirmFails, CleanupUnconfirmed, TeardownBegins
<1>22. CASE UNCHANGED vars
  BY <1>22
<1>23. ASSUME NEW p \in {"main", "monitor"}, RemoveGroup(p) \/ TeardownFails(p)
       PROVE LaunchInv'
  <2>1. UNCHANGED <<actors, launched, launchRpc, guardian, tree>> /\ main' \notin StartSteps
    BY <1>23 DEF RemoveGroup, TeardownFails, Return, CloseInv
  <2>2. GroupRemoved \/ UNCHANGED actor
    BY <1>23 DEF RemoveGroup, TeardownFails
  <2> QED BY <2>1, <2>2 DEF GroupRemoved
<1>24. CASE CloseInterrupted
  <2>1. UNCHANGED <<actors, launched, launchRpc, guardian, tree>> /\ main' = "idle"
    BY <1>24 DEF CloseInterrupted, Return
  <2>2. GroupRemoved \/ UNCHANGED actor
    BY <1>24 DEF CloseInterrupted
  <2> QED BY <2>1, <2>2 DEF GroupRemoved
<1> QED
  BY <1>1, <1>2, <1>3, <1>4, <1>5, <1>6, <1>7, <1>8, <1>9, <1>10, <1>11, <1>12, <1>13,
     <1>14, <1>15, <1>16, <1>17, <1>18, <1>19, <1>20, <1>21, <1>22, <1>23, <1>24, <1>25,
     <1>26
  DEF Next, StartNext, MonitorNext, CloseNext, ActorNext, GuardianNext, FaultNext,
      GuardianSees, LeaseExpires

(* A receipt is written after the tree is gone, and nothing restarts it.     *)
LEMMA ReceiptStep == ASSUME TypeOK, LaunchInv, ReceiptInv, [Next]_vars
                     PROVE  ReceiptInv'
<1> USE ReplicasAssumption DEF TypeOK, LaunchInv, ReceiptInv, Ranks, Occupied, Busy, GuardianAlive
<1>1. ASSUME NEW p \in {"main", "monitor"}, CloseSends(p) PROVE ReceiptInv'
  BY <1>1 DEF CloseSends
<1>2. ASSUME NEW r \in Ranks, LaunchSpawns(r) PROVE ReceiptInv'
  BY <1>2 DEF LaunchSpawns
<1>3. ASSUME NEW r \in Ranks, StopBegins(r) PROVE ReceiptInv'
  BY <1>3 DEF StopBegins
<1>4. ASSUME NEW r \in Ranks, StopAnswers(r) PROVE ReceiptInv'
  BY <1>4 DEF StopAnswers
<1>5. ASSUME NEW r \in Ranks, GuardianStartsEngine(r) PROVE ReceiptInv'
  BY <1>5 DEF GuardianStartsEngine
<1>6. ASSUME NEW r \in Ranks, GuardianNeverLaunched(r) PROVE ReceiptInv'
  BY <1>6 DEF GuardianNeverLaunched
<1>7. ASSUME NEW r \in Ranks, GuardianStops(r) PROVE ReceiptInv'
  BY <1>7 DEF GuardianStops
<1>8. ASSUME NEW r \in Ranks, GuardianFinishes(r) PROVE ReceiptInv'
  BY <1>8 DEF GuardianFinishes
<1>9. ASSUME NEW r \in Ranks, GuardianGivesUp(r) PROVE ReceiptInv'
  BY <1>9 DEF GuardianGivesUp
<1>10. ASSUME NEW r \in Ranks, EngineExits(r) PROVE ReceiptInv'
  BY <1>10 DEF EngineExits
<1>11. ASSUME NEW r \in Ranks, TreeGone(r) PROVE ReceiptInv'
  BY <1>11 DEF TreeGone
<1>12. ASSUME NEW r \in Ranks, GuardianKilled(r) PROVE ReceiptInv'
  BY <1>12 DEF GuardianKilled
<1>13. CASE Start \/ Reserve \/ AssignGroup \/ CreateActor \/ AppendActor \/
          ActorInfo \/ StartMonitor \/
          MarkLaunched \/ SendLaunch \/ LaunchReturned \/ PollStatus \/
          StatusNotReady \/ StatusAllReady \/ Commit \/ StartFails \/ HeartbeatSend \/
          HeartbeatsHealthy \/ HeartbeatsFail \/ Alarm \/ MonitorStops \/
          UserCloses \/ DriverDies \/ CloseInterrupted \/ RayShutdown \/
          RayReconnects \/ SaveStatus \/ Recover
  BY <1>13 DEF Start, Reserve, AssignGroup, CreateActor, AppendActor, ActorInfo, StartMonitor, MarkLaunched, SendLaunch,
     LaunchReturned, PollStatus, StatusNotReady, StatusAllReady, Commit, StartFails,
     HeartbeatSend, HeartbeatsHealthy, HeartbeatsFail, Alarm, MonitorStops,
     UserCloses, DriverDies, CloseInterrupted, Return, RayShutdown, RayReconnects,
     SaveStatus, Recover
<1>14. ASSUME NEW r \in Ranks,
        StatusReady(r) \/ Heartbeat(r) \/ LaunchRefused(r) \/ LaunchWrites(r) \/
        ActorCrashes(r)
      PROVE ReceiptInv'
  BY <1>14 DEF StatusReady, Heartbeat, LaunchRefused, LaunchWrites, ActorCrashes
<1>15. ASSUME NEW p \in {"main", "monitor"},
        CloseAlreadyClosed(p) \/ CloseDisconnected(p) \/ ConfirmStopped(p) \/
        ConfirmFails(p) \/ CleanupUnconfirmed(p) \/ TeardownBegins(p) \/
        KillActor(p) \/ RemoveGroup(p) \/ TeardownFails(p)
      PROVE ReceiptInv'
  BY <1>15 DEF CloseAlreadyClosed, Return, CloseDisconnected, ConfirmStopped, Confirming,
     NextRank, ConfirmFails, CleanupUnconfirmed, TeardownBegins, KillActor,
     RemoveGroup, TeardownFails
<1>16. CASE UNCHANGED vars
  BY <1>16
<1> QED
  BY <1>1, <1>2, <1>3, <1>4, <1>5, <1>6, <1>7, <1>8, <1>9, <1>10, <1>11, <1>12, <1>13,
     <1>14, <1>15, <1>16
  DEF Next, StartNext, MonitorNext, CloseNext, ActorNext, GuardianNext, FaultNext,
      GuardianSees, LeaseExpires

(* While start() runs, nobody closes and the monitor has not been lost.      *)
LEMMA StartStep == ASSUME TypeOK, LaunchInv, StartInv, CloseInv, ReadyInv, [Next]_vars
                   PROVE  StartInv'
<1> USE ReplicasAssumption DEF TypeOK, StartInv, CloseInv, ReadyInv, LaunchInv, Ranks, DriverUp, States,
        StartSteps, Calling
<1>1. CASE Start
  BY <1>1 DEF Start
<1>2. CASE Reserve \/ AssignGroup
  BY <1>2 DEF Reserve, AssignGroup
<1>3. CASE CreateActor \/ AppendActor
  BY <1>3 DEF CreateActor, AppendActor
<1>4. CASE ActorInfo
  BY <1>4 DEF ActorInfo
<1>5. CASE StartMonitor
  BY <1>5 DEF StartMonitor
<1>6. CASE MarkLaunched
  BY <1>6 DEF MarkLaunched
<1>7. CASE SendLaunch
  BY <1>7 DEF SendLaunch
<1>8. CASE LaunchReturned
  BY <1>8 DEF LaunchReturned
<1>9. CASE PollStatus
  BY <1>9 DEF PollStatus
<1>10. CASE StatusNotReady
  BY <1>10 DEF StatusNotReady
<1>11. CASE StatusAllReady
  BY <1>11 DEF StatusAllReady
<1>12. CASE Commit
  BY <1>12 DEF Commit
<1>13. CASE StartFails
  BY <1>13 DEF StartFails
<1>14. CASE HeartbeatSend
  BY <1>14 DEF HeartbeatSend
<1>15. CASE HeartbeatsHealthy
  BY <1>15 DEF HeartbeatsHealthy
<1>16. CASE HeartbeatsFail
  BY <1>16 DEF HeartbeatsFail
<1>17. CASE Alarm
  BY <1>17 DEF Alarm
<1>18. CASE MonitorStops
  BY <1>18 DEF MonitorStops
<1>19. CASE UserCloses
  BY <1>19 DEF UserCloses
<1>20. ASSUME NEW p \in {"main", "monitor"}, CloseAlreadyClosed(p) PROVE StartInv'
  BY <1>20 DEF CloseAlreadyClosed, Return
<1>21. ASSUME NEW p \in {"main", "monitor"}, CloseDisconnected(p) PROVE StartInv'
  BY <1>21 DEF CloseDisconnected, Return
<1>22. ASSUME NEW p \in {"main", "monitor"}, CloseSends(p) PROVE StartInv'
  BY <1>22 DEF CloseSends
<1>23. ASSUME NEW p \in {"main", "monitor"}, ConfirmStopped(p) PROVE StartInv'
  BY <1>23 DEF ConfirmStopped, Confirming, NextRank
<1>24. ASSUME NEW p \in {"main", "monitor"}, ConfirmFails(p) PROVE StartInv'
  BY <1>24 DEF ConfirmFails, Confirming, NextRank
<1>25. ASSUME NEW p \in {"main", "monitor"}, CleanupUnconfirmed(p) PROVE StartInv'
  BY <1>25 DEF CleanupUnconfirmed, Return
<1>26. ASSUME NEW p \in {"main", "monitor"}, TeardownBegins(p) PROVE StartInv'
  BY <1>26 DEF TeardownBegins
<1>27. ASSUME NEW p \in {"main", "monitor"}, KillActor(p) PROVE StartInv'
  BY <1>27 DEF KillActor, NextRank
<1>28. ASSUME NEW p \in {"main", "monitor"}, RemoveGroup(p) PROVE StartInv'
  BY <1>28 DEF RemoveGroup, Return
<1>29. ASSUME NEW p \in {"main", "monitor"}, TeardownFails(p) PROVE StartInv'
  BY <1>29 DEF TeardownFails, Return
<1>30. ASSUME NEW r \in Ranks, LaunchRefused(r) PROVE StartInv'
  <2>1. main = "send_launch" => launched - 1 \in Ranks /\ launched - 1 # r
    <3>1. launchRpc[r] # "none"
      BY <1>30 DEF LaunchRefused
    <3> QED BY <3>1
  <2> QED BY <1>30, <2>1 DEF LaunchRefused
<1>31. ASSUME NEW r \in Ranks, LaunchSpawns(r) PROVE StartInv'
  <2>1. main = "send_launch" => launched - 1 \in Ranks /\ launched - 1 # r
    <3>1. launchRpc[r] # "none"
      BY <1>31 DEF LaunchSpawns
    <3> QED BY <3>1
  <2> QED BY <1>31, <2>1 DEF LaunchSpawns
<1>32. ASSUME NEW r \in Ranks, LaunchWrites(r) PROVE StartInv'
  <2>1. main = "send_launch" => launched - 1 \in Ranks /\ launched - 1 # r
    <3>1. launchRpc[r] # "none"
      BY <1>32 DEF LaunchWrites
    <3> QED BY <3>1
  <2> QED BY <1>32, <2>1 DEF LaunchWrites
<1>33. CASE DriverDies
  BY <1>33 DEF DriverDies
<1>34. CASE CloseInterrupted
  BY <1>34, InterruptEffect DEF MayRemove, GroupRemoved
<1>35. CASE Recover
  BY <1>35 DEF Recover
<1>36. CASE RayShutdown \/ RayReconnects \/ SaveStatus
  BY <1>36 DEF RayShutdown, RayReconnects, SaveStatus
<1>37. ASSUME NEW r \in Ranks,
        StatusReady(r) \/ Heartbeat(r) \/ StopBegins(r) \/ StopAnswers(r) \/
        GuardianStartsEngine(r) \/ GuardianNeverLaunched(r) \/ GuardianStops(r) \/
        GuardianFinishes(r) \/ GuardianGivesUp(r) \/ EngineExits(r) \/ TreeGone(r) \/
        ActorCrashes(r) \/ GuardianKilled(r)
      PROVE StartInv'
  BY <1>37 DEF StatusReady, Heartbeat, StopBegins, StopAnswers, GuardianStartsEngine,
     GuardianNeverLaunched, GuardianStops, GuardianFinishes, GuardianGivesUp,
     EngineExits, TreeGone, ActorCrashes, GuardianKilled
<1>38. CASE UNCHANGED vars
  BY <1>38
<1> QED
  BY ZenonT(60), <1>1, <1>2, <1>3, <1>4, <1>5, <1>6, <1>7, <1>8, <1>9, <1>10, <1>11, <1>12, <1>13,
     <1>14, <1>15, <1>16, <1>17, <1>18, <1>19, <1>20, <1>21, <1>22, <1>23, <1>24,
     <1>25, <1>26, <1>27, <1>28, <1>29, <1>30, <1>31, <1>32, <1>33, <1>34, <1>35,
     <1>36, <1>37, <1>38
  DEF Next, StartNext, MonitorNext, CloseNext, ActorNext, GuardianNext, FaultNext,
      GuardianSees, LeaseExpires

(* The lock and the steps of close() belong to one calling thread.           *)
LEMMA CloseStep == ASSUME TypeOK, StartInv, CloseInv, ReadyInv, [Next]_vars
                   PROVE  CloseInv'
<1> USE ReplicasAssumption DEF TypeOK, StartInv, CloseInv, ReadyInv, Ranks, DriverUp, States, StartSteps,
        Calling
<1>1. CASE Start
  BY <1>1 DEF Start
<1>2. CASE Reserve \/ AssignGroup
  BY <1>2 DEF Reserve, AssignGroup
<1>3. CASE CreateActor \/ AppendActor
  BY <1>3 DEF CreateActor, AppendActor
<1>4. CASE ActorInfo
  BY <1>4 DEF ActorInfo
<1>5. CASE StartMonitor
  BY <1>5 DEF StartMonitor
<1>6. CASE MarkLaunched
  BY <1>6 DEF MarkLaunched
<1>7. CASE SendLaunch
  BY <1>7 DEF SendLaunch
<1>8. CASE LaunchReturned
  BY <1>8 DEF LaunchReturned
<1>9. CASE PollStatus
  BY <1>9 DEF PollStatus
<1>10. CASE StatusNotReady
  BY <1>10 DEF StatusNotReady
<1>11. CASE StatusAllReady
  BY <1>11 DEF StatusAllReady
<1>12. CASE Commit
  BY <1>12 DEF Commit
<1>13. CASE StartFails
  BY <1>13 DEF StartFails
<1>14. CASE HeartbeatSend
  BY <1>14 DEF HeartbeatSend
<1>15. CASE HeartbeatsHealthy
  BY <1>15 DEF HeartbeatsHealthy
<1>16. CASE HeartbeatsFail
  BY <1>16 DEF HeartbeatsFail
<1>17. CASE Alarm
  BY <1>17 DEF Alarm
<1>18. CASE MonitorStops
  BY <1>18 DEF MonitorStops
<1>19. CASE UserCloses
  BY <1>19 DEF UserCloses
<1>20. ASSUME NEW p \in {"main", "monitor"}, CloseAlreadyClosed(p) PROVE CloseInv'
  BY <1>20 DEF CloseAlreadyClosed, Return
<1>21. ASSUME NEW p \in {"main", "monitor"}, CloseDisconnected(p) PROVE CloseInv'
  BY <1>21 DEF CloseDisconnected, Return
<1>22. ASSUME NEW p \in {"main", "monitor"}, CloseSends(p) PROVE CloseInv'
  BY <1>22 DEF CloseSends
<1>23. ASSUME NEW p \in {"main", "monitor"}, ConfirmStopped(p) PROVE CloseInv'
  BY <1>23 DEF ConfirmStopped, Confirming, NextRank
<1>24. ASSUME NEW p \in {"main", "monitor"}, ConfirmFails(p) PROVE CloseInv'
  BY <1>24 DEF ConfirmFails, Confirming, NextRank
<1>25. ASSUME NEW p \in {"main", "monitor"}, CleanupUnconfirmed(p) PROVE CloseInv'
  BY <1>25 DEF CleanupUnconfirmed, Return
<1>26. ASSUME NEW p \in {"main", "monitor"}, TeardownBegins(p) PROVE CloseInv'
  BY <1>26 DEF TeardownBegins
<1>27. ASSUME NEW p \in {"main", "monitor"}, KillActor(p) PROVE CloseInv'
  BY <1>27 DEF KillActor, NextRank
<1>28. ASSUME NEW p \in {"main", "monitor"}, RemoveGroup(p) PROVE CloseInv'
  BY <1>28 DEF RemoveGroup, Return
<1>29. ASSUME NEW p \in {"main", "monitor"}, TeardownFails(p) PROVE CloseInv'
  <2>1. reservation' = "removed" \/ UNCHANGED reservation
    BY <1>29 DEF TeardownFails, GroupRemoved
  <2>2. UNCHANGED <<group, actors, driver>> /\ state' = "cleanup_failed"
    BY <1>29 DEF TeardownFails
  <2> QED BY <1>29, <2>1, <2>2 DEF Return, TeardownFails
<1>30. CASE DriverDies
  BY <1>30 DEF DriverDies
<1>31. CASE CloseInterrupted
  BY <1>31, InterruptEffect DEF MayRemove, GroupRemoved
<1>32. CASE Recover
  BY <1>32 DEF Recover
<1>33. CASE RayShutdown \/ RayReconnects \/ SaveStatus
  BY <1>33 DEF RayShutdown, RayReconnects, SaveStatus
<1>34. ASSUME NEW r \in Ranks,
        StatusReady(r) \/ Heartbeat(r) \/ LaunchRefused(r) \/ LaunchSpawns(r) \/
        LaunchWrites(r) \/ StopBegins(r) \/ StopAnswers(r) \/
        GuardianStartsEngine(r) \/ GuardianNeverLaunched(r) \/ GuardianStops(r) \/
        GuardianFinishes(r) \/ GuardianGivesUp(r) \/ EngineExits(r) \/ TreeGone(r) \/
        ActorCrashes(r) \/ GuardianKilled(r)
      PROVE CloseInv'
  BY <1>34 DEF StatusReady, Heartbeat, LaunchRefused, LaunchSpawns, LaunchWrites, StopBegins,
     StopAnswers, GuardianStartsEngine, GuardianNeverLaunched, GuardianStops,
     GuardianFinishes, GuardianGivesUp, EngineExits, TreeGone, ActorCrashes,
     GuardianKilled
<1>35. CASE UNCHANGED vars
  BY <1>35
<1> QED
  BY <1>1, <1>2, <1>3, <1>4, <1>5, <1>6, <1>7, <1>8, <1>9, <1>10, <1>11, <1>12, <1>13,
     <1>14, <1>15, <1>16, <1>17, <1>18, <1>19, <1>20, <1>21, <1>22, <1>23, <1>24,
     <1>25, <1>26, <1>27, <1>28, <1>29, <1>30, <1>31, <1>32, <1>33, <1>34, <1>35
  DEF Next, StartNext, MonitorNext, CloseNext, ActorNext, GuardianNext, FaultNext,
      GuardianSees, LeaseExpires

(* An actor is only created in a group the driver holds, and goes with it.   *)
LEMMA GroupStep == ASSUME TypeOK, StartInv, CloseInv, GroupInv, [Next]_vars
                   PROVE  GroupInv'
<1> USE ReplicasAssumption DEF TypeOK, StartInv, CloseInv, GroupInv, Ranks, StartSteps
<1>1. CASE Reserve \/ AssignGroup
  BY <1>1 DEF Reserve, AssignGroup
<1>2. CASE CreateActor \/ AppendActor
  BY <1>2 DEF CreateActor, AppendActor
<1>3. ASSUME NEW p \in {"main", "monitor"}, KillActor(p) PROVE GroupInv'
  BY <1>3 DEF KillActor, NextRank
<1>4. ASSUME NEW p \in {"main", "monitor"}, RemoveGroup(p) PROVE GroupInv'
  <2>1. UNCHANGED actors
    BY <1>4 DEF RemoveGroup
  <2>2. GroupRemoved \/ (~group /\ UNCHANGED <<reservation, actor>>)
    BY <1>4 DEF RemoveGroup
  <2> QED BY <2>1, <2>2 DEF GroupRemoved
<1>5. ASSUME NEW p \in {"main", "monitor"}, TeardownFails(p) PROVE GroupInv'
  <2>1. UNCHANGED <<actors, group>>
    BY <1>5 DEF TeardownFails
  <2>2. GroupRemoved \/ UNCHANGED <<reservation, actor>>
    BY <1>5 DEF TeardownFails
  <2> QED BY <2>1, <2>2 DEF GroupRemoved
<1>6. CASE CloseInterrupted
  <2>1. UNCHANGED actors /\ (GroupRemoved \/ UNCHANGED <<reservation, actor, group>>)
    BY <1>6 DEF CloseInterrupted
  <2> QED BY <2>1 DEF GroupRemoved
<1>7. ASSUME NEW r \in Ranks, ActorCrashes(r) PROVE GroupInv'
  BY <1>7 DEF ActorCrashes
<1>8. CASE Recover
  BY <1>8 DEF Recover
<1>9. CASE Start \/ ActorInfo \/ StartMonitor \/ MarkLaunched \/ SendLaunch \/
          LaunchReturned \/ PollStatus \/ StatusNotReady \/ StatusAllReady \/ Commit \/
          StartFails \/ HeartbeatSend \/ HeartbeatsHealthy \/ HeartbeatsFail \/ Alarm \/
          MonitorStops \/ UserCloses \/ DriverDies \/ RayShutdown \/ RayReconnects \/
          SaveStatus
  BY <1>9 DEF Start, ActorInfo, StartMonitor, MarkLaunched, SendLaunch, LaunchReturned,
     PollStatus, StatusNotReady, StatusAllReady, Commit, StartFails, HeartbeatSend,
     HeartbeatsHealthy, HeartbeatsFail, Alarm, MonitorStops, UserCloses, DriverDies,
     RayShutdown, RayReconnects, SaveStatus
<1>10. ASSUME NEW r \in Ranks,
        StatusReady(r) \/ Heartbeat(r) \/ LaunchRefused(r) \/ LaunchSpawns(r) \/
        LaunchWrites(r) \/ StopBegins(r) \/ StopAnswers(r) \/
        GuardianStartsEngine(r) \/ GuardianNeverLaunched(r) \/ GuardianStops(r) \/
        GuardianFinishes(r) \/ GuardianGivesUp(r) \/ EngineExits(r) \/ TreeGone(r) \/
        GuardianKilled(r)
      PROVE GroupInv'
  BY <1>10 DEF StatusReady, Heartbeat, LaunchRefused, LaunchSpawns, LaunchWrites, StopBegins,
     StopAnswers, GuardianStartsEngine, GuardianNeverLaunched, GuardianStops,
     GuardianFinishes, GuardianGivesUp, EngineExits, TreeGone, GuardianKilled
<1>11. ASSUME NEW p \in {"main", "monitor"},
        CloseAlreadyClosed(p) \/ CloseDisconnected(p) \/ CloseSends(p) \/
        ConfirmStopped(p) \/ ConfirmFails(p) \/ CleanupUnconfirmed(p) \/ TeardownBegins(p)
      PROVE GroupInv'
  BY <1>11 DEF CloseAlreadyClosed, CloseDisconnected, CloseSends, ConfirmStopped,
     ConfirmFails, CleanupUnconfirmed, TeardownBegins
<1>12. CASE UNCHANGED vars
  BY <1>12
<1> QED
  BY <1>1, <1>2, <1>3, <1>4, <1>5, <1>6, <1>7, <1>8, <1>9, <1>10, <1>11, <1>12
  DEF Next, StartNext, MonitorNext, CloseNext, ActorNext, GuardianNext, FaultNext,
      GuardianSees, LeaseExpires

(* A confirmed rank stays quiet: a confirmation never goes stale.            *)
LEMMA QuietStep == ASSUME TypeOK, LaunchInv, ReceiptInv, StartInv, CloseInv, QuietInv, [Next]_vars
                   PROVE  QuietInv'
<1> USE ReplicasAssumption DEF TypeOK, LaunchInv, ReceiptInv, StartInv, CloseInv, QuietInv, Ranks, Quiet,
        DriverUp, GuardianAlive, StartSteps, Stopped
<1>1. CASE Reserve \/ AssignGroup
  BY <1>1 DEF Reserve, AssignGroup
<1>2. CASE CreateActor \/ AppendActor
  BY <1>2 DEF CreateActor, AppendActor
<1>3. CASE MarkLaunched
  BY <1>3 DEF MarkLaunched
<1>4. ASSUME NEW p \in {"main", "monitor"}, CloseAlreadyClosed(p) PROVE QuietInv'
  BY <1>4 DEF CloseAlreadyClosed, Return
<1>5. ASSUME NEW p \in {"main", "monitor"}, CloseDisconnected(p) PROVE QuietInv'
  BY <1>5 DEF CloseDisconnected, Return
<1>6. ASSUME NEW p \in {"main", "monitor"}, CloseSends(p) PROVE QuietInv'
  BY <1>6 DEF CloseSends
<1>7. ASSUME NEW p \in {"main", "monitor"}, ConfirmStopped(p) PROVE QuietInv'
  BY <1>7 DEF ConfirmStopped, Confirming, NextRank
<1>8. ASSUME NEW p \in {"main", "monitor"}, ConfirmFails(p) PROVE QuietInv'
  BY <1>8 DEF ConfirmFails, Confirming, NextRank
<1>9. ASSUME NEW p \in {"main", "monitor"}, CleanupUnconfirmed(p) PROVE QuietInv'
  BY <1>9 DEF CleanupUnconfirmed, Return
<1>10. ASSUME NEW p \in {"main", "monitor"}, TeardownBegins(p) PROVE QuietInv'
  BY <1>10 DEF TeardownBegins
<1>11. ASSUME NEW p \in {"main", "monitor"}, KillActor(p) PROVE QuietInv'
  BY <1>11 DEF KillActor, NextRank
<1>12. ASSUME NEW p \in {"main", "monitor"}, RemoveGroup(p) PROVE QuietInv'
  BY <1>12 DEF RemoveGroup, Return
<1>13. ASSUME NEW p \in {"main", "monitor"}, TeardownFails(p) PROVE QuietInv'
  BY <1>13 DEF TeardownFails, Return
<1>14. ASSUME NEW r \in Ranks, LaunchSpawns(r) PROVE QuietInv'
  BY <1>14 DEF LaunchSpawns
<1>15. ASSUME NEW r \in Ranks, StopBegins(r) PROVE QuietInv'
  BY <1>15 DEF StopBegins
<1>16. ASSUME NEW r \in Ranks, GuardianStartsEngine(r) PROVE QuietInv'
  BY <1>16 DEF GuardianStartsEngine
<1>17. ASSUME NEW r \in Ranks, GuardianNeverLaunched(r) PROVE QuietInv'
  BY <1>17 DEF GuardianNeverLaunched
<1>18. ASSUME NEW r \in Ranks, GuardianStops(r) PROVE QuietInv'
  BY <1>18 DEF GuardianStops
<1>19. ASSUME NEW r \in Ranks, GuardianFinishes(r) PROVE QuietInv'
  BY <1>19 DEF GuardianFinishes
<1>20. ASSUME NEW r \in Ranks, GuardianGivesUp(r) PROVE QuietInv'
  BY <1>20 DEF GuardianGivesUp
<1>21. ASSUME NEW r \in Ranks, ActorCrashes(r) PROVE QuietInv'
  BY <1>21 DEF ActorCrashes
<1>22. ASSUME NEW r \in Ranks, GuardianKilled(r) PROVE QuietInv'
  BY <1>22 DEF GuardianKilled
<1>23. CASE DriverDies
  BY <1>23 DEF DriverDies
<1>24. CASE CloseInterrupted
  BY <1>24, InterruptEffect DEF MayRemove, GroupRemoved
<1>25. CASE Recover
  BY <1>25 DEF Recover
<1>26. CASE Start \/ ActorInfo \/ StartMonitor \/ SendLaunch \/ LaunchReturned \/
          PollStatus \/ StatusNotReady \/ StatusAllReady \/ Commit \/ StartFails \/
          HeartbeatSend \/ HeartbeatsHealthy \/ HeartbeatsFail \/ Alarm \/
          MonitorStops \/ UserCloses \/ RayShutdown \/ RayReconnects \/ SaveStatus
  BY <1>26 DEF Start, ActorInfo, StartMonitor, SendLaunch, LaunchReturned, PollStatus,
     StatusNotReady, StatusAllReady, Commit, StartFails, HeartbeatSend,
     HeartbeatsHealthy, HeartbeatsFail, Alarm, MonitorStops, UserCloses, RayShutdown,
     RayReconnects, SaveStatus
<1>27. ASSUME NEW r \in Ranks,
        StatusReady(r) \/ Heartbeat(r) \/ LaunchRefused(r) \/ LaunchWrites(r) \/
        StopAnswers(r) \/ EngineExits(r) \/ TreeGone(r)
      PROVE QuietInv'
  BY <1>27 DEF StatusReady, Heartbeat, LaunchRefused, LaunchWrites, StopAnswers, EngineExits,
     TreeGone
<1>28. CASE UNCHANGED vars
  BY <1>28
<1> QED
  BY <1>1, <1>2, <1>3, <1>4, <1>5, <1>6, <1>7, <1>8, <1>9, <1>10, <1>11, <1>12, <1>13,
     <1>14, <1>15, <1>16, <1>17, <1>18, <1>19, <1>20, <1>21, <1>22, <1>23, <1>24,
     <1>25, <1>26, <1>27, <1>28
  DEF Next, StartNext, MonitorNext, CloseNext, ActorNext, GuardianNext, FaultNext,
      GuardianSees, LeaseExpires

(* A ready service is watched and its failures are not forgotten.            *)
LEMMA ReadyStep == ASSUME TypeOK, StartInv, CloseInv, ReadyInv, [Next]_vars
                   PROVE  ReadyInv'
<1> USE ReplicasAssumption DEF TypeOK, StartInv, CloseInv, ReadyInv, Ranks, DriverUp, States, StartSteps,
        Calling
<1>1. CASE Start
  BY <1>1 DEF Start
<1>2. CASE Reserve \/ AssignGroup
  BY <1>2 DEF Reserve, AssignGroup
<1>3. CASE CreateActor \/ AppendActor
  BY <1>3 DEF CreateActor, AppendActor
<1>4. CASE ActorInfo
  BY <1>4 DEF ActorInfo
<1>5. CASE StartMonitor
  BY <1>5 DEF StartMonitor
<1>6. CASE MarkLaunched
  BY <1>6 DEF MarkLaunched
<1>7. CASE SendLaunch
  BY <1>7 DEF SendLaunch
<1>8. CASE LaunchReturned
  BY <1>8 DEF LaunchReturned
<1>9. CASE PollStatus
  BY <1>9 DEF PollStatus
<1>10. CASE StatusNotReady
  BY <1>10 DEF StatusNotReady
<1>11. CASE StatusAllReady
  BY <1>11 DEF StatusAllReady
<1>12. CASE Commit
  BY <1>12 DEF Commit
<1>13. CASE StartFails
  BY <1>13 DEF StartFails
<1>14. CASE HeartbeatSend
  BY <1>14 DEF HeartbeatSend
<1>15. CASE HeartbeatsHealthy
  BY <1>15 DEF HeartbeatsHealthy
<1>16. CASE HeartbeatsFail
  BY <1>16 DEF HeartbeatsFail
<1>17. CASE Alarm
  BY <1>17 DEF Alarm
<1>18. CASE MonitorStops
  BY <1>18 DEF MonitorStops
<1>19. CASE UserCloses
  BY <1>19 DEF UserCloses
<1>20. ASSUME NEW p \in {"main", "monitor"}, CloseAlreadyClosed(p) PROVE ReadyInv'
  BY <1>20 DEF CloseAlreadyClosed, Return
<1>21. ASSUME NEW p \in {"main", "monitor"}, CloseDisconnected(p) PROVE ReadyInv'
  BY <1>21 DEF CloseDisconnected, Return
<1>22. ASSUME NEW p \in {"main", "monitor"}, CloseSends(p) PROVE ReadyInv'
  BY <1>22 DEF CloseSends
<1>23. ASSUME NEW p \in {"main", "monitor"}, ConfirmStopped(p) PROVE ReadyInv'
  BY <1>23 DEF ConfirmStopped, Confirming, NextRank
<1>24. ASSUME NEW p \in {"main", "monitor"}, ConfirmFails(p) PROVE ReadyInv'
  BY <1>24 DEF ConfirmFails, Confirming, NextRank
<1>25. ASSUME NEW p \in {"main", "monitor"}, CleanupUnconfirmed(p) PROVE ReadyInv'
  BY <1>25 DEF CleanupUnconfirmed, Return
<1>26. ASSUME NEW p \in {"main", "monitor"}, TeardownBegins(p) PROVE ReadyInv'
  BY <1>26 DEF TeardownBegins
<1>27. ASSUME NEW p \in {"main", "monitor"}, KillActor(p) PROVE ReadyInv'
  BY <1>27 DEF KillActor, NextRank
<1>28. ASSUME NEW p \in {"main", "monitor"}, RemoveGroup(p) PROVE ReadyInv'
  BY <1>28 DEF RemoveGroup, Return
<1>29. ASSUME NEW p \in {"main", "monitor"}, TeardownFails(p) PROVE ReadyInv'
  BY <1>29 DEF TeardownFails, Return
<1>30. CASE DriverDies
  BY <1>30 DEF DriverDies
<1>31. CASE CloseInterrupted
  BY <1>31, InterruptEffect DEF MayRemove, GroupRemoved
<1>32. CASE Recover
  BY <1>32 DEF Recover
<1>33. CASE RayShutdown \/ RayReconnects \/ SaveStatus
  BY <1>33 DEF RayShutdown, RayReconnects, SaveStatus
<1>34. ASSUME NEW r \in Ranks,
        StatusReady(r) \/ Heartbeat(r) \/ LaunchRefused(r) \/ LaunchSpawns(r) \/
        LaunchWrites(r) \/ StopBegins(r) \/ StopAnswers(r) \/
        GuardianStartsEngine(r) \/ GuardianNeverLaunched(r) \/ GuardianStops(r) \/
        GuardianFinishes(r) \/ GuardianGivesUp(r) \/ EngineExits(r) \/ TreeGone(r) \/
        ActorCrashes(r) \/ GuardianKilled(r)
      PROVE ReadyInv'
  BY <1>34 DEF StatusReady, Heartbeat, LaunchRefused, LaunchSpawns, LaunchWrites, StopBegins,
     StopAnswers, GuardianStartsEngine, GuardianNeverLaunched, GuardianStops,
     GuardianFinishes, GuardianGivesUp, EngineExits, TreeGone, ActorCrashes,
     GuardianKilled
<1>35. CASE UNCHANGED vars
  BY <1>35
<1> QED
  BY <1>1, <1>2, <1>3, <1>4, <1>5, <1>6, <1>7, <1>8, <1>9, <1>10, <1>11, <1>12, <1>13,
     <1>14, <1>15, <1>16, <1>17, <1>18, <1>19, <1>20, <1>21, <1>22, <1>23, <1>24,
     <1>25, <1>26, <1>27, <1>28, <1>29, <1>30, <1>31, <1>32, <1>33, <1>34, <1>35
  DEF Next, StartNext, MonitorNext, CloseNext, ActorNext, GuardianNext, FaultNext,
      GuardianSees, LeaseExpires

(* Nothing comes back after close() reported "closed".                       *)
LEMMA ClosedStep == ASSUME TypeOK, LaunchInv, StartInv, CloseInv, QuietInv, ReadyInv, ClosedInv, [Next]_vars
                    PROVE  ClosedInv'
<1> USE ReplicasAssumption DEF TypeOK, LaunchInv, StartInv, CloseInv, QuietInv, ReadyInv, ClosedInv, Ranks,
        DriverUp, States, StartSteps, Calling, Quiet
<1>1. CASE Start
  BY <1>1 DEF Start
<1>2. CASE Reserve \/ AssignGroup
  BY <1>2 DEF Reserve, AssignGroup
<1>3. CASE CreateActor \/ AppendActor
  BY <1>3 DEF CreateActor, AppendActor
<1>4. CASE ActorInfo
  BY <1>4 DEF ActorInfo
<1>5. CASE StartMonitor
  BY <1>5 DEF StartMonitor
<1>6. CASE MarkLaunched
  BY <1>6 DEF MarkLaunched
<1>7. CASE SendLaunch
  BY <1>7 DEF SendLaunch
<1>8. CASE LaunchReturned
  BY <1>8 DEF LaunchReturned
<1>9. CASE PollStatus
  BY <1>9 DEF PollStatus
<1>10. CASE StatusNotReady
  BY <1>10 DEF StatusNotReady
<1>11. CASE StatusAllReady
  BY <1>11 DEF StatusAllReady
<1>12. CASE Commit
  BY <1>12 DEF Commit
<1>13. CASE StartFails
  BY <1>13 DEF StartFails
<1>14. CASE HeartbeatSend
  BY <1>14 DEF HeartbeatSend
<1>15. CASE HeartbeatsHealthy
  BY <1>15 DEF HeartbeatsHealthy
<1>16. CASE HeartbeatsFail
  BY <1>16 DEF HeartbeatsFail
<1>17. CASE Alarm
  BY <1>17 DEF Alarm
<1>18. CASE MonitorStops
  BY <1>18 DEF MonitorStops
<1>19. CASE UserCloses
  BY <1>19 DEF UserCloses
<1>20. ASSUME NEW p \in {"main", "monitor"}, CloseAlreadyClosed(p) PROVE ClosedInv'
  BY <1>20 DEF CloseAlreadyClosed, Return
<1>21. ASSUME NEW p \in {"main", "monitor"}, CloseDisconnected(p) PROVE ClosedInv'
  BY <1>21 DEF CloseDisconnected, Return
<1>22. ASSUME NEW p \in {"main", "monitor"}, CloseSends(p) PROVE ClosedInv'
  BY <1>22 DEF CloseSends
<1>23. ASSUME NEW p \in {"main", "monitor"}, ConfirmStopped(p) PROVE ClosedInv'
  BY <1>23 DEF ConfirmStopped, Confirming, NextRank
<1>24. ASSUME NEW p \in {"main", "monitor"}, ConfirmFails(p) PROVE ClosedInv'
  BY <1>24 DEF ConfirmFails, Confirming, NextRank
<1>25. ASSUME NEW p \in {"main", "monitor"}, CleanupUnconfirmed(p) PROVE ClosedInv'
  BY <1>25 DEF CleanupUnconfirmed, Return
<1>26. ASSUME NEW p \in {"main", "monitor"}, TeardownBegins(p) PROVE ClosedInv'
  BY <1>26 DEF TeardownBegins
<1>27. ASSUME NEW p \in {"main", "monitor"}, KillActor(p) PROVE ClosedInv'
  BY <1>27 DEF KillActor, NextRank
<1>28. ASSUME NEW p \in {"main", "monitor"}, RemoveGroup(p) PROVE ClosedInv'
  BY <1>28 DEF RemoveGroup, Return
<1>29. ASSUME NEW p \in {"main", "monitor"}, TeardownFails(p) PROVE ClosedInv'
  BY <1>29 DEF TeardownFails, Return
<1>30. ASSUME NEW r \in Ranks, ActorCrashes(r) PROVE ClosedInv'
  BY <1>30 DEF ActorCrashes
<1>31. CASE DriverDies
  BY <1>31 DEF DriverDies
<1>32. CASE CloseInterrupted
  BY <1>32, InterruptEffect DEF MayRemove, GroupRemoved
<1>33. CASE Recover
  BY <1>33 DEF Recover
<1>34. CASE RayShutdown \/ RayReconnects \/ SaveStatus
  BY <1>34 DEF RayShutdown, RayReconnects, SaveStatus
<1>35. ASSUME NEW r \in Ranks,
        StatusReady(r) \/ Heartbeat(r) \/ LaunchRefused(r) \/ LaunchSpawns(r) \/
        LaunchWrites(r) \/ StopBegins(r) \/ StopAnswers(r) \/
        GuardianStartsEngine(r) \/ GuardianNeverLaunched(r) \/ GuardianStops(r) \/
        GuardianFinishes(r) \/ GuardianGivesUp(r) \/ EngineExits(r) \/ TreeGone(r) \/
        GuardianKilled(r)
      PROVE ClosedInv'
  BY <1>35 DEF StatusReady, Heartbeat, LaunchRefused, LaunchSpawns, LaunchWrites, StopBegins,
     StopAnswers, GuardianStartsEngine, GuardianNeverLaunched, GuardianStops,
     GuardianFinishes, GuardianGivesUp, EngineExits, TreeGone, GuardianKilled
<1>36. CASE UNCHANGED vars
  BY <1>36
<1> QED
  BY <1>1, <1>2, <1>3, <1>4, <1>5, <1>6, <1>7, <1>8, <1>9, <1>10, <1>11, <1>12, <1>13,
     <1>14, <1>15, <1>16, <1>17, <1>18, <1>19, <1>20, <1>21, <1>22, <1>23, <1>24,
     <1>25, <1>26, <1>27, <1>28, <1>29, <1>30, <1>31, <1>32, <1>33, <1>34, <1>35,
     <1>36
  DEF Next, StartNext, MonitorNext, CloseNext, ActorNext, GuardianNext, FaultNext,
      GuardianSees, LeaseExpires

(* IInv is an inductive invariant. *)
THEOREM Inductive == Spec => []IInv
<1>1. Init => IInv
  <2> SUFFICES ASSUME Init PROVE IInv
    OBVIOUS
  <2> USE ReplicasAssumption DEF Init, Ranks
  <2>1. TypeOK
    <3>1. /\ error \in BOOLEAN /\ stop \in BOOLEAN /\ group \in BOOLEAN
          /\ ray \in BOOLEAN /\ snapshot \in BOOLEAN /\ closed \in [Ranks -> BOOLEAN]
      OBVIOUS
    <3> QED BY <3>1 DEF TypeOK, States
  <2>2. LaunchInv /\ ReceiptInv
    BY DEF LaunchInv, ReceiptInv, Occupied
  <2>3. StartInv /\ CloseInv
    BY DEF StartInv, CloseInv, StartSteps
  <2>4. QuietInv
    BY DEF QuietInv, Quiet
  <2>5. ReadyInv /\ ClosedInv /\ GroupInv
    BY DEF ReadyInv, ClosedInv, GroupInv
  <2> QED BY <2>1, <2>2, <2>3, <2>4, <2>5 DEF IInv
<1>2. IInv /\ [Next]_vars => IInv'
  BY TypeStep, LaunchStep, ReceiptStep, StartStep, CloseStep, GroupStep, QuietStep, ReadyStep,
     ClosedStep
     DEF IInv
<1> QED BY <1>1, <1>2, PTL DEF Spec

-----------------------------------------------------------------------------
(* Results.                                                                  *)

(* The variables of the service keep their types, for any number of replicas *)
(* (the indices of start()'s and close()'s loops stay within the plan).      *)
THEOREM TypeCorrect == Spec => []TypeOK
<1>1. IInv => TypeOK
  BY DEF IInv
<1> QED BY <1>1, Inductive, PTL

(* No engine process outlives the reservation of its GPU, whatever fails.    *)
THEOREM Reserved == Spec => []EnginesHoldReservation
<1>1. IInv => EnginesHoldReservation
  <2> SUFFICES ASSUME IInv, NEW r \in Ranks, Occupied(r), reservation # "held" PROVE FALSE
    BY DEF EnginesHoldReservation
  <2>1. Quiet(r)
    BY DEF IInv, QuietInv
  <2> QED BY <2>1 DEF IInv, LaunchInv, ReceiptInv, Quiet, Occupied
<1> QED BY <1>1, Inductive, PTL

(* Actors are killed only when every engine tree is down for good.           *)
THEOREM StopBeforeTeardown == Spec => []TeardownAfterStop
<1>1. IInv => TeardownAfterStop
  <2> SUFFICES ASSUME IInv, closing = "teardown", NEW r \in Ranks
               PROVE  ~Occupied(r) /\ guardian[r] \notin {"booting", "running"}
    BY DEF TeardownAfterStop
  <2>1. Quiet(r)
    BY DEF IInv, QuietInv
  <2> QED BY <2>1 DEF IInv, LaunchInv, ReceiptInv, Quiet, Occupied
<1> QED BY <1>1, Inductive, PTL

(* A ready service is watched, and no failure the monitor saw is lost.       *)
THEOREM Watched == Spec => []ReadyIsWatched
<1>1. IInv => ReadyIsWatched
  BY DEF IInv, ReadyInv, ReadyIsWatched
<1> QED BY <1>1, Inductive, PTL

(* "closed" means nothing of the deployment is left but, at most, a group    *)
(* whose placement_group() call never returned, with no actor in it.         *)
THEOREM ClosedIsClean == Spec => []ClosedLeavesNothing
<1>1. IInv => ClosedLeavesNothing
  <2> SUFFICES ASSUME IInv, DriverUp, state = "closed" PROVE ClosedLeavesNothing
    BY DEF ClosedLeavesNothing
  <2>1. /\ ~group /\ \A r \in Ranks : actor[r] # "alive"
        /\ reservation = "held" => actors = 0 /\ \A r \in Ranks : actor[r] = "none"
    BY DEF IInv, ClosedInv, GroupInv
  <2>2. actors = 0 => \A r \in Ranks : r >= launched
    BY ReplicasAssumption DEF IInv, TypeOK, StartInv, Ranks
  <2>3. \A r \in Ranks : Quiet(r)
    BY <2>1, <2>2 DEF IInv, QuietInv, Quiet
  <2> QED BY <2>1, <2>3 DEF IInv, LaunchInv, ReceiptInv, Quiet, Occupied, ClosedLeavesNothing
<1> QED BY <1>1, Inductive, PTL

(* The service implements the custody contract of its GPUs.                  *)
THEOREM Refinement == Spec => CustodySpec
<1> USE DEF Custody!vars
<1>1. Init => Custody!Init
  BY DEF Init, Custody!Init, Occupied
<1>2. IInv /\ [Next]_vars => [Custody!Next]_(Custody!vars)
  <2> SUFFICES ASSUME IInv, [Next]_vars PROVE [Custody!Next]_(Custody!vars)
    OBVIOUS
  <2> DEFINE Step == [Custody!Next]_(Custody!vars)
  <2>1. UNCHANGED <<reservation, tree>> => Step
    BY DEF Occupied
  <2>2. ASSUME reservation = "held", reservation' = "removed", UNCHANGED tree,
               \A r \in Ranks : Quiet(r)
        PROVE  Step
    <3>1. \A r \in Ranks : ~Occupied(r)
      BY <2>2 DEF IInv, LaunchInv, ReceiptInv, Quiet, Occupied
    <3>2. Custody!Return
      BY <2>2, <3>1 DEF Custody!Return, Occupied
    <3> QED BY <3>2 DEF Custody!Next
  <2>3. CASE Reserve
    <3>1. reservation = "none"
      BY <2>3 DEF Reserve, IInv, StartInv, StartSteps
    <3>2. Custody!Reserve
      BY <2>3, <3>1 DEF Reserve, Custody!Reserve, Occupied
    <3> QED BY <3>2 DEF Custody!Next
  <2>4. ASSUME NEW r \in Ranks, GuardianStartsEngine(r) PROVE Step
    <3>1. CASE UNCHANGED tree
      BY <2>1, <2>4, <3>1 DEF GuardianStartsEngine
    <3>2. CASE tree' = [tree EXCEPT ![r] = "serving"]
      <4>1. reservation = "held" /\ tree[r] = "none" /\ UNCHANGED reservation
        BY <2>4 DEF GuardianStartsEngine, IInv, LaunchInv, ReceiptInv, QuietInv, Quiet
      <4>2. tree \in [Ranks -> {"none", "serving", "exited", "gone"}]
        BY DEF IInv, TypeOK
      <4>3. Custody!Occupy(r)
        BY <3>2, <4>1, <4>2 DEF Custody!Occupy, Occupied
      <4> QED BY <4>3 DEF Custody!Next
    <3> QED BY <2>4, <3>1, <3>2 DEF GuardianStartsEngine
  <2>5. ASSUME NEW r \in Ranks, EngineExits(r) PROVE Step
    BY <2>5 DEF EngineExits, Occupied, IInv, TypeOK
  <2>6. ASSUME NEW r \in Ranks, TreeGone(r) PROVE Step
    <3>1. Custody!Vacate(r)
      BY <2>6 DEF TreeGone, Custody!Vacate, Occupied, IInv, TypeOK
    <3> QED BY <3>1 DEF Custody!Next
  <2>7. ASSUME NEW p \in {"main", "monitor"}, RemoveGroup(p) \/ TeardownFails(p) PROVE Step
    <3>1. \A r \in Ranks : Quiet(r)
      BY <2>7 DEF RemoveGroup, TeardownFails, IInv, QuietInv
    <3>2. UNCHANGED tree /\ (UNCHANGED reservation \/ (group /\ reservation' = "removed"))
      BY <2>7 DEF RemoveGroup, TeardownFails, MayRemove, GroupRemoved
    <3>3. group => reservation \in {"held", "removed"}
      BY DEF IInv, TypeOK, CloseInv
    <3> QED BY <2>1, <2>2, <3>1, <3>2, <3>3
  <2>8. CASE Start \/ AssignGroup \/ CreateActor \/ AppendActor \/ ActorInfo \/ StartMonitor \/ MarkLaunched \/
            SendLaunch \/ LaunchReturned \/ PollStatus \/ StatusNotReady \/
            StatusAllReady \/ Commit \/ StartFails \/ HeartbeatSend \/
            HeartbeatsHealthy \/ HeartbeatsFail \/ Alarm \/ MonitorStops \/
            UserCloses \/ DriverDies \/ RayShutdown \/
            RayReconnects \/ SaveStatus \/ Recover
    <3>1. UNCHANGED <<reservation, tree>>
      BY <2>8 DEF Start, AssignGroup, CreateActor, AppendActor, ActorInfo, StartMonitor, MarkLaunched, SendLaunch,
         LaunchReturned, PollStatus, StatusNotReady, StatusAllReady, Commit,
         StartFails, HeartbeatSend, HeartbeatsHealthy, HeartbeatsFail, Alarm,
         MonitorStops, UserCloses, DriverDies, RayShutdown, RayReconnects, SaveStatus,
         Recover
    <3> QED BY <2>1, <3>1
  <2>9. ASSUME NEW r \in Ranks,
          StatusReady(r) \/ Heartbeat(r) \/ LaunchRefused(r) \/ LaunchSpawns(r) \/
          LaunchWrites(r) \/ StopBegins(r) \/ StopAnswers(r) \/
          GuardianNeverLaunched(r) \/ GuardianStops(r) \/ GuardianFinishes(r) \/
          GuardianGivesUp(r) \/ ActorCrashes(r) \/ GuardianKilled(r)
        PROVE Step
    <3>1. UNCHANGED <<reservation, tree>>
      BY <2>9 DEF StatusReady, Heartbeat, LaunchRefused, LaunchSpawns, LaunchWrites,
         StopBegins, StopAnswers, GuardianNeverLaunched, GuardianStops,
         GuardianFinishes, GuardianGivesUp, ActorCrashes, GuardianKilled
    <3> QED BY <2>1, <3>1
  <2>10. ASSUME NEW p \in {"main", "monitor"},
          CloseAlreadyClosed(p) \/ CloseDisconnected(p) \/ CloseSends(p) \/
          ConfirmStopped(p) \/ ConfirmFails(p) \/ CleanupUnconfirmed(p) \/
          TeardownBegins(p) \/ KillActor(p)
        PROVE Step
    <3>1. UNCHANGED <<reservation, tree>>
      BY <2>10 DEF CloseAlreadyClosed, CloseDisconnected, CloseSends, ConfirmStopped,
         ConfirmFails, CleanupUnconfirmed, TeardownBegins, KillActor
    <3> QED BY <2>1, <3>1
  <2>11. CASE UNCHANGED vars
    BY <2>1, <2>11
  <2>12. CASE CloseInterrupted
    <3>1. (MayRemove("main") /\ GroupRemoved) \/ UNCHANGED reservation
      BY <2>12 DEF CloseInterrupted
    <3>2. CASE MayRemove("main") /\ GroupRemoved
      <4>1. group => reservation \in {"held", "removed"}
        BY DEF IInv, TypeOK, CloseInv
      <4>2. group /\ reservation' = "removed" /\ \A r \in Ranks : Quiet(r)
        BY <3>2 DEF MayRemove, GroupRemoved, IInv, QuietInv
      <4> QED BY <2>1, <2>2, <2>12, <4>1, <4>2 DEF CloseInterrupted
    <3>3. CASE UNCHANGED reservation
      BY <2>1, <2>12, <3>3 DEF CloseInterrupted
    <3> QED BY <3>1, <3>2, <3>3
  <2> QED
    BY <2>3, <2>4, <2>5, <2>6, <2>7, <2>8, <2>9, <2>10, <2>11, <2>12
    DEF Next, StartNext, MonitorNext, CloseNext, ActorNext, GuardianNext, FaultNext,
        GuardianSees, LeaseExpires
<1> QED BY <1>1, <1>2, Inductive, PTL DEF Spec, CustodySpec, Custody!Spec

(* A replica told to stop, or dead, never spawns a guardian afterwards: only *)
(* launch() spawns one, and it refuses once the replica is closed.           *)
THEOREM NeverLaunchedAgain == Spec => NoLaunchAfterStop
<1>1. TypeOK /\ [Next]_vars =>
        \A r \in Ranks : guardian[r] = "none" /\ PipeClosed(r) => guardian'[r] = "none"
  <2> DEFINE Kept == \A r \in Ranks : guardian[r] = "none" /\ PipeClosed(r) => guardian'[r] = "none"
  <2> SUFFICES ASSUME TypeOK, [Next]_vars PROVE Kept
    OBVIOUS
  <2>1. UNCHANGED guardian => Kept
    OBVIOUS
  <2>2. ASSUME NEW r \in Ranks, LaunchSpawns(r) PROVE Kept
    BY <2>2 DEF LaunchSpawns, PipeClosed, TypeOK
  <2>3. ASSUME NEW r \in Ranks,
          GuardianStartsEngine(r) \/ GuardianNeverLaunched(r) \/ GuardianStops(r) \/
          GuardianFinishes(r) \/ GuardianGivesUp(r) \/ GuardianKilled(r)
        PROVE Kept
    BY <2>3 DEF GuardianStartsEngine, GuardianNeverLaunched, GuardianStops,
           GuardianFinishes, GuardianGivesUp, GuardianKilled, GuardianAlive, TypeOK
  <2>4. CASE Start \/ Reserve \/ AssignGroup \/ CreateActor \/ AppendActor \/ ActorInfo \/ StartMonitor \/
            MarkLaunched \/ SendLaunch \/ LaunchReturned \/ PollStatus \/
            StatusNotReady \/ StatusAllReady \/ Commit \/ StartFails \/
            HeartbeatSend \/ HeartbeatsHealthy \/ HeartbeatsFail \/ Alarm \/
            MonitorStops \/ UserCloses \/ DriverDies \/ CloseInterrupted \/
            RayShutdown \/ RayReconnects \/ SaveStatus \/ Recover
    <3>1. UNCHANGED guardian
      BY <2>4 DEF Start, Reserve, AssignGroup, CreateActor, AppendActor, ActorInfo, StartMonitor, MarkLaunched,
         SendLaunch, LaunchReturned, PollStatus, StatusNotReady, StatusAllReady,
         Commit, StartFails, HeartbeatSend, HeartbeatsHealthy, HeartbeatsFail, Alarm,
         MonitorStops, UserCloses, DriverDies, CloseInterrupted, RayShutdown,
         RayReconnects, SaveStatus, Recover
    <3> QED BY <2>1, <3>1
  <2>5. ASSUME NEW r \in Ranks,
          StatusReady(r) \/ Heartbeat(r) \/ LaunchRefused(r) \/ LaunchWrites(r) \/
          StopBegins(r) \/ StopAnswers(r) \/ EngineExits(r) \/ TreeGone(r) \/
          ActorCrashes(r)
        PROVE Kept
    <3>1. UNCHANGED guardian
      BY <2>5 DEF StatusReady, Heartbeat, LaunchRefused, LaunchWrites, StopBegins, StopAnswers,
         EngineExits, TreeGone, ActorCrashes
    <3> QED BY <2>1, <3>1
  <2>6. ASSUME NEW p \in {"main", "monitor"},
          CloseAlreadyClosed(p) \/ CloseDisconnected(p) \/ CloseSends(p) \/
          ConfirmStopped(p) \/ ConfirmFails(p) \/ CleanupUnconfirmed(p) \/
          TeardownBegins(p) \/ KillActor(p) \/ RemoveGroup(p) \/ TeardownFails(p)
        PROVE Kept
    <3>1. UNCHANGED guardian
      BY <2>6 DEF CloseAlreadyClosed, CloseDisconnected, CloseSends, ConfirmStopped,
         ConfirmFails, CleanupUnconfirmed, TeardownBegins, KillActor, RemoveGroup,
         TeardownFails
    <3> QED BY <2>1, <3>1
  <2>7. CASE UNCHANGED vars
    BY <2>1, <2>7
  <2> QED
    BY <2>2, <2>3, <2>4, <2>5, <2>6, <2>7
    DEF Next, StartNext, MonitorNext, CloseNext, ActorNext, GuardianNext, FaultNext,
        GuardianSees, LeaseExpires
<1> QED BY <1>1, TypeCorrect, PTL DEF Spec, NoLaunchAfterStop
=============================================================================
