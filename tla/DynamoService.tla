---------------------------- MODULE DynamoService ----------------------------
(* One Dynamo deployment: the driver's DynamoService object with its user    *)
(* thread and monitor thread, one Ray actor per rank, the guardian process   *)
(* the actor spawns and the engine tree the guardian owns.  Driver threads,  *)
(* actors and guardians interleave freely; the kinds of failure that may     *)
(* happen are those in Faults.                                               *)
(*                                                                           *)
(* A deadline is the right of its waiter to give up at any step.  All RPCs   *)
(* of one driver to one actor run one at a time and in order, as a           *)
(* single-threaded Ray actor runs them; a recovered driver's RPCs are not    *)
(* ordered after those its predecessor left behind.                          *)
EXTENDS Integers, FiniteSets

CONSTANTS Replicas,   \* len(plan.workers)
          Faults      \* which failures the environment may inject

FaultKinds == {"actor", "guardian", "driver", "ray", "interrupt"}

ASSUME ReplicasAssumption == Replicas \in Nat \ {0}
ASSUME FaultsAssumption == Faults \subseteq FaultKinds

Ranks == 0 .. Replicas - 1

VARIABLES
  (* the DynamoService object *)
  state, error, stop, group, actors, records, launched,
  (* threads of the driver process, and the progress of the one in close() *)
  driver, main, monitor, lock, closing, cursor, failures, answered, beats,
  (* the cluster: connection, detached reservation, a saved status() *)
  ray, reservation, snapshot,
  (* per rank: the actor, its RPCs, its guardian and what the guardian owns *)
  actor, closed, launchRpc, stopRpc, guardian, tree, receipt

ranks   == <<actors, records, launched>>
object  == <<state, error, stop, group, ranks>>
closer  == <<lock, closing, cursor, failures>>
replies == <<answered, beats>>
service == <<object, driver, main, monitor, closer, replies>>
cluster == <<ray, reservation, snapshot>>
replica == <<actor, closed, launchRpc, stopRpc>>
worker  == <<guardian, tree, receipt>>
remote  == <<cluster, replica, worker>>
vars    == <<service, remote>>

States     == {"new", "starting", "ready", "closing", "closed", "cleanup_failed"}
StartSteps == {"reserve", "assign", "create", "append", "info", "monitor", "launch",
               "send_launch", "await_launch", "poll", "await_status", "commit"}

TypeOK ==
  /\ state \in States
  /\ error \in BOOLEAN /\ stop \in BOOLEAN /\ group \in BOOLEAN
  /\ actors \in 0 .. Replicas
  /\ records \in 0 .. Replicas
  /\ launched \in 0 .. Replicas
  /\ driver \in {"first", "dead", "recovered"}
  /\ main \in {"idle", "close"} \cup StartSteps
  /\ monitor \in {"none", "wait", "await", "alarm", "close", "ended"}
  /\ lock \in {"none", "main", "monitor"}
  /\ closing \in {"none", "confirm", "teardown"}
  /\ cursor \in 0 .. Replicas
  /\ failures \subseteq Ranks
  /\ answered \subseteq Ranks
  /\ beats \subseteq Ranks
  /\ ray \in BOOLEAN /\ snapshot \in BOOLEAN
  /\ reservation \in {"none", "held", "removed"}
  /\ actor \in [Ranks -> {"none", "alive", "dead"}]
  /\ closed \in [Ranks -> BOOLEAN]
  /\ launchRpc \in [Ranks -> {"none", "queued", "spawned", "done", "failed"}]
  /\ stopRpc \in [Ranks -> {"none", "queued", "waiting", "yes", "no"}]
  /\ guardian \in [Ranks -> {"none", "booting", "running", "stopping", "exited", "killed"}]
  /\ tree \in [Ranks -> {"none", "serving", "exited", "gone"}]
  /\ receipt \in [Ranks -> {"none", "stopped"}]

Init ==
  /\ state = "new" /\ error = FALSE /\ stop = FALSE /\ group = FALSE
  /\ actors = 0 /\ records = 0 /\ launched = 0
  /\ driver = "first" /\ main = "idle" /\ monitor = "none"
  /\ lock = "none" /\ closing = "none" /\ cursor = 0 /\ failures = {}
  /\ answered = {} /\ beats = {}
  /\ ray = TRUE /\ reservation = "none" /\ snapshot = FALSE
  /\ actor = [r \in Ranks |-> "none"]
  /\ closed = [r \in Ranks |-> FALSE]
  /\ launchRpc = [r \in Ranks |-> "none"]
  /\ stopRpc = [r \in Ranks |-> "none"]
  /\ guardian = [r \in Ranks |-> "none"]
  /\ tree = [r \in Ranks |-> "none"]
  /\ receipt = [r \in Ranks |-> "none"]

DriverUp == driver # "dead"
GuardianAlive(r) == guardian[r] \in {"booting", "running", "stopping"}
(* Some process of the engine's tree still has the GPU. *)
Occupied(r) == tree[r] \in {"serving", "exited"}
(* A single-threaded actor is inside launch() or stop(). *)
Busy(r) == launchRpc[r] = "spawned" \/ stopRpc[r] = "waiting"
(* The guardian's stdin is at end of file, or a stop line is waiting in it. *)
PipeClosed(r) == actor[r] = "dead" \/ closed[r]

-----------------------------------------------------------------------------
(* The user thread in start().                                               *)

(* Preflight has passed: it changes nothing, and one that raises leaves the  *)
(* service "new".                                                            *)
Start ==
  /\ DriverUp /\ main = "idle" /\ ray /\ state = "new"
  /\ state' = "starting"
  /\ main' = "reserve"
  /\ UNCHANGED <<error, stop, group, ranks, driver, monitor, closer, replies, remote>>

(* Ray has the group: placement_group() takes effect before self.group is    *)
(* assigned, and may still raise or be interrupted in between.               *)
Reserve ==
  /\ main = "reserve"
  /\ reservation' = "held"
  /\ main' = "assign"
  /\ UNCHANGED <<object, driver, monitor, closer, replies, ray, snapshot, replica, worker>>

(* self.group is assigned; create also stands for awaiting its readiness. *)
AssignGroup ==
  /\ main = "assign"
  /\ group' = TRUE
  /\ main' = "create"
  /\ UNCHANGED <<state, error, stop, ranks, driver, monitor, closer, replies, remote>>

(* Likewise the named, detached actor exists before self.actors holds it. *)
CreateActor ==
  /\ main = "create" /\ actors < Replicas
  /\ actor' = [actor EXCEPT ![actors] = "alive"]
  /\ main' = "append"
  /\ UNCHANGED <<object, driver, monitor, closer, replies, cluster, closed, launchRpc,
                 stopRpc, worker>>

AppendActor ==
  /\ main = "append"
  /\ actors' = actors + 1
  /\ main' = "info"
  /\ UNCHANGED <<state, error, stop, group, records, launched, driver, monitor, closer,
                 replies, remote>>

ActorInfo ==
  /\ main = "info" /\ actor[records] = "alive"
  /\ records' = records + 1
  /\ main' = IF records + 1 = Replicas THEN "monitor" ELSE "create"
  /\ UNCHANGED <<state, error, stop, group, actors, launched, driver, monitor, closer,
                 replies, remote>>

StartMonitor ==
  /\ main = "monitor"
  /\ monitor' = "wait"
  /\ main' = "launch"
  /\ UNCHANGED <<object, driver, closer, replies, remote>>

(* The rank is marked before its launch RPC is issued. *)
MarkLaunched ==
  /\ main = "launch"
  /\ launched' = launched + 1
  /\ main' = "send_launch"
  /\ UNCHANGED <<state, error, stop, group, actors, records, driver, monitor, closer,
                 replies, remote>>

SendLaunch ==
  /\ main = "send_launch"
  /\ launchRpc' = [launchRpc EXCEPT ![launched - 1] = "queued"]
  /\ main' = "await_launch"
  /\ UNCHANGED <<object, driver, monitor, closer, replies, cluster, actor, closed, stopRpc,
                 worker>>

LaunchReturned ==
  /\ main = "await_launch"
  /\ launchRpc[launched - 1] = "done"
  /\ main' = IF launched = Replicas THEN "poll" ELSE "launch"
  /\ UNCHANGED <<object, driver, monitor, closer, replies, remote>>

PollStatus ==
  /\ main = "poll" /\ ~error
  /\ answered' = {}
  /\ main' = "await_status"
  /\ UNCHANGED <<object, driver, monitor, closer, beats, remote>>

(* status() of one replica ran: its guardian was alive then, and /health     *)
(* answered 200, which only a running engine can do.                         *)
StatusReady(r) ==
  /\ main = "await_status" /\ r \notin answered
  /\ actor[r] = "alive" /\ ~Busy(r)
  /\ GuardianAlive(r) /\ tree[r] = "serving"
  /\ answered' = answered \cup {r}
  /\ UNCHANGED <<object, driver, main, monitor, closer, beats, remote>>

(* All replicas answered alive, but some were not healthy yet. *)
StatusNotReady ==
  /\ main = "await_status"
  /\ \A r \in Ranks \ answered : actor[r] = "alive" /\ GuardianAlive(r)
  /\ main' = "poll"
  /\ answered' = {}
  /\ UNCHANGED <<object, driver, monitor, closer, beats, remote>>

(* All are healthy: the frontend completion probe says not yet, or replies. *)
StatusAllReady ==
  /\ main = "await_status" /\ answered = Ranks
  /\ main' \in {"poll", "commit"}
  /\ answered' = {}
  /\ UNCHANGED <<object, driver, monitor, closer, beats, remote>>

(* Mutant: the error is not looked at again under the lock. *)
CommitUnchecked ==
  /\ main = "commit" /\ lock = "none"
  /\ state' = "ready"
  /\ main' = "idle"
  /\ UNCHANGED <<error, stop, group, ranks, driver, monitor, closer, replies, remote>>

Commit ==
  /\ main = "commit" /\ lock = "none" /\ ~error
  /\ state' = "ready"
  /\ main' = "idle"
  /\ UNCHANGED <<error, stop, group, ranks, driver, monitor, closer, replies, remote>>

(* Any statement of start() after the reservation step begins may raise: a   *)
(* deadline, a Ray error, a wrong node, an exited engine, the monitor's      *)
(* error, an interrupt.  The handler records the error and calls close().    *)
StartFails ==
  /\ main \in StartSteps
  /\ error' = TRUE
  /\ main' = "close"
  /\ answered' = {}
  /\ UNCHANGED <<state, stop, group, ranks, driver, monitor, closer, beats, remote>>

-----------------------------------------------------------------------------
(* The monitor thread, _watch().                                             *)

HeartbeatSend ==
  /\ monitor = "wait" /\ ~stop /\ ray
  /\ beats' = {}
  /\ monitor' = "await"
  /\ UNCHANGED <<object, driver, main, closer, answered, remote>>

(* heartbeat() of one replica ran and answered True. *)
Heartbeat(r) ==
  /\ monitor = "await" /\ r \notin beats
  /\ actor[r] = "alive" /\ ~Busy(r) /\ ~closed[r]
  /\ guardian[r] = "none" \/ GuardianAlive(r)
  /\ beats' = beats \cup {r}
  /\ UNCHANGED <<object, driver, main, monitor, closer, answered, remote>>

HeartbeatsHealthy ==
  /\ monitor = "await" /\ beats = Ranks
  /\ monitor' = "wait"
  /\ beats' = {}
  /\ UNCHANGED <<object, driver, main, closer, answered, remote>>

(* A heartbeat answered False, an RPC raised or rpc_timeout passed. *)
HeartbeatsFail ==
  /\ monitor = "await" \/ (monitor = "wait" /\ ~stop /\ ~ray)
  /\ monitor' = "alarm"
  /\ beats' = {}
  /\ UNCHANGED <<object, driver, main, closer, answered, remote>>

(* Mutant: the monitor records a failure of a ready service but does not close it. *)
AlarmOnlyRecords ==
  /\ monitor = "alarm" /\ lock = "none"
  /\ error' = (error \/ ~stop)
  /\ monitor' = "ended"
  /\ UNCHANGED <<state, stop, group, ranks, driver, main, closer, replies, remote>>

(* The handler takes the lock: a stop in progress wins, start() owns startup *)
(* rollback, and only a failure after readiness is closed from here.         *)
Alarm ==
  /\ monitor = "alarm" /\ lock = "none"
  /\ error' = (error \/ ~stop)
  /\ monitor' = IF ~stop /\ state = "ready" THEN "close" ELSE "ended"
  /\ UNCHANGED <<state, stop, group, ranks, driver, main, closer, replies, remote>>

MonitorStops ==
  /\ monitor = "wait" /\ stop
  /\ monitor' = "ended"
  /\ UNCHANGED <<object, driver, main, closer, replies, remote>>

-----------------------------------------------------------------------------
(* close(), called by thread p.                                              *)

Calling(p) == IF p = "main" THEN main = "close" ELSE monitor = "close"

(* Thread p returns from close(), normally or with DynamoCleanupError. *)
Return(p) == /\ main' = IF p = "main" THEN "idle" ELSE main
             /\ monitor' = IF p = "monitor" THEN "ended" ELSE monitor
             /\ lock' = "none" /\ closing' = "none" /\ cursor' = 0 /\ failures' = {}

UserCloses ==
  /\ DriverUp /\ main = "idle"
  /\ main' = "close"
  /\ UNCHANGED <<object, driver, monitor, closer, replies, remote>>

CloseAlreadyClosed(p) ==
  /\ Calling(p) /\ lock = "none" /\ state = "closed"
  /\ Return(p)
  /\ UNCHANGED <<object, driver, replies, remote>>

CloseDisconnected(p) ==
  /\ Calling(p) /\ lock = "none" /\ state # "closed" /\ group /\ ~ray
  /\ state' = "cleanup_failed"
  /\ Return(p)
  /\ UNCHANGED <<error, stop, group, ranks, driver, replies, remote>>

(* stop() is sent to every actor before any answer is awaited; one that a    *)
(* former close() left running answers for both.                             *)
CloseSends(p) ==
  /\ Calling(p) /\ lock = "none" /\ state # "closed" /\ (group => ray)
  /\ state' = "closing"
  /\ stop' = TRUE
  /\ lock' = p /\ closing' = "confirm" /\ cursor' = 0 /\ failures' = {}
  /\ stopRpc' = [r \in Ranks |-> IF r >= actors \/ actor[r] # "alive" THEN "none"
                                 ELSE IF stopRpc[r] = "waiting" THEN "waiting" ELSE "queued"]
  /\ UNCHANGED <<error, group, ranks, driver, main, monitor, replies, cluster, actor,
                 closed, launchRpc, worker>>

Confirming(p) == lock = p /\ closing = "confirm" /\ cursor < actors

NextRank == cursor' = cursor + 1

(* Mutant: a dead actor counts as a stopped replica. *)
StoppedOnceDead(r) == \/ ray /\ stopRpc[r] = "yes"
                      \/ r >= launched \/ actor[r] = "dead"
                      \/ ray /\ r < records /\ receipt[r] = "stopped"

(* Rank cursor is known to have no engine: stop() answered True, no launch   *)
(* RPC was ever issued to it, or its receipt was read on its node.           *)
Stopped(r) == \/ ray /\ stopRpc[r] = "yes"
              \/ r >= launched
              \/ ray /\ r < records /\ receipt[r] = "stopped"

ConfirmStopped(p) ==
  /\ Confirming(p) /\ Stopped(cursor)
  /\ NextRank
  /\ UNCHANGED <<object, driver, main, monitor, lock, closing, failures, replies, remote>>

(* Mutant: a rank without proof is not recorded. *)
ConfirmFailsSilently(p) ==
  /\ Confirming(p) /\ cursor < launched
  /\ failures' = failures
  /\ NextRank
  /\ UNCHANGED <<object, driver, main, monitor, lock, closing, replies, remote>>

(* Mutant: the wait for a receipt has no deadline. *)
ConfirmWaitsForProof(p) ==
  /\ Confirming(p) /\ cursor < launched /\ receipt[cursor] # "none"
  /\ failures' = failures \cup {cursor}
  /\ NextRank
  /\ UNCHANGED <<object, driver, main, monitor, lock, closing, replies, remote>>

(* The shared deadline passed without proof. *)
ConfirmFails(p) ==
  /\ Confirming(p) /\ cursor < launched
  /\ failures' = failures \cup {cursor}
  /\ NextRank
  /\ UNCHANGED <<object, driver, main, monitor, lock, closing, replies, remote>>

CleanupUnconfirmed(p) ==
  /\ lock = p /\ closing = "confirm" /\ cursor = actors /\ failures # {}
  /\ state' = "cleanup_failed"
  /\ Return(p)
  /\ UNCHANGED <<error, stop, group, ranks, driver, replies, remote>>

TeardownBegins(p) ==
  /\ lock = p /\ closing = "confirm" /\ cursor = actors /\ failures = {}
  /\ closing' = "teardown" /\ cursor' = 0
  /\ UNCHANGED <<object, driver, main, monitor, lock, failures, replies, remote>>

KillActor(p) ==
  /\ lock = p /\ closing = "teardown" /\ cursor < actors /\ ray
  /\ actor' = [actor EXCEPT ![cursor] = "dead"]
  /\ NextRank
  /\ UNCHANGED <<object, driver, main, monitor, lock, closing, failures, replies, cluster,
                 closed, launchRpc, stopRpc, worker>>

(* Thread p may request the removal of the group; Ray carries it out and     *)
(* kills the actors still in it, the one self.actors never got to hold too.  *)
MayRemove(p) == lock = p /\ closing = "teardown" /\ cursor = actors /\ group /\ ray

GroupRemoved == /\ reservation' = "removed"
                /\ actor' = [r \in Ranks |-> IF actor[r] = "alive" THEN "dead" ELSE actor[r]]

RemoveGroup(p) ==
  /\ lock = p /\ closing = "teardown" /\ cursor = actors
  /\ \/ MayRemove(p) /\ GroupRemoved
     \/ ~group /\ UNCHANGED <<reservation, actor>>
  /\ group' = FALSE
  /\ state' = "closed"
  /\ Return(p)
  /\ UNCHANGED <<error, stop, ranks, driver, replies, ray, snapshot, closed, launchRpc,
                 stopRpc, worker>>

(* Mutant: a Ray error during teardown is swallowed. *)
TeardownSwallowed(p) ==
  /\ lock = p /\ closing = "teardown" /\ (group \/ cursor < actors)
  /\ (MayRemove(p) /\ GroupRemoved) \/ UNCHANGED <<reservation, actor>>
  /\ state' = "closed"
  /\ Return(p)
  /\ UNCHANGED <<error, stop, group, ranks, driver, replies, ray, snapshot, closed,
                 launchRpc, stopRpc, worker>>

(* ray.kill or remove_placement_group raised; the removal request may have   *)
(* been carried out all the same.                                            *)
TeardownFails(p) ==
  /\ lock = p /\ closing = "teardown" /\ (group \/ cursor < actors)
  /\ (MayRemove(p) /\ GroupRemoved) \/ UNCHANGED <<reservation, actor>>
  /\ state' = "cleanup_failed"
  /\ Return(p)
  /\ UNCHANGED <<error, stop, group, ranks, driver, replies, ray, snapshot, closed,
                 launchRpc, stopRpc, worker>>

-----------------------------------------------------------------------------
(* The actor of rank r, _Replica.                                            *)

LaunchRefused(r) ==   \* closed already, or the runtime does not validate
  /\ launchRpc[r] = "queued" /\ actor[r] = "alive" /\ ~Busy(r)
  /\ launchRpc' = [launchRpc EXCEPT ![r] = "failed"]
  /\ UNCHANGED <<service, cluster, actor, closed, stopRpc, worker>>

(* Mutant: launch() does not look at closed. *)
LaunchSpawnsUnchecked(r) ==
  /\ launchRpc[r] = "queued" /\ actor[r] = "alive" /\ ~Busy(r)
  /\ guardian[r] = "none"
  /\ guardian' = [guardian EXCEPT ![r] = "booting"]
  /\ launchRpc' = [launchRpc EXCEPT ![r] = "spawned"]
  /\ UNCHANGED <<service, cluster, actor, closed, stopRpc, tree, receipt>>

LaunchSpawns(r) ==
  /\ launchRpc[r] = "queued" /\ actor[r] = "alive" /\ ~Busy(r)
  /\ ~closed[r] /\ guardian[r] = "none"
  /\ guardian' = [guardian EXCEPT ![r] = "booting"]
  /\ launchRpc' = [launchRpc EXCEPT ![r] = "spawned"]
  /\ UNCHANGED <<service, cluster, actor, closed, stopRpc, tree, receipt>>

(* The launch line is written to the guardian's stdin. *)
LaunchWrites(r) ==
  /\ launchRpc[r] = "spawned" /\ actor[r] = "alive"
  /\ launchRpc' = [launchRpc EXCEPT ![r] = IF guardian[r] = "killed" THEN "failed" ELSE "done"]
  /\ UNCHANGED <<service, cluster, actor, closed, stopRpc, worker>>

(* stop() begins, after any launch() the same driver sent before it. *)
StopBegins(r) ==
  /\ stopRpc[r] = "queued" /\ actor[r] = "alive" /\ ~Busy(r)
  /\ launchRpc[r] = "queued" => driver # "first"
  /\ closed' = [closed EXCEPT ![r] = TRUE]
  /\ stopRpc' = [stopRpc EXCEPT ![r] = IF guardian[r] = "none" THEN "yes" ELSE "waiting"]
  /\ UNCHANGED <<service, cluster, actor, launchRpc, worker>>

(* Mutant: stop() answers True when the wait for the guardian timed out. *)
StopAnswersTrue(r) ==
  /\ stopRpc[r] = "waiting" /\ actor[r] = "alive"
  /\ \/ /\ ~GuardianAlive(r)
        /\ stopRpc' = [stopRpc EXCEPT ![r] = IF receipt[r] = "stopped" THEN "yes" ELSE "no"]
     \/ /\ GuardianAlive(r)
        /\ stopRpc' = [stopRpc EXCEPT ![r] = "yes"]
  /\ UNCHANGED <<service, cluster, actor, closed, launchRpc, worker>>

(* The guardian ended and its receipt says whether the tree is gone, or the  *)
(* wait for it timed out.                                                    *)
StopAnswers(r) ==
  /\ stopRpc[r] = "waiting" /\ actor[r] = "alive"
  /\ \/ /\ ~GuardianAlive(r)
        /\ stopRpc' = [stopRpc EXCEPT ![r] = IF receipt[r] = "stopped" THEN "yes" ELSE "no"]
     \/ /\ GuardianAlive(r)
        /\ stopRpc' = [stopRpc EXCEPT ![r] = "no"]
  /\ UNCHANGED <<service, cluster, actor, closed, launchRpc, worker>>

-----------------------------------------------------------------------------
(* The guardian of rank r and the engine tree it owns.                       *)

(* The launch line was read; the engine command starts, or cannot.           *)
GuardianStartsEngine(r) ==
  /\ guardian[r] = "booting" /\ launchRpc[r] = "done"
  /\ \/ /\ guardian' = [guardian EXCEPT ![r] = "running"]
        /\ tree' = [tree EXCEPT ![r] = "serving"]
     \/ /\ guardian' = [guardian EXCEPT ![r] = "stopping"]
        /\ UNCHANGED tree
  /\ UNCHANGED <<service, cluster, replica, receipt>>

(* End of file before a launch line: the guardian exits without a receipt.   *)
GuardianNeverLaunched(r) ==
  /\ guardian[r] = "booting" /\ launchRpc[r] = "spawned" /\ actor[r] = "dead"
  /\ guardian' = [guardian EXCEPT ![r] = "exited"]
  /\ UNCHANGED <<service, cluster, replica, tree, receipt>>

GuardianStops(r) ==
  /\ guardian[r] = "running"
  /\ guardian' = [guardian EXCEPT ![r] = "stopping"]
  /\ UNCHANGED <<service, cluster, replica, tree, receipt>>

(* The loop notices that the engine exited, or that its owner is gone.       *)
GuardianSees(r) == (tree[r] \in {"exited", "gone"} \/ PipeClosed(r)) /\ GuardianStops(r)

(* Mutant: the loop never looks at the lease. *)
LeaseIgnored(r) == PipeClosed(r) /\ GuardianStops(r)

(* The lease ran out; a SIGTERM or SIGINT has the same effect. *)
LeaseExpires(r) == GuardianStops(r)

(* The whole tree was signalled and reaped: the receipt says so. *)
GuardianFinishes(r) ==
  /\ guardian[r] = "stopping" /\ ~Occupied(r)
  /\ guardian' = [guardian EXCEPT ![r] = "exited"]
  /\ receipt' = [receipt EXCEPT ![r] = "stopped"]
  /\ UNCHANGED <<service, cluster, replica, tree>>

(* Mutant: the receipt does not depend on the result of stop_tree. *)
GuardianClaimsStopped(r) ==
  /\ guardian[r] = "stopping"
  /\ guardian' = [guardian EXCEPT ![r] = "exited"]
  /\ receipt' = [receipt EXCEPT ![r] = "stopped"]
  /\ UNCHANGED <<service, cluster, replica, tree>>

(* SIGKILL was sent and kill_timeout passed before the tree was seen gone:   *)
(* the receipt says so, or could not be written.  No reader can tell this    *)
(* from a missing receipt.                                                   *)
GuardianGivesUp(r) ==
  /\ guardian[r] = "stopping"
  /\ guardian' = [guardian EXCEPT ![r] = "exited"]
  /\ UNCHANGED <<service, cluster, replica, tree, receipt>>

(* The engine's main process exits; descendants of it may remain. *)
EngineExits(r) ==
  /\ tree[r] = "serving"
  /\ tree' = [tree EXCEPT ![r] = "exited"]
  /\ UNCHANGED <<service, cluster, replica, guardian, receipt>>

(* The last process of the tree ends, by itself or by the guardian's signal. *)
TreeGone(r) ==
  /\ Occupied(r)
  /\ tree' = [tree EXCEPT ![r] = "gone"]
  /\ UNCHANGED <<service, cluster, replica, guardian, receipt>>

-----------------------------------------------------------------------------
(* Failures, reconnection and recovery.                                      *)

ActorCrashes(r) ==
  /\ "actor" \in Faults /\ actor[r] = "alive"
  /\ actor' = [actor EXCEPT ![r] = "dead"]
  /\ UNCHANGED <<service, cluster, closed, launchRpc, stopRpc, worker>>

GuardianKilled(r) ==
  /\ "guardian" \in Faults /\ GuardianAlive(r)
  /\ guardian' = [guardian EXCEPT ![r] = "killed"]
  /\ UNCHANGED <<service, cluster, replica, tree, receipt>>

(* SIGKILL or loss of the driver's machine, at any point of its threads. *)
DriverDies ==
  /\ "driver" \in Faults /\ DriverUp
  /\ driver' = "dead"
  /\ main' = "idle" /\ monitor' = "none"
  /\ lock' = "none" /\ closing' = "none" /\ cursor' = 0 /\ failures' = {}
  /\ answered' = {} /\ beats' = {}
  /\ UNCHANGED <<object, remote>>

(* A KeyboardInterrupt leaves close() where it stands, and its lock with it; *)
(* after the removal was requested, with or without self.group reset.        *)
CloseInterrupted ==
  /\ "interrupt" \in Faults /\ main = "close"
  /\ IF lock = "monitor" THEN main' = "idle" /\ UNCHANGED <<monitor, closer>>
                         ELSE Return("main")
  /\ \/ MayRemove("main") /\ GroupRemoved /\ group' \in BOOLEAN
     \/ UNCHANGED <<reservation, actor, group>>
  /\ UNCHANGED <<state, error, stop, ranks, driver, replies, ray, snapshot, closed, launchRpc,
                 stopRpc, worker>>

RayShutdown ==
  /\ "ray" \in Faults /\ DriverUp /\ main = "idle" /\ ray
  /\ ray' = FALSE
  /\ UNCHANGED <<service, reservation, snapshot, replica, worker>>

RayReconnects ==
  /\ DriverUp /\ main = "idle" /\ ~ray
  /\ ray' = TRUE
  /\ UNCHANGED <<service, reservation, snapshot, replica, worker>>

(* status() saved where a later process finds it, with every replica in it.  *)
(* It only matters when the driver may die.                                  *)
SaveStatus ==
  /\ "driver" \in Faults /\ driver = "first" /\ main = "idle" /\ group /\ records = Replicas
  /\ snapshot' = TRUE
  /\ UNCHANGED <<service, ray, reservation, replica, worker>>

Recover ==
  /\ driver = "dead" /\ snapshot /\ reservation = "held"
  /\ driver' = "recovered"
  /\ state' = "cleanup_failed" /\ error' = FALSE /\ stop' = FALSE /\ group' = TRUE
  /\ actors' = Replicas /\ records' = Replicas /\ launched' = Replicas
  /\ ray' = TRUE
  /\ UNCHANGED <<main, monitor, closer, replies, reservation, snapshot, replica, worker>>

-----------------------------------------------------------------------------
StartNext == \/ Start \/ Reserve \/ AssignGroup \/ CreateActor \/ AppendActor \/ ActorInfo
             \/ StartMonitor \/ MarkLaunched \/ SendLaunch \/ LaunchReturned
             \/ PollStatus \/ StatusNotReady \/ StatusAllReady
             \/ Commit \/ StartFails
             \/ \E r \in Ranks : StatusReady(r)

MonitorNext == \/ HeartbeatSend \/ HeartbeatsHealthy \/ HeartbeatsFail
               \/ Alarm \/ MonitorStops
               \/ \E r \in Ranks : Heartbeat(r)

CloseNext(p) == \/ CloseAlreadyClosed(p) \/ CloseDisconnected(p) \/ CloseSends(p)
                \/ ConfirmStopped(p) \/ ConfirmFails(p) \/ CleanupUnconfirmed(p)
                \/ TeardownBegins(p) \/ KillActor(p) \/ RemoveGroup(p) \/ TeardownFails(p)

ActorNext(r) == LaunchRefused(r) \/ LaunchSpawns(r) \/ LaunchWrites(r)
                \/ StopBegins(r) \/ StopAnswers(r)

GuardianNext(r) == \/ GuardianStartsEngine(r) \/ GuardianNeverLaunched(r)
                   \/ GuardianSees(r) \/ LeaseExpires(r)
                   \/ GuardianFinishes(r) \/ GuardianGivesUp(r)
                   \/ EngineExits(r) \/ TreeGone(r)

FaultNext == \/ DriverDies \/ CloseInterrupted \/ RayShutdown \/ RayReconnects
             \/ SaveStatus \/ Recover
             \/ \E r \in Ranks : ActorCrashes(r) \/ GuardianKilled(r)

Next == \/ StartNext \/ MonitorNext \/ UserCloses
        \/ \E p \in {"main", "monitor"} : CloseNext(p)
        \/ \E r \in Ranks : ActorNext(r) \/ GuardianNext(r)
        \/ FaultNext

Spec == Init /\ [][Next]_vars

(* Fairness: running threads, actors and guardians take their steps, and     *)
(* every wait has a deadline.  A lease is only sure to expire once nothing   *)
(* renews it; nothing forces a fault, a signal, or a user to call again.     *)
LeaseUnrenewed == monitor \notin {"wait", "await"} \/ ~ray

Fairness ==
  /\ WF_vars(StartFails)
  /\ WF_vars(HeartbeatSend \/ HeartbeatsFail \/ MonitorStops)
  /\ WF_vars(Alarm)
  /\ \A p \in {"main", "monitor"} : WF_vars(CloseNext(p))
  /\ \A r \in Ranks :
       /\ WF_vars(ActorNext(r))
       /\ WF_vars(GuardianStartsEngine(r)) /\ WF_vars(GuardianNeverLaunched(r))
       /\ WF_vars(GuardianSees(r))
       /\ WF_vars(LeaseUnrenewed /\ LeaseExpires(r))
       /\ WF_vars(GuardianFinishes(r) \/ GuardianGivesUp(r))

FairSpec == Spec /\ Fairness

(* The part of Fairness that FailureClosesService needs. *)
WatchSpec == /\ Spec
             /\ WF_vars(HeartbeatSend \/ HeartbeatsFail \/ MonitorStops)
             /\ WF_vars(Alarm)
             /\ \A p \in {"main", "monitor"} : WF_vars(CloseNext(p))
             /\ \A r \in Ranks :
                  WF_vars(GuardianSees(r)) /\ WF_vars(GuardianFinishes(r) \/ GuardianGivesUp(r))

-----------------------------------------------------------------------------
(* Properties.                                                               *)

(* While any process of any replica's engine tree exists, the detached       *)
(* reservation exists: whatever fails, Ray never gives an occupied GPU to    *)
(* somebody else (close() retains the group, DynamoCleanupError).            *)
EnginesHoldReservation == \A r \in Ranks : Occupied(r) => reservation = "held"

(* "closed" is only reported when no actor of the service lives, no guardian *)
(* could still start an engine, and no reservation is left but one: a group  *)
(* that Ray created for a placement_group() call that never returned.  The   *)
(* driver does not know it, and no actor was ever put in it.                 *)
ClosedLeavesNothing ==
  DriverUp /\ state = "closed" =>
    /\ ~group
    /\ reservation = "held" => \A r \in Ranks : actor[r] = "none"
    /\ \A r \in Ranks : actor[r] # "alive" /\ guardian[r] # "running" /\ ~Occupied(r)

(* A service in state "ready" has a monitor that will see its failures, and  *)
(* a failure already seen is being acted upon: the race between the monitor  *)
(* recording an error and start() committing "ready" cannot lose it.         *)
ReadyIsWatched ==
  DriverUp /\ state = "ready" =>
    /\ monitor \in {"wait", "await", "alarm", "close"}
    /\ error => monitor = "close"

(* close() kills actors only when every engine tree is down for good: no     *)
(* process is left and no launch still queued or half done can start one.    *)
TeardownAfterStop ==
  closing = "teardown" => \A r \in Ranks : /\ ~Occupied(r)
                                           /\ guardian[r] \notin {"booting", "running"}

(* A replica told to stop, or whose actor is dead, never spawns a guardian   *)
(* afterwards, even for a launch RPC that was queued before the stop.        *)
NoLaunchAfterStop ==
  [][\A r \in Ranks : guardian[r] = "none" /\ PipeClosed(r) => guardian'[r] = "none"]_vars

(* The deployment implements the custody contract of its GPUs.               *)
Custody == INSTANCE GpuCustody WITH
             custody <- CASE reservation = "none" -> "free"
                          [] reservation = "held" -> "held"
                          [] OTHER -> "returned",
             running <- {r \in Ranks : Occupied(r)},
             used    <- {r \in Ranks : tree[r] # "none"}

CustodySpec == Custody!Spec

(* A failed engine, actor or guardian of a ready service makes the service   *)
(* leave "ready": it never keeps serving with fewer replicas.                *)
FailureClosesService ==
  (DriverUp /\ state = "ready"
    /\ \E r \in Ranks : tree[r] # "serving" \/ actor[r] = "dead" \/ ~GuardianAlive(r))
  ~> (state # "ready" \/ ~DriverUp)

(* When the driver dies its engines are stopped by their guardians, unless   *)
(* the guardian was killed or gave up, or a recovery takes over.             *)
DriverDeathStopsEngines ==
  \A r \in Ranks : (~DriverUp /\ Occupied(r))
                     ~> (~Occupied(r) \/ guardian[r] \in {"exited", "killed"} \/ DriverUp)

(* start() and close() return: no deadlock of the two threads on the lock    *)
(* and no wait without a deadline.                                           *)
CallsReturn == main # "idle" ~> main = "idle"
=============================================================================
