----------------------------- MODULE LeaseTiming -----------------------------
(* How heartbeats and the lease of one replica's guardian fit together in    *)
(* time: the monitor thread of the driver, the heartbeat() and launch() of   *)
(* the actor, and the guardian's wait loop.  Time passes in whole units by   *)
(* Tick; a thread whose wait is over runs within Slack units.                *)
EXTENDS Integers, TLAPS

CONSTANTS Heartbeat,    \* heartbeat_interval
          RpcTimeout,   \* rpc_timeout
          Lease,        \* lease_timeout
          Slack         \* how late a waiting thread may be scheduled

ASSUME TimesAssumption == /\ Heartbeat \in Nat \ {0} /\ RpcTimeout \in Nat \ {0}
                          /\ Lease \in Nat /\ Slack \in Nat
(* validate() *)
ASSUME LeaseAssumption == Lease > 2 * (Heartbeat + RpcTimeout)
(* The margin that validate() leaves is enough for machines this punctual.   *)
ASSUME SlackAssumption == 4 * Slack <= Heartbeat

VARIABLES
  monitor, since,   \* the monitor thread, and the time it has been waiting
  rpc,              \* the heartbeat RPC it issued last
  launch,           \* launch() of the actor
  guardian,
  age,              \* time since the guardian started or renewed the lease
  stdin, lag        \* pings wait in the guardian's stdin, and for how long
vars == <<monitor, since, rpc, launch, guardian, age, stdin, lag>>

TypeOK ==
  /\ monitor \in {"wait", "await", "ended"}
  /\ rpc \in {"none", "queued", "answered"}
  /\ launch \in {"none", "running", "done"}
  /\ guardian \in {"none", "booting", "watching", "expired", "stopped"}
  /\ stdin \in {"empty", "pings"}
  /\ since \in Nat /\ age \in Nat /\ lag \in Nat

Init ==
  /\ monitor = "wait" /\ since = 0 /\ rpc = "none"
  /\ launch = "none" /\ guardian = "none"
  /\ age = 0 /\ stdin = "empty" /\ lag = 0

Tick ==
  /\ monitor = "wait" => since < Heartbeat + Slack
  /\ monitor = "await" => since < RpcTimeout + Slack
  /\ guardian = "watching" => age < Lease + Slack /\ (stdin = "pings" => lag < Slack)
  /\ since' = IF monitor = "ended" THEN 0 ELSE since + 1
  /\ age' = IF guardian = "watching" THEN age + 1 ELSE 0
  /\ lag' = IF guardian = "watching" /\ stdin = "pings" THEN lag + 1 ELSE 0
  /\ UNCHANGED <<monitor, rpc, launch, guardian, stdin>>

-----------------------------------------------------------------------------
(* The driver.                                                               *)

HeartbeatSend ==
  /\ monitor = "wait" /\ since >= Heartbeat
  /\ monitor' = "await" /\ since' = 0
  /\ rpc' = "queued"
  /\ UNCHANGED <<launch, guardian, age, stdin, lag>>

HeartbeatsHealthy ==
  /\ monitor = "await" /\ rpc = "answered"
  /\ monitor' = "wait" /\ since' = 0
  /\ UNCHANGED <<rpc, launch, guardian, age, stdin, lag>>

(* Mutant: the monitor forgives a missed heartbeat and sends the next one. *)
HeartbeatsForgiven ==
  /\ monitor = "await"
  /\ monitor' = "wait" /\ since' = 0
  /\ UNCHANGED <<rpc, launch, guardian, age, stdin, lag>>

(* A rank did not answer in time, or answered False: the monitor ends. *)
HeartbeatsFail ==
  /\ monitor = "await"
  /\ monitor' = "ended" /\ since' = 0
  /\ UNCHANGED <<rpc, launch, guardian, age, stdin, lag>>

(* The driver process is gone, or close() has set stop. *)
MonitorEnds ==
  /\ monitor \in {"wait", "await"}
  /\ monitor' = "ended" /\ since' = 0
  /\ UNCHANGED <<rpc, launch, guardian, age, stdin, lag>>

-----------------------------------------------------------------------------
(* The actor, which runs one method at a time.                               *)

LaunchBegins ==
  /\ launch = "none"
  /\ launch' = "running"
  /\ UNCHANGED <<monitor, since, rpc, guardian, age, stdin, lag>>

LaunchEnds ==
  /\ launch = "running"
  /\ launch' = "done"
  /\ guardian' = "booting"
  /\ UNCHANGED <<monitor, since, rpc, age, stdin, lag>>

(* The actor writes a ping, unless it has launched nothing yet.  A heartbeat *)
(* that timed out at the driver runs all the same.                           *)
HeartbeatRuns ==
  /\ rpc = "queued" /\ launch # "running"
  /\ rpc' = "answered"
  /\ stdin' = IF guardian = "none" THEN stdin ELSE "pings"
  /\ lag' = IF stdin = "pings" THEN lag ELSE 0
  /\ UNCHANGED <<monitor, since, launch, guardian, age>>

-----------------------------------------------------------------------------
(* The guardian.                                                             *)

GuardianStartsEngine ==
  /\ guardian = "booting"
  /\ guardian' = "watching"
  /\ age' = 0 /\ lag' = 0
  /\ UNCHANGED <<monitor, since, rpc, launch, stdin>>

(* Mutant: the lease is not looked at while pings arrive, nor renewed. *)
ReadOnly ==
  /\ guardian = "watching" /\ stdin = "pings" /\ age < Lease
  /\ stdin' = "empty" /\ lag' = 0
  /\ UNCHANGED <<monitor, since, rpc, launch, guardian, age>>

(* The deadline is looked at before stdin, so a ping that arrived but is     *)
(* read too late does not count.                                             *)
ReadPing ==
  /\ guardian = "watching" /\ stdin = "pings" /\ age < Lease
  /\ stdin' = "empty" /\ lag' = 0
  /\ age' = 0
  /\ UNCHANGED <<monitor, since, rpc, launch, guardian>>

(* Mutant: half of the lease is taken for the whole. *)
LeaseExpiresEarly ==
  /\ guardian = "watching" /\ 2 * age >= Lease
  /\ guardian' = "expired"
  /\ UNCHANGED <<monitor, since, rpc, launch, age, stdin, lag>>

LeaseExpires ==
  /\ guardian = "watching" /\ age >= Lease
  /\ guardian' = "expired"
  /\ UNCHANGED <<monitor, since, rpc, launch, age, stdin, lag>>

(* The engine exits, the owner says stop, or a signal arrives. *)
GuardianStops ==
  /\ guardian \in {"booting", "watching"}
  /\ guardian' = "stopped"
  /\ UNCHANGED <<monitor, since, rpc, launch, age, stdin, lag>>

Next == \/ Tick
        \/ HeartbeatSend \/ HeartbeatsHealthy \/ HeartbeatsFail \/ MonitorEnds
        \/ LaunchBegins \/ LaunchEnds \/ HeartbeatRuns
        \/ GuardianStartsEngine \/ ReadPing \/ LeaseExpires \/ GuardianStops

Spec == Init /\ [][Next]_vars

-----------------------------------------------------------------------------
(* As long as the monitor of the driver is content, the guardian does not    *)
(* find the lease expired: no healthy service is stopped by its own lease.   *)
HealthyLeaseHolds == guardian = "expired" => monitor = "ended"

(* Why: the time since the last renewal is bounded by what the monitor and   *)
(* the pipe have waited for since, up to Heartbeat + 2 * RpcTimeout with a   *)
(* delay of Slack at each of four waits.                                     *)
AgeBound ==
  monitor # "ended" /\ guardian = "watching" =>
    /\ stdin = "pings" => age <= lag + Heartbeat + 2 * RpcTimeout + 3 * Slack
    /\ stdin = "empty" /\ monitor = "wait" => age <= since + RpcTimeout + Slack
    /\ stdin = "empty" /\ monitor = "await" /\ rpc = "queued" =>
         age <= since + Heartbeat + RpcTimeout + 2 * Slack
    /\ stdin = "empty" /\ monitor = "await" /\ rpc = "answered" => age <= since

LaunchOrder == guardian # "none" <=> launch = "done"

Bounds ==
  /\ monitor = "wait" => since <= Heartbeat + Slack
  /\ monitor = "await" => since <= RpcTimeout + Slack /\ rpc # "none"
  /\ guardian = "watching" /\ stdin = "pings" => lag <= Slack
  /\ guardian \in {"none", "booting"} => age = 0

LeaseInv == TypeOK /\ LaunchOrder /\ Bounds /\ AgeBound /\ HealthyLeaseHolds

(* The lease invariant holds at the start. *)
LEMMA InitLease == Init => LeaseInv
BY TimesAssumption DEF Init, LeaseInv, TypeOK, LaunchOrder, Bounds, AgeBound,
   HealthyLeaseHolds

(* Every step keeps the lease invariant; only the passing of time and the    *)
(* threads that reset a timer touch AgeBound.                                *)
LEMMA NextLease == LeaseInv /\ [Next]_vars => LeaseInv'
<1> SUFFICES ASSUME LeaseInv, [Next]_vars PROVE LeaseInv'
  OBVIOUS
<1> USE TimesAssumption, LeaseAssumption, SlackAssumption
        DEF LeaseInv, TypeOK, LaunchOrder, Bounds, AgeBound, HealthyLeaseHolds
<1>1. CASE Tick
  BY <1>1 DEF Tick
<1>2. CASE HeartbeatSend
  BY <1>2 DEF HeartbeatSend
<1>3. CASE HeartbeatsHealthy
  BY <1>3 DEF HeartbeatsHealthy
<1>4. CASE HeartbeatsFail \/ MonitorEnds
  BY <1>4 DEF HeartbeatsFail, MonitorEnds
<1>5. CASE LaunchBegins \/ LaunchEnds
  BY <1>5 DEF LaunchBegins, LaunchEnds
<1>6. CASE HeartbeatRuns
  BY <1>6 DEF HeartbeatRuns
<1>7. CASE GuardianStartsEngine
  BY <1>7 DEF GuardianStartsEngine
<1>8. CASE ReadPing
  BY <1>8 DEF ReadPing
<1>9. CASE LeaseExpires
  BY <1>9 DEF LeaseExpires
<1>10. CASE GuardianStops
  BY <1>10 DEF GuardianStops
<1>11. CASE UNCHANGED vars
  BY <1>11 DEF vars
<1> QED
  BY <1>1, <1>2, <1>3, <1>4, <1>5, <1>6, <1>7, <1>8, <1>9, <1>10, <1>11 DEF Next

(* The age of the lease is bounded in every reachable state. *)
THEOREM LeaseBounded == Spec => []LeaseInv
BY InitLease, NextLease, PTL DEF Spec

(* No lease of a healthy service expires, for all times that validate()      *)
(* accepts and every Slack up to a quarter of the heartbeat interval.        *)
THEOREM LeaseHolds == Spec => []HealthyLeaseHolds
<1>1. LeaseInv => HealthyLeaseHolds
  BY DEF LeaseInv
<1> QED
  BY <1>1, LeaseBounded, PTL
=============================================================================
