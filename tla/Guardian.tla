------------------------------ MODULE Guardian ------------------------------
(* The guardian process of one replica: it reads a launch line, starts the   *)
(* engine, watches it until the engine exits, the lease runs out, the owner  *)
(* is gone or a signal arrives, and then stops every process it owns.  The   *)
(* engine's processes fork, exit, are reaped and are re-parented as Linux    *)
(* does below a child subreaper, and a freed pid may be taken by a process   *)
(* of somebody else.  Owned processes and strangers share one pid space.     *)
EXTENDS Integers, FiniteSets

CONSTANTS Pids,       \* pids that engine processes and strangers may have
          Guardian,   \* the guardian's own pid
          System,     \* a parent outside the guardian's tree
          MaxBirth    \* bound on process creations (start times)

ASSUME PidsAssumption == Guardian \notin Pids /\ System \notin Pids /\ Guardian # System
ASSUME BirthAssumption == MaxBirth \in Nat

VARIABLES pc,         \* what the guardian is doing
          signal,     \* stop_tree's pass: SIGTERM, then SIGKILL
          targets,    \* rest of _signal_owned's snapshot: <<pid, birth>>
          checked,    \* <<pid, birth>> just compared, to be signalled next; <<>> if none
          stopped,    \* stop_tree's result
          receipt,    \* the file the service reads
          state,      \* per pid: free, run, zombie, or a stranger's
          parent, birth, clock,
          killed,     \* pids with a pending SIGKILL
          engine      \* <<pid, birth>> of the engine's main process, once started

processes == <<state, parent, birth, clock, killed>>
vars == <<pc, signal, targets, checked, stopped, receipt, processes, engine>>

Steps == {"read", "spawn", "watch", "scan", "signal", "reap", "verify", "deadline", "write", "done"}

TypeOK ==
  /\ pc \in Steps
  /\ signal \in {"SIGTERM", "SIGKILL"}
  /\ targets \subseteq Pids \X (0 .. MaxBirth)
  /\ checked \in {<<>>} \cup (Pids \X (0 .. MaxBirth))
  /\ stopped \in BOOLEAN
  /\ receipt \in {"none", "stopped", "unstopped"}
  /\ state \in [Pids -> {"free", "run", "zombie", "stranger"}]
  /\ parent \in [Pids -> Pids \cup {Guardian, System}]
  /\ birth \in [Pids -> 0 .. MaxBirth]
  /\ clock \in 0 .. MaxBirth
  /\ killed \subseteq Pids
  /\ engine \in {<<>>} \cup (Pids \X (0 .. MaxBirth))
  /\ checked # <<>> \/ targets # {} => pc = "signal"

Init ==
  /\ pc = "read" /\ signal = "SIGTERM" /\ targets = {} /\ checked = <<>>
  /\ stopped = FALSE /\ receipt = "none"
  /\ state = [p \in Pids |-> "free"]
  /\ parent = [p \in Pids |-> System]
  /\ birth = [p \in Pids |-> 0]
  /\ clock = 0 /\ killed = {} /\ engine = <<>>

-----------------------------------------------------------------------------
(* What the guardian can see of its processes.                               *)

Owned == {p \in Pids : state[p] \in {"run", "zombie"}}
Children == {p \in Owned : parent[p] = Guardian}
EngineRuns == engine # <<>> /\ state[engine[1]] = "run" /\ birth[engine[1]] = engine[2]

(* descendants(): the least set with the guardian's children and every child *)
(* of a member, by the parent links.  /proc is not read atomically, so what  *)
(* is seen may lack a process that was forked or re-parented meanwhile.      *)
Descendants ==
  {p \in Pids : \A S \in SUBSET Pids :
     (\A q \in Pids : state[q] # "free" /\ parent[q] \in S \cup {Guardian} => q \in S) => p \in S}
Readings == SUBSET Descendants

-----------------------------------------------------------------------------
(* The processes.                                                            *)

Created(p, by, as) ==
  /\ clock < MaxBirth
  /\ state[p] = "free"
  /\ clock' = clock + 1
  /\ state' = [state EXCEPT ![p] = as]
  /\ parent' = [parent EXCEPT ![p] = by]
  /\ birth' = [birth EXCEPT ![p] = clock + 1]
  /\ UNCHANGED killed

guardianVars == <<pc, signal, targets, checked, stopped, receipt, engine>>

Fork(p, q) ==
  /\ state[p] = "run" /\ p \notin killed
  /\ Created(q, p, "run")
  /\ UNCHANGED guardianVars

(* Mutant: prctl is not called, and orphans pass to the system. *)
ExitOrphans(p) ==
  /\ state[p] = "run"
  /\ state' = [state EXCEPT ![p] = "zombie"]
  /\ parent' = [q \in Pids |-> IF parent[q] = p THEN System ELSE parent[q]]
  /\ killed' = killed \ {p}
  /\ UNCHANGED <<birth, clock, guardianVars>>

(* A process exits; its children pass to the subreaper, or to the system     *)
(* once the guardian has exited.                                             *)
Exit(p) ==
  /\ state[p] = "run"
  /\ state' = [state EXCEPT ![p] = "zombie"]
  /\ parent' = [q \in Pids |-> CASE parent[q] # p    -> parent[q]
                                 [] pc = "done"      -> System
                                 [] OTHER            -> Guardian]
  /\ killed' = killed \ {p}
  /\ UNCHANGED <<birth, clock, guardianVars>>

Freed(p) ==
  /\ state' = [state EXCEPT ![p] = "free"]
  /\ UNCHANGED <<parent, birth, clock, killed>>

(* A parent other than the guardian reaps its child. *)
ReapedElsewhere(p) ==
  /\ state[p] = "zombie" /\ parent[p] # Guardian
  /\ Freed(p)
  /\ UNCHANGED guardianVars

StrangerStarts(p) == Created(p, System, "stranger") /\ UNCHANGED guardianVars

StrangerExits(p) ==
  /\ state[p] = "stranger"
  /\ Freed(p)
  /\ UNCHANGED guardianVars

-----------------------------------------------------------------------------
(* main(): launch line, engine, watch loop.                                  *)

(* End of file, a signal or a bad record before there is a launch line. *)
NeverLaunches ==
  /\ pc = "read"
  /\ pc' = "done"
  /\ UNCHANGED <<signal, targets, checked, stopped, receipt, processes, engine>>

ReadLaunchLine ==
  /\ pc = "read"
  /\ pc' = "spawn"
  /\ UNCHANGED <<signal, targets, checked, stopped, receipt, processes, engine>>

SpawnEngine(p) ==
  /\ pc = "spawn"
  /\ Created(p, Guardian, "run")
  /\ engine' = <<p, clock + 1>>
  /\ pc' = "watch"
  /\ UNCHANGED <<signal, targets, checked, stopped, receipt>>

SpawnFails ==
  /\ pc = "spawn"
  /\ pc' = "scan"
  /\ UNCHANGED <<signal, targets, checked, stopped, receipt, processes, engine>>

(* child.poll() finds the engine's main process exited, and reaps it. *)
SeeEngineExit ==
  /\ pc = "watch" /\ state[engine[1]] = "zombie"
  /\ Freed(engine[1])
  /\ pc' = "scan"
  /\ UNCHANGED <<signal, targets, checked, stopped, receipt, engine>>

(* The lease ran out, the owner closed the pipe or wrote stop, or SIGTERM or *)
(* SIGINT arrived.                                                           *)
AskedToStop ==
  /\ pc = "watch"
  /\ pc' = "scan"
  /\ UNCHANGED <<signal, targets, checked, stopped, receipt, processes, engine>>

-----------------------------------------------------------------------------
(* stop_tree(): rounds of signalling, reaping and looking, until nothing is  *)
(* left or both deadlines have passed.                                       *)

(* _signal_owned takes its snapshot. *)
Scan ==
  /\ pc = "scan"
  /\ \E seen \in Readings : targets' = {<<p, birth[p]>> : p \in seen}
  /\ pc' = "signal"
  /\ UNCHANGED <<signal, checked, stopped, receipt, processes, engine>>

(* Mutant: the pid is looked up, its birth is not compared. *)
CompareNothing(t) ==
  /\ pc = "signal" /\ checked = <<>> /\ t \in targets
  /\ targets' = targets \ {t}
  /\ checked' = IF state[t[1]] # "free" THEN <<t[1], birth[t[1]]>> ELSE <<>>
  /\ UNCHANGED <<pc, signal, stopped, receipt, processes, engine>>

(* /proc is read again: a pid with another birth is passed over. *)
CompareBirth(t) ==
  /\ pc = "signal" /\ checked = <<>> /\ t \in targets
  /\ targets' = targets \ {t}
  /\ checked' = IF state[t[1]] # "free" /\ birth[t[1]] = t[2] THEN <<t[1], birth[t[1]]>> ELSE <<>>
  /\ UNCHANGED <<pc, signal, stopped, receipt, processes, engine>>

(* os.kill: only SIGKILL is sure to end its target. *)
SendSignal ==
  /\ pc = "signal" /\ checked # <<>>
  /\ killed' = IF signal = "SIGKILL" /\ state[checked[1]] = "run"
               THEN killed \cup {checked[1]} ELSE killed
  /\ checked' = <<>>
  /\ UNCHANGED <<pc, signal, targets, stopped, receipt, state, parent, birth, clock, engine>>

(* Mutant: the round ends with its last check, before the signal is sent. *)
SignalsSentEarly ==
  /\ pc = "signal" /\ targets = {}
  /\ pc' = "reap"
  /\ UNCHANGED <<signal, targets, checked, stopped, receipt, processes, engine>>

SignalsSent ==
  /\ pc = "signal" /\ checked = <<>> /\ targets = {}
  /\ pc' = "reap"
  /\ UNCHANGED <<signal, targets, checked, stopped, receipt, processes, engine>>

(* _reap: waitpid(-1) takes one exited child after the other. *)
ReapChild(p) ==
  /\ pc = "reap" /\ p \in Children /\ state[p] = "zombie"
  /\ Freed(p)
  /\ UNCHANGED guardianVars

(* Mutant: "none has exited" is taken for "no children". *)
ReapEndsAnyway ==
  /\ pc = "reap" /\ \A p \in Children : state[p] = "run"
  /\ pc' = "verify"
  /\ UNCHANGED <<signal, targets, checked, stopped, receipt, processes, engine>>

(* waitpid says none has exited, or that there are no children at all. *)
ReapEnds ==
  /\ pc = "reap" /\ \A p \in Children : state[p] = "run"
  /\ pc' = IF Children = {} THEN "verify" ELSE "deadline"
  /\ UNCHANGED <<signal, targets, checked, stopped, receipt, processes, engine>>

Verify ==
  /\ pc = "verify"
  /\ \E seen \in Readings : /\ stopped' = (seen = {})
                           /\ pc' = IF seen = {} THEN "write" ELSE "deadline"
  /\ UNCHANGED <<signal, targets, checked, receipt, processes, engine>>

NextRound ==
  /\ pc = "deadline"
  /\ pc' = "scan"
  /\ UNCHANGED <<signal, targets, checked, stopped, receipt, processes, engine>>

(* Mutant: the last deadline starts another round. *)
DeadlineRestarts ==
  /\ pc = "deadline"
  /\ signal' = "SIGKILL"
  /\ pc' = "scan"
  /\ UNCHANGED <<targets, checked, stopped, receipt, processes, engine>>

DeadlinePasses ==
  /\ pc = "deadline"
  /\ signal' = "SIGKILL"
  /\ pc' = IF signal = "SIGTERM" THEN "scan" ELSE "write"
  /\ UNCHANGED <<targets, checked, stopped, receipt, processes, engine>>

(* Mutant: the receipt does not carry the result of stop_tree. *)
WriteStopped ==
  /\ pc = "write"
  /\ receipt' \in {"stopped", "none"}
  /\ pc' = "done"
  /\ parent' = [p \in Pids |-> IF p \in Owned /\ parent[p] = Guardian THEN System ELSE parent[p]]
  /\ UNCHANGED <<signal, targets, checked, stopped, state, birth, clock, killed, engine>>

(* The receipt is written and the guardian exits: what it still owns passes  *)
(* to the system.                                                            *)
WriteReceipt ==
  /\ pc = "write"
  /\ receipt' \in {IF stopped THEN "stopped" ELSE "unstopped", "none"}
  /\ pc' = "done"
  /\ parent' = [p \in Pids |-> IF p \in Owned /\ parent[p] = Guardian THEN System ELSE parent[p]]
  /\ UNCHANGED <<signal, targets, checked, stopped, state, birth, clock, killed, engine>>

-----------------------------------------------------------------------------
ProcessNext ==
  \E p \in Pids : \/ Exit(p) \/ ReapedElsewhere(p) \/ StrangerStarts(p) \/ StrangerExits(p)
                 \/ \E q \in Pids : Fork(p, q)

StopTree == \/ Scan \/ SendSignal \/ SignalsSent \/ ReapEnds \/ Verify \/ NextRound
            \/ DeadlinePasses \/ WriteReceipt
            \/ \E t \in targets : CompareBirth(t)
            \/ \E p \in Pids : ReapChild(p)

Next == \/ ProcessNext \/ StopTree
        \/ NeverLaunches \/ ReadLaunchLine \/ SpawnFails \/ SeeEngineExit \/ AskedToStop
        \/ \E p \in Pids : SpawnEngine(p)

Spec == Init /\ [][Next]_vars

(* The guardian is scheduled and time passes; nothing is asked of the        *)
(* engine's processes, which may ignore SIGTERM and outlive SIGKILL.         *)
Fairness == WF_vars(StopTree) /\ SF_vars(DeadlinePasses) /\ WF_vars(SeeEngineExit)

FairSpec == Spec /\ Fairness

-----------------------------------------------------------------------------
(* Properties.                                                               *)

(* A receipt that says "stopped" is true, and stays true: no process of the  *)
(* engine's tree is left, however it forked, exited or was re-parented while *)
(* the guardian was stopping it.                                             *)
ReceiptIsTrue == receipt = "stopped" => Owned = {}

(* A signal never goes to a process of somebody else that took the pid       *)
(* before the birth was compared again.                                      *)
StrangersSpared ==
  checked # <<>> /\ birth[checked[1]] = checked[2] => state[checked[1]] # "stranger"

(* While the guardian runs, nothing it owns escapes descendants(), whichever *)
(* intermediate process exited first.                                        *)
NothingEscapes == pc # "done" => Owned = Descendants

(* An exited engine is followed by the end of the guardian, with its receipt *)
(* or the failure to stop the tree.                                          *)
EngineExitIsHandled == (pc = "watch" /\ ~EngineRuns) ~> pc = "done"

(* What DynamoService assumes of a guardian. *)
Contract == INSTANCE GuardianContract WITH
  guardian <- CASE pc \in {"read", "spawn"} -> "booting"
                [] pc = "watch" -> "running"
                [] pc = "done" -> "exited"
                [] OTHER -> "stopping",
  tree <- IF engine = <<>> THEN "none"
          ELSE IF EngineRuns THEN "serving"
          ELSE IF \E p \in Pids : state[p] = "run" THEN "exited" ELSE "gone",
  receipt <- IF receipt = "stopped" THEN "stopped" ELSE "none"

ContractSpec == Contract!Spec
=============================================================================
