--------------------------- MODULE GuardianProof ---------------------------
(* Theorems of Guardian for any pids and any number of process creations.    *)
EXTENDS Guardian, TLAPS

(* A set of pids that holds the guardian's children and its members' own.    *)
Closed(S) == \A q \in Pids : state[q] # "free" /\ parent[q] \in S \cup {Guardian} => q \in S

(* The process tree: the parent of a live process runs or is not an engine's *)
(* process, a stranger is nobody's child, and as long as the guardian is     *)
(* there, every owned process is reached from it by parent links.            *)
TreeInv ==
  /\ \A q \in Pids : state[q] # "free" /\ parent[q] \in Pids => state[parent[q]] = "run"
  /\ \A q \in Pids : state[q] = "stranger" => parent[q] = System
  /\ pc # "done" => \A S \in SUBSET Pids : Closed(S) => Owned \subseteq S

(* A pid and birth that were noted together: the birth is past, and the      *)
(* process that has it is not a stranger.                                    *)
Noted == Pids \X (0 .. MaxBirth)
Dated(t) == t[2] <= clock /\ (birth[t[1]] = t[2] => state[t[1]] # "stranger")

BirthInv ==
  /\ \A q \in Pids : birth[q] <= clock
  /\ \A t \in Noted : t \in targets \/ t = checked \/ t = engine => Dated(t)

(* What stop_tree() has found out, and where main() is.                      *)
StopInv ==
  /\ stopped => pc \in {"write", "done"}
  /\ receipt # "none" => pc = "done"
  /\ pc \in {"read", "spawn"} => engine = <<>>
  /\ pc = "watch" => engine # <<>>
  /\ pc = "verify" \/ stopped \/ receipt = "stopped" => Owned = {}
  /\ receipt = "stopped" => stopped

IInv == TypeOK /\ TreeInv /\ BirthInv /\ StopInv

-----------------------------------------------------------------------------
USE PidsAssumption, BirthAssumption

LEMMA InitInv == Init => IInv
<1> SUFFICES ASSUME Init PROVE IInv
  OBVIOUS
<1>1. Owned = {}
  BY DEF Init, Owned
<1>2. TypeOK
  <2>1. 0 \in 0 .. MaxBirth
    OBVIOUS
  <2>2. /\ state \in [Pids -> {"free", "run", "zombie", "stranger"}]
        /\ parent \in [Pids -> Pids \cup {Guardian, System}]
        /\ birth \in [Pids -> 0 .. MaxBirth]
    BY <2>1 DEF Init
  <2> QED BY <2>1, <2>2 DEF Init, TypeOK, Steps
<1>3. TreeInv /\ StopInv
  BY <1>1 DEF Init, TreeInv, StopInv
<1>4. BirthInv
  BY SMTT(30) DEF Init, BirthInv, Noted
<1> QED BY <1>2, <1>3, <1>4 DEF IInv

(* While the guardian runs, descendants() finds exactly what it owns.        *)
LEMMA OwnedAreDescendants == IInv => NothingEscapes
<1> SUFFICES ASSUME IInv, pc # "done" PROVE Owned = Descendants
  BY DEF NothingEscapes
<1>1. Owned \subseteq Descendants
  BY DEF IInv, TreeInv, Owned, Descendants, Closed
<1>2. Closed(Owned)
  <2> SUFFICES ASSUME NEW q \in Pids, state[q] # "free", parent[q] \in Owned \cup {Guardian}
               PROVE  q \in Owned
    BY DEF Closed
  <2>1. state[q] # "stranger"
    BY DEF IInv, TreeInv, Owned
  <2> QED BY <2>1 DEF IInv, TypeOK, Owned
<1>3. Descendants \subseteq Owned
  BY <1>2 DEF Descendants, Closed, Owned
<1> QED BY <1>1, <1>3

(* A process that has no child left in the tree leaves the process table.    *)
LEMMA FreedTree ==
  ASSUME TypeOK, TreeInv, NEW p \in Pids, state[p] # "run", Freed(p), pc = "done" => pc' = "done"
  PROVE  TreeInv'
<1> USE DEF Freed, TypeOK
<1>1. ASSUME pc' # "done", NEW S \in SUBSET Pids, Closed(S)' PROVE Owned' \subseteq S
  <2>1. Closed(S \cup {p})
    BY <1>1 DEF Closed, TreeInv
  <2>2. Owned \subseteq S \cup {p}
    BY <1>1, <2>1 DEF TreeInv
  <2> QED BY <2>2 DEF Owned
<1> QED BY <1>1 DEF TreeInv

LEMMA FreedBirth ==
  ASSUME TypeOK, NEW p \in Pids, Freed(p)
  PROVE  /\ \A q \in Pids : state'[q] = "stranger" => state[q] = "stranger"
         /\ Owned' \subseteq Owned
         /\ state' \in [Pids -> {"free", "run", "zombie", "stranger"}]
BY DEF Freed, TypeOK, Owned

(* A new process hangs below a member of the tree, or is a stranger.         *)
LEMMA CreatedTree ==
  ASSUME TypeOK, TreeInv, NEW p \in Pids, NEW by \in Pids \cup {Guardian, System},
         NEW as \in {"run", "stranger"}, Created(p, by, as),
         as = "stranger" => by = System,
         as = "run" => by # System /\ (by \in Pids => state[by] = "run"),
         pc = "done" => pc' = "done"
  PROVE  TreeInv'
<1> USE DEF Created, TypeOK
<1>1. ASSUME pc' # "done", NEW S \in SUBSET Pids, Closed(S)' PROVE Owned' \subseteq S
  <2>1. Closed(S \ {p})
    BY <1>1 DEF Closed
  <2>2. Owned \subseteq S \ {p}
    BY <1>1, <2>1 DEF TreeInv
  <2>3. Owned' \subseteq Owned \cup {p} /\ (as = "stranger" => Owned' = Owned)
    BY DEF Owned
  <2>4. CASE as = "stranger"
    BY <2>2, <2>3, <2>4
  <2>5. CASE as = "run"
    <3>1. by \in S \cup {Guardian}
      BY <2>2, <2>5 DEF Owned
    <3>2. p \in S
      BY <1>1, <2>5, <3>1 DEF Closed
    <3> QED BY <2>2, <2>3, <3>2
  <2> QED BY <2>4, <2>5
<1>2. \A q \in Pids : state'[q] # "free" /\ parent'[q] \in Pids => state'[parent'[q]] = "run"
  BY DEF TreeInv
<1>3. \A q \in Pids : state'[q] = "stranger" => parent'[q] = System
  BY DEF TreeInv
<1> QED BY <1>1, <1>2, <1>3 DEF TreeInv

LEMMA CreatedBirth ==
  ASSUME TypeOK, BirthInv, NEW p \in Pids, NEW by \in Pids \cup {Guardian, System},
         NEW as \in {"run", "stranger"}, Created(p, by, as)
  PROVE  /\ state' \in [Pids -> {"free", "run", "zombie", "stranger"}]
         /\ parent' \in [Pids -> Pids \cup {Guardian, System}]
         /\ birth' \in [Pids -> 0 .. MaxBirth] /\ clock' \in 0 .. MaxBirth
         /\ \A q \in Pids : birth'[q] <= clock'
         /\ \A t \in Noted : Dated(t) => Dated(t)'
<1> USE DEF Created, TypeOK
<1>1. clock' \in 0 .. MaxBirth /\ clock' = clock + 1
  OBVIOUS
<1>2. /\ state' \in [Pids -> {"free", "run", "zombie", "stranger"}]
      /\ parent' \in [Pids -> Pids \cup {Guardian, System}]
  OBVIOUS
<1>3. birth' \in [Pids -> 0 .. MaxBirth]
  BY <1>1
<1>4. \A q \in Pids : birth'[q] <= clock'
  BY <1>1 DEF BirthInv
<1>5. ASSUME NEW t \in Noted, Dated(t) PROVE Dated(t)'
  <2>1. t[1] \in Pids /\ t[2] \in 0 .. MaxBirth /\ t[2] <= clock
    BY <1>5 DEF Noted, Dated
  <2>2. t[2] <= clock'
    BY <1>1, <2>1
  <2>3. birth'[t[1]] = t[2] => state'[t[1]] # "stranger"
    <3>1. CASE t[1] = p
      BY <1>1, <2>1, <3>1
    <3>2. CASE t[1] # p
      BY <1>5, <2>1, <3>2 DEF Dated
    <3> QED BY <3>1, <3>2
  <2> QED BY <2>2, <2>3 DEF Dated
<1> QED BY <1>1, <1>2, <1>3, <1>4, <1>5

LEMMA ProcessStep ==
  ASSUME IInv, ProcessNext
  PROVE  IInv'
<1> USE DEF IInv
<1>1. ASSUME NEW p \in Pids, NEW q \in Pids, Fork(p, q) PROVE IInv'
  <2> USE <1>1 DEF Fork, guardianVars
  <2>1. Created(q, p, "run") /\ UNCHANGED <<pc, signal, targets, checked, stopped, receipt, engine>>
    OBVIOUS
  <2>2. TypeOK'
    BY <2>1, CreatedBirth DEF TypeOK, Created
  <2>3. TreeInv'
    BY <2>1, CreatedTree DEF TypeOK
  <2>4. BirthInv'
    BY <2>1, CreatedBirth DEF BirthInv
  <2>5. StopInv'
    BY <2>1 DEF StopInv, Owned
  <2> QED BY <2>2, <2>3, <2>4, <2>5
<1>2. ASSUME NEW p \in Pids, Exit(p) PROVE IInv'
  <2> USE <1>2 DEF Exit, guardianVars
  <2>1. Owned' = Owned
    BY DEF Owned, TypeOK
  <2>2. TypeOK'
    BY DEF TypeOK
  <2>3. BirthInv'
    BY DEF TypeOK, BirthInv, Dated, Noted
  <2>4. StopInv'
    BY <2>1 DEF StopInv
  <2>5. \A q \in Pids : state'[q] # "free" /\ parent'[q] \in Pids => state'[parent'[q]] = "run"
    BY DEF TypeOK, TreeInv
  <2>6. \A q \in Pids : state'[q] = "stranger" => parent'[q] = System
    BY DEF TypeOK, TreeInv
  <2>7. ASSUME pc' # "done", NEW S \in SUBSET Pids, Closed(S)' PROVE Owned' \subseteq S
    <3>1. Closed(S)
      BY <2>7 DEF Closed, TypeOK
    <3> QED BY <2>1, <2>7, <3>1 DEF TreeInv
  <2> QED BY <2>2, <2>3, <2>4, <2>5, <2>6, <2>7 DEF TreeInv
<1>3. ASSUME NEW p \in Pids, ReapedElsewhere(p) \/ StrangerExits(p) PROVE IInv'
  <2>1. Freed(p) /\ state[p] # "run" /\ UNCHANGED guardianVars
    BY <1>3 DEF ReapedElsewhere, StrangerExits
  <2> USE <2>1 DEF guardianVars
  <2>2. TreeInv'
    BY FreedTree
  <2>3. TypeOK'
    BY FreedBirth DEF TypeOK, Freed
  <2>4. BirthInv'
    BY FreedBirth DEF BirthInv, Freed, Dated, Noted
  <2>5. StopInv'
    BY FreedBirth DEF StopInv
  <2> QED BY <2>2, <2>3, <2>4, <2>5
<1>4. ASSUME NEW p \in Pids, StrangerStarts(p) PROVE IInv'
  <2> USE <1>4 DEF StrangerStarts, guardianVars
  <2>1. Created(p, System, "stranger") /\ UNCHANGED <<pc, signal, targets, checked, stopped, receipt, engine>>
    OBVIOUS
  <2>2. TypeOK'
    BY <2>1, CreatedBirth DEF TypeOK, Created
  <2>3. TreeInv'
    BY <2>1, CreatedTree DEF TypeOK
  <2>4. BirthInv'
    BY <2>1, CreatedBirth DEF BirthInv
  <2>5. Owned' = Owned
    BY <2>1 DEF Created, Owned, TypeOK
  <2>6. StopInv'
    BY <2>1, <2>5 DEF StopInv
  <2> QED BY <2>2, <2>3, <2>4, <2>6
<1> QED BY <1>1, <1>2, <1>3, <1>4 DEF ProcessNext

(* main(): launch line, engine and watch loop.                               *)
LEMMA MainStep ==
  ASSUME IInv,
         NeverLaunches \/ ReadLaunchLine \/ SpawnFails \/ SeeEngineExit \/ AskedToStop
           \/ \E p \in Pids : SpawnEngine(p)
  PROVE  IInv'
<1> USE DEF IInv, processes
<1>1. CASE NeverLaunches \/ ReadLaunchLine \/ SpawnFails \/ AskedToStop
  <2> USE <1>1 DEF NeverLaunches, ReadLaunchLine, SpawnFails, AskedToStop
  <2>1. TypeOK'
    BY DEF TypeOK, Steps
  <2>2. TreeInv'
    BY DEF TreeInv, Closed, Owned
  <2>3. BirthInv'
    BY DEF BirthInv, Dated
  <2>4. StopInv'
    BY DEF StopInv, Owned
  <2> QED BY <2>1, <2>2, <2>3, <2>4
<1>2. CASE SeeEngineExit
  <2> USE <1>2 DEF SeeEngineExit
  <2>1. engine[1] \in Pids
    BY DEF TypeOK, StopInv
  <2>2. TreeInv'
    BY <2>1, FreedTree
  <2>3. TypeOK'
    BY <2>1, FreedBirth DEF TypeOK, Freed, Steps
  <2>4. BirthInv'
    BY <2>1, FreedBirth DEF BirthInv, Freed, Dated, Noted
  <2>5. StopInv'
    BY <2>1, FreedBirth DEF StopInv
  <2> QED BY <2>2, <2>3, <2>4, <2>5
<1>3. ASSUME NEW p \in Pids, SpawnEngine(p) PROVE IInv'
  <2> USE <1>3 DEF SpawnEngine
  <2>1. clock' = clock + 1 /\ clock \in Nat /\ engine' = <<p, clock'>> /\ UNCHANGED killed
    BY DEF Created, TypeOK
  <2>2. TypeOK'
    BY SMTT(30), <2>1, CreatedBirth DEF TypeOK, Steps
  <2>3. TreeInv'
    BY CreatedTree
  <2>4. ASSUME NEW t \in Noted, t = engine' PROVE Dated(t)'
    <3>1. t[1] = p /\ t[2] = clock' /\ state'[p] = "run"
      BY <2>1, <2>4 DEF Created, TypeOK
    <3>2. t[2] <= clock'
      BY <2>1, <3>1
    <3> QED BY <3>1, <3>2 DEF Dated
  <2>5. BirthInv'
    BY <2>4, CreatedBirth DEF BirthInv
  <2>6. StopInv'
    BY DEF StopInv
  <2> QED BY <2>2, <2>3, <2>5, <2>6
<1> QED BY <1>1, <1>2, <1>3

(* When waitpid() finds no child, the tree is empty: what the guardian owns  *)
(* would hang below a child of its own.                                      *)
LEMMA NoChildrenNoTree ==
  ASSUME IInv, pc # "done", Children = {}
  PROVE  Owned = {}
<1>1. Closed({})
  BY DEF Closed, Children, Owned, IInv, TypeOK, TreeInv
<1> QED BY <1>1 DEF IInv, TreeInv

LEMMA StopStep ==
  ASSUME IInv, StopTree
  PROVE  IInv'
<1> USE DEF IInv, processes
<1>1. CASE Scan
  <2> USE <1>1 DEF Scan
  <2>1. PICK seen \in Readings : targets' = {<<p, birth[p]>> : p \in seen}
    OBVIOUS
  <2>2. \A p \in seen : p \in Pids /\ state[p] # "stranger" /\ birth[p] \in 0 .. MaxBirth
    BY <2>1, OwnedAreDescendants DEF NothingEscapes, Readings, Owned, TypeOK
  <2>3. TypeOK'
    BY <2>1, <2>2 DEF TypeOK, Steps
  <2>4. TreeInv'
    BY DEF TreeInv, Closed, Owned
  <2>5. ASSUME NEW t \in targets' PROVE Dated(t)'
    <3>1. PICK p \in seen : t = <<p, birth[p]>>
      BY <2>1, <2>5
    <3> QED BY <2>2, <3>1 DEF Dated, BirthInv
  <2>6. BirthInv'
    BY <2>5 DEF BirthInv, Dated
  <2>7. StopInv'
    BY DEF StopInv, Owned
  <2> QED BY <2>3, <2>4, <2>6, <2>7
<1>2. ASSUME NEW t \in targets, CompareBirth(t) PROVE IInv'
  <2> USE <1>2 DEF CompareBirth
  <2>1. t \in Noted /\ (checked' = t \/ checked' = <<>>)
    BY DEF TypeOK, Noted
  <2>2. TypeOK'
    BY <2>1 DEF TypeOK, Noted
  <2>3. TreeInv'
    BY DEF TreeInv, Closed, Owned
  <2>4. BirthInv'
    BY <2>1 DEF BirthInv, Dated, Noted
  <2>5. StopInv'
    BY DEF StopInv, Owned
  <2> QED BY <2>2, <2>3, <2>4, <2>5
<1>3. CASE SendSignal
  <2> USE <1>3 DEF SendSignal
  <2>1. checked[1] \in Pids
    BY DEF TypeOK
  <2>2. TypeOK'
    BY <2>1 DEF TypeOK
  <2>3. TreeInv' /\ StopInv'
    BY DEF TreeInv, StopInv, Closed, Owned
  <2>4. BirthInv'
    BY DEF BirthInv, Dated, Noted
  <2> QED BY <2>2, <2>3, <2>4
<1>4. ASSUME NEW p \in Pids, ReapChild(p) PROVE IInv'
  <2> USE <1>4 DEF ReapChild, guardianVars
  <2>1. TreeInv'
    BY FreedTree
  <2>2. TypeOK'
    BY FreedBirth DEF TypeOK, Freed
  <2>3. BirthInv'
    BY FreedBirth DEF BirthInv, Freed, Dated, Noted
  <2>4. StopInv'
    BY FreedBirth DEF StopInv
  <2> QED BY <2>1, <2>2, <2>3, <2>4
<1>5. CASE SignalsSent \/ ReapEnds \/ Verify \/ NextRound \/ DeadlinePasses
  <2> USE <1>5 DEF SignalsSent, ReapEnds, Verify, NextRound, DeadlinePasses
  <2>1. TypeOK'
    BY DEF TypeOK, Steps
  <2>2. TreeInv'
    BY DEF TreeInv, Closed, Owned
  <2>3. BirthInv'
    BY DEF BirthInv, Dated
  <2>4. Owned' = Owned
    BY DEF Owned
  <2>5. StopInv'
    <3>1. CASE Verify
      BY <2>4, <3>1 DEF StopInv
    <3>2. CASE ReapEnds
      BY <2>4, <3>2, NoChildrenNoTree DEF StopInv
    <3>3. CASE SignalsSent \/ NextRound \/ DeadlinePasses
      BY <2>4, <3>3 DEF StopInv
    <3> QED BY <3>1, <3>2, <3>3
  <2> QED BY <2>1, <2>2, <2>3, <2>5
<1>6. CASE WriteReceipt
  <2> USE <1>6 DEF WriteReceipt
  <2>1. Owned' = Owned
    BY DEF Owned
  <2>2. TypeOK'
    BY DEF TypeOK, Steps
  <2>3. TreeInv'
    BY DEF TreeInv, TypeOK, Owned
  <2>4. BirthInv'
    BY DEF BirthInv, Dated
  <2>5. StopInv'
    BY <2>1 DEF StopInv
  <2> QED BY <2>2, <2>3, <2>4, <2>5
<1> QED BY <1>1, <1>2, <1>3, <1>4, <1>5, <1>6 DEF StopTree

LEMMA Step == IInv /\ [Next]_vars => IInv'
<1> SUFFICES ASSUME IInv, [Next]_vars PROVE IInv'
  OBVIOUS
<1>1. CASE UNCHANGED vars
  <2> USE <1>1 DEF vars, processes, IInv
  <2>1. TypeOK' /\ StopInv'
    BY DEF TypeOK, StopInv, Owned
  <2>2. TreeInv'
    BY DEF TreeInv, Closed, Owned
  <2>3. BirthInv'
    BY DEF BirthInv, Dated
  <2> QED BY <2>1, <2>2, <2>3
<1> QED BY <1>1, ProcessStep, StopStep, MainStep DEF Next

(* The inductive invariant, and with it the types of the state.              *)
THEOREM Inductive == Spec => []IInv
BY InitInv, Step, PTL DEF Spec

THEOREM TypeCorrect == Spec => []TypeOK
BY Inductive, PTL DEF IInv

(* A receipt that says "stopped" is true for ever: no process the guardian   *)
(* owned is left, whatever forked, exited or was re-parented meanwhile.      *)
THEOREM TrueReceipt == Spec => []ReceiptIsTrue
<1>1. IInv => ReceiptIsTrue
  BY DEF IInv, StopInv, ReceiptIsTrue
<1> QED BY <1>1, Inductive, PTL

(* os.kill() is only called with a pid that a stranger has if the pid        *)
(* changed hands after the last comparison of its birth.                     *)
THEOREM SparesStrangers == Spec => []StrangersSpared
<1>1. IInv => StrangersSpared
  BY DEF IInv, TypeOK, BirthInv, Dated, Noted, StrangersSpared
<1> QED BY <1>1, Inductive, PTL

(* The subreaper loses no process: what the guardian owns is what            *)
(* descendants() finds, until the guardian exits.                            *)
THEOREM OwnedIsFound == Spec => []NothingEscapes
BY OwnedAreDescendants, Inductive, PTL

-----------------------------------------------------------------------------
(* Guardian implements the contract that DynamoService relies on.            *)
AnyRuns == \E p \in Pids : state[p] = "run"

(* Only SpawnEngine() makes the engine run, and no process appears in a tree *)
(* that has none.                                                            *)
LEMMA NothingRevives ==
  ASSUME IInv, ProcessNext
  PROVE  (EngineRuns' => EngineRuns) /\ (AnyRuns' => AnyRuns) /\ UNCHANGED <<pc, receipt, engine>>
<1> USE DEF IInv, EngineRuns, AnyRuns
<1>1. engine # <<>> => engine[1] \in Pids /\ engine[2] \in 0 .. MaxBirth /\ engine[2] <= clock
  BY DEF TypeOK, BirthInv, Dated, Noted
<1>2. ASSUME NEW p \in Pids, NEW by, NEW as, Created(p, by, as), UNCHANGED engine
      PROVE  EngineRuns' => EngineRuns
  <2>1. SUFFICES ASSUME engine # <<>>, state'[engine[1]] = "run", birth'[engine[1]] = engine[2]
                 PROVE  EngineRuns
    BY <1>2
  <2>2. engine[1] # p
    <3>1. birth'[p] = clock + 1 /\ clock \in 0 .. MaxBirth
      BY <1>2 DEF Created, TypeOK
    <3> QED BY <1>1, <2>1, <3>1
  <2> QED BY <1>1, <1>2, <2>1, <2>2 DEF Created, TypeOK
<1>3. ASSUME NEW p \in Pids, NEW q \in Pids, Fork(p, q)
      PROVE  (EngineRuns' => EngineRuns) /\ AnyRuns
  BY <1>2, <1>3 DEF Fork, guardianVars
<1>4. ASSUME NEW p \in Pids, Exit(p)
      PROVE  (EngineRuns' => EngineRuns) /\ AnyRuns
  BY <1>1, <1>4 DEF Exit, TypeOK, guardianVars
<1>5. ASSUME NEW p \in Pids, ReapedElsewhere(p) \/ StrangerExits(p)
      PROVE  (EngineRuns' => EngineRuns) /\ (AnyRuns' => AnyRuns)
  BY <1>1, <1>5 DEF ReapedElsewhere, StrangerExits, Freed, TypeOK, guardianVars
<1>6. ASSUME NEW p \in Pids, StrangerStarts(p)
      PROVE  (EngineRuns' => EngineRuns) /\ (AnyRuns' => AnyRuns)
  <2>1. AnyRuns' => AnyRuns
    BY <1>6 DEF StrangerStarts, Created, TypeOK
  <2> QED BY <1>2, <1>6, <2>1 DEF StrangerStarts, guardianVars
<1>7. UNCHANGED <<pc, receipt, engine>>
  BY DEF ProcessNext, Fork, Exit, ReapedElsewhere, StrangerStarts, StrangerExits, guardianVars
<1> QED BY <1>3, <1>4, <1>5, <1>6, <1>7 DEF ProcessNext

(* A child that is reaped was not running.                                   *)
LEMMA ReapingIsUnseen ==
  ASSUME IInv, NEW p \in Pids, state[p] = "zombie", Freed(p), UNCHANGED engine
  PROVE  (EngineRuns' <=> EngineRuns) /\ (AnyRuns' <=> AnyRuns)
<1>1. engine # <<>> => engine[1] \in Pids
  BY DEF IInv, TypeOK
<1> QED BY <1>1 DEF IInv, TypeOK, Freed, EngineRuns, AnyRuns

THEOREM Implements == Spec => ContractSpec
<1>1. Init => Contract!Init
  <2> SUFFICES ASSUME Init PROVE Contract!Init
    OBVIOUS
  <2>1. pc = "read" /\ engine = <<>> /\ receipt = "none"
    BY DEF Init
  <2> QED BY <2>1 DEF Contract!Init
<1>2. IInv /\ [Next]_vars => [Contract!Next]_(Contract!vars)
  <2> SUFFICES ASSUME IInv, [Next]_vars PROVE [Contract!Next]_(Contract!vars)
    OBVIOUS
  <2> USE DEF AnyRuns, Contract!Next, Contract!vars
  <2>1. CASE ProcessNext
    <3>1. (EngineRuns' => EngineRuns) /\ (AnyRuns' => AnyRuns) /\ UNCHANGED <<pc, receipt, engine>>
      BY <2>1, NothingRevives
    <3>2. EngineRuns => AnyRuns /\ engine # <<>>
      BY DEF EngineRuns, IInv, TypeOK
    <3> QED BY <3>1, <3>2 DEF Contract!EngineExits, Contract!TreeGone
  <2>2. ASSUME NEW p \in Pids, SpawnEngine(p) PROVE Contract!Next
    <3>1. engine' # <<>> /\ EngineRuns' /\ pc = "spawn" /\ pc' = "watch" /\ receipt' = receipt
      BY <2>2 DEF SpawnEngine, EngineRuns, Created, IInv, TypeOK
    <3> QED BY <3>1 DEF Contract!StartsEngine
  <2>3. CASE SeeEngineExit
    <3>1. engine[1] \in Pids
      BY <2>3 DEF SeeEngineExit, IInv, TypeOK, StopInv
    <3>2. /\ EngineRuns' <=> EngineRuns
          /\ AnyRuns' <=> AnyRuns
          /\ pc = "watch" /\ pc' = "scan" /\ UNCHANGED <<receipt, engine>>
      BY <2>3, <3>1, ReapingIsUnseen DEF SeeEngineExit
    <3> QED BY <3>2 DEF Contract!Stops
  <2>4. ASSUME NEW p \in Pids, ReapChild(p) PROVE UNCHANGED Contract!vars
    <3>1. /\ EngineRuns' <=> EngineRuns
          /\ AnyRuns' <=> AnyRuns
          /\ UNCHANGED <<pc, receipt, engine>>
      BY <2>4, ReapingIsUnseen DEF ReapChild, guardianVars
    <3> QED BY <3>1
  <2>5. ASSUME UNCHANGED <<state, birth, engine>>
        PROVE  (EngineRuns' <=> EngineRuns) /\ (AnyRuns' <=> AnyRuns)
    BY <2>5 DEF EngineRuns
  <2>6. CASE NeverLaunches
    BY <2>5, <2>6 DEF NeverLaunches, processes, Contract!NeverLaunched
  <2>7. CASE ReadLaunchLine
    BY <2>5, <2>7 DEF ReadLaunchLine, processes
  <2>8. CASE SpawnFails
    BY <2>5, <2>8 DEF SpawnFails, processes, Contract!StartsEngine
  <2>9. CASE AskedToStop
    BY <2>5, <2>9 DEF AskedToStop, processes, Contract!Stops
  <2>10. CASE Scan \/ SendSignal \/ SignalsSent \/ ReapEnds \/ Verify \/ NextRound
                \/ DeadlinePasses \/ \E t \in targets : CompareBirth(t)
    <3>1. /\ pc \in {"scan", "signal", "reap", "verify", "deadline"}
          /\ pc' \in {"scan", "signal", "reap", "verify", "deadline", "write"}
          /\ UNCHANGED <<receipt, state, birth, engine>>
      BY <2>10 DEF Scan, SendSignal, SignalsSent, ReapEnds, Verify, NextRound, DeadlinePasses,
         CompareBirth, processes
    <3> QED BY <2>5, <3>1
  <2>11. CASE WriteReceipt
    <3>1. /\ pc = "write" /\ pc' = "done" /\ receipt = "none"
          /\ UNCHANGED <<state, birth, engine>>
          /\ receipt' \in {"stopped", "unstopped", "none"}
          /\ receipt' = "stopped" => Owned = {}
      BY <2>11 DEF WriteReceipt, IInv, TypeOK, StopInv
    <3>2. Owned = {} => ~EngineRuns /\ ~AnyRuns
      BY DEF Owned, EngineRuns, IInv, TypeOK
    <3>3. CASE receipt' = "stopped"
      BY <2>5, <3>1, <3>2, <3>3 DEF Contract!Finishes
    <3>4. CASE receipt' # "stopped"
      BY <2>5, <3>1, <3>4 DEF Contract!GivesUp
    <3> QED BY <3>3, <3>4
  <2>12. CASE UNCHANGED vars
    BY <2>5, <2>12 DEF vars, processes
  <2> QED BY <2>1, <2>2, <2>3, <2>4, <2>6, <2>7, <2>8, <2>9, <2>10, <2>11, <2>12 DEF Next, StopTree
<1> QED BY <1>1, <1>2, Inductive, PTL DEF Spec, ContractSpec, Contract!Spec
=============================================================================
