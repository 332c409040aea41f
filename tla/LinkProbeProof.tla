--------------------------- MODULE LinkProbeProof ---------------------------
(* Theorems of LinkProbe for every number of streams and any strays.         *)
EXTENDS LinkProbe, FiniteSetTheorems, TLAPS

(* A connection has a handler once it is accepted and recorded; only a       *)
(* connection of the session ends well, a stream only after its window; and  *)
(* the error of a handler is one of the server.                              *)
HandlerInv ==
  /\ IsFiniteSet(accepted)
  /\ \A c \in Conns :
       /\ handler[c] # "none" <=> c \in accepted \ fresh
       /\ handler[c] = "ok" => c \in Session /\ (c # Latency => c \in complete)
       /\ handler[c] = "error" => errors

(* Where the accepting thread is, and what it has seen when it went on       *)
(* without an error: as many handlers as a session has, all ended well.      *)
ServeInv ==
  /\ fresh # {} => serve = "accepted"
  /\ \A c, d \in fresh : c = d
  /\ serve = "accept" => slots > 0
  /\ serve = "join" => slots = 0
  /\ serve \in {"stop", "last_join", "done"} /\ ~errors =>
       slots = 0 /\ \A c \in accepted : handler[c] = "ok"
  /\ serve \in {"last_join", "done"} =>
       ~listener /\ \A c \in Conns : handler[c] # "reading"

(* The driver's view of the client's task, and what a good record rests on.  *)
DriverInv ==
  /\ driver = "ready" => client = "none"
  /\ task # "none" => driver \notin {"ready", "client"}
  /\ asked # {} => driver \notin {"ready", "client", "result"}
  /\ task = "ok" => client = "ok"
  /\ record = "succeeded" => task = "ok" /\ serve = "done" /\ ~errors

IInv == TypeOK /\ HandlerInv /\ ServeInv /\ DriverInv

-----------------------------------------------------------------------------
USE DEF vars, conns, thread, caller, Up, Alive, Session, Conns, Latency

LEMMA InitInv == Init => IInv
<1> USE StreamsAssumption, FS_EmptySet DEF Init
<1> SUFFICES ASSUME Init PROVE IInv
  OBVIOUS
<1>1. TypeOK
  <2>1. slots + Cardinality(accepted) = Streams + 1 /\ slots \in 0 .. Streams + 1
    OBVIOUS
  <2> QED BY <2>1 DEF TypeOK
<1>2. HandlerInv /\ ServeInv /\ DriverInv
  BY DEF HandlerInv, ServeInv, DriverInv
<1> QED BY <1>1, <1>2 DEF IInv

(* close() leaves no handler that it knows reading, and ends none.           *)
LEMMA CloseServerCuts ==
  ASSUME TypeOK, HandlerInv, CloseServer
  PROVE  /\ handler' \in [Conns -> {"none", "reading", "cut", "ok", "error"}]
         /\ \A c \in Conns : /\ handler'[c] # handler[c] => handler[c] = "reading" /\ handler'[c] = "cut"
                             /\ handler'[c] = "reading" => c \in fresh
BY DEF CloseServer, TypeOK, HandlerInv

(* A handler that is alive ends.                                             *)
LEMMA HandlerEndsInv ==
  ASSUME IInv, NEW c \in Conns, NEW how \in {"ok", "error"}, HandlerEnds(c, how),
         how = "ok" => c \in Session /\ (c # Latency => c \in complete)
  PROVE  IInv'
<1> USE DEF HandlerEnds, IInv, TypeOK
<1>1. TypeOK'
  OBVIOUS
<1>2. HandlerInv'
  BY DEF HandlerInv
<1>3. ServeInv'
  BY DEF ServeInv, HandlerInv
<1>4. DriverInv'
  BY DEF DriverInv, ServeInv, HandlerInv
<1> QED BY <1>1, <1>2, <1>3, <1>4

LEMMA ServeStep ==
  ASSUME IInv, ServeNext
  PROVE  IInv'
<1> USE StreamsAssumption DEF IInv, TypeOK
<1>1. ASSUME NEW c \in Conns, Accept(c) PROVE IInv'
  <2> USE <1>1 DEF Accept
  <2>1. /\ IsFiniteSet(accepted')
        /\ Cardinality(accepted') = Cardinality(accepted) + 1
    BY FS_AddElement DEF HandlerInv
  <2>2. Cardinality(accepted) \in Nat
    BY FS_CardinalityType DEF HandlerInv
  <2>3. TypeOK'
    BY <2>1, <2>2 DEF ServeInv
  <2>4. HandlerInv'
    BY <2>1 DEF HandlerInv, ServeInv
  <2>5. ServeInv' /\ DriverInv'
    BY DEF ServeInv, DriverInv
  <2> QED BY <2>3, <2>4, <2>5
<1>2. CASE StartHandler
  <2> USE <1>2 DEF StartHandler
  <2>1. PICK c \in fresh : handler' = [handler EXCEPT ![c] = "reading"]
    OBVIOUS
  <2>2. TypeOK'
    BY <2>1
  <2>3. fresh = {c}
    BY ZenonT(60), <2>1 DEF ServeInv
  <2>4. HandlerInv'
    BY <2>1, <2>3 DEF HandlerInv
  <2>5. ServeInv'
    <3>1. CASE listener
      BY <3>1 DEF ServeInv
    <3>2. CASE ~listener
      BY <3>2 DEF ServeInv
    <3> QED BY <3>1, <3>2
  <2>6. DriverInv'
    BY DEF ServeInv, DriverInv
  <2> QED BY <2>2, <2>4, <2>5, <2>6
<1>3. CASE AcceptRaises
  BY <1>3 DEF AcceptRaises, HandlerInv, ServeInv, DriverInv
<1>4. CASE JoinEnds
  BY <1>4 DEF JoinEnds, HandlerInv, ServeInv, DriverInv
<1>5. CASE JoinTimesOut
  BY <1>5 DEF JoinTimesOut, HandlerInv, ServeInv, DriverInv
<1>6. CASE Stop
  <2> USE <1>6 DEF Stop
  <2>1. fresh = {} /\ fresh' = {} /\ listener' = FALSE
    BY DEF ServeInv, CloseServer
  <2>2. TypeOK'
    <3>1. handler' \in [Conns -> {"none", "reading", "cut", "ok", "error"}]
      BY CloseServerCuts
    <3>2. serve' = "last_join" /\ UNCHANGED <<peer, complete, counted, slots, accepted, fresh, errors,
                                             client, driver, task, asked, server, record>>
      BY DEF caller
    <3> QED BY ZenonT(60), <2>1, <3>1, <3>2
  <2>3. HandlerInv'
    BY CloseServerCuts DEF HandlerInv
  <2>4. ServeInv' /\ DriverInv'
    BY CloseServerCuts, <2>1 DEF ServeInv, DriverInv
  <2> QED BY <2>2, <2>3, <2>4
<1>7. CASE ServeDone
  BY <1>7 DEF ServeDone, HandlerInv, ServeInv, DriverInv
<1> QED BY <1>1, <1>2, <1>3, <1>4, <1>5, <1>6, <1>7 DEF ServeNext

LEMMA HandlerStep ==
  ASSUME IInv, HandlerNext
  PROVE  IInv'
<1> USE StreamsAssumption
<1>1. CASE EchoEnds
  BY <1>1, HandlerEndsInv DEF EchoEnds
<1>2. ASSUME NEW c \in 1 .. Streams, Counted(c) PROVE IInv'
  BY <1>2 DEF Counted, IInv, TypeOK, HandlerInv, ServeInv, DriverInv
<1>3. ASSUME NEW c \in 1 .. Streams, WindowEnds(c) PROVE IInv'
  BY <1>3 DEF WindowEnds, IInv, TypeOK, HandlerInv, ServeInv, DriverInv
<1>4. ASSUME NEW c \in 1 .. Streams, StreamEnds(c) PROVE IInv'
  BY <1>4, HandlerEndsInv DEF StreamEnds
<1>5. ASSUME NEW c \in Conns, HandlerRaises(c) PROVE IInv'
  BY <1>5, HandlerEndsInv DEF HandlerRaises
<1> QED BY <1>1, <1>2, <1>3, <1>4, <1>5 DEF HandlerNext

LEMMA ClientStep ==
  ASSUME IInv, ClientNext \/ \E c \in Strays : StrayConnects(c)
  PROVE  IInv'
<1> USE StreamsAssumption DEF IInv, TypeOK, HandlerInv, ServeInv, DriverInv, Connected
<1>1. CASE ClientConnects
  BY <1>1 DEF ClientConnects
<1>2. CASE LatencyMeasured
  BY <1>2 DEF LatencyMeasured
<1>3. CASE SendingEnds
  BY <1>3 DEF SendingEnds, ClientLeaves
<1>4. CASE ClientRaises
  BY <1>4 DEF ClientRaises, ClientLeaves
<1>5. ASSUME NEW c \in 1 .. Streams, StreamConnects(c) PROVE IInv'
  BY <1>5 DEF StreamConnects
<1>6. ASSUME NEW c \in Strays, StrayConnects(c) PROVE IInv'
  BY <1>6 DEF StrayConnects
<1> QED BY <1>1, <1>2, <1>3, <1>4, <1>5, <1>6 DEF ClientNext

LEMMA DriverStep ==
  ASSUME IInv, DriverNext
  PROVE  IInv'
<1> USE StreamsAssumption DEF IInv, TypeOK
<1>1. CASE ServerReady
  BY <1>1 DEF ServerReady, HandlerInv, ServeInv, DriverInv
<1>2. CASE ServerNotReady
  BY <1>2 DEF ServerNotReady, HandlerInv, ServeInv, DriverInv
<1>3. CASE ClientAnswered
  BY <1>3 DEF ClientAnswered, HandlerInv, ServeInv, DriverInv
<1>4. CASE ClientFailed
  <2> USE <1>4 DEF ClientFailed
  <2>1. listener' = FALSE
    BY DEF CloseServer
  <2>2. TypeOK'
    <3>1. handler' \in [Conns -> {"none", "reading", "cut", "ok", "error"}]
      BY CloseServerCuts
    <3>2. task' \in {"error", "silent"} /\ driver' = "result"
          /\ UNCHANGED <<peer, complete, counted, serve, slots, accepted, fresh, errors, client,
                         asked, server, record>>
      OBVIOUS
    <3> QED BY <2>1, <3>1, <3>2
  <2>3. HandlerInv'
    BY CloseServerCuts DEF HandlerInv
  <2>4. ServeInv' /\ DriverInv'
    BY CloseServerCuts, <2>1 DEF ServeInv, DriverInv
  <2> QED BY <2>2, <2>3, <2>4
<1>5. CASE ServerAnswered
  BY <1>5 DEF ServerAnswered, Throughput, HandlerInv, ServeInv, DriverInv
<1>6. CASE ServerSilent
  BY <1>6 DEF ServerSilent, HandlerInv, ServeInv, DriverInv
<1>7. CASE CancelClient
  BY <1>7 DEF CancelClient, HandlerInv, ServeInv, DriverInv
<1>8. CASE KillServer
  BY <1>8 DEF KillServer, HandlerInv, ServeInv, DriverInv
<1>9. CASE ReleaseRaises
  BY <1>9 DEF ReleaseRaises, HandlerInv, ServeInv, DriverInv
<1> QED BY <1>1, <1>2, <1>3, <1>4, <1>5, <1>6, <1>7, <1>8, <1>9
   DEF DriverNext

(* A client cancelled late had not finished, so its record is no success.    *)
LEMMA RayStep ==
  ASSUME IInv, RayNext
  PROVE  IInv'
<1> USE DEF IInv, TypeOK
<1>1. CASE ClientCancelled
  <2> USE <1>1 DEF ClientCancelled, ClientLeaves, Running
  <2>1. client' = "cancelled" /\ peer' \in [Conns -> {"none", "open", "shut"}]
    OBVIOUS
  <2>2. TypeOK'
    BY <2>1
  <2>3. HandlerInv'
    BY DEF HandlerInv
  <2>4. ServeInv'
    BY DEF ServeInv
  <2>5. driver # "ready" /\ task # "ok" /\ record # "succeeded"
    BY DEF DriverInv
  <2>6. DriverInv'
    BY <2>1, <2>5 DEF DriverInv
  <2> QED BY <2>2, <2>3, <2>4, <2>6
<1>2. CASE ServerKilled
  BY <1>2 DEF ServerKilled, HandlerInv, ServeInv, DriverInv
<1> QED BY <1>1, <1>2 DEF RayNext

(* The inductive invariant.                                                  *)
THEOREM Inductive == Spec => []IInv
<1>1. IInv /\ [Next]_vars => IInv'
  <2> SUFFICES ASSUME IInv, [Next]_vars PROVE IInv'
    OBVIOUS
  <2>1. CASE UNCHANGED vars
    BY <2>1 DEF IInv, TypeOK, HandlerInv, ServeInv, DriverInv
  <2> QED BY <2>1, ServeStep, HandlerStep, ClientStep, DriverStep, RayStep DEF Next
<1> QED BY <1>1, InitInv, PTL DEF Spec

(* A record says "succeeded" only of a whole session of this client, whoever *)
(* else connected and whichever deadlines passed.                            *)
THEOREM WholeSession == Spec => []SuccessIsWhole
<1>1. IInv => SuccessIsWhole
  <2> SUFFICES ASSUME IInv, record = "succeeded"
               PROVE  /\ client = "ok" /\ accepted = Session
                      /\ \A c \in Session : handler[c] = "ok"
                      /\ 1 .. Streams \subseteq complete
    BY DEF SuccessIsWhole
  <2>1. client = "ok" /\ slots = 0 /\ \A c \in accepted : handler[c] = "ok"
    BY DEF IInv, DriverInv, ServeInv
  <2>2. accepted \subseteq Session
    BY <2>1 DEF IInv, HandlerInv, TypeOK
  <2>3. Cardinality(accepted) = Cardinality(Session) /\ IsFiniteSet(Session)
    <3>1. IsFiniteSet(Session) /\ Cardinality(Session) = Streams + 1
      BY FS_Interval, StreamsAssumption
    <3>2. Cardinality(accepted) \in Nat
      BY FS_CardinalityType DEF IInv, HandlerInv
    <3> QED BY <2>1, <3>1, <3>2, StreamsAssumption DEF IInv, TypeOK
  <2>4. accepted = Session
    BY <2>2, <2>3, FS_Subset
  <2>5. 1 .. Streams \subseteq complete
    BY <2>1, <2>4, StreamsAssumption DEF IInv, HandlerInv
  <2> QED BY <2>1, <2>4, <2>5
<1> QED BY <1>1, Inductive, PTL

(* When the session is over, the port is closed and no handler waits in      *)
(* recv, also one whose connection was accepted while close() ran.           *)
THEOREM ClosedDown == Spec => []DoneClosesAll
<1>1. IInv => DoneClosesAll
  BY DEF IInv, ServeInv, DoneClosesAll
<1> QED BY <1>1, Inductive, PTL
=============================================================================
