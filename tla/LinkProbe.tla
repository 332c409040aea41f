------------------------------ MODULE LinkProbe ------------------------------
(* links.py: the probe of one direction of a batch.  The driver waits for a  *)
(* server actor on the destination, runs a client task on the source, and    *)
(* makes one record of both results.  The server accepts one latency and     *)
(* Streams throughput connections, one handler thread each; other            *)
(* connections may reach its port.  Directions of a batch share no node, so  *)
(* one is modelled alone.  A timeout is the right to give up at any step.    *)
EXTENDS Integers, FiniteSets

CONSTANTS Streams,   \* parameters.streams
          Strays     \* connections that are not the client's

ASSUME StreamsAssumption == Streams \in Nat \ {0}
ASSUME StraysAssumption == Strays \cap (0 .. Streams) = {}

Latency == 0
Session == 0 .. Streams         \* the client's connections; 1 .. Streams send
Conns   == Session \cup Strays

VARIABLES
  (* connections: the peer's end, the server's end, what a handler counted *)
  peer, handler, complete, counted,
  (* the server's _serve thread *)
  serve, listener, slots, accepted, fresh, errors,
  (* the client task *)
  client,
  (* the driver, its requests to Ray, and the server's process *)
  driver, task, asked, server, record

conns  == <<peer, handler, complete, counted>>
thread == <<serve, listener, slots, accepted, fresh>>
caller == <<driver, task, asked, server, record>>
vars   == <<conns, thread, errors, client, caller>>

TypeOK ==
  /\ peer \in [Conns -> {"none", "open", "shut"}]
  /\ handler \in [Conns -> {"none", "reading", "cut", "ok", "error"}]
  /\ complete \subseteq Session /\ counted \subseteq Session
  /\ serve \in {"accept", "accepted", "join", "stop", "last_join", "done"}
  /\ listener \in BOOLEAN /\ errors \in BOOLEAN
  /\ slots \in 0 .. Streams + 1
  /\ slots + Cardinality(accepted) = Streams + 1
  /\ accepted \subseteq Conns /\ fresh \subseteq accepted
  /\ client \in {"none", "latency", "streams", "sending", "ok", "failed", "cancelled"}
  /\ driver \in {"ready", "client", "result", "cancel", "kill", "ended", "raised"}
  /\ task \in {"none", "ok", "error", "silent"}
  /\ asked \subseteq {"cancel", "kill"}
  /\ server \in {"up", "killed"}
  /\ record \in {"none", "succeeded", "failed"}

Init ==
  /\ peer = [c \in Conns |-> "none"] /\ handler = [c \in Conns |-> "none"]
  /\ complete = {} /\ counted = {}
  /\ serve = "accept" /\ listener = TRUE /\ slots = Streams + 1
  /\ accepted = {} /\ fresh = {} /\ errors = FALSE
  /\ client = "none"
  /\ driver = "ready" /\ task = "none" /\ asked = {} /\ server = "up" /\ record = "none"

Up == server = "up"

-----------------------------------------------------------------------------
(* LinkProbeServer: the accepting thread.                                    *)

(* close(): the listener and the connections known so far are shut down,     *)
(* which ends a blocked recv of their handlers.                              *)
CloseServer ==
  /\ listener' = FALSE
  /\ handler' = [c \in Conns |->
       IF c \in accepted \ fresh /\ handler[c] = "reading" THEN "cut" ELSE handler[c]]

Accept(c) ==
  /\ Up /\ serve = "accept" /\ listener
  /\ peer[c] # "none" /\ c \notin accepted
  /\ accepted' = accepted \cup {c} /\ fresh' = {c}
  /\ slots' = slots - 1
  /\ serve' = "accepted"
  /\ UNCHANGED <<conns, listener, errors, client, caller>>

(* The connection is recorded, its handler started, and the listener's       *)
(* timeout renewed, which raises when close() ran since the accept.          *)
StartHandler ==
  /\ Up /\ serve = "accepted"
  /\ \E c \in fresh : handler' = [handler EXCEPT ![c] = "reading"]
  /\ fresh' = {}
  /\ errors' = (errors \/ ~listener)
  /\ serve' = IF ~listener THEN "stop" ELSE IF slots = 0 THEN "join" ELSE "accept"
  /\ UNCHANGED <<peer, complete, counted, listener, slots, accepted, client, caller>>

(* Nobody connected in time, or the listener was closed. *)
AcceptRaises ==
  /\ Up /\ serve = "accept"
  /\ errors' = TRUE
  /\ serve' = "stop"
  /\ UNCHANGED <<conns, listener, slots, accepted, fresh, client, caller>>

Alive(c) == handler[c] \in {"reading", "cut"}

JoinEnds ==
  /\ Up /\ serve = "join" /\ \A c \in accepted : ~Alive(c)
  /\ serve' = "stop"
  /\ UNCHANGED <<conns, listener, slots, accepted, fresh, errors, client, caller>>

(* Mutant: handlers that outlive the deadline are not reported. *)
JoinTimesOutSilently ==
  /\ Up /\ serve = "join" /\ \E c \in accepted : Alive(c)
  /\ serve' = "stop"
  /\ UNCHANGED <<conns, listener, slots, accepted, fresh, errors, client, caller>>

JoinTimesOut ==
  /\ Up /\ serve = "join" /\ \E c \in accepted : Alive(c)
  /\ errors' = TRUE
  /\ serve' = "stop"
  /\ UNCHANGED <<conns, listener, slots, accepted, fresh, client, caller>>

(* Mutant: the finally clause relies on an earlier close(). *)
StopOnlyOnce ==
  /\ Up /\ serve = "stop"
  /\ IF listener THEN CloseServer ELSE UNCHANGED <<listener, handler>>
  /\ serve' = "last_join"
  /\ UNCHANGED <<peer, complete, counted, slots, accepted, fresh, errors, client, caller>>

Stop ==
  /\ Up /\ serve = "stop"
  /\ CloseServer
  /\ serve' = "last_join"
  /\ UNCHANGED <<peer, complete, counted, slots, accepted, fresh, errors, client, caller>>

(* join(1) for each handler may end with the handler or with the second. *)
ServeDone ==
  /\ Up /\ serve = "last_join"
  /\ serve' = "done"
  /\ UNCHANGED <<conns, listener, slots, accepted, fresh, errors, client, caller>>

-----------------------------------------------------------------------------
(* LinkProbeServer: the handlers.                                            *)

HandlerEnds(c, how) ==
  /\ Up /\ Alive(c)
  /\ handler' = [handler EXCEPT ![c] = how]
  /\ errors' = (errors \/ how = "error")
  /\ UNCHANGED <<peer, complete, counted, thread, client, caller>>

(* An end of file ends an echo session without an error, whoever closed. *)
EchoEnds ==
  /\ peer[Latency] = "shut" \/ handler[Latency] = "cut"
  /\ HandlerEnds(Latency, "ok")

(* Bytes arrive inside the window, or after its end. *)
Counted(c) ==
  /\ Up /\ handler[c] = "reading" /\ c # Latency /\ client = "sending"
  /\ c \notin complete
  /\ counted' = counted \cup {c}
  /\ UNCHANGED <<peer, handler, complete, thread, errors, client, caller>>

WindowEnds(c) ==
  /\ Up /\ handler[c] = "reading" /\ c # Latency /\ client = "sending"
  /\ complete' = complete \cup {c}
  /\ UNCHANGED <<peer, handler, counted, thread, errors, client, caller>>

(* End of file: an error unless the window was over. *)
StreamEnds(c) ==
  /\ peer[c] = "shut" \/ handler[c] = "cut"
  /\ HandlerEnds(c, IF c \in complete THEN "ok" ELSE "error")

(* A timeout, a reset, or a header that is not one. *)
HandlerRaises(c) == HandlerEnds(c, "error")

-----------------------------------------------------------------------------
(* run_link_client().                                                        *)

Connected(c) == peer' = [peer EXCEPT ![c] = "open"]

ClientConnects ==
  /\ client = "latency" /\ peer[Latency] = "none" /\ Up /\ listener
  /\ Connected(Latency)
  /\ UNCHANGED <<handler, complete, counted, thread, errors, client, caller>>

(* Every echo came back: a handler answered. *)
LatencyMeasured ==
  /\ client = "latency" /\ handler[Latency] = "reading"
  /\ peer' = [peer EXCEPT ![Latency] = "shut"]
  /\ client' = "streams"
  /\ UNCHANGED <<handler, complete, counted, thread, errors, caller>>

StreamConnects(c) ==
  /\ client = "streams" /\ peer[c] = "none" /\ Up /\ listener
  /\ \A d \in 1 .. c - 1 : peer[d] = "open"
  /\ Connected(c)
  /\ client' = IF c = Streams THEN "sending" ELSE "streams"
  /\ UNCHANGED <<handler, complete, counted, thread, errors, caller>>

ClientLeaves(how) ==
  /\ client' = how
  /\ peer' = [c \in Conns |-> IF c \in Session /\ peer[c] = "open" THEN "shut" ELSE peer[c]]

SendingEnds ==
  /\ client = "sending"
  /\ ClientLeaves("ok")
  /\ UNCHANGED <<handler, complete, counted, thread, errors, caller>>

(* A refused or reset connection, a timeout, or a wrong echo. *)
ClientRaises ==
  /\ client \in {"latency", "streams", "sending"}
  /\ ClientLeaves("failed")
  /\ UNCHANGED <<handler, complete, counted, thread, errors, caller>>

StrayConnects(c) ==
  /\ Up /\ listener /\ peer[c] = "none"
  /\ Connected(c)
  /\ UNCHANGED <<handler, complete, counted, thread, errors, client, caller>>

-----------------------------------------------------------------------------
(* _measure_batch().                                                         *)

ServerReady ==
  /\ driver = "ready"
  /\ client' = "latency"
  /\ driver' = "client"
  /\ UNCHANGED <<conns, thread, errors, task, asked, server, record>>

(* ready() raised or did not answer: no client is started, none cancelled. *)
ServerNotReady ==
  /\ driver = "ready"
  /\ record' = "failed"
  /\ driver' = "kill"
  /\ UNCHANGED <<conns, thread, errors, client, task, asked, server>>

ClientAnswered ==
  /\ driver = "client" /\ client = "ok"
  /\ task' = "ok"
  /\ driver' = "result"
  /\ UNCHANGED <<conns, thread, errors, client, asked, server, record>>

(* The task returned an error, or nothing in time: the server is told to     *)
(* close.                                                                    *)
ClientFailed ==
  /\ driver = "client"
  /\ CloseServer
  /\ task' \in {"silent"} \cup {how \in {"error"} : client = "failed"}
  /\ driver' = "result"
  /\ UNCHANGED <<peer, complete, counted, serve, slots, accepted, fresh, errors, client,
                 asked, server, record>>

(* What result() returns after the session: a throughput, unless it met an   *)
(* error; one of 0 is no measurement.                                        *)
Throughput == ~errors /\ counted # {}

(* _measurement() combines it with the outcome of the task. *)
ServerAnswered ==
  /\ driver = "result" /\ serve = "done"
  /\ record' = IF task = "ok" /\ Throughput THEN "succeeded" ELSE "failed"
  /\ driver' = "cancel"
  /\ UNCHANGED <<conns, thread, errors, client, task, asked, server>>

(* result() gave up waiting, raised, or did not return in time. *)
ServerSilent ==
  /\ driver = "result"
  /\ record' = "failed"
  /\ driver' = "cancel"
  /\ UNCHANGED <<conns, thread, errors, client, task, asked, server>>

(* The finally clause: the client is cancelled and the server killed.  Both  *)
(* calls only ask Ray, and the driver goes on with the next batch.           *)
CancelClient ==
  /\ driver = "cancel"
  /\ asked' = asked \cup {"cancel"}
  /\ driver' = "kill"
  /\ UNCHANGED <<conns, thread, errors, client, task, server, record>>

(* Mutant: the server is killed only when there was a client. *)
KillWithClient ==
  /\ driver = "kill"
  /\ asked' = IF client = "none" THEN asked ELSE asked \cup {"kill"}
  /\ driver' = "ended"
  /\ UNCHANGED <<conns, thread, errors, client, task, server, record>>

KillServer ==
  /\ driver = "kill"
  /\ asked' = asked \cup {"kill"}
  /\ driver' = "ended"
  /\ UNCHANGED <<conns, thread, errors, client, task, server, record>>

(* One of the calls raised: those after it are skipped, and the records of   *)
(* the batch and of those before it are lost.                                *)
ReleaseRaises ==
  /\ driver \in {"cancel", "kill"}
  /\ driver' = "raised"
  /\ record' = "none"
  /\ UNCHANGED <<conns, thread, errors, client, task, asked, server>>

-----------------------------------------------------------------------------
(* Ray, after the driver asked: at some later moment the processes end.      *)

Running == client \in {"latency", "streams", "sending"}

ClientCancelled ==
  /\ "cancel" \in asked /\ Running
  /\ ClientLeaves("cancelled")
  /\ UNCHANGED <<handler, complete, counted, thread, errors, caller>>

ServerKilled ==
  /\ "kill" \in asked /\ Up
  /\ server' = "killed"
  /\ UNCHANGED <<conns, thread, errors, client, driver, task, asked, record>>

-----------------------------------------------------------------------------
ServeNext == \/ StartHandler \/ AcceptRaises \/ JoinEnds \/ JoinTimesOut \/ Stop \/ ServeDone
             \/ \E c \in Conns : Accept(c)

HandlerNext == \/ EchoEnds
               \/ \E c \in 1 .. Streams : Counted(c) \/ WindowEnds(c) \/ StreamEnds(c)
               \/ \E c \in Conns : HandlerRaises(c)

ClientNext == \/ ClientConnects \/ LatencyMeasured \/ SendingEnds \/ ClientRaises
              \/ \E c \in 1 .. Streams : StreamConnects(c)

DriverNext == \/ ServerReady \/ ServerNotReady \/ ClientAnswered \/ ClientFailed
              \/ ServerAnswered \/ ServerSilent
              \/ CancelClient \/ KillServer \/ ReleaseRaises

RayNext == ClientCancelled \/ ServerKilled

Next == \/ ServeNext \/ HandlerNext \/ ClientNext \/ DriverNext \/ RayNext
        \/ \E c \in Strays : StrayConnects(c)

Spec == Init /\ [][Next]_vars

(* The driver and the accepting thread run, their waits have deadlines, and  *)
(* Ray does what it was asked; handlers and the client may hang.             *)
FairSpec == Spec /\ WF_vars(DriverNext) /\ WF_vars(ServeNext) /\ WF_vars(RayNext)

-----------------------------------------------------------------------------
(* Properties.                                                               *)

(* A "succeeded" record is a whole session: the client finished, exactly its *)
(* own connections were served, every stream outlasted its window, and no    *)
(* handler's error came too late to be seen.                                 *)
SuccessIsWhole ==
  record = "succeeded" =>
    /\ client = "ok" /\ accepted = Session
    /\ \A c \in Session : handler[c] = "ok"
    /\ 1 .. Streams \subseteq complete

(* A session that is over holds no connection open, even one accepted while  *)
(* close() was called from outside.                                          *)
DoneClosesAll == serve = "done" => ~listener /\ \A c \in Conns : handler[c] # "reading"

(* The driver gets out of the batch whatever hangs, and when it has a record *)
(* nothing of the probe runs on for ever: a hanging client is stopped, and a *)
(* server, with or without a client.  A cleanup that raised promises less.   *)
ProbeEnds ==
  <>[](\/ driver = "raised"
       \/ driver = "ended" /\ record # "none" /\ server = "killed" /\ ~Running)
=============================================================================
