---------------------------- MODULE BridgeServer ----------------------------
(***************************************************************************)
(* The host's end of the socket an OCI plugin talks to                     *)
(* (internal/plugin/oci/bridge/bridge.go): the accept loop of Serve, one    *)
(* goroutine per connection, handlers registered under a lock that every    *)
(* dispatch holds for reading, and Stop.  The plugin's side is Client.Call. *)
(***************************************************************************)
EXTENDS Integers, FiniteSets

CONSTANTS
    Clients,    \* calls made by the plugin, each on a connection of its own
    Wanted      \* Wanted[c]: the method the call names

NoClient == "no client"

ASSUME ClientsAssumption == NoClient \notin Clients

VARIABLES
    serve,      \* Serve: new, accepting, adding, done
    taken,      \* the connection Accept has just returned
    listener,   \* none, open, closed
    stopped,    \* Server.stopped
    stop,       \* Stop: idle, locking, closing, waiting, done
    registrar,  \* HandleHook: idle, locking, done
    registered, \* methods with a handler
    conn,       \* per call: none, backlog, accepted, over
    sent,       \* the client wrote its request and closed its write side
    dead,       \* the client was killed
    handler,    \* per call: none, reading, waiting, running, answering, done
    counted,    \* the handlers the WaitGroup counts
    answer      \* what the client has got

bridgeVars == <<serve, taken, listener, stopped, stop, registrar, registered, conn,
               sent, dead, handler, counted, answer>>
serverVars == <<serve, taken, listener>>
lockVars   == <<stopped, stop, registrar, registered>>
clientVars == <<conn, sent, dead, answer>>

Methods == {Wanted[c] : c \in Clients}

(* sync.RWMutex: dispatch reads, Stop and HandleHook write.  A writer that
   waits keeps new readers out. *)
Readers       == {c \in Clients : handler[c] = "running"}
\* Mutant: Stop keeps the lock until the handlers have ended.
WriterStays   == stop \in {"locking", "closing", "waiting"} \/ registrar = "locking"
WriterWaiting == stop = "locking" \/ registrar = "locking"

BridgeInit ==
    /\ serve = "new" /\ taken = NoClient /\ listener = "none"
    /\ stopped = FALSE /\ stop = "idle"
    /\ registrar = "idle" /\ registered = {}
    /\ conn = [c \in Clients |-> "none"]
    /\ sent = [c \in Clients |-> FALSE]
    /\ dead = [c \in Clients |-> FALSE]
    /\ handler = [c \in Clients |-> "none"]
    /\ counted = {}
    /\ answer = [c \in Clients |-> "none"]

-----------------------------------------------------------------------------
(* Serve, which calls Listen when nobody has. *)
Listen ==
    /\ serve = "new"
    /\ listener' = "open"
    /\ serve' = "accepting"
    /\ UNCHANGED <<taken, lockVars, clientVars, handler, counted>>

Accept(c) ==
    /\ serve = "accepting"
    /\ listener = "open"
    /\ conn[c] = "backlog"
    /\ conn' = [conn EXCEPT ![c] = "accepted"]
    /\ taken' = c
    /\ serve' = "adding"
    /\ UNCHANGED <<listener, lockVars, sent, dead, answer, handler, counted>>

(* wg.Add(1) and the goroutine, some time after Accept returned. *)
Spawn ==
    /\ serve = "adding"
    /\ handler' = [handler EXCEPT ![taken] = "reading"]
    /\ counted' = counted \cup {taken}
    /\ taken' = NoClient
    /\ serve' = "accepting"
    /\ UNCHANGED <<listener, lockVars, clientVars>>

(* Accept fails once the listener is closed; Serve asks `stopped' under the
   lock and returns nil either way. *)
AcceptFails ==
    /\ serve = "accepting"
    /\ listener = "closed"
    /\ ~WriterWaiting
    /\ serve' = "done"
    /\ UNCHANGED <<taken, listener, lockVars, clientVars, handler, counted>>

-----------------------------------------------------------------------------
(* Stop: the flag under the write lock ... *)
StopAsked ==
    /\ stop = "idle"
    /\ stop' = "locking"
    /\ UNCHANGED <<serverVars, stopped, registrar, registered, clientVars,
                   handler, counted>>

StopFlags ==
    /\ stop = "locking"
    /\ Readers = {}
    /\ stopped' = TRUE
    /\ stop' = "closing"
    /\ UNCHANGED <<serverVars, registrar, registered, clientVars, handler, counted>>

(* ... the listener, when it exists by now (connections nobody accepted are
   dropped with it) ... *)
StopCloses ==
    /\ stop = "closing"
    /\ stop' = "waiting"
    /\ IF listener = "open"
       THEN /\ listener' = "closed"
            /\ conn' = [c \in Clients |->
                           IF conn[c] = "backlog" THEN "over" ELSE conn[c]]
            /\ answer' = [c \in Clients |->
                           IF conn[c] = "backlog" THEN "error" ELSE answer[c]]
       ELSE UNCHANGED <<listener, conn, answer>>
    /\ UNCHANGED <<serve, taken, stopped, registrar, registered, sent, dead,
                   handler, counted>>

\* Mutant: Stop does not wait for the handlers.
StopReturnsAtOnce ==
    /\ stop = "waiting"
    /\ stop' = "done"
    /\ UNCHANGED <<serverVars, stopped, registrar, registered, clientVars,
                   handler, counted>>

(* ... and wg.Wait. *)
StopReturns ==
    /\ stop = "waiting"
    /\ counted = {}
    /\ stop' = "done"
    /\ UNCHANGED <<serverVars, stopped, registrar, registered, clientVars,
                   handler, counted>>

(* HandleHook and its siblings, from another goroutine of the host. *)
RegisterAsked ==
    /\ registrar = "idle"
    /\ registrar' = "locking"
    /\ UNCHANGED <<serverVars, stopped, stop, registered, clientVars, handler, counted>>

Registers(m) ==
    /\ registrar = "locking"
    /\ Readers = {}
    /\ registrar' = "done"
    /\ registered' = registered \cup {m}
    /\ UNCHANGED <<serverVars, stopped, stop, clientVars, handler, counted>>

-----------------------------------------------------------------------------
(* Client.Call: dial, write, close the write side, read until the end. *)
Dial(c) ==
    /\ conn[c] = "none"
    /\ ~dead[c]
    /\ IF listener = "open"
       THEN conn' = [conn EXCEPT ![c] = "backlog"] /\ UNCHANGED answer
       ELSE /\ conn' = [conn EXCEPT ![c] = "over"]
            /\ answer' = [answer EXCEPT ![c] = "error"]
    /\ UNCHANGED <<serverVars, lockVars, sent, dead, handler, counted>>

Send(c) ==
    /\ conn[c] \in {"backlog", "accepted"}
    /\ ~sent[c] /\ ~dead[c]
    /\ sent' = [sent EXCEPT ![c] = TRUE]
    /\ UNCHANGED <<serverVars, lockVars, conn, dead, answer, handler, counted>>

(* The container is killed; its end of the connection closes. *)
Die(c) ==
    /\ ~dead[c]
    /\ conn[c] \in {"backlog", "accepted"}
    /\ dead' = [dead EXCEPT ![c] = TRUE]
    /\ UNCHANGED <<serverVars, lockVars, conn, sent, answer, handler, counted>>

-----------------------------------------------------------------------------
(* handle: io.ReadAll returns when the client's write side is closed.  What a
   client that died had not finished writing is malformed. *)
Read(c) ==
    /\ handler[c] = "reading"
    /\ sent[c] \/ dead[c]
    /\ handler' = [handler EXCEPT ![c] = IF sent[c] THEN "waiting" ELSE "failing"]
    /\ UNCHANGED <<serverVars, lockVars, clientVars, counted>>

(* dispatch takes the read lock for the whole of the handler. *)
Dispatch(c) ==
    /\ handler[c] = "waiting"
    /\ ~WriterWaiting
    /\ handler' = [handler EXCEPT ![c] =
                      IF Wanted[c] \in registered THEN "running" ELSE "failing"]
    /\ UNCHANGED <<serverVars, lockVars, clientVars, counted>>

(* The registered handler returns, with or without an error. *)
HandlerReturns(c) ==
    /\ handler[c] = "running"
    /\ \E out \in {"answering", "failing"} : handler' = [handler EXCEPT ![c] = out]
    /\ UNCHANGED <<serverVars, lockVars, clientVars, counted>>

(* The response or writeErr, conn.Close, wg.Done. *)
Respond(c) ==
    /\ handler[c] \in {"answering", "failing"}
    /\ handler' = [handler EXCEPT ![c] = "done"]
    /\ counted' = counted \ {c}
    /\ conn' = [conn EXCEPT ![c] = "over"]
    /\ answer' = [answer EXCEPT ![c] =
                     IF dead[c] THEN "none"
                     ELSE IF handler[c] = "answering" THEN "ok" ELSE "error"]
    /\ UNCHANGED <<serverVars, lockVars, sent, dead>>

-----------------------------------------------------------------------------
ServeStep    == Listen \/ (\E c \in Clients : Accept(c)) \/ Spawn \/ AcceptFails
StopStep     == StopFlags \/ StopCloses \/ StopReturns
Handle(c)    == Read(c) \/ Dispatch(c) \/ HandlerReturns(c) \/ Respond(c)
RegisterStep == \E m \in Methods : Registers(m)

BridgeNext ==
    \/ ServeStep \/ StopAsked \/ StopStep \/ RegisterAsked \/ RegisterStep
    \/ \E c \in Clients : Dial(c) \/ Send(c) \/ Die(c) \/ Handle(c)

(* Goroutines run; a client that has dialled writes its request (or dies);
   registered handlers return.  Nobody has to dial, to register or to stop. *)
Fairness ==
    /\ WF_bridgeVars(ServeStep)
    /\ WF_bridgeVars(StopStep)
    /\ WF_bridgeVars(RegisterStep)
    /\ \A c \in Clients : WF_bridgeVars(Send(c)) /\ WF_bridgeVars(Handle(c))

BridgeSpec == BridgeInit /\ [][BridgeNext]_bridgeVars /\ Fairness

-----------------------------------------------------------------------------
(* Every variable has its type, and the WaitGroup counts exactly the
   connections whose goroutine has not ended. *)
BridgeTypeOK ==
    /\ serve \in {"new", "accepting", "adding", "done"}
    /\ taken \in Clients \cup {NoClient}
    /\ listener \in {"none", "open", "closed"}
    /\ stopped \in BOOLEAN
    /\ stop \in {"idle", "locking", "closing", "waiting", "done"}
    /\ registrar \in {"idle", "locking", "done"}
    /\ registered \subseteq Methods
    /\ conn \in [Clients -> {"none", "backlog", "accepted", "over"}]
    /\ sent \in [Clients -> BOOLEAN]
    /\ dead \in [Clients -> BOOLEAN]
    /\ handler \in [Clients -> {"none", "reading", "waiting", "running",
                                "answering", "failing", "done"}]
    /\ answer \in [Clients -> {"none", "ok", "error"}]
    /\ counted = {c \in Clients : handler[c] \notin {"none", "done"}}

InFlight == {c \in Clients : conn[c] = "accepted"}

(* Stop is said to wait for the handlers in flight.  A connection that Accept
   returned just before the listener was closed can be counted only after
   wg.Wait has seen zero; there is one accept loop, so once Stop has returned
   (and the listener was closed) at most that one connection is served still. *)
StopLeavesAtMostOne ==
    stop = "done" /\ listener = "closed" => Cardinality(InFlight) <= 1

(* Nobody waits for ever: a call that was begun ends with an answer or an
   error unless its client died, a Stop returns, and if it closed a listener
   Serve returns as well. *)
EveryoneReturns ==
    /\ \A c \in Clients : conn[c] = "backlog" ~> conn[c] = "over"
    /\ stop = "locking" ~> stop = "done"
    /\ listener = "closed" ~> serve = "done"
=============================================================================
