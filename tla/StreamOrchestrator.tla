-------------------------- MODULE StreamOrchestrator --------------------------
(***************************************************************************)
(* brokers/common/stream_orchestrator.py over the streams of               *)
(* brokers/common/adapters/market_data_gateway_adapter.py: consumers       *)
(* subscribe to stream sessions, which the orchestrator opens, shares,     *)
(* watches, reconnects, hands over to another broker and closes.           *)
(*                                                                         *)
(* Everything runs on one asyncio event loop: a step of the model is what  *)
(* runs between two awaits.  subscribe and unsubscribe hold the lock over  *)
(* their awaits; stop and the monitors (_reconnect_loop) do not.  The      *)
(* adapter guards its set of active handles with a threading.Lock, which   *)
(* it holds over an await while it takes the feed of the broker down: a    *)
(* task that asks for it meanwhile blocks the loop, and the holder with    *)
(* it, for ever.                                                           *)
(***************************************************************************)
EXTENDS Integers, FiniteSets

CONSTANTS
    Client,         \* tasks that subscribe and unsubscribe, one subscription each
    Patient,        \* those whose request has allow_failover = False
    Stopper,        \* the task that calls stop()
    Free,           \* the owner of a lock while nobody holds it
    None,           \* no session, no handle, no request
    Session,        \* ids of sessions; one that is gone is used again
    Broker,
    Instrument,
    Requested,      \* what they may ask for: triples of a client, a broker, instruments
    MaxAttempts     \* _MAX_RECONNECT_ATTEMPTS

ASSUME StreamConfig ==
    /\ Patient \subseteq Client
    /\ Stopper \notin Client /\ Free \notin Client \cup {Stopper}
    /\ None \notin Session \cup Broker
    /\ Requested \subseteq Client \X Broker \X ((SUBSET Instrument) \ {{}})
    /\ MaxAttempts \in Nat \ {0}

Task == Client \cup {Stopper}
Request == [broker : Broker, instruments : (SUBSET Instrument) \ {{}}]
Handle == [broker : Broker, up : BOOLEAN]
State == [broker : Broker, connected : BOOLEAN, failover : BOOLEAN,
          generation : 0..MaxAttempts, instruments : (SUBSET Instrument) \ {{}}]

ASSUME NoneIsNoRecord == None \notin Request /\ None \notin Handle /\ None \notin State

VARIABLES
    running,    \* _running: start() has been called, stop() has not
    lock,       \* the holder of _lock
    pc,         \* where each task stands
    at,         \* the session it works on, later the broker whose stream it ends
    request,    \* the broker selected for each client and the instruments it wants
    sub,        \* the session of each client's subscription
    session,    \* _sessions: a State each
    handle,     \* _handles
    streamed,   \* the instruments each session has a stream for
    failed,     \* those it noted down, but whose stream was refused
    monitor,    \* where the _reconnect_loop of each session stands
    target,     \* the broker it asks for a stream
    stray,      \* brokers with an active handle that nobody will disconnect
    held,       \* the holder of the _handle_lock of each broker's adapter
    frozen,     \* the loop waits for such a lock
    todo        \* the sessions stop() has yet to disconnect

tasks == <<lock, pc, at>>
sessions == <<session, handle, streamed, failed>>
monitors == <<monitor, target>>
adapters == <<stray, held, frozen>>
vars == <<running, tasks, request, sub, sessions, monitors, adapters, todo>>

Init ==
    /\ running = TRUE
    /\ lock = Free
    /\ pc = [t \in Task |-> "idle"]
    /\ at = [t \in Task |-> None]
    /\ request = [c \in Client |-> None]
    /\ sub = [c \in Client |-> None]
    /\ session = [s \in Session |-> None]
    /\ handle = [s \in Session |-> None]
    /\ streamed = [s \in Session |-> {}]
    /\ failed = [s \in Session |-> {}]
    /\ monitor = [s \in Session |-> "none"]
    /\ target = [s \in Session |-> None]
    /\ stray = {}
    /\ held = [b \in Broker |-> Free]
    /\ frozen = FALSE
    /\ todo = {}

Sessions == {s \in Session : session[s] # None}
Consumers(s) == {c \in Client : sub[c] = s}

\* The loop gets to run task t, or the monitor of s, which stands at l.
At(t, l) == ~frozen /\ pc[t] = l
On(s, l) == ~frozen /\ monitor[s] = l

Goto(t, l) == pc' = [pc EXCEPT ![t] = l]

\* The call of a client ends, the lock is given back.
Return(c) == Goto(c, "idle") /\ lock' = Free /\ at' = [at EXCEPT ![c] = None]

\* It ends without a subscription.
Forget(c) == request' = [request EXCEPT ![c] = None]

-----------------------------------------------------------------------------
(* subscribe *)

\* The client asks for something.  Any broker may be selected for it before the
\* lock is had: the choice is made here.
Asks(c) ==
    /\ At(c, "idle") /\ sub[c] = None /\ lock = Free
    /\ \E r \in Requested :
          /\ r[1] = c
          /\ request' = [request EXCEPT ![c] = [broker |-> r[2], instruments |-> r[3]]]

\* _find_reusable_session: the session is the broker's and healthy, that is
\* connected, acknowledged and fresh.  It is fresh from one tick to the next
\* silence: a connected session may be healthy or not at any time.
Reusable(c, s) == session[s].connected /\ session[s].broker = request'[c].broker

\* The session already has the instruments: register.
Join(c) ==
    /\ Asks(c)
    /\ \E s \in Sessions :
          /\ Reusable(c, s)
          /\ request'[c].instruments \subseteq session[s].instruments
          /\ sub' = [sub EXCEPT ![c] = s]
    /\ UNCHANGED <<running, tasks, sessions, monitors, adapters, todo>>

\* Mutation: the lock is not taken over the merge.
MergeUnlocked(c) ==
    /\ Asks(c)
    /\ \E s \in Sessions :
          /\ Reusable(c, s)
          /\ ~(request'[c].instruments \subseteq session[s].instruments)
          /\ session' = [session EXCEPT ![s].instruments = @ \cup request'[c].instruments]
          /\ at' = [at EXCEPT ![c] = s]
    /\ Goto(c, "merge")
    /\ UNCHANGED <<running, lock, sub, handle, streamed, failed, monitors, adapters, todo>>

\* It lacks some: add them to the session and ask its broker to stream them.
Merge(c) ==
    /\ Asks(c)
    /\ \E s \in Sessions :
          /\ Reusable(c, s)
          /\ ~(request'[c].instruments \subseteq session[s].instruments)
          /\ session' = [session EXCEPT ![s].instruments = @ \cup request'[c].instruments]
          /\ at' = [at EXCEPT ![c] = s]
    /\ Goto(c, "merge") /\ lock' = c
    /\ UNCHANGED <<running, sub, handle, streamed, failed, monitors, adapters, todo>>

\* stop() may have removed the session meanwhile.
Noted(f, s, I) == IF s \in Sessions THEN [f EXCEPT ![s] = @ \cup I] ELSE f

\* The stream of the new ones is open.  Its handle is dropped.
MergeDone(c) ==
    /\ At(c, "merge") /\ held[request[c].broker] = Free
    /\ stray' = stray \cup {request[c].broker}
    /\ streamed' = Noted(streamed, at[c], request[c].instruments \ failed[at[c]])
    /\ sub' = [sub EXCEPT ![c] = at[c]]
    /\ Return(c)
    /\ UNCHANGED <<running, request, session, handle, failed, monitors, held, frozen, todo>>

\* The broker refuses: no subscription, but the session keeps the instruments.
MergeFails(c) ==
    /\ At(c, "merge")
    /\ failed' = Noted(failed, at[c], request[c].instruments \ streamed[at[c]])
    /\ Return(c) /\ Forget(c)
    /\ UNCHANGED <<running, sub, session, handle, streamed, monitors, adapters, todo>>

\* A session id nothing refers to any more.
Unused(s) ==
    /\ session[s] = None
    /\ Consumers(s) = {} /\ s \notin todo /\ \A t \in Task : at[t] # s

\* None is healthy: open one.
Open(c) ==
    /\ Asks(c)
    /\ \E s \in Session :
          /\ Unused(s)
          /\ session' = [session EXCEPT ![s] =
                            [broker |-> request'[c].broker, connected |-> FALSE, generation |-> 0,
                             instruments |-> request'[c].instruments,
                             failover |-> c \notin Patient]]
          /\ at' = [at EXCEPT ![c] = s]
    /\ Goto(c, "open") /\ lock' = c
    /\ UNCHANGED <<running, sub, handle, streamed, failed, monitors, adapters, todo>>

\* The session has its stream and its handle; the client is registered.
Opened(c) ==
    /\ handle' = [handle EXCEPT ![at[c]] = [broker |-> request[c].broker, up |-> TRUE]]
    /\ session' = [session EXCEPT ![at[c]].connected = TRUE]
    /\ streamed' = [streamed EXCEPT ![at[c]] = request[c].instruments]
    /\ sub' = [sub EXCEPT ![c] = at[c]]
    /\ Return(c)
    /\ UNCHANGED <<running, request, failed, target, adapters, todo>>

\* Mutation: nobody watches the session.
OpenDoneUnwatched(c) ==
    /\ At(c, "open") /\ held[request[c].broker] = Free
    /\ Opened(c) /\ UNCHANGED monitor

\* Mutation: the handle is made active without the lock of the adapter.
OpenDoneUnguarded(c) ==
    /\ At(c, "open") /\ Opened(c)
    /\ monitor' = [monitor EXCEPT ![at[c]] = IF running THEN "watch" ELSE "done"]

\* A monitor is started.  When stop() has been called it ends at once.
OpenDone(c) ==
    /\ At(c, "open") /\ held[request[c].broker] = Free
    /\ Opened(c)
    /\ monitor' = [monitor EXCEPT ![at[c]] = IF running THEN "watch" ELSE "done"]

\* The broker refuses: the session stays behind in _sessions.
OpenFails(c) ==
    /\ At(c, "open")
    /\ Return(c) /\ Forget(c)
    /\ UNCHANGED <<running, sub, session, handle, streamed, failed, monitors, adapters, todo>>

-----------------------------------------------------------------------------
(* unsubscribe, stop and _disconnect_session *)

\* The monitors of the sessions S are cancelled.  One that waits for the lock
\* with a new handle loses it.
Cancel(S) ==
    /\ monitor' = [s \in Session |->
                      IF s \in S /\ monitor[s] # "none" THEN "done" ELSE monitor[s]]
    /\ target' = [s \in Session |-> IF s \in S THEN None ELSE target[s]]
    /\ stray' = stray \cup {target[s] : s \in {r \in S : monitor[r] = "opened"}}

\* Another consumer still uses the session.
Leave(c) ==
    /\ At(c, "idle") /\ lock = Free /\ sub[c] # None
    /\ Consumers(sub[c]) # {c}
    /\ sub' = [sub EXCEPT ![c] = None]
    /\ Forget(c)
    /\ UNCHANGED <<running, tasks, sessions, monitors, adapters, todo>>

\* The last consumer leaves: _disconnect_session cancels the monitor and waits
\* for its end.
Close(c) ==
    /\ At(c, "idle") /\ sub[c] # None
    /\ Consumers(sub[c]) = {c}
    /\ lock = Free /\ lock' = c
    /\ sub' = [sub EXCEPT ![c] = None]
    /\ Forget(c)
    /\ Cancel({sub[c]} \cap Sessions)
    /\ at' = [at EXCEPT ![c] = sub[c]]
    /\ Goto(c, "cancel")
    /\ UNCHANGED <<running, sessions, held, frozen, todo>>

\* The session and its handle leave the tables.
Remove(t) ==
    /\ At(t, "cancel")
    /\ session' = [session EXCEPT ![at[t]] = None]
    /\ handle' = [handle EXCEPT ![at[t]] = None]
    /\ streamed' = [streamed EXCEPT ![at[t]] = {}]
    /\ failed' = [failed EXCEPT ![at[t]] = {}]
    /\ monitor' = [monitor EXCEPT ![at[t]] = "none"]
    /\ at' = [at EXCEPT ![t] = IF handle[at[t]] = None THEN None ELSE handle[at[t]].broker]
    /\ Goto(t, "disconnect")
    /\ UNCHANGED <<running, lock, request, sub, target, adapters, todo>>

\* _disconnect_session ends; stop() goes on with the next one.
Disconnected(t) ==
    IF t = Stopper THEN Goto(t, "next") /\ at' = [at EXCEPT ![t] = None] /\ UNCHANGED lock
                   ELSE Return(t)

\* The streams of broker b other than that of task t.
Last(t, b) ==
    /\ b \notin stray
    /\ \A s \in Session : handle[s] # None => handle[s].broker # b
    /\ \A s \in Session : monitor[s] = "opened" => target[s] # b
    /\ \A u \in Task \ {t} : pc[u] = "disconnect" => at[u] # b

\* handle.disconnect(), and the broker still has other active handles ...
Release(t) ==
    /\ At(t, "disconnect")
    /\ at[t] # None => held[at[t]] = Free /\ ~Last(t, at[t])
    /\ Disconnected(t)
    /\ UNCHANGED <<running, request, sub, sessions, monitors, adapters, todo>>

\* ... or raises, which is ignored: the handle remains active ...
ReleaseFails(t) ==
    /\ At(t, "disconnect") /\ at[t] # None
    /\ stray' = stray \cup {at[t]}
    /\ Disconnected(t)
    /\ UNCHANGED <<running, request, sub, sessions, monitors, held, frozen, todo>>

\* ... or it was the last: take the feed down, in a thread, with the lock.
ReleaseLast(t) ==
    /\ At(t, "disconnect") /\ at[t] # None
    /\ held[at[t]] = Free /\ Last(t, at[t])
    /\ held' = [held EXCEPT ![at[t]] = t]
    /\ Goto(t, "feed")
    /\ UNCHANGED <<running, lock, at, request, sub, sessions, monitors, stray, frozen, todo>>

FeedDown(t) ==
    /\ At(t, "feed")
    /\ held' = [held EXCEPT ![at[t]] = Free]
    /\ Disconnected(t)
    /\ UNCHANGED <<running, request, sub, sessions, monitors, stray, frozen, todo>>

\* stop(): cancel all monitors, wait for the lock ...
Stop ==
    /\ At(Stopper, "idle") /\ running
    /\ running' = FALSE
    /\ Cancel(Sessions)
    /\ Goto(Stopper, "stop")
    /\ UNCHANGED <<lock, at, request, sub, sessions, held, frozen, todo>>

\* ... note down the sessions there are, give the lock back ...
Snapshot ==
    /\ At(Stopper, "stop") /\ lock = Free
    /\ todo' = Sessions
    /\ Goto(Stopper, "next")
    /\ UNCHANGED <<running, lock, at, request, sub, sessions, monitors, adapters>>

\* ... and disconnect one after the other, without the lock.
StopNext ==
    /\ At(Stopper, "next")
    /\ \E s \in todo :
          /\ todo' = todo \ {s}
          /\ Cancel({s} \cap Sessions)
          /\ at' = [at EXCEPT ![Stopper] = s]
    /\ Goto(Stopper, "cancel")
    /\ UNCHANGED <<running, lock, request, sub, sessions, held, frozen>>

-----------------------------------------------------------------------------
(* _reconnect_loop and _try_failover *)

Monitors(s, l, b) ==
    monitor' = [monitor EXCEPT ![s] = l] /\ target' = [target EXCEPT ![s] = b]

\* A second is over and the transport is down.
Lost(s) ==
    /\ On(s, "watch")
    /\ handle[s] = None \/ ~handle[s].up
    /\ session' = [session EXCEPT ![s].connected = FALSE,
                                  ![s].generation = IF @ < MaxAttempts THEN @ + 1 ELSE @]
    /\ Monitors(s, "backoff", None)
    /\ UNCHANGED <<running, tasks, request, sub, handle, streamed, failed, adapters, todo>>

\* The brokers to ask for a stream next: one the router names, when failover is
\* due, or the same again.
NextTargets(s) ==
    IF session[s].failover /\ session[s].generation >= MaxAttempts
    THEN Broker ELSE {session[s].broker}

\* The delay is over.
Backoff(s) ==
    /\ On(s, "backoff")
    /\ \E b \in NextTargets(s) : Monitors(s, "opening", b)
    /\ UNCHANGED <<running, tasks, request, sub, sessions, adapters, todo>>

\* The broker gives a stream: wait for the lock.
Opens(s) ==
    /\ On(s, "opening") /\ held[target[s]] = Free
    /\ Monitors(s, "opened", target[s])
    /\ UNCHANGED <<running, tasks, request, sub, sessions, adapters, todo>>

\* It does not: try the next one, or back to the beginning of the loop.
Refuses(s) ==
    /\ On(s, "opening")
    /\ IF target[s] = session[s].broker
       THEN Monitors(s, "watch", None)
       ELSE \E b \in Broker \ {target[s]} : Monitors(s, "opening", b)
    /\ UNCHANGED <<running, tasks, request, sub, sessions, adapters, todo>>

\* The session goes on with the new handle.  The old one is dropped.
Install(s) ==
    /\ On(s, "opened") /\ lock = Free
    /\ handle' = [handle EXCEPT ![s] = [broker |-> target[s], up |-> TRUE]]
    /\ stray' = IF handle[s] = None THEN stray ELSE stray \cup {handle[s].broker}
    /\ failed' = [failed EXCEPT ![s] = {}]
    /\ UNCHANGED <<running, tasks, request, sub, held, frozen, todo>>

\* Mutation: the stream is reopened for what the first consumer asked for.
ReopenedForOne(s) ==
    /\ Install(s)
    /\ target[s] = session[s].broker
    /\ session' = [session EXCEPT ![s].connected = TRUE]
    /\ \E c \in Consumers(s) : streamed' = [streamed EXCEPT ![s] = request[c].instruments]
    /\ Monitors(s, "watch", None)

\* The stream is the same broker's.
Reopened(s) ==
    /\ Install(s)
    /\ target[s] = session[s].broker
    /\ session' = [session EXCEPT ![s].connected = TRUE]
    /\ streamed' = [streamed EXCEPT ![s] = session[s].instruments]
    /\ Monitors(s, "watch", None)

\* The stream is another broker's.  _reconnect_loop returns.
FailedOver(s) ==
    /\ Install(s)
    /\ target[s] # session[s].broker
    /\ session' = [session EXCEPT ![s].broker = target[s], ![s].connected = TRUE,
                                  ![s].generation = 0]
    /\ streamed' = [streamed EXCEPT ![s] = session[s].instruments]
    /\ Monitors(s, "done", None)

-----------------------------------------------------------------------------
(* Feeds and the loop *)

\* A handle's feed goes down, or recovers by itself.
Toggle(s) ==
    /\ handle[s] # None
    /\ handle' = [handle EXCEPT ![s].up = ~@]
    /\ UNCHANGED <<running, tasks, request, sub, session, streamed, failed, monitors, adapters, todo>>

\* The next thing some task or monitor does is to take the lock of b's adapter.
Wants(b) ==
    \/ \E c \in Client : pc[c] \in {"open", "merge"} /\ request[c].broker = b
    \/ \E t \in Task : pc[t] = "disconnect" /\ at[t] = b
    \/ \E s \in Session : monitor[s] = "opening" /\ target[s] = b

\* It is taken: the loop blocks.
Freeze ==
    /\ \E b \in Broker : held[b] # Free /\ Wants(b)
    /\ frozen' = TRUE
    /\ UNCHANGED <<running, tasks, request, sub, sessions, monitors, stray, held, todo>>

Ask(c) == Join(c) \/ Merge(c) \/ Open(c)

Answer(c) == MergeDone(c) \/ MergeFails(c) \/ OpenDone(c) \/ OpenFails(c)

Disconnect(t) == Remove(t) \/ Release(t) \/ ReleaseFails(t) \/ ReleaseLast(t) \/ FeedDown(t)

Stopping == Snapshot \/ StopNext \/ Disconnect(Stopper)

Monitor(s) ==
    Lost(s) \/ Backoff(s) \/ Opens(s) \/ Refuses(s) \/ Reopened(s) \/ FailedOver(s)

Next ==
    \/ \E c \in Client : Ask(c) \/ Answer(c) \/ Leave(c) \/ Close(c) \/ Disconnect(c)
    \/ Stop \/ Stopping
    \/ \E s \in Session : Monitor(s) \/ Toggle(s)
    \/ Freeze

Spec == Init /\ [][Next]_vars

(***************************************************************************)
(* The loop runs what is ready, calls of brokers return, asyncio.Lock is   *)
(* first come, first served; and the brokers: one that is asked for a      *)
(* stream again and again gives one.                                       *)
(***************************************************************************)
Fairness ==
    /\ \A c \in Client : WF_vars(Answer(c) \/ Disconnect(c))
    /\ \A s \in Session :
          /\ WF_vars(Monitor(s))
          /\ SF_vars(Opens(s))
          /\ SF_vars(Reopened(s) \/ FailedOver(s))

FairSpec == Spec /\ Fairness

-----------------------------------------------------------------------------
(* Properties *)

\* Types, and mutual exclusion: whoever is busy in subscribe or unsubscribe holds
\* the lock.
TypeOK ==
    /\ running \in BOOLEAN /\ frozen \in BOOLEAN
    /\ lock \in Client \cup {Free}
    /\ pc \in [Task -> {"idle", "merge", "open", "cancel", "disconnect", "feed",
                        "stop", "next"}]
    /\ at \in [Task -> Session \cup Broker \cup {None}]
    /\ request \in [Client -> Request \cup {None}]
    /\ sub \in [Client -> Session \cup {None}]
    /\ session \in [Session -> State \cup {None}]
    /\ handle \in [Session -> Handle \cup {None}]
    /\ streamed \in [Session -> SUBSET Instrument]
    /\ failed \in [Session -> SUBSET Instrument]
    /\ monitor \in [Session -> {"none", "watch", "backoff", "opening", "opened", "done"}]
    /\ target \in [Session -> Broker \cup {None}]
    /\ stray \subseteq Broker
    /\ held \in [Broker -> Task \cup {Free}]
    /\ todo \subseteq Session
    /\ \A c \in Client : lock = c <=> pc[c] # "idle"

\* While the orchestrator runs, a subscribed consumer has a session, which
\* reopens what the consumer asked for; and each of its instruments has a
\* stream, unless the broker refused one when the instrument was merged into
\* the session and none has been opened since.  It concerns what subscribe
\* registers (lines 248-263), what a reconnect asks for (655-659) and whose
\* session unsubscribe closes (283-285).
SubscribersStreamed ==
    running => \A c \in Client : sub[c] # None =>
        LET s == sub[c] IN
        /\ s \in Sessions
        /\ request[c].instruments \subseteq session[s].instruments
        /\ request[c].instruments \subseteq streamed[s] \cup failed[s]

\* The feed of a broker is taken down only under streams that are gone: while
\* the adapter does it (market_data_gateway_adapter.py lines 280-289), no
\* session has a handle of that broker and no monitor holds one ready.
FeedDownUnused ==
    \A b \in Broker : held[b] # Free =>
        \A s \in Session :
            /\ handle[s] # None => handle[s].broker # b
            /\ monitor[s] = "opened" => target[s] # b

\* A session with consumers whose transport is down.
Neglected(s) ==
    /\ running /\ ~frozen
    /\ session[s] # None /\ handle[s] # None /\ ~handle[s].up
    /\ Consumers(s) # {}

\* A session that may not change its broker is brought back as long as somebody
\* uses it: its monitor outlives every loss of its transport.
SessionsRecover ==
    \A s \in Session : (Neglected(s) /\ ~session[s].failover) ~> ~Neglected(s)

\* So is every session: "safe reconnect and idempotent resubscribe".
AllSessionsRecover == \A s \in Session : Neglected(s) ~> ~Neglected(s)

\* stop() is not stopped by the lock of an adapter: "Gracefully disconnect all
\* sessions and stop monitoring."
GracefulStop == frozen => pc[Stopper] = "idle"
=============================================================================
