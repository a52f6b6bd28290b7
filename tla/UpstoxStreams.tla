---------------------------- MODULE UpstoxStreams ----------------------------
(***************************************************************************)
(* Tick streams of Upstox: StreamManagerAdapter (adapters/stream_manager)  *)
(* over UpstoxMarketDataV3Multiplexer (websocket/market_data_v3), with the *)
(* counts of UpstoxV3SubscriptionManager and the attempts of               *)
(* UpstoxAutoReconnect.                                                    *)
(*                                                                         *)
(* A consumer registers a callback for an instrument key.  The first one   *)
(* opens the feed: connect() is scheduled on the event loop and asks for   *)
(* the key when the socket is there; a consumer that calls from a thread   *)
(* without a loop runs connect() on a loop of its own, closed on return.   *)
(* Each connect() schedules a reader, which takes the recv of the socket   *)
(* that is current when it first runs, and calls that one for good.  A     *)
(* reader has the number of the socket its connect() opened.  Sockets that *)
(* nobody holds are reused as fresh ones.                                  *)
(***************************************************************************)
EXTENDS Integers, FiniteSets

CONSTANTS Consumers,      \* callbacks
          Threads,        \* the consumers that call from a thread without loop
          Keys,           \* instrument keys
          Modes,          \* subscription modes
          Calls,          \* the subscribe() calls consumers make
          None,           \* no mode
          Cap,            \* keys in each mode when only that mode is used
          CombinedCap,    \* keys in each mode when another is used as well
          MaxSockets,     \* bound: sockets that exist at a time
          MaxRetries,     \* UpstoxAutoReconnect.max_retries
          MaxDrops,       \* bound: losses of a socket
          OpenMayFail     \* whether authorising or opening may fail

ASSUME UpstoxStreamsConfig ==
  /\ Calls \subseteq [consumer : Consumers, key : Keys, mode : Modes]
  /\ Threads \subseteq Consumers /\ None \notin Modes
  /\ Cap \in [Modes -> Nat] /\ CombinedCap \in [Modes -> Nat] /\ OpenMayFail \in BOOLEAN
  /\ MaxSockets \in Nat /\ MaxRetries \in Nat /\ MaxDrops \in Nat

VARIABLES registry,    \* callbacks by key (_stream_registry)
          mode,        \* mode by key (_by_key, and _by_mode with it)
          subscribed,  \* keys replayed and backfilled (_subscribed)
          socket,      \* the current socket, 0 for None (_socket)
          live,        \* sockets that are open at Upstox
          sent,        \* what Upstox streams on each socket
          readers,     \* state of the reader each connect() scheduled
          bound,       \* the socket whose recv it calls, 0 before it has run
          task,        \* reader of the last connect (_task), 0 for None
          connected, stopped, attempts,
          leaving,     \* what disconnect() awaits: "task", "close" or "no"
          pending,     \* calls of connect() that have not finished
          drops,       \* losses so far
          unserved,    \* keys of which a request was refused or not sent
          late,        \* keys asked for after their consumer had left
          crossed      \* a connect() finished amid another step of the feed

vars == <<registry, mode, subscribed, socket, live, sent, readers, bound, task,
          connected, stopped, attempts, leaving, pending, drops, unserved, late, crossed>>

feed == <<socket, live, readers, bound, task, connected, stopped, attempts,
          leaving, crossed>>

Sockets == 1 .. MaxSockets
ReaderStates == {"none", "new", "recv", "backoff", "closing", "opening", "stillborn"}

TypeOK ==
  /\ registry \in [Keys -> SUBSET Consumers]
  /\ mode \in [Keys -> Modes \union {None}]
  /\ subscribed \subseteq Keys
  /\ socket \in 0 .. MaxSockets /\ task \in 0 .. MaxSockets
  /\ live \subseteq Sockets
  /\ sent \in [Sockets -> [Keys -> Modes \union {None}]]
  /\ readers \in [Sockets -> ReaderStates]
  /\ bound \in [Sockets -> 0 .. MaxSockets]
  /\ leaving \in {"no", "task", "close"} /\ crossed \in BOOLEAN
  /\ connected \in BOOLEAN /\ stopped \in BOOLEAN
  /\ attempts \in 0 .. MaxRetries
  /\ pending \subseteq Calls
  /\ drops \in 0 .. MaxDrops
  /\ unserved \subseteq Keys /\ late \subseteq Keys

Nothing == [k \in Keys |-> None]

Init ==
  /\ registry = [k \in Keys |-> {}]
  /\ mode = Nothing /\ subscribed = {}
  /\ socket = 0 /\ task = 0 /\ live = {}
  /\ sent = [s \in Sockets |-> Nothing]
  /\ readers = [s \in Sockets |-> "none"]
  /\ bound = [s \in Sockets |-> 0]
  /\ leaving = "no" /\ crossed = FALSE
  /\ connected = FALSE /\ stopped = FALSE /\ attempts = 0
  /\ pending = {} /\ drops = 0
  /\ unserved = {} /\ late = {}

IsConnected == connected /\ ~stopped

\* Upstox streams nothing more on the sockets that are not among these.
Streamed(open) == [s \in Sockets |-> IF s \in open THEN sent[s] ELSE Nothing]

\* A socket number nothing refers to: a fresh socket.
Free == {s \in Sockets : /\ s \notin live \union {socket, task}
                         /\ readers[s] = "none"
                         /\ \A r \in Sockets : bound[r] # s}
Fresh == CHOOSE s \in Free : TRUE

\* Reader r goes on in this state; one that ends holds no socket.
Goes(r, state) ==
  /\ readers' = [readers EXCEPT ![r] = state]
  /\ bound' = [bound EXCEPT ![r] = IF state = "none" THEN 0 ELSE @]

\* The state of _task: done, when there is none.
TaskState == IF task = 0 THEN "none" ELSE readers[task]

(***************************************************************************)
(* UpstoxV3SubscriptionManager                                             *)
(***************************************************************************)
InMode(f, m) == {k \in Keys : f[k] = m}
\* _enforce looks at the mode just used, after the keys are in.
Exceeds(f, m) ==
  LET n == Cardinality(InMode(f, m))
  IN  \/ n > Cap[m]
      \/ (\E k \in Keys : f[k] \notin {None, m}) /\ n > CombinedCap[m]

\* Mutation: a new socket is not asked for anything.
ReplayNothing == Nothing

\* What _maybe_send_initial_subscriptions asks for on a new socket.
Replay == IF subscribed = {} THEN Nothing ELSE mode

(***************************************************************************)
(* ws.subscribe([k], m), reached with socket s current and on streamed on  *)
(* the sockets.  An error comes after the manager has taken the key and    *)
(* before anything is sent; clean tells whether the send is reached.       *)
(***************************************************************************)
Ask(k, m, s, on, clean) ==
  LET want == [mode EXCEPT ![k] = m]
      ok   == ~Exceeds(want, m) /\ clean
  IN  /\ mode' = want
      /\ subscribed' = IF ok THEN subscribed \union {k} ELSE subscribed
      /\ sent' = IF ok /\ s \in live' THEN [on EXCEPT ![s][k] = m] ELSE on
      /\ unserved' = IF ok THEN unserved ELSE unserved \union {k}

\* ws.unsubscribe([k]).  From a thread without a loop it is sent through the
\* loop of _task, if that runs: a closed loop raises, and the error is dropped.
Drop(k, thread) ==
  LET unsent == thread /\ socket # 0 /\ TaskState \in {"none", "stillborn"}
  IN  /\ mode' = [mode EXCEPT ![k] = None]
      /\ subscribed' = IF unsent /\ TaskState = "stillborn" THEN subscribed
                       ELSE subscribed \ {k}
      /\ sent' = IF ~unsent /\ socket \in live
                 THEN [sent EXCEPT ![socket][k] = None] ELSE sent
      /\ unserved' = IF unsent THEN unserved \union {k} ELSE unserved \ {k}
      /\ late' = late \ {k}

(***************************************************************************)
(* StreamManagerAdapter.subscribe.  A callback that is registered already  *)
(* is turned away before anything is asked for.                            *)
(***************************************************************************)
Register(p) ==
  /\ p.consumer \notin registry[p.key]
  /\ registry' = [registry EXCEPT ![p.key] = @ \union {p.consumer}]

\* A coroutine handed to the loop of a stillborn reader raises: that loop is
\* closed; for a reader that has ended nothing is sent, and nothing raised.
SubscribeConnected(p) ==
  LET threaded == p.consumer \in Threads /\ socket # 0
  IN  /\ IsConnected /\ Register(p)
      /\ UNCHANGED <<feed, pending, drops, late>>
      /\ IF threaded /\ TaskState = "none"
         THEN /\ mode' = [mode EXCEPT ![p.key] = p.mode]
              /\ subscribed' = IF Exceeds(mode', p.mode) THEN subscribed
                               ELSE subscribed \union {p.key}
              /\ unserved' = unserved \union {p.key}
              /\ UNCHANGED sent
         ELSE Ask(p.key, p.mode, socket, sent, ~threaded \/ TaskState # "stillborn")

\* Bound: a consumer that left asks for the same again when its call is over.
SubscribeOnLoop(p) ==
  /\ ~IsConnected /\ p.consumer \notin Threads /\ Register(p)
  /\ p \notin pending
  /\ pending' = pending \union {p}
  /\ UNCHANGED <<mode, subscribed, sent, feed, drops, unserved, late>>

\* What a connect() that finishes now may disturb, or be disturbed by: a reader
\* that has not run yet, a reconnect or a disconnect() that awaits a close.
Amid == leaving # "no" \/ \E r \in Sockets : readers[r] \in {"new", "closing"}

\* Without a running loop connect() runs to its end on a temporary one, which
\* is closed with the reader's task still pending: nothing reads that socket,
\* and what is sent through it goes nowhere.
SubscribeInThread(p) ==
  /\ ~IsConnected /\ p.consumer \in Threads /\ Register(p)
  /\ Free # {}
  /\ socket' = Fresh /\ task' = Fresh
  /\ readers' = [readers EXCEPT ![Fresh] = "stillborn"]
  /\ connected' = TRUE /\ stopped' = FALSE
  /\ crossed' \in BOOLEAN /\ (crossed' <=> crossed \/ Amid)
  /\ UNCHANGED <<live, bound, attempts, leaving, pending, drops, late>>
  /\ Ask(p.key, p.mode, Fresh, sent, TRUE)

\* connect() raises in the thread: the caller is told, its callback stays.
SubscribeInThreadFails(p) ==
  /\ OpenMayFail
  /\ ~IsConnected /\ p.consumer \in Threads /\ Register(p)
  /\ unserved' = unserved \union {p.key}
  /\ UNCHANGED <<mode, subscribed, sent, feed, pending, drops, late>>

\* Mutation: connect() schedules no reader.
ConnectUnread(p) ==
  /\ p \in pending /\ Free # {}
  /\ pending' = pending \ {p}
  /\ socket' = Fresh /\ task' = Fresh
  /\ live' = live \union {Fresh}
  /\ connected' = TRUE /\ stopped' = FALSE
  /\ crossed' \in BOOLEAN /\ (crossed' <=> crossed \/ Amid)
  /\ Ask(p.key, p.mode, Fresh, [sent EXCEPT ![Fresh] = Replay], TRUE)
  /\ late' = IF registry[p.key] = {} THEN late \union {p.key} ELSE late
  /\ UNCHANGED <<registry, readers, bound, attempts, leaving, drops>>

\* The socket is open: connect() goes on without a further await, and the
\* callback asks for the key, also when its consumer has left meanwhile.
ConnectDone(p) ==
  /\ p \in pending /\ Free # {}
  /\ pending' = pending \ {p}
  /\ socket' = Fresh /\ task' = Fresh
  /\ live' = live \union {Fresh}
  /\ readers' = [readers EXCEPT ![Fresh] = "new"]
  /\ connected' = TRUE /\ stopped' = FALSE
  /\ crossed' \in BOOLEAN /\ (crossed' <=> crossed \/ Amid)
  /\ Ask(p.key, p.mode, Fresh, [sent EXCEPT ![Fresh] = Replay], TRUE)
  /\ late' = IF registry[p.key] = {} THEN late \union {p.key} ELSE late
  /\ UNCHANGED <<registry, bound, attempts, leaving, drops>>

\* Authorising or opening raises in the scheduled task: the callback stays
\* registered, nobody is told, and nothing is asked for.
ConnectFail(p) ==
  /\ p \in pending /\ OpenMayFail
  /\ pending' = pending \ {p}
  /\ unserved' = unserved \union {p.key}
  /\ UNCHANGED <<registry, mode, subscribed, sent, feed, drops, late>>

\* A thread without a loop calls for a consumer of Threads.
\* Mutation: the instrument is given up when the first consumer leaves.
UnsubscribeEarly(k, cs) ==
  /\ cs # {} /\ cs \subseteq registry[k]
  /\ registry' = [registry EXCEPT ![k] = @ \ cs]
  /\ Drop(k, cs \cap Threads # {})
  /\ UNCHANGED <<feed, pending, drops>>

\* StreamManagerAdapter.unsubscribe: of one callback, or of all of them.
Unsubscribe(k, cs) ==
  /\ cs # {} /\ cs \subseteq registry[k]
  /\ registry' = [registry EXCEPT ![k] = @ \ cs]
  /\ IF registry[k] = cs THEN Drop(k, cs \cap Threads # {})
     ELSE UNCHANGED <<mode, subscribed, sent, unserved, late>>
  /\ UNCHANGED <<feed, pending, drops>>

(***************************************************************************)
(* _read_loop of reader r                                                  *)
(***************************************************************************)
\* It first runs: recv is that of the socket which is current now, if any.
Start(r) ==
  /\ readers[r] = "new"
  /\ LET on == socket # 0 /\ ~stopped
     IN  /\ readers' = [readers EXCEPT ![r] = IF on THEN "recv" ELSE "none"]
         /\ bound' = [bound EXCEPT ![r] = IF on THEN socket ELSE 0]
  /\ UNCHANGED <<registry, mode, subscribed, sent, socket, live, task, connected,
                 stopped, attempts, leaving, pending, drops, unserved, late, crossed>>

\* Any frame resets the attempts, then the loop looks at _stopped.
Frame(r) ==
  /\ readers[r] = "recv" /\ bound[r] \in live
  /\ attempts' = 0
  /\ Goes(r, IF stopped THEN "none" ELSE "recv")
  /\ UNCHANGED <<registry, mode, subscribed, sent, socket, live, task,
                 connected, stopped, leaving, pending, drops, unserved, late, crossed>>

\* recv raises on a closed socket, and when another reader waits for it already.
RecvRaises(r) ==
  /\ readers[r] = "recv"
  /\ \/ bound[r] \notin live
     \/ \E q \in Sockets \ {r} : readers[q] = "recv" /\ bound[q] = bound[r]

\* Mutation: the retries are not bounded.
RecvErrorAgain(r) ==
  /\ RecvRaises(r)
  /\ attempts <= MaxRetries
  /\ attempts' = attempts + 1
  /\ Goes(r, "backoff")
  /\ UNCHANGED <<registry, mode, subscribed, sent, socket, live, task, connected,
                 stopped, leaving, pending, drops, unserved, late, crossed>>

RecvError(r) ==
  /\ RecvRaises(r)
  /\ \/ /\ attempts >= MaxRetries
        /\ connected' = FALSE
        /\ Goes(r, "none")
        /\ UNCHANGED attempts
     \/ /\ attempts < MaxRetries
        /\ attempts' = attempts + 1
        /\ Goes(r, "backoff")
        /\ UNCHANGED connected
  /\ UNCHANGED <<registry, mode, subscribed, sent, socket, live, task, stopped,
                 leaving, pending, drops, unserved, late, crossed>>

\* _reconnect_socket closes whatever socket is current and awaits that.
ReconnectClose(r) ==
  /\ readers[r] = "backoff"
  /\ Goes(r, IF socket = 0 THEN "opening" ELSE "closing")
  /\ live' = live \ {socket} /\ sent' = Streamed(live')
  /\ UNCHANGED <<registry, mode, subscribed, socket, task, connected, stopped,
                 attempts, leaving, pending, drops, unserved, late, crossed>>

\* It then forgets the socket, also one that a connect() put there meanwhile.
ReconnectClosed(r) ==
  /\ readers[r] = "closing"
  /\ Goes(r, "opening")
  /\ socket' = 0
  /\ UNCHANGED <<registry, mode, subscribed, sent, live, task, connected, stopped,
                 attempts, leaving, pending, drops, unserved, late, crossed>>

\* Back in the loop, which looks at _stopped.
Reader(r) == Goes(r, IF stopped THEN "none" ELSE "recv")

ReconnectOpen(r) ==
  /\ readers[r] = "opening" /\ Free # {}
  /\ Reader(r)
  /\ socket' = Fresh
  /\ live' = live \union {Fresh}
  /\ sent' = [sent EXCEPT ![Fresh] = Replay]
  /\ connected' = TRUE
  /\ UNCHANGED <<registry, mode, subscribed, task, stopped, attempts, leaving,
                 pending, drops, unserved, late, crossed>>

\* Closing, authorising or opening raises; without a URL nothing is noted.
ReconnectFail(r) ==
  /\ OpenMayFail /\ readers[r] \in {"closing", "opening"}
  /\ Reader(r)
  /\ connected' = FALSE \/ (readers[r] = "opening" /\ UNCHANGED connected)
  /\ UNCHANGED <<registry, mode, subscribed, sent, socket, live, task, stopped,
                 attempts, leaving, pending, drops, unserved, late, crossed>>

(***************************************************************************)
(* disconnect().  Bound: one call at a time.                               *)
(***************************************************************************)
\* The current socket is closed, which is awaited; without one it is over.
DisconnectClose ==
  IF socket = 0 THEN leaving' = "no" /\ attempts' = 0 /\ UNCHANGED <<live, sent>>
  ELSE /\ leaving' = "close" /\ UNCHANGED attempts
       /\ live' = live \ {socket} /\ sent' = Streamed(live')

\* The flags are set and the reader it knows of is cancelled, which is awaited;
\* cancel() raises when that reader's loop is closed, and nothing else is done.
Disconnect ==
  /\ leaving = "no"
  /\ stopped' = TRUE /\ connected' = FALSE
  /\ IF task = 0 THEN DisconnectClose /\ UNCHANGED <<readers, bound>>
     ELSE /\ IF readers[task] = "stillborn" THEN UNCHANGED <<readers, bound, leaving>>
             ELSE Goes(task, "none") /\ leaving' = "task"
          /\ UNCHANGED <<live, sent, attempts>>
  /\ UNCHANGED <<registry, mode, subscribed, socket, task, pending, drops,
                 unserved, late, crossed>>

\* The reader is over: _task is forgotten, whichever it is by now.
DisconnectTask ==
  /\ leaving = "task"
  /\ task' = 0
  /\ DisconnectClose
  /\ UNCHANGED <<registry, mode, subscribed, socket, readers, bound, connected,
                 stopped, pending, drops, unserved, late, crossed>>

\* The socket is closed: _socket is forgotten, whichever it is by now.
DisconnectSocket ==
  /\ leaving = "close" /\ leaving' = "no"
  /\ socket' = 0 /\ attempts' = 0
  /\ UNCHANGED <<registry, mode, subscribed, sent, live, readers, bound, task,
                 connected, stopped, pending, drops, unserved, late, crossed>>

\* Upstox or the network closes a socket.
Loss(s) ==
  /\ s \in live /\ drops < MaxDrops
  /\ drops' = drops + 1
  /\ live' = live \ {s} /\ sent' = Streamed(live')
  /\ UNCHANGED <<registry, mode, subscribed, socket, readers, bound, task,
                 connected, stopped, attempts, leaving,
                 pending, unserved, late, crossed>>

Next ==
  \/ \E p \in Calls : \/ SubscribeConnected(p) \/ SubscribeOnLoop(p)
                      \/ SubscribeInThread(p) \/ SubscribeInThreadFails(p)
  \/ \E k \in Keys : \E cs \in SUBSET registry[k] : Unsubscribe(k, cs)
  \/ \E p \in Calls : ConnectDone(p) \/ ConnectFail(p)
  \/ \E r \in Sockets : \/ Start(r) \/ Frame(r) \/ RecvError(r) \/ Loss(r)
                        \/ ReconnectClose(r) \/ ReconnectClosed(r)
                        \/ ReconnectOpen(r) \/ ReconnectFail(r)
  \/ Disconnect \/ DisconnectTask \/ DisconnectSocket

\* The loop runs what is scheduled: connects finish, readers and disconnect() go on.
Fairness ==
  /\ \A p \in Calls : WF_vars(ConnectDone(p) \/ ConnectFail(p))
  /\ \A r \in Sockets :
       WF_vars(\/ Start(r) \/ RecvError(r) \/ ReconnectClose(r)
               \/ ReconnectClosed(r) \/ ReconnectOpen(r) \/ ReconnectFail(r))
  /\ WF_vars(DisconnectTask \/ DisconnectSocket)

Spec == Init /\ [][Next]_vars /\ Fairness

(***************************************************************************)
(* Properties                                                              *)
(***************************************************************************)
\* An instrument with a registered consumer is asked for, or will be by a
\* connect() under way, or one of its requests was refused or could not be
\* sent: others leaving, overlapping connects and losses never take it away.
\* One without consumers is not asked for, unless the connect() of a consumer
\* that left finished after it had left.
ConsumersAsked ==
  \A k \in Keys :
    /\ registry[k] # {} => \/ mode[k] # None
                           \/ k \in unserved
                           \/ \E p \in pending : p.key = k
    /\ registry[k] = {} /\ mode[k] # None => k \in late

\* What Upstox streams on the current socket is what the manager has recorded,
\* in the recorded mode, whatever sockets came before it.
StreamMatches ==
  socket \in live => \A k \in Keys \ unserved : sent[socket][k] = mode[k]

\* A reader waits on an open socket on which the key is streamed.
Heard(k) ==
  \E r \in Sockets : /\ readers[r] = "recv" /\ bound[r] \in live
                     /\ sent[bound[r]][k] # None

\* Until the first loss, a consumer that registers from the loop is served,
\* unless its request fails, the feed is disconnected, or a connect() finished
\* while a reader had not run or another step awaited the close of a socket.
FirstTicks ==
  \A k \in Keys :
    (registry[k] # {}) ~> \/ Heard(k) \/ registry[k] = {} \/ k \in unserved
                          \/ drops > 0 \/ stopped \/ crossed \/ Free = {}
                          \/ \E r \in Sockets : readers[r] = "stillborn"

\* tests/unit/test_websocket_reconnect_recovery.py:3, "after a disconnect ->
\* reconnect cycle, all previously subscribed instruments are restored": after a
\* loss the reconnected feed serves the instruments it was asked for.
TicksResume ==
  \A k \in Keys :
    (k \in subscribed /\ drops > 0) ~> Heard(k) \/ k \notin subscribed \/ stopped
==============================================================================
