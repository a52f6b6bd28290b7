-------------------------- MODULE UpstoxStreamsProofs --------------------------
(***************************************************************************)
(* Proofs about UpstoxStreams, for any number of consumers, instruments    *)
(* and modes, and any limits: who is registered is asked for, and Upstox   *)
(* streams what the manager has recorded.                                  *)
(***************************************************************************)
EXTENDS UpstoxStreams, TLAPS

ModeOrNone == Modes \union {None}

\* What is recorded and was not refused is replayed on the next socket.
Replayed == \A k \in Keys : mode[k] # None => k \in subscribed \/ k \in unserved

\* The inductive invariant.
FeedInv == TypeOK /\ ConsumersAsked /\ Replayed /\ StreamMatches

\* A fresh socket is one that nothing refers to.
LEMMA FreshIsFree ==
  ASSUME Free # {}
  PROVE  /\ Fresh \in Sockets /\ Fresh \notin live /\ Fresh # socket /\ Fresh # task
         /\ Fresh \in 0 .. MaxSockets
<1>1. Fresh \in Free
  BY DEF Fresh
<1> QED BY <1>1, UpstoxStreamsConfig DEF Free, Sockets

\* A key is asked for on socket s: recorded, and streamed or noted as unserved.
LEMMA Asked ==
  ASSUME TypeOK, NEW k \in Keys, NEW m \in Modes, NEW s, NEW on, NEW clean,
         on \in [Sockets -> [Keys -> ModeOrNone]], live' \subseteq Sockets,
         Ask(k, m, s, on, clean)
  PROVE  /\ mode' \in [Keys -> ModeOrNone] /\ mode'[k] = m
         /\ \A j \in Keys \ {k} : mode'[j] = mode[j]
         /\ subscribed' \subseteq Keys /\ subscribed \subseteq subscribed'
         /\ unserved' \subseteq Keys /\ unserved \subseteq unserved'
         /\ k \in subscribed' \/ k \in unserved'
         /\ sent' \in [Sockets -> [Keys -> ModeOrNone]]
         /\ \A r \in Sockets : \A j \in Keys \ {k} : sent'[r][j] = on[r][j]
         /\ k \notin unserved' /\ s \in live' => sent'[s][k] = m
<1> DEFINE ok == ~Exceeds([mode EXCEPT ![k] = m], m) /\ clean
<1>1. /\ mode' = [mode EXCEPT ![k] = m]
      /\ subscribed' = IF ok THEN subscribed \union {k} ELSE subscribed
      /\ sent' = IF ok /\ s \in live' THEN [on EXCEPT ![s][k] = m] ELSE on
      /\ unserved' = IF ok THEN unserved ELSE unserved \union {k}
  BY DEF Ask
<1> HIDE DEF ok
<1>2. /\ mode' \in [Keys -> ModeOrNone] /\ mode'[k] = m
      /\ \A j \in Keys \ {k} : mode'[j] = mode[j]
  BY <1>1 DEF TypeOK, ModeOrNone
<1>3. CASE ok /\ s \in live'
  <2>1. s \in Sockets /\ sent' = [on EXCEPT ![s] = [on[s] EXCEPT ![k] = m]]
    BY <1>1, <1>3
  <2>2. /\ [on[s] EXCEPT ![k] = m] \in [Keys -> ModeOrNone]
        /\ [on[s] EXCEPT ![k] = m][k] = m
        /\ \A j \in Keys \ {k} : [on[s] EXCEPT ![k] = m][j] = on[s][j]
    BY <2>1 DEF ModeOrNone
  <2>3. /\ sent' \in [Sockets -> [Keys -> ModeOrNone]]
        /\ sent'[s] = [on[s] EXCEPT ![k] = m]
        /\ \A r \in Sockets \ {s} : sent'[r] = on[r]
    BY <2>1, <2>2
  <2> QED BY <1>1, <1>2, <1>3, <2>2, <2>3 DEF TypeOK
<1>4. CASE ~(ok /\ s \in live')
  BY <1>1, <1>2, <1>4 DEF TypeOK
<1> QED BY <1>3, <1>4

\* On a new socket Upstox streams what was recorded, except what was refused.
LEMMA Replays ==
  ASSUME FeedInv
  PROVE  /\ Replay \in [Keys -> ModeOrNone]
         /\ \A k \in Keys : k \notin unserved => Replay[k] = mode[k]
<1>1. CASE subscribed = {}
  BY <1>1 DEF FeedInv, Replayed, Replay, Nothing, ModeOrNone
<1>2. CASE subscribed # {}
  BY <1>2 DEF FeedInv, TypeOK, Replay, ModeOrNone
<1> QED BY <1>1, <1>2

\* Sockets close: the others stream on.
LEMMA Closes ==
  ASSUME TypeOK, NEW open \in SUBSET Sockets, sent' = Streamed(open)
  PROVE  /\ sent' \in [Sockets -> [Keys -> ModeOrNone]]
         /\ \A s \in open : sent'[s] = sent[s]
BY DEF TypeOK, Streamed, Nothing, ModeOrNone

\* A callback is registered.
LEMMA Registers ==
  ASSUME TypeOK, NEW p \in Calls, Register(p)
  PROVE  /\ p.key \in Keys /\ p.mode \in Modes /\ p.mode # None
         /\ registry' \in [Keys -> SUBSET Consumers] /\ registry'[p.key] # {}
         /\ \A j \in Keys \ {p.key} : registry'[j] = registry[j]
<1>1. p.key \in Keys /\ p.mode \in Modes /\ p.mode # None /\ p.consumer \in Consumers
  BY UpstoxStreamsConfig
<1> QED BY <1>1 DEF TypeOK, Register

\* A consumer asks a connected feed.
LEMMA SubscribeConnectedStep ==
  ASSUME FeedInv, NEW p \in Calls, SubscribeConnected(p)
  PROVE  FeedInv'
<1>1. /\ Register(p)
      /\ UNCHANGED <<socket, live, readers, bound, task, connected, stopped, attempts, leaving,
                     crossed, pending, drops, late>>
  BY DEF SubscribeConnected, feed
<1>2. /\ mode' \in [Keys -> ModeOrNone] /\ mode'[p.key] = p.mode
      /\ \A j \in Keys \ {p.key} : mode'[j] = mode[j]
      /\ subscribed' \subseteq Keys /\ subscribed \subseteq subscribed'
      /\ unserved' \subseteq Keys /\ unserved \subseteq unserved'
      /\ p.key \in subscribed' \/ p.key \in unserved'
      /\ sent' \in [Sockets -> [Keys -> ModeOrNone]]
      /\ \A r \in Sockets : \A j \in Keys \ {p.key} : sent'[r][j] = sent[r][j]
      /\ p.key \notin unserved' /\ socket \in live' => sent'[socket][p.key] = p.mode
  <2>1. p.key \in Keys /\ p.mode \in Modes
    BY <1>1, Registers DEF FeedInv
  <2>2. CASE p.consumer \in Threads /\ socket # 0 /\ TaskState = "none"
    <3>1. /\ mode' = [mode EXCEPT ![p.key] = p.mode]
          /\ subscribed' = subscribed \/ subscribed' = subscribed \union {p.key}
          /\ unserved' = unserved \union {p.key} /\ sent' = sent
      BY <2>2 DEF SubscribeConnected
    <3> QED BY <2>1, <3>1 DEF FeedInv, TypeOK, ModeOrNone
  <2>3. CASE ~(p.consumer \in Threads /\ socket # 0 /\ TaskState = "none")
    <3>1. PICK clean \in BOOLEAN : Ask(p.key, p.mode, socket, sent, clean)
      BY <2>3 DEF SubscribeConnected
    <3>2. sent \in [Sockets -> [Keys -> ModeOrNone]] /\ live' \subseteq Sockets
      BY <1>1 DEF FeedInv, TypeOK, ModeOrNone
    <3> QED BY <2>1, <3>1, <3>2, Asked DEF FeedInv
  <2> QED BY <2>2, <2>3
<1>3. /\ p.key \in Keys /\ p.mode \in Modes /\ p.mode # None
      /\ registry' \in [Keys -> SUBSET Consumers] /\ registry'[p.key] # {}
      /\ \A j \in Keys \ {p.key} : registry'[j] = registry[j]
  BY <1>1, Registers DEF FeedInv
<1>4. TypeOK'
  BY <1>1, <1>2, <1>3 DEF FeedInv, TypeOK, ModeOrNone
<1>5. ConsumersAsked'
  BY <1>1, <1>2, <1>3 DEF FeedInv, ConsumersAsked
<1>6. Replayed'
  BY <1>2 DEF FeedInv, Replayed
<1>7. StreamMatches'
  BY <1>1, <1>2 DEF FeedInv, TypeOK, StreamMatches
<1> QED BY <1>4, <1>5, <1>6, <1>7 DEF FeedInv

\* A consumer on the loop schedules connect().
LEMMA SubscribeOnLoopStep ==
  ASSUME FeedInv, NEW p \in Calls, SubscribeOnLoop(p)
  PROVE  FeedInv'
<1>1. /\ Register(p) /\ pending' = pending \union {p}
      /\ UNCHANGED <<mode, subscribed, sent, socket, live, readers, bound, task, connected, stopped,
                     attempts, leaving, crossed, drops, unserved, late>>
  BY DEF SubscribeOnLoop, feed
<1>2. TypeOK'
  BY <1>1, Registers DEF FeedInv, TypeOK
<1>3. ConsumersAsked'
  BY <1>1, Registers DEF FeedInv, ConsumersAsked
<1>4. Replayed' /\ StreamMatches'
  BY <1>1 DEF FeedInv, Replayed, StreamMatches
<1> QED BY <1>2, <1>3, <1>4 DEF FeedInv

\* connect() is done, in a thread or on the loop: the key is asked for on the
\* fresh socket.
LEMMA NewSocket ==
  ASSUME FeedInv, NEW p \in Calls, NEW on, Free # {}, socket' = Fresh,
         live' \subseteq Sockets, Fresh \in live' => on[Fresh] = Replay,
         on \in [Sockets -> [Keys -> ModeOrNone]],
         Ask(p.key, p.mode, Fresh, on, TRUE)
  PROVE  /\ mode' \in [Keys -> ModeOrNone] /\ mode'[p.key] = p.mode
         /\ \A j \in Keys \ {p.key} : mode'[j] = mode[j]
         /\ p.key \in Keys /\ p.mode # None
         /\ subscribed' \subseteq Keys /\ unserved' \subseteq Keys /\ unserved \subseteq unserved'
         /\ sent' \in [Sockets -> [Keys -> ModeOrNone]]
         /\ Replayed' /\ StreamMatches'
<1>1. p.key \in Keys /\ p.mode \in Modes /\ p.mode # None
  BY UpstoxStreamsConfig
<1>2. /\ mode' \in [Keys -> ModeOrNone] /\ mode'[p.key] = p.mode
      /\ \A j \in Keys \ {p.key} : mode'[j] = mode[j]
      /\ subscribed' \subseteq Keys /\ subscribed \subseteq subscribed'
      /\ unserved' \subseteq Keys /\ unserved \subseteq unserved'
      /\ p.key \in subscribed' \/ p.key \in unserved'
      /\ sent' \in [Sockets -> [Keys -> ModeOrNone]]
      /\ \A r \in Sockets : \A j \in Keys \ {p.key} : sent'[r][j] = on[r][j]
      /\ p.key \notin unserved' /\ Fresh \in live' => sent'[Fresh][p.key] = p.mode
  BY <1>1, Asked DEF FeedInv
<1>3. Replayed'
  BY <1>2 DEF FeedInv, Replayed
<1>4. StreamMatches'
  <2> SUFFICES ASSUME Fresh \in live', NEW k \in Keys, k \notin unserved'
               PROVE  sent'[Fresh][k] = mode'[k]
    BY DEF StreamMatches
  <2>1. k \notin unserved /\ Replay[k] = mode[k] /\ on[Fresh] = Replay
    BY <1>2, Replays
  <2> QED BY <1>2, <2>1
<1> QED BY <1>1, <1>2, <1>3, <1>4

\* A consumer in a thread runs connect() on a loop of its own.
LEMMA SubscribeInThreadStep ==
  ASSUME FeedInv, NEW p \in Calls, SubscribeInThread(p)
  PROVE  FeedInv'
<1>1. /\ Register(p) /\ Free # {} /\ socket' = Fresh /\ task' = Fresh
      /\ readers' = [readers EXCEPT ![Fresh] = "stillborn"]
      /\ connected' = TRUE /\ stopped' = FALSE /\ crossed' \in BOOLEAN
      /\ UNCHANGED <<live, bound, attempts, leaving, pending, drops, late>>
      /\ Ask(p.key, p.mode, Fresh, sent, TRUE)
  BY DEF SubscribeInThread
<1>2. /\ Fresh \in Sockets /\ Fresh \notin live /\ Fresh \in 0 .. MaxSockets
      /\ sent \in [Sockets -> [Keys -> ModeOrNone]] /\ live' \subseteq Sockets
  BY <1>1, FreshIsFree DEF FeedInv, TypeOK, ModeOrNone
<1>3. /\ mode' \in [Keys -> ModeOrNone] /\ mode'[p.key] = p.mode
      /\ \A j \in Keys \ {p.key} : mode'[j] = mode[j]
      /\ p.key \in Keys /\ p.mode # None
      /\ subscribed' \subseteq Keys /\ unserved' \subseteq Keys /\ unserved \subseteq unserved'
      /\ sent' \in [Sockets -> [Keys -> ModeOrNone]]
      /\ Replayed' /\ StreamMatches'
  BY <1>1, <1>2, NewSocket
<1>4. TypeOK'
  BY <1>1, <1>2, <1>3, Registers DEF FeedInv, TypeOK, ModeOrNone, ReaderStates
<1>5. ConsumersAsked'
  BY <1>1, <1>3, Registers DEF FeedInv, ConsumersAsked
<1> QED BY <1>3, <1>4, <1>5 DEF FeedInv

\* connect() raises in the thread: its key is unserved.
LEMMA SubscribeInThreadFailsStep ==
  ASSUME FeedInv, NEW p \in Calls, SubscribeInThreadFails(p)
  PROVE  FeedInv'
<1>1. /\ Register(p) /\ unserved' = unserved \union {p.key}
      /\ UNCHANGED <<mode, subscribed, sent, socket, live, readers, bound, task, connected, stopped,
                     attempts, leaving, crossed, pending, drops, late>>
  BY DEF SubscribeInThreadFails, feed
<1>2. TypeOK'
  BY <1>1, Registers DEF FeedInv, TypeOK
<1>3. ConsumersAsked'
  BY <1>1, Registers DEF FeedInv, ConsumersAsked
<1>4. Replayed' /\ StreamMatches'
  BY <1>1 DEF FeedInv, Replayed, StreamMatches
<1> QED BY <1>2, <1>3, <1>4 DEF FeedInv

\* A scheduled connect() finishes.
LEMMA ConnectDoneStep ==
  ASSUME FeedInv, NEW p \in Calls, ConnectDone(p)
  PROVE  FeedInv'
<1>1. /\ p \in pending /\ Free # {} /\ pending' = pending \ {p}
      /\ socket' = Fresh /\ task' = Fresh /\ live' = live \union {Fresh}
      /\ readers' = [readers EXCEPT ![Fresh] = "new"]
      /\ connected' = TRUE /\ stopped' = FALSE /\ crossed' \in BOOLEAN
      /\ Ask(p.key, p.mode, Fresh, [sent EXCEPT ![Fresh] = Replay], TRUE)
      /\ late' = IF registry[p.key] = {} THEN late \union {p.key} ELSE late
      /\ UNCHANGED <<registry, bound, attempts, leaving, drops>>
  BY DEF ConnectDone
<1>2. /\ Fresh \in Sockets /\ Fresh \in 0 .. MaxSockets /\ live' \subseteq Sockets
      /\ [sent EXCEPT ![Fresh] = Replay] \in [Sockets -> [Keys -> ModeOrNone]]
      /\ [sent EXCEPT ![Fresh] = Replay][Fresh] = Replay
  BY <1>1, FreshIsFree, Replays DEF FeedInv, TypeOK, ModeOrNone
<1>3. /\ mode' \in [Keys -> ModeOrNone] /\ mode'[p.key] = p.mode
      /\ \A j \in Keys \ {p.key} : mode'[j] = mode[j]
      /\ p.key \in Keys /\ p.mode # None
      /\ subscribed' \subseteq Keys /\ unserved' \subseteq Keys /\ unserved \subseteq unserved'
      /\ sent' \in [Sockets -> [Keys -> ModeOrNone]]
      /\ Replayed' /\ StreamMatches'
  BY <1>1, <1>2, NewSocket
<1>4. TypeOK'
  BY <1>1, <1>2, <1>3 DEF FeedInv, TypeOK, ModeOrNone, ReaderStates
<1>5. ConsumersAsked'
  BY <1>1, <1>3 DEF FeedInv, ConsumersAsked
<1> QED BY <1>3, <1>4, <1>5 DEF FeedInv

\* A scheduled connect() raises: its key is unserved.
LEMMA ConnectFailStep ==
  ASSUME FeedInv, NEW p \in Calls, ConnectFail(p)
  PROVE  FeedInv'
<1>1. /\ p.key \in Keys /\ pending' = pending \ {p} /\ unserved' = unserved \union {p.key}
      /\ UNCHANGED <<registry, mode, subscribed, sent, socket, live, readers, bound, task, connected,
                     stopped, attempts, leaving, crossed, drops, late>>
  BY UpstoxStreamsConfig DEF ConnectFail, feed
<1>2. TypeOK'
  BY <1>1 DEF FeedInv, TypeOK
<1>3. ConsumersAsked'
  BY <1>1 DEF FeedInv, ConsumersAsked
<1>4. Replayed' /\ StreamMatches'
  BY <1>1 DEF FeedInv, Replayed, StreamMatches
<1> QED BY <1>2, <1>3, <1>4 DEF FeedInv

\* Consumers leave: the last one takes the key with it.
LEMMA UnsubscribeStep ==
  ASSUME FeedInv, NEW k \in Keys, NEW cs \in SUBSET registry[k], Unsubscribe(k, cs)
  PROVE  FeedInv'
<1>1. /\ registry' = [registry EXCEPT ![k] = @ \ cs]
      /\ UNCHANGED <<socket, live, readers, bound, task, connected, stopped, attempts, leaving,
                     crossed, pending, drops>>
  BY DEF Unsubscribe, feed
<1>2. /\ registry' \in [Keys -> SUBSET Consumers] /\ registry'[k] = registry[k] \ cs
      /\ \A j \in Keys \ {k} : registry'[j] = registry[j]
  BY <1>1 DEF FeedInv, TypeOK
<1>3. CASE registry[k] # cs
  <2>1. UNCHANGED <<mode, subscribed, sent, unserved, late>> /\ registry'[k] # {} /\ registry[k] # {}
    BY <1>2, <1>3 DEF Unsubscribe
  <2>2. TypeOK'
    BY <1>1, <1>2, <2>1 DEF FeedInv, TypeOK
  <2>3. ConsumersAsked'
    BY <1>1, <1>2, <2>1 DEF FeedInv, ConsumersAsked
  <2>4. Replayed' /\ StreamMatches'
    BY <1>1, <2>1 DEF FeedInv, Replayed, StreamMatches
  <2> QED BY <2>2, <2>3, <2>4 DEF FeedInv
<1>4. CASE registry[k] = cs
  <2> DEFINE unsent == cs \cap Threads # {} /\ socket # 0 /\ TaskState \in {"none", "stillborn"}
  <2>1. /\ mode' = [mode EXCEPT ![k] = None]
        /\ subscribed' = subscribed \/ subscribed' = subscribed \ {k}
        /\ sent' = IF ~unsent /\ socket \in live THEN [sent EXCEPT ![socket][k] = None] ELSE sent
        /\ unserved' = IF unsent THEN unserved \union {k} ELSE unserved \ {k}
        /\ late' = late \ {k} /\ registry'[k] = {}
    BY <1>2, <1>4 DEF Unsubscribe, Drop
  <2> HIDE DEF unsent
  <2>2. /\ mode' \in [Keys -> ModeOrNone] /\ mode'[k] = None
        /\ \A j \in Keys \ {k} : mode'[j] = mode[j]
    BY <2>1 DEF FeedInv, TypeOK, ModeOrNone
  <2>3. /\ sent' \in [Sockets -> [Keys -> ModeOrNone]]
        /\ socket \in live => /\ k \in unserved' \/ sent'[socket][k] = None
                              /\ \A j \in Keys \ {k} : sent'[socket][j] = sent[socket][j]
    <3>1. CASE unsent
      BY <2>1, <3>1 DEF FeedInv, TypeOK, ModeOrNone
    <3>2. CASE ~unsent
      BY <2>1, <3>2 DEF FeedInv, TypeOK, ModeOrNone
    <3> QED BY <3>1, <3>2
  <2>4. TypeOK'
    BY <1>1, <1>2, <2>1, <2>2, <2>3 DEF FeedInv, TypeOK, ModeOrNone
  <2>5. ConsumersAsked'
    BY <1>1, <1>2, <2>1, <2>2 DEF FeedInv, ConsumersAsked
  <2>6. Replayed' /\ StreamMatches'
    BY <1>1, <2>1, <2>2, <2>3 DEF FeedInv, Replayed, StreamMatches
  <2> QED BY <2>4, <2>5, <2>6 DEF FeedInv
<1> QED BY <1>3, <1>4

\* Zero is a value of every counter, and the number of no socket.
LEMMA Zeros == /\ 0 \in 0 .. MaxSockets /\ 0 \in 0 .. MaxRetries /\ 0 \in 0 .. MaxDrops
               /\ 0 \notin Sockets
BY UpstoxStreamsConfig DEF Sockets

\* A reader goes on.
LEMMA GoesOn ==
  ASSUME TypeOK, NEW r \in Sockets, NEW state \in ReaderStates, Goes(r, state)
  PROVE  readers' \in [Sockets -> ReaderStates] /\ bound' \in [Sockets -> 0 .. MaxSockets]
BY Zeros DEF Goes, TypeOK

\* What a step does that opens no socket and leaves the books alone.
Quiet == /\ UNCHANGED <<registry, mode, subscribed, pending, unserved, late, crossed>>
         /\ live' \subseteq live
         /\ socket' = socket \/ socket' = 0
         /\ sent' = sent \/ sent' = Streamed(live')

\* Such a step keeps the invariant when it keeps the types of the feed.
LEMMA QuietStep ==
  ASSUME FeedInv, Quiet,
         readers' \in [Sockets -> ReaderStates], bound' \in [Sockets -> 0 .. MaxSockets],
         task' \in 0 .. MaxSockets, connected' \in BOOLEAN, stopped' \in BOOLEAN,
         attempts' \in 0 .. MaxRetries, leaving' \in {"no", "task", "close"},
         drops' \in 0 .. MaxDrops
  PROVE  FeedInv'
<1>1. live' \subseteq Sockets /\ socket' \in 0 .. MaxSockets
  BY Zeros DEF Quiet, FeedInv, TypeOK
<1>2. /\ sent' \in [Sockets -> [Keys -> ModeOrNone]]
      /\ \A s \in live' : sent'[s] = sent[s]
  <2>1. CASE sent' = sent
    BY <2>1 DEF FeedInv, TypeOK, ModeOrNone
  <2>2. CASE sent' = Streamed(live')
    BY <1>1, <2>2, Closes DEF FeedInv
  <2> QED BY <2>1, <2>2 DEF Quiet
<1>3. TypeOK'
  BY <1>1, <1>2 DEF Quiet, FeedInv, TypeOK, ModeOrNone
<1>4. ConsumersAsked' /\ Replayed'
  BY DEF Quiet, FeedInv, ConsumersAsked, Replayed
<1>5. StreamMatches'
  BY <1>1, <1>2, Zeros DEF Quiet, FeedInv, StreamMatches
<1> QED BY <1>3, <1>4, <1>5 DEF FeedInv

\* A reader's first run, frames, errors and the closing of sockets.
LEMMA ReaderStep ==
  ASSUME FeedInv, NEW r \in Sockets,
         \/ Start(r) \/ Frame(r) \/ RecvError(r) \/ Loss(r)
         \/ ReconnectClose(r) \/ ReconnectClosed(r) \/ ReconnectFail(r)
  PROVE  FeedInv'
<1>1. Quiet
  BY DEF Quiet, Start, Frame, RecvError, Loss, ReconnectClose, ReconnectClosed, ReconnectFail
<1>2. readers' \in [Sockets -> ReaderStates] /\ bound' \in [Sockets -> 0 .. MaxSockets]
  <2>1. CASE Start(r)
    BY <2>1, Zeros DEF Start, FeedInv, TypeOK, ReaderStates
  <2>2. CASE Loss(r)
    BY <2>2 DEF Loss, FeedInv, TypeOK
  <2>3. CASE Frame(r) \/ RecvError(r) \/ ReconnectClose(r) \/ ReconnectClosed(r) \/ ReconnectFail(r)
    <3>1. PICK state \in ReaderStates : Goes(r, state)
      BY <2>3 DEF Frame, RecvError, ReconnectClose, ReconnectClosed, ReconnectFail, Reader,
                  ReaderStates
    <3> QED BY <3>1, GoesOn DEF FeedInv
  <2> QED BY <2>1, <2>2, <2>3
<1>3. /\ task' = task /\ stopped' = stopped /\ leaving' = leaving
      /\ connected' \in BOOLEAN /\ attempts' \in 0 .. MaxRetries /\ drops' \in 0 .. MaxDrops
  <2>1. \A n \in 0 .. MaxRetries : n < MaxRetries => n + 1 \in 0 .. MaxRetries
    BY UpstoxStreamsConfig
  <2>2. \A n \in 0 .. MaxDrops : n < MaxDrops => n + 1 \in 0 .. MaxDrops
    BY UpstoxStreamsConfig
  <2>3. /\ connected \in BOOLEAN
        /\ attempts \in 0 .. MaxRetries /\ drops \in 0 .. MaxDrops
    BY DEF FeedInv, TypeOK
  <2>4. CASE Start(r) \/ ReconnectClose(r) \/ ReconnectClosed(r)
    BY <2>3, <2>4 DEF Start, ReconnectClose, ReconnectClosed
  <2>5. CASE Frame(r)
    BY <2>3, <2>5, Zeros DEF Frame
  <2>6. CASE RecvError(r)
    BY <2>1, <2>3, <2>6 DEF RecvError
  <2>7. CASE Loss(r)
    BY <2>2, <2>3, <2>7 DEF Loss
  <2>8. CASE ReconnectFail(r)
    BY <2>3, <2>8 DEF ReconnectFail
  <2> QED BY <2>4, <2>5, <2>6, <2>7, <2>8
<1> QED BY <1>1, <1>2, <1>3, QuietStep DEF FeedInv, TypeOK

\* A reader opens another socket, and the keys are replayed on it.
LEMMA ReconnectOpenStep ==
  ASSUME FeedInv, NEW r \in Sockets, ReconnectOpen(r)
  PROVE  FeedInv'
<1>1. /\ Free # {} /\ Reader(r) /\ socket' = Fresh /\ live' = live \union {Fresh}
      /\ sent' = [sent EXCEPT ![Fresh] = Replay] /\ connected' = TRUE
      /\ UNCHANGED <<registry, mode, subscribed, task, stopped, attempts, leaving, pending,
                     drops, unserved, late, crossed>>
  BY DEF ReconnectOpen
<1>2. /\ Fresh \in Sockets /\ Fresh \in 0 .. MaxSockets
      /\ sent' \in [Sockets -> [Keys -> ModeOrNone]] /\ sent'[Fresh] = Replay
  BY <1>1, FreshIsFree, Replays DEF FeedInv, TypeOK, ModeOrNone
<1>3. TypeOK'
  <2>1. readers' \in [Sockets -> ReaderStates] /\ bound' \in [Sockets -> 0 .. MaxSockets]
    BY <1>1, GoesOn DEF FeedInv, Reader, ReaderStates
  <2> QED BY <1>1, <1>2, <2>1 DEF FeedInv, TypeOK, ModeOrNone
<1>4. ConsumersAsked' /\ Replayed'
  BY <1>1 DEF FeedInv, ConsumersAsked, Replayed
<1>5. StreamMatches'
  BY <1>1, <1>2, Replays DEF StreamMatches
<1> QED BY <1>3, <1>4, <1>5 DEF FeedInv

\* disconnect() cancels the reader, closes the socket and forgets both.
LEMMA DisconnectStep ==
  ASSUME FeedInv, Disconnect \/ DisconnectTask \/ DisconnectSocket
  PROVE  FeedInv'
<1>1. Quiet
  BY DEF Quiet, Disconnect, DisconnectTask, DisconnectSocket, DisconnectClose
<1>2. readers' \in [Sockets -> ReaderStates] /\ bound' \in [Sockets -> 0 .. MaxSockets]
  <2>1. CASE UNCHANGED <<readers, bound>>
    BY <2>1 DEF FeedInv, TypeOK
  <2>2. CASE ~UNCHANGED <<readers, bound>>
    <3>1. task \in Sockets /\ Goes(task, "none")
      BY <2>2, UpstoxStreamsConfig
      DEF Disconnect, DisconnectTask, DisconnectSocket, FeedInv, TypeOK, Sockets
    <3> QED BY <3>1, GoesOn DEF FeedInv, ReaderStates
  <2> QED BY <2>1, <2>2
<1>3. /\ task' \in 0 .. MaxSockets /\ connected' \in BOOLEAN /\ stopped' \in BOOLEAN
      /\ attempts' \in 0 .. MaxRetries /\ leaving' \in {"no", "task", "close"}
      /\ drops' \in 0 .. MaxDrops
  <2>1. /\ task \in 0 .. MaxSockets /\ connected \in BOOLEAN /\ stopped \in BOOLEAN
        /\ attempts \in 0 .. MaxRetries /\ leaving \in {"no", "task", "close"}
        /\ drops \in 0 .. MaxDrops
    BY DEF FeedInv, TypeOK
  <2> QED BY <2>1, Zeros DEF Disconnect, DisconnectTask, DisconnectSocket, DisconnectClose, Goes
<1> QED BY <1>1, <1>2, <1>3, QuietStep

\* The inductive invariant holds.
THEOREM FeedInvariant == Spec => []FeedInv
<1>1. Init => FeedInv
  <2> SUFFICES ASSUME Init PROVE FeedInv
    OBVIOUS
  <2>1. /\ [k \in Keys |-> {}] \in [Keys -> SUBSET Consumers]
        /\ Nothing \in [Keys -> Modes \union {None}]
        /\ [s \in Sockets |-> "none"] \in [Sockets -> ReaderStates]
        /\ [s \in Sockets |-> 0] \in [Sockets -> 0 .. MaxSockets]
    BY Zeros DEF Nothing, ReaderStates
  <2>2. [s \in Sockets |-> Nothing] \in [Sockets -> [Keys -> Modes \union {None}]]
    BY <2>1
  <2>3. TypeOK
    BY <2>1, <2>2, Zeros DEF Init, TypeOK
  <2>4. ConsumersAsked /\ Replayed
    BY DEF Init, ConsumersAsked, Replayed, Nothing
  <2>5. StreamMatches
    BY DEF Init, StreamMatches
  <2> QED BY <2>3, <2>4, <2>5 DEF FeedInv
<1>2. FeedInv /\ [Next]_vars => FeedInv'
  <2> SUFFICES ASSUME FeedInv, [Next]_vars PROVE FeedInv'
    OBVIOUS
  <2>1. CASE UNCHANGED vars
    BY <2>1 DEF vars, FeedInv, TypeOK, ConsumersAsked, Replayed, StreamMatches
  <2> QED BY <2>1, SubscribeConnectedStep, SubscribeOnLoopStep, SubscribeInThreadStep,
             SubscribeInThreadFailsStep,
             ConnectDoneStep, ConnectFailStep, UnsubscribeStep, ReaderStep, ReconnectOpenStep,
             DisconnectStep DEF Next
<1> QED BY <1>1, <1>2, PTL DEF Spec

\* For any consumers, instruments and limits every variable keeps its type
\* (UpstoxMarketDataV3Multiplexer, StreamManagerAdapter).
THEOREM Typing == Spec => []TypeOK
<1>1. FeedInv => TypeOK
  BY DEF FeedInv
<1> QED BY <1>1, FeedInvariant, PTL

\* For any consumers, instruments and limits, whatever others do and whatever is
\* lost: an instrument with consumers is asked for, will be, or was refused; one
\* without is not, but for late connects (StreamManagerAdapter.subscribe and
\* unsubscribe).
THEOREM EveryConsumerAsked == Spec => []ConsumersAsked
<1>1. FeedInv => ConsumersAsked
  BY DEF FeedInv
<1> QED BY <1>1, FeedInvariant, PTL

\* For any consumers, instruments and limits, over any losses and reconnects:
\* Upstox streams on the current socket what the manager has recorded
\* (_maybe_send_initial_subscriptions, UpstoxV3SubscriptionManager).
THEOREM StreamsMatch == Spec => []StreamMatches
<1>1. FeedInv => StreamMatches
  BY DEF FeedInv
<1> QED BY <1>1, FeedInvariant, PTL
===============================================================================
