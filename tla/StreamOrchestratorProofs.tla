----------------------- MODULE StreamOrchestratorProofs -----------------------
(***************************************************************************)
(* Proofs about StreamOrchestrator, for any number of clients, sessions,   *)
(* brokers and instruments: subscribers have the streams they asked for,   *)
(* and a feed is taken down under streams that are gone.                   *)
(***************************************************************************)
EXTENDS StreamOrchestrator, TLAPS

\* Where the tasks stand, and what they work on there.  The stopper is idle
\* until stop() has been called.
Placed ==
  /\ running => pc[Stopper] = "idle"
  /\ \A t \in Task : /\ pc[t] \in {"open", "merge", "cancel"} => at[t] \in Session
                     /\ pc[t] = "disconnect" => at[t] \in Broker \cup {None}
                     /\ pc[t] = "feed" => at[t] \in Broker
  /\ \A c \in Client : pc[c] \in {"open", "merge"} => request[c] # None /\ sub[c] = None
  /\ \A c \in Client : sub[c] # None => request[c] # None

\* A session that is being opened is in the table, with what was asked for, and
\* nobody is to disconnect it.
BeingOpened ==
  \A c \in Client : pc[c] = "open" =>
    /\ session[at[c]] # None
    /\ session[at[c]].instruments = request[c].instruments
    /\ at[c] \notin todo
    /\ \A t \in Task \ {c} : pc[t] = "cancel" => at[t] # at[c]

\* A monitor at work has a session, and a broker to ask for a stream.
Watched ==
  \A s \in Session :
    /\ monitor[s] \in {"watch", "backoff", "opening", "opened"} => session[s] # None
    /\ monitor[s] \in {"opening", "opened"} => target[s] \in Broker

\* A connected session has a stream for all it lists, or the broker refused it,
\* or a client is merging it.
Whole ==
  running => \A s \in Session : session[s] # None /\ session[s].connected =>
    \A i \in session[s].instruments :
       \/ i \in streamed[s] \/ i \in failed[s]
       \/ \E c \in Client : pc[c] = "merge" /\ at[c] = s /\ i \in request[c].instruments

\* A client merges into a session that lists what it asked for.
Merging ==
  running => \A c \in Client : pc[c] = "merge" =>
    /\ session[at[c]] # None
    /\ request[c].instruments \subseteq session[at[c]].instruments

\* A session that a client disconnects has no consumers.
Abandoned ==
  running => \A c \in Client : pc[c] = "cancel" => \A d \in Client : sub[d] # at[c]

\* The inductive invariant.
StreamInv ==
  /\ TypeOK /\ Placed /\ BeingOpened /\ Watched
  /\ Whole /\ Merging /\ Abandoned /\ SubscribersStreamed /\ FeedDownUnused

\* The clients other than the one with the lock are idle.
LEMMA OthersIdle ==
  ASSUME TypeOK
  PROVE  /\ lock = Free => \A c \in Client : pc[c] = "idle"
         /\ \A c, d \in Client : pc[c] # "idle" /\ d # c => pc[d] = "idle"
BY StreamConfig DEF TypeOK

\* A client goes to l, taking or keeping the lock.
LEMMA Enters ==
  ASSUME TypeOK, NEW c \in Client, NEW l \in {"open", "merge", "cancel"}, NEW x \in Session,
         lock = Free, lock' = c, Goto(c, l), at' = [at EXCEPT ![c] = x]
  PROVE  /\ lock' \in Client \cup {Free}
         /\ pc' \in [Task -> {"idle", "merge", "open", "cancel", "disconnect", "feed",
                              "stop", "next"}]
         /\ at' \in [Task -> Session \cup Broker \cup {None}]
         /\ \A d \in Client : lock' = d <=> pc'[d] # "idle"
         /\ pc'[c] = l /\ at'[c] = x
         /\ \A t \in Task \ {c} : pc'[t] = pc[t] /\ at'[t] = at[t]
         /\ \A d \in Client : pc[d] = "idle"
BY StreamConfig DEF TypeOK, Goto, Task

\* A client's call ends.
LEMMA Returns ==
  ASSUME TypeOK, NEW c \in Client, pc[c] # "idle", Return(c)
  PROVE  /\ lock' \in Client \cup {Free}
         /\ pc' \in [Task -> {"idle", "merge", "open", "cancel", "disconnect", "feed",
                              "stop", "next"}]
         /\ at' \in [Task -> Session \cup Broker \cup {None}]
         /\ \A d \in Client : lock' = d <=> pc'[d] # "idle"
         /\ \A d \in Client : pc'[d] = "idle"
         /\ \A t \in Task \ {c} : pc'[t] = pc[t] /\ at'[t] = at[t]
<1>1. lock = c /\ \A d \in Client \ {c} : pc[d] = "idle"
  BY DEF TypeOK
<1>2. Free \notin Client /\ c \in Task
  BY StreamConfig DEF Task
<1> QED BY <1>1, <1>2 DEF TypeOK, Return, Goto

\* What a client asks for.
LEMMA AskedFor ==
  ASSUME TypeOK, NEW c \in Client, Asks(c)
  PROVE  /\ pc[c] = "idle" /\ lock = Free /\ sub[c] = None
         /\ request' \in [Client -> Request \cup {None}]
         /\ request'[c] \in Request /\ request'[c] # None
         /\ request'[c].broker \in Broker /\ request'[c].instruments \in (SUBSET Instrument) \ {{}}
         /\ \A d \in Client \ {c} : request'[d] = request[d]
<1>1. PICK r \in Requested :
        r[1] = c /\ request' = [request EXCEPT ![c] = [broker |-> r[2], instruments |-> r[3]]]
  BY DEF Asks
<1>2. r[2] \in Broker /\ r[3] \in (SUBSET Instrument) \ {{}}
  BY StreamConfig
<1>3. [broker |-> r[2], instruments |-> r[3]] \in Request
  BY <1>2 DEF Request
<1>4. request' \in [Client -> Request \cup {None}] /\ request'[c] = [broker |-> r[2], instruments |-> r[3]]
  BY <1>1, <1>3 DEF TypeOK
<1> QED BY <1>1, <1>2, <1>3, <1>4, NoneIsNoRecord DEF Asks, At, TypeOK

\* A consumer joins a session.
LEMMA JoinStep ==
  ASSUME StreamInv, NEW c \in Client, Join(c)
  PROVE  StreamInv'
<1>1. /\ pc[c] = "idle" /\ lock = Free
      /\ request' \in [Client -> Request \cup {None}] /\ request'[c] # None
      /\ \A d \in Client \ {c} : request'[d] = request[d]
  BY AskedFor DEF Join, StreamInv
<1>2. PICK s \in Session :
         /\ session[s] # None /\ session[s].connected
         /\ request'[c].instruments \subseteq session[s].instruments
         /\ sub' = [sub EXCEPT ![c] = s]
  BY DEF Join, Sessions, Reusable
<1>3. UNCHANGED <<running, lock, pc, at, session, handle, streamed, failed, monitor, target,
                  stray, held, frozen, todo>>
  BY DEF Join, tasks, sessions, monitors, adapters
<1>4. \A d \in Client : pc[d] = "idle"
  BY <1>1, OthersIdle DEF StreamInv
<1>5. s # None
  BY StreamConfig
<1>6. /\ sub' \in [Client -> Session \cup {None}] /\ sub'[c] = s
      /\ \A d \in Client \ {c} : sub'[d] = sub[d]
  BY <1>2 DEF StreamInv, TypeOK
<1>7. TypeOK'
  BY <1>1, <1>3, <1>6 DEF StreamInv, TypeOK
<1>8. Placed'
  BY <1>1, <1>3, <1>6 DEF StreamInv, Placed
<1>9. BeingOpened' /\ Watched' /\ Abandoned' /\ Merging'
  BY <1>3, <1>4 DEF StreamInv, BeingOpened, Watched, Abandoned, Merging
<1>10. Whole'
  BY <1>3, <1>4 DEF StreamInv, Whole
<1>11. SubscribersStreamed'
  <2>1. running => \A i \in request'[c].instruments : i \in streamed[s] \/ i \in failed[s]
    BY <1>2, <1>4 DEF StreamInv, Whole
  <2> QED BY <1>1, <1>2, <1>3, <1>6, <2>1 DEF StreamInv, SubscribersStreamed, Sessions
<1>12. FeedDownUnused'
  BY <1>3 DEF StreamInv, FeedDownUnused
<1> QED BY <1>7, <1>8, <1>9, <1>10, <1>11, <1>12 DEF StreamInv

\* A consumer adds instruments to a session.
LEMMA MergeStep ==
  ASSUME StreamInv, NEW c \in Client, Merge(c)
  PROVE  StreamInv'
<1>1. /\ pc[c] = "idle" /\ lock = Free
      /\ request' \in [Client -> Request \cup {None}] /\ request'[c] # None
      /\ request'[c].instruments \in (SUBSET Instrument) \ {{}}
      /\ \A d \in Client \ {c} : request'[d] = request[d]
      /\ sub[c] = None
  BY AskedFor DEF Merge, StreamInv
<1>2. PICK s \in Session :
         /\ session[s] # None /\ session[s].connected
         /\ session' = [session EXCEPT ![s].instruments = @ \cup request'[c].instruments]
         /\ at' = [at EXCEPT ![c] = s]
  BY DEF Merge, Sessions, Reusable
<1>3. UNCHANGED <<running, sub, handle, streamed, failed, monitor, target,
                  stray, held, frozen, todo>>
  BY DEF Merge, monitors, adapters
<1>4. /\ lock' \in Client \cup {Free}
      /\ pc' \in [Task -> {"idle", "merge", "open", "cancel", "disconnect", "feed",
                           "stop", "next"}]
      /\ at' \in [Task -> Session \cup Broker \cup {None}]
      /\ \A d \in Client : lock' = d <=> pc'[d] # "idle"
      /\ pc'[c] = "merge" /\ at'[c] = s
      /\ \A t \in Task \ {c} : pc'[t] = pc[t] /\ at'[t] = at[t]
      /\ \A d \in Client : pc[d] = "idle"
  BY <1>1, <1>2, Enters DEF Merge, StreamInv
<1>5. /\ session' \in [Session -> State \cup {None}]
      /\ session'[s] # None /\ session'[s].connected
      /\ session'[s].instruments = session[s].instruments \cup request'[c].instruments
      /\ \A r \in Session \ {s} : session'[r] = session[r]
  <2>1. session[s] \in State
    BY <1>2 DEF StreamInv, TypeOK
  <2>2. [session[s] EXCEPT !.instruments = @ \cup request'[c].instruments] \in State
    BY <1>1, <2>1 DEF State
  <2> QED BY <1>2, <2>1, <2>2, NoneIsNoRecord DEF StreamInv, TypeOK, State
<1>6. c \in Task /\ Stopper \in Task /\ Stopper # c /\ Client \subseteq Task
  BY StreamConfig DEF Task
<1>7. TypeOK'
  BY <1>1, <1>3, <1>4, <1>5 DEF StreamInv, TypeOK
<1>8. Placed'
  BY <1>1, <1>3, <1>4, <1>6 DEF StreamInv, Placed
<1>9. BeingOpened' /\ Watched' /\ Abandoned' /\ Merging'
  BY <1>3, <1>4, <1>5, <1>6 DEF StreamInv, BeingOpened, Watched, Abandoned, Merging
<1>10. Whole'
  <2> SUFFICES ASSUME running', NEW r \in Session, session'[r] # None, session'[r].connected,
                      NEW i \in session'[r].instruments
               PROVE  \/ i \in streamed'[r] \/ i \in failed'[r]
                      \/ \E d \in Client : pc'[d] = "merge" /\ at'[d] = r /\ i \in request'[d].instruments
    BY DEF Whole
  <2>1. CASE r = s /\ i \in request'[c].instruments
    BY <1>4, <2>1
  <2>2. CASE session[r] # None /\ session[r].connected /\ i \in session[r].instruments
    BY <1>3, <1>4, <2>2 DEF StreamInv, Whole
  <2> QED BY <1>2, <1>5, <2>1, <2>2
<1>11. SubscribersStreamed'
  BY <1>1, <1>3, <1>5, <1>6 DEF StreamInv, SubscribersStreamed, Sessions
<1>12. FeedDownUnused'
  BY <1>3 DEF StreamInv, FeedDownUnused
<1> QED BY <1>7, <1>8, <1>9, <1>10, <1>11, <1>12 DEF StreamInv

\* Its stream is open.
LEMMA MergeDoneStep ==
  ASSUME StreamInv, NEW c \in Client, MergeDone(c)
  PROVE  StreamInv'
<1> DEFINE s == at[c]
<1>1. /\ pc[c] = "merge" /\ s \in Session /\ request[c] # None /\ request[c] \in Request
      /\ c \in Task /\ Stopper \in Task /\ Stopper # c /\ Client \subseteq Task
  BY StreamConfig DEF MergeDone, At, StreamInv, Placed, TypeOK, Task
<1>2. /\ request[c].broker \in Broker /\ request[c].instruments \in SUBSET Instrument
  BY <1>1 DEF Request
<1>3. /\ streamed' = Noted(streamed, s, request[c].instruments \ failed[s])
      /\ stray' = stray \cup {request[c].broker}
      /\ sub' = [sub EXCEPT ![c] = s]
      /\ UNCHANGED <<running, request, session, handle, failed, monitor, target, held, frozen, todo>>
  BY DEF MergeDone, monitors
<1>4. /\ lock' \in Client \cup {Free}
      /\ pc' \in [Task -> {"idle", "merge", "open", "cancel", "disconnect", "feed",
                           "stop", "next"}]
      /\ at' \in [Task -> Session \cup Broker \cup {None}]
      /\ \A d \in Client : lock' = d <=> pc'[d] # "idle"
      /\ \A d \in Client : pc'[d] = "idle"
      /\ \A t \in Task \ {c} : pc'[t] = pc[t] /\ at'[t] = at[t]
  BY <1>1, Returns DEF MergeDone, StreamInv
<1>5. /\ streamed' \in [Session -> SUBSET Instrument]
      /\ \A r \in Session : streamed[r] \subseteq streamed'[r]
      /\ session[s] # None => \A i \in request[c].instruments : i \in streamed'[s] \/ i \in failed[s]
  BY <1>1, <1>2, <1>3 DEF StreamInv, TypeOK, Noted, Sessions
<1>6. /\ sub' \in [Client -> Session \cup {None}] /\ sub'[c] = s
      /\ \A d \in Client \ {c} : sub'[d] = sub[d] /\ pc[d] = "idle"
  BY <1>1, <1>3, OthersIdle DEF StreamInv, TypeOK
<1>7. TypeOK'
  BY <1>2, <1>3, <1>4, <1>5, <1>6 DEF StreamInv, TypeOK
<1>8. Placed'
  BY <1>1, <1>3, <1>4, <1>6 DEF StreamInv, Placed
<1>9. BeingOpened' /\ Watched' /\ Abandoned' /\ Merging'
  BY <1>3, <1>4 DEF StreamInv, BeingOpened, Watched, Abandoned, Merging
<1>10. Whole'
  <2> SUFFICES ASSUME running', NEW r \in Session, session'[r] # None, session'[r].connected,
                      NEW i \in session'[r].instruments
               PROVE  \/ i \in streamed'[r] \/ i \in failed'[r]
                      \/ \E d \in Client : pc'[d] = "merge" /\ at'[d] = r /\ i \in request'[d].instruments
    BY DEF Whole
  <2>1. \/ i \in streamed[r] \/ i \in failed[r]
        \/ r = s /\ i \in request[c].instruments
    BY <1>3, <1>6 DEF StreamInv, Whole
  <2> QED BY <1>3, <1>5, <2>1
<1>11. SubscribersStreamed'
  <2>1. running => session[s] # None /\ request[c].instruments \subseteq session[s].instruments
    BY <1>1 DEF StreamInv, Merging
  <2> QED BY <1>1, <1>3, <1>5, <1>6, <2>1 DEF StreamInv, SubscribersStreamed, Sessions
<1>12. FeedDownUnused'
  BY <1>3 DEF StreamInv, FeedDownUnused
<1> QED BY <1>7, <1>8, <1>9, <1>10, <1>11, <1>12 DEF StreamInv

\* It is refused.
LEMMA MergeFailsStep ==
  ASSUME StreamInv, NEW c \in Client, MergeFails(c)
  PROVE  StreamInv'
<1> DEFINE s == at[c]
<1>1. /\ pc[c] = "merge" /\ s \in Session /\ request[c] # None /\ request[c] \in Request
      /\ c \in Task /\ Stopper \in Task /\ Stopper # c /\ Client \subseteq Task
  BY StreamConfig DEF MergeFails, At, StreamInv, Placed, TypeOK, Task
<1>2. request[c].instruments \in SUBSET Instrument
  BY <1>1 DEF Request
<1>3. /\ failed' = Noted(failed, s, request[c].instruments \ streamed[s])
      /\ request' = [request EXCEPT ![c] = None]
      /\ UNCHANGED <<running, sub, session, handle, streamed, monitor, target, stray, held,
                     frozen, todo>>
  BY DEF MergeFails, Forget, monitors, adapters
<1>4. /\ lock' \in Client \cup {Free}
      /\ pc' \in [Task -> {"idle", "merge", "open", "cancel", "disconnect", "feed",
                           "stop", "next"}]
      /\ at' \in [Task -> Session \cup Broker \cup {None}]
      /\ \A d \in Client : lock' = d <=> pc'[d] # "idle"
      /\ \A d \in Client : pc'[d] = "idle"
      /\ \A t \in Task \ {c} : pc'[t] = pc[t] /\ at'[t] = at[t]
  BY <1>1, Returns DEF MergeFails, StreamInv
<1>5. /\ failed' \in [Session -> SUBSET Instrument]
      /\ \A r \in Session : failed[r] \subseteq failed'[r]
      /\ session[s] # None => \A i \in request[c].instruments : i \in streamed[s] \/ i \in failed'[s]
  BY <1>1, <1>2, <1>3 DEF StreamInv, TypeOK, Noted, Sessions
<1>6. /\ request' \in [Client -> Request \cup {None}]
      /\ \A d \in Client \ {c} : request'[d] = request[d] /\ pc[d] = "idle"
  BY <1>1, <1>3, OthersIdle DEF StreamInv, TypeOK
<1>7. TypeOK'
  BY <1>3, <1>4, <1>5, <1>6 DEF StreamInv, TypeOK
<1>0. sub[c] = None
  BY <1>1 DEF StreamInv, Placed
<1>8. Placed'
  BY <1>0, <1>1, <1>3, <1>4, <1>6 DEF StreamInv, Placed
<1>9. BeingOpened' /\ Watched' /\ Abandoned' /\ Merging'
  BY <1>3, <1>4 DEF StreamInv, BeingOpened, Watched, Abandoned, Merging
<1>10. Whole'
  <2> SUFFICES ASSUME running', NEW r \in Session, session'[r] # None, session'[r].connected,
                      NEW i \in session'[r].instruments
               PROVE  \/ i \in streamed'[r] \/ i \in failed'[r]
                      \/ \E d \in Client : pc'[d] = "merge" /\ at'[d] = r /\ i \in request'[d].instruments
    BY DEF Whole
  <2>1. \/ i \in streamed[r] \/ i \in failed[r]
        \/ r = s /\ i \in request[c].instruments
    BY <1>3, <1>6 DEF StreamInv, Whole
  <2> QED BY <1>3, <1>5, <2>1
<1>11. SubscribersStreamed'
  BY <1>0, <1>3, <1>5, <1>6 DEF StreamInv, SubscribersStreamed, Sessions
<1>12. FeedDownUnused'
  BY <1>3 DEF StreamInv, FeedDownUnused
<1> QED BY <1>7, <1>8, <1>9, <1>10, <1>11, <1>12 DEF StreamInv

\* A session is opened for a client.
LEMMA OpenStep ==
  ASSUME StreamInv, NEW c \in Client, Open(c)
  PROVE  StreamInv'
<1>1. /\ pc[c] = "idle" /\ lock = Free
      /\ request' \in [Client -> Request \cup {None}] /\ request'[c] # None
      /\ request'[c].broker \in Broker
      /\ request'[c].instruments \in (SUBSET Instrument) \ {{}}
      /\ \A d \in Client \ {c} : request'[d] = request[d]
      /\ sub[c] = None
  BY AskedFor DEF Open, StreamInv
<1>2. PICK s \in Session :
         /\ session[s] = None /\ s \notin todo
         /\ \A d \in Client : sub[d] # s
         /\ \A t \in Task : at[t] # s
         /\ session' = [session EXCEPT ![s] =
                          [broker |-> request'[c].broker, connected |-> FALSE, generation |-> 0,
                           instruments |-> request'[c].instruments,
                           failover |-> c \notin Patient]]
         /\ at' = [at EXCEPT ![c] = s]
  BY DEF Open, Unused, Consumers
<1>3. UNCHANGED <<running, sub, handle, streamed, failed, monitor, target,
                  stray, held, frozen, todo>>
  BY DEF Open, monitors, adapters
<1>4. /\ lock' \in Client \cup {Free}
      /\ pc' \in [Task -> {"idle", "merge", "open", "cancel", "disconnect", "feed",
                           "stop", "next"}]
      /\ at' \in [Task -> Session \cup Broker \cup {None}]
      /\ \A d \in Client : lock' = d <=> pc'[d] # "idle"
      /\ pc'[c] = "open" /\ at'[c] = s
      /\ \A t \in Task \ {c} : pc'[t] = pc[t] /\ at'[t] = at[t]
      /\ \A d \in Client : pc[d] = "idle"
  BY <1>1, <1>2, Enters DEF Open, StreamInv
<1>5. /\ session' \in [Session -> State \cup {None}]
      /\ session'[s] # None /\ ~session'[s].connected
      /\ session'[s].instruments = request'[c].instruments
      /\ \A r \in Session \ {s} : session'[r] = session[r]
  <2>1. [broker |-> request'[c].broker, connected |-> FALSE, generation |-> 0,
         instruments |-> request'[c].instruments, failover |-> c \notin Patient] \in State
    BY <1>1, StreamConfig DEF State
  <2> QED BY <1>2, <2>1, NoneIsNoRecord DEF StreamInv, TypeOK
<1>6. c \in Task /\ Stopper \in Task /\ Stopper # c /\ Client \subseteq Task
  BY StreamConfig DEF Task
<1>7. TypeOK'
  BY <1>1, <1>3, <1>4, <1>5 DEF StreamInv, TypeOK
<1>8. Placed'
  BY <1>1, <1>3, <1>4, <1>6 DEF StreamInv, Placed
<1>9. BeingOpened'
  BY <1>2, <1>3, <1>4, <1>5, <1>6 DEF BeingOpened
<1>10. Watched' /\ Abandoned' /\ Merging'
  BY <1>3, <1>4, <1>5, <1>6 DEF StreamInv, Watched, Abandoned, Merging
<1>11. Whole'
  <2> SUFFICES ASSUME running', NEW r \in Session, session'[r] # None, session'[r].connected,
                      NEW i \in session'[r].instruments
               PROVE  i \in streamed'[r] \/ i \in failed'[r]
    BY DEF Whole
  <2>1. session[r] # None /\ session[r].connected /\ i \in session[r].instruments
    BY <1>5
  <2> QED BY <1>3, <1>4, <2>1 DEF StreamInv, Whole
<1>12. SubscribersStreamed'
  BY <1>1, <1>2, <1>3, <1>5 DEF StreamInv, SubscribersStreamed, Sessions
<1>13. FeedDownUnused'
  BY <1>3 DEF StreamInv, FeedDownUnused
<1> QED BY <1>7, <1>8, <1>9, <1>10, <1>11, <1>12, <1>13 DEF StreamInv

\* The broker gives it a stream.
LEMMA OpenDoneStep ==
  ASSUME StreamInv, NEW c \in Client, OpenDone(c)
  PROVE  StreamInv'
<1> DEFINE s == at[c]
<1>1. /\ pc[c] = "open" /\ s \in Session /\ request[c] # None /\ request[c] \in Request
      /\ sub[c] = None /\ held[request[c].broker] = Free
      /\ session[s] # None /\ session[s].instruments = request[c].instruments
      /\ c \in Task /\ Stopper \in Task /\ Stopper # c /\ Client \subseteq Task
  BY StreamConfig DEF OpenDone, At, StreamInv, Placed, BeingOpened, TypeOK, Task
<1>2. request[c].broker \in Broker /\ request[c].instruments \in SUBSET Instrument
  BY <1>1 DEF Request
<1>3. /\ handle' = [handle EXCEPT ![s] = [broker |-> request[c].broker, up |-> TRUE]]
      /\ session' = [session EXCEPT ![s].connected = TRUE]
      /\ streamed' = [streamed EXCEPT ![s] = request[c].instruments]
      /\ monitor' = [monitor EXCEPT ![s] = IF running THEN "watch" ELSE "done"]
      /\ sub' = [sub EXCEPT ![c] = s]
      /\ UNCHANGED <<running, request, failed, target, stray, held, frozen, todo>>
  BY DEF OpenDone, Opened, adapters
<1>4. /\ lock' \in Client \cup {Free}
      /\ pc' \in [Task -> {"idle", "merge", "open", "cancel", "disconnect", "feed",
                           "stop", "next"}]
      /\ at' \in [Task -> Session \cup Broker \cup {None}]
      /\ \A d \in Client : lock' = d <=> pc'[d] # "idle"
      /\ \A d \in Client : pc'[d] = "idle"
      /\ \A t \in Task \ {c} : pc'[t] = pc[t] /\ at'[t] = at[t]
  BY <1>1, Returns DEF OpenDone, Opened, StreamInv
<1>5. /\ session' \in [Session -> State \cup {None}]
      /\ session'[s] # None /\ session'[s].instruments = request[c].instruments
      /\ \A r \in Session \ {s} : session'[r] = session[r]
  <2>1. session[s] \in State
    BY <1>1 DEF StreamInv, TypeOK
  <2>2. /\ [session[s] EXCEPT !.connected = TRUE] \in State
        /\ [session[s] EXCEPT !.connected = TRUE].instruments = session[s].instruments
    BY <2>1 DEF State
  <2>3. session' = [session EXCEPT ![s] = [session[s] EXCEPT !.connected = TRUE]]
    BY <1>3
  <2> QED BY <1>1, <2>2, <2>3, NoneIsNoRecord DEF StreamInv, TypeOK
<1>6. /\ sub' \in [Client -> Session \cup {None}] /\ sub'[c] = s
      /\ \A d \in Client \ {c} : sub'[d] = sub[d] /\ pc[d] = "idle"
  BY <1>1, <1>3, OthersIdle DEF StreamInv, TypeOK
<1>7. /\ handle' \in [Session -> Handle \cup {None}] /\ handle'[s].broker = request[c].broker
      /\ \A r \in Session \ {s} : handle'[r] = handle[r]
  <2>1. [broker |-> request[c].broker, up |-> TRUE] \in Handle
    BY <1>2 DEF Handle
  <2> QED BY <1>1, <1>3, <2>1 DEF StreamInv, TypeOK
<1>8. /\ streamed' \in [Session -> SUBSET Instrument] /\ streamed'[s] = request[c].instruments
      /\ \A r \in Session \ {s} : streamed'[r] = streamed[r]
      /\ monitor' \in [Session -> {"none", "watch", "backoff", "opening", "opened", "done"}]
      /\ monitor'[s] \in {"watch", "done"}
      /\ \A r \in Session \ {s} : monitor'[r] = monitor[r]
  BY <1>1, <1>2, <1>3 DEF StreamInv, TypeOK
<1>9. TypeOK'
  BY <1>3, <1>4, <1>5, <1>6, <1>7, <1>8 DEF StreamInv, TypeOK
<1>10. Placed'
  BY <1>1, <1>3, <1>4, <1>6 DEF StreamInv, Placed
<1>11. BeingOpened' /\ Abandoned' /\ Merging'
  BY <1>4 DEF BeingOpened, Abandoned, Merging
<1>12. Watched'
  BY <1>3, <1>5, <1>8 DEF StreamInv, Watched
<1>13. Whole'
  <2> SUFFICES ASSUME running', NEW r \in Session, session'[r] # None, session'[r].connected,
                      NEW i \in session'[r].instruments
               PROVE  i \in streamed'[r] \/ i \in failed'[r]
    BY DEF Whole
  <2>1. CASE r = s
    BY <1>5, <1>8, <2>1
  <2>2. CASE r # s
    BY <1>1, <1>3, <1>5, <1>6, <1>8, <2>2 DEF StreamInv, Whole
  <2> QED BY <2>1, <2>2
<1>14. SubscribersStreamed'
  <2> SUFFICES ASSUME running', NEW d \in Client, sub'[d] # None
               PROVE  /\ session'[sub'[d]] # None /\ sub'[d] \in Session
                      /\ request'[d].instruments \subseteq session'[sub'[d]].instruments
                      /\ request'[d].instruments \subseteq streamed'[sub'[d]] \cup failed'[sub'[d]]
    BY DEF SubscribersStreamed, Sessions
  <2>1. CASE d = c
    BY <1>1, <1>3, <1>5, <1>6, <1>8, <2>1
  <2>2. CASE d # c
    <3>1. /\ sub[d] \in Session /\ session[sub[d]] # None
          /\ request[d].instruments \subseteq session[sub[d]].instruments
          /\ request[d].instruments \subseteq streamed[sub[d]] \cup failed[sub[d]]
      BY <1>3, <1>6, <2>2 DEF StreamInv, SubscribersStreamed, Sessions
    <3> QED BY <1>1, <1>3, <1>5, <1>6, <1>8, <2>2, <3>1
  <2> QED BY <2>1, <2>2
<1>15. FeedDownUnused'
  BY <1>1, <1>3, <1>7, <1>8 DEF StreamInv, FeedDownUnused
<1> QED BY <1>9, <1>10, <1>11, <1>12, <1>13, <1>14, <1>15 DEF StreamInv

\* The broker refuses.
LEMMA OpenFailsStep ==
  ASSUME StreamInv, NEW c \in Client, OpenFails(c)
  PROVE  StreamInv'
<1>1. /\ pc[c] = "open" /\ sub[c] = None
      /\ c \in Task /\ Stopper \in Task /\ Stopper # c /\ Client \subseteq Task
  BY StreamConfig DEF OpenFails, At, StreamInv, Placed, Task
<1>2. /\ request' = [request EXCEPT ![c] = None]
      /\ UNCHANGED <<running, sub, session, handle, streamed, failed, monitor, target, stray,
                     held, frozen, todo>>
  BY DEF OpenFails, Forget, monitors, adapters
<1>3. /\ lock' \in Client \cup {Free}
      /\ pc' \in [Task -> {"idle", "merge", "open", "cancel", "disconnect", "feed",
                           "stop", "next"}]
      /\ at' \in [Task -> Session \cup Broker \cup {None}]
      /\ \A d \in Client : lock' = d <=> pc'[d] # "idle"
      /\ \A d \in Client : pc'[d] = "idle"
      /\ \A t \in Task \ {c} : pc'[t] = pc[t] /\ at'[t] = at[t]
  BY <1>1, Returns DEF OpenFails, StreamInv
<1>4. /\ request' \in [Client -> Request \cup {None}]
      /\ \A d \in Client \ {c} : request'[d] = request[d] /\ pc[d] = "idle"
  BY <1>1, <1>2, OthersIdle DEF StreamInv, TypeOK
<1>5. TypeOK'
  BY <1>2, <1>3, <1>4 DEF StreamInv, TypeOK
<1>6. Placed'
  BY <1>1, <1>2, <1>3, <1>4 DEF StreamInv, Placed
<1>7. BeingOpened' /\ Watched' /\ Abandoned' /\ Merging'
  BY <1>2, <1>3 DEF StreamInv, BeingOpened, Watched, Abandoned, Merging
<1>8. Whole'
  BY <1>1, <1>2, <1>4 DEF StreamInv, Whole
<1>9. SubscribersStreamed'
  BY <1>1, <1>2, <1>4 DEF StreamInv, SubscribersStreamed, Sessions
<1>10. FeedDownUnused'
  BY <1>2 DEF StreamInv, FeedDownUnused
<1> QED BY <1>5, <1>6, <1>7, <1>8, <1>9, <1>10 DEF StreamInv

\* Monitors are cancelled: the others go on as they were.
LEMMA Cancels ==
  ASSUME TypeOK, Watched, NEW S, S \subseteq Session, Cancel(S)
  PROVE  /\ monitor' \in [Session -> {"none", "watch", "backoff", "opening", "opened", "done"}]
         /\ target' \in [Session -> Broker \cup {None}]
         /\ stray' \subseteq Broker
         /\ \A s \in Session : \/ monitor'[s] = monitor[s] /\ target'[s] = target[s]
                               \/ monitor'[s] \in {"none", "done"}
<1>1. \A s \in Session : monitor[s] = "opened" => target[s] \in Broker
  BY DEF Watched
<1>2. stray' \subseteq Broker
  <2> SUFFICES ASSUME NEW b \in stray' PROVE b \in Broker
    OBVIOUS
  <2>1. b \in stray \/ \E s \in S : monitor[s] = "opened" /\ b = target[s]
    BY DEF Cancel
  <2> QED BY <1>1, <2>1 DEF TypeOK
<1> QED BY <1>2 DEF TypeOK, Cancel

\* A consumer leaves others to the session.
LEMMA LeaveStep ==
  ASSUME StreamInv, NEW c \in Client, Leave(c)
  PROVE  StreamInv'
<1>1. /\ lock = Free
      /\ sub' = [sub EXCEPT ![c] = None] /\ request' = [request EXCEPT ![c] = None]
      /\ UNCHANGED <<running, lock, pc, at, session, handle, streamed, failed, monitor, target,
                     stray, held, frozen, todo>>
  BY DEF Leave, Forget, tasks, sessions, monitors, adapters
<1>2. \A d \in Client : pc[d] = "idle"
  BY <1>1, OthersIdle DEF StreamInv
<1>3. /\ sub' \in [Client -> Session \cup {None}] /\ sub'[c] = None
      /\ request' \in [Client -> Request \cup {None}]
      /\ \A d \in Client \ {c} : sub'[d] = sub[d] /\ request'[d] = request[d]
  BY <1>1 DEF StreamInv, TypeOK
<1>4. TypeOK'
  BY <1>1, <1>3 DEF StreamInv, TypeOK
<1>5. Placed'
  BY <1>1, <1>2, <1>3 DEF StreamInv, Placed
<1>6. BeingOpened' /\ Watched' /\ Abandoned' /\ Merging'
  BY <1>1, <1>2 DEF StreamInv, BeingOpened, Watched, Abandoned, Merging
<1>7. Whole'
  BY <1>1, <1>2 DEF StreamInv, Whole
<1>8. SubscribersStreamed'
  BY <1>1, <1>3 DEF StreamInv, SubscribersStreamed, Sessions
<1>9. FeedDownUnused'
  BY <1>1 DEF StreamInv, FeedDownUnused
<1> QED BY <1>4, <1>5, <1>6, <1>7, <1>8, <1>9 DEF StreamInv

\* The last one leaves.
LEMMA CloseStep ==
  ASSUME StreamInv, NEW c \in Client, Close(c)
  PROVE  StreamInv'
<1> DEFINE s == sub[c]
<1>1. /\ pc[c] = "idle" /\ lock = Free /\ s # None /\ s \in Session
      /\ \A d \in Client \ {c} : sub[d] # s
      /\ c \in Task /\ Stopper \in Task /\ Stopper # c /\ Client \subseteq Task
  BY StreamConfig DEF Close, At, StreamInv, TypeOK, Task, Consumers
<1>2. /\ sub' = [sub EXCEPT ![c] = None] /\ request' = [request EXCEPT ![c] = None]
      /\ UNCHANGED <<running, session, handle, streamed, failed, held, frozen, todo>>
  BY DEF Close, Forget, sessions
<1>3. /\ monitor' \in [Session -> {"none", "watch", "backoff", "opening", "opened", "done"}]
      /\ target' \in [Session -> Broker \cup {None}]
      /\ stray' \subseteq Broker
      /\ \A r \in Session : \/ monitor'[r] = monitor[r] /\ target'[r] = target[r]
                            \/ monitor'[r] \in {"none", "done"}
  <2>1. Cancel({s} \cap Sessions) /\ {s} \cap Sessions \subseteq Session
    BY DEF Close, Sessions
  <2> QED BY <2>1, Cancels DEF StreamInv
<1>4. /\ lock' \in Client \cup {Free}
      /\ pc' \in [Task -> {"idle", "merge", "open", "cancel", "disconnect", "feed",
                           "stop", "next"}]
      /\ at' \in [Task -> Session \cup Broker \cup {None}]
      /\ \A d \in Client : lock' = d <=> pc'[d] # "idle"
      /\ pc'[c] = "cancel" /\ at'[c] = s
      /\ \A t \in Task \ {c} : pc'[t] = pc[t] /\ at'[t] = at[t]
      /\ \A d \in Client : pc[d] = "idle"
  BY <1>1, Enters DEF Close, StreamInv
<1>5. /\ sub' \in [Client -> Session \cup {None}] /\ sub'[c] = None
      /\ request' \in [Client -> Request \cup {None}]
      /\ \A d \in Client \ {c} : sub'[d] = sub[d] /\ request'[d] = request[d]
  BY <1>2 DEF StreamInv, TypeOK
<1>6. TypeOK'
  BY <1>2, <1>3, <1>4, <1>5 DEF StreamInv, TypeOK
<1>7. Placed'
  BY <1>1, <1>2, <1>4, <1>5 DEF StreamInv, Placed
<1>8. BeingOpened' /\ Merging'
  BY <1>1, <1>4 DEF BeingOpened, Merging
<1>9. Watched'
  BY <1>2, <1>3 DEF StreamInv, Watched
<1>10. Abandoned'
  BY <1>1, <1>4, <1>5 DEF Abandoned
<1>11. Whole'
  BY <1>2, <1>4 DEF StreamInv, Whole
<1>12. SubscribersStreamed'
  BY <1>2, <1>5 DEF StreamInv, SubscribersStreamed, Sessions
<1>13. FeedDownUnused'
  BY <1>2, <1>3 DEF StreamInv, FeedDownUnused
<1> QED BY <1>6, <1>7, <1>8, <1>9, <1>10, <1>11, <1>12, <1>13 DEF StreamInv

\* Steps that touch neither sessions nor subscriptions, of a task that is not
\* in subscribe.
LEMMA Rests ==
  ASSUME StreamInv, NEW t \in Task, pc[t] \in {"disconnect", "feed"},
         pc'[t] \in {"idle", "next", "feed"}, pc'[t] = "feed" => at'[t] \in Broker,
         \A u \in Task \ {t} : pc'[u] = pc[u] /\ at'[u] = at[u],
         UNCHANGED <<running, request, sub, session, streamed, failed, monitor, target, todo>>
  PROVE  /\ Placed' /\ BeingOpened' /\ Watched' /\ Whole' /\ Merging' /\ Abandoned'
         /\ SubscribersStreamed'
<1>1. Client \subseteq Task /\ Stopper \in Task
  BY DEF Task
<1>2. Placed'
  BY <1>1 DEF StreamInv, Placed
<1>3. BeingOpened' /\ Watched' /\ Merging' /\ Abandoned'
  BY <1>1 DEF StreamInv, BeingOpened, Watched, Merging, Abandoned
<1>4. Whole'
  <2> SUFFICES ASSUME running', NEW r \in Session, session'[r] # None, session'[r].connected,
                      NEW i \in session'[r].instruments
               PROVE  \/ i \in streamed'[r] \/ i \in failed'[r]
                      \/ \E d \in Client : pc'[d] = "merge" /\ at'[d] = r /\ i \in request'[d].instruments
    BY DEF Whole
  <2>1. \/ i \in streamed[r] \/ i \in failed[r]
        \/ \E d \in Client : pc[d] = "merge" /\ at[d] = r /\ i \in request[d].instruments
    BY DEF StreamInv, Whole
  <2> QED BY <1>1, <2>1
<1>5. SubscribersStreamed'
  BY DEF StreamInv, SubscribersStreamed, Sessions
<1> QED BY <1>2, <1>3, <1>4, <1>5

\* A task has disconnected a session.
LEMMA Finishes ==
  ASSUME StreamInv, NEW t \in Task, pc[t] \in {"disconnect", "feed"}, Disconnected(t)
  PROVE  /\ lock' \in Client \cup {Free}
         /\ pc' \in [Task -> {"idle", "merge", "open", "cancel", "disconnect", "feed",
                              "stop", "next"}]
         /\ at' \in [Task -> Session \cup Broker \cup {None}]
         /\ \A d \in Client : lock' = d <=> pc'[d] # "idle"
         /\ pc'[t] \in {"idle", "next"}
         /\ \A u \in Task \ {t} : pc'[u] = pc[u] /\ at'[u] = at[u]
<1>1. CASE t = Stopper
  <2>1. Goto(t, "next") /\ at' = [at EXCEPT ![t] = None] /\ lock' = lock /\ t \notin Client
    BY <1>1, StreamConfig DEF Disconnected
  <2> QED BY <2>1 DEF StreamInv, TypeOK, Goto, Task
<1>2. CASE t # Stopper
  <2>1. t \in Client /\ Return(t) /\ pc[t] # "idle"
    BY <1>2 DEF Disconnected, Task
  <2> QED BY <2>1, Returns DEF StreamInv, Task
<1> QED BY <1>1, <1>2

\* A session leaves the tables.
LEMMA RemoveStep ==
  ASSUME StreamInv, NEW t \in Task, Remove(t)
  PROVE  StreamInv'
<1> DEFINE s == at[t]
           b == IF handle[s] = None THEN None ELSE handle[s].broker
<1>1. pc[t] = "cancel" /\ s \in Session /\ Client \subseteq Task
  BY DEF Remove, At, StreamInv, Placed, Task
<1>2. /\ session' = [session EXCEPT ![s] = None] /\ handle' = [handle EXCEPT ![s] = None]
      /\ streamed' = [streamed EXCEPT ![s] = {}] /\ failed' = [failed EXCEPT ![s] = {}]
      /\ monitor' = [monitor EXCEPT ![s] = "none"]
      /\ at' = [at EXCEPT ![t] = b] /\ pc' = [pc EXCEPT ![t] = "disconnect"]
      /\ UNCHANGED <<running, lock, request, sub, target, stray, held, frozen, todo>>
  BY DEF Remove, Goto, adapters
<1>3. b \in Broker \cup {None}
  BY <1>1 DEF StreamInv, TypeOK, Handle
<1> HIDE DEF b
<1>4. /\ session'[s] = None /\ \A r \in Session \ {s} : session'[r] = session[r]
      /\ handle'[s] = None /\ \A r \in Session \ {s} : handle'[r] = handle[r]
      /\ streamed'[s] = {} /\ \A r \in Session \ {s} : streamed'[r] = streamed[r]
      /\ failed'[s] = {} /\ \A r \in Session \ {s} : failed'[r] = failed[r]
      /\ monitor'[s] = "none" /\ \A r \in Session \ {s} : monitor'[r] = monitor[r]
      /\ session' \in [Session -> State \cup {None}] /\ handle' \in [Session -> Handle \cup {None}]
      /\ streamed' \in [Session -> SUBSET Instrument] /\ failed' \in [Session -> SUBSET Instrument]
      /\ monitor' \in [Session -> {"none", "watch", "backoff", "opening", "opened", "done"}]
  BY <1>1, <1>2 DEF StreamInv, TypeOK
<1>5. /\ pc'[t] = "disconnect" /\ at'[t] = b
      /\ \A u \in Task \ {t} : pc'[u] = pc[u] /\ at'[u] = at[u]
      /\ pc' \in [Task -> {"idle", "merge", "open", "cancel", "disconnect", "feed",
                           "stop", "next"}]
      /\ at' \in [Task -> Session \cup Broker \cup {None}]
  BY <1>1, <1>2, <1>3 DEF StreamInv, TypeOK
<1>6. running => /\ t \in Client /\ \A d \in Client : sub[d] # s
                 /\ \A d \in Client : pc[d] # "merge"
  <2> SUFFICES ASSUME running PROVE t \in Client /\ (\A d \in Client : sub[d] # s)
                                    /\ \A d \in Client : pc[d] # "merge"
    OBVIOUS
  <2>1. t \in Client
    BY <1>1 DEF StreamInv, Placed, Task
  <2> QED BY <1>1, <2>1, OthersIdle DEF StreamInv, Abandoned
<1>7. TypeOK'
  <2>1. \A d \in Client : lock' = d <=> pc'[d] # "idle"
    BY <1>1, <1>2, <1>5 DEF StreamInv, TypeOK
  <2> QED BY <1>2, <1>4, <1>5, <2>1 DEF StreamInv, TypeOK
<1>8. Placed'
  BY <1>1, <1>2, <1>3, <1>5 DEF StreamInv, Placed
<1>9. BeingOpened'
  <2> SUFFICES ASSUME NEW c \in Client, pc'[c] = "open"
               PROVE  /\ session'[at'[c]] # None
                      /\ session'[at'[c]].instruments = request'[c].instruments
                      /\ at'[c] \notin todo'
                      /\ \A u \in Task \ {c} : pc'[u] = "cancel" => at'[u] # at'[c]
    BY DEF BeingOpened
  <2>1. c # t /\ pc[c] = "open" /\ at'[c] = at[c] /\ at[c] \in Session
    BY <1>1, <1>5 DEF StreamInv, Placed
  <2>2. /\ session[at[c]] # None /\ session[at[c]].instruments = request[c].instruments
        /\ at[c] \notin todo /\ s # at[c]
        /\ \A u \in Task \ {c} : pc[u] = "cancel" => at[u] # at[c]
    BY <1>1, <2>1 DEF StreamInv, BeingOpened
  <2> QED BY <1>2, <1>4, <1>5, <2>1, <2>2
<1>10. Watched'
  BY <1>2, <1>4 DEF StreamInv, Watched
<1>11. Whole' /\ Merging'
  BY <1>1, <1>2, <1>4, <1>5, <1>6 DEF StreamInv, Whole, Merging
<1>12. Abandoned'
  BY <1>1, <1>2, <1>5 DEF StreamInv, Abandoned
<1>13. SubscribersStreamed'
  BY <1>2, <1>4, <1>6 DEF StreamInv, SubscribersStreamed, Sessions
<1>14. FeedDownUnused'
  BY <1>2, <1>4 DEF StreamInv, FeedDownUnused
<1> QED BY <1>7, <1>8, <1>9, <1>10, <1>11, <1>12, <1>13, <1>14 DEF StreamInv

\* Its handle is given up, and with the last one the feed of the broker.
LEMMA DisconnectStep ==
  ASSUME StreamInv, NEW t \in Task,
         Release(t) \/ ReleaseFails(t) \/ ReleaseLast(t) \/ FeedDown(t)
  PROVE  StreamInv'
<1>1. CASE Release(t) \/ ReleaseFails(t)
  <2>1. /\ pc[t] = "disconnect" /\ Disconnected(t)
        /\ stray' = stray \/ (at[t] # None /\ stray' = stray \cup {at[t]})
        /\ UNCHANGED <<running, request, sub, session, handle, streamed, failed, monitor, target,
                       held, frozen, todo>>
    BY <1>1 DEF Release, ReleaseFails, At, sessions, monitors, adapters
  <2>2. stray' \subseteq Broker
    BY <2>1 DEF StreamInv, TypeOK, Placed
  <2>3. TypeOK'
    BY <2>1, <2>2, Finishes DEF StreamInv, TypeOK
  <2>4. FeedDownUnused'
    BY <2>1 DEF StreamInv, FeedDownUnused
  <2> QED BY <2>1, <2>3, <2>4, Finishes, Rests DEF StreamInv
<1>2. CASE ReleaseLast(t)
  <2>1. /\ pc[t] = "disconnect" /\ at[t] # None /\ Last(t, at[t])
        /\ held' = [held EXCEPT ![at[t]] = t] /\ pc' = [pc EXCEPT ![t] = "feed"]
        /\ UNCHANGED <<running, lock, at, request, sub, session, handle, streamed, failed, monitor,
                       target, stray, frozen, todo>>
    BY <1>2 DEF ReleaseLast, At, Goto, sessions, monitors
  <2>2. /\ at[t] \in Broker /\ pc'[t] = "feed" /\ \A u \in Task \ {t} : pc'[u] = pc[u]
        /\ pc' \in [Task -> {"idle", "merge", "open", "cancel", "disconnect", "feed",
                             "stop", "next"}]
    BY <2>1 DEF StreamInv, TypeOK, Placed
  <2>3. TypeOK'
    <3>1. held' \in [Broker -> Task \cup {Free}]
      BY <2>1, <2>2 DEF StreamInv, TypeOK
    <3>2. \A d \in Client : lock' = d <=> pc'[d] # "idle"
      BY <2>1, <2>2 DEF StreamInv, TypeOK, Task
    <3> QED BY <2>1, <2>2, <3>1, <3>2 DEF StreamInv, TypeOK
  <2>4. FeedDownUnused'
    <3> SUFFICES ASSUME NEW b \in Broker, held'[b] # Free, NEW s \in Session
                 PROVE  /\ handle'[s] # None => handle'[s].broker # b
                        /\ monitor'[s] = "opened" => target'[s] # b
      BY DEF FeedDownUnused
    <3>1. CASE b = at[t]
      BY <2>1, <3>1 DEF Last
    <3>2. CASE b # at[t]
      BY <2>1, <3>2 DEF StreamInv, FeedDownUnused, TypeOK
    <3> QED BY <3>1, <3>2
  <2> QED BY <2>1, <2>2, <2>3, <2>4, Rests DEF StreamInv
<1>3. CASE FeedDown(t)
  <2>1. /\ pc[t] = "feed" /\ Disconnected(t) /\ held' = [held EXCEPT ![at[t]] = Free]
        /\ UNCHANGED <<running, request, sub, session, handle, streamed, failed, monitor, target,
                       stray, frozen, todo>>
    BY <1>3 DEF FeedDown, At, sessions, monitors
  <2>2. /\ held' \in [Broker -> Task \cup {Free}]
        /\ \A b \in Broker : held'[b] # Free => held[b] # Free
    BY <2>1 DEF StreamInv, TypeOK, Placed
  <2>3. TypeOK'
    BY <2>1, <2>2, Finishes DEF StreamInv, TypeOK
  <2>4. FeedDownUnused'
    BY <2>1, <2>2 DEF StreamInv, FeedDownUnused
  <2> QED BY <2>1, <2>3, <2>4, Finishes, Rests DEF StreamInv
<1> QED BY <1>1, <1>2, <1>3

\* stop() begins.
LEMMA StopStep ==
  ASSUME StreamInv, Stop
  PROVE  StreamInv'
<1>1. /\ pc[Stopper] = "idle" /\ running' = FALSE /\ pc' = [pc EXCEPT ![Stopper] = "stop"]
      /\ UNCHANGED <<lock, at, request, sub, session, handle, streamed, failed, held, frozen, todo>>
  BY DEF Stop, At, Goto, sessions
<1>2. /\ monitor' \in [Session -> {"none", "watch", "backoff", "opening", "opened", "done"}]
      /\ target' \in [Session -> Broker \cup {None}]
      /\ stray' \subseteq Broker
      /\ \A r \in Session : \/ monitor'[r] = monitor[r] /\ target'[r] = target[r]
                            \/ monitor'[r] \in {"none", "done"}
  <2>1. Cancel(Sessions) /\ Sessions \subseteq Session
    BY DEF Stop, Sessions
  <2> QED BY <2>1, Cancels DEF StreamInv
<1>3. /\ pc' \in [Task -> {"idle", "merge", "open", "cancel", "disconnect", "feed",
                           "stop", "next"}]
      /\ pc'[Stopper] = "stop" /\ \A u \in Task \ {Stopper} : pc'[u] = pc[u]
      /\ Client \subseteq Task \ {Stopper}
  BY <1>1, StreamConfig DEF StreamInv, TypeOK, Task
<1>4. TypeOK'
  BY <1>1, <1>2, <1>3 DEF StreamInv, TypeOK
<1>5. Placed'
  BY <1>1, <1>3 DEF StreamInv, Placed
<1>6. BeingOpened'
  BY <1>1, <1>3 DEF StreamInv, BeingOpened
<1>7. Watched' /\ FeedDownUnused'
  BY <1>1, <1>2 DEF StreamInv, Watched, FeedDownUnused
<1>8. Whole' /\ Merging' /\ Abandoned' /\ SubscribersStreamed'
  BY <1>1 DEF Whole, Merging, Abandoned, SubscribersStreamed
<1> QED BY <1>4, <1>5, <1>6, <1>7, <1>8 DEF StreamInv

\* It notes down the sessions there are, and goes from one to the next.
LEMMA StoppingStep ==
  ASSUME StreamInv, Snapshot \/ StopNext
  PROVE  StreamInv'
<1>1. /\ Stopper \in Task /\ Client \subseteq Task \ {Stopper}
  BY StreamConfig DEF Task
<1>2. CASE Snapshot
  <2>1. /\ lock = Free /\ pc[Stopper] = "stop" /\ todo' = Sessions
        /\ pc' = [pc EXCEPT ![Stopper] = "next"]
        /\ UNCHANGED <<running, lock, at, request, sub, session, handle, streamed, failed, monitor,
                       target, stray, held, frozen>>
    BY <1>2 DEF Snapshot, At, Goto, sessions, monitors, adapters
  <2>2. ~running /\ \A c \in Client : pc[c] = "idle"
    BY <2>1, OthersIdle DEF StreamInv, Placed
  <2>3. /\ pc' \in [Task -> {"idle", "merge", "open", "cancel", "disconnect", "feed",
                             "stop", "next"}]
        /\ pc'[Stopper] = "next" /\ \A u \in Task \ {Stopper} : pc'[u] = pc[u]
    BY <1>1, <2>1 DEF StreamInv, TypeOK
  <2>4. TypeOK'
    BY <1>1, <2>1, <2>3 DEF StreamInv, TypeOK, Sessions
  <2>5. Placed' /\ BeingOpened'
    BY <1>1, <2>1, <2>2, <2>3 DEF StreamInv, Placed, BeingOpened
  <2>6. Watched' /\ FeedDownUnused'
    BY <2>1 DEF StreamInv, Watched, FeedDownUnused
  <2>7. Whole' /\ Merging' /\ Abandoned' /\ SubscribersStreamed'
    BY <2>1, <2>2 DEF Whole, Merging, Abandoned, SubscribersStreamed
  <2> QED BY <2>4, <2>5, <2>6, <2>7 DEF StreamInv
<1>3. CASE StopNext
  <2>1. PICK s \in todo :
           /\ todo' = todo \ {s} /\ Cancel({s} \cap Sessions) /\ at' = [at EXCEPT ![Stopper] = s]
    BY <1>3 DEF StopNext
  <2>2. /\ pc[Stopper] = "next" /\ pc' = [pc EXCEPT ![Stopper] = "cancel"]
        /\ UNCHANGED <<running, lock, request, sub, session, handle, streamed, failed, held, frozen>>
    BY <1>3 DEF StopNext, At, Goto, sessions
  <2>3. s \in Session /\ ~running
    BY <2>1, <2>2 DEF StreamInv, TypeOK, Placed
  <2>4. /\ monitor' \in [Session -> {"none", "watch", "backoff", "opening", "opened", "done"}]
        /\ target' \in [Session -> Broker \cup {None}]
        /\ stray' \subseteq Broker
        /\ \A r \in Session : \/ monitor'[r] = monitor[r] /\ target'[r] = target[r]
                              \/ monitor'[r] \in {"none", "done"}
    <3>1. {s} \cap Sessions \subseteq Session
      BY DEF Sessions
    <3> QED BY <2>1, <3>1, Cancels DEF StreamInv
  <2>5. /\ pc' \in [Task -> {"idle", "merge", "open", "cancel", "disconnect", "feed",
                             "stop", "next"}]
        /\ at' \in [Task -> Session \cup Broker \cup {None}]
        /\ pc'[Stopper] = "cancel" /\ at'[Stopper] = s
        /\ \A u \in Task \ {Stopper} : pc'[u] = pc[u] /\ at'[u] = at[u]
    BY <1>1, <2>1, <2>2, <2>3 DEF StreamInv, TypeOK
  <2>6. TypeOK'
    BY <1>1, <2>1, <2>2, <2>4, <2>5 DEF StreamInv, TypeOK
  <2>7. Placed'
    BY <1>1, <2>2, <2>3, <2>5 DEF StreamInv, Placed
  <2>8. BeingOpened'
    BY <1>1, <2>1, <2>2, <2>5 DEF StreamInv, BeingOpened
  <2>9. Watched' /\ FeedDownUnused'
    BY <2>2, <2>4 DEF StreamInv, Watched, FeedDownUnused
  <2>10. Whole' /\ Merging' /\ Abandoned' /\ SubscribersStreamed'
    BY <2>2, <2>3 DEF Whole, Merging, Abandoned, SubscribersStreamed
  <2> QED BY <2>6, <2>7, <2>8, <2>9, <2>10 DEF StreamInv
<1> QED BY <1>2, <1>3

\* The monitor of a session goes on, with another broker to ask or none.
LEMMA MonitorMoves ==
  ASSUME StreamInv, NEW s \in Session, session[s] # None, NEW b \in Broker \cup {None},
         NEW l \in {"watch", "backoff", "opening", "opened", "done"}, Monitors(s, l, b),
         l \in {"opening", "opened"} => b \in Broker,
         l = "opened" => held[b] = Free,
         UNCHANGED <<running, lock, pc, at, request, sub, session, handle, streamed, failed,
                     stray, held, frozen, todo>>
  PROVE  StreamInv'
<1>1. /\ monitor' \in [Session -> {"none", "watch", "backoff", "opening", "opened", "done"}]
      /\ target' \in [Session -> Broker \cup {None}]
      /\ monitor'[s] = l /\ target'[s] = b
      /\ \A r \in Session \ {s} : monitor'[r] = monitor[r] /\ target'[r] = target[r]
  BY DEF Monitors, StreamInv, TypeOK
<1>2. TypeOK'
  BY <1>1 DEF StreamInv, TypeOK
<1>3. Placed' /\ BeingOpened' /\ Merging' /\ Abandoned'
  BY DEF StreamInv, Placed, BeingOpened, Merging, Abandoned
<1>4. Watched'
  BY <1>1 DEF StreamInv, Watched
<1>5. Whole'
  BY DEF StreamInv, Whole
<1>6. SubscribersStreamed'
  BY DEF StreamInv, SubscribersStreamed, Sessions
<1>7. FeedDownUnused'
  BY <1>1 DEF StreamInv, FeedDownUnused
<1> QED BY <1>2, <1>3, <1>4, <1>5, <1>6, <1>7 DEF StreamInv

\* The transport of a session is down.
LEMMA LostStep ==
  ASSUME StreamInv, NEW s \in Session, Lost(s)
  PROVE  StreamInv'
<1>1. /\ session[s] # None /\ monitor[s] = "watch"
      /\ UNCHANGED <<running, lock, pc, at, request, sub, handle, streamed, failed,
                     stray, held, frozen, todo>>
  BY DEF Lost, On, StreamInv, Watched, tasks, adapters
<1>2. /\ monitor' \in [Session -> {"none", "watch", "backoff", "opening", "opened", "done"}]
      /\ target' \in [Session -> Broker \cup {None}]
      /\ monitor'[s] = "backoff"
      /\ \A r \in Session \ {s} : monitor'[r] = monitor[r] /\ target'[r] = target[r]
  BY DEF Lost, Monitors, StreamInv, TypeOK
<1>3. PICK n \in 0 .. MaxAttempts :
         session' = [session EXCEPT ![s] = [session[s] EXCEPT !.connected = FALSE, !.generation = n]]
  <2> DEFINE n == IF session[s].generation < MaxAttempts THEN session[s].generation + 1
                  ELSE session[s].generation
  <2>1. session[s] \in State
    BY <1>1 DEF StreamInv, TypeOK
  <2>2. n \in 0 .. MaxAttempts
    BY <2>1, StreamConfig DEF State
  <2>3. session' = [session EXCEPT ![s] = [session[s] EXCEPT !.connected = FALSE, !.generation = n]]
    BY DEF Lost
  <2> QED BY <2>2, <2>3
<1>4. /\ session' \in [Session -> State \cup {None}]
      /\ session'[s] # None /\ ~session'[s].connected
      /\ session'[s].instruments = session[s].instruments
      /\ \A r \in Session \ {s} : session'[r] = session[r]
  <2>1. session[s] \in State
    BY <1>1 DEF StreamInv, TypeOK
  <2> DEFINE new == [session[s] EXCEPT !.connected = FALSE, !.generation = n]
  <2>2. new \in State /\ ~new.connected /\ new.instruments = session[s].instruments
    BY <2>1, <1>3 DEF State
  <2>3. session'[s] = new /\ \A r \in Session \ {s} : session'[r] = session[r]
    BY <1>3 DEF StreamInv, TypeOK
  <2>4. session' = [r \in Session |-> IF r = s THEN new ELSE session[r]]
    BY <1>3 DEF StreamInv, TypeOK
  <2> HIDE DEF new
  <2> QED BY <2>2, <2>3, <2>4, NoneIsNoRecord DEF StreamInv, TypeOK
<1>5. TypeOK'
  BY <1>1, <1>2, <1>4 DEF StreamInv, TypeOK
<1>6. Placed' /\ Abandoned'
  BY <1>1 DEF StreamInv, Placed, Abandoned
<1>7. BeingOpened' /\ Merging'
  BY <1>1, <1>4 DEF StreamInv, BeingOpened, Merging, Placed, Task
<1>8. Watched'
  BY <1>2, <1>4 DEF StreamInv, Watched
<1>9. Whole'
  BY <1>1, <1>4 DEF StreamInv, Whole
<1>10. SubscribersStreamed'
  BY <1>1, <1>4 DEF StreamInv, SubscribersStreamed, Sessions
<1>11. FeedDownUnused'
  BY <1>1, <1>2 DEF StreamInv, FeedDownUnused
<1> QED BY <1>5, <1>6, <1>7, <1>8, <1>9, <1>10, <1>11 DEF StreamInv

\* It waits, asks a broker for a stream, and is given one or not.
LEMMA AskingStep ==
  ASSUME StreamInv, NEW s \in Session, Backoff(s) \/ Opens(s) \/ Refuses(s)
  PROVE  StreamInv'
<1>1. /\ session[s] # None
      /\ UNCHANGED <<running, lock, pc, at, request, sub, session, handle, streamed, failed,
                     stray, held, frozen, todo>>
  BY DEF Backoff, Opens, Refuses, On, StreamInv, Watched, tasks, sessions, adapters
<1>2. session[s].broker \in Broker
  BY <1>1 DEF StreamInv, TypeOK, State
<1>3. CASE Backoff(s)
  <2>1. PICK b \in NextTargets(s) : Monitors(s, "opening", b)
    BY <1>3 DEF Backoff
  <2>2. b \in Broker
    BY <1>2, <2>1 DEF NextTargets
  <2> QED BY <1>1, <2>1, <2>2, MonitorMoves
<1>4. CASE Opens(s)
  <2>1. Monitors(s, "opened", target[s]) /\ held[target[s]] = Free /\ target[s] \in Broker
    BY <1>4 DEF Opens, On, StreamInv, Watched
  <2> QED BY <1>1, <2>1, MonitorMoves
<1>5. CASE Refuses(s)
  <2>1. CASE target[s] = session[s].broker
    <3>1. Monitors(s, "watch", None)
      BY <1>5, <2>1 DEF Refuses
    <3> QED BY <1>1, <3>1, MonitorMoves
  <2>2. CASE target[s] # session[s].broker
    <3>1. PICK b \in Broker \ {target[s]} : Monitors(s, "opening", b)
      BY <1>5, <2>2 DEF Refuses
    <3> QED BY <1>1, <3>1, MonitorMoves
  <2> QED BY <2>1, <2>2
<1> QED BY <1>3, <1>4, <1>5

\* It goes on with a new stream, of the same broker or of another one.
LEMMA InstallStep ==
  ASSUME StreamInv, NEW s \in Session, Reopened(s) \/ FailedOver(s)
  PROVE  StreamInv'
<1>1. /\ monitor[s] = "opened" /\ lock = Free /\ session[s] # None /\ target[s] \in Broker
      /\ handle' = [handle EXCEPT ![s] = [broker |-> target[s], up |-> TRUE]]
      /\ stray' = IF handle[s] = None THEN stray ELSE stray \cup {handle[s].broker}
      /\ failed' = [failed EXCEPT ![s] = {}]
      /\ streamed' = [streamed EXCEPT ![s] = session[s].instruments]
      /\ UNCHANGED <<running, lock, pc, at, request, sub, held, frozen, todo>>
  BY DEF Reopened, FailedOver, Install, On, StreamInv, Watched, tasks
<1>2. \A c \in Client : pc[c] = "idle"
  BY <1>1, OthersIdle DEF StreamInv
<1>3. PICK st \in State :
        /\ st.instruments = session[s].instruments
        /\ session' = [session EXCEPT ![s] = st]
  <2>1. session[s] \in State
    BY <1>1 DEF StreamInv, TypeOK
  <2>2. CASE Reopened(s)
    <3>1. session' = [session EXCEPT ![s] = [session[s] EXCEPT !.connected = TRUE]]
      BY <2>2 DEF Reopened
    <3>2. /\ [session[s] EXCEPT !.connected = TRUE] \in State
          /\ [session[s] EXCEPT !.connected = TRUE].instruments = session[s].instruments
      BY <2>1 DEF State
    <3> QED BY <3>1, <3>2
  <2>3. CASE FailedOver(s)
    <3> DEFINE new == [session[s] EXCEPT !.broker = target[s], !.connected = TRUE, !.generation = 0]
    <3>1. session' = [session EXCEPT ![s] = new]
      BY <2>3 DEF FailedOver
    <3>2. \A n \in 0 .. MaxAttempts :
            [session[s] EXCEPT !.broker = target[s], !.connected = TRUE, !.generation = n] \in State
      BY <1>1, <2>1 DEF State
    <3>3. 0 \in 0 .. MaxAttempts
      BY StreamConfig
    <3>4. new \in State
      BY <3>2, <3>3
    <3>5. new.instruments = session[s].instruments
      BY <2>1 DEF State
    <3> HIDE DEF new
    <3> QED BY <3>1, <3>4, <3>5
  <2> QED BY <2>2, <2>3
<1>4. /\ session' \in [Session -> State \cup {None}]
      /\ session'[s] # None /\ session'[s].instruments = session[s].instruments
      /\ \A r \in Session \ {s} : session'[r] = session[r]
  BY <1>3, NoneIsNoRecord DEF StreamInv, TypeOK
<1>5. /\ handle' \in [Session -> Handle \cup {None}] /\ handle'[s].broker = target[s]
      /\ \A r \in Session \ {s} : handle'[r] = handle[r]
  <2>1. [broker |-> target[s], up |-> TRUE] \in Handle
    BY <1>1 DEF Handle
  <2> QED BY <1>1, <2>1 DEF StreamInv, TypeOK
<1>6. /\ streamed' \in [Session -> SUBSET Instrument] /\ streamed'[s] = session[s].instruments
      /\ \A r \in Session \ {s} : streamed'[r] = streamed[r]
      /\ failed' \in [Session -> SUBSET Instrument]
      /\ \A r \in Session \ {s} : failed'[r] = failed[r]
  <2>1. session[s].instruments \in SUBSET Instrument
    BY <1>1 DEF StreamInv, TypeOK, State
  <2> QED BY <1>1, <2>1 DEF StreamInv, TypeOK
<1>7. /\ monitor' \in [Session -> {"none", "watch", "backoff", "opening", "opened", "done"}]
      /\ target' \in [Session -> Broker \cup {None}]
      /\ monitor'[s] \in {"watch", "done"}
      /\ \A r \in Session \ {s} : monitor'[r] = monitor[r] /\ target'[r] = target[r]
  BY DEF Reopened, FailedOver, Monitors, StreamInv, TypeOK
<1>8. stray' \subseteq Broker
  BY <1>1 DEF StreamInv, TypeOK, Handle
<1>9. TypeOK'
  BY <1>1, <1>4, <1>5, <1>6, <1>7, <1>8 DEF StreamInv, TypeOK
<1>10. Placed' /\ Abandoned' /\ BeingOpened' /\ Merging'
  BY <1>1, <1>2 DEF StreamInv, Placed, Abandoned, BeingOpened, Merging
<1>11. Watched'
  BY <1>4, <1>7 DEF StreamInv, Watched
<1>12. Whole'
  <2> SUFFICES ASSUME running', NEW r \in Session, session'[r] # None, session'[r].connected,
                      NEW i \in session'[r].instruments
               PROVE  i \in streamed'[r] \/ i \in failed'[r]
    BY DEF Whole
  <2>1. CASE r = s
    BY <1>4, <1>6, <2>1
  <2>2. CASE r # s
    BY <1>1, <1>2, <1>4, <1>6, <2>2 DEF StreamInv, Whole
  <2> QED BY <2>1, <2>2
<1>13. SubscribersStreamed'
  <2> SUFFICES ASSUME running', NEW d \in Client, sub'[d] # None
               PROVE  /\ session'[sub'[d]] # None /\ sub'[d] \in Session
                      /\ request'[d].instruments \subseteq session'[sub'[d]].instruments
                      /\ request'[d].instruments \subseteq streamed'[sub'[d]] \cup failed'[sub'[d]]
    BY DEF SubscribersStreamed, Sessions
  <2>1. /\ sub[d] \in Session /\ session[sub[d]] # None
        /\ request[d].instruments \subseteq session[sub[d]].instruments
        /\ request[d].instruments \subseteq streamed[sub[d]] \cup failed[sub[d]]
    BY <1>1 DEF StreamInv, SubscribersStreamed, Sessions
  <2>2. CASE sub[d] = s
    BY <1>1, <1>4, <1>6, <2>1, <2>2
  <2>3. CASE sub[d] # s
    BY <1>1, <1>4, <1>6, <2>1, <2>3
  <2> QED BY <2>2, <2>3
<1>14. FeedDownUnused'
  <2> SUFFICES ASSUME NEW b \in Broker, held'[b] # Free, NEW r \in Session
               PROVE  /\ handle'[r] # None => handle'[r].broker # b
                      /\ monitor'[r] = "opened" => target'[r] # b
    BY DEF FeedDownUnused
  <2>1. /\ target[s] # b
        /\ handle[r] # None => handle[r].broker # b
        /\ monitor[r] = "opened" => target[r] # b
    BY <1>1 DEF StreamInv, FeedDownUnused
  <2> QED BY <1>5, <1>7, <2>1
<1> QED BY <1>9, <1>10, <1>11, <1>12, <1>13, <1>14 DEF StreamInv

\* The transport of a session comes and goes; the loop freezes.
LEMMA WorldStep ==
  ASSUME StreamInv, (\E s \in Session : Toggle(s)) \/ Freeze
  PROVE  StreamInv'
<1>1. ASSUME NEW s \in Session, Toggle(s) PROVE StreamInv'
  <2>1. /\ handle[s] # None /\ handle' = [handle EXCEPT ![s].up = ~@]
        /\ UNCHANGED <<running, lock, pc, at, request, sub, session, streamed, failed, monitor,
                       target, stray, held, frozen, todo>>
    BY <1>1 DEF Toggle, tasks, monitors, adapters
  <2>2. /\ handle' \in [Session -> Handle \cup {None}] /\ handle'[s].broker = handle[s].broker
        /\ \A r \in Session \ {s} : handle'[r] = handle[r]
    <3>1. handle[s] \in Handle
      BY <2>1 DEF StreamInv, TypeOK
    <3>2. /\ [handle[s] EXCEPT !.up = ~handle[s].up] \in Handle
          /\ [handle[s] EXCEPT !.up = ~handle[s].up].broker = handle[s].broker
      BY <3>1 DEF Handle
    <3>3. handle' = [handle EXCEPT ![s] = [handle[s] EXCEPT !.up = ~handle[s].up]]
      BY <2>1
    <3> QED BY <3>2, <3>3 DEF StreamInv, TypeOK
  <2>3. TypeOK'
    BY <2>1, <2>2 DEF StreamInv, TypeOK
  <2>4. Placed' /\ BeingOpened' /\ Watched' /\ Whole' /\ Merging' /\ Abandoned'
    BY <2>1 DEF StreamInv, Placed, BeingOpened, Watched, Whole, Merging, Abandoned
  <2>5. SubscribersStreamed'
    BY <2>1 DEF StreamInv, SubscribersStreamed, Sessions
  <2>6. FeedDownUnused'
    BY <2>1, <2>2 DEF StreamInv, FeedDownUnused
  <2> QED BY <2>3, <2>4, <2>5, <2>6 DEF StreamInv
<1>2. CASE Freeze
  <2>1. /\ frozen' = TRUE
        /\ UNCHANGED <<running, lock, pc, at, request, sub, session, handle, streamed, failed, monitor,
                       target, stray, held, todo>>
    BY <1>2 DEF Freeze, tasks, sessions, monitors
  <2>2. TypeOK'
    BY <2>1 DEF StreamInv, TypeOK
  <2>3. Placed' /\ BeingOpened' /\ Watched' /\ Whole' /\ Merging' /\ Abandoned'
    BY <2>1 DEF StreamInv, Placed, BeingOpened, Watched, Whole, Merging, Abandoned
  <2>4. SubscribersStreamed' /\ FeedDownUnused'
    BY <2>1 DEF StreamInv, SubscribersStreamed, Sessions, FeedDownUnused
  <2> QED BY <2>2, <2>3, <2>4 DEF StreamInv
<1> QED BY <1>1, <1>2

\* Every state is as StreamInv says: what subscribers see follows from what
\* sessions have, monitors watch and the lock protects.
THEOREM StreamInvariant == Spec => []StreamInv
<1>1. Init => StreamInv
  <2> SUFFICES ASSUME Init PROVE StreamInv
    OBVIOUS
  <2>1. TypeOK
    BY StreamConfig DEF Init, TypeOK, Task
  <2>2. Placed /\ BeingOpened /\ Watched /\ Whole /\ Merging /\ Abandoned
    BY DEF Init, Placed, BeingOpened, Watched, Whole, Merging, Abandoned, Task
  <2>3. SubscribersStreamed /\ FeedDownUnused
    BY DEF Init, SubscribersStreamed, FeedDownUnused
  <2> QED BY <2>1, <2>2, <2>3 DEF StreamInv
<1>2. StreamInv /\ [Next]_vars => StreamInv'
  <2> SUFFICES ASSUME StreamInv, [Next]_vars PROVE StreamInv'
    OBVIOUS
  <2>1. ASSUME NEW c \in Client, Ask(c) \/ Answer(c) \/ Leave(c) \/ Close(c) PROVE StreamInv'
    BY <2>1, JoinStep, MergeStep, OpenStep, MergeDoneStep, MergeFailsStep, OpenDoneStep,
       OpenFailsStep, LeaveStep, CloseStep DEF Ask, Answer
  <2>2. ASSUME NEW t \in Task, Disconnect(t) PROVE StreamInv'
    BY <2>2, RemoveStep, DisconnectStep DEF Disconnect
  <2>3. CASE Stop \/ Snapshot \/ StopNext
    BY <2>3, StopStep, StoppingStep
  <2>4. ASSUME NEW s \in Session, Monitor(s) PROVE StreamInv'
    BY <2>4, LostStep, AskingStep, InstallStep DEF Monitor
  <2>5. CASE (\E s \in Session : Toggle(s)) \/ Freeze
    BY <2>5, WorldStep
  <2>6. CASE UNCHANGED vars
    <3>1. UNCHANGED <<running, lock, pc, at, request, sub, session, handle, streamed, failed,
                      monitor, target, stray, held, frozen, todo>>
      BY <2>6 DEF vars, tasks, sessions, monitors, adapters
    <3>2. TypeOK'
      BY <3>1 DEF StreamInv, TypeOK
    <3>3. Placed' /\ BeingOpened' /\ Watched' /\ Whole' /\ Merging' /\ Abandoned'
      BY <3>1 DEF StreamInv, Placed, BeingOpened, Watched, Whole, Merging, Abandoned
    <3>4. SubscribersStreamed' /\ FeedDownUnused'
      BY <3>1 DEF StreamInv, SubscribersStreamed, Sessions, FeedDownUnused
    <3> QED BY <3>2, <3>3, <3>4 DEF StreamInv
  <2> QED BY <2>1, <2>2, <2>3, <2>4, <2>5, <2>6 DEF Next, Stopping, Task
<1> QED BY <1>1, <1>2, PTL DEF Spec

\* For any clients, sessions and brokers every variable keeps its type, and who
\* is busy in subscribe or unsubscribe has the lock (StreamOrchestrator._lock).
THEOREM Typing == Spec => []TypeOK
<1>1. StreamInv => TypeOK
  BY DEF StreamInv
<1> QED BY <1>1, StreamInvariant, PTL

\* For any clients, sessions and brokers, through merges, refusals, reconnects
\* and failovers: a subscribed consumer has a session that streams, or was
\* refused, each of its instruments (subscribe, _reconnect_loop, unsubscribe).
THEOREM EverySubscriberStreamed == Spec => []SubscribersStreamed
<1>1. StreamInv => SubscribersStreamed
  BY DEF StreamInv
<1> QED BY <1>1, StreamInvariant, PTL

\* For any clients, sessions and brokers: a feed is taken down only under streams
\* that are gone (release_market_stream of the gateway adapter).
THEOREM FeedsDownUnused == Spec => []FeedDownUnused
<1>1. StreamInv => FeedDownUnused
  BY DEF StreamInv
<1> QED BY <1>1, StreamInvariant, PTL
===============================================================================
