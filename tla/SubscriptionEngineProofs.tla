----------------------- MODULE SubscriptionEngineProofs -----------------------
(***************************************************************************)
(* Proofs about SubscriptionEngine, for any consumers, instruments and     *)
(* modes and any limit.                                                    *)
(***************************************************************************)
EXTENDS SubscriptionEngine, FiniteSetTheorems, TLAPS

\* A consumer has an instrument in one mode.
OneMode ==
    \A c \in Consumer, k, l \in Line :
        <<c, k>> \in callbacks /\ <<c, l>> \in callbacks /\ k[1] = l[1] => k = l

RefsCount == \A i \in Instrument : refs[i] = Cardinality(Users(i))

\* The only line of an instrument that was used in one mode is that of its users.
Unmixed ==
    \A l \in subscribed :
        l[1] \in mixed \/ (l[2] = mode[l[1]] /\ Users(l[1]) # {})

FeedBuilt == pc \in Socket \cup {"run", "dead"} => feed # None
ConnectedPc == connected => pc \in {"replay", "live", "silent", "dead"}
Replaying == pc = "replay" /\ connected => subscribed \subseteq asked \cup snapshot

EngineInv == OneMode /\ RefsCount /\ ConsumersServed /\ Unmixed
FeedInv == FeedBuilt /\ ConnectedPc /\ Replaying /\ NothingMissed

IInv == TypeOK /\ EngineInv /\ FeedInv

-----------------------------------------------------------------------------
(* The users of an instrument *)

\* They are finitely many, and no more than there are consumers.
LEMMA UsersFinite ==
    ASSUME NEW i \in Instrument
    PROVE  /\ Users(i) \subseteq Consumer /\ IsFiniteSet(Users(i))
           /\ Cardinality(Users(i)) \in 0 .. Cardinality(Consumer)
<1>1. Users(i) \subseteq Consumer
  BY DEF Users
<1>2. IsFiniteSet(Consumer)
  BY SubscriptionAssumption
<1>3. IsFiniteSet(Users(i)) /\ Cardinality(Users(i)) <= Cardinality(Consumer)
  BY <1>1, <1>2, FS_Subset
<1>4. Cardinality(Users(i)) \in Nat /\ Cardinality(Consumer) \in Nat
  BY <1>2, <1>3, FS_CardinalityType
<1> QED BY <1>1, <1>3, <1>4

\* A consumer that was none of them joins.
LEMMA UsersJoin ==
    ASSUME TypeOK, NEW c \in Consumer, NEW l \in Line,
           callbacks' = callbacks \cup {<<c, l>>}
    PROVE  \A i \in Instrument : Users(i)' = IF i = l[1] THEN Users(i) \cup {c} ELSE Users(i)
BY DEF Users, TypeOK

\* One of them leaves with its only line.
LEMMA UsersLeave ==
    ASSUME TypeOK, OneMode, NEW c \in Consumer, NEW l \in Line,
           <<c, l>> \in callbacks, callbacks' = callbacks \ {<<c, l>>}
    PROVE  /\ c \in Users(l[1])
           /\ \A i \in Instrument : Users(i)' = IF i = l[1] THEN Users(i) \ {c} ELSE Users(i)
BY DEF Users, TypeOK, OneMode

-----------------------------------------------------------------------------
(* The engine *)

\* Steps of the feed's thread and of stop leave the engine alone.
LEMMA EngineAlone ==
    ASSUME EngineInv, UNCHANGED <<callbacks, refs, mode, mixed, subscribed>>
    PROVE  EngineInv'
<1>1. \A i \in Instrument : Users(i)' = Users(i)
  BY DEF Users
<1>2. \A l \in Line : l[1] \in Instrument
  BY DEF Instrument
<1>3. Unmixed'
  BY <1>1, <1>2 DEF EngineInv, Unmixed, Users
<1> QED
  BY <1>1, <1>3 DEF EngineInv, OneMode, RefsCount, ConsumersServed

\* A line is a pair of an instrument and a mode.
LEMMA LineParts ==
    \A l \in Line : l[1] \in Instrument /\ l[2] \in Mode /\ l = <<l[1], l[2]>> /\ l[2] # None
<1> SUFFICES ASSUME NEW l \in Line
             PROVE  l[1] \in Instrument /\ l[2] \in Mode /\ l = <<l[1], l[2]>> /\ l[2] # None
  OBVIOUS
<1>1. l \in Instrument \X Mode /\ None \notin Mode
  BY SubscriptionAssumption
<1> QED BY <1>1

\* A consumer subscribes.
LEMMA SubscribeEngine ==
    ASSUME IInv, NEW c \in Consumer, NEW l \in Line, Subscribe(c, l)
    PROVE  EngineInv' /\ refs' \in [Instrument -> 0 .. Cardinality(Consumer)]
<1> DEFINE i == l[1]
<1> USE DEF IInv, EngineInv
<1>0. i \in Instrument /\ l[2] \in Mode /\ c \notin Users(i)
  BY LineParts DEF Subscribe
<1>1. \A j \in Instrument : Users(j)' = IF j = i THEN Users(i) \cup {c} ELSE Users(j)
  BY UsersJoin DEF Subscribe
<1>2. OneMode'
  BY <1>0 DEF Subscribe, OneMode, Users, TypeOK
<1>3. Cardinality(Users(i) \cup {c}) = Cardinality(Users(i)) + 1
  BY <1>0, UsersFinite, FS_AddElement
<1>4. \A j \in Instrument : refs'[j] = Cardinality(Users(j)')
  BY <1>0, <1>1, <1>3 DEF Subscribe, RefsCount, TypeOK
<1>5. RefsCount'
  BY <1>4 DEF RefsCount
<1>6. ConsumersServed'
  BY DEF Subscribe, ConsumersServed, TypeOK
<1>7. Unmixed'
  <2> SUFFICES ASSUME NEW k \in subscribed', k[1] \notin mixed'
               PROVE  k[2] = mode'[k[1]] /\ Users(k[1])' # {}
    BY DEF Unmixed
  <2>1. k \in Line /\ k[1] \in Instrument
    BY LineParts DEF Subscribe, TypeOK
  <2>2. CASE k = l
    BY <1>0, <1>1, <2>2 DEF Subscribe, TypeOK
  <2>3. CASE k # l
    <3>1. k \in subscribed /\ k[1] \notin mixed
      BY <2>3 DEF Subscribe
    <3>2. k[2] = mode[k[1]] /\ Users(k[1]) # {}
      BY <3>1 DEF Unmixed
    <3>3. k[1] = i => mode'[i] = mode[i]
      BY <1>0, <2>1, <3>2, LineParts DEF Subscribe, TypeOK
    <3> QED BY <1>0, <1>1, <2>1, <3>2, <3>3 DEF Subscribe, TypeOK
  <2> QED BY <2>2, <2>3
<1>8. refs' \in [Instrument -> 0 .. Cardinality(Consumer)]
  <2>1. \A j \in Instrument : Users(j)' \subseteq Consumer
    BY DEF Users
  <2>2. \A j \in Instrument : Cardinality(Users(j)') \in 0 .. Cardinality(Consumer)
    BY <2>1, SubscriptionAssumption, FS_Subset, FS_CardinalityType
  <2>3. refs' = [j \in Instrument |-> refs'[j]]
    BY DEF Subscribe, TypeOK
  <2>4. \A j \in Instrument : refs'[j] \in 0 .. Cardinality(Consumer)
    BY <1>4, <2>2
  <2> QED BY <2>3, <2>4
<1> QED BY <1>2, <1>5, <1>6, <1>7, <1>8

\* One of several consumers of an instrument leaves it.
LEMMA LeaveEngine ==
    ASSUME IInv, NEW c \in Consumer, NEW l \in Line, Leave(c, l)
    PROVE  EngineInv' /\ refs' \in [Instrument -> 0 .. Cardinality(Consumer)]
<1> DEFINE i == l[1]
<1> USE DEF IInv, EngineInv
<1>0. i \in Instrument
  BY LineParts
<1>1. /\ c \in Users(i)
      /\ \A j \in Instrument : Users(j)' = IF j = i THEN Users(i) \ {c} ELSE Users(j)
  BY UsersLeave DEF Leave
<1>2. Cardinality(Users(i) \ {c}) = Cardinality(Users(i)) - 1
  BY <1>0, <1>1, UsersFinite, FS_RemoveElement
<1>3. OneMode' /\ ConsumersServed'
  BY DEF Leave, OneMode, ConsumersServed
<1>4. \A j \in Instrument : refs'[j] = Cardinality(Users(j)')
  BY <1>0, <1>1, <1>2 DEF Leave, RefsCount, TypeOK
<1>5. RefsCount'
  BY <1>4 DEF RefsCount
<1>6. Users(i) \ {c} # {}
  <2>1. Cardinality(Users(i) \ {c}) # 0
    BY <1>0, <1>2, UsersFinite DEF Leave, RefsCount
  <2> QED BY <2>1, FS_EmptySet
<1>7. Unmixed'
  BY <1>0, <1>1, <1>6, LineParts DEF Leave, Unmixed, TypeOK
<1>8. refs' \in [Instrument -> 0 .. Cardinality(Consumer)]
  <2>1. Cardinality(Consumer) \in Nat
    BY SubscriptionAssumption, FS_CardinalityType
  <2>2. refs[i] - 1 \in 0 .. Cardinality(Consumer)
    BY <1>0, <2>1 DEF Leave, TypeOK
  <2> QED BY <1>0, <2>2 DEF Leave, TypeOK
<1> QED BY <1>3, <1>5, <1>7, <1>8

\* The last one leaves it: nobody else used it, in whatever mode.
LEMMA ReleaseEngine ==
    ASSUME IInv, NEW c \in Consumer, NEW l \in Line, Release(c, l)
    PROVE  EngineInv' /\ refs' \in [Instrument -> 0 .. Cardinality(Consumer)]
<1> DEFINE i == l[1]
<1> USE DEF IInv, EngineInv
<1>0. i \in Instrument
  BY LineParts
<1>1. /\ c \in Users(i)
      /\ \A j \in Instrument : Users(j)' = IF j = i THEN Users(i) \ {c} ELSE Users(j)
  BY UsersLeave DEF Release
<1>2. Users(i) \ {c} = {}
  <2>1. IsFiniteSet(Users(i) \ {c}) /\ Cardinality(Users(i) \ {c}) = Cardinality(Users(i)) - 1
    BY <1>0, <1>1, UsersFinite, FS_RemoveElement
  <2>2. Cardinality(Users(i)) <= 1 /\ Cardinality(Users(i)) \in Nat
    BY <1>0, UsersFinite DEF Release, RefsCount
  <2>3. Cardinality(Users(i) \ {c}) \in Nat
    BY <2>1, FS_CardinalityType
  <2>4. Cardinality(Users(i) \ {c}) = 0
    BY <2>1, <2>2, <2>3
  <2> QED BY <2>1, <2>4, FS_EmptySet
<1>3. OneMode'
  BY DEF Release, OneMode
<1>4. \A j \in Instrument : refs'[j] = Cardinality(Users(j)')
  BY <1>0, <1>1, <1>2, FS_EmptySet DEF Release, RefsCount, TypeOK
<1>5. RefsCount'
  BY <1>4 DEF RefsCount
<1>6. \A d \in Consumer, k \in Line : <<d, k>> \in callbacks' => k[1] # i
  BY <1>0, <1>1, <1>2 DEF Users
<1>7. ConsumersServed'
  BY <1>6 DEF Release, Unsubscribed, ConsumersServed
<1>8. Unmixed'
  <2> SUFFICES ASSUME NEW k \in subscribed', k[1] \notin mixed'
               PROVE  k[2] = mode'[k[1]] /\ Users(k[1])' # {}
    BY DEF Unmixed
  <2>1. k \in subscribed /\ k # <<i, mode[i]>> /\ k \in Line /\ k[1] \notin mixed
    BY DEF Release, Unsubscribed, TypeOK
  <2>2. k[2] = mode[k[1]] /\ Users(k[1]) # {}
    BY <2>1 DEF Unmixed
  <2>3. k[1] # i
    BY <2>1, <2>2, LineParts
  <2> QED BY <1>0, <1>1, <2>1, <2>2, <2>3, LineParts DEF Release, TypeOK
<1>9. refs' \in [Instrument -> 0 .. Cardinality(Consumer)]
  <2>1. Cardinality(Consumer) \in Nat
    BY SubscriptionAssumption, FS_CardinalityType
  <2> QED BY <1>0, <2>1 DEF Release, TypeOK
<1> QED BY <1>3, <1>5, <1>7, <1>8, <1>9

-----------------------------------------------------------------------------
(* The feed *)

\* Closing the socket, or failing to.
LEMMA CloseTypes ==
    ASSUME TypeOK, Closed \/ NotClosed
    PROVE  /\ pc' \in Socket \cup {"none", "check", "run", "dead"} /\ asked' \subseteq Line
           /\ unclosed' \in BOOLEAN /\ snapshot' \subseteq Line
<1>1. pc' \in Socket \cup {"none", "check", "run", "dead"} /\ asked' \subseteq Line
  BY DEF Closed, NotClosed, TypeOK
<1>2. ASSUME NotClosed PROVE unclosed' \in BOOLEAN /\ snapshot' \subseteq Line
  BY <1>2 DEF NotClosed, TypeOK
<1> QED BY <1>1, <1>2 DEF Closed

\* A line is asked for at once, or the connection is given up, or it waits for
\* the replay.
LEMMA SubscribeFeed ==
    ASSUME IInv, NEW c \in Consumer, NEW l \in Line, Subscribe(c, l)
    PROVE  TypeOK' /\ FeedInv'
<1> USE DEF Subscribe, IInv
<1>1. refs' \in [Instrument -> 0 .. Cardinality(Consumer)]
  BY SubscribeEngine
<1>2. mode' \in [Instrument -> Mode \cup {None}] /\ mixed' \subseteq Instrument
  BY LineParts DEF TypeOK
<1>3. CASE Ask(l)
  <2>1. TypeOK'
    BY <1>1, <1>2, <1>3 DEF Ask, TypeOK, Socket
  <2>2. FeedInv'
    BY <1>3 DEF Ask, FeedInv, FeedBuilt, ConnectedPc, Replaying, NothingMissed, Socket
  <2> QED BY <2>1, <2>2
<1>4. CASE AskFails(l)
  <2>1. TypeOK'
    <3>1. /\ pc' \in Socket \cup {"none", "check", "run", "dead"} /\ asked' \subseteq Line
          /\ unclosed' \in BOOLEAN /\ snapshot' \subseteq Line
      BY <1>4, CloseTypes DEF AskFails
    <3>2. connected' \in BOOLEAN /\ subscribed' \subseteq Line
      BY <1>4 DEF AskFails, TypeOK
    <3> QED BY <1>1, <1>2, <3>1, <3>2 DEF TypeOK
  <2>2. FeedInv'
    BY <1>4 DEF AskFails, Closed, NotClosed, FeedInv, FeedBuilt, ConnectedPc, Replaying,
                NothingMissed, Socket
  <2> QED BY <2>1, <2>2
<1>5. CASE Queue(l)
  <2>1. TypeOK'
    BY <1>1, <1>2, <1>5 DEF Queue, TypeOK, Socket
  <2>2. FeedInv'
    BY <1>5 DEF Queue, FeedInv, FeedBuilt, ConnectedPc, Replaying, NothingMissed, Socket
  <2> QED BY <2>1, <2>2
<1> QED BY <1>3, <1>4, <1>5

\* Lines are given up: what is left was asked for.
LEMMA LeaveFeed ==
    ASSUME IInv, NEW c \in Consumer, NEW l \in Line, Leave(c, l) \/ Release(c, l)
    PROVE  TypeOK' /\ FeedInv'
<1> USE DEF IInv
<1>1. refs' \in [Instrument -> 0 .. Cardinality(Consumer)]
  BY LeaveEngine, ReleaseEngine
<1>2. CASE Leave(c, l)
  BY <1>1, <1>2 DEF Leave, TypeOK, thread, flags, FeedInv, FeedBuilt, ConnectedPc, Replaying,
                    NothingMissed
<1>3. CASE Release(c, l)
  <2>1. mode' \in [Instrument -> Mode \cup {None}]
    BY <1>3 DEF Release, TypeOK
  <2>2. TypeOK'
    BY <1>1, <1>3, <2>1 DEF Release, Unsubscribed, TypeOK, flags
  <2>3. FeedInv'
    BY <1>3 DEF Release, Unsubscribed, flags, FeedInv, FeedBuilt, ConnectedPc, Replaying,
                NothingMissed
  <2> QED BY <2>2, <2>3
<1> QED BY <1>2, <1>3

\* connect(), and stop.
LEMMA StartStop ==
    ASSUME IInv, Connect \/ StopSets \/ StopCloses
    PROVE  IInv'
<1> USE DEF IInv
<1>1. EngineInv'
  BY EngineAlone DEF Connect, StopSets, StopCloses, engine
<1>2. TypeOK'
  <2>1. CASE Connect \/ StopSets
    BY <2>1 DEF Connect, StopSets, engine, flags, thread, TypeOK
  <2>2. CASE StopCloses
    <3>1. /\ pc' \in Socket \cup {"none", "check", "run", "dead"} /\ asked' \subseteq Line
          /\ unclosed' \in BOOLEAN /\ snapshot' \subseteq Line
      BY <2>2, CloseTypes DEF StopCloses, TypeOK
    <3> QED BY <2>2, <3>1 DEF StopCloses, engine, TypeOK
  <2> QED BY <2>1, <2>2
<1>3. FeedInv'
  BY DEF Connect, StopSets, StopCloses, Closed, NotClosed, engine, flags, thread, TypeOK, Socket,
         FeedInv, FeedBuilt, ConnectedPc, Replaying, NothingMissed
<1> QED BY <1>1, <1>2, <1>3

\* The steps of the thread and of the connection.
LEMMA ThreadStep ==
    ASSUME IInv, Thread
    PROVE  IInv'
<1> USE DEF IInv
<1>1. EngineInv'
  BY EngineAlone
     DEF Thread, ThreadEnds, Run, SocketOpens, OnConnect, Replay, ReplayFails, Drop, Silence,
         Message, RunReturns, engine
<1>2. CASE ThreadEnds \/ Run \/ RunReturns
  <2>1. TypeOK'
    BY <1>2 DEF ThreadEnds, Run, RunReturns, engine, flags, TypeOK, Socket
  <2>2. FeedInv'
    BY <1>2, SubscriptionAssumption
       DEF ThreadEnds, Run, RunReturns, engine, flags, TypeOK, Socket, FeedInv, FeedBuilt,
           ConnectedPc, Replaying, NothingMissed
  <2> QED BY <1>1, <2>1, <2>2
<1>3. CASE SocketOpens \/ OnConnect \/ Replay
  <2>1. TypeOK'
    BY <1>3 DEF SocketOpens, OnConnect, Replay, engine, flags, TypeOK, Socket, FeedInv, FeedBuilt
  <2>2. FeedInv'
    BY <1>3 DEF SocketOpens, OnConnect, Replay, engine, flags, TypeOK, Socket, FeedInv,
                FeedBuilt, ConnectedPc, Replaying, NothingMissed
  <2> QED BY <1>1, <2>1, <2>2
<1>4. CASE ReplayFails \/ Silence \/ Message
  <2>1. TypeOK'
    BY <1>4 DEF ReplayFails, Silence, Message, Closed, engine, flags, TypeOK, Socket
  <2>2. FeedInv'
    BY <1>4 DEF ReplayFails, Silence, Message, Closed, engine, flags, TypeOK, Socket,
                FeedInv, FeedBuilt, ConnectedPc, Replaying, NothingMissed
  <2> QED BY <1>1, <2>1, <2>2
<1>5. CASE Drop
  <2>1. pc' = "dead" /\ asked' = {} /\ unclosed' \in BOOLEAN /\ snapshot' = {} /\ feed # None
    BY <1>5 DEF Drop, Closed, FeedInv, FeedBuilt
  <2>2. connected' \in BOOLEAN
    BY <1>5 DEF Drop, TypeOK
  <2>3. TypeOK'
    BY <1>5, <2>1, <2>2 DEF Drop, engine, TypeOK
  <2>4. FeedInv'
    BY <1>5, <2>1 DEF Drop, FeedInv, FeedBuilt, ConnectedPc, Replaying, NothingMissed
  <2> QED BY <1>1, <2>3, <2>4
<1> QED BY <1>2, <1>3, <1>4, <1>5 DEF Thread

-----------------------------------------------------------------------------
(* The theorems *)

\* Initially nobody uses anything and there is no thread.
LEMMA InitIInv == Init => IInv
<1> SUFFICES ASSUME Init PROVE IInv
  OBVIOUS
<1>1. \A i \in Instrument : Users(i) = {}
  BY DEF Init, Users
<1>2. Cardinality(Consumer) \in Nat
  BY SubscriptionAssumption, FS_CardinalityType
<1>3. TypeOK
  <2>1. refs \in [Instrument -> 0 .. Cardinality(Consumer)]
    BY <1>2 DEF Init
  <2>2. mode \in [Instrument -> Mode \cup {None}] /\ mixed \subseteq Instrument
    BY DEF Init
  <2> QED BY <2>1, <2>2 DEF Init, TypeOK
<1>4. EngineInv
  BY <1>1, FS_EmptySet DEF Init, EngineInv, OneMode, RefsCount, ConsumersServed, Unmixed
<1>5. FeedInv
  BY DEF Init, FeedInv, FeedBuilt, ConnectedPc, Replaying, NothingMissed, Socket
<1> QED BY <1>3, <1>4, <1>5 DEF IInv

\* Every step keeps the invariant.
LEMMA NextIInv == IInv /\ [Next]_vars => IInv'
<1> SUFFICES ASSUME IInv, [Next]_vars PROVE IInv'
  OBVIOUS
<1>1. CASE Consumers
  <2>1. ASSUME NEW c \in Consumer, NEW l \in Line, Subscribe(c, l) PROVE IInv'
    BY <2>1, SubscribeEngine, SubscribeFeed DEF IInv
  <2>2. ASSUME NEW c \in Consumer, NEW l \in Line, Leave(c, l) \/ Release(c, l) PROVE IInv'
    BY <2>2, LeaveEngine, ReleaseEngine, LeaveFeed DEF IInv
  <2>3. CASE Connect
    BY <2>3, StartStop
  <2> QED BY <1>1, <2>1, <2>2, <2>3 DEF Consumers
<1>2. CASE StopSets \/ StopCloses
  BY <1>2, StartStop
<1>3. CASE Thread
  BY <1>3, ThreadStep
<1>4. CASE UNCHANGED vars
  <2>1. UNCHANGED <<callbacks, refs, mode, starting, mixed, subscribed, connected, stop, stopper,
                    pc, feed, snapshot, asked, unclosed>>
    BY <1>4 DEF vars, engine, flags, thread
  <2>2. EngineInv'
    BY <2>1, EngineAlone DEF IInv
  <2> QED BY <2>1, <2>2 DEF IInv, TypeOK, FeedInv, FeedBuilt, ConnectedPc, Replaying,
                           NothingMissed
<1> QED BY <1>1, <1>2, <1>3, <1>4 DEF Next

\* The inductive invariant: references count users, an instrument used in one
\* mode has one line, and what is subscribed was asked for or will be replayed.
THEOREM AlwaysIInv == Spec => []IInv
BY InitIInv, NextIInv, PTL DEF Spec

\* Type correctness: the references never outnumber the consumers.
THEOREM Typing == Spec => []TypeOK
<1>1. IInv => TypeOK
  BY DEF IInv
<1> QED BY <1>1, AlwaysIInv, PTL

\* What a consumer subscribed to stays subscribed (unsubscribe_market).
THEOREM EveryConsumerServed == Spec => []ConsumersServed
<1>1. IInv => ConsumersServed
  BY DEF IInv, EngineInv
<1> QED BY <1>1, AlwaysIInv, PTL

\* On a connection that is replayed everything subscribed was asked for
\* (subscribe against _on_connect).
THEOREM ReplayIsComplete == Spec => []NothingMissed
<1>1. IInv => NothingMissed
  BY DEF IInv, FeedInv
<1> QED BY <1>1, AlwaysIInv, PTL

\* An instrument without consumers is not subscribed, unless it was used in two
\* modes at a time (unsubscribe_market, _decrement_instrument).
THEOREM Released == Spec => []ReleasedUnlessMixed
<1>1. IInv => ReleasedUnlessMixed
  BY DEF IInv, EngineInv, Unmixed, ReleasedUnlessMixed
<1> QED BY <1>1, AlwaysIInv, PTL
=============================================================================
