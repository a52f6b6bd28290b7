---------------------------- MODULE ServicesProofs ----------------------------
(***************************************************************************)
(* Proofs about the components of MCServices that look after connections,  *)
(* tokens, quota and historical bars, for any number of processes,         *)
(* threads, gateways, instruments and brokers: each goes through its own   *)
(* specification, whose invariant is proved and carried over to the        *)
(* properties that TLC checks.                                             *)
(***************************************************************************)
EXTENDS MCServices, ServiceOrdersProofs, NaturalsInduction, WellFoundedInduction

(***************************************************************************)
(* The admission to the market feed: who is in a socket and was not        *)
(* abandoned there has the lock, and one process has it.                   *)
(***************************************************************************)
\* Whatever runs, Admission goes through its own specification.
THEOREM AdmissionImplemented == Spec => Admission!Spec
<1>1. Init => Admission!Init
  BY DEF Init
<1>2. [Next]_vars => [Admission!Next]_(Admission!vars)
  <2> SUFFICES ASSUME [Next]_vars PROVE [Admission!Next]_(Admission!vars)
    OBVIOUS
  <2>1. CASE Admission!Next
    BY <2>1
  <2>2. CASE UNCHANGED admissionVars
    BY <2>2 DEF admissionVars, Admission!vars
  <2> QED BY <2>1, <2>2 DEF Next, vars, Rest, Runs
<1> QED BY <1>1, <1>2, PTL DEF Spec, Admission!Spec

\* Who believes to have the lock has it.
HeldIsLocked == \A p \in Procs : held[p] => lock = p

\* No thread that a stop has not left behind is in a socket without the lock.
SocketsHeld == \A p \in Procs \ left : Admission!Socket(p) => held[p]

\* The inductive invariant of the admission to the market feed.
LockInv == Admission!TypeOK /\ HeldIsLocked /\ SocketsHeld

\* The lock and the flags of its holders, after a process gives it up.
LEMMA FreeKeepsLock ==
    ASSUME Admission!TypeOK, HeldIsLocked, NEW p \in Procs, Admission!Free(p)
    PROVE  /\ held' \in [Procs -> BOOLEAN] /\ lock' \in Procs \cup {None}
           /\ HeldIsLocked'
           /\ ~held'[p]
           /\ \A q \in Procs : q # p => held'[q] = held[q]
<1>1. held' = [held EXCEPT ![p] = FALSE] /\ held \in [Procs -> BOOLEAN]
  BY DEF Admission!Free, Admission!TypeOK
<1>2. ~held'[p] /\ \A q \in Procs : q # p => held'[q] = held[q]
  BY <1>1
<1>3. lock' = IF held[p] THEN None ELSE lock
  BY DEF Admission!Free
<1>4. HeldIsLocked'
  BY <1>2, <1>3 DEF HeldIsLocked
<1> QED BY <1>1, <1>2, <1>3, <1>4 DEF Admission!TypeOK

\* A feed goes from one of its states to another, and the others stay.
LEMMA FeedMoves ==
    ASSUME Admission!TypeOK, NEW p \in Procs, NEW here,
           NEW there \in {"none", "waiting", "admitted", "handshake", "up"}, Admission!At(p, here, there)
    PROVE  /\ feeds' \in [Procs -> {"none", "waiting", "admitted", "handshake", "up"}]
           /\ feeds[p] = here /\ feeds'[p] = there
           /\ \A q \in Procs : q # p => feeds'[q] = feeds[q]
BY DEF Admission!At, Admission!TypeOK

\* The lock that a process takes was free, or its own.
LEMMA AdmitKeepsLock ==
    ASSUME LockInv, NEW p \in Procs, Admission!Admit(p)
    PROVE  LockInv'
<1>1. /\ held' = [held EXCEPT ![p] = TRUE]
      /\ lock' = IF held[p] THEN lock ELSE p
      /\ held[p] \/ lock = None
      /\ UNCHANGED <<ending, cooldown, filed, streak, left>>
  BY DEF Admission!Admit, Admission!penalty
<1>2. /\ feeds' \in [Procs -> {"none", "waiting", "admitted", "handshake", "up"}]
      /\ \A q \in Procs : q # p => feeds'[q] = feeds[q]
  BY FeedMoves DEF Admission!Admit, LockInv
<1>3. /\ held' \in [Procs -> BOOLEAN] /\ held'[p]
      /\ \A q \in Procs : q # p => held'[q] = held[q]
  BY <1>1 DEF LockInv, Admission!TypeOK
<1>4. lock' = p /\ \A q \in Procs : held[q] => q = p
  BY <1>1, AdmissionAssumption DEF LockInv, HeldIsLocked
<1>5. Admission!TypeOK'
  BY <1>1, <1>2, <1>3, <1>4 DEF LockInv, Admission!TypeOK
<1>6. HeldIsLocked'
  BY <1>3, <1>4 DEF HeldIsLocked
<1>7. SocketsHeld'
  BY <1>1, <1>2, <1>3 DEF LockInv, SocketsHeld, Admission!Socket
<1> QED BY <1>5, <1>6, <1>7 DEF LockInv

\* The steps of a thread between admissions: a feed that is in the socket
\* afterwards was there before.
LEMMA ThreadKeepsLock ==
    ASSUME LockInv, NEW p \in Procs,
           \/ Admission!Start(p) \/ Admission!CoolDown(p) \/ Admission!Handshake(p)
           \/ Admission!Connected(p) \/ Admission!RateLimited(p) \/ Admission!Lost(p)
    PROVE  LockInv'
<1>1. UNCHANGED <<lock, held, left>>
  BY DEF Admission!Start, Admission!CoolDown, Admission!Handshake, Admission!Connected,
     Admission!RateLimited, Admission!Lost
<1>2. \E here, there \in {"none", "waiting", "admitted", "handshake", "up"} :
        /\ Admission!At(p, here, there)
        /\ there \in {"admitted", "handshake", "up"} =>
             here \in {"admitted", "handshake", "up"}
  BY DEF Admission!Start, Admission!CoolDown, Admission!Handshake, Admission!Connected,
     Admission!RateLimited, Admission!Lost
<1>3. /\ feeds' \in [Procs -> {"none", "waiting", "admitted", "handshake", "up"}]
      /\ \A q \in Procs : Admission!Socket(q)' => Admission!Socket(q)
  BY <1>2, FeedMoves DEF LockInv, Admission!Socket
<1>4. Admission!Counted(p) \in 0 .. MaxStreak
  BY AdmissionAssumption DEF Admission!Counted, LockInv, Admission!TypeOK
<1>5. streak' \in [Procs -> 0 .. MaxStreak] /\ filed' \in 0 .. MaxStreak /\ cooldown' \in BOOLEAN
  <2>1. /\ streak \in [Procs -> 0 .. MaxStreak] /\ filed \in 0 .. MaxStreak
        /\ cooldown \in BOOLEAN /\ 0 \in 0 .. MaxStreak
    BY AdmissionAssumption DEF LockInv, Admission!TypeOK
  <2>2. CASE Admission!Connected(p)
    BY <2>1, <2>2 DEF Admission!Connected
  <2>3. CASE Admission!RateLimited(p)
    BY <2>1, <2>3, <1>4 DEF Admission!RateLimited
  <2>4. CASE Admission!Start(p) \/ Admission!CoolDown(p) \/ Admission!Handshake(p) \/ Admission!Lost(p)
    BY <2>1, <2>4 DEF Admission!Start, Admission!CoolDown, Admission!Handshake,
       Admission!Lost, Admission!penalty
  <2> QED BY <2>2, <2>3, <2>4
<1>6. ending' \in [Procs -> BOOLEAN]
  BY DEF Admission!Start, Admission!CoolDown, Admission!Handshake, Admission!Connected,
     Admission!RateLimited, Admission!Lost, LockInv, Admission!TypeOK
<1>7. Admission!TypeOK'
  BY <1>1, <1>3, <1>5, <1>6 DEF LockInv, Admission!TypeOK
<1>8. HeldIsLocked' /\ SocketsHeld'
  BY <1>1, <1>3 DEF LockInv, HeldIsLocked, SocketsHeld
<1> QED BY <1>7, <1>8 DEF LockInv

\* A thread that ends, a stop and a crash: who gives the lock up is out of the
\* socket, or counts as left in it.
LEMMA EndKeepsLock ==
    ASSUME LockInv, NEW p \in Procs, Admission!End(p) \/ Admission!Stop(p) \/ Admission!Restart(p)
    PROVE  LockInv'
<1>1. CASE Admission!End(p)
  <2>1. Admission!Free(p) /\ left' = left \ {p} /\ UNCHANGED <<ending, cooldown, filed, streak>>
    BY <1>1 DEF Admission!End, Admission!penalty
  <2>2. /\ feeds' \in [Procs -> {"none", "waiting", "admitted", "handshake", "up"}]
        /\ feeds'[p] = "none" /\ \A q \in Procs : q # p => feeds'[q] = feeds[q]
    BY <1>1, FeedMoves DEF Admission!End, LockInv
  <2>3. Admission!TypeOK' /\ HeldIsLocked'
    BY <2>1, <2>2, FreeKeepsLock DEF LockInv, Admission!TypeOK
  <2>4. SocketsHeld'
    BY <2>1, <2>2, FreeKeepsLock DEF LockInv, SocketsHeld, Admission!Socket
  <2> QED BY <2>3, <2>4 DEF LockInv
<1>2. CASE Admission!Stop(p)
  <2>1. /\ ending' \in [Procs -> BOOLEAN] /\ UNCHANGED <<feeds, cooldown, filed, streak>>
        /\ \/ UNCHANGED <<lock, held, left>>
           \/ Admission!Free(p) /\ left' = left \cup {p}
    BY <1>2 DEF Admission!Stop, Admission!penalty, LockInv, Admission!TypeOK
  <2>2. CASE UNCHANGED <<lock, held, left>>
    BY <2>1, <2>2 DEF LockInv, Admission!TypeOK, HeldIsLocked, SocketsHeld, Admission!Socket
  <2>3. CASE Admission!Free(p) /\ left' = left \cup {p}
    <3>1. Admission!TypeOK' /\ HeldIsLocked'
      BY <2>1, <2>3, FreeKeepsLock DEF LockInv, Admission!TypeOK
    <3>2. SocketsHeld'
      BY <2>1, <2>3, FreeKeepsLock DEF LockInv, SocketsHeld, Admission!Socket
    <3> QED BY <3>1, <3>2 DEF LockInv
  <2> QED BY <2>1, <2>2, <2>3
<1>3. CASE Admission!Restart(p)
  <2>1. Admission!Free(p) /\ left' = left \ {p} /\ UNCHANGED <<ending, cooldown, filed>>
    BY <1>3 DEF Admission!Restart
  <2>2. /\ feeds' \in [Procs -> {"none", "waiting", "admitted", "handshake", "up"}]
        /\ feeds'[p] = "none" /\ \A q \in Procs : q # p => feeds'[q] = feeds[q]
    BY <1>3 DEF Admission!Restart, LockInv, Admission!TypeOK
  <2>3. streak' \in [Procs -> 0 .. MaxStreak]
    BY <1>3, AdmissionAssumption DEF Admission!Restart, LockInv, Admission!TypeOK
  <2>4. Admission!TypeOK' /\ HeldIsLocked'
    BY <2>1, <2>2, <2>3, FreeKeepsLock DEF LockInv, Admission!TypeOK
  <2>5. SocketsHeld'
    BY <2>1, <2>2, FreeKeepsLock DEF LockInv, SocketsHeld, Admission!Socket
  <2> QED BY <2>4, <2>5 DEF LockInv
<1> QED BY <1>1, <1>2, <1>3

\* MarketFeedConnectionAdmission keeps its types and the lock's bookkeeping.
LEMMA AdmissionInv == Admission!Spec => []LockInv
<1>1. Admission!Init => LockInv
  <2> SUFFICES ASSUME Admission!Init PROVE LockInv
    OBVIOUS
  <2>1. 0 \in 0 .. MaxStreak
    BY AdmissionAssumption
  <2>2. \A p \in Procs : ~held[p] /\ ~Admission!Socket(p)
    BY DEF Admission!Init, Admission!Socket
  <2>3. held \in [Procs -> BOOLEAN] /\ ending \in [Procs -> BOOLEAN]
    BY DEF Admission!Init
  <2>4. streak \in [Procs -> 0 .. MaxStreak] /\ filed \in 0 .. MaxStreak
    BY <2>1 DEF Admission!Init
  <2>5. feeds \in [Procs -> {"none", "waiting", "admitted", "handshake", "up"}]
    BY DEF Admission!Init
  <2>6. Admission!TypeOK
    BY <2>3, <2>4, <2>5 DEF Admission!Init, Admission!TypeOK
  <2> QED BY <2>2, <2>6 DEF LockInv, HeldIsLocked, SocketsHeld
<1>2. LockInv /\ [Admission!Next]_(Admission!vars) => LockInv'
  <2> SUFFICES ASSUME LockInv, [Admission!Next]_(Admission!vars) PROVE LockInv'
    OBVIOUS
  <2>1. CASE Admission!Elapse
    BY <2>1
    DEF Admission!Elapse, LockInv, Admission!TypeOK, HeldIsLocked, SocketsHeld, Admission!Socket
  <2>2. ASSUME NEW p \in Procs, Admission!Admit(p) PROVE LockInv'
    BY <2>2, AdmitKeepsLock
  <2>3. ASSUME NEW p \in Procs,
               \/ Admission!Start(p) \/ Admission!CoolDown(p) \/ Admission!Handshake(p)
               \/ Admission!Connected(p) \/ Admission!RateLimited(p) \/ Admission!Lost(p)
        PROVE  LockInv'
    BY <2>3, ThreadKeepsLock
  <2>4. ASSUME NEW p \in Procs, Admission!End(p) \/ Admission!Stop(p) \/ Admission!Restart(p) PROVE LockInv'
    BY <2>4, EndKeepsLock
  <2>5. CASE UNCHANGED Admission!vars
    BY <2>5
    DEF Admission!vars, LockInv, Admission!TypeOK, HeldIsLocked, SocketsHeld, Admission!Socket
  <2> QED BY <2>1, <2>2, <2>3, <2>4, <2>5 DEF Admission!Next
<1> QED BY <1>1, <1>2, PTL DEF Admission!Spec

\* Of all processes of the host one is connecting to the market feed or
\* connected, whoever crashes, stops or is refused, except those whose stop
\* has not waited for the thread.
THEOREM OneFeedHolds == Spec => []OneFeed
<1>1. LockInv => Admission!OneFeed
  BY DEF LockInv, HeldIsLocked, SocketsHeld, Admission!OneFeed
<1> QED BY <1>1, AdmissionInv, AdmissionImplemented, PTL DEF OneFeed

(***************************************************************************)
(* The depth feeds: what is listed comes to be asked for, on this          *)
(* connection or the next.                                                 *)
(***************************************************************************)
\* Whatever runs, Depth goes through its own specification.
THEOREM DepthImplemented == Spec => Depth!Spec
<1>1. Init => Depth!Init
  BY DEF Init
<1>2. [Next]_vars => [Depth!Next]_(Depth!vars)
  <2> SUFFICES ASSUME [Next]_vars PROVE [Depth!Next]_(Depth!vars)
    OBVIOUS
  <2>1. CASE Depth!Next
    BY <2>1
  <2>2. CASE UNCHANGED depthVars
    BY <2>2 DEF depthVars, Depth!vars
  <2> QED BY <2>1, <2>2 DEF Next, vars, Rest, Runs
<1> QED BY <1>1, <1>2, PTL DEF Spec, Depth!Spec

\* A handler that has greeted, or is about to, counts as connected.
GreetedConnected == thread \in {"greeting", "up"} => connected

\* A gateway thread has an instrument while it subscribes.
CallsOfOne == \A g \in Gateways : calls[g].at = "idle" <=> calls[g].of = None

\* What gateway threads are done with was asked for, or will be.
ListedComing ==
  thread = "up" /\ ws = "live" /\ ~lost =>
    Depth!Subscribed \ {calls[g].of : g \in Gateways} \subseteq asked \cup toSend

\* A feed of 200 levels has the levels of what is listed only.
CachedListed == deep => \A i \in Instruments : cache[i] # None => i \in Depth!Subscribed

\* Until a second instrument came, one is listed or asked for.
Single == deep /\ ~second => ~Depth!Several(Depth!Coming \cup Depth!Subscribed)

\* The inductive invariant of the depth feeds.
DepthInv == /\ Depth!TypeOK /\ GreetedConnected /\ CallsOfOne /\ ListedComing
            /\ CachedListed /\ Single /\ Depth!BooksOwned

\* An entry less: the list has the others, and nothing new.
LEMMA EntryRemoved ==
  ASSUME Depth!TypeOK, NEW n \in DOMAIN subs, subs' = Depth!Without(n)
  PROVE  /\ subs' \in Seq(Instruments)
         /\ Depth!Subscribed' \subseteq Depth!Subscribed
         /\ Depth!Subscribed \ {subs[n]} \subseteq Depth!Subscribed'
<1>1. /\ Len(subs) \in Nat /\ DOMAIN subs = 1 .. Len(subs) /\ n \in 1 .. Len(subs)
      /\ \A m \in 1 .. Len(subs) : subs[m] \in Instruments
  BY DEF Depth!TypeOK
<1>2. Len(subs) - 1 \in Nat
  BY <1>1
<1>3. \A m \in 1 .. Len(subs) - 1 : m \in 1 .. Len(subs) /\ m + 1 \in 1 .. Len(subs)
  BY <1>1
<1>4. subs' = [m \in 1 .. Len(subs) - 1 |-> IF m < n THEN subs[m] ELSE subs[m + 1]]
  BY DEF Depth!Without
<1>5. subs' \in Seq(Instruments) /\ DOMAIN subs' = 1 .. Len(subs) - 1
  BY <1>1, <1>2, <1>3, <1>4
<1>6. Depth!Subscribed' \subseteq Depth!Subscribed
  BY <1>1, <1>3, <1>4, <1>5 DEF Depth!Subscribed
<1>7. ASSUME NEW k \in 1 .. Len(subs), subs[k] # subs[n] PROVE subs[k] \in Depth!Subscribed'
  <2>1. CASE k < n
    BY <1>1, <1>4, <1>5, <2>1 DEF Depth!Subscribed
  <2>2. CASE k > n
    <3>1. k - 1 \in 1 .. Len(subs) - 1 /\ ~(k - 1 < n) /\ (k - 1) + 1 = k
      BY <1>1, <2>2
    <3>2. subs'[k - 1] = subs[k]
      BY <1>4, <3>1
    <3> QED BY <1>5, <3>1, <3>2 DEF Depth!Subscribed
  <2> QED BY <1>1, <1>7, <2>1, <2>2
<1> QED BY <1>1, <1>5, <1>6, <1>7 DEF Depth!Subscribed

\* An entry more.
LEMMA EntryAdded ==
  ASSUME Depth!TypeOK, NEW i \in Instruments, subs' = Append(subs, i)
  PROVE  subs' \in Seq(Instruments) /\ Depth!Subscribed' = Depth!Subscribed \cup {i}
<1>1. subs \in Seq(Instruments)
  BY DEF Depth!TypeOK
<1>2. /\ subs' \in Seq(Instruments) /\ Len(subs) \in Nat /\ DOMAIN subs = 1 .. Len(subs)
      /\ DOMAIN subs' = 1 .. Len(subs) + 1
      /\ \A n \in 1 .. Len(subs) : subs'[n] = subs[n]
      /\ subs'[Len(subs) + 1] = i
  BY <1>1
<1>3. Depth!Subscribed' \subseteq Depth!Subscribed \cup {i}
  BY <1>2 DEF Depth!Subscribed
<1>4. Depth!Subscribed \cup {i} \subseteq Depth!Subscribed'
  <2>1. Len(subs) + 1 \in DOMAIN subs'
    BY <1>2
  <2>2. \A n \in DOMAIN subs : n \in DOMAIN subs'
    BY <1>2
  <2> QED BY <1>2, <2>1, <2>2 DEF Depth!Subscribed
<1> QED BY <1>2, <1>3, <1>4

\* The instruments of a list that stays are the same.
LEMMA SameList ==
  ASSUME UNCHANGED subs PROVE Depth!Subscribed' = Depth!Subscribed
BY DEF Depth!Subscribed

\* What is listed or on its way are instruments.
LEMMA SubscribedType ==
  ASSUME Depth!TypeOK
  PROVE  Depth!Subscribed \subseteq Instruments /\ Depth!Coming \subseteq Instruments
<1>1. \A n \in DOMAIN subs : subs[n] \in Instruments
  BY DEF Depth!TypeOK
<1> QED BY <1>1 DEF Depth!TypeOK, Depth!Subscribed, Depth!Coming

\* Gateway threads: what they know of their instrument.
LEMMA DepthCallMoves ==
  ASSUME Depth!TypeOK, CallsOfOne, NEW g \in Gateways,
         NEW call \in [at : {"idle", "checked", "listed"}, of : Instruments \cup {None}],
         call.at = "idle" <=> call.of = None,
         calls' = [calls EXCEPT ![g] = call]
  PROVE  /\ calls' \in [Gateways -> [at : {"idle", "checked", "listed"}, of : Instruments \cup {None}]]
         /\ CallsOfOne'
         /\ \A h \in Gateways : calls'[h].of = IF h = g THEN call.of ELSE calls[h].of
<1>1. \A h \in Gateways : calls'[h] = IF h = g THEN call ELSE calls[h]
  BY DEF Depth!TypeOK
<1> QED BY <1>1 DEF Depth!TypeOK, CallsOfOne

\* A gateway thread looks whether its instrument is listed.
LEMMA CheckStep ==
  ASSUME DepthInv, NEW g \in Gateways, NEW i \in Instruments, Depth!Check(g, i)
  PROVE  DepthInv'
<1>1. /\ calls[g].of = None
      /\ calls' = [calls EXCEPT ![g] = [at |-> "checked", of |-> i]]
      /\ UNCHANGED <<deep, thread, connected, ws, stopping, subs, toSend, asked, lost, second, cache, drops>>
  BY DEF Depth!Check, DepthInv, CallsOfOne, Depth!socket, Depth!line
<1>2. Depth!TypeOK' /\ CallsOfOne' /\ \A h \in Gateways : calls'[h].of = IF h = g THEN i ELSE calls[h].of
  <2> DEFINE call == [at |-> "checked", of |-> i]
  <2>1. /\ call \in [at : {"idle", "checked", "listed"}, of : Instruments \cup {None}]
        /\ call.of = i /\ call.at # "idle" /\ i # None
    BY DepthAssumption
  <2>2. /\ CallsOfOne' /\ \A h \in Gateways : calls'[h].of = IF h = g THEN call.of ELSE calls[h].of
        /\ calls' \in [Gateways -> [at : {"idle", "checked", "listed"}, of : Instruments \cup {None}]]
    BY <1>1, <2>1, DepthCallMoves DEF DepthInv
  <2> QED BY <1>1, <2>1, <2>2 DEF DepthInv, Depth!TypeOK
<1>3. Depth!Subscribed' = Depth!Subscribed /\ Depth!Subscribed \subseteq Instruments
  BY <1>1, SameList, SubscribedType DEF DepthInv
<1>4. ListedComing'
  BY <1>1, <1>2, <1>3, DepthAssumption DEF DepthInv, ListedComing
<1>5. GreetedConnected' /\ CachedListed' /\ Single' /\ Depth!BooksOwned'
  BY <1>1, <1>3 DEF DepthInv, GreetedConnected, CachedListed, Single, Depth!BooksOwned,
     Depth!Coming, Depth!Several
<1> QED BY <1>2, <1>4, <1>5 DEF DepthInv

\* It lists the instrument.
LEMMA DepthListStep ==
  ASSUME DepthInv, NEW g \in Gateways, Depth!List(g)
  PROVE  DepthInv'
<1> DEFINE i == calls[g].of
<1>1. /\ i \in Instruments
      /\ subs' = Append(subs, i)
      /\ second' = (second \/ Depth!Several(Depth!Coming \cup Depth!Subscribed \cup {i}))
      /\ UNCHANGED <<deep, thread, connected, ws, stopping, toSend, asked, lost, cache, drops>>
  BY DEF Depth!List, DepthInv, Depth!TypeOK, CallsOfOne, Depth!socket
<1>2. PICK call \in [at : {"idle", "checked", "listed"}, of : Instruments \cup {None}] :
        call.at = "listed" /\ call.of = i /\ calls' = [calls EXCEPT ![g] = call]
  <2> DEFINE call == [calls[g] EXCEPT !.at = "listed"]
  <2>1. /\ call \in [at : {"idle", "checked", "listed"}, of : Instruments \cup {None}]
        /\ call.at = "listed" /\ call.of = i
    BY DEF DepthInv, Depth!TypeOK
  <2>2. calls' = [calls EXCEPT ![g] = call]
    BY DEF Depth!List
  <2> QED BY <2>1, <2>2
<1>3. /\ CallsOfOne' /\ \A h \in Gateways : calls'[h].of = calls[h].of
      /\ calls' \in [Gateways -> [at : {"idle", "checked", "listed"}, of : Instruments \cup {None}]]
  BY <1>1, <1>2, DepthCallMoves, DepthAssumption DEF DepthInv
<1>4. subs' \in Seq(Instruments) /\ Depth!Subscribed' = Depth!Subscribed \cup {i}
  BY <1>1, EntryAdded DEF DepthInv
<1>5. Depth!TypeOK'
  BY <1>1, <1>3, <1>4 DEF DepthInv, Depth!TypeOK
<1>6. ListedComing'
  BY <1>1, <1>3, <1>4 DEF DepthInv, ListedComing
<1>7. Single'
  <2>1. Depth!Coming' = Depth!Coming /\ (Depth!Coming \cup Depth!Subscribed)' = Depth!Coming \cup Depth!Subscribed \cup {i}
    BY <1>1, <1>4 DEF Depth!Coming
  <2> QED BY <1>1, <2>1 DEF Single, Depth!Several
<1>8. GreetedConnected' /\ CachedListed' /\ Depth!BooksOwned'
  BY <1>1, <1>4 DEF DepthInv, GreetedConnected, CachedListed, Depth!BooksOwned
<1> QED BY <1>3, <1>5, <1>6, <1>7, <1>8 DEF DepthInv

\* The instruments of a message are among what comes.
LEMMA Handed ==
  ASSUME Depth!TypeOK, Single, ws = "live", NEW is \in SUBSET Instruments, Depth!Hand(is),
         UNCHANGED <<deep, ws, asked, subs>>
  PROVE  /\ toSend' \subseteq Instruments /\ second' \in BOOLEAN /\ (second => second')
         /\ Single'
<1>1. /\ toSend' = toSend \cup is
      /\ second' = (second \/ Depth!Several(Depth!Coming \cup Depth!Subscribed \cup is))
  BY DEF Depth!Hand
<1>2. Depth!Coming' = Depth!Coming \cup is /\ Depth!Subscribed' = Depth!Subscribed
  BY <1>1, SameList DEF Depth!Coming
<1> QED BY <1>1, <1>2 DEF Depth!TypeOK, Single, Depth!Several

\* It sends the subscription, or leaves it to the connection.
LEMMA SendStep ==
  ASSUME DepthInv, NEW g \in Gateways, Depth!Send(g)
  PROVE  DepthInv'
<1> DEFINE i == calls[g].of
<1>1. /\ i \in Instruments
      /\ calls' = [calls EXCEPT ![g] = [at |-> "idle", of |-> None]]
      /\ UNCHANGED <<deep, thread, connected, ws, stopping, subs, asked, cache, drops>>
  BY DEF Depth!Send, Depth!socket, Depth!Idle, DepthInv, Depth!TypeOK, CallsOfOne
<1>2. \/ connected /\ thread # "none" /\ ws = "live" /\ Depth!Hand({i}) /\ UNCHANGED lost
      \/ ws # "live" /\ lost' = TRUE /\ UNCHANGED <<toSend, second>>
      \/ ~(connected /\ ws # "none" /\ thread # "none") /\ UNCHANGED <<toSend, lost, second>>
  BY DEF Depth!Send
<1>3. /\ CallsOfOne' /\ \A h \in Gateways : calls'[h].of = IF h = g THEN None ELSE calls[h].of
      /\ calls' \in [Gateways -> [at : {"idle", "checked", "listed"}, of : Instruments \cup {None}]]
  <2> DEFINE call == [at |-> "idle", of |-> None]
  <2>1. /\ call \in [at : {"idle", "checked", "listed"}, of : Instruments \cup {None}]
        /\ call.of = None /\ call.at = "idle"
    OBVIOUS
  <2> QED BY <1>1, <2>1, DepthCallMoves DEF DepthInv
<1>4. Depth!Subscribed' = Depth!Subscribed /\ Depth!Subscribed \subseteq Instruments
  BY <1>1, SameList, SubscribedType DEF DepthInv
<1>5. CASE ws = "live" /\ Depth!Hand({i}) /\ UNCHANGED lost
  <2>1. toSend' \subseteq Instruments /\ second' \in BOOLEAN /\ (second => second') /\ Single'
    BY <1>1, <1>5, Handed DEF DepthInv
  <2>2. ListedComing'
    BY <1>1, <1>3, <1>4, <1>5 DEF DepthInv, ListedComing, Depth!Hand
  <2> QED BY <1>1, <1>3, <1>4, <1>5, <2>1, <2>2
          DEF DepthInv, Depth!TypeOK, GreetedConnected, CachedListed, Depth!BooksOwned
<1>6. CASE UNCHANGED <<toSend, second>> /\ (lost' = TRUE \/ (UNCHANGED lost /\ ~(connected /\ ws # "none" /\ thread # "none")))
  <2>1. ListedComing'
    BY <1>1, <1>4, <1>6 DEF DepthInv, GreetedConnected, ListedComing
  <2>2. Single'
    BY <1>1, <1>4, <1>6 DEF DepthInv, Single, Depth!Several, Depth!Coming
  <2>3. Depth!TypeOK'
    BY <1>1, <1>3, <1>6 DEF DepthInv, Depth!TypeOK
  <2> QED BY <1>1, <1>3, <1>4, <1>6, <2>1, <2>2, <2>3
          DEF DepthInv, GreetedConnected, CachedListed, Depth!BooksOwned
<1> QED BY <1>2, <1>5, <1>6

\* It takes an instrument off the list.
LEMMA UnsubscribeStep ==
  ASSUME DepthInv, NEW i \in Instruments, Depth!Unsubscribe(i)
  PROVE  DepthInv'
<1>1. PICK n \in DOMAIN subs : subs[n] = i /\ subs' = Depth!Without(n)
  BY DEF Depth!Unsubscribe
<1>2. /\ subs' \in Seq(Instruments) /\ Depth!Subscribed' \subseteq Depth!Subscribed
      /\ Depth!Subscribed \ {i} \subseteq Depth!Subscribed'
  BY <1>1, EntryRemoved DEF DepthInv
<1>3. /\ cache' = [cache EXCEPT ![i] = None]
      /\ UNCHANGED <<deep, thread, connected, ws, stopping, calls, toSend, asked, lost, second, drops>>
  BY DEF Depth!Unsubscribe, Depth!socket, Depth!line
<1>4. Depth!TypeOK' /\ \A j \in Instruments : cache'[j] = IF j = i THEN None ELSE cache[j]
  BY <1>2, <1>3 DEF DepthInv, Depth!TypeOK
<1>5. Single' /\ ListedComing' /\ GreetedConnected' /\ CallsOfOne'
  BY <1>2, <1>3
  DEF DepthInv, Single, ListedComing, GreetedConnected, CallsOfOne, Depth!Several, Depth!Coming
<1>6. CachedListed' /\ Depth!BooksOwned'
  BY <1>2, <1>3, <1>4 DEF DepthInv, CachedListed, Depth!BooksOwned
<1> QED BY <1>4, <1>5, <1>6 DEF DepthInv

\* It takes all off the list.
LEMMA UnsubscribeAllStep ==
  ASSUME DepthInv, Depth!UnsubscribeAll
  PROVE  DepthInv'
<1>1. /\ subs' = <<>> /\ cache' = [i \in Instruments |-> None]
      /\ UNCHANGED <<deep, thread, connected, ws, stopping, calls, toSend, asked, lost, second, drops>>
  BY DEF Depth!UnsubscribeAll, Depth!socket, Depth!line
<1>2. Depth!Subscribed' = {} /\ Depth!TypeOK'
  BY <1>1 DEF DepthInv, Depth!TypeOK, Depth!Subscribed
<1> QED BY <1>1, <1>2
        DEF DepthInv, Single, ListedComing, GreetedConnected, CallsOfOne, Depth!Several,
            Depth!Coming,
               CachedListed, Depth!BooksOwned

\* Steps that leave lists and books alone.
LEMMA ListsAlone ==
  ASSUME DepthInv, UNCHANGED <<deep, calls, subs, cache>>, Depth!TypeOK', GreetedConnected', ListedComing',
         second => second', ~second' => Depth!Coming' \subseteq Depth!Coming
  PROVE  DepthInv'
<1>1. Depth!Subscribed' = Depth!Subscribed
  BY SameList
<1> QED BY <1>1 DEF DepthInv, Single, Depth!Several, CachedListed, Depth!BooksOwned, CallsOfOne

\* The feed's thread starts, connects, loses its socket and ends.
LEMMA DepthThreadStep ==
  ASSUME DepthInv, Depth!Start \/ Depth!Stop \/ Depth!End \/ Depth!Open \/ Depth!OpenFails \/ Depth!Opened \/ Depth!Drop \/ Depth!Closed
  PROVE  DepthInv'
<1>1. UNCHANGED <<deep, calls, subs, cache, second>>
  BY DEF Depth!Start, Depth!Stop, Depth!End, Depth!Open, Depth!OpenFails, Depth!Opened,
     Depth!Drop, Depth!Closed, Depth!line
<1>2. Depth!Coming' \subseteq Depth!Coming
  BY DEF Depth!Start, Depth!Stop, Depth!End, Depth!Open, Depth!OpenFails, Depth!Opened,
     Depth!Drop, Depth!Closed, Depth!Coming, Depth!line
<1>3. Depth!TypeOK'
  <2>1. /\ stopping' \in BOOLEAN /\ connected' \in BOOLEAN /\ lost' \in BOOLEAN
        /\ thread' \in {"none", "waiting", "opening", "greeting", "up"}
        /\ ws' \in {"none", "live", "closed"}
    BY DEF Depth!Start, Depth!Stop, Depth!End, Depth!Open, Depth!OpenFails, Depth!Opened,
       Depth!Drop, Depth!Closed, DepthInv, Depth!TypeOK, Depth!line
  <2>2. toSend' \subseteq Instruments /\ asked' \subseteq Instruments /\ drops' \in 0 .. MaxDrops
    BY DepthAssumption DEF Depth!Start, Depth!Stop, Depth!End, Depth!Open, Depth!OpenFails,
       Depth!Opened, Depth!Drop, Depth!Closed, DepthInv, Depth!TypeOK, Depth!line
  <2> QED BY <1>1, <2>1, <2>2 DEF DepthInv, Depth!TypeOK
<1>4. GreetedConnected'
  BY DEF Depth!Start, Depth!Stop, Depth!End, Depth!Open, Depth!OpenFails, Depth!Opened,
     Depth!Drop, Depth!Closed, DepthInv, GreetedConnected
<1>5. ListedComing'
  BY <1>1, SameList DEF Depth!Start, Depth!Stop, Depth!End, Depth!Open, Depth!OpenFails,
     Depth!Opened, Depth!Drop, Depth!Closed, DepthInv, ListedComing, Depth!line
<1> QED BY <1>1, <1>2, <1>3, <1>4, <1>5, ListsAlone

\* A connection is open: what is listed now is to be sent.
LEMMA GreetStep ==
  ASSUME DepthInv, Depth!Greet
  PROVE  DepthInv'
<1>1. /\ thread = "greeting" /\ thread' = "up" /\ Depth!Hand(Depth!Subscribed)
      /\ UNCHANGED <<deep, stopping, connected, ws, calls, subs, asked, lost, cache, drops>>
  BY DEF Depth!Greet
<1>2. Depth!Subscribed' = Depth!Subscribed /\ Depth!Subscribed \subseteq Instruments
  BY <1>1, SameList, SubscribedType DEF DepthInv
<1>3. CASE ws = "live"
  <2>1. toSend' \subseteq Instruments /\ second' \in BOOLEAN /\ (second => second') /\ Single'
    BY <1>1, <1>2, <1>3, Handed DEF DepthInv
  <2>2. ListedComing'
    BY <1>1, <1>2 DEF ListedComing, Depth!Hand
  <2> QED BY <1>1, <1>2, <2>1, <2>2
          DEF DepthInv, Depth!TypeOK, GreetedConnected, CachedListed, Depth!BooksOwned,
              CallsOfOne
<1>4. CASE ws # "live"
  <2>1. toSend' \subseteq Instruments /\ second' \in BOOLEAN /\ (second => second')
    BY <1>1, <1>2 DEF Depth!Hand, DepthInv, Depth!TypeOK
  <2>2. Depth!Coming' = {} /\ Depth!Coming = {}
    BY <1>1, <1>4 DEF Depth!Coming
  <2>3. Single'
    BY <1>1, <1>2, <2>1, <2>2 DEF DepthInv, Single, Depth!Several
  <2>4. ListedComing' /\ GreetedConnected'
    BY <1>1, <1>2, <1>4 DEF ListedComing, GreetedConnected, DepthInv
  <2> QED BY <1>1, <1>2, <2>1, <2>3, <2>4
          DEF DepthInv, Depth!TypeOK, CachedListed, Depth!BooksOwned, CallsOfOne
<1> QED BY <1>3, <1>4

\* The message of the connection is sent.
LEMMA SentStep ==
  ASSUME DepthInv, NEW i \in Instruments, Depth!Sent(i)
  PROVE  DepthInv'
<1>1. /\ toSend' = toSend \ {i} /\ i \in toSend
      /\ UNCHANGED <<deep, thread, connected, ws, stopping, calls, subs, second, cache, drops>>
      /\ \/ ws = "live" /\ asked' = asked \cup {i} /\ UNCHANGED lost
         \/ lost' = TRUE /\ UNCHANGED asked
  BY DEF Depth!Sent, Depth!socket
<1>2. Depth!TypeOK'
  BY <1>1 DEF DepthInv, Depth!TypeOK
<1>3. Depth!Coming' \subseteq Depth!Coming /\ GreetedConnected'
  BY <1>1 DEF Depth!Coming, DepthInv, GreetedConnected
<1>4. ListedComing'
  BY <1>1, SameList DEF DepthInv, ListedComing
<1> QED BY <1>1, <1>2, <1>3, <1>4, ListsAlone

\* A packet puts its levels in a book.
LEMMA PacketStep ==
  ASSUME DepthInv, NEW i \in Instruments, Depth!Packet(i)
  PROVE  DepthInv'
<1>1. /\ ws = "live" /\ i \in asked
      /\ UNCHANGED <<deep, thread, connected, ws, stopping, calls, subs, toSend, asked, lost, second, drops>>
  BY DEF Depth!Packet, Depth!socket, Depth!line
<1>2. PICK to \in IF deep THEN Depth!Implicit ELSE {i} : cache' = [cache EXCEPT ![to] = i]
  BY DEF Depth!Packet
<1>3. to \in Instruments /\ (deep => to \in Depth!Subscribed)
  <2>1. CASE deep /\ subs # <<>>
    <3>1. to = subs[1] /\ 1 \in DOMAIN subs
      BY <1>2, <2>1 DEF Depth!Implicit, DepthInv, Depth!TypeOK
    <3> QED BY <3>1, SubscribedType DEF Depth!Subscribed, DepthInv
  <2>2. CASE deep /\ subs = <<>>
    BY <1>2, <2>2 DEF Depth!Implicit, DepthInv, CachedListed
  <2>3. CASE ~deep
    BY <1>2, <2>3
  <2> QED BY <2>1, <2>2, <2>3
<1>4. /\ Depth!TypeOK' /\ Depth!Subscribed' = Depth!Subscribed
      /\ \A j \in Instruments : cache'[j] = IF j = to THEN i ELSE cache[j]
  BY <1>1, <1>2, <1>3, SameList DEF DepthInv, Depth!TypeOK
<1>5. Depth!BooksOwned'
  <2>1. ~(deep /\ second) => to = i
    <3>1. CASE deep
      BY <1>1, <1>3, <3>1 DEF DepthInv, Single, Depth!Several, Depth!Coming
    <3>2. CASE ~deep
      BY <1>2, <3>2
    <3> QED BY <3>1, <3>2
  <2> QED BY <1>1, <1>4, <2>1 DEF DepthInv, Depth!BooksOwned
<1>6. CachedListed' /\ Single' /\ ListedComing' /\ GreetedConnected' /\ CallsOfOne'
  BY <1>1, <1>3, <1>4
  DEF DepthInv, CachedListed, Single, Depth!Several, Depth!Coming, ListedComing,
     GreetedConnected, CallsOfOne
<1> QED BY <1>4, <1>5, <1>6 DEF DepthInv

\* The depth feeds keep their invariant.
LEMMA DepthInvariant == Depth!Spec => []DepthInv
<1>1. Depth!Init => DepthInv
  <2> SUFFICES ASSUME Depth!Init PROVE DepthInv
    OBVIOUS
  <2>1. Depth!Subscribed = {} /\ Depth!Coming = {} /\ subs \in Seq(Instruments)
    BY DEF Depth!Init, Depth!Subscribed, Depth!Coming
  <2>2. calls \in [Gateways -> [at : {"idle", "checked", "listed"}, of : Instruments \cup {None}]]
        /\ CallsOfOne
    BY DEF Depth!Init, Depth!Idle, CallsOfOne
  <2>3. Depth!TypeOK
    <3>1. drops \in 0 .. MaxDrops /\ cache \in [Instruments -> Instruments \cup {None}]
      BY DepthAssumption DEF Depth!Init
    <3> QED BY <2>1, <2>2, <3>1 DEF Depth!Init, Depth!TypeOK
  <2> QED BY <2>1, <2>2, <2>3
          DEF Depth!Init, DepthInv, GreetedConnected, ListedComing, CachedListed,
                                 Single, Depth!Several, Depth!BooksOwned
<1>2. DepthInv /\ [Depth!Next]_(Depth!vars) => DepthInv'
  <2> SUFFICES ASSUME DepthInv, [Depth!Next]_(Depth!vars) PROVE DepthInv'
    OBVIOUS
  <2>1. CASE UNCHANGED Depth!vars
    BY <2>1, ListsAlone DEF Depth!vars, DepthInv, Depth!TypeOK, GreetedConnected,
       ListedComing, Depth!Coming, Depth!Subscribed
  <2> QED BY <2>1, CheckStep, DepthListStep, SendStep, UnsubscribeStep, UnsubscribeAllStep,
             DepthThreadStep,
             GreetStep, SentStep, PacketStep DEF Depth!Next
<1> QED BY <1>1, <1>2, PTL DEF Depth!Spec

\* For any number of gateway threads and instruments, over reconnects,
\* unsubscriptions and threads that subscribe while a connection greets: on a
\* connection whose messages are all sent Dhan has been asked for every
\* instrument that is listed and whose subscription is done, unless a message
\* failed (subscribe, _run_loop and _on_open of the depth feeds).
THEOREM SubscriptionsAskedHolds == Spec => []SubscriptionsAsked
<1>1. DepthInv => Depth!SubscriptionsAsked
  BY DEF DepthInv, ListedComing, Depth!SubscriptionsAsked
<1> QED BY <1>1, DepthInvariant, DepthImplemented, PTL DEF SubscriptionsAsked

\* No book has levels of another instrument, unless 200 levels were wanted of
\* another while the connection, or the list, had the one before (the packets
\* of 200 levels are booked under the one instrument that is listed).
THEOREM BooksOwnedHolds == Spec => []BooksOwned
<1>1. DepthInv => Depth!BooksOwned
  BY DEF DepthInv
<1> QED BY <1>1, DepthInvariant, DepthImplemented, PTL DEF BooksOwned

(***************************************************************************)
(* The tokens of Upstox: what holder, snapshot and store know while one    *)
(* thread refreshes.                                                       *)
(***************************************************************************)
\* Whatever runs, Tokens goes through its own specification.
THEOREM TokensImplemented == Spec => Tokens!Spec
<1>1. Init => Tokens!Init
  BY DEF Init
<1>2. [Next]_vars => [Tokens!Next]_(Tokens!vars)
  <2> SUFFICES ASSUME [Next]_vars PROVE [Tokens!Next]_(Tokens!vars)
    OBVIOUS
  <2>1. CASE Tokens!Next
    BY <2>1
  <2>2. CASE UNCHANGED tokensVars
    BY <2>2 DEF tokensVars, Tokens!vars
  <2> QED BY <2>1, <2>2 DEF Next, vars, Rest, Runs
<1> QED BY <1>1, <1>2, PTL DEF Spec, Tokens!Spec

\* One thread at a time refreshes.
OneLeader == \A l, m \in Tokens!Leaders : l = m

\* No token is known anywhere before it is issued.
IssuedLast ==
  /\ snapshot <= issued /\ holder <= issued /\ stored <= issued
  /\ \A t \in Threads : threads[t].token <= issued /\ threads[t].refused <= issued

\* A refresh that has yet to tell the holder has the token of the snapshot.
HoldingSnapshot ==
  \A t \in Threads : threads[t].at = "holding" /\ ~crossed => threads[t].token = snapshot

\* The leader has a new token, which is not saved yet.
Bringing(l) == threads[l].at \in {"holding", "saving"} /\ threads[l].source = "new"

\* The new token that is being saved has reached the holder, and no old one has
\* taken its place.
SavingHeld ==
  \A t \in Threads : threads[t].at = "saving" /\ threads[t].source = "new" =>
    threads[t].token <= holder /\ origin = "new"

\* A new token on its way to holder and file is later than all that were refused,
\* but for those of threads that came late to the refresh.
RefusedBefore ==
  \A l, t \in Threads : Bringing(l) => threads[t].refused < threads[l].token

\* A thread that was told of a new token had one refused that is earlier than
\* the holder's, unless an old one came back.
NewLater ==
  \A t \in Threads : threads[t].outcome = "new" /\ origin = "new" => threads[t].refused < holder

\* The inductive invariant of the tokens.
TokensInv == /\ Tokens!TypeOK /\ OneLeader /\ IssuedLast
             /\ HoldingSnapshot /\ SavingHeld /\ RefusedBefore /\ NewLater
             /\ Tokens!RetryHasNewToken /\ Tokens!HolderAgrees

\* The states of a thread.
Call == [at : Tokens!Steps, why : {"send", "401", "scheduler"},
                              second : BOOLEAN, token : Tokens!Tokens,
                              refused : 0 .. MaxTokens, outcome : Tokens!Outcomes,
                              source : Tokens!Sources]

\* What a thread has that does nothing.
LEMMA IdleFields ==
  /\ Tokens!Idle \in Call /\ Tokens!Idle.at = "idle" /\ Tokens!Idle.token = 1 /\ Tokens!Idle.refused = 0
  /\ Tokens!Idle.outcome = "none"
BY TokensAssumption DEF Tokens!Idle, Call, Tokens!Steps, Tokens!Outcomes, Tokens!Tokens, Tokens!Sources

\* What a thread has that enters the refresh: it has no promise of a token later
\* than one refused that is not earlier than the leader's.
LEMMA EnterFields ==
  ASSUME TokensInv, NEW t \in Threads, NEW why \in {"send", "401", "scheduler"},
         Tokens!Enter(t, why)
  PROVE  \E call \in Call :
           /\ threads' = [threads EXCEPT ![t] = call]
           /\ call.at = IF Tokens!Leaders = {} THEN "leads" ELSE "follows"
           /\ call.token = 1
           /\ \/ call.refused = threads[t].refused /\ call.outcome = threads[t].outcome
              \/ call.refused = 0 /\ call.outcome # "new"
              \/ call.refused = threads[t].token /\ call.outcome # "new" /\ ~Tokens!Late(t)
<1> DEFINE
    at == IF Tokens!Leaders = {} THEN "leads" ELSE "follows"
    again == threads[t].at = "ready"
    th == [threads[t] EXCEPT !.at = at, !.why = why, !.second = again, !.token = 1]
    late == [th EXCEPT !.outcome = "old", !.refused = 0]
    refusal == [th EXCEPT !.outcome = "none", !.refused = threads[t].token]
<1>1. threads[t] \in Call /\ threads[t].token \in 0 .. MaxTokens /\ 0 \in 0 .. MaxTokens
  BY TokensAssumption DEF TokensInv, Tokens!TypeOK, Call, Tokens!Tokens
<1>2. \/ threads' = [threads EXCEPT ![t] = th]
      \/ threads' = [threads EXCEPT ![t] = late]
      \/ threads' = [threads EXCEPT ![t] = refusal] /\ ~Tokens!Late(t)
  BY DEF Tokens!Enter
<1>3. at \in Tokens!Steps /\ again \in BOOLEAN /\ 1 \in Tokens!Tokens
  BY TokensAssumption DEF Tokens!Steps, Tokens!Tokens
<1> HIDE DEF at, again
<1>4. th \in Call /\ th.at = at /\ th.token = 1
      /\ th.refused = threads[t].refused /\ th.outcome = threads[t].outcome
  BY <1>1, <1>3 DEF Call
<1> HIDE DEF th
<1>5. /\ late \in Call /\ late.at = at /\ late.token = 1 /\ late.refused = 0 /\ late.outcome = "old"
      /\ refusal \in Call /\ refusal.at = at /\ refusal.token = 1
      /\ refusal.refused = threads[t].token /\ refusal.outcome = "none"
  BY <1>1, <1>4 DEF Call, Tokens!Outcomes
<1> HIDE DEF late, refusal
<1> QED BY <1>2, <1>4, <1>5 DEF at

\* What a thread has that takes the token of the holder.
LEMMA WithFields ==
  ASSUME Tokens!TypeOK, NEW th \in Call
  PROVE  /\ Tokens!With(th) \in Call
         /\ Tokens!With(th).at = "sent" /\ Tokens!With(th).token = holder
         /\ Tokens!With(th).refused \in {th.refused, 0}
         /\ Tokens!With(th).outcome = "new" =>
              th.outcome = "new" /\ origin = "new" /\ Tokens!With(th).refused = th.refused
<1> DEFINE outcome == IF th.outcome = "new" THEN origin ELSE th.outcome
           refusal == IF origin = "new" THEN th.refused ELSE 0
           call == [th EXCEPT !.at = "sent", !.token = holder, !.outcome = outcome,
                              !.refused = refusal]
<1>1. Tokens!With(th) = call
  BY DEF Tokens!With
<1>2. /\ outcome \in Tokens!Outcomes /\ refusal \in 0 .. MaxTokens /\ refusal \in {th.refused, 0}
      /\ outcome = "new" => th.outcome = "new" /\ origin = "new" /\ refusal = th.refused
  BY TokensAssumption DEF Tokens!Outcomes, Call, Tokens!TypeOK
<1> HIDE DEF outcome, refusal
<1>3. /\ call \in Call /\ call.at = "sent" /\ call.token = holder
      /\ call.refused = refusal /\ call.outcome = outcome
  BY <1>2 DEF Call, Tokens!Steps, Tokens!TypeOK
<1> HIDE DEF call
<1> QED BY <1>1, <1>2, <1>3

\* What a thread has after its refresh.
LEMMA AfterFields ==
  ASSUME NEW th \in Call, NEW led, NEW outcome
  PROVE  /\ Tokens!After(th, led, outcome) \in Call
         /\ Tokens!After(th, led, outcome).at \in {"idle", "ready", "released"}
         /\ Tokens!After(th, led, outcome).token = 1
         /\ Tokens!After(th, led, outcome).refused \in {th.refused, 0}
         /\ Tokens!After(th, led, outcome).outcome = "new" =>
              /\ th.outcome = "new" \/ outcome = "new"
              /\ Tokens!After(th, led, outcome).refused = th.refused
<1> DEFINE new == outcome = "new" /\ th.outcome = "none"
           told == IF new THEN "new" ELSE "old"
           refusal == IF new THEN th.refused ELSE 0
           sender == [th EXCEPT !.at = "released", !.source = "new", !.token = 1]
           retry == [Tokens!Idle EXCEPT !.at = "ready", !.outcome = told, !.refused = refusal]
<1>1. Tokens!After(th, led, outcome) \in {Tokens!Idle, sender, retry}
  BY DEF Tokens!After
<1>2. told \in Tokens!Outcomes /\ refusal \in 0 .. MaxTokens /\ refusal \in {th.refused, 0}
      /\ (told = "new" => outcome = "new" /\ refusal = th.refused)
  BY TokensAssumption DEF Tokens!Outcomes, Call
<1> HIDE DEF new, told, refusal
<1>3. /\ sender \in Call /\ sender.at = "released" /\ sender.token = 1
      /\ sender.refused = th.refused /\ sender.outcome = th.outcome
  <2>1. 1 \in Tokens!Tokens /\ "released" \in Tokens!Steps /\ "new" \in Tokens!Sources
    BY TokensAssumption DEF Tokens!Steps, Tokens!Sources, Tokens!Tokens
  <2> QED BY <2>1 DEF Call
<1> HIDE DEF sender
<1>4. /\ retry \in Call /\ retry.at = "ready" /\ retry.token = 1
      /\ retry.refused = refusal /\ retry.outcome = told
  BY <1>2, IdleFields DEF Call, Tokens!Steps
<1> HIDE DEF retry
<1> QED BY <1>1, <1>2, <1>3, <1>4, IdleFields

\* Tokens are numbers up to the bound.
LEMMA Numbers ==
  ASSUME Tokens!TypeOK
  PROVE  /\ issued \in Nat /\ issued <= MaxTokens /\ snapshot \in Nat /\ holder \in Nat /\ stored \in Nat
         /\ 1 <= issued /\ 0 <= issued /\ 0 < holder
         /\ threads \in [Threads -> Call]
         /\ \A t \in Threads : /\ threads[t] \in Call /\ threads[t].token \in Nat
                               /\ threads[t].refused \in Nat /\ 0 < threads[t].token
         /\ \A u \in Tokens!Tokens : u \in Nat /\ life[u] \in 0 .. 2
BY TokensAssumption DEF Tokens!TypeOK, Call, Tokens!Tokens

\* A step of a thread that is not the leader, after which it may be.
LEMMA TokensThreadStep ==
  ASSUME TokensInv, NEW t \in Threads, NEW call \in Call,
         threads' = [threads EXCEPT ![t] = call],
         UNCHANGED <<totp, snapshot, holder, stored, origin, life, revoked, issued, cooling, crossed>>,
         threads[t].at \notin Tokens!Leading,
         call.at \in Tokens!Leading => call.at = "leads" /\ Tokens!Leaders = {},
         call.token <= issued, call.refused <= issued,
         \A l \in Threads : Bringing(l) => call.refused < threads[l].token,
         call.outcome = "new" /\ origin = "new" => call.refused < holder,
         call.at = "sent" /\ call.second /\ call.outcome = "new" => call.token # call.refused
  PROVE  TokensInv'
<1>1. /\ threads' \in [Threads -> Call] /\ threads \in [Threads -> Call]
      /\ \A u \in Threads : threads'[u] = IF u = t THEN call ELSE threads[u]
  BY DEF TokensInv, Tokens!TypeOK, Call
<1>2. Tokens!TypeOK'
  BY <1>1 DEF TokensInv, Tokens!TypeOK, Call, Tokens!Tokens
<1>3. OneLeader'
  BY <1>1 DEF TokensInv, OneLeader, Tokens!Leaders
<1>4. IssuedLast' /\ NewLater' /\ Tokens!RetryHasNewToken'
  BY <1>1 DEF TokensInv, IssuedLast, NewLater, Tokens!RetryHasNewToken
<1>5. /\ \A u \in Threads : threads'[u].at \in {"holding", "saving"} => u # t
      /\ \A u \in Threads : threads[u].at = "holding" => threads'[u].at = "holding"
  BY <1>1 DEF Tokens!Leading
<1>6. HoldingSnapshot' /\ SavingHeld' /\ Tokens!HolderAgrees'
  BY <1>1, <1>5 DEF TokensInv, HoldingSnapshot, SavingHeld, Tokens!HolderAgrees
<1>7. RefusedBefore'
  BY <1>1, <1>5 DEF TokensInv, RefusedBefore, Bringing
<1> QED BY <1>2, <1>3, <1>4, <1>6, <1>7 DEF TokensInv

\* The end of a refresh that leaves holder and snapshot with one token.
LEMMA EndStep ==
  ASSUME TokensInv, NEW l \in Threads, NEW outcome, Tokens!End(l, outcome),
         threads[l].at \in Tokens!Leading,
         UNCHANGED <<totp, life, revoked>>, crossed' \in BOOLEAN,
         issued' \in Tokens!Tokens, issued <= issued', cooling' \in BOOLEAN,
         snapshot' \in Tokens!Tokens, holder' \in Tokens!Tokens, stored' \in Tokens!Tokens,
         origin' \in {"new", "old"},
         snapshot' <= issued', holder' <= issued', stored' <= issued',
         ~crossed' => holder' = snapshot',
         origin' = "new" =>
           \A t \in Threads : threads[t].outcome = "new" => threads[t].refused < holder',
         outcome = "new" => \A t \in Threads : threads[t].refused < holder'
  PROVE  TokensInv'
<1>1. threads \in [Threads -> Call] /\ issued \in Nat /\ issued' \in Nat /\ 1 <= issued /\ 0 <= issued
      /\ \A t \in Threads : threads[t].token \in Nat /\ threads[t].refused \in Nat
  BY Numbers DEF TokensInv, Tokens!Tokens
<1>2. ASSUME NEW t \in Threads
      PROVE  /\ threads'[t] \in Call
             /\ threads'[t].at \notin Tokens!Leading
             /\ threads'[t].at = "sent" => threads'[t] = threads[t]
             /\ threads'[t].token <= issued /\ threads'[t].refused <= issued
             /\ threads'[t].outcome = "new" /\ origin' = "new" => threads'[t].refused < holder'
  <2>1. threads'[t] = IF t = l \/ threads[t].at = "follows" THEN Tokens!After(threads[t], t = l, outcome)
                      ELSE threads[t]
    BY DEF Tokens!End
  <2>2. CASE t = l \/ threads[t].at = "follows"
    <3>1. threads[t] \in Call /\ threads'[t] = Tokens!After(threads[t], t = l, outcome)
      BY <1>1, <2>1, <2>2
    <3>2. /\ threads'[t] \in Call
          /\ threads'[t].at \in {"idle", "ready", "released"}
          /\ threads'[t].token = 1
          /\ threads'[t].refused \in {threads[t].refused, 0}
          /\ threads'[t].outcome = "new" =>
               /\ threads[t].outcome = "new" \/ outcome = "new"
               /\ threads'[t].refused = threads[t].refused
      BY <3>1, AfterFields
    <3> QED BY <1>1, <3>2 DEF TokensInv, IssuedLast, Tokens!Leading
  <2>3. CASE ~(t = l \/ threads[t].at = "follows")
    <3>1. threads'[t] = threads[t]
      BY <2>1, <2>3
    <3>2. threads[t].at \notin Tokens!Leading
      BY <2>3 DEF TokensInv, OneLeader, Tokens!Leaders
    <3> QED BY <1>1, <3>1, <3>2 DEF TokensInv, IssuedLast
  <2> QED BY <2>2, <2>3
<1>3. threads' \in [Threads -> Call]
  BY <1>2 DEF Tokens!End
<1>4. Tokens!TypeOK'
  BY <1>3 DEF TokensInv, Tokens!TypeOK, Call, Tokens!Tokens
<1>5. IssuedLast'
  <2> SUFFICES ASSUME NEW t \in Threads
               PROVE threads'[t].token <= issued' /\ threads'[t].refused <= issued'
    BY DEF IssuedLast
  <2>1. threads'[t].token \in Nat /\ threads'[t].refused \in Nat
    BY <1>2 DEF Call, Tokens!Tokens
  <2> QED BY <1>1, <1>2, <2>1
<1>6. NewLater'
  BY <1>2 DEF NewLater
<1>7. Tokens!RetryHasNewToken'
  BY <1>2 DEF TokensInv, Tokens!RetryHasNewToken
<1>8. OneLeader' /\ HoldingSnapshot' /\ SavingHeld' /\ RefusedBefore' /\ Tokens!HolderAgrees'
  BY <1>2 DEF OneLeader, Tokens!Leaders, Tokens!Leading, HoldingSnapshot,
     SavingHeld, RefusedBefore, Bringing, Tokens!HolderAgrees
<1> QED BY <1>4, <1>5, <1>6, <1>7, <1>8 DEF TokensInv

\* A request is sent or answered.
LEMMA RequestStep ==
  ASSUME TokensInv, NEW t \in Threads, Tokens!Send(t) \/ Tokens!Take(t) \/ Tokens!Served(t)
  PROVE  TokensInv'
<1>1. /\ UNCHANGED <<totp, snapshot, holder, stored, origin, life, revoked, issued, cooling, crossed>>
      /\ threads[t].at \notin Tokens!Leading
  BY DEF Tokens!Send, Tokens!Take, Tokens!Served, Tokens!kept, Tokens!Leading
<1>2. /\ threads[t] \in Call /\ holder \in Nat /\ threads[t].refused \in Nat
      /\ holder <= issued /\ threads[t].refused <= issued /\ 1 <= issued /\ 0 <= issued
      /\ \A l \in Threads : 0 < threads[l].token
  BY Numbers DEF TokensInv, IssuedLast
<1>3. /\ threads[t].outcome = "new" /\ origin = "new" =>
           threads[t].refused < holder /\ threads[t].refused # holder
      /\ \A l \in Threads : Bringing(l) => threads[t].refused < threads[l].token
  BY <1>2 DEF TokensInv, RefusedBefore, NewLater
<1>4. PICK call \in Call :
        /\ threads' = [threads EXCEPT ![t] = call]
        /\ \/ call = Tokens!Idle
           \/ /\ call.at = "sent" /\ call.token = holder
              /\ call.refused \in {threads[t].refused, 0}
              /\ call.outcome = "new" =>
                   threads[t].outcome = "new" /\ origin = "new" /\ call.refused = threads[t].refused
  <2> DEFINE with == Tokens!With(threads[t])
  <2>1. /\ with \in Call /\ with.at = "sent" /\ with.token = holder
        /\ with.refused \in {threads[t].refused, 0}
        /\ with.outcome = "new" =>
             threads[t].outcome = "new" /\ origin = "new" /\ with.refused = threads[t].refused
    BY <1>2, WithFields DEF TokensInv
  <2>2. CASE Tokens!Send(t)
    <3> DEFINE again == threads[t].at = "ready"
               call == [with EXCEPT !.second = again]
    <3>1. threads' = [threads EXCEPT ![t] = call]
      BY <2>2 DEF Tokens!Send
    <3>2. again \in BOOLEAN
      OBVIOUS
    <3> HIDE DEF with, again
    <3>3. /\ call \in Call /\ call.at = with.at /\ call.token = with.token
          /\ call.refused = with.refused /\ call.outcome = with.outcome
      BY <2>1, <3>2 DEF Call
    <3> HIDE DEF call
    <3> QED BY <2>1, <3>1, <3>3
  <2>3. CASE Tokens!Take(t)
    BY <2>1, <2>3 DEF Tokens!Take
  <2>4. CASE Tokens!Served(t)
    BY <2>4, IdleFields DEF Tokens!Served
  <2> QED BY <2>2, <2>3, <2>4
<1>5. CASE call = Tokens!Idle
  BY <1>1, <1>2, <1>4, <1>5, IdleFields, TokensThreadStep DEF Tokens!Leading
<1>6. CASE call # Tokens!Idle
  <2>1. call.token <= issued /\ call.refused <= issued /\ call.at = "sent"
    BY <1>2, <1>4, <1>6
  <2>2. \A l \in Threads : Bringing(l) => call.refused < threads[l].token
    BY <1>2, <1>3, <1>4, <1>6
  <2>3. call.outcome = "new" => call.refused < holder /\ call.token # call.refused
    BY <1>3, <1>4, <1>6, IdleFields
  <2> QED BY <1>1, <1>4, <2>1, <2>2, <2>3, TokensThreadStep DEF Tokens!Leading
<1> QED BY <1>5, <1>6

\* A thread enters the refresh.
LEMMA TokensEnterStep ==
  ASSUME TokensInv, NEW t \in Threads, Tokens!RefreshFirst(t) \/ Tokens!Refused(t) \/ Tokens!Scheduled(t)
  PROVE  TokensInv'
<1>1. /\ UNCHANGED <<totp, snapshot, holder, stored, origin, life, revoked, issued, cooling, crossed>>
      /\ threads[t].at \notin Tokens!Leading
  BY DEF Tokens!RefreshFirst, Tokens!Refused, Tokens!Scheduled, Tokens!kept, Tokens!Leading
<1>2. /\ threads[t].refused <= issued /\ threads[t].token <= issued /\ 1 <= issued /\ 0 <= issued
      /\ \A l \in Threads : 0 < threads[l].token /\ threads[l].token \in Nat
  BY Numbers DEF TokensInv, IssuedLast
<1>3. PICK why \in {"send", "401", "scheduler"} : Tokens!Enter(t, why)
  BY DEF Tokens!RefreshFirst, Tokens!Refused, Tokens!Scheduled
<1>4. PICK call \in Call :
           /\ threads' = [threads EXCEPT ![t] = call]
           /\ call.at = IF Tokens!Leaders = {} THEN "leads" ELSE "follows"
           /\ call.token = 1
           /\ \/ call.refused = threads[t].refused /\ call.outcome = threads[t].outcome
              \/ call.refused = 0 /\ call.outcome # "new"
              \/ call.refused = threads[t].token /\ call.outcome # "new" /\ ~Tokens!Late(t)
  BY <1>3, EnterFields
<1>5. \A l \in Threads : Bringing(l) => call.refused < threads[l].token
  <2> SUFFICES ASSUME NEW l \in Threads, Bringing(l) PROVE call.refused < threads[l].token
    OBVIOUS
  <2>1. threads[t].refused < threads[l].token
    BY DEF TokensInv, RefusedBefore
  <2>2. ~Tokens!Late(t) => threads[t].token < threads[l].token
    BY <1>2 DEF Tokens!Late, Bringing, Tokens!Leaders, Tokens!Leading
  <2> QED BY <1>2, <1>4, <2>1, <2>2
<1>6. call.outcome = "new" /\ origin = "new" => call.refused < holder
  BY <1>4 DEF TokensInv, NewLater
<1>7. call.at # "sent" /\ (call.at \in Tokens!Leading => call.at = "leads" /\ Tokens!Leaders = {})
  BY <1>4 DEF Tokens!Leading
<1>8. call.token <= issued /\ call.refused <= issued
  BY <1>2, <1>4
<1> QED BY <1>1, <1>4, <1>5, <1>6, <1>7, <1>8, TokensThreadStep

\* A follower waits no longer.
LEMMA GiveUpStep ==
  ASSUME TokensInv, NEW t \in Threads, Tokens!GiveUpWaiting(t)
  PROVE  TokensInv'
<1>0. UNCHANGED <<totp, snapshot, holder, stored, origin, life, revoked, issued, cooling, crossed>>
  BY DEF Tokens!GiveUpWaiting, Tokens!kept
<1> DEFINE call == Tokens!After(threads[t], FALSE, "old")
<1>1. threads' = [threads EXCEPT ![t] = call] /\ threads[t].at = "follows"
  BY DEF Tokens!GiveUpWaiting
<1>2. threads[t] \in Call /\ 1 <= issued /\ 0 <= issued /\ \A l \in Threads : 0 < threads[l].token
  BY Numbers DEF TokensInv
<1>3. /\ call \in Call /\ call.at \in {"idle", "ready", "released"}
      /\ call.token = 1 /\ call.refused \in {threads[t].refused, 0}
      /\ call.outcome = "new" => threads[t].outcome = "new" /\ call.refused = threads[t].refused
  <2>1. \A led : LET c == Tokens!After(threads[t], led, "old") IN
        /\ c \in Call /\ c.at \in {"idle", "ready", "released"}
        /\ c.token = 1 /\ c.refused \in {threads[t].refused, 0}
        /\ c.outcome = "new" => threads[t].outcome = "new" /\ c.refused = threads[t].refused
    BY <1>2, AfterFields
  <2> QED BY <2>1
<1> HIDE DEF call
<1>4. call.token <= issued /\ call.refused <= issued
  BY <1>2, <1>3 DEF TokensInv, IssuedLast
<1>5. \A l \in Threads : Bringing(l) => call.refused < threads[l].token
  BY <1>2, <1>3 DEF TokensInv, RefusedBefore
<1>6. call.outcome = "new" /\ origin = "new" => call.refused < holder
  BY <1>3 DEF TokensInv, NewLater
<1> QED BY <1>0, <1>1, <1>3, <1>4, <1>5, <1>6, TokensThreadStep DEF Tokens!Leading

\* A token that is issued is later than all known ones.
LEMMA NewToken ==
  ASSUME TokensInv, Tokens!New \in Tokens!Tokens
  PROVE  /\ Tokens!New \in Nat /\ issued < Tokens!New /\ issued <= Tokens!New /\ snapshot <= Tokens!New /\ holder <= Tokens!New /\ stored <= Tokens!New
         /\ \A t \in Threads : threads[t].refused < Tokens!New /\ threads[t].token < Tokens!New
<1>1. issued \in Nat /\ snapshot \in Nat /\ holder \in Nat /\ stored \in Nat
      /\ \A t \in Threads : threads[t].token \in Nat /\ threads[t].refused \in Nat
  BY Numbers DEF TokensInv
<1> QED BY <1>1 DEF Tokens!New, TokensInv, IssuedLast

\* A refresh that leaves everything as it is.
LEMMA NothingStep ==
  ASSUME TokensInv, NEW l \in Threads, NEW outcome, Tokens!End(l, outcome), outcome # "new",
         threads[l].at = "leads", cooling' \in BOOLEAN,
         UNCHANGED <<totp, snapshot, holder, stored, origin, life, revoked, issued, crossed>>
  PROVE  TokensInv'
<1>1. ~crossed => holder = snapshot
  BY DEF TokensInv, Tokens!HolderAgrees, OneLeader, Tokens!Leaders, Tokens!Leading
<1>2. issued <= issued /\ threads[l].at \in Tokens!Leading
  BY Numbers DEF TokensInv, Tokens!Leading
<1> QED BY <1>1, <1>2, EndStep DEF TokensInv, Tokens!TypeOK, IssuedLast, NewLater

\* The leader has a token for the snapshot, which is new only if it was not
\* issued before.
LEMMA BringStep ==
  ASSUME TokensInv, NEW l \in Threads, NEW tk \in Tokens!Tokens, NEW from \in Tokens!Sources,
         Tokens!Bring(l, tk, from), threads[l].at = "leads",
         issued' \in Tokens!Tokens, issued <= issued', tk <= issued',
         from = "new" => \A t \in Threads : threads[t].refused < tk,
         cooling' \in BOOLEAN, UNCHANGED <<totp, holder, stored, origin, life, revoked>>
  PROVE  TokensInv'
<1>1. snapshot' = tk /\ crossed' = FALSE
      /\ threads' = [threads EXCEPT ![l] = [threads[l] EXCEPT !.at = "holding", !.token = tk,
                                                              !.source = from]]
  BY DEF Tokens!Bring
<1>2. /\ issued \in Nat /\ snapshot \in Nat /\ holder \in Nat /\ stored \in Nat
      /\ issued' \in Nat /\ tk \in Nat
      /\ \A t \in Threads : threads[t].refused \in Nat /\ threads[t].token \in Nat
      /\ threads \in [Threads -> Call]
  BY Numbers DEF TokensInv, Tokens!Tokens
<1> DEFINE call == [threads[l] EXCEPT !.at = "holding", !.token = tk, !.source = from]
<1>3. /\ call \in Call /\ call.at = "holding" /\ call.token = tk /\ call.source = from
      /\ call.refused = threads[l].refused /\ call.outcome = threads[l].outcome
  BY <1>2 DEF Call, Tokens!Steps
<1>4. threads' = [threads EXCEPT ![l] = call]
  BY <1>1
<1> HIDE DEF call
<1>5. /\ threads' \in [Threads -> Call]
      /\ \A t \in Threads \ {l} : threads'[t] = threads[t]
      /\ threads'[l] = call
  BY <1>2, <1>3, <1>4
<1>6. \A t \in Threads : t \in Tokens!Leaders => t = l
  BY DEF TokensInv, OneLeader, Tokens!Leaders, Tokens!Leading
<1>7. Tokens!TypeOK'
  BY <1>1, <1>5 DEF TokensInv, Tokens!TypeOK, Call
<1>8. IssuedLast'
  BY <1>1, <1>2, <1>3, <1>5 DEF TokensInv, IssuedLast
<1>9. OneLeader' /\ HoldingSnapshot' /\ SavingHeld' /\ Tokens!HolderAgrees'
  BY <1>1, <1>3, <1>5, <1>6 DEF OneLeader, Tokens!Leaders, Tokens!Leading, HoldingSnapshot,
     SavingHeld, Tokens!HolderAgrees
<1>10. RefusedBefore'
  <2> SUFFICES ASSUME NEW m \in Threads, NEW t \in Threads, Bringing(m)'
               PROVE  threads'[t].refused < threads'[m].token
    BY DEF RefusedBefore
  <2>1. m = l
    BY <1>5, <1>6 DEF Bringing, Tokens!Leaders, Tokens!Leading
  <2> QED BY <1>3, <1>5, <2>1 DEF Bringing
<1>11. NewLater' /\ Tokens!RetryHasNewToken'
  BY <1>3, <1>5 DEF TokensInv, NewLater, Tokens!RetryHasNewToken
<1> QED BY <1>7, <1>8, <1>9, <1>10, <1>11 DEF TokensInv

\* In TOTP mode a refresh reuses the snapshot, loads the file, logs in, or falls
\* back to the settings' token.
LEMMA TotpStep ==
  ASSUME TokensInv, NEW l \in Threads,
         Tokens!Reuse(l) \/ Tokens!Load(l) \/ Tokens!Login(l) \/ Tokens!LoginFails(l)
  PROVE  TokensInv'
<1>1. threads[l].at = "leads" /\ threads[l].at \in Tokens!Leading
  BY DEF Tokens!Reuse, Tokens!Load, Tokens!Login, Tokens!LoginFails, Tokens!Leading
<1>2. /\ issued \in Nat /\ issued <= issued /\ 1 <= issued /\ stored <= issued /\ 1 \in Tokens!Tokens
  BY Numbers, TokensAssumption DEF TokensInv, IssuedLast, Tokens!Tokens
<1>3. CASE Tokens!Reuse(l)
  BY <1>1, <1>3, NothingStep DEF Tokens!Reuse, Tokens!kept, TokensInv, Tokens!TypeOK
<1>4. CASE Tokens!Load(l)
  BY <1>1, <1>2, <1>4, BringStep DEF Tokens!Load, Tokens!Sources, TokensInv, Tokens!TypeOK
<1>5. CASE Tokens!Login(l)
  <2>1. /\ Tokens!New \in Tokens!Tokens /\ issued' = Tokens!New /\ cooling' = TRUE /\ crossed' = FALSE
        /\ snapshot' = Tokens!New /\ holder' = Tokens!New /\ stored' \in {Tokens!New, stored} /\ origin' = "new"
        /\ Tokens!End(l, "new") /\ UNCHANGED <<totp, life, revoked>>
    BY <1>5 DEF Tokens!Login
  <2>2. /\ stored' \in Tokens!Tokens /\ stored' <= Tokens!New /\ Tokens!New <= Tokens!New
        /\ issued <= Tokens!New /\ \A t \in Threads : threads[t].refused < Tokens!New
    BY <2>1, NewToken DEF TokensInv, Tokens!TypeOK
  <2> QED BY <1>1, <2>1, <2>2, EndStep
<1>6. CASE Tokens!LoginFails(l)
  <2>1. cooling' = TRUE /\ UNCHANGED <<totp, holder, stored, origin, life, revoked, issued>>
    BY <1>6 DEF Tokens!LoginFails
  <2>2. CASE Tokens!End(l, "failed") /\ UNCHANGED <<snapshot, crossed>>
    BY <1>1, <2>1, <2>2, NothingStep
  <2>3. CASE Tokens!Bring(l, 1, "settings")
    BY <1>1, <1>2, <2>1, <2>3, BringStep DEF Tokens!Sources, TokensInv, Tokens!TypeOK
  <2> QED BY <1>6, <2>2, <2>3 DEF Tokens!LoginFails
<1> QED BY <1>3, <1>4, <1>5, <1>6

\* A refresh gets its token.
LEMMA RefreshNowStep ==
  ASSUME TokensInv, NEW l \in Threads, Tokens!RefreshNow(l)
  PROVE  TokensInv'
<1>1. /\ threads[l].at = "leads"
      /\ UNCHANGED <<totp, holder, stored, origin, life, revoked, cooling>>
      /\ cooling' \in BOOLEAN
  BY DEF Tokens!RefreshNow, TokensInv, Tokens!TypeOK
<1>2. CASE Tokens!End(l, "failed") /\ UNCHANGED <<issued, snapshot, crossed>>
  BY <1>1, <1>2, NothingStep
<1>3. CASE Tokens!New \in Tokens!Tokens /\ issued' = Tokens!New /\ Tokens!Bring(l, Tokens!New, "new")
  <2>1. issued <= Tokens!New /\ Tokens!New <= Tokens!New /\ \A t \in Threads : threads[t].refused < Tokens!New
    BY <1>3, NewToken
  <2> QED BY <1>1, <1>3, <2>1, BringStep DEF Tokens!Sources
<1> QED BY <1>2, <1>3 DEF Tokens!RefreshNow

\* The refresh tells the holder.
LEMMA HoldStep ==
  ASSUME TokensInv, NEW l \in Threads, Tokens!Hold(l)
  PROVE  TokensInv'
<1>1. /\ threads[l].at = "holding" /\ holder' = threads[l].token
      /\ origin' = IF threads[l].source = "new" THEN "new" ELSE "old"
      /\ UNCHANGED <<totp, snapshot, stored, life, revoked, issued, cooling, crossed>>
  BY DEF Tokens!Hold
<1>2. /\ issued \in Nat /\ snapshot \in Nat /\ holder \in Nat /\ stored \in Nat
      /\ \A t \in Threads : threads[t].refused \in Nat /\ threads[t].token \in Tokens!Tokens
                            /\ threads[t].token \in Nat
      /\ threads \in [Threads -> Call]
  BY Numbers DEF TokensInv, Call
<1>3. ~crossed => holder' = snapshot
  BY <1>1 DEF TokensInv, HoldingSnapshot
<1>4. CASE threads[l].source = "file" /\ Tokens!End(l, "old")
  <2>1. issued <= issued /\ threads[l].at \in Tokens!Leading /\ holder' \in Tokens!Tokens
        /\ holder' <= issued /\ origin' = "old"
    BY <1>1, <1>2, <1>4 DEF TokensInv, IssuedLast, Tokens!Leading
  <2> QED BY <1>1, <1>3, <1>4, <2>1, EndStep DEF TokensInv, Tokens!TypeOK, IssuedLast
<1>5. CASE threads' = [threads EXCEPT ![l].at = "saving"]
  <2>1. /\ threads' \in [Threads -> Call]
        /\ \A t \in Threads \ {l} : threads'[t] = threads[t]
        /\ threads'[l].at = "saving" /\ threads'[l].token = threads[l].token
        /\ threads'[l].source = threads[l].source
        /\ threads'[l].refused = threads[l].refused /\ threads'[l].outcome = threads[l].outcome
    BY <1>2, <1>5 DEF Call, Tokens!Steps
  <2>2. \A t \in Threads : t \in Tokens!Leaders => t = l
    BY <1>1 DEF TokensInv, OneLeader, Tokens!Leaders, Tokens!Leading
  <2>3. Tokens!TypeOK'
    BY <1>1, <1>2, <2>1 DEF TokensInv, Tokens!TypeOK, Call
  <2>4. IssuedLast'
    BY <1>1, <2>1 DEF TokensInv, IssuedLast
  <2>5. OneLeader' /\ HoldingSnapshot' /\ Tokens!HolderAgrees'
    BY <1>1, <1>3, <2>1, <2>2
    DEF TokensInv, OneLeader, Tokens!Leaders, Tokens!Leading, HoldingSnapshot, Tokens!HolderAgrees
  <2>6. SavingHeld' /\ RefusedBefore'
    BY <1>1, <1>2, <2>1, <2>2
    DEF TokensInv, SavingHeld, RefusedBefore, Bringing, Tokens!Leaders, Tokens!Leading
  <2>7. NewLater'
    BY <1>1, <2>1 DEF TokensInv, NewLater, RefusedBefore, Bringing
  <2>8. Tokens!RetryHasNewToken'
    BY <2>1 DEF TokensInv, Tokens!RetryHasNewToken
  <2> QED BY <2>3, <2>4, <2>5, <2>6, <2>7, <2>8 DEF TokensInv
<1> QED BY <1>4, <1>5 DEF Tokens!Hold

\* The refresh saves the token.
LEMMA SaveStep ==
  ASSUME TokensInv, NEW l \in Threads, Tokens!Save(l)
  PROVE  TokensInv'
<1>1. /\ threads[l].at = "saving" /\ stored' \in {threads[l].token, stored}
      /\ UNCHANGED <<totp, snapshot, holder, origin, life, revoked, issued, cooling, crossed>>
  BY DEF Tokens!Save
<1>2. /\ issued \in Nat /\ issued <= issued /\ holder \in Nat
      /\ \A t \in Threads : threads[t].refused \in Nat /\ threads[t].token \in Nat
      /\ threads[l].token \in Tokens!Tokens /\ threads[l].at \in Tokens!Leading
  BY <1>1, Numbers DEF TokensInv, Call, Tokens!Leading
<1>3. ~crossed => holder = snapshot
  BY <1>1 DEF TokensInv, Tokens!HolderAgrees, OneLeader, Tokens!Leaders, Tokens!Leading
<1>4. threads[l].source = "new" => \A t \in Threads : threads[t].refused < holder
  BY <1>1, <1>2 DEF TokensInv, RefusedBefore, Bringing, SavingHeld
<1>5. stored' \in Tokens!Tokens /\ stored' <= issued
  BY <1>1, <1>2 DEF TokensInv, Tokens!TypeOK, IssuedLast
<1> DEFINE outcome == IF threads[l].source = "new" THEN "new" ELSE "old"
<1>6. Tokens!End(l, outcome) /\ (outcome = "new" => threads[l].source = "new")
  BY DEF Tokens!Save
<1> HIDE DEF outcome
<1> QED BY <1>1, <1>2, <1>3, <1>4, <1>5, <1>6, EndStep
        DEF TokensInv, Tokens!TypeOK, IssuedLast, NewLater

\* The webhook brings a token.
LEMMA WebhookStep ==
  ASSUME TokensInv, Tokens!Webhook
  PROVE  TokensInv'
<1>1. /\ Tokens!New \in Tokens!Tokens /\ issued' = Tokens!New /\ snapshot' = Tokens!New /\ holder' = Tokens!New
      /\ stored' \in {Tokens!New, stored} /\ origin' = "new"
      /\ crossed' \in BOOLEAN /\ (crossed' <=> \E l \in Threads : threads[l].at = "holding")
      /\ UNCHANGED <<totp, life, revoked, cooling, threads>>
  BY DEF Tokens!Webhook
<1>2. /\ issued \in Nat /\ stored \in Nat
      /\ \A t \in Threads : threads[t].refused \in Nat /\ threads[t].token \in Nat
  BY Numbers DEF TokensInv
<1>3. Tokens!TypeOK'
  BY <1>1 DEF TokensInv, Tokens!TypeOK, Tokens!Tokens
<1>4. IssuedLast'
  BY <1>1, <1>2, NewToken DEF IssuedLast
<1>5. OneLeader' /\ RefusedBefore' /\ Tokens!RetryHasNewToken' /\ Tokens!HolderAgrees'
  BY <1>1 DEF TokensInv, OneLeader, Tokens!Leaders, RefusedBefore, Bringing,
     Tokens!RetryHasNewToken, Tokens!HolderAgrees
<1>6. HoldingSnapshot'
  BY <1>1 DEF HoldingSnapshot
<1>7. SavingHeld'
  BY <1>1, <1>2, NewToken DEF SavingHeld
<1>8. NewLater'
  BY <1>1, <1>2, NewToken DEF NewLater
<1> QED BY <1>3, <1>4, <1>5, <1>6, <1>7, <1>8 DEF TokensInv

\* The world
LEMMA WorldStep ==
  ASSUME TokensInv, Tokens!CooldownEnds \/ Tokens!Restart \/ (\E tk \in Tokens!Tokens : Tokens!Ages(tk) \/ Tokens!Revoke(tk))
  PROVE  TokensInv'
<1>1. CASE Tokens!Restart
  <2>1. threads' = [t \in Threads |-> Tokens!Idle] /\ \A t \in Threads : threads'[t] = Tokens!Idle
    BY <1>1 DEF Tokens!Restart
  <2>2. Tokens!Idle \in Call /\ Tokens!Idle.at = "idle" /\ Tokens!Idle.token = 1 /\ Tokens!Idle.refused = 0 /\ Tokens!Idle.outcome = "none"
    BY IdleFields
  <2>3. /\ snapshot' = stored /\ holder' = stored /\ origin' = "new" /\ crossed' = FALSE
        /\ UNCHANGED <<totp, stored, life, revoked, issued, cooling>>
    BY <1>1 DEF Tokens!Restart
  <2>4. Tokens!TypeOK'
    BY <2>1, <2>2, <2>3 DEF TokensInv, Tokens!TypeOK, Call, Tokens!Tokens
  <2>5. IssuedLast'
    BY <2>1, <2>2, <2>3, Numbers DEF TokensInv, IssuedLast, Tokens!TypeOK, Tokens!Tokens
  <2>6. OneLeader' /\ HoldingSnapshot' /\ SavingHeld' /\ RefusedBefore'
    BY <2>1, <2>2, <2>3 DEF OneLeader, Tokens!Leaders, Tokens!Leading, HoldingSnapshot,
       SavingHeld, RefusedBefore, Bringing
  <2>7. NewLater' /\ Tokens!RetryHasNewToken' /\ Tokens!HolderAgrees'
    BY <2>1, <2>2, <2>3 DEF NewLater, Tokens!RetryHasNewToken, Tokens!HolderAgrees
  <2> QED BY <2>4, <2>5, <2>6, <2>7 DEF TokensInv
<1>2. ASSUME Tokens!CooldownEnds \/ \E tk \in Tokens!Tokens : Tokens!Ages(tk) \/ Tokens!Revoke(tk)
      PROVE TokensInv'
  <2>1. /\ UNCHANGED <<totp, snapshot, holder, stored, origin, issued, threads, crossed>>
        /\ revoked' \subseteq Tokens!Tokens /\ cooling' \in BOOLEAN
        /\ life' \in [Tokens!Tokens -> 0 .. 2]
    <3>1. CASE Tokens!CooldownEnds \/ \E tk \in Tokens!Tokens : Tokens!Revoke(tk)
      BY <3>1 DEF Tokens!CooldownEnds, Tokens!Revoke, Tokens!kept, TokensInv, Tokens!TypeOK
    <3>2. ASSUME NEW tk \in Tokens!Tokens, Tokens!Ages(tk)
          PROVE  /\ UNCHANGED <<totp, snapshot, holder, stored, origin, issued, cooling, threads, crossed>>
                 /\ revoked' \subseteq Tokens!Tokens /\ life' \in [Tokens!Tokens -> 0 .. 2]
      <4>1. life[tk] \in 0 .. 2 /\ life[tk] > 0
        BY <3>2, Numbers DEF TokensInv, Tokens!Ages
      <4> QED BY <3>2, <4>1 DEF Tokens!Ages, Tokens!kept, TokensInv, Tokens!TypeOK
    <3> QED BY <1>2, <3>1, <3>2 DEF TokensInv, Tokens!TypeOK
  <2> QED BY <2>1 DEF TokensInv, Tokens!TypeOK, OneLeader, Tokens!Leaders, IssuedLast,
             HoldingSnapshot, SavingHeld, RefusedBefore, Bringing, NewLater,
             Tokens!RetryHasNewToken, Tokens!HolderAgrees
<1> QED BY <1>1, <1>2

\* The tokens keep their invariant.
LEMMA TokensInvariant == Tokens!Spec => []TokensInv
<1>1. Tokens!Init => TokensInv
  <2> SUFFICES ASSUME Tokens!Init PROVE TokensInv
    OBVIOUS
  <2>1. \A t \in Threads : threads[t] = Tokens!Idle
    BY DEF Tokens!Init
  <2>2. Tokens!Idle \in Call /\ Tokens!Idle.at = "idle" /\ Tokens!Idle.token = 1 /\ Tokens!Idle.refused = 0 /\ Tokens!Idle.outcome = "none"
    BY IdleFields
  <2>3. Tokens!TypeOK
    <3>1. 1 \in Tokens!Tokens /\ life \in [Tokens!Tokens -> 0 .. 2]
      BY TokensAssumption DEF Tokens!Init, Tokens!Tokens
    <3>2. threads \in [Threads -> Call]
      BY <2>1, <2>2 DEF Tokens!Init
    <3> QED BY <3>1, <3>2 DEF Tokens!Init, Tokens!TypeOK, Call
  <2> QED BY <2>1, <2>2, <2>3 DEF Tokens!Init, TokensInv, OneLeader, Tokens!Leaders,
             Tokens!Leading, IssuedLast, HoldingSnapshot, SavingHeld, RefusedBefore, Bringing,
             NewLater, Tokens!RetryHasNewToken, Tokens!HolderAgrees
<1>2. TokensInv /\ [Tokens!Next]_(Tokens!vars) => TokensInv'
  <2> SUFFICES ASSUME TokensInv, [Tokens!Next]_(Tokens!vars) PROVE TokensInv'
    OBVIOUS
  <2>1. CASE UNCHANGED Tokens!vars
    BY <2>1 DEF Tokens!vars, TokensInv, Tokens!TypeOK, OneLeader, Tokens!Leaders, IssuedLast,
       HoldingSnapshot, SavingHeld, RefusedBefore, Bringing, NewLater,
       Tokens!RetryHasNewToken, Tokens!HolderAgrees
  <2> QED BY <2>1, RequestStep, TokensEnterStep, GiveUpStep, TotpStep, RefreshNowStep,
             HoldStep, SaveStep, WebhookStep, WorldStep DEF Tokens!Next
<1> QED BY <1>1, <1>2, PTL DEF Tokens!Spec

\* For any number of threads and tokens, over webhooks, crossed writes, failed
\* logins and the tokens that they put back: a request that is retried because a
\* refresh gave a new token carries another one than the one refused, unless the
\* holder has an old one, and requests take the token of the snapshot whenever
\* no refresh is storing one, unless a webhook came between its writes (the
\* refresh of the token manager and the HTTP client's retry).
THEOREM RefreshReachesRequestsHolds == Spec => []RefreshReachesRequests
<1>1. TokensInv => Tokens!RefreshReachesRequests
  BY DEF TokensInv, Tokens!RefreshReachesRequests
<1> QED BY <1>1, TokensInvariant, TokensImplemented, PTL DEF RefreshReachesRequests

(***************************************************************************)
(* The quota scheduler: a bucket that refused an execution would have      *)
(* refilled since the last one.                                            *)
(***************************************************************************)
\* Whatever runs, Quota goes through its own specification.
THEOREM QuotaImplemented == Spec => Quota!Spec
<1>1. Init => Quota!Init
  BY DEF Init
<1>2. [Next]_vars => [Quota!Next]_(Quota!vars)
  <2> SUFFICES ASSUME [Next]_vars PROVE [Quota!Next]_(Quota!vars)
    OBVIOUS
  <2>1. CASE Quota!Next
    BY <2>1
  <2>2. CASE UNCHANGED quotaVars
    BY <2>2 DEF quotaVars, Quota!vars
  <2> QED BY <2>1, <2>2 DEF Next, vars, Rest, Runs
<1> QED BY <1>1, <1>2, PTL DEF Spec, Quota!Spec

\* The current bucket and the one before.
Buckets == {"old", "new"}

\* The states of a thread at the scheduler.
Wait == [state : {"idle", "trying", "asleep"}, priority : Quota!Priorities,
         left : 0 .. MaxWait["backfill"], bucket : Buckets]

\* What is left for executions.
ReserveRefilled ==
  \A b \in Buckets :
    \/ Quota!Reserve(b) < Unit
    \/ buckets[b] >= Unit
    \/ buckets[b] >= since[b] * Rate

\* The inductive invariant of the scheduler.
QuotaInv == Quota!TypeOK /\ ReserveRefilled

\* Multiplication one step further, all the arithmetic the refill needs.
LEMMA OneMore ==
  ASSUME NEW m \in Nat, NEW n \in Nat
  PROVE  (m + 1) * n = m * n + n /\ m * n \in Nat /\ 0 * n = 0
OBVIOUS

\* A bucket has gained a token after Horizon ticks.
LEMMA HorizonOK == Quota!Horizon \in Nat /\ Quota!Horizon * Rate >= Unit
<1>1. /\ Unit \div Rate \in Nat /\ Unit % Rate \in 0 .. (Rate - 1)
      /\ Unit = (Unit \div Rate) * Rate + (Unit % Rate)
  BY QuotaAssumption, Z3
<1>2. (Unit \div Rate + 1) * Rate = (Unit \div Rate) * Rate + Rate /\ (Unit \div Rate) * Rate \in Nat
  BY <1>1, OneMore, QuotaAssumption
<1> QED BY <1>1, <1>2, QuotaAssumption DEF Quota!Horizon

\* A reserve is no more than the capacity it is a part of.
LEMMA ReserveOK ==
  ASSUME NEW c \in Nat
  PROVE  c \div Reserved \in Nat /\ c \div Reserved <= c
BY QuotaAssumption, Z3

\* The types of the numbers, by bucket.
LEMMA TypedParts ==
  ASSUME Quota!TypeOK
  PROVE  /\ waits \in [Threads -> Wait]
         /\ \A b \in Buckets : /\ caps[b] \in Nat /\ buckets[b] \in Nat /\ buckets[b] <= caps[b]
                               /\ since[b] \in Nat /\ since[b] \in 0 .. Quota!Horizon
                               /\ Quota!Reserve(b) \in Nat /\ Quota!Reserve(b) <= caps[b]
<1>1. /\ waits \in [Threads -> Wait]
      /\ \A b \in Buckets : /\ caps[b] \in Nat /\ buckets[b] \in Nat /\ buckets[b] <= caps[b]
                            /\ since[b] \in Nat /\ since[b] \in 0 .. Quota!Horizon
  BY QuotaAssumption, HorizonOK DEF Quota!TypeOK, Buckets, Wait
<1>2. \A b \in Buckets : Quota!Reserve(b) \in Nat /\ Quota!Reserve(b) <= caps[b]
  BY <1>1, ReserveOK DEF Quota!Reserve
<1> QED BY <1>1, <1>2

\* The types after a step, from those of what it changes.
LEMMA QuotaTyped ==
  ASSUME waits' \in [Threads -> Wait], profiled' \in BOOLEAN,
         caps' \in [Buckets -> {Capacity, Default}], buckets' \in [Buckets -> Nat],
         \A b \in Buckets : buckets'[b] <= caps'[b], since' \in [Buckets -> 0 .. Quota!Horizon]
  PROVE  Quota!TypeOK'
BY DEF Quota!TypeOK, Buckets, Wait, Quota!Horizon

\* A new bucket is full.
LEMMA FullStep ==
  ASSUME QuotaInv, NEW c \in {Capacity, Default}, Quota!Full(c)
  PROVE  /\ caps' \in [Buckets -> {Capacity, Default}] /\ buckets' \in [Buckets -> Nat]
         /\ \A b \in Buckets : buckets'[b] <= caps'[b]
         /\ since' \in [Buckets -> 0 .. Quota!Horizon]
         /\ ReserveRefilled'
<1>1. /\ caps' = [old |-> caps["new"], new |-> c]
      /\ buckets' = [old |-> buckets["new"], new |-> c]
      /\ since' = [old |-> since["new"], new |-> Quota!Horizon]
  BY DEF Quota!Full
<1>2. caps["new"] \in {Capacity, Default} /\ "new" \in Buckets
  BY DEF QuotaInv, Quota!TypeOK, Buckets
<1>3. /\ buckets["new"] \in Nat /\ buckets["new"] <= caps["new"] /\ since["new"] \in 0 .. Quota!Horizon
  BY <1>2, TypedParts DEF QuotaInv
<1>4. c \in Nat /\ Quota!Horizon \in 0 .. Quota!Horizon
  BY QuotaAssumption, HorizonOK
<1>5. /\ caps' \in [Buckets -> {Capacity, Default}] /\ buckets' \in [Buckets -> Nat]
      /\ since' \in [Buckets -> 0 .. Quota!Horizon]
      /\ caps'["old"] = caps["new"] /\ caps'["new"] = c
      /\ buckets'["old"] = buckets["new"] /\ buckets'["new"] = c
      /\ since'["old"] = since["new"]
  BY <1>1, <1>2, <1>3, <1>4 DEF Buckets
<1>6. \A b \in Buckets : buckets'[b] <= caps'[b]
  BY <1>3, <1>4, <1>5 DEF Buckets
<1>7. Quota!Reserve("old")' = Quota!Reserve("new") /\ Quota!Reserve("new")' = c \div Reserved
  BY <1>5 DEF Quota!Reserve
<1>8. \/ Quota!Reserve("new") < Unit
      \/ buckets["new"] >= Unit
      \/ buckets["new"] >= since["new"] * Rate
  BY <1>2 DEF QuotaInv, ReserveRefilled
<1>9. \/ Quota!Reserve("new")' < Unit
      \/ buckets'["new"] >= Unit
  BY <1>4, <1>5, <1>7, ReserveOK, QuotaAssumption
<1>10. ReserveRefilled'
  BY <1>5, <1>7, <1>8, <1>9 DEF ReserveRefilled, Buckets
<1> QED BY <1>5, <1>6, <1>10

\* A profile replaces the bucket.
LEMMA RegisterStep ==
  ASSUME QuotaInv, Quota!RegisterProfile
  PROVE  QuotaInv'
<1>1. /\ profiled' = TRUE /\ Quota!Full(Capacity)
      /\ waits' = [t \in Threads |-> IF waits[t].state # "idle"
                                 THEN [waits[t] EXCEPT !.bucket = "old"] ELSE waits[t]]
  BY DEF Quota!RegisterProfile
<1>2. \A w \in Wait : [w EXCEPT !.bucket = "old"] \in Wait
  BY DEF Wait, Buckets
<1>3. waits' \in [Threads -> Wait]
  <2>1. \A t \in Threads : waits[t] \in Wait
    BY TypedParts DEF QuotaInv
  <2> QED BY <1>1, <1>2, <2>1
<1> QED BY <1>1, <1>3, FullStep, QuotaTyped DEF QuotaInv

\* A thread asks for a token.
LEMMA AcquireStep ==
  ASSUME QuotaInv, NEW t \in Threads, NEW p \in Quota!Priorities, Quota!Acquire(t, p)
  PROVE  QuotaInv'
<1>1. /\ profiled' = TRUE
      /\ IF profiled THEN UNCHANGED <<caps, buckets, since>> ELSE Quota!Full(Default)
      /\ waits' = [waits EXCEPT ![t] = [state |-> "trying", priority |-> p,
                                    left |-> MaxWait[p], bucket |-> "new"]]
  BY DEF Quota!Acquire
<1>2. waits' \in [Threads -> Wait]
  <2>1. MaxWait[p] \in 0 .. MaxWait["backfill"]
    BY QuotaAssumption DEF Quota!Priorities
  <2>2. [state |-> "trying", priority |-> p, left |-> MaxWait[p], bucket |-> "new"] \in Wait
    BY <2>1 DEF Wait, Buckets
  <2> QED BY <1>1, <2>2, TypedParts DEF QuotaInv
<1>3. CASE Quota!Full(Default)
  BY <1>1, <1>2, <1>3, FullStep, QuotaTyped DEF QuotaInv
<1>4. CASE UNCHANGED <<caps, buckets, since>>
  <2>1. Quota!TypeOK'
    BY <1>1, <1>2, <1>4, QuotaTyped DEF QuotaInv, Quota!TypeOK, Buckets
  <2> QED BY <1>4, <2>1 DEF QuotaInv, ReserveRefilled, Quota!Reserve
<1> QED BY <1>1, <1>3, <1>4

\* A thread gets a token, sleeps or is refused.
LEMMA TryStep ==
  ASSUME QuotaInv, NEW t \in Threads, Quota!Try(t)
  PROVE  QuotaInv'
<1> DEFINE b == waits[t].bucket
           p == waits[t].priority
<1>1. b \in Buckets /\ waits[t] \in Wait /\ waits \in [Threads -> Wait]
  BY TypedParts DEF QuotaInv, Wait
<1>2. Quota!Idle \in Wait
  BY QuotaAssumption DEF Quota!Idle, Wait, Buckets, Quota!Priorities
<1>3. CASE /\ Quota!Grants(b, p)
           /\ buckets' = [buckets EXCEPT ![b] = buckets[b] - Unit]
           /\ since' = [since EXCEPT ![b] = IF p = "execution" THEN 0 ELSE since[b]]
           /\ waits' = [waits EXCEPT ![t] = Quota!Idle]
           /\ UNCHANGED <<caps, profiled>>
  <2>1. /\ caps[b] \in Nat /\ buckets[b] \in Nat /\ buckets[b] <= caps[b]
        /\ since[b] \in 0 .. Quota!Horizon
        /\ Quota!Reserve(b) \in Nat
    BY <1>1, TypedParts DEF QuotaInv
  <2>2. buckets[b] - Unit \in Nat /\ (p # "execution" => buckets[b] - Unit >= Quota!Reserve(b))
    BY <1>3, <2>1, QuotaAssumption DEF Quota!Grants
  <2>3. waits' \in [Threads -> Wait]
    BY <1>1, <1>2, <1>3
  <2>4. buckets' \in [Buckets -> Nat] /\ since' \in [Buckets -> 0 .. Quota!Horizon]
    <3>1. (IF p = "execution" THEN 0 ELSE since[b]) \in 0 .. Quota!Horizon
      BY <2>1, HorizonOK
    <3> HIDE DEF b, p
    <3> QED BY <1>1, <1>3, <2>2, <3>1, HorizonOK DEF QuotaInv, Quota!TypeOK, Buckets
  <2>5. /\ buckets'[b] = buckets[b] - Unit
        /\ p = "execution" => since'[b] = 0
        /\ \A a \in Buckets \ {b} : buckets'[a] = buckets[a] /\ since'[a] = since[a]
    <3> HIDE DEF b, p
    <3> QED BY <1>1, <1>3 DEF QuotaInv, Quota!TypeOK, Buckets
  <2>6. \A a \in Buckets : buckets'[a] <= caps'[a]
    <3> HIDE DEF b, p
    <3> QED BY <1>1, <1>3, <2>1, <2>5, TypedParts, QuotaAssumption DEF QuotaInv
  <2>7. Quota!TypeOK'
    BY <1>3, <2>3, <2>4, <2>6, QuotaTyped DEF QuotaInv, Quota!TypeOK, Buckets
  <2>8. \A a \in Buckets : Quota!Reserve(a)' = Quota!Reserve(a)
    BY <1>3 DEF Quota!Reserve
  <2>9. \/ Quota!Reserve(b) < Unit \/ buckets'[b] >= Unit \/ buckets'[b] >= since'[b] * Rate
    <3>1. CASE p = "execution"
      <4>1. since'[b] * Rate = 0
        BY <2>5, <3>1, QuotaAssumption
      <4> QED BY <2>2, <2>5, <4>1
    <3>2. CASE p # "execution"
      BY <2>1, <2>2, <2>5, <3>2, QuotaAssumption
    <3> QED BY <3>1, <3>2
  <2>10. ReserveRefilled'
    <3> HIDE DEF b, p
    <3> QED BY <1>1, <2>5, <2>8, <2>9 DEF QuotaInv, ReserveRefilled
  <2> QED BY <2>7, <2>10 DEF QuotaInv
<1>4. CASE /\ waits' = [waits EXCEPT ![t] = IF waits[t].left = 0 THEN Quota!Idle
                                             ELSE [waits[t] EXCEPT !.state = "asleep"]]
           /\ UNCHANGED <<buckets, since, caps, profiled>>
  <2>1. [waits[t] EXCEPT !.state = "asleep"] \in Wait
    BY <1>1 DEF Wait
  <2>2. waits' \in [Threads -> Wait]
    BY <1>1, <1>2, <1>4, <2>1
  <2>3. Quota!TypeOK'
    BY <1>4, <2>2, QuotaTyped DEF QuotaInv, Quota!TypeOK, Buckets
  <2> QED BY <1>4, <2>3 DEF QuotaInv, ReserveRefilled, Quota!Reserve
<1> QED BY <1>3, <1>4 DEF Quota!Try

\* A polling interval passes.
LEMMA TickStep ==
  ASSUME QuotaInv, Quota!Tick
  PROVE  QuotaInv'
<1>1. /\ buckets' = [b \in Buckets |-> Quota!Sum(buckets[b], Rate, caps[b])]
      /\ since' = [b \in Buckets |-> Quota!Sum(since[b], 1, Quota!Horizon)]
      /\ UNCHANGED <<caps, profiled>>
  BY DEF Quota!Tick, Buckets
<1>2. waits' \in [Threads -> Wait]
  <2>1. waits' = [t \in Threads |->
                    IF waits[t].state # "idle"
                    THEN [waits[t] EXCEPT !.left = IF waits[t].left > 0 THEN waits[t].left - 1 ELSE 0,
                                          !.state = "trying"] ELSE waits[t]]
    BY DEF Quota!Tick
  <2>2. ASSUME NEW t \in Threads PROVE waits'[t] \in Wait
    <3>1. waits[t] \in Wait
      BY TypedParts DEF QuotaInv
    <3> DEFINE less == IF waits[t].left > 0 THEN waits[t].left - 1 ELSE 0
    <3>2. less \in 0 .. MaxWait["backfill"]
      BY <3>1, QuotaAssumption DEF Wait, Quota!Priorities
    <3>3. waits'[t] = IF waits[t].state # "idle"
                      THEN [waits[t] EXCEPT !.left = less, !.state = "trying"] ELSE waits[t]
      BY <2>1
    <3> HIDE DEF less
    <3>4. [waits[t] EXCEPT !.left = less, !.state = "trying"] \in Wait
      BY <3>1, <3>2 DEF Wait
    <3> QED BY <3>1, <3>3, <3>4
  <2> QED BY <2>1, <2>2
<1>3. ASSUME NEW b \in Buckets
      PROVE  /\ buckets'[b] \in Nat /\ buckets'[b] <= caps'[b] /\ since'[b] \in 0 .. Quota!Horizon
             /\ Quota!Reserve(b)' = Quota!Reserve(b)
             /\ \/ Quota!Reserve(b) < Unit \/ buckets'[b] >= Unit \/ buckets'[b] >= since'[b] * Rate
  <2>1. /\ caps[b] \in Nat /\ buckets[b] \in Nat /\ buckets[b] <= caps[b]
        /\ since[b] \in 0 .. Quota!Horizon /\ since[b] \in Nat
        /\ Quota!Reserve(b) \in Nat /\ Quota!Reserve(b) <= caps[b]
    BY TypedParts DEF QuotaInv
  <2>2. /\ buckets'[b] = IF buckets[b] + Rate > caps[b] THEN caps[b] ELSE buckets[b] + Rate
        /\ since'[b] = IF since[b] + 1 > Quota!Horizon THEN Quota!Horizon ELSE since[b] + 1
        /\ caps'[b] = caps[b]
    BY <1>1 DEF Quota!Sum
  <2>3. /\ buckets'[b] \in Nat /\ buckets'[b] <= caps'[b] /\ since'[b] \in 0 .. Quota!Horizon
        /\ buckets'[b] >= buckets[b]
    BY <2>1, <2>2, QuotaAssumption, HorizonOK
  <2>4. Quota!Reserve(b)' = Quota!Reserve(b)
    BY <2>2 DEF Quota!Reserve
  <2>5. CASE Quota!Reserve(b) < Unit \/ buckets[b] >= Unit
    <3>1. Quota!Reserve(b) < Unit \/ buckets'[b] >= Unit
      BY <2>1, <2>3, <2>5, QuotaAssumption
    <3> QED BY <2>3, <2>4, <3>1
  <2>6. CASE Quota!Reserve(b) >= Unit /\ buckets[b] >= since[b] * Rate
    <3> SUFFICES buckets'[b] >= Unit \/ buckets'[b] >= since'[b] * Rate
      BY <2>3, <2>4
    <3>1. CASE buckets[b] + Rate > caps[b]
      BY <2>1, <2>2, <2>6, <3>1, QuotaAssumption
    <3>2. CASE buckets[b] + Rate <= caps[b] /\ since[b] + 1 <= Quota!Horizon
      <4>1. since'[b] * Rate = since[b] * Rate + Rate
        <5>1. since'[b] = since[b] + 1
          BY <2>1, <2>2, <3>2, HorizonOK
        <5>2. since[b] \in Nat /\ Rate \in Nat
          BY <2>1, QuotaAssumption, HorizonOK
        <5>3. (since[b] + 1) * Rate = since[b] * Rate + Rate
          BY <5>2, OneMore
        <5> QED BY <5>1, <5>3, Zenon
      <4>2. since[b] * Rate \in Nat
        BY <2>1, QuotaAssumption
      <4> QED BY <2>1, <2>2, <2>6, <3>2, <4>1, <4>2, QuotaAssumption
    <3>3. CASE buckets[b] + Rate <= caps[b] /\ since[b] + 1 > Quota!Horizon
      <4>1. since[b] = Quota!Horizon
        BY <2>1, <3>3, HorizonOK
      <4>2. buckets[b] >= Unit
        BY <2>1, <2>6, <4>1, HorizonOK, QuotaAssumption
      <4> QED BY <2>1, <2>3, <4>2, QuotaAssumption
    <3> QED BY <2>1, <3>1, <3>2, <3>3, QuotaAssumption, HorizonOK
  <2> QED BY <2>1, <2>5, <2>6, QuotaAssumption DEF QuotaInv, ReserveRefilled
<1>4. /\ buckets' \in [Buckets -> Nat] /\ since' \in [Buckets -> 0 .. Quota!Horizon]
  BY <1>1, <1>3
<1>5. Quota!TypeOK'
  BY <1>1, <1>2, <1>3, <1>4, QuotaTyped DEF QuotaInv, Quota!TypeOK, Buckets
<1>6. ReserveRefilled'
  BY <1>3 DEF ReserveRefilled
<1> QED BY <1>5, <1>6 DEF QuotaInv

\* The scheduler keeps its invariant.
THEOREM QuotaInvariant == Quota!Spec => []QuotaInv
<1>1. Quota!Init => QuotaInv
  <2> SUFFICES ASSUME Quota!Init PROVE QuotaInv
    OBVIOUS
  <2>1. Quota!Idle \in Wait
    BY QuotaAssumption DEF Quota!Idle, Wait, Buckets, Quota!Priorities
  <2>2. Quota!TypeOK
    <3>1. waits \in [Threads -> Wait]
      BY <2>1 DEF Quota!Init
    <3>2. Quota!Horizon \in 0 .. Quota!Horizon /\ Default \in Nat
      BY QuotaAssumption, HorizonOK
    <3>3. /\ caps \in [Buckets -> {Capacity, Default}] /\ buckets \in [Buckets -> Nat]
          /\ \A b \in Buckets : buckets[b] <= caps[b]
          /\ since \in [Buckets -> 0 .. Quota!Horizon]
      BY <3>2 DEF Quota!Init, Buckets
    <3> QED BY <3>1, <3>3 DEF Quota!Init, Quota!TypeOK, Wait, Buckets
  <2>3. ReserveRefilled
    BY TypedParts, <2>2, QuotaAssumption DEF Quota!Init, ReserveRefilled, Buckets
  <2> QED BY <2>2, <2>3 DEF QuotaInv
<1>2. QuotaInv /\ [Quota!Next]_(Quota!vars) => QuotaInv'
  <2> SUFFICES ASSUME QuotaInv, [Quota!Next]_(Quota!vars) PROVE QuotaInv'
    OBVIOUS
  <2>1. CASE UNCHANGED Quota!vars
    BY <2>1 DEF Quota!vars, QuotaInv, Quota!TypeOK, ReserveRefilled, Quota!Reserve
  <2> QED BY <2>1, RegisterStep, TickStep, AcquireStep, TryStep DEF Quota!Next
<1> QED BY <1>1, <1>2, PTL DEF Quota!Spec

\* For any number of threads, rates, capacities, reserves and deadlines: an
\* execution is refused only if another one was served from the same bucket
\* less than a token's time before (or the reserve is smaller than a token),
\* whatever live and backfill traffic does (_TokenBucket.try_acquire,
\* QuotaScheduler.acquire).
THEOREM OnlyExecutionsExhaustHolds == Spec => []OnlyExecutionsExhaust
<1>1. QuotaInv => Quota!OnlyExecutionsExhaust
  <2> SUFFICES ASSUME QuotaInv, NEW t \in Threads
               PROVE  LET b == waits[t].bucket
                      IN  \/ Quota!Grants(b, "execution")
                          \/ Quota!Reserve(b) < Unit
                          \/ since[b] * Rate < Unit
    BY DEF Quota!OnlyExecutionsExhaust
  <2> DEFINE b == waits[t].bucket
  <2>1. b \in Buckets
    BY TypedParts DEF QuotaInv, Wait
  <2> HIDE DEF b
  <2>2. /\ buckets[b] \in Nat /\ Quota!Reserve(b) \in Nat /\ since[b] \in Nat
        /\ \/ Quota!Reserve(b) < Unit \/ buckets[b] >= Unit \/ buckets[b] >= since[b] * Rate
    BY <2>1, TypedParts DEF QuotaInv, ReserveRefilled
  <2>3. since[b] * Rate \in Nat
    BY <2>2, QuotaAssumption
  <2>4. \/ Quota!Grants(b, "execution") \/ Quota!Reserve(b) < Unit \/ since[b] * Rate < Unit
    BY <2>2, <2>3, QuotaAssumption DEF Quota!Grants
  <2> QED BY <2>4 DEF b
<1> QED BY <1>1, QuotaInvariant, QuotaImplemented, PTL DEF OnlyExecutionsExhaust

(***************************************************************************)
(* The historical coordinator: the days a fetch may lose, and the brokers  *)
(* that disagree, show in the series, whatever the registry does meanwhile. *)
(***************************************************************************)
\* Whatever runs, History goes through its own specification.
THEOREM HistoryImplemented == Spec => History!Spec
<1>1. Init => History!Init
  BY DEF Init
<1>2. [Next]_vars => [History!Next]_(History!vars)
  <2> SUFFICES ASSUME [Next]_vars PROVE [History!Next]_(History!vars)
    OBVIOUS
  <2>1. CASE History!Next
    BY <2>1
  <2>2. CASE UNCHANGED historyVars
    BY <2>2 DEF historyVars, History!vars, History!registry, History!fallback
  <2> QED BY <2>1, <2>2 DEF Next, vars, Rest, Runs
<1> QED BY <1>1, <1>2, PTL DEF Spec, History!Spec

\* A set of naturals has a least element.
LEMMA LeastNat ==
  ASSUME NEW T, T \subseteq Nat, T # {}
  PROVE  \E x \in T : \A y \in T : x <= y
<1> DEFINE R == {ss \in Nat \X Nat : ss[1] < ss[2]}
<1>1. R = OpToRel(<, Nat)
  BY Zenon DEF OpToRel
<1>2. IsWellFoundedOn(R, Nat)
  BY <1>1, NatLessThanWellFounded, Zenon
<1>3. PICK x \in T : \A y \in T : ~ (<<y, x>> \in R)
  <2> HIDE DEF R
  <2> QED BY <1>2, WFMin
<1>4. \A y \in T : y < x => <<y, x>> \in R
  BY Zenon
<1>5. \A y \in T : ~(y < x)
  <2> HIDE DEF R
  <2> QED BY <1>3, <1>4
<1> QED BY <1>5

\* Induction over the naturals, for the members of a set.
LEMMA SetInduction ==
  ASSUME NEW T, 0 \in T, \A n \in Nat : n \in T => n + 1 \in T
  PROVE  \A n \in Nat : n \in T
<1> SUFFICES ASSUME NEW m \in Nat, m \notin T PROVE FALSE
  OBVIOUS
<1> DEFINE U == {n \in Nat : n \notin T}
<1>1. PICK x \in U : \A y \in U : x <= y
  <2>1. U \subseteq Nat /\ U # {}
    OBVIOUS
  <2> HIDE DEF U
  <2> QED BY <2>1, LeastNat
<1>2. x - 1 \in Nat /\ (x - 1) + 1 = x /\ x \in Nat /\ x \notin T
  BY <1>1
<1>3. x - 1 \in T
  BY <1>1, <1>2
<1> QED BY <1>2, <1>3

\* A set of integers that is bounded below has a least element.
LEMMA LeastInt ==
  ASSUME NEW T, T \subseteq Int, T # {}, NEW m \in Int, \A y \in T : m <= y
  PROVE  History!Min(T) \in T /\ \A y \in T : History!Min(T) <= y
<1> DEFINE U == {y - m : y \in T}
<1>1. PICK x \in U : \A y \in U : x <= y
  <2>1. \A y \in T : y \in Int /\ y - m \in Nat
    OBVIOUS
  <2>2. U \subseteq Nat /\ U # {}
    BY <2>1
  <2> HIDE DEF U
  <2> QED BY <2>2, LeastNat
<1>2. \E z \in T : \A y \in T : z <= y
  <2>1. PICK z \in T : x = z - m
    BY <1>1
  <2>2. \A y \in T : z - m <= y - m
    BY <1>1, <2>1
  <2> QED BY <2>2
<1> QED BY <1>2 DEF History!Min

\* A set of integers that is bounded above has a greatest element.
LEMMA GreatestInt ==
  ASSUME NEW T, T \subseteq Int, T # {}, NEW m \in Int, \A y \in T : y <= m
  PROVE  History!Max(T) \in T /\ \A y \in T : y <= History!Max(T)
<1> DEFINE U == {m - y : y \in T}
<1>1. PICK x \in U : \A y \in U : x <= y
  <2>1. \A y \in T : y \in Int /\ m - y \in Nat
    OBVIOUS
  <2>2. U \subseteq Nat /\ U # {}
    BY <2>1
  <2> HIDE DEF U
  <2> QED BY <2>2, LeastNat
<1>2. \E z \in T : \A y \in T : z >= y
  <2>1. PICK z \in T : x = m - z
    BY <1>1
  <2>2. \A y \in T : m - z <= m - y
    BY <1>1, <2>1
  <2> QED BY <2>2
<1> QED BY <1>2 DEF History!Max

\* The less and the greater of two integers.
LEMMA OfTwo ==
  ASSUME NEW a \in Int, NEW b \in Int
  PROVE  /\ History!Min({a, b}) = IF a <= b THEN a ELSE b
         /\ History!Max({a, b}) = IF a >= b THEN a ELSE b
<1>1. \A y \in {a, b} : a <= b => a <= y
  OBVIOUS
<1>2. History!Min({a, b}) \in {a, b} /\ History!Min({a, b}) <= a /\ History!Min({a, b}) <= b
  <2> DEFINE m == IF a <= b THEN a ELSE b
  <2>1. m \in {a, b} /\ \A y \in {a, b} : m <= y
    OBVIOUS
  <2> QED BY <2>1 DEF History!Min
<1>3. History!Max({a, b}) \in {a, b} /\ History!Max({a, b}) >= a /\ History!Max({a, b}) >= b
  <2> DEFINE m == IF a >= b THEN a ELSE b
  <2>1. m \in {a, b} /\ \A y \in {a, b} : m >= y
    OBVIOUS
  <2> QED BY <2>1 DEF History!Max
<1> QED BY <1>2, <1>3

LEMMA HistoryCardinality == \A S : History!Cardinality(S) = Cardinality(S)
BY DEF History!Cardinality, Cardinality

\* Numbers given to 1 .. n have a least and a greatest.
LEMMA Extremes ==
  ASSUME NEW n \in Nat, NEW f \in [1 .. n -> Nat], NEW P, P \subseteq 1 .. n, P # {}
  PROVE  /\ \E i \in P : \A j \in P : f[i] <= f[j]
         /\ \E i \in P : \A j \in P : f[i] >= f[j]
<1>1. \E i \in P : \A j \in P : f[i] <= f[j]
  <2> DEFINE U == {f[i] : i \in P}
  <2>1. PICK x \in U : \A y \in U : x <= y
    <3>1. U \subseteq Nat /\ U # {}
      OBVIOUS
    <3> HIDE DEF U
    <3> QED BY <3>1, LeastNat
  <2> QED BY <2>1
<1>2. \E m \in Nat : \A j \in 1 .. n : f[j] <= m
  <2> DEFINE T == {k \in Nat : k <= n => \E m \in Nat : \A j \in 1 .. k : f[j] <= m}
  <2>1. 0 \in T
    OBVIOUS
  <2>2. ASSUME NEW k \in Nat, k \in T PROVE k + 1 \in T
    <3> SUFFICES ASSUME k + 1 <= n PROVE \E m \in Nat : \A j \in 1 .. (k + 1) : f[j] <= m
      OBVIOUS
    <3>1. PICK m \in Nat : \A j \in 1 .. k : f[j] <= m
      BY <2>2
    <3>2. f[k + 1] \in Nat /\ m + f[k + 1] \in Nat
      OBVIOUS
    <3>3. ASSUME NEW j \in 1 .. (k + 1) PROVE f[j] <= m + f[k + 1]
      <4>1. CASE j = k + 1
        BY <3>2, <4>1
      <4>2. CASE j # k + 1
        <5>1. j \in 1 .. k /\ f[j] \in Nat
          BY <4>2
        <5> QED BY <3>1, <3>2, <5>1
      <4> QED BY <4>1, <4>2
    <3> QED BY <3>2, <3>3
  <2>3. n \in T
    <3> HIDE DEF T
    <3> QED BY <2>1, <2>2, SetInduction
  <2> QED BY <2>3
<1>3. \E i \in P : \A j \in P : f[i] >= f[j]
  <2>1. PICK m \in Nat : \A j \in 1 .. n : f[j] <= m
    BY <1>2
  <2> DEFINE U == {f[i] : i \in P}
  <2>2. \A i \in P : f[i] \in Int /\ f[i] <= m
    BY <2>1
  <2>3. m \in Int
    OBVIOUS
  <2>4. U \subseteq Int /\ U # {}
    BY <2>2
  <2>5. \A y \in U : y <= m
    BY <2>2
  <2>6. History!Max(U) \in U /\ \A y \in U : y <= History!Max(U)
    <3> HIDE DEF U
    <3> QED BY <2>5, <2>3, <2>4, GreatestInt
  <2> QED BY <2>6
<1> QED BY <1>1, <1>3

\* A sequence of chunks of one broker that makes up the days from lo to hi.
Tiles(c, b, lo, hi) ==
  /\ c \in Seq(History!Spans)
  /\ \A i \in DOMAIN c : /\ c[i].broker = b
                         /\ lo <= c[i].from /\ c[i].from <= c[i].to /\ c[i].to <= hi
                         /\ c[i].to - c[i].from < MaxChunk[b]
  /\ \A i, j \in DOMAIN c : \A d \in Int :
       d \in History!DaysOf(c[i]) /\ d \in History!DaysOf(c[j]) => i = j
  /\ \A d \in lo .. hi : \E i \in DOMAIN c : d \in History!DaysOf(c[i])

\* The arithmetic of chunks: multiples grow, and a number is some multiple and
\* a rest.
LEMMA Multiples ==
  ASSUME NEW s \in Nat \ {0}
  PROVE  /\ \A m \in Nat, k \in Nat : (m + k) * s = m * s + k * s /\ m * s \in Nat /\ k * s \in Nat
         /\ \A m \in Nat, n \in Nat : m <= n => m * s <= n * s
         /\ \A x \in Nat : /\ x \div s \in Nat
                           /\ (x \div s) * s <= x /\ x < (x \div s) * s + s
<1>1. \A m \in Nat, k \in Nat : (m + k) * s = m * s + k * s /\ m * s \in Nat /\ k * s \in Nat
  OBVIOUS
<1>2. ASSUME NEW m \in Nat, NEW n \in Nat, m <= n PROVE m * s <= n * s
  <2>1. n - m \in Nat /\ m + (n - m) = n
    BY <1>2
  <2>2. n * s = m * s + (n - m) * s /\ m * s \in Nat /\ (n - m) * s \in Nat
    <3>1. (m + (n - m)) * s = m * s + (n - m) * s /\ m * s \in Nat /\ (n - m) * s \in Nat
      BY <1>1, <2>1
    <3> QED BY <2>1, <3>1
  <2> QED BY <2>2
<1>3. ASSUME NEW x \in Nat
      PROVE  /\ x \div s \in Nat
             /\ (x \div s) * s <= x /\ x < (x \div s) * s + s
  <2>1. /\ x \div s \in Nat /\ x % s \in 0 .. (s - 1)
        /\ x = (x \div s) * s + (x % s)
    BY Z3
  <2>2. (x \div s) * s \in Nat
    BY <2>1, <1>1
  <2> QED BY <2>1, <2>2
<1> QED BY <1>1, <1>2, <1>3

\* _chunk_range, for any range and any size of a broker: the chunks make it up.
LEMMA ChunksTile ==
  ASSUME NEW b \in Brokers, NEW lo \in Int, NEW hi \in Int
  PROVE  Tiles(History!Chunks(History!Span(b, lo, hi)), b, lo, hi)
<1> DEFINE r == History!Span(b, lo, hi)
           c == History!Chunks(r)
           size == MaxChunk[b]
           n == IF lo > hi THEN 0 ELSE (hi - lo) \div size + 1
           from(i) == lo + (i - 1) * size
           end(i) == IF lo + i * size - 1 <= hi THEN lo + i * size - 1 ELSE hi
<1>1. size \in Nat \ {0}
  BY HistoryAssumption
<1>2. n \in Nat /\ (n # 0 => lo <= hi /\ (n - 1) * size <= hi - lo)
  <2>1. CASE lo > hi
    BY <2>1
  <2>2. CASE lo <= hi
    <3>1. hi - lo \in Nat
      BY <2>2
    <3>2. (hi - lo) \div size \in Nat /\ ((hi - lo) \div size) * size <= hi - lo
      <4> HIDE DEF size
      <4> QED BY <1>1, <3>1, Multiples
    <3>3. n = (hi - lo) \div size + 1
      BY <2>2
    <3> HIDE DEF n, size
    <3>4. n \in Nat /\ n - 1 = (hi - lo) \div size
      BY <3>2, <3>3
    <3> QED BY <2>2, <3>2, <3>4
  <2> QED BY <2>1, <2>2
<1>3. ASSUME NEW i \in 1 .. n
      PROVE  /\ i \in Nat /\ i - 1 \in Nat /\ i * size \in Nat /\ (i - 1) * size \in Nat
             /\ i * size = (i - 1) * size + size
             /\ (i - 1) * size <= hi - lo
  <2> HIDE DEF size, n
  <2>1. i \in Nat /\ i - 1 \in Nat /\ (i - 1) + 1 = i /\ n # 0 /\ n - 1 \in Nat /\ i - 1 <= n - 1
    BY <1>2
  <2>2. (i - 1 + 1) * size = (i - 1) * size + 1 * size /\ (i - 1) * size \in Nat /\ 1 * size = size
    BY <1>1, <2>1, Multiples
  <2>3. (i - 1) * size <= (n - 1) * size
    BY <1>1, <2>1, Multiples
  <2>4. i * size \in Nat
    BY <1>1, <2>1, Multiples
  <2>5. (n - 1) * size \in Nat
    BY <1>1, <2>1, Multiples
  <2> QED BY <1>2, <2>1, <2>2, <2>3, <2>4, <2>5
<1>4. ASSUME NEW i \in 1 .. n
      PROVE  /\ from(i) \in Int /\ end(i) \in Int
             /\ lo <= from(i) /\ from(i) <= end(i) /\ end(i) <= hi /\ end(i) - from(i) < size
  <2> HIDE DEF size, n
  <2> QED BY <1>1, <1>3
<1>5. c = [i \in 1 .. n |-> [broker |-> b, from |-> from(i), to |-> end(i)]]
  <2>1. c = [i \in 1 .. n |-> History!Span(b, lo + (i - 1) * size,
                              History!Min({lo + i * size - 1, hi}))]
    BY DEF History!Chunks, History!Span
  <2>2. ASSUME NEW i \in 1 .. n PROVE History!Min({lo + i * size - 1, hi}) = end(i)
    <3>1. lo + i * size - 1 \in Int
      <4> HIDE DEF size, n
      <4> QED BY <1>3
    <3> QED BY <3>1, OfTwo
  <2> QED BY <2>1, <2>2 DEF History!Span
<1> HIDE DEF c
<1>6. /\ c \in Seq(History!Spans) /\ DOMAIN c = 1 .. n
      /\ \A i \in 1 .. n : c[i].broker = b /\ c[i].from = from(i) /\ c[i].to = end(i)
  <2> HIDE DEF from, end, n
  <2>1. \A i \in 1 .. n : [broker |-> b, from |-> from(i), to |-> end(i)] \in History!Spans
    BY <1>4 DEF History!Spans
  <2>2. c \in [1 .. n -> History!Spans]
    BY <1>5, <2>1
  <2>3. c \in Seq(History!Spans)
    BY <1>2, <2>2
  <2> QED BY <1>5, <2>3
<1>7. ASSUME NEW i \in 1 .. n, NEW j \in 1 .. n, i < j PROVE end(i) < from(j)
  <2> HIDE DEF size, n
  <2>1. i \in Nat /\ j - 1 \in Nat /\ i <= j - 1
    BY <1>3, <1>7
  <2>2. i * size <= (j - 1) * size
    BY <1>1, <2>1, Multiples
  <2> QED BY <1>1, <1>3, <2>2
<1>8. ASSUME NEW i \in DOMAIN c, NEW j \in DOMAIN c, NEW d \in Int,
             d \in History!DaysOf(c[i]), d \in History!DaysOf(c[j])
      PROVE  i = j
  <2>1. from(i) <= d /\ d <= end(i) /\ from(j) <= d /\ d <= end(j)
    <3> HIDE DEF from, end
    <3> QED BY <1>4, <1>6, <1>8 DEF History!DaysOf
  <2>2. i \in 1 .. n /\ j \in 1 .. n
    BY <1>6
  <2>3. ~ (i < j) /\ ~ (j < i)
    <3> HIDE DEF from, end, n
    <3> QED BY <1>4, <1>7, <2>1, <2>2
  <2> HIDE DEF n
  <2> QED BY <1>2, <2>2, <2>3
<1>9. ASSUME NEW d \in lo .. hi PROVE \E i \in DOMAIN c : d \in History!DaysOf(c[i])
  <2> DEFINE k == (d - lo) \div size
  <2>1. d - lo \in Nat /\ hi - lo \in Nat /\ lo <= hi /\ d - lo <= hi - lo /\ d \in Int
    OBVIOUS
  <2>2. /\ k \in Nat /\ k * size <= d - lo /\ d - lo < k * size + size
        /\ (hi - lo) \div size \in Nat /\ hi - lo < ((hi - lo) \div size) * size + size
    <3> HIDE DEF size
    <3> QED BY <1>1, <2>1, Multiples
  <2>3. k <= (hi - lo) \div size
    <3> SUFFICES ASSUME k > (hi - lo) \div size PROVE FALSE
      BY <2>2
    <3> DEFINE q == (hi - lo) \div size
    <3>1. q + 1 \in Nat /\ q + 1 <= k
      BY <2>2
    <3> HIDE DEF k, q, size
    <3>2. (q + 1) * size <= k * size /\ (q + 1) * size = q * size + 1 * size /\ 1 * size = size
      BY <1>1, <2>2, <3>1, Multiples DEF q
    <3>3. q * size \in Nat /\ k * size \in Nat
      BY <1>1, <2>2, Multiples DEF q
    <3> QED BY <1>1, <2>1, <2>2, <3>2, <3>3 DEF q
  <2>4. k + 1 \in 1 .. n
    <3>1. n = (hi - lo) \div size + 1
      BY <2>1
    <3> HIDE DEF n, k
    <3> QED BY <2>2, <2>3, <3>1
  <2>5. from(k + 1) <= d /\ d <= end(k + 1)
    <3>1. (k + 1) - 1 = k /\ (k + 1) * size = k * size + size
      <4> HIDE DEF k, size, n
      <4>1. (k + 1) - 1 = k
        BY <2>2
      <4> QED BY <4>1, <1>3, <2>4
    <3>2. k * size \in Int /\ size \in Int
      <4> HIDE DEF k, size, n
      <4> QED BY <1>1, <2>2, Multiples
    <3> HIDE DEF k, size, n
    <3> QED BY <2>1, <2>2, <3>1, <3>2
  <2> HIDE DEF from, end, k, n
  <2> QED BY <1>4, <1>6, <2>1, <2>4, <2>5 DEF History!DaysOf
<1> QED
  <2>1. \A i \in DOMAIN c : /\ c[i].broker = b
                            /\ lo <= c[i].from /\ c[i].from <= c[i].to /\ c[i].to <= hi
                            /\ c[i].to - c[i].from < MaxChunk[b]
    <3> HIDE DEF from, end, n
    <3> QED BY <1>4, <1>6
  <2>2. Tiles(c, b, lo, hi)
    <3> HIDE DEF from, end, n, size
    <3> QED BY <1>6, <1>8, <1>9, <2>1 DEF Tiles
  <2> QED BY <2>2 DEF c

\* What a plan of chunks is, whatever the brokers: no day twice, none left out
\* between two, none before the request or its broker's reach.
Shares(c) ==
  /\ c \in Seq(History!Spans)
  /\ \A i \in DOMAIN c :
       /\ query.from <= c[i].from /\ History!Earliest(c[i].broker) <= c[i].from
       /\ c[i].from <= c[i].to /\ c[i].to - c[i].from < MaxChunk[c[i].broker]
       /\ c[i].to <= query.to \/ \E b \in History!Range(decision) : query.to < History!Earliest(b)
  /\ \A i, j \in DOMAIN c : i # j => History!DaysOf(c[i]) \intersect History!DaysOf(c[j]) = {}
  /\ \A i, j \in DOMAIN c : \A d \in c[i].from .. c[j].to :
       \E k \in DOMAIN c : d \in History!DaysOf(c[k])

\* No chunks are a plan, too.
LEMMA NoChunks == Shares(<< >>)
BY DEF Shares

\* Two rows of chunks, the second of the days just before the first.
Rows(w, b, e, low, mid, high) ==
  /\ w \in Seq(History!Spans)
  /\ \A i \in DOMAIN w :
       /\ w[i].from <= w[i].to /\ w[i].to - w[i].from < MaxChunk[w[i].broker]
       /\ w[i].broker \in Brokers /\ w[i].from \in Int /\ w[i].to \in Int
       /\ \/ w[i].broker = b /\ mid <= w[i].from /\ w[i].to <= high
          \/ w[i].broker = e /\ low <= w[i].from /\ w[i].to <= mid - 1
  /\ \A i, j \in DOMAIN w : \A d \in Int :
       d \in History!DaysOf(w[i]) /\ d \in History!DaysOf(w[j]) => i = j
  /\ \A d \in Int : mid <= d /\ d <= high => \E k \in DOMAIN w : d \in History!DaysOf(w[k])
  /\ \A d \in Int : low <= d /\ d <= mid - 1 => \E k \in DOMAIN w : d \in History!DaysOf(w[k])

\* Rows of chunks are put together in that order.
LEMMA TwoRows ==
  ASSUME NEW b \in Brokers, NEW e \in Brokers, NEW low \in Int, NEW mid \in Int, NEW high \in Int,
         NEW c, Tiles(c, b, mid, high), NEW o, Tiles(o, e, low, mid - 1)
  PROVE  Rows(c \o o, b, e, low, mid, high)
<1> DEFINE w == c \o o
<1>1. /\ c \in Seq(History!Spans) /\ o \in Seq(History!Spans)
      /\ Len(c) \in Nat /\ Len(o) \in Nat
      /\ DOMAIN c = 1 .. Len(c) /\ DOMAIN o = 1 .. Len(o)
  BY DEF Tiles
<1>2. /\ w \in Seq(History!Spans) /\ DOMAIN w = 1 .. (Len(c) + Len(o))
      /\ \A i \in 1 .. Len(c) : w[i] = c[i]
      /\ \A i \in 1 .. Len(o) : w[i + Len(c)] = o[i]
      /\ \A i \in DOMAIN w : i \in 1 .. Len(c) \/ i - Len(c) \in 1 .. Len(o)
      /\ \A i \in DOMAIN w : i \in Int /\ (i \notin 1 .. Len(c) => w[i] = o[i - Len(c)])
  BY <1>1
<1> HIDE DEF w
<1>3. ASSUME NEW i \in DOMAIN w
      PROVE  /\ w[i] \in History!Spans
             /\ w[i].from <= w[i].to /\ w[i].to - w[i].from < MaxChunk[w[i].broker]
             /\ w[i].broker \in Brokers /\ w[i].from \in Int /\ w[i].to \in Int
             /\ i \in 1 .. Len(c) => w[i].broker = b /\ mid <= w[i].from /\ w[i].to <= high
             /\ i \notin 1 .. Len(c) => w[i].broker = e /\ low <= w[i].from /\ w[i].to <= mid - 1
  <2>1. w[i] \in History!Spans
    BY <1>2
  <2>2. w[i].broker \in Brokers /\ w[i].from \in Int /\ w[i].to \in Int
    BY <2>1 DEF History!Spans
  <2>3. CASE i \in 1 .. Len(c)
    <3>1. w[i] = c[i] /\ i \in DOMAIN c
      BY <1>1, <1>2, <2>3
    <3>2. /\ c[i].broker = b
          /\ mid <= c[i].from /\ c[i].from <= c[i].to /\ c[i].to <= high
          /\ c[i].to - c[i].from < MaxChunk[b]
      BY <3>1 DEF Tiles
    <3> QED BY <2>1, <2>2, <2>3, <3>1, <3>2
  <2>4. CASE i \notin 1 .. Len(c)
    <3>1. w[i] = o[i - Len(c)] /\ i - Len(c) \in DOMAIN o
      BY <1>1, <1>2, <2>4
    <3>2. /\ o[i - Len(c)].broker = e
          /\ low <= o[i - Len(c)].from /\ o[i - Len(c)].from <= o[i - Len(c)].to
          /\ o[i - Len(c)].to <= mid - 1
          /\ o[i - Len(c)].to - o[i - Len(c)].from < MaxChunk[e]
      BY <3>1 DEF Tiles
    <3> QED BY <2>1, <2>2, <2>4, <3>1, <3>2
  <2> QED BY <2>3, <2>4
<1>4. ASSUME NEW i \in DOMAIN w, NEW j \in DOMAIN w, NEW d \in Int,
             d \in History!DaysOf(w[i]), d \in History!DaysOf(w[j])
      PROVE  i = j
  <2>1. w[i].from <= d /\ d <= w[i].to /\ w[j].from <= d /\ d <= w[j].to
    BY <1>3, <1>4 DEF History!DaysOf
  <2>2. i \in 1 .. Len(c) <=> j \in 1 .. Len(c)
    BY <1>3, <2>1
  <2>3. CASE i \in 1 .. Len(c)
    BY <1>1, <1>2, <1>4, <2>2, <2>3 DEF Tiles
  <2>4. CASE i \notin 1 .. Len(c)
    <3>1. /\ i - Len(c) \in DOMAIN o /\ j - Len(c) \in DOMAIN o
          /\ w[i] = o[i - Len(c)] /\ w[j] = o[j - Len(c)] /\ i \in Int /\ j \in Int
      BY <1>1, <1>2, <2>2, <2>4
    <3>2. i - Len(c) = j - Len(c)
      BY <1>4, <3>1 DEF Tiles
    <3> QED BY <1>1, <3>1, <3>2
  <2> QED BY <2>3, <2>4
<1>5. ASSUME NEW d \in Int, mid <= d, d <= high PROVE \E k \in DOMAIN w : d \in History!DaysOf(w[k])
  <2>1. PICK k \in DOMAIN c : d \in History!DaysOf(c[k])
    BY <1>5 DEF Tiles
  <2>2. k \in DOMAIN w /\ w[k] = c[k]
    BY <1>1, <1>2
  <2> QED BY <2>1, <2>2
<1>6. ASSUME NEW d \in Int, low <= d, d <= mid - 1 PROVE \E k \in DOMAIN w : d \in History!DaysOf(w[k])
  <2>1. PICK k \in DOMAIN o : d \in History!DaysOf(o[k])
    BY <1>6 DEF Tiles
  <2>2. k + Len(c) \in DOMAIN w /\ w[k + Len(c)] = o[k]
    BY <1>1, <1>2
  <2> QED BY <2>1, <2>2
<1>7. Rows(w, b, e, low, mid, high)
  BY <1>2, <1>3, <1>4, <1>5, <1>6 DEF Rows
<1> QED BY <1>7 DEF w

\* The sort by look-back has a first and a last.
LEMMA ShortAndLong ==
  ASSUME decision \in Seq(Brokers), NEW P, P \subseteq DOMAIN decision, P # {}
  PROVE  /\ History!Short(P) \in P /\ History!Long(P) \in P
         /\ \A j \in P : /\ Lookback[decision[History!Short(P)]] <= Lookback[decision[j]]
                         /\ Lookback[decision[j]] <= Lookback[decision[History!Long(P)]]
<1> DEFINE n == Len(decision)
           f == [i \in 1 .. n |-> Lookback[decision[i]]]
           low == {i \in P : \A j \in P : f[i] <= f[j]}
           high == {i \in P : \A j \in P : f[i] >= f[j]}
<1>1. n \in Nat /\ DOMAIN decision = 1 .. n /\ f \in [1 .. n -> Nat] /\ P \subseteq 1 .. n
  BY HistoryAssumption
<1>2. \A i \in P : f[i] = Lookback[decision[i]] /\ f[i] \in Nat /\ i \in Int /\ i \in Nat /\ i <= n
  BY <1>1
<1>3. low # {} /\ high # {}
  <2> HIDE DEF f, n
  <2> QED BY <1>1, Extremes
<1>4. \E x \in P : \A j \in P : History!Sorted(x, j)
  <2>1. PICK x \in low : \A y \in low : x <= y
    <3>1. low \subseteq Nat
      BY <1>2
    <3> HIDE DEF low
    <3> QED BY <1>3, <3>1, LeastNat
  <2>2. ASSUME NEW j \in P PROVE History!Sorted(x, j)
    <3>1. CASE f[x] < f[j]
      BY <1>2, <2>1, <3>1 DEF History!Sorted
    <3>2. CASE f[x] = f[j]
      <4>1. j \in low
        BY <2>1, <3>2
      <4> QED BY <1>2, <2>1, <3>2, <4>1 DEF History!Sorted
    <3>3. f[x] <= f[j] /\ f[x] \in Nat /\ f[j] \in Nat
      BY <1>2, <2>1
    <3> HIDE DEF f
    <3> QED BY <3>1, <3>2, <3>3
  <2> QED BY <2>1, <2>2
<1>5. \E x \in P : \A j \in P : History!Sorted(j, x)
  <2>1. \E x \in high : \A y \in high : y <= x
    <3>1. high \subseteq Int /\ n \in Int
      BY <1>1, <1>2
    <3>2. \A y \in high : y <= n
      BY <1>2
    <3> HIDE DEF high, n
    <3> QED BY <1>3, <3>1, <3>2, GreatestInt
  <2>2. PICK x \in high : \A y \in high : y <= x
    BY <2>1
  <2>3. ASSUME NEW j \in P PROVE History!Sorted(j, x)
    <3>1. CASE f[j] < f[x]
      BY <1>2, <2>2, <3>1 DEF History!Sorted
    <3>2. CASE f[x] = f[j]
      <4>1. j \in high
        BY <2>2, <3>2
      <4> QED BY <1>2, <2>2, <3>2, <4>1 DEF History!Sorted
    <3>3. f[j] <= f[x] /\ f[x] \in Nat /\ f[j] \in Nat
      BY <1>2, <2>2
    <3> HIDE DEF f
    <3> QED BY <3>1, <3>2, <3>3
  <2> QED BY <2>2, <2>3
<1>6. /\ History!Short(P) \in P /\ \A j \in P : History!Sorted(History!Short(P), j)
      /\ History!Long(P) \in P /\ \A j \in P : History!Sorted(j, History!Long(P))
  BY <1>4, <1>5 DEF History!Short, History!Long
<1> HIDE DEF f
<1> QED BY <1>2, <1>6 DEF History!Sorted

\* _partition_ranges and _chunk_range, for any decision of the router: the plan
\* shares out the days, and has every one that a broker of it reaches.
LEMMA PlannedShares ==
  ASSUME decision \in Seq(Brokers), query \in Queries, NEW P, P \subseteq DOMAIN decision
  PROVE  /\ Shares(History!Planned(P))
         /\ \A i \in P, d \in History!Requested :
              d >= History!Earliest(decision[i]) =>
                \E k \in DOMAIN History!Planned(P) : d \in History!DaysOf(History!Planned(P)[k])
<1>1. CASE P = {}
  BY <1>1, NoChunks DEF History!Planned
<1>2. CASE P # {}
  <2> DEFINE s == decision[History!Short(P)]
             l == decision[History!Long(P)]
             mid == IF query.from >= History!Earliest(s) THEN query.from ELSE History!Earliest(s)
             low == IF query.from >= History!Earliest(l) THEN query.from ELSE History!Earliest(l)
             high == query.to
             c == History!Chunks(History!Span(s, mid, high))
             o == History!Chunks(History!Span(l, low, mid - 1))
  <2>1. /\ s \in Brokers /\ l \in Brokers /\ s \in History!Range(decision)
        /\ History!Short(P) \in P /\ History!Long(P) \in P
        /\ \A i \in P : decision[i] \in Brokers
        /\ \A i \in P : Lookback[s] <= Lookback[decision[i]] /\ Lookback[decision[i]] <= Lookback[l]
    BY <1>2, ShortAndLong DEF History!Range
  <2>2. \A b \in Brokers : /\ History!Earliest(b) \in Int /\ Lookback[b] \in Nat
                           /\ History!Earliest(b) = Today - Lookback[b]
    BY HistoryAssumption DEF History!Earliest
  <2>3. query.from \in Int /\ query.to \in Int /\ Today \in Int
    BY HistoryAssumption
  <2>4. mid \in Int /\ low \in Int /\ high \in Int
    BY <2>1, <2>2, <2>3
  <2>5. /\ History!Recent(P) = History!Span(s, mid, high)
        /\ History!Older(P) = History!Span(l, low, mid - 1)
    <3>1. History!Recent(P) = History!Span(s, mid, high)
      BY <2>1, <2>2, <2>3, OfTwo DEF History!Recent, History!Reach
    <3>2. History!Recent(P).from = mid
      BY <3>1 DEF History!Span
    <3>3. History!Older(P) = History!Span(l, low, mid - 1)
      BY <3>2, <2>1, <2>2, <2>3, OfTwo DEF History!Older, History!Reach
    <3> QED BY <3>1, <3>3
  <2>6. Tiles(c, s, mid, high) /\ Tiles(o, l, low, mid - 1)
    <3> HIDE DEF mid, low, s, l, high
    <3>1. mid - 1 \in Int
      BY <2>4
    <3> QED BY <2>1, <2>4, <3>1, ChunksTile
  <2>7. History!Planned(P) = c \o o
    <3>1. CASE History!Short(P) # History!Long(P)
      BY <1>2, <2>5, <3>1 DEF History!Planned
    <3>2. CASE History!Short(P) = History!Long(P)
      <4>1. History!Planned(P) = c \o << >>
        BY <1>2, <2>5, <3>2 DEF History!Planned
      <4>2. low = mid /\ s = l
        BY <3>2
      <4> HIDE DEF c, o, mid, low
      <4>3. o \in Seq(History!Spans) /\ \A i \in DOMAIN o : mid <= o[i].from /\ o[i].from <= o[i].to /\ o[i].to <= mid - 1
        BY <2>6, <4>2 DEF Tiles
      <4>4. \A i \in DOMAIN o : o[i].from \in Int /\ o[i].to \in Int
        <5>1. \A i \in DOMAIN o : o[i] \in History!Spans
          BY <4>3
        <5> QED BY <5>1 DEF History!Spans
      <4>5. DOMAIN o = {}
        BY <2>4, <4>3, <4>4
      <4>6. o = << >>
        BY <4>3, <4>5
      <4> QED BY <4>1, <4>6
    <3> QED BY <3>1, <3>2
  <2>8. /\ mid >= query.from /\ mid >= History!Earliest(s)
        /\ low >= query.from /\ low >= History!Earliest(l)
        /\ mid > high /\ low <= mid - 1 => query.to < History!Earliest(s)
    BY <2>1, <2>2, <2>3
  <2>9. History!Earliest(l) <= History!Earliest(s)
    BY <2>1, <2>2, <2>3
  <2>10. \A i \in P : History!Earliest(l) <= History!Earliest(decision[i])
    <3> SUFFICES ASSUME NEW i \in P PROVE History!Earliest(l) <= History!Earliest(decision[i])
      OBVIOUS
    <3>1. /\ decision[i] \in Brokers /\ l \in Brokers /\ Lookback[decision[i]] <= Lookback[l]
      BY <2>1
    <3> HIDE DEF s, l
    <3>2. /\ History!Earliest(decision[i]) = Today - Lookback[decision[i]] /\ Lookback[decision[i]] \in Nat
          /\ History!Earliest(l) = Today - Lookback[l] /\ Lookback[l] \in Nat
      BY <2>2, <3>1
    <3> QED BY <2>3, <3>1, <3>2
  <2> DEFINE w == History!Planned(P)
  <2>11. Rows(w, s, l, low, mid, high)
    <3>1. w = c \o o
      BY <2>7
    <3> HIDE DEF mid, low, s, l, high, c, o, w
    <3> QED BY <2>1, <2>4, <2>6, <3>1, TwoRows
  <2>12. low = query.from \/ low = History!Earliest(l)
    OBVIOUS
  <2>13. mid = query.from \/ mid = History!Earliest(s)
    OBVIOUS
  <2>14. high = query.to /\ s \in History!Range(decision)
    BY <2>1
  <2> HIDE DEF w, mid, low, s, l, high, c, o
  <2>15. ASSUME NEW i \in DOMAIN w
         PROVE  /\ query.from <= w[i].from /\ History!Earliest(w[i].broker) <= w[i].from
                /\ w[i].from <= w[i].to /\ w[i].to - w[i].from < MaxChunk[w[i].broker]
                /\ w[i].to <= query.to \/ \E b \in History!Range(decision) : query.to < History!Earliest(b)
    <3>1. /\ w[i].from <= w[i].to /\ w[i].to - w[i].from < MaxChunk[w[i].broker]
          /\ w[i].broker \in Brokers /\ w[i].from \in Int /\ w[i].to \in Int
      BY <2>11 DEF Rows
    <3>2. CASE w[i].broker = s /\ mid <= w[i].from /\ w[i].to <= high
      BY <2>1, <2>2, <2>3, <2>4, <2>8, <2>14, <3>1, <3>2
    <3>3. CASE w[i].broker = l /\ low <= w[i].from /\ w[i].to <= mid - 1
      <4>1. query.from <= w[i].from /\ History!Earliest(w[i].broker) <= w[i].from
        BY <2>1, <2>2, <2>3, <2>4, <2>8, <3>1, <3>3
      <4>2. w[i].to <= query.to \/ query.to < History!Earliest(s)
        BY <2>1, <2>2, <2>3, <2>4, <2>8, <2>14, <3>1, <3>3
      <4> QED BY <2>1, <3>1, <4>1, <4>2
    <3> QED BY <2>11, <3>2, <3>3 DEF Rows
  <2>16. ASSUME NEW i \in DOMAIN w, NEW j \in DOMAIN w, NEW d \in w[i].from .. w[j].to
         PROVE  \E k \in DOMAIN w : d \in History!DaysOf(w[k])
    <3>1. w[i].from \in Int /\ w[j].to \in Int /\ d \in Int /\ w[i].from <= d /\ d <= w[j].to
      BY <2>11 DEF Rows
    <3>2. (mid <= w[i].from \/ low <= w[i].from) /\ (w[j].to <= high \/ w[j].to <= mid - 1)
      BY <2>11 DEF Rows
    <3>3. mid <= w[i].from \/ (low <= w[i].from /\ w[i].from <= mid - 1)
      <4>1. w[i].from <= w[i].to /\ w[i].to \in Int
        BY <2>11 DEF Rows
      <4> QED BY <2>4, <2>11, <3>1, <4>1 DEF Rows
    <3>4. (mid <= w[j].to /\ w[j].to <= high) \/ w[j].to <= mid - 1
      <4>1. w[j].from <= w[j].to /\ w[j].from \in Int
        BY <2>11 DEF Rows
      <4> QED BY <2>4, <2>11, <3>1, <4>1 DEF Rows
    <3>5. (mid <= d /\ d <= high) \/ (low <= d /\ d <= mid - 1)
      BY <2>4, <3>1, <3>3, <3>4
    <3> QED BY <2>11, <3>5 DEF Rows
  <2>17. ASSUME NEW i \in DOMAIN w, NEW j \in DOMAIN w, i # j
         PROVE  History!DaysOf(w[i]) \intersect History!DaysOf(w[j]) = {}
    <3>1. \A d \in History!DaysOf(w[i]) : d \in Int
      BY <2>11 DEF Rows, History!DaysOf
    <3> QED BY <2>11, <2>17, <3>1 DEF Rows
  <2>18. Shares(w)
    <3>1. w \in Seq(History!Spans)
      BY <2>11 DEF Rows
    <3> QED BY <2>15, <2>16, <2>17, <3>1 DEF Shares
  <2>19. ASSUME NEW i \in P, NEW d \in History!Requested, d >= History!Earliest(decision[i])
         PROVE  \E k \in DOMAIN w : d \in History!DaysOf(w[k])
    <3>1. d \in Int /\ query.from <= d /\ d <= high
      BY <2>3, <2>14 DEF History!Requested
    <3>2. History!Earliest(l) <= d
      BY <2>1, <2>2, <2>10, <2>19, <3>1
    <3>3. low <= d
      BY <2>12, <3>1, <3>2
    <3>4. (mid <= d /\ d <= high) \/ (low <= d /\ d <= mid - 1)
      BY <2>4, <3>1, <3>3
    <3> QED BY <2>11, <3>1, <3>4 DEF Rows
  <2> QED BY <2>18, <2>19 DEF w
<1> QED BY <1>1, <1>2

\* Until something is reported to the registry, every broker is in it.
Untouched == changes = 0 => registered = Brokers

\* The plan is made once, and shares out the request.
Planning == /\ phase \in {"idle", "routed"} => plan = << >>
            /\ Shares(plan)
            /\ plan # << >> /\ changes = 0 =>
                 \A i \in History!Asked(decision), d \in History!Requested :
                   d >= History!Earliest(decision[i]) =>
                     \E k \in DOMAIN plan : d \in History!DaysOf(plan[k])

\* An answer is what the broker has for the chunk, and bears its name; what
\* went wrong is in the ledger.
Answered ==
  \A i \in DOMAIN plan :
    /\ IF progress[i] = "ok" /\ i \notin unseen
       THEN /\ answer[i].by \in Brokers
            /\ answer[i].days = History!Bars(answer[i].by, plan[i])
            /\ answer[i].fallback <=> answer[i].by # plan[i].broker
       ELSE answer[i].days = {}
    /\ progress[i] = "failed" \/ answer[i].fallback => failures > 0
    /\ i \in unseen => progress[i] = "ok"

\* The chunk that is tried elsewhere has failed, and is not tried at its broker.
Falling ==
  /\ asking => phase = "falling" /\ tries # << >>
  /\ phase = "falling" =>
       /\ cur \in DOMAIN plan /\ failures > 0
       /\ \A i \in DOMAIN plan : progress[i] \in {"ok", "failed"}
       /\ tries # << >> => progress[cur] = "failed"
       /\ \A k \in DOMAIN tries : tries[k] # plan[cur].broker

\* The inductive invariant of the coordinator.
HistoryInv == /\ History!TypeOK /\ Untouched /\ Planning /\ Answered /\ Falling
              /\ History!LossShows /\ History!ConflictsSeen

\* The types of what a fetch keeps of each chunk.
LEMMA HistoryTyped ==
  ASSUME History!TypeOK
  PROVE  /\ Len(plan) \in Nat /\ DOMAIN plan = 1 .. Len(plan)
         /\ query \in Queries /\ query.from \in Int /\ query.to \in Int
         /\ \A i \in DOMAIN plan :
              /\ plan[i] \in History!Spans /\ plan[i].broker \in Brokers
              /\ plan[i].from \in Int /\ plan[i].to \in Int /\ plan[i].from <= plan[i].to
              /\ progress[i] \in History!States
              /\ answer[i] \in History!Answers /\ answer[i].days \subseteq Int
              /\ answer[i].at \in Nat /\ answer[i].fallback \in BOOLEAN
<1>1. /\ plan \in Seq(History!Spans) /\ query \in Queries
      /\ \A i \in DOMAIN plan : plan[i].from <= plan[i].to
      /\ progress \in [DOMAIN plan -> History!States] /\ answer \in [DOMAIN plan -> History!Answers]
  BY DEF History!TypeOK
<1>2. \A s \in History!Spans : s.broker \in Brokers /\ s.from \in Int /\ s.to \in Int
  BY DEF History!Spans
<1>3. \A a \in History!Answers : a.days \subseteq Int /\ a.at \in Nat /\ a.fallback \in BOOLEAN
  BY DEF History!Answers
<1>4. Len(plan) \in Nat /\ DOMAIN plan = 1 .. Len(plan)
  BY <1>1
<1>5. \A i \in DOMAIN plan : plan[i] \in History!Spans
  BY <1>1
<1>6. query.from \in Int /\ query.to \in Int
  BY <1>1, HistoryAssumption
<1> HIDE DEF History!TypeOK
<1> QED BY <1>1, <1>2, <1>3, <1>4, <1>5, <1>6

\* An order of candidates is a sequence of them, and has them all.
LEMMA OrderTyped ==
  ASSUME NEW S, S \subseteq Brokers, NEW s \in History!Orders(S)
  PROVE  s \in Seq(Brokers) /\ \A k \in DOMAIN s : s[k] \in S
<1>1. IsFiniteSet(S)
  BY HistoryAssumption, FS_Subset
<1>2. Cardinality(S) \in Nat
  BY <1>1, FS_CardinalityType
<1>3. s \in [1 .. Cardinality(S) -> S]
  BY HistoryCardinality DEF History!Orders
<1> QED BY <1>2, <1>3

\* The brokers asked are brokers of the decision.
LEMMA AskedDecided ==
  ASSUME decision \in Seq(Brokers)
  PROVE  History!Asked(decision) \subseteq DOMAIN decision
<1>1. Len(decision) \in Nat /\ DOMAIN decision = 1 .. Len(decision) /\ MaxParallel \in Int
  BY HistoryAssumption
<1> DEFINE m == History!Max({MaxParallel, 1})
<1>2. m \in Int
  <2>1. 1 \in Int
    OBVIOUS
  <2>2. m = IF MaxParallel >= 1 THEN MaxParallel ELSE 1
    BY <1>1, <2>1, OfTwo
  <2> HIDE DEF m
  <2> QED BY <1>1, <2>2
<1> HIDE DEF m
<1>3. History!Min({Len(decision), m}) = IF Len(decision) <= m THEN Len(decision) ELSE m
  BY <1>1, <1>2, OfTwo
<1>4. History!Asked(decision) = 1 .. History!Min({Len(decision), m})
  BY DEF History!Asked, m
<1> QED BY <1>1, <1>2, <1>3, <1>4

\* What a broker has for a chunk: days of it that it reaches, and at most one
\* before.
LEMMA BarsOf ==
  ASSUME NEW b \in Brokers, NEW r \in History!Spans
  PROVE  /\ History!Bars(b, r) \subseteq Int
         /\ \A d \in History!Bars(b, r) : r.from - 1 <= d /\ d <= r.to /\ d <= Today
         /\ \A d \in Int : /\ r.from <= d /\ d <= r.to /\ d <= Today
                           /\ History!Earliest(b) <= d
                           => d \in History!Bars(b, r)
<1>1. /\ r.from \in Int /\ r.to \in Int /\ r.from - 1 \in Int /\ Today \in Int
      /\ History!Earliest(b) \in Int
  BY HistoryAssumption DEF History!Spans, History!Earliest
<1> DEFINE first == IF b \in Early THEN r.from - 1 ELSE r.from
<1>2. first \in Int /\ r.from - 1 <= first /\ first <= r.from
  BY <1>1
<1>3. History!Bars(b, r) = {d \in first .. r.to : History!Earliest(b) <= d /\ d <= Today}
  BY DEF History!Bars
<1> HIDE DEF first
<1> QED BY <1>1, <1>2, <1>3

\* The days of an answer.
LEMMA AnswerDays ==
  ASSUME History!TypeOK, Answered, NEW i \in DOMAIN plan, NEW d \in answer[i].days
  PROVE  /\ progress[i] = "ok" /\ i \notin unseen /\ answer[i].by \in Brokers
         /\ answer[i].fallback <=> answer[i].by # plan[i].broker
         /\ d \in Int /\ plan[i].from - 1 <= d /\ d <= plan[i].to /\ d <= Today
<1>1. /\ progress[i] = "ok" /\ i \notin unseen /\ answer[i].by \in Brokers
      /\ answer[i].fallback <=> answer[i].by # plan[i].broker
      /\ answer[i].days = History!Bars(answer[i].by, plan[i])
  BY DEF Answered
<1>2. plan[i] \in History!Spans
  BY HistoryTyped
<1> QED BY <1>1, <1>2, BarsOf

\* A day is in two answers at most: in its chunk's, and in that of the chunk
\* that begins on the next day.
LEMMA AtMostTwo ==
  ASSUME History!TypeOK, Planning, Answered, NEW d,
         NEW i \in DOMAIN plan, NEW j \in DOMAIN plan, NEW k \in DOMAIN plan,
         d \in answer[i].days, d \in answer[j].days, d \in answer[k].days
  PROVE  i = j \/ j = k \/ i = k
<1>1. /\ d \in Int
      /\ plan[i].from - 1 <= d /\ d <= plan[i].to
      /\ plan[j].from - 1 <= d /\ d <= plan[j].to
      /\ plan[k].from - 1 <= d /\ d <= plan[k].to
  BY AnswerDays
<1>2. \A x \in DOMAIN plan : plan[x].from \in Int /\ plan[x].to \in Int /\ plan[x].from <= plan[x].to
  BY HistoryTyped
<1>3. ASSUME NEW x \in DOMAIN plan, NEW y \in DOMAIN plan, NEW e \in Int,
             plan[x].from <= e, e <= plan[x].to, plan[y].from <= e, e <= plan[y].to
      PROVE  x = y
  <2>1. e \in History!DaysOf(plan[x]) /\ e \in History!DaysOf(plan[y])
    BY <1>2, <1>3 DEF History!DaysOf
  <2> QED BY <2>1 DEF Planning, Shares
<1>4. ASSUME NEW x \in DOMAIN plan, plan[x].from - 1 <= d, d <= plan[x].to
      PROVE  \/ plan[x].from <= d /\ d <= plan[x].to
             \/ plan[x].from <= d + 1 /\ d + 1 <= plan[x].to
  BY <1>1, <1>2, <1>4
<1>5. d + 1 \in Int
  BY <1>1
<1>6. /\ \/ plan[i].from <= d /\ d <= plan[i].to
         \/ plan[i].from <= d + 1 /\ d + 1 <= plan[i].to
      /\ \/ plan[j].from <= d /\ d <= plan[j].to
         \/ plan[j].from <= d + 1 /\ d + 1 <= plan[j].to
      /\ \/ plan[k].from <= d /\ d <= plan[k].to
         \/ plan[k].from <= d + 1 /\ d + 1 <= plan[k].to
  BY <1>1, <1>4
<1> QED BY <1>1, <1>3, <1>5, <1>6

\* _merge, for a day: the bars of the chunks one after the other.
LEMMA Merging ==
  ASSUME History!TypeOK, NEW d
  PROVE  \E m : /\ History!MergeDay(d) = m[Len(plan)]
                /\ m = [n \in 0 .. Len(plan) |->
                          IF n = 0 THEN [keep |-> 0, clash |-> FALSE]
                          ELSE IF d \in answer[n].days THEN History!Keep(m[n - 1], n)
                          ELSE m[n - 1]]
<1> DEFINE F(f, S) == [n \in S |->
                         IF n = 0 THEN [keep |-> 0, clash |-> FALSE]
                         ELSE IF d \in answer[n].days THEN History!Keep(f[n - 1], n)
                         ELSE f[n - 1]]
           T == {n \in Nat : \E f : f = F(f, 0 .. n)}
<1>1. 0 \in T
  <2>1. [n \in 0 .. 0 |-> [keep |-> 0, clash |-> FALSE]] = F([n \in 0 .. 0 |-> [keep |-> 0, clash |-> FALSE]], 0 .. 0)
    OBVIOUS
  <2> QED BY <2>1
<1>2. ASSUME NEW n \in Nat, n \in T PROVE n + 1 \in T
  <2>1. PICK f : f = F(f, 0 .. n)
    BY <1>2
  <2> DEFINE g == [k \in 0 .. (n + 1) |->
                     IF k = n + 1
                     THEN (IF d \in answer[n + 1].days THEN History!Keep(f[n], n + 1) ELSE f[n])
                     ELSE f[k]]
  <2>2. \A k \in 0 .. n : g[k] = f[k] /\ f[k] = F(f, 0 .. n)[k]
    <3>1. \A k \in 0 .. n : k \in 0 .. (n + 1) /\ k # n + 1
      OBVIOUS
    <3>2. \A k \in 0 .. n : g[k] = f[k]
      BY <3>1
    <3> HIDE DEF F, g
    <3> QED BY <2>1, <3>2
  <2>3. ASSUME NEW k \in 0 .. (n + 1) PROVE g[k] = F(g, 0 .. (n + 1))[k]
    <3>1. CASE k = n + 1
      <4>1. n \in 0 .. n /\ n \in 0 .. (n + 1) /\ n + 1 \in 0 .. (n + 1) /\ n + 1 # 0 /\ (n + 1) - 1 = n
        OBVIOUS
      <4>2. g[n] = f[n]
        BY <2>2, <4>1
      <4> QED BY <3>1, <4>1, <4>2
    <3>2. CASE k # n + 1
      <4>1. k \in 0 .. n /\ (k # 0 => k - 1 \in 0 .. n)
        BY <3>2
      <4> QED BY <2>2, <3>2, <4>1
    <3> QED BY <3>1, <3>2
  <2>4. g = F(g, 0 .. (n + 1))
    BY <2>3
  <2>5. \E h : h = F(h, 0 .. (n + 1))
    <3> HIDE DEF F, g
    <3> QED BY <2>4
  <2> HIDE DEF F
  <2> QED BY <2>5
<1>3. Len(plan) \in T
  <2>1. Len(plan) \in Nat
    BY HistoryTyped
  <2> HIDE DEF T
  <2> QED BY <1>1, <1>2, <2>1, SetInduction
<1>4. \E f : f = F(f, 0 .. Len(plan))
  BY <1>3
<1> QED BY <1>4 DEF History!MergeDay

\* What the merge keeps of a day is one of its bars; two that disagree are a
\* clash, and with prefer_newest_provenance the newest of them is kept.
LEMMA MergeKeeps ==
  ASSUME History!TypeOK, Planning, Answered, NEW d
  PROVE  /\ (\E i \in DOMAIN plan : d \in answer[i].days) =>
              /\ History!MergeDay(d).keep \in DOMAIN plan
              /\ d \in answer[History!MergeDay(d).keep].days
         /\ \A i, j \in DOMAIN plan :
              /\ d \in answer[i].days /\ d \in answer[j].days
              /\ Close[answer[i].by] # Close[answer[j].by]
              => /\ History!MergeDay(d).clash
                 /\ query.strategy = "prefer_newest_provenance" =>
                      answer[History!MergeDay(d).keep].at >= answer[i].at
<1> DEFINE Bar(i) == d \in answer[i].days
           Kept(n, r) ==
             /\ r \in [keep : Int, clash : BOOLEAN]
             /\ r.keep = 0 => \A i \in 1 .. n : ~Bar(i)
             /\ r.keep # 0 => r.keep \in 1 .. n /\ Bar(r.keep)
             /\ \A i, j \in 1 .. n :
                  Bar(i) /\ Bar(j) /\ Close[answer[i].by] # Close[answer[j].by]
                  => r.clash /\ (query.strategy = "prefer_newest_provenance" =>
                                  answer[r.keep].at >= answer[i].at)
<1>1. PICK m : /\ History!MergeDay(d) = m[Len(plan)]
               /\ m = [n \in 0 .. Len(plan) |->
                         IF n = 0 THEN [keep |-> 0, clash |-> FALSE]
                         ELSE IF d \in answer[n].days THEN History!Keep(m[n - 1], n)
                         ELSE m[n - 1]]
  BY Merging
<1>2. /\ Len(plan) \in Nat /\ DOMAIN plan = 1 .. Len(plan)
      /\ \A i \in DOMAIN plan : answer[i].at \in Nat
  BY HistoryTyped
<1>3. ASSUME NEW i \in DOMAIN plan, NEW j \in DOMAIN plan, NEW k \in DOMAIN plan,
             Bar(i), Bar(j), Bar(k)
      PROVE  i = j \/ j = k \/ i = k
  BY <1>3, AtMostTwo
<1>4. m[0] = [keep |-> 0, clash |-> FALSE]
  <2>1. 0 \in 0 .. Len(plan)
    BY <1>2
  <2> QED BY <1>1, <2>1
<1>5. ASSUME NEW n \in 1 .. Len(plan)
      PROVE  m[n] = IF Bar(n) THEN History!Keep(m[n - 1], n) ELSE m[n - 1]
  <2>1. n \in 0 .. Len(plan) /\ n # 0
    BY <1>2
  <2> QED BY <1>1, <2>1
<1> DEFINE T == {n \in Nat : n <= Len(plan) => Kept(n, m[n])}
<1>6. 0 \in T
  <2>1. m[0].keep = 0 /\ m[0] \in [keep : Int, clash : BOOLEAN]
    BY <1>4
  <2>2. Kept(0, m[0])
    BY <2>1
  <2> HIDE DEF Kept
  <2> QED BY <2>2
<1>7. ASSUME NEW n \in Nat, n \in T PROVE n + 1 \in T
  <2> SUFFICES ASSUME n + 1 <= Len(plan) PROVE Kept(n + 1, m[n + 1])
    OBVIOUS
  <2> DEFINE a == m[n]
  <2>1. /\ n + 1 \in 1 .. Len(plan) /\ (n + 1) - 1 = n /\ n + 1 # 0 /\ n + 1 \in DOMAIN plan
        /\ n <= Len(plan)
        /\ \A i \in 1 .. n : i \in DOMAIN plan /\ i \in 1 .. (n + 1) /\ i # n + 1
        /\ \A i \in 1 .. (n + 1) : i = n + 1 \/ i \in 1 .. n
        /\ n + 1 \in 1 .. (n + 1)
    BY <1>2
  <2>2. m[n + 1] = IF Bar(n + 1) THEN History!Keep(a, n + 1) ELSE a
    BY <1>5, <2>1
  <2>3. Kept(n, a)
    BY <1>7, <2>1
  <2> HIDE DEF a, Bar
  <2>4. CASE ~Bar(n + 1)
    BY <2>1, <2>2, <2>3, <2>4
  <2>5. CASE Bar(n + 1) /\ a.keep = 0
    <3>1. m[n + 1] = [a EXCEPT !.keep = n + 1]
      BY <2>2, <2>5 DEF History!Keep
    <3>2. a \in [keep : Int, clash : BOOLEAN] /\ n + 1 \in Int
      BY <2>3
    <3>3. m[n + 1] \in [keep : Int, clash : BOOLEAN] /\ m[n + 1].keep = n + 1
      BY <3>1, <3>2
    <3>4. \A i \in 1 .. (n + 1) : Bar(i) => i = n + 1
      BY <2>1, <2>3, <2>5
    <3> QED BY <2>1, <2>5, <3>3, <3>4
  <2>6. CASE Bar(n + 1) /\ a.keep # 0
    <3>1. a \in [keep : Int, clash : BOOLEAN] /\ a.keep \in 1 .. n /\ Bar(a.keep)
      BY <2>3, <2>6
    <3>2. \A i \in 1 .. (n + 1) : Bar(i) => i = n + 1 \/ i = a.keep
      <4> SUFFICES ASSUME NEW i \in 1 .. (n + 1), Bar(i), i # n + 1 PROVE i = a.keep
        OBVIOUS
      <4>1. i \in DOMAIN plan /\ a.keep \in DOMAIN plan /\ a.keep # n + 1
        BY <2>1, <3>1
      <4> QED BY <1>3, <2>1, <2>6, <3>1, <4>1
    <3>3. answer[n + 1].at \in Nat /\ answer[a.keep].at \in Nat
      BY <1>2, <2>1, <3>1
    <3>4. CASE Close[answer[n + 1].by] = Close[answer[a.keep].by]
      <4>1. m[n + 1] = a
        BY <2>2, <2>6, <3>4 DEF History!Keep
      <4> QED BY <2>1, <3>1, <3>2, <3>4, <4>1
    <3>5. CASE Close[answer[n + 1].by] # Close[answer[a.keep].by]
      <4> DEFINE k == IF /\ query.strategy = "prefer_newest_provenance"
                         /\ answer[n + 1].at > answer[a.keep].at
                      THEN n + 1 ELSE a.keep
      <4>1. m[n + 1] = [clash |-> TRUE, keep |-> k]
        BY <2>2, <2>6, <3>5 DEF History!Keep
      <4>2. k \in 1 .. (n + 1) /\ Bar(k) /\ k \in Int /\ k # 0
        BY <2>1, <2>6, <3>1
      <4>3. query.strategy = "prefer_newest_provenance" =>
              answer[k].at >= answer[n + 1].at /\ answer[k].at >= answer[a.keep].at
        BY <3>3
      <4> HIDE DEF k
      <4> QED BY <2>1, <3>2, <4>1, <4>2, <4>3
    <3> QED BY <3>4, <3>5
  <2> QED BY <2>4, <2>5, <2>6
<1>8. Kept(Len(plan), m[Len(plan)])
  <2>1. Len(plan) \in T
    <3> HIDE DEF T
    <3> QED BY <1>2, <1>6, <1>7, SetInduction
  <2> HIDE DEF Kept
  <2> QED BY <1>2, <2>1
<1> QED BY <1>1, <1>2, <1>8

\* A plan stays what it is.
LEMMA PlanStays ==
  ASSUME Planning, UNCHANGED <<plan, decision, query>>, changes' = 0 => changes = 0,
         phase' \in {"idle", "routed"} => phase \in {"idle", "routed"}
  PROVE  Planning'
BY DEF Planning, Shares, History!Asked, History!Requested, History!Earliest, History!DaysOf

\* Answers stay what they are, whatever else goes wrong.
LEMMA AnswersStay ==
  ASSUME History!TypeOK, Answered, UNCHANGED <<plan, progress, answer, unseen>>,
         failures' \in {failures, failures + 1}
  PROVE  Answered' /\ failures' \in Nat
<1>1. failures \in Nat
  BY DEF History!TypeOK
<1>2. failures' \in Nat /\ (failures > 0 => failures' > 0)
  BY <1>1
<1> QED BY <1>2 DEF Answered, History!Bars, History!Earliest

\* A series stays what it is.
LEMMA SeriesStays ==
  ASSUME History!LossShows, History!ConflictsSeen,
         UNCHANGED <<phase, query, plan, answer, unseen, result>>
  PROVE  History!LossShows' /\ History!ConflictsSeen'
BY DEF History!LossShows, History!ConflictsSeen, History!Requested, History!DaysOf

\* There is no series before the fetch is done.
LEMMA NoSeries ==
  ASSUME phase' # "done"
  PROVE  History!LossShows' /\ History!ConflictsSeen'
BY DEF History!LossShows, History!ConflictsSeen

\* What the application does to the registry.
LEMMA ChangeStep ==
  ASSUME HistoryInv, NEW b \in Brokers,
         \/ History!Deregister(b) \/ History!Register(b)
         \/ \E ok \in BOOLEAN : History!UpdateHealth(b, ok)
  PROVE  HistoryInv'
<1>1. /\ changes < MaxChanges /\ changes' = changes + 1
      /\ UNCHANGED <<phase, query, decision, plan, progress, answer, clock, cur, tries, asking,
                     failures, unseen, result>>
  BY DEF History!Deregister, History!Register, History!UpdateHealth, History!Change,
     History!fallback
<1>2. registered' \subseteq Brokers /\ healthy' \subseteq registered'
  BY DEF History!Deregister, History!Register, History!UpdateHealth, HistoryInv, History!TypeOK
<1>3. changes' \in 0 .. MaxChanges /\ changes' # 0
  BY <1>1, HistoryAssumption DEF HistoryInv, History!TypeOK
<1>4. History!TypeOK'
  BY <1>1, <1>2, <1>3 DEF HistoryInv, History!TypeOK
<1>5. Untouched' /\ Planning' /\ Answered'
  BY <1>1, <1>3, PlanStays, AnswersStay DEF HistoryInv, Untouched
<1>6. Falling'
  BY <1>1 DEF HistoryInv, Falling
<1>7. History!LossShows' /\ History!ConflictsSeen'
  BY <1>1, SeriesStays DEF HistoryInv
<1> QED BY <1>4, <1>5, <1>6, <1>7 DEF HistoryInv

\* The brokers are chosen.
LEMMA RouteStep ==
  ASSUME HistoryInv, History!Route
  PROVE  HistoryInv'
<1>1. /\ phase = "idle" /\ phase' = "routed"
      /\ UNCHANGED <<registered, healthy, changes, query, plan, progress, answer, clock,
                     cur, tries, asking, failures, unseen, result>>
  BY DEF History!Route, History!registry, History!fallback
<1>2. decision' \in Seq(Brokers)
  <2>1. History!Eligible \subseteq Brokers
    BY DEF HistoryInv, History!TypeOK, History!Eligible
  <2>2. decision' = << >> \/ decision' \in History!Orders(History!Eligible)
    BY DEF History!Route
  <2>3. CASE decision' \in History!Orders(History!Eligible)
    <3>1. \A s \in History!Orders(History!Eligible) : s \in Seq(Brokers)
      BY <2>1, OrderTyped
    <3> QED BY <2>3, <3>1
  <2>4. << >> \in Seq(Brokers)
    OBVIOUS
  <2> QED BY <2>2, <2>3, <2>4
<1>3. History!TypeOK'
  BY <1>1, <1>2 DEF HistoryInv, History!TypeOK, History!Phases
<1>4. Planning'
  <2>1. plan' = << >>
    BY <1>1 DEF HistoryInv, Planning
  <2> QED BY <2>1 DEF Planning, Shares
<1>5. Untouched' /\ Answered' /\ Falling'
  BY <1>1, AnswersStay DEF HistoryInv, Untouched, Falling
<1>6. History!LossShows' /\ History!ConflictsSeen'
  BY <1>1, NoSeries
<1> QED BY <1>3, <1>4, <1>5, <1>6 DEF HistoryInv

\* The request is shared out, or there is nobody to ask.
LEMMA PlanStep ==
  ASSUME HistoryInv, History!Plan
  PROVE  HistoryInv'
<1> DEFINE P == {i \in History!Asked(decision) : decision[i] \in registered}
           chunks == History!Planned(P)
<1>1. /\ phase = "routed" /\ plan' = chunks
      /\ progress' = [i \in DOMAIN chunks |-> "waiting"]
      /\ answer' = [i \in DOMAIN chunks |-> History!NoAnswer]
      /\ phase' = IF chunks = << >> THEN "done" ELSE "fetching"
      /\ result' = IF chunks = << >> THEN History!Empty(query) ELSE History!Nothing
      /\ UNCHANGED <<registered, healthy, changes, query, decision, clock, cur, tries, asking,
                     failures, unseen>>
  BY DEF History!Plan, History!registry, History!fallback
<1>2. /\ decision \in Seq(Brokers) /\ query \in Queries /\ plan = << >>
      /\ P \subseteq DOMAIN decision
  BY <1>1, AskedDecided DEF HistoryInv, History!TypeOK, Planning
<1>3. /\ Shares(chunks)
      /\ \A i \in P, d \in History!Requested :
           d >= History!Earliest(decision[i]) =>
             \E k \in DOMAIN chunks : d \in History!DaysOf(chunks[k])
  <2> HIDE DEF P
  <2> QED BY <1>2, PlannedShares
<1>4. changes = 0 => P = History!Asked(decision)
  <2>1. \A i \in DOMAIN decision : decision[i] \in Brokers
    BY <1>2
  <2> QED BY <1>2, <2>1, AskedDecided DEF HistoryInv, Untouched
<1>5. cur = 0 /\ unseen = {} /\ ~asking
  BY <1>1, <1>2 DEF HistoryInv, History!TypeOK, Falling
<1>6. /\ chunks \in Seq(History!Spans) /\ Len(chunks) \in Nat
      /\ \A i \in DOMAIN chunks : chunks[i].from <= chunks[i].to
  BY <1>3 DEF Shares
<1>7. History!NoAnswer \in History!Answers
  BY DEF History!NoAnswer, History!Answers
<1> HIDE DEF chunks
<1>8. History!TypeOK'
  <2>1. {i \in DOMAIN plan' : progress'[i] = "asked"} = {}
    BY <1>1
  <2>2. Cardinality({i \in DOMAIN plan' : progress'[i] = "asked"}) <= Concurrent
    <3>1. Cardinality({}) = 0 /\ 0 <= Concurrent
      BY FS_EmptySet, HistoryAssumption
    <3> QED BY <2>1, <3>1
  <2>3. History!Cardinality({i \in DOMAIN plan' : progress'[i] = "asked"}) <= Concurrent
    BY <2>2, HistoryCardinality
  <2>4. progress' \in [DOMAIN plan' -> History!States] /\ answer' \in [DOMAIN plan' -> History!Answers]
    BY <1>1, <1>7 DEF History!States
  <2>5. phase' \in History!Phases
    BY <1>1 DEF History!Phases
  <2>6. cur' \in 0 .. Len(plan') /\ unseen' \subseteq DOMAIN plan'
    BY <1>1, <1>5, <1>6
  <2> QED BY <1>1, <1>6, <2>3, <2>4, <2>5, <2>6 DEF HistoryInv, History!TypeOK
<1>9. Planning'
  <2>1. phase' \notin {"idle", "routed"}
    BY <1>1
  <2>2. Shares(plan)'
    BY <1>1, <1>3 DEF Shares, History!Earliest, History!DaysOf
  <2> QED BY <1>1, <1>3, <1>4, <2>1, <2>2
      DEF Planning, History!Asked, History!Requested, History!Earliest, History!DaysOf
<1>10. Untouched' /\ Answered' /\ Falling'
  BY <1>1, <1>5 DEF HistoryInv, Untouched, Answered, Falling, History!NoAnswer
<1>11. History!LossShows' /\ History!ConflictsSeen'
  <2>1. CASE chunks # << >>
    BY <1>1, <2>1, NoSeries
  <2>2. CASE chunks = << >>
    <3>1. DOMAIN plan' = {} /\ result' = History!Empty(query)
      BY <1>1, <2>2
    <3>2. result'.bars = << >> /\ result'.gaps = query.from .. query.to
      BY <3>1 DEF History!Empty, History!Nothing
    <3>3. DOMAIN result'.bars = {}
      BY <3>2
    <3>4. History!LossShows'
      BY <1>1, <3>2, <3>3 DEF History!LossShows, History!Requested
    <3>5. History!ConflictsSeen'
      BY <3>1 DEF History!ConflictsSeen
    <3> QED BY <3>4, <3>5
  <2> QED BY <2>1, <2>2
<1> QED BY <1>8, <1>9, <1>10, <1>11 DEF HistoryInv

\* The fetch raises, and one broker may be asked for all.
LEMMA RaisedStep ==
  ASSUME HistoryInv, History!PlanRaises \/ History!HistoryOfOne
  PROVE  HistoryInv'
<1>1. /\ phase \in {"routed", "raised"} /\ phase' \in {"raised", "error", "single"}
      /\ UNCHANGED <<registered, healthy, changes, query, decision, plan, progress, answer, clock,
                     cur, tries, asking, failures, unseen, result>>
  BY DEF History!PlanRaises, History!HistoryOfOne, History!registry, History!fallback
<1>2. History!TypeOK'
  BY <1>1 DEF HistoryInv, History!TypeOK, History!Phases
<1>3. Untouched' /\ Planning' /\ Answered'
  BY <1>1, PlanStays, AnswersStay DEF HistoryInv, Untouched
<1>4. Falling'
  BY <1>1 DEF HistoryInv, Falling
<1> QED BY <1>1, <1>2, <1>3, <1>4, NoSeries DEF HistoryInv

\* A chunk goes on, and the others stay: how many are being fetched.
LEMMA ProgressStep ==
  ASSUME History!TypeOK, UNCHANGED plan, NEW i \in DOMAIN plan, NEW s \in History!States,
         progress' = [progress EXCEPT ![i] = s],
         s = "asked" => Cardinality({j \in DOMAIN plan : progress[j] = "asked"}) < Concurrent
  PROVE  /\ progress' \in [DOMAIN plan' -> History!States] /\ progress'[i] = s
         /\ \A j \in DOMAIN plan \ {i} : progress'[j] = progress[j]
         /\ Cardinality({j \in DOMAIN plan' : progress'[j] = "asked"}) <= Concurrent
<1> DEFINE A == {j \in DOMAIN plan : progress[j] = "asked"}
           B == {j \in DOMAIN plan' : progress'[j] = "asked"}
<1>1. /\ progress \in [DOMAIN plan -> History!States] /\ DOMAIN plan = 1 .. Len(plan)
      /\ Len(plan) \in Nat /\ Cardinality(A) <= Concurrent
  BY HistoryCardinality, HistoryTyped DEF History!TypeOK
<1>2. /\ progress' \in [DOMAIN plan' -> History!States] /\ progress'[i] = s
      /\ \A j \in DOMAIN plan \ {i} : progress'[j] = progress[j]
  BY <1>1
<1>3. IsFiniteSet(A) /\ Cardinality(A) \in Nat
  <2>1. IsFiniteSet(1 .. Len(plan)) /\ A \subseteq 1 .. Len(plan)
    BY <1>1, FS_Interval
  <2> HIDE DEF A
  <2> QED BY <2>1, FS_Subset, FS_CardinalityType
<1>4. CASE s = "asked"
  <2>1. B \subseteq A \cup {i}
    BY <1>2
  <2>2. IsFiniteSet(A \cup {i}) /\ Cardinality(A \cup {i}) <= Cardinality(A) + 1
    <3> HIDE DEF A
    <3>1. /\ IsFiniteSet(A \cup {i})
          /\ Cardinality(A \cup {i}) = IF i \in A THEN Cardinality(A) ELSE Cardinality(A) + 1
      BY <1>3, FS_AddElement
    <3> QED BY <1>3, <3>1
  <2>3. Cardinality(A \cup {i}) \in Nat /\ Cardinality(B) \in Nat /\ Cardinality(B) <= Cardinality(A \cup {i})
    <3> HIDE DEF A, B
    <3> QED BY <2>1, <2>2, FS_Subset, FS_CardinalityType
  <2>4. Cardinality(A) < Concurrent
    BY <1>4
  <2>5. Cardinality(B) <= Concurrent
    <3> HIDE DEF A, B
    <3> QED BY <1>3, <2>2, <2>3, <2>4, HistoryAssumption
  <2> QED BY <1>2, <2>5
<1>5. CASE s # "asked"
  <2>1. B \subseteq A
    BY <1>2, <1>5
  <2>2. Cardinality(B) <= Cardinality(A) /\ Cardinality(B) \in Nat
    <3> HIDE DEF A, B
    <3> QED BY <1>3, <2>1, FS_Subset, FS_CardinalityType
  <2>3. Cardinality(B) <= Concurrent
    <3> HIDE DEF A, B
    <3> QED BY <1>1, <1>3, <2>2, HistoryAssumption
  <2> QED BY <1>2, <2>3
<1> QED BY <1>4, <1>5

\* One answer more, and the others stay.
LEMMA OneAnswer ==
  ASSUME History!TypeOK, Answered, UNCHANGED plan, NEW i \in DOMAIN plan,
         \A j \in DOMAIN plan \ {i} : /\ progress'[j] = progress[j] /\ answer'[j] = answer[j]
                                      /\ j \in unseen' <=> j \in unseen,
         failures' \in {failures, failures + 1},
         IF progress'[i] = "ok" /\ i \notin unseen'
         THEN /\ answer'[i].by \in Brokers
              /\ answer'[i].days = History!Bars(answer'[i].by, plan[i])
              /\ answer'[i].fallback <=> answer'[i].by # plan[i].broker
         ELSE answer'[i].days = {},
         progress'[i] = "failed" \/ answer'[i].fallback => failures' > 0,
         i \in unseen' => progress'[i] = "ok"
  PROVE  Answered' /\ failures' \in Nat
<1>1. failures \in Nat
  BY DEF History!TypeOK
<1>2. failures' \in Nat /\ (failures > 0 => failures' > 0)
  BY <1>1
<1>3. \A j \in DOMAIN plan \ {i} :
        /\ IF progress'[j] = "ok" /\ j \notin unseen'
           THEN /\ answer'[j].by \in Brokers
                /\ answer'[j].days = History!Bars(answer'[j].by, plan[j])
                /\ answer'[j].fallback <=> answer'[j].by # plan[j].broker
           ELSE answer'[j].days = {}
        /\ progress'[j] = "failed" \/ answer'[j].fallback => failures' > 0
        /\ j \in unseen' => progress'[j] = "ok"
  BY <1>2 DEF Answered
<1> QED BY <1>2, <1>3 DEF Answered, History!Bars, History!Earliest

\* What a broker returns is an answer.
LEMMA ReturnedTyped ==
  ASSUME History!TypeOK, NEW b \in Brokers, NEW i \in DOMAIN plan
  PROVE  /\ History!Returned(b, History!Bars(b, plan[i])) \in History!Answers
         /\ History!Returned(b, History!Bars(b, plan[i])).by = b
         /\ History!Returned(b, History!Bars(b, plan[i])).days = History!Bars(b, plan[i])
         /\ History!Returned(b, History!Bars(b, plan[i])).fallback = (phase = "falling")
         /\ clock + 1 \in Nat
<1>1. plan[i] \in History!Spans /\ clock \in Nat
  BY HistoryTyped DEF History!TypeOK
<1>2. History!Bars(b, plan[i]) \subseteq Int /\ clock + 1 \in Nat
  BY <1>1, BarsOf
<1> QED BY <1>2 DEF History!Returned, History!Answers

\* A chunk is asked for, or refused.
LEMMA AskStep ==
  ASSUME HistoryInv, NEW i \in DOMAIN plan, History!Ask(i)
  PROVE  HistoryInv'
<1>1. /\ phase = "fetching" /\ progress[i] = "waiting"
      /\ Cardinality({j \in DOMAIN plan : progress[j] = "asked"}) < Concurrent
      /\ UNCHANGED <<registered, healthy, changes, phase, query, decision, plan, answer, clock,
                     cur, tries, asking, unseen, result>>
  BY HistoryCardinality DEF History!Ask, History!registry, History!fallback
<1>2. \E s \in {"asked", "failed"} :
        /\ progress' = [progress EXCEPT ![i] = s]
        /\ failures' = IF s = "failed" THEN failures + 1 ELSE failures
  BY DEF History!Ask
<1>3. PICK s \in {"asked", "failed"} :
        /\ progress' = [progress EXCEPT ![i] = s]
        /\ failures' = IF s = "failed" THEN failures + 1 ELSE failures
  BY <1>2
<1>4. /\ progress' \in [DOMAIN plan' -> History!States] /\ progress'[i] = s
      /\ \A j \in DOMAIN plan \ {i} : progress'[j] = progress[j]
      /\ Cardinality({j \in DOMAIN plan' : progress'[j] = "asked"}) <= Concurrent
  BY <1>1, <1>3, ProgressStep DEF HistoryInv, History!States
<1>5. Answered' /\ failures' \in Nat
  <2>1. /\ answer[i].days = {} /\ i \notin unseen
        /\ answer[i].fallback => failures > 0
    BY <1>1 DEF HistoryInv, Answered
  <2>2. failures \in Nat
    BY DEF HistoryInv, History!TypeOK
  <2>3. progress'[i] # "ok" /\ (progress'[i] = "failed" => failures' = failures + 1)
    BY <1>3, <1>4
  <2>4. progress'[i] = "failed" \/ answer'[i].fallback => failures' > 0
    BY <1>1, <1>3, <2>1, <2>2, <2>3
  <2> QED BY <1>1, <1>3, <1>4, <2>1, <2>3, <2>4, OneAnswer DEF HistoryInv
<1>6. History!TypeOK'
  BY <1>1, <1>4, <1>5, HistoryCardinality DEF HistoryInv, History!TypeOK
<1>7. Untouched' /\ Planning' /\ Falling'
  BY <1>1, PlanStays DEF HistoryInv, Untouched, Falling
<1> QED BY <1>1, <1>5, <1>6, <1>7, NoSeries DEF HistoryInv

\* A broker answers, fails, or fails unseen.
LEMMA AnswerIn ==
  ASSUME HistoryInv, NEW i \in DOMAIN plan, History!Answer(i)
  PROVE  HistoryInv'
<1> DEFINE b == plan[i].broker
<1>1. /\ phase = "fetching" /\ progress[i] = "asked"
      /\ UNCHANGED <<registered, healthy, changes, phase, query, decision, plan,
                     cur, tries, asking, result>>
  BY DEF History!Answer, History!registry, History!fallback
<1>2. b \in Brokers /\ failures \in Nat /\ clock \in Nat /\ answer[i] \in History!Answers
  BY HistoryTyped DEF HistoryInv, History!TypeOK
<1>3. /\ answer[i].days = {} /\ i \notin unseen
      /\ answer[i].fallback => failures > 0
  BY <1>1 DEF HistoryInv, Answered
<1>4. \/ /\ progress' = [progress EXCEPT ![i] = "ok"]
         /\ answer' = [answer EXCEPT ![i] = History!Returned(b, History!Bars(b, plan[i]))]
         /\ clock' = clock + 1
         /\ UNCHANGED <<failures, unseen>>
      \/ /\ progress' = [progress EXCEPT ![i] = "failed"]
         /\ failures' = failures + 1
         /\ UNCHANGED <<answer, clock, unseen>>
      \/ /\ progress' = [progress EXCEPT ![i] = "ok"] /\ unseen' = unseen \cup {i}
         /\ UNCHANGED <<answer, clock, failures>>
  BY DEF History!Answer
<1> HIDE DEF b
<1>5. /\ progress' \in [DOMAIN plan' -> History!States] /\ progress'[i] \in {"ok", "failed"}
      /\ \A j \in DOMAIN plan \ {i} : progress'[j] = progress[j]
      /\ Cardinality({j \in DOMAIN plan' : progress'[j] = "asked"}) <= Concurrent
  <2>1. "ok" \in History!States /\ "failed" \in History!States
    BY DEF History!States
  <2>2. CASE progress' = [progress EXCEPT ![i] = "ok"]
    BY <1>1, <2>1, <2>2, ProgressStep DEF HistoryInv
  <2>3. CASE progress' = [progress EXCEPT ![i] = "failed"]
    BY <1>1, <2>1, <2>3, ProgressStep DEF HistoryInv
  <2> QED BY <1>4, <2>2, <2>3
<1>6. /\ progress \in [DOMAIN plan -> History!States] /\ answer \in [DOMAIN plan -> History!Answers]
      /\ unseen \subseteq DOMAIN plan
  BY DEF HistoryInv, History!TypeOK
<1>7. /\ answer' \in [DOMAIN plan' -> History!Answers] /\ clock' \in Nat
      /\ unseen' \subseteq DOMAIN plan' /\ Answered' /\ failures' \in Nat
  <2>1. CASE /\ progress' = [progress EXCEPT ![i] = "ok"]
             /\ answer' = [answer EXCEPT ![i] = History!Returned(b, History!Bars(b, plan[i]))]
             /\ clock' = clock + 1
             /\ UNCHANGED <<failures, unseen>>
    <3> DEFINE a == History!Returned(b, History!Bars(b, plan[i]))
    <3>1. /\ a \in History!Answers /\ a.by = b /\ a.days = History!Bars(b, plan[i])
          /\ a.fallback = FALSE /\ clock' \in Nat
      BY <1>1, <1>2, <2>1, ReturnedTyped DEF HistoryInv
    <3>2. answer' = [answer EXCEPT ![i] = a]
      BY <2>1
    <3> HIDE DEF a
    <3>3. /\ answer' \in [DOMAIN plan' -> History!Answers] /\ answer'[i] = a
          /\ \A j \in DOMAIN plan \ {i} : answer'[j] = answer[j]
      BY <1>1, <1>6, <3>1, <3>2
    <3>4. progress'[i] = "ok"
      BY <1>6, <2>1
    <3>5. Answered' /\ failures' \in Nat
      BY <1>1, <1>2, <1>3, <1>5, <2>1, <3>1, <3>3, <3>4, OneAnswer DEF HistoryInv, b
    <3> QED BY <1>1, <1>6, <2>1, <3>1, <3>3, <3>5
  <2>2. CASE /\ progress' = [progress EXCEPT ![i] = "failed"]
             /\ failures' = failures + 1
             /\ UNCHANGED <<answer, clock, unseen>>
    <3>1. progress'[i] = "failed" /\ failures' > 0
      BY <1>2, <1>6, <2>2
    <3>2. Answered' /\ failures' \in Nat
      BY <1>1, <1>3, <1>5, <2>2, <3>1, OneAnswer DEF HistoryInv
    <3> QED BY <1>1, <1>2, <1>6, <2>2, <3>2
  <2>3. CASE /\ progress' = [progress EXCEPT ![i] = "ok"] /\ unseen' = unseen \cup {i}
             /\ UNCHANGED <<answer, clock, failures>>
    <3>1. progress'[i] = "ok" /\ i \in unseen' /\ unseen' \subseteq DOMAIN plan'
          /\ \A j \in DOMAIN plan \ {i} : j \in unseen' <=> j \in unseen
      BY <1>1, <1>6, <2>3
    <3>2. Answered' /\ failures' \in Nat
      BY <1>1, <1>3, <1>5, <2>3, <3>1, OneAnswer DEF HistoryInv
    <3> QED BY <1>1, <1>2, <1>6, <2>3, <3>1, <3>2
  <2> QED BY <1>4, <2>1, <2>2, <2>3
<1>8. History!TypeOK'
  BY <1>1, <1>5, <1>7, HistoryCardinality DEF HistoryInv, History!TypeOK
<1>9. Untouched' /\ Planning' /\ Falling'
  BY <1>1, PlanStays DEF HistoryInv, Untouched, Falling
<1> QED BY <1>1, <1>7, <1>8, <1>9, NoSeries DEF HistoryInv

\* The next failed chunk, and the brokers it is tried at.
LEMMA NextFailedStep ==
  ASSUME HistoryInv, History!NextFailed
  PROVE  HistoryInv'
<1>1. /\ phase' = "falling" /\ cur' = History!Min(History!Left) /\ History!Left # {}
      /\ UNCHANGED <<registered, healthy, changes, query, decision, plan, progress, answer, clock,
                     asking, failures, unseen, result>>
  BY DEF History!NextFailed, History!registry
<1>2. \/ phase = "fetching" /\ History!Gathered
      \/ phase = "falling" /\ tries = << >>
  BY DEF History!NextFailed
<1>3. /\ Len(plan) \in Nat /\ DOMAIN plan = 1 .. Len(plan)
  BY HistoryTyped DEF HistoryInv
<1>4. cur' \in DOMAIN plan /\ progress[cur'] = "failed"
  <2>1. History!Left \subseteq Int /\ \A y \in History!Left : 0 <= y
    BY <1>3 DEF History!Left
  <2>2. History!Min(History!Left) \in History!Left
    <3> DEFINE L == History!Left
    <3>1. L \subseteq Int /\ L # {} /\ \A y \in L : 0 <= y
      BY <1>1, <2>1
    <3>2. 0 \in Int
      OBVIOUS
    <3> HIDE DEF L
    <3>3. History!Min(L) \in L
      BY <3>1, <3>2, LeastInt
    <3> QED BY <3>3 DEF L
  <2> QED BY <1>1, <2>2 DEF History!Left
<1>5. tries' \in Seq(Brokers) /\ \A k \in DOMAIN tries' : tries'[k] # plan[cur'].broker
  <2>1. CASE tries' = << >>
    BY <2>1
  <2>2. ASSUME NEW primary \in History!Eligible,
               tries' \in History!Orders(History!Eligible \ {primary, plan[cur'].broker})
        PROVE  tries' \in Seq(Brokers) /\ \A k \in DOMAIN tries' : tries'[k] # plan[cur'].broker
    <3> DEFINE S == History!Eligible \ {primary, plan[cur'].broker}
    <3>1. S \subseteq Brokers /\ plan[cur'].broker \notin S
      BY DEF HistoryInv, History!TypeOK, History!Eligible
    <3>2. tries' \in History!Orders(S)
      BY <2>2
    <3> HIDE DEF S
    <3>3. \A s \in History!Orders(S) : s \in Seq(Brokers) /\ \A k \in DOMAIN s : s[k] \in S
      BY <3>1, OrderTyped
    <3>4. tries' \in Seq(Brokers) /\ \A k \in DOMAIN tries' : tries'[k] \in S
      BY <3>2, <3>3
    <3> QED BY <3>1, <3>4
  <2> QED BY <2>1, <2>2 DEF History!NextFailed
<1>6. History!TypeOK'
  <2>1. cur' \in 0 .. Len(plan') /\ phase' \in History!Phases
    BY <1>1, <1>3, <1>4 DEF History!Phases
  <2> QED BY <1>1, <1>5, <2>1 DEF HistoryInv, History!TypeOK
<1>7. Untouched' /\ Planning' /\ Answered'
  BY <1>1, PlanStays, AnswersStay DEF HistoryInv, Untouched
<1>8. Falling'
  <2>1. ~asking
    BY <1>2 DEF HistoryInv, Falling
  <2>2. \A i \in DOMAIN plan : progress[i] \in {"ok", "failed"}
    BY <1>2 DEF HistoryInv, Falling, History!Gathered
  <2>3. failures > 0
    BY <1>4 DEF HistoryInv, Answered
  <2> QED BY <1>1, <1>4, <1>5, <2>1, <2>2, <2>3 DEF Falling
<1> QED BY <1>1, <1>6, <1>7, <1>8, NoSeries DEF HistoryInv

\* The brokers left to try.
LEMMA TriesLeft ==
  ASSUME HistoryInv, tries # << >>, phase = "falling"
  PROVE  /\ Head(tries) \in Brokers /\ Head(tries) # plan[cur].broker
         /\ Tail(tries) \in Seq(Brokers)
         /\ \A k \in DOMAIN Tail(tries) : Tail(tries)[k] # plan[cur].broker
<1>1. tries \in Seq(Brokers) /\ \A k \in DOMAIN tries : tries[k] # plan[cur].broker
  BY DEF HistoryInv, History!TypeOK, Falling
<1>2. /\ Len(tries) \in Nat /\ Len(tries) # 0 /\ DOMAIN tries = 1 .. Len(tries) /\ 1 \in DOMAIN tries
      /\ Head(tries) = tries[1]
      /\ Tail(tries) \in Seq(Brokers) /\ DOMAIN Tail(tries) = 1 .. (Len(tries) - 1)
      /\ \A k \in 1 .. (Len(tries) - 1) : Tail(tries)[k] = tries[k + 1] /\ k + 1 \in DOMAIN tries
  BY <1>1
<1> QED BY <1>1, <1>2

\* A fallback is asked, or refused.
LEMMA AskFallbackStep ==
  ASSUME HistoryInv, History!AskFallback
  PROVE  HistoryInv'
<1>1. /\ phase = "falling" /\ tries # << >> /\ ~asking
      /\ UNCHANGED <<registered, healthy, changes, phase, query, decision, plan, progress, answer,
                     clock, cur, unseen, result>>
  BY DEF History!AskFallback, History!registry
<1>2. \/ asking' = TRUE /\ UNCHANGED <<tries, failures>>
      \/ tries' = Tail(tries) /\ failures' = failures + 1 /\ UNCHANGED asking
  BY DEF History!AskFallback
<1>3. /\ tries' \in Seq(Brokers) /\ \A k \in DOMAIN tries' : tries'[k] # plan[cur].broker
      /\ asking' => tries' # << >>
      /\ asking' \in BOOLEAN
  <2>1. CASE asking' = TRUE /\ UNCHANGED <<tries, failures>>
    BY <1>1, <2>1 DEF HistoryInv, History!TypeOK, Falling
  <2>2. CASE tries' = Tail(tries) /\ UNCHANGED asking
    <3>1. /\ Tail(tries) \in Seq(Brokers)
          /\ \A k \in DOMAIN Tail(tries) : Tail(tries)[k] # plan[cur].broker
      BY <1>1, TriesLeft
    <3>2. ~asking' /\ asking' \in BOOLEAN
      BY <1>1, <2>2 DEF HistoryInv, History!TypeOK
    <3>3. tries' \in Seq(Brokers) /\ \A k \in DOMAIN tries' : tries'[k] # plan[cur].broker
      BY <2>2, <3>1
    <3> QED BY <3>2, <3>3
  <2> QED BY <1>2, <2>1, <2>2
<1>4. failures' \in {failures, failures + 1} /\ failures \in Nat
  BY <1>2 DEF HistoryInv, History!TypeOK
<1>5. Answered' /\ failures' \in Nat
  BY <1>1, <1>4, AnswersStay DEF HistoryInv
<1>6. History!TypeOK'
  BY <1>1, <1>3, <1>5 DEF HistoryInv, History!TypeOK
<1>7. Untouched' /\ Planning'
  BY <1>1, PlanStays DEF HistoryInv, Untouched
<1>8. Falling'
  <2>1. /\ cur \in DOMAIN plan /\ failures > 0 /\ progress[cur] = "failed"
        /\ \A i \in DOMAIN plan : progress[i] \in {"ok", "failed"}
    BY <1>1 DEF HistoryInv, Falling
  <2>2. failures' > 0
    BY <1>4, <2>1
  <2> QED BY <1>1, <1>3, <2>1, <2>2 DEF Falling
<1> QED BY <1>1, <1>5, <1>6, <1>7, <1>8, NoSeries DEF HistoryInv

\* A fallback answers, fails, or fails unseen.
LEMMA AnswerFallbackStep ==
  ASSUME HistoryInv, History!AnswerFallback
  PROVE  HistoryInv'
<1> DEFINE b == Head(tries)
<1>1. /\ asking /\ asking' = FALSE
      /\ UNCHANGED <<registered, healthy, changes, phase, query, decision, plan, cur, result>>
  BY DEF History!AnswerFallback, History!registry
<1>2. /\ phase = "falling" /\ tries # << >> /\ cur \in DOMAIN plan /\ failures > 0
      /\ progress[cur] = "failed" /\ \A i \in DOMAIN plan : progress[i] \in {"ok", "failed"}
  BY <1>1 DEF HistoryInv, Falling
<1>3. /\ b \in Brokers /\ b # plan[cur].broker
      /\ Tail(tries) \in Seq(Brokers)
      /\ \A k \in DOMAIN Tail(tries) : Tail(tries)[k] # plan[cur].broker
  BY <1>2, TriesLeft
<1>4. \/ /\ answer' = [answer EXCEPT ![cur] = History!Returned(b, History!Bars(b, plan[cur]))]
         /\ progress' = [progress EXCEPT ![cur] = "ok"]
         /\ clock' = clock + 1 /\ tries' = << >>
         /\ UNCHANGED <<failures, unseen>>
      \/ /\ tries' = Tail(tries) /\ failures' = failures + 1
         /\ UNCHANGED <<progress, answer, clock, unseen>>
      \/ /\ progress' = [progress EXCEPT ![cur] = "ok"]
         /\ tries' = << >> /\ unseen' = unseen \cup {cur}
         /\ UNCHANGED <<answer, clock, failures>>
  BY DEF History!AnswerFallback
<1> HIDE DEF b
<1>5. /\ progress \in [DOMAIN plan -> History!States] /\ answer \in [DOMAIN plan -> History!Answers]
      /\ unseen \subseteq DOMAIN plan /\ failures \in Nat /\ clock \in Nat
  BY DEF HistoryInv, History!TypeOK
<1>6. answer[cur].days = {} /\ cur \notin unseen
  BY <1>2 DEF HistoryInv, Answered
<1>7. /\ tries' \in Seq(Brokers) /\ \A k \in DOMAIN tries' : tries'[k] # plan[cur].broker
      /\ failures' \in {failures, failures + 1} /\ failures' \in Nat /\ failures' > 0
  <2>1. << >> \in Seq(Brokers) /\ DOMAIN << >> = {}
    OBVIOUS
  <2>2. tries' = << >> \/ tries' = Tail(tries)
    BY <1>4
  <2>3. failures' \in {failures, failures + 1}
    BY <1>4
  <2>4. failures' \in Nat /\ failures' > 0
    BY <1>2, <1>5, <2>3
  <2>5. CASE tries' = << >>
    BY <2>1, <2>3, <2>4, <2>5
  <2>6. CASE tries' = Tail(tries)
    BY <1>3, <2>3, <2>4, <2>6
  <2> QED BY <2>2, <2>5, <2>6
<1>8. CASE progress' = [progress EXCEPT ![cur] = "ok"]
  <2>1. /\ progress' \in [DOMAIN plan' -> History!States] /\ progress'[cur] = "ok"
        /\ \A j \in DOMAIN plan \ {cur} : progress'[j] = progress[j]
        /\ Cardinality({j \in DOMAIN plan' : progress'[j] = "asked"}) <= Concurrent
    <3>1. "ok" \in History!States
      BY DEF History!States
    <3> QED BY <1>1, <1>2, <1>8, <3>1, ProgressStep DEF HistoryInv
  <2>2. CASE /\ answer' = [answer EXCEPT ![cur] = History!Returned(b, History!Bars(b, plan[cur]))]
             /\ clock' = clock + 1 /\ tries' = << >>
             /\ UNCHANGED <<failures, unseen>>
    <3> DEFINE a == History!Returned(b, History!Bars(b, plan[cur]))
    <3>1. /\ a \in History!Answers /\ a.by = b /\ a.days = History!Bars(b, plan[cur])
          /\ a.fallback = TRUE /\ clock' \in Nat
      BY <1>2, <1>3, <2>2, ReturnedTyped DEF HistoryInv
    <3>2. answer' = [answer EXCEPT ![cur] = a]
      BY <2>2
    <3> HIDE DEF a
    <3>3. /\ answer' \in [DOMAIN plan' -> History!Answers] /\ answer'[cur] = a
          /\ \A j \in DOMAIN plan \ {cur} : answer'[j] = answer[j]
      BY <1>1, <1>2, <1>5, <3>1, <3>2
    <3>4. Answered'
      BY <1>1, <1>2, <1>3, <1>6, <1>7, <2>1, <2>2, <3>1, <3>3, OneAnswer DEF HistoryInv
    <3>5. History!TypeOK'
      BY <1>1, <1>5, <1>7, <2>1, <2>2, <3>1, <3>3, HistoryCardinality DEF HistoryInv, History!TypeOK
    <3>6. Falling'
      BY <1>1, <1>2, <1>7, <2>1, <2>2 DEF Falling
    <3>7. Untouched' /\ Planning'
      BY <1>1, PlanStays DEF HistoryInv, Untouched
    <3> QED BY <1>1, <1>2, <3>4, <3>5, <3>6, <3>7, NoSeries DEF HistoryInv
  <2>3. CASE /\ tries' = << >> /\ unseen' = unseen \cup {cur}
             /\ UNCHANGED <<answer, clock, failures>>
    <3>1. /\ cur \in unseen' /\ unseen' \subseteq DOMAIN plan'
          /\ \A j \in DOMAIN plan \ {cur} : j \in unseen' <=> j \in unseen
      BY <1>1, <1>2, <1>5, <2>3
    <3>2. Answered'
      BY <1>1, <1>2, <1>6, <1>7, <2>1, <2>3, <3>1, OneAnswer DEF HistoryInv
    <3>3. History!TypeOK'
      BY <1>1, <1>5, <1>7, <2>1, <2>3, <3>1, HistoryCardinality DEF HistoryInv, History!TypeOK
    <3>4. Falling'
      BY <1>1, <1>2, <1>7, <2>1, <2>3 DEF Falling
    <3>5. Untouched' /\ Planning'
      BY <1>1, PlanStays DEF HistoryInv, Untouched
    <3> QED BY <1>1, <1>2, <3>2, <3>3, <3>4, <3>5, NoSeries DEF HistoryInv
  <2>4. ~ UNCHANGED progress
    BY <1>2, <2>1
  <2> QED BY <1>4, <2>2, <2>3, <2>4
<1>9. CASE /\ tries' = Tail(tries) /\ failures' = failures + 1
           /\ UNCHANGED <<progress, answer, clock, unseen>>
  <2>1. Answered'
    BY <1>1, <1>7, <1>9, AnswersStay DEF HistoryInv
  <2>2. History!TypeOK'
    BY <1>1, <1>7, <1>9 DEF HistoryInv, History!TypeOK
  <2>3. Falling'
    BY <1>1, <1>2, <1>7, <1>9 DEF Falling
  <2>4. Untouched' /\ Planning'
    BY <1>1, PlanStays DEF HistoryInv, Untouched
  <2> QED BY <1>1, <1>2, <2>1, <2>2, <2>3, <2>4, NoSeries DEF HistoryInv
<1> QED BY <1>4, <1>8, <1>9

\* A day of the request without a bar, between days that have one, is in a chunk
\* that failed or was taken for one without bars; bars are of whom they say.
LEMMA LossesShow ==
  ASSUME HistoryInv, History!Days # {}, \A i \in DOMAIN plan : progress[i] \in {"ok", "failed"}
  PROVE  /\ \A d \in History!Requested \ History!Days :
              \/ d \in History!Gaps(History!Days) \/ failures > 0
              \/ \E i \in unseen : d \in History!DaysOf(plan[i])
         /\ \A d \in History!Days :
              LET i == History!MergeDay(d).keep
              IN  /\ answer[i].fallback <=> answer[i].by # plan[i].broker
                  /\ answer[i].fallback => failures > 0
                  /\ i \in DOMAIN plan
<1> DEFINE D == History!Days
<1>1. \A d \in D : \E i \in DOMAIN plan : d \in answer[i].days
  BY DEF History!Days
<1>2. /\ query.from \in Int /\ query.to \in Int /\ Today \in Int
      /\ \A i \in DOMAIN plan : /\ plan[i].from \in Int /\ plan[i].to \in Int
                                /\ plan[i].from <= plan[i].to /\ query.from <= plan[i].from
                                /\ plan[i] \in History!Spans /\ plan[i].broker \in Brokers
                                /\ History!Earliest(plan[i].broker) <= plan[i].from
                                /\ History!Earliest(plan[i].broker) \in Int
  <2>1. \A i \in DOMAIN plan : /\ query.from <= plan[i].from
                               /\ History!Earliest(plan[i].broker) <= plan[i].from
    BY DEF HistoryInv, Planning, Shares
  <2> QED BY <2>1, HistoryTyped, HistoryAssumption DEF HistoryInv, History!Earliest
<1>3. \A i \in DOMAIN plan : \A d \in answer[i].days :
        d \in Int /\ plan[i].from - 1 <= d /\ d <= plan[i].to /\ d <= Today
  BY AnswerDays DEF HistoryInv
<1>4. /\ D \subseteq Int /\ \A d \in D : d <= Today /\ query.from - 1 <= d
      /\ query.from - 1 \in Int
  BY <1>1, <1>2, <1>3
<1>5. /\ History!Min(D) \in D /\ \A d \in D : History!Min(D) <= d
      /\ History!Max(D) \in D /\ \A d \in D : d <= History!Max(D)
  <2> HIDE DEF D
  <2>1. D # {}
    BY DEF D
  <2> QED BY <1>2, <1>4, <2>1, LeastInt, GreatestInt
<1>6. ASSUME NEW d \in History!Requested, d \notin D, d \notin History!Gaps(D), ~(failures > 0)
      PROVE  \E i \in unseen : d \in History!DaysOf(plan[i])
  <2>1. d \in Int /\ History!Min(D) <= d /\ d <= History!Max(D)
    <3>1. d \in Int
      BY <1>2 DEF History!Requested
    <3>2. ~(d < History!Min(D)) /\ ~(d > History!Max(D))
      BY <1>6 DEF History!Gaps, History!Requested
    <3> DEFINE lo == History!Min(D)
               hi == History!Max(D)
    <3>3. lo \in Int /\ hi \in Int
      <4> HIDE DEF D
      <4> QED BY <1>4, <1>5
    <3>4. ~(d < lo) /\ ~(d > hi)
      BY <3>2
    <3> HIDE DEF lo, hi
    <3>5. lo <= d /\ d <= hi
      BY <3>1, <3>3, <3>4
    <3> QED BY <3>1, <3>5 DEF lo, hi
  <2>2. PICK i \in DOMAIN plan, j \in DOMAIN plan :
          History!Min(D) \in answer[i].days /\ History!Max(D) \in answer[j].days
    BY <1>1, <1>5
  <2>3. History!Min(D) < d /\ d < History!Max(D) /\ History!Min(D) \in Int /\ History!Max(D) \in Int
    <3> DEFINE lo == History!Min(D)
               hi == History!Max(D)
    <3>1. lo \in D /\ hi \in D /\ d \notin D /\ d \in Int /\ lo <= d /\ d <= hi
      <4> HIDE DEF D
      <4> QED BY <1>5, <1>6, <2>1
    <3>2. lo \in Int /\ hi \in Int
      <4> HIDE DEF D, lo, hi
      <4> QED BY <1>4, <3>1
    <3>3. lo < d /\ d < hi
      <4> HIDE DEF D, lo, hi
      <4> QED BY <3>1, <3>2
    <3> QED BY <3>2, <3>3
  <2>4. plan[i].from <= d /\ d <= plan[j].to /\ d <= Today
    <3> HIDE DEF D
    <3>1. plan[i].from - 1 <= History!Min(D) /\ History!Max(D) <= plan[j].to /\ History!Max(D) <= Today
      BY <1>3, <2>2
    <3> QED BY <1>2, <2>1, <2>3, <3>1
  <2>5. PICK k \in DOMAIN plan : d \in History!DaysOf(plan[k])
    <3>1. d \in plan[i].from .. plan[j].to
      BY <1>2, <2>1, <2>4
    <3> QED BY <3>1 DEF HistoryInv, Planning, Shares
  <2>6. d \notin answer[k].days
    BY <1>6 DEF History!Days
  <2>7. k \in unseen
    <3> SUFFICES ASSUME k \notin unseen PROVE FALSE
      OBVIOUS
    <3>1. CASE progress[k] = "ok"
      <4>1. /\ answer[k].by \in Brokers /\ answer[k].days = History!Bars(answer[k].by, plan[k])
            /\ answer[k].fallback <=> answer[k].by # plan[k].broker
            /\ ~answer[k].fallback
        BY <1>6, <3>1 DEF HistoryInv, Answered
      <4>2. plan[k].from <= d /\ d <= plan[k].to
        BY <1>2, <2>1, <2>5 DEF History!DaysOf
      <4>3. History!Earliest(answer[k].by) <= d
        BY <1>2, <2>1, <4>1, <4>2
      <4>4. d \in History!Bars(answer[k].by, plan[k])
        BY <1>2, <2>1, <2>4, <4>1, <4>2, <4>3, BarsOf
      <4> QED BY <2>6, <4>1, <4>4
    <3>2. CASE progress[k] = "failed"
      BY <1>6, <3>2 DEF HistoryInv, Answered
    <3> QED BY <3>1, <3>2
  <2> QED BY <2>5, <2>7
<1>7. ASSUME NEW d \in D
      PROVE  LET i == History!MergeDay(d).keep
             IN  /\ answer[i].fallback <=> answer[i].by # plan[i].broker
                 /\ answer[i].fallback => failures > 0
                 /\ i \in DOMAIN plan
  <2> DEFINE i == History!MergeDay(d).keep
  <2>1. i \in DOMAIN plan /\ d \in answer[i].days
    BY <1>1, MergeKeeps DEF HistoryInv
  <2> HIDE DEF i
  <2>2. /\ answer[i].fallback <=> answer[i].by # plan[i].broker
        /\ answer[i].fallback => failures > 0
    BY <2>1, AnswerDays DEF HistoryInv, Answered
  <2> QED BY <2>1, <2>2 DEF i
<1> QED BY <1>6, <1>7

\* Brokers that disagree are in the conflicts, and the newest of them is kept.
LEMMA ClashesShow ==
  ASSUME HistoryInv, NEW i \in DOMAIN plan, NEW j \in DOMAIN plan,
         NEW d, d \in answer[i].days, d \in answer[j].days,
         Close[answer[i].by] # Close[answer[j].by]
  PROVE  /\ d \in History!Days /\ d \in History!Merged.conflicts
         /\ query.strategy = "prefer_newest_provenance" =>
              answer[History!Merged.bars[d]].at >= answer[i].at
<1>1. d \in History!Days
  BY DEF History!Days
<1>2. /\ History!MergeDay(d).clash
      /\ query.strategy = "prefer_newest_provenance" =>
           answer[History!MergeDay(d).keep].at >= answer[i].at
  BY MergeKeeps DEF HistoryInv
<1>3. /\ History!Merged.conflicts = {e \in History!Days : History!MergeDay(e).clash}
      /\ History!Merged.bars = [e \in History!Days |-> History!MergeDay(e).keep]
  BY DEF History!Merged
<1> QED BY <1>1, <1>2, <1>3

\* The answers are merged, or there are none.
LEMMA FinishStep ==
  ASSUME HistoryInv, History!Finish
  PROVE  HistoryInv'
<1>1. /\ UNCHANGED <<registered, healthy, changes, query, decision, plan, progress, answer, clock,
                     cur, tries, asking, failures, unseen>>
      /\ phase' \in {"done", "raised"}
  BY DEF History!Finish, History!registry, History!fallback
<1>2. /\ phase \in {"fetching", "falling"} /\ ~asking
      /\ \A i \in DOMAIN plan : progress[i] \in {"ok", "failed"}
  BY DEF History!Finish, History!Gathered, HistoryInv, Falling
<1>3. History!TypeOK'
  BY <1>1 DEF HistoryInv, History!TypeOK, History!Phases
<1>4. Untouched' /\ Planning' /\ Answered' /\ Falling'
  BY <1>1, <1>2, PlanStays, AnswersStay DEF HistoryInv, Untouched, Falling
<1>5. History!LossShows' /\ History!ConflictsSeen'
  <2>1. CASE phase' # "done"
    BY <2>1, NoSeries
  <2>2. CASE phase' = "done" /\ History!Days = {} /\ result' = History!Empty(query)
    <3>1. result'.bars = << >> /\ result'.gaps = query.from .. query.to
      BY <2>2 DEF History!Empty, History!Nothing
    <3>2. DOMAIN result'.bars = {}
      BY <3>1
    <3>3. \A i \in DOMAIN plan : answer[i].days = {}
      BY <2>2 DEF History!Days
    <3>4. History!LossShows'
      BY <1>1, <3>1, <3>2 DEF History!LossShows, History!Requested
    <3>5. History!ConflictsSeen'
      BY <1>1, <3>3 DEF History!ConflictsSeen
    <3> QED BY <3>4, <3>5
  <2>3. CASE /\ phase' = "done" /\ History!Days # {} /\ result' = History!Merged
             /\ query.strategy = "fail_on_conflict" => History!Merged.conflicts = {}
    <3>1. /\ result'.bars = [d \in History!Days |-> History!MergeDay(d).keep]
          /\ result'.gaps = History!Gaps(History!Days)
          /\ result'.degraded = (failures > 0)
          /\ DOMAIN result'.bars = History!Days
      BY <2>3 DEF History!Merged
    <3>2. /\ \A d \in History!Requested \ History!Days :
                \/ d \in History!Gaps(History!Days) \/ failures > 0
                \/ \E i \in unseen : d \in History!DaysOf(plan[i])
          /\ \A d \in History!Days :
                LET i == History!MergeDay(d).keep
                IN  /\ answer[i].fallback <=> answer[i].by # plan[i].broker
                    /\ answer[i].fallback => failures > 0
      BY <1>2, <2>3, LossesShow
    <3>3. ASSUME NEW d \in History!Requested' \ DOMAIN result'.bars
          PROVE  \/ d \in result'.gaps \/ result'.degraded
                 \/ \E i \in unseen' : d \in History!DaysOf(plan'[i])
      <4>1. d \in History!Requested \ History!Days
        BY <1>1, <3>1 DEF History!Requested
      <4> QED BY <1>1, <3>1, <3>2, <4>1
    <3>4. ASSUME NEW d \in DOMAIN result'.bars
          PROVE  LET i == result'.bars[d]
                 IN  /\ answer'[i].fallback <=> answer'[i].by # plan'[i].broker
                     /\ answer'[i].fallback => result'.degraded
      BY <1>1, <3>1, <3>2
    <3>5. History!LossShows'
      BY <3>3, <3>4 DEF History!LossShows, History!DaysOf
    <3>6. ASSUME NEW i \in DOMAIN plan, NEW j \in DOMAIN plan,
                 NEW d \in answer[i].days \intersect answer[j].days,
                 Close[answer[i].by] # Close[answer[j].by]
          PROVE  /\ query.strategy # "fail_on_conflict" /\ d \in result'.conflicts
                 /\ query.strategy = "prefer_newest_provenance" =>
                      answer[result'.bars[d]].at >= answer[i].at
      <4>1. /\ d \in History!Merged.conflicts
            /\ query.strategy = "prefer_newest_provenance" =>
                 answer[History!Merged.bars[d]].at >= answer[i].at
        BY <3>6, ClashesShow
      <4> QED BY <2>3, <4>1
    <3>7. History!ConflictsSeen'
      BY <1>1, <3>6 DEF History!ConflictsSeen
    <3> QED BY <3>5, <3>7
  <2> QED BY <2>1, <2>2, <2>3 DEF History!Finish
<1> QED BY <1>3, <1>4, <1>5 DEF HistoryInv

\* The coordinator keeps its invariant, whatever the registry does.
THEOREM HistoryInvariant == History!Spec => []HistoryInv
<1>1. History!Init => HistoryInv
  <2> SUFFICES ASSUME History!Init PROVE HistoryInv
    OBVIOUS
  <2>1. plan = << >> /\ DOMAIN plan = {} /\ Len(plan) = 0
    BY DEF History!Init
  <2>2. {i \in DOMAIN plan : progress[i] = "asked"} = {}
    BY <2>1
  <2>3. History!Cardinality({i \in DOMAIN plan : progress[i] = "asked"}) <= Concurrent
    BY <2>2, FS_EmptySet, HistoryAssumption, HistoryCardinality
  <2>4. /\ plan \in Seq(History!Spans) /\ decision \in Seq(Brokers) /\ tries \in Seq(Brokers)
        /\ progress \in [DOMAIN plan -> History!States] /\ answer \in [DOMAIN plan -> History!Answers]
    <3>1. progress = << >> /\ answer = << >> /\ decision = << >> /\ tries = << >>
      BY DEF History!Init
    <3> QED BY <2>1, <3>1
  <2>5. History!TypeOK
    <3>1. /\ registered \subseteq Brokers /\ healthy \subseteq registered
          /\ phase \in History!Phases /\ query \in Queries
          /\ asking \in BOOLEAN /\ clock \in Nat /\ failures \in Nat
      BY DEF History!Init, History!Phases
    <3>2. changes \in 0 .. MaxChanges
      BY HistoryAssumption DEF History!Init
    <3>3. cur \in 0 .. Len(plan) /\ unseen \subseteq DOMAIN plan
      BY <2>1 DEF History!Init
    <3>4. \A i \in DOMAIN plan : plan[i].from <= plan[i].to
      BY <2>1
    <3> QED BY <2>3, <2>4, <3>1, <3>2, <3>3, <3>4 DEF History!TypeOK
  <2>6. Untouched /\ Answered /\ Falling
    BY <2>1 DEF History!Init, Untouched, Answered, Falling
  <2>7. Planning
    BY <2>1, NoChunks DEF Planning
  <2>8. History!LossShows /\ History!ConflictsSeen
    BY DEF History!Init, History!LossShows, History!ConflictsSeen
  <2> QED BY <2>5, <2>6, <2>7, <2>8 DEF HistoryInv
<1>2. HistoryInv /\ [History!Next]_(History!vars) => HistoryInv'
  <2> SUFFICES ASSUME HistoryInv, [History!Next]_(History!vars) PROVE HistoryInv'
    OBVIOUS
  <2>1. CASE UNCHANGED History!vars
    <3>1. UNCHANGED <<registered, healthy, changes, phase, query, decision, plan, progress, answer,
                      clock, cur, tries, asking, failures, unseen, result>>
      BY <2>1 DEF History!vars, History!registry, History!fallback
    <3>2. History!TypeOK' /\ Untouched' /\ Falling'
      BY <3>1 DEF HistoryInv, History!TypeOK, Untouched, Falling
    <3> QED BY <3>1, <3>2, PlanStays, AnswersStay, SeriesStays DEF HistoryInv
  <2> QED BY <2>1, ChangeStep, RouteStep, PlanStep, RaisedStep, AskStep, AnswerIn, NextFailedStep,
             AskFallbackStep, AnswerFallbackStep, FinishStep DEF History!Next
<1> QED BY <1>1, <1>2, PTL DEF History!Spec

\* For any brokers, windows, chunk sizes, requests and limits: the plan of a
\* fetch has no day twice, no chunk beyond its broker's reach or its size, and
\* every requested day that a broker of the decision reaches
\* (_partition_ranges, _chunk_range).
THEOREM PlanSharesHolds == Spec => []PlanShares
<1>1. HistoryInv => History!PlanShares
  <2> SUFFICES ASSUME HistoryInv PROVE History!PlanShares
    OBVIOUS
  <2>1. \A i, j \in DOMAIN plan : i # j => History!DaysOf(plan[i]) \intersect History!DaysOf(plan[j]) = {}
    BY DEF HistoryInv, Planning, Shares
  <2>2. ASSUME NEW i \in DOMAIN plan
        PROVE  /\ plan[i].from >= History!Earliest(plan[i].broker)
               /\ History!Cardinality(History!DaysOf(plan[i])) <= MaxChunk[plan[i].broker]
               /\ \/ History!DaysOf(plan[i]) \subseteq History!Requested
                  \/ \E b \in History!Range(decision) : query.to < History!Earliest(b)
    <3>1. /\ query.from <= plan[i].from /\ History!Earliest(plan[i].broker) <= plan[i].from
          /\ plan[i].from <= plan[i].to /\ plan[i].to - plan[i].from < MaxChunk[plan[i].broker]
          /\ \/ plan[i].to <= query.to
             \/ \E b \in History!Range(decision) : query.to < History!Earliest(b)
      BY DEF HistoryInv, Planning, Shares
    <3>2. /\ plan[i].broker \in Brokers /\ plan[i].from \in Int /\ plan[i].to \in Int
          /\ query.from \in Int /\ query.to \in Int
          /\ MaxChunk[plan[i].broker] \in Nat /\ History!Earliest(plan[i].broker) \in Int
      BY HistoryTyped, HistoryAssumption DEF HistoryInv, History!Earliest
    <3>3. Cardinality(plan[i].from .. plan[i].to) = plan[i].to - plan[i].from + 1
      <4> DEFINE a == plan[i].from
                 b == plan[i].to
      <4>1. a \in Int /\ b \in Int /\ ~(a > b)
        BY <3>1, <3>2
      <4> HIDE DEF a, b
      <4>2. Cardinality(a .. b) = b - a + 1
        BY <4>1, FS_Interval
      <4> QED BY <4>2 DEF a, b
    <3>4. History!Cardinality(History!DaysOf(plan[i])) <= MaxChunk[plan[i].broker]
      BY <3>1, <3>2, <3>3, HistoryCardinality DEF History!DaysOf
    <3>5. plan[i].to <= query.to => History!DaysOf(plan[i]) \subseteq History!Requested
      BY <3>1, <3>2 DEF History!DaysOf, History!Requested
    <3> QED BY <3>1, <3>2, <3>4, <3>5
  <2> QED BY <2>1, <2>2 DEF HistoryInv, Planning, History!PlanShares
<1> QED BY <1>1, HistoryInvariant, HistoryImplemented, PTL DEF PlanShares

\* For any brokers, failures, refusals and fallbacks: a requested day of which
\* the series has no bar is a gap, or the series is degraded, or a gateway hid
\* its broker's error, and a fallback's bar bears its mark (fetch,
\* _try_fallback, _detect_gaps).
THEOREM LossShowsHolds == Spec => []LossShows
<1>1. HistoryInv => History!LossShows
  BY DEF HistoryInv
<1> QED BY <1>1, HistoryInvariant, HistoryImplemented, PTL DEF LossShows

\* For any brokers and answers: two that disagree on a day raise or are listed
\* as a conflict, and prefer_newest_provenance keeps the newest (_merge).
THEOREM ConflictsSeenHolds == Spec => []ConflictsSeen
<1>1. HistoryInv => History!ConflictsSeen
  BY DEF HistoryInv
<1> QED BY <1>1, HistoryInvariant, HistoryImplemented, PTL DEF ConflictsSeen

(***************************************************************************)
(* All the components: whichever runs keeps its types and its bounds.      *)
(***************************************************************************)
\* For any values of the constants: each component of the services keeps its
\* types, and the bounds on queues, counters and chunks that they state.
THEOREM TypesHold == Spec => []TypeOK
<1>1. Init => running \in Services
  BY DEF Init
<1>2. running \in Services /\ [Next]_vars => (running \in Services)'
  BY DEF Next, Runs, vars
<1>3. /\ running \in Services
      /\ OrdersInv /\ HistoryInv /\ QuotaInv /\ TokensInv /\ FillsInv
      /\ CacheInv /\ PaperInv /\ DepthInv /\ LockInv
      => TypeOK
  BY DEF Services, TypeOK, OrdersInv, HistoryInv, QuotaInv, TokensInv, FillsInv, CacheInv,
     PaperInv, DepthInv, LockInv
<1> QED
  BY <1>1, <1>2, <1>3, OrdersImplemented, OrdersInvariant, HistoryImplemented, HistoryInvariant,
     QuotaImplemented, QuotaInvariant, TokensImplemented, TokensInvariant,
     FillsImplemented, FillsInvariant, CacheImplemented, CacheInvariant,
     PaperImplemented, PaperInvariant, DepthImplemented, DepthInvariant,
     AdmissionImplemented, AdmissionInv, PTL DEF Spec
===============================================================================
