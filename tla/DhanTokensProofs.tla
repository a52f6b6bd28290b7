--------------------------- MODULE DhanTokensProofs ---------------------------
(***************************************************************************)
(* Proofs about DhanTokens, for any number of callers: the refresh lock    *)
(* belongs to whoever is inside, and when nobody is, the token in memory   *)
(* is the one in the store unless its save failed.                         *)
(***************************************************************************)
EXTENDS DhanTokens, TLAPS

\* A token that died had been generated.
DeadGenerated == dead <= newest

\* A token that is about to be installed is one.
HandedOn ==
  /\ \A c \in Caller : pc[c] = "applying" => token[c] # None
  /\ task \in {"installing", "broadcasting"} => fresh # None

\* Memory and store agree, or a save is known to have failed.
Settled == auth \notin unsaved \cup {None} => auth = store

\* They part only between the change of the state and its save.
Written ==
  /\ ~Saving => Settled
  /\ Saving => auth # None

\* The inductive invariant: types, memory and store outside that window, and
\* the two facts above that the types rest on.
TokensInv == TypeOK /\ Written /\ DeadGenerated /\ HandedOn

PcType == [Caller -> Inside \cup {"idle", "sent", "waiting", "applying"}]
SavingAt == {"saving", "resaving"}

\* Dhan generates a token: what was one stays one.
LEMMA Generated ==
  ASSUME TokensInv, Generate
  PROVE  /\ newest \in Nat /\ newest' = newest + 1 /\ newest' \in 1 .. MaxToken
         /\ dead' \in 0 .. MaxToken /\ expired' \in 0 .. dead' /\ dead' <= newest'
         /\ 0 .. newest \subseteq 0 .. newest' /\ 1 .. newest \subseteq 1 .. newest'
         /\ newest + 1 \in 1 .. newest' /\ newest + 1 # None
<1>1. /\ newest \in Nat /\ newest >= 1 /\ newest' = newest + 1 /\ newest < MaxToken
      /\ dead \in Nat /\ dead <= newest /\ dead' \in {dead, newest}
      /\ expired \in 0 .. dead /\ expired' = expired /\ MaxToken \in Nat
  BY DhanTokensConfig DEF TokensInv, TypeOK, DeadGenerated, Generate
<1>2. expired' \in 0 .. dead' /\ dead' \in 0 .. MaxToken /\ dead' <= newest'
  BY <1>1
<1>3. newest' \in 1 .. MaxToken /\ newest + 1 \in 1 .. newest' /\ newest + 1 # None
  BY <1>1 DEF None
<1>4. 0 .. newest \subseteq 0 .. newest' /\ 1 .. newest \subseteq 1 .. newest'
  BY <1>1
<1> QED BY <1>1, <1>2, <1>3, <1>4

\* A caller goes from one place to another, neither inside the lock.
LEMMA CallerMoves ==
  ASSUME TypeOK, NEW c \in Caller, NEW l \in {"idle", "sent", "waiting", "applying"},
         Goto(c, l), pc[c] \notin Inside, UNCHANGED <<lock, task>>
  PROVE  /\ pc' \in PcType
         /\ \A d \in Caller : pc'[d] \in Inside <=> lock' = d
         /\ pc'[c] = l /\ \A d \in Caller \ {c} : pc'[d] = pc[d]
         /\ Saving' <=> Saving
BY DEF TypeOK, Goto, PcType, Inside, Saving

\* A caller takes the free lock.
LEMMA CallerEnters ==
  ASSUME TypeOK, NEW c \in Caller, Goto(c, "holding"), lock = Free, lock' = c,
         UNCHANGED task
  PROVE  /\ pc' \in PcType
         /\ \A d \in Caller : pc'[d] \in Inside <=> lock' = d
         /\ pc'[c] = "holding" /\ \A d \in Caller \ {c} : pc'[d] = pc[d]
         /\ lock' \in Caller /\ lock' # Scheduler /\ ~Saving /\ ~Saving'
<1>1. \A d \in Caller : pc[d] \notin Inside
  BY DhanTokensConfig DEF TypeOK
<1>2. task = "idle"
  BY DhanTokensConfig DEF TypeOK
<1> QED BY <1>1, <1>2, DhanTokensConfig DEF TypeOK, Goto, PcType, Inside, Saving

\* Only the caller inside the lock can be saving.
LEMMA AloneInside ==
  ASSUME TypeOK, NEW c \in Caller, pc[c] \in Inside
  PROVE  /\ lock = c /\ lock # Scheduler /\ task = "idle"
         /\ \A d \in Caller \ {c} : pc[d] \notin Inside
         /\ Saving <=> pc[c] \in SavingAt
<1>1. lock = c /\ lock # Scheduler /\ \A d \in Caller \ {c} : pc[d] \notin Inside
  BY DhanTokensConfig DEF TypeOK
<1>2. task = "idle"
  BY <1>1 DEF TypeOK
<1> QED BY <1>1, <1>2 DEF Saving, SavingAt, Inside

\* It goes on without giving the lock back.
LEMMA CallerGoesOn ==
  ASSUME TypeOK, NEW c \in Caller, NEW l \in {"saving", "reloading", "resaving"},
         Goto(c, l), pc[c] \in Inside, UNCHANGED <<lock, task>>
  PROVE  /\ pc' \in PcType
         /\ \A d \in Caller : pc'[d] \in Inside <=> lock' = d
         /\ pc'[c] = l /\ \A d \in Caller \ {c} : pc'[d] = pc[d]
         /\ Saving' <=> l \in SavingAt
<1>1. pc' \in PcType /\ pc'[c] = l /\ \A d \in Caller \ {c} : pc'[d] = pc[d]
  BY DEF TypeOK, Goto, PcType, Inside
<1> QED BY <1>1, AloneInside DEF TypeOK, Saving, SavingAt, Inside

\* It gives the lock back.
LEMMA CallerLeaves ==
  ASSUME TypeOK, NEW c \in Caller, NEW l \in {"idle", "applying"},
         Goto(c, l), pc[c] \in Inside, lock' = Free, UNCHANGED task
  PROVE  /\ pc' \in PcType
         /\ \A d \in Caller : pc'[d] \in Inside <=> lock' = d
         /\ pc'[c] = l /\ \A d \in Caller \ {c} : pc'[d] = pc[d]
         /\ lock' # Scheduler /\ task = "idle" /\ ~Saving'
<1>1. pc' \in PcType /\ pc'[c] = l /\ \A d \in Caller \ {c} : pc'[d] = pc[d]
  BY DEF TypeOK, Goto, PcType, Inside
<1>2. Free \notin Caller /\ Scheduler # Free
  BY DhanTokensConfig
<1> QED BY <1>1, <1>2, AloneInside DEF TypeOK, Saving, Inside

\* Memory and store are left alone, and nobody begins or ends a save.
LEMMA Undisturbed ==
  ASSUME TokensInv, UNCHANGED manager, Saving' <=> Saving
  PROVE  Written'
BY DEF TokensInv, Written, Settled, manager

\* A token is taken from the store.
LEMMA Recalled ==
  ASSUME Recall, ~Saving'
  PROVE  Written'
BY DEF Recall, Written, Settled

\* A token is written to the store.
LEMMA Saved ==
  ASSUME Save, ~Saving'
  PROVE  Written'
BY DEF Save, Written, Settled

\* A save fails and is remembered.
LEMMA SaveFailed ==
  ASSUME TokensInv, SaveRaises
  PROVE  /\ auth' = auth /\ store' \in 0 .. newest /\ unsaved' \subseteq 0 .. newest
         /\ failures' \in 0 .. MaxFailures /\ Settled' /\ newest < MaxToken
BY DhanTokensConfig DEF SaveRaises, MayFail, TokensInv, TypeOK, Settled, None

\* The backoff that a failed refresh begins.
LEMMA BacksOff ==
  ASSUME TypeOK, NEW c \in Caller, BackOff(c)
  PROVE  backoff' \in 0 .. Backoff /\ UNCHANGED <<client, cool>>
BY DhanTokensConfig DEF TypeOK, BackOff, LongestWait

\* A caller begins to take over a new token.
LEMMA RenewalBegins ==
  ASSUME TokensInv, NEW c \in Caller, NEW l \in SavingAt, pc[c] \in Inside, Goto(c, l),
         Generate, Adopt(newest + 1), UNCHANGED <<lock, http, token, now, schedule, feeds>>
  PROVE  TokensInv'
<1>1. TypeOK /\ UNCHANGED <<lock, task>> /\ l \in {"saving", "resaving"}
  BY DEF TokensInv, schedule, SavingAt
<1>2. /\ pc' \in PcType /\ \A d \in Caller : pc'[d] \in Inside <=> lock' = d
      /\ pc'[c] = l /\ (\A d \in Caller \ {c} : pc'[d] = pc[d]) /\ Saving'
  BY <1>1, CallerGoesOn DEF SavingAt
<1>3. /\ auth' = newest + 1 /\ auth' \in 0 .. newest' /\ store' \in 0 .. newest'
      /\ unsaved' \subseteq 0 .. newest' /\ failures' \in 0 .. MaxFailures
  BY Generated DEF Adopt, TokensInv, TypeOK
<1>4. /\ client' \in 1 .. newest' /\ fresh' \in 0 .. newest' /\ copy' \in 1 .. newest'
      /\ token' \in [Caller -> 0 .. newest'] /\ live' \in [Socket -> 0 .. newest']
  BY Generated DEF TokensInv, TypeOK, http, schedule, feeds
<1>5. TypeOK'
  BY <1>2, <1>3, <1>4, Generated DEF TokensInv, TypeOK, http, schedule, PcType
<1>6. HandedOn'
  BY <1>2 DEF TokensInv, HandedOn, schedule, SavingAt
<1>7. Written'
  BY <1>2, <1>3, Generated DEF Written
<1>8. dead' <= newest'
  BY Generated
<1> QED BY <1>5, <1>6, <1>7, <1>8 DEF TokensInv, DeadGenerated

\* A caller hands over a token of the process and gives the lock back.
LEMMA HandsOver ==
  ASSUME TokensInv, NEW c \in Caller, NEW t \in 0 .. newest, t # None, pc[c] \in Inside,
         HandOver(c, t), auth' \in 0 .. newest, store' \in 0 .. newest,
         UNCHANGED <<dhan, unsaved, failures, http, now, schedule, feeds>>
  PROVE  TypeOK' /\ HandedOn' /\ DeadGenerated' /\ ~Saving'
<1>1. TypeOK /\ Goto(c, "applying") /\ lock' = Free /\ UNCHANGED task
  BY DEF TokensInv, schedule, HandOver
<1>2. /\ pc' \in PcType /\ \A d \in Caller : pc'[d] \in Inside <=> lock' = d
      /\ pc'[c] = "applying" /\ \A d \in Caller \ {c} : pc'[d] = pc[d]
      /\ lock' # Scheduler /\ task = "idle" /\ ~Saving'
  BY <1>1, CallerLeaves
<1>3. TypeOK'
  BY <1>1, <1>2 DEF HandOver, TypeOK, dhan, http, schedule, feeds, PcType
<1>4. HandedOn'
  BY <1>2 DEF TokensInv, TypeOK, HandOver, HandedOn, schedule
<1> QED BY <1>2, <1>3, <1>4 DEF TokensInv, DeadGenerated, dhan

\* A caller gives the lock back and its request up.
LEMMA GivesUp ==
  ASSUME TokensInv, NEW c \in Caller, pc[c] \in Inside, Goto(c, "idle"), lock' = Free,
         auth' \in 0 .. newest, store' \in 0 .. newest, unsaved' \subseteq 0 .. newest,
         failures' \in 0 .. MaxFailures, backoff' \in 0 .. Backoff,
         UNCHANGED <<dhan, client, cool, token, now, schedule, feeds>>
  PROVE  TypeOK' /\ HandedOn' /\ DeadGenerated' /\ ~Saving'
<1>1. TypeOK /\ UNCHANGED task
  BY DEF TokensInv, schedule
<1>2. /\ pc' \in PcType /\ \A d \in Caller : pc'[d] \in Inside <=> lock' = d
      /\ pc'[c] = "idle" /\ \A d \in Caller \ {c} : pc'[d] = pc[d]
      /\ lock' # Scheduler /\ task = "idle" /\ ~Saving'
  BY <1>1, CallerLeaves
<1>3. TypeOK'
  BY <1>1, <1>2 DEF TypeOK, dhan, schedule, feeds, PcType
<1>4. HandedOn'
  BY <1>2 DEF TokensInv, HandedOn, schedule
<1> QED BY <1>2, <1>3, <1>4 DEF TokensInv, DeadGenerated, dhan

\* The requests of a caller, up to the lock and after it.
LEMMA OutsideStep ==
  ASSUME TokensInv, NEW c \in Caller,
         Send(c) \/ Done(c) \/ Refresh(c) \/ LockTimeout(c) \/ TakeLock(c) \/ Apply(c)
  PROVE  TokensInv'
<1>0. TypeOK
  BY DEF TokensInv
<1>1. CASE Send(c)
  <2>1. /\ pc[c] \notin Inside /\ Goto(c, "sent") /\ UNCHANGED <<lock, task, manager>>
        /\ token' = [token EXCEPT ![c] = client]
    BY <1>1 DEF Send, Inside, schedule
  <2>2. client \in 0 .. newest
    BY DEF TokensInv, TypeOK
  <2>3. Written' /\ pc' \in PcType /\ (\A d \in Caller : pc'[d] \in Inside <=> lock' = d)
        /\ pc'[c] = "sent" /\ \A d \in Caller \ {c} : pc'[d] = pc[d]
    BY <1>0, <2>1, CallerMoves, Undisturbed
  <2>4. TypeOK'
    <3>1. token' \in [Caller -> 0 .. newest]
      BY <1>0, <2>1, <2>2 DEF TypeOK
    <3> QED BY <1>0, <1>1, <2>3, <3>1 DEF Send, TypeOK, dhan, manager, http, schedule, feeds, PcType
  <2>5. HandedOn'
    BY <1>1, <2>3 DEF Send, TokensInv, HandedOn, TypeOK, schedule
  <2> QED BY <1>1, <2>3, <2>4, <2>5 DEF Send, TokensInv, DeadGenerated, dhan
<1>2. CASE Done(c)
  <2>1. pc[c] \notin Inside /\ Goto(c, "idle") /\ UNCHANGED <<lock, task, manager>>
    BY <1>2 DEF Done, Inside, schedule
  <2>2. Written' /\ pc' \in PcType /\ (\A d \in Caller : pc'[d] \in Inside <=> lock' = d)
        /\ pc'[c] = "idle" /\ \A d \in Caller \ {c} : pc'[d] = pc[d]
    BY <1>0, <2>1, CallerMoves, Undisturbed
  <2> QED BY <1>2, <2>1, <2>2
          DEF Done, TokensInv, TypeOK, DeadGenerated, HandedOn, dhan, manager, http, schedule, feeds, PcType
<1>3. CASE Refresh(c)
  <2>1. pc[c] \notin Inside /\ Goto(c, "waiting") /\ UNCHANGED <<lock, task, manager>>
    BY <1>3 DEF Refresh, Rejected, Inside, schedule
  <2>2. 0 \in 0 .. LongestWait
    BY DhanTokensConfig DEF LongestWait
  <2>3. Written' /\ pc' \in PcType /\ (\A d \in Caller : pc'[d] \in Inside <=> lock' = d)
        /\ pc'[c] = "waiting" /\ \A d \in Caller \ {c} : pc'[d] = pc[d]
    BY <1>0, <2>1, CallerMoves, Undisturbed
  <2> QED BY <1>3, <2>1, <2>2, <2>3
          DEF Refresh, TokensInv, TypeOK, DeadGenerated, HandedOn, dhan, manager, http, schedule, feeds, PcType
<1>4. CASE LockTimeout(c)
  <2>1. pc[c] \notin Inside /\ Goto(c, "idle") /\ UNCHANGED <<lock, task, manager>>
    BY <1>4 DEF LockTimeout, Inside, schedule
  <2>2. backoff' \in 0 .. Backoff /\ UNCHANGED <<client, cool>>
    BY <1>0, <1>4, BacksOff DEF LockTimeout
  <2>3. Written' /\ pc' \in PcType /\ (\A d \in Caller : pc'[d] \in Inside <=> lock' = d)
        /\ pc'[c] = "idle" /\ \A d \in Caller \ {c} : pc'[d] = pc[d]
    BY <1>0, <2>1, CallerMoves, Undisturbed
  <2> QED BY <1>4, <2>1, <2>2, <2>3
          DEF LockTimeout, TokensInv, TypeOK, DeadGenerated, HandedOn, dhan, manager, schedule, feeds, PcType
<1>5. CASE TakeLock(c)
  <2>1. /\ lock = Free /\ lock' = c /\ Goto(c, "holding") /\ UNCHANGED <<task, manager>>
        /\ UNCHANGED <<dhan, manager, http, token, now, schedule, feeds>>
    BY <1>5 DEF TakeLock, schedule
  <2>2. Scheduler # Free
    BY DhanTokensConfig
  <2>3. /\ Written' /\ pc' \in PcType /\ (\A d \in Caller : pc'[d] \in Inside <=> lock' = d)
        /\ pc'[c] = "holding" /\ (\A d \in Caller \ {c} : pc'[d] = pc[d])
        /\ lock' \in Caller /\ lock' # Scheduler
    BY <1>0, <2>1, CallerEnters, Undisturbed
  <2> QED BY <2>1, <2>2, <2>3
          DEF TokensInv, TypeOK, DeadGenerated, HandedOn, dhan, manager, http, schedule, feeds, PcType
<1>6. CASE Apply(c)
  <2>1. /\ pc[c] = "applying" /\ pc[c] \notin Inside /\ Goto(c, "idle") /\ client' = token[c]
        /\ backoff' = 0 /\ cool' = Least(now[c], Cooldown)
        /\ UNCHANGED <<dhan, manager, lock, task, token, now, schedule, feeds>>
    BY <1>6 DEF Apply, Inside, schedule
  <2>2. cool' \in 0 .. Cooldown /\ backoff' \in 0 .. Backoff
    BY <2>1, DhanTokensConfig DEF TokensInv, TypeOK, Least, LongestWait
  <2>3. client' \in 1 .. newest
    BY <2>1 DEF TokensInv, TypeOK, HandedOn, None
  <2>4. Written' /\ pc' \in PcType /\ (\A d \in Caller : pc'[d] \in Inside <=> lock' = d)
        /\ pc'[c] = "idle" /\ \A d \in Caller \ {c} : pc'[d] = pc[d]
    BY <1>0, <2>1, CallerMoves, Undisturbed
  <2> QED BY <2>1, <2>2, <2>3, <2>4
          DEF TokensInv, TypeOK, DeadGenerated, HandedOn, dhan, manager, schedule, feeds, PcType
<1> QED BY <1>1, <1>2, <1>3, <1>4, <1>5, <1>6

\* What a caller does inside the lock.
LEMMA InsideStep ==
  ASSUME TokensInv, NEW c \in Caller,
         \/ Renew(c) \/ SaveRenewed(c) \/ RenewedUnsaved(c) \/ Reload(c) \/ Reacquire(c)
         \/ SaveReacquired(c) \/ ReacquiredUnsaved(c) \/ RefreshFails(c)
  PROVE  TokensInv'
<1>0. TypeOK
  BY DEF TokensInv
<1>1. CASE Renew(c)
  BY <1>1, RenewalBegins DEF Renew, Inside, SavingAt
<1>2. CASE SaveRenewed(c) \/ SaveReacquired(c)
  <2>1. /\ pc[c] \in SavingAt /\ pc[c] \in Inside /\ Save /\ HandOver(c, auth)
        /\ UNCHANGED <<dhan, http, now, schedule, feeds>>
    BY <1>2 DEF SaveRenewed, SaveReacquired, SavingAt, Inside
  <2>2. auth \in 0 .. newest /\ auth # None
    BY <1>0, <2>1, AloneInside DEF TokensInv, TypeOK, Written
  <2>3. auth' = auth /\ store' = auth /\ UNCHANGED <<unsaved, failures>>
    BY <2>1 DEF Save
  <2>4. TypeOK' /\ HandedOn' /\ DeadGenerated' /\ ~Saving'
    BY <2>1, <2>2, <2>3, HandsOver
  <2> QED BY <2>1, <2>4, Saved DEF TokensInv
<1>3. CASE RenewedUnsaved(c)
  <2>1. /\ pc[c] \in Inside /\ SaveRaises /\ Goto(c, "reloading") /\ UNCHANGED <<lock, task>>
        /\ UNCHANGED <<dhan, lock, http, token, now, schedule, feeds>>
    BY <1>3 DEF RenewedUnsaved, Inside, schedule
  <2>2. /\ pc' \in PcType /\ (\A d \in Caller : pc'[d] \in Inside <=> lock' = d)
        /\ pc'[c] = "reloading" /\ (\A d \in Caller \ {c} : pc'[d] = pc[d]) /\ ~Saving'
    BY <1>0, <2>1, CallerGoesOn DEF SavingAt
  <2>3. /\ auth' = auth /\ store' \in 0 .. newest /\ unsaved' \subseteq 0 .. newest
        /\ failures' \in 0 .. MaxFailures /\ Settled'
    BY <2>1, SaveFailed
  <2>4. TypeOK'
    BY <1>0, <2>1, <2>2, <2>3 DEF TypeOK, dhan, http, schedule, feeds, PcType
  <2>5. HandedOn'
    BY <2>1, <2>2 DEF TokensInv, HandedOn, schedule
  <2> QED BY <2>1, <2>2, <2>3, <2>4, <2>5 DEF TokensInv, Written, DeadGenerated, dhan
<1>4. CASE Reload(c)
  <2>1. /\ pc[c] \in Inside /\ Valid(store) /\ Recall /\ HandOver(c, store)
        /\ UNCHANGED <<dhan, http, now, schedule, feeds>>
    BY <1>4 DEF Reload, Refused, Inside
  <2>2. store \in 0 .. newest /\ store # None
    BY <1>0, <2>1 DEF TypeOK, Valid
  <2>3. auth' = store /\ store' = store /\ UNCHANGED <<unsaved, failures>>
    BY <2>1 DEF Recall
  <2>4. TypeOK' /\ HandedOn' /\ DeadGenerated' /\ ~Saving'
    BY <2>1, <2>2, <2>3, HandsOver
  <2> QED BY <2>1, <2>4, Recalled DEF TokensInv
<1>5. CASE Reacquire(c)
  BY <1>5, RenewalBegins DEF Reacquire, Refused, Inside, SavingAt
<1>6. CASE ReacquiredUnsaved(c)
  <2>1. /\ pc[c] \in Inside /\ SaveRaises /\ Goto(c, "idle") /\ lock' = Free
        /\ UNCHANGED <<dhan, http, token, now, schedule, feeds>>
    BY <1>6 DEF ReacquiredUnsaved, Inside
  <2>2. /\ auth' = auth /\ store' \in 0 .. newest /\ unsaved' \subseteq 0 .. newest
        /\ failures' \in 0 .. MaxFailures /\ Settled'
    BY <2>1, SaveFailed
  <2>3. auth' \in 0 .. newest /\ backoff' \in 0 .. Backoff /\ UNCHANGED <<client, cool>>
    BY <1>0, <2>1, <2>2 DEF TypeOK, http
  <2>4. TypeOK' /\ HandedOn' /\ DeadGenerated' /\ ~Saving'
    BY <2>1, <2>2, <2>3, GivesUp
  <2> QED BY <2>2, <2>4 DEF TokensInv, Written
<1>7. CASE RefreshFails(c)
  <2>1. /\ pc[c] \in Inside /\ pc[c] \notin SavingAt /\ Goto(c, "idle") /\ lock' = Free
        /\ BackOff(c) \/ UNCHANGED http
        /\ UNCHANGED <<dhan, manager, token, now, schedule, feeds>>
    BY <1>7 DEF RefreshFails, Refused, Inside, SavingAt
  <2>2. backoff' \in 0 .. Backoff /\ UNCHANGED <<client, cool>>
    BY <1>0, <2>1, BacksOff DEF TypeOK, http
  <2>3. /\ auth' \in 0 .. newest /\ store' \in 0 .. newest /\ unsaved' \subseteq 0 .. newest
        /\ failures' \in 0 .. MaxFailures
    BY <1>0, <2>1 DEF TypeOK, manager
  <2>4. TypeOK' /\ HandedOn' /\ DeadGenerated' /\ ~Saving'
    BY <2>1, <2>2, <2>3, GivesUp
  <2>5. ~Saving
    BY <1>0, <2>1, AloneInside
  <2> QED BY <2>1, <2>4, <2>5, Undisturbed DEF TokensInv
<1> QED BY <1>1, <1>2, <1>3, <1>4, <1>5, <1>6, <1>7

\* Only the scheduler can be saving while it is inside.
LEMMA SchedulerAlone ==
  ASSUME TypeOK, task # "idle"
  PROVE  /\ lock = Scheduler /\ \A c \in Caller : pc[c] \notin Inside /\ pc[c] \notin SavingAt
         /\ Saving <=> task = "saving"
<1>1. lock = Scheduler /\ \A c \in Caller : pc[c] \notin Inside
  BY DhanTokensConfig DEF TypeOK
<1> QED BY <1>1 DEF Saving, SavingAt, Inside

\* The scheduler's renewal.
LEMMA RenewalStep ==
  ASSUME TokensInv, Renewal
  PROVE  TokensInv'
<1>0. /\ Free # Scheduler /\ (\A c \in Caller : c # Free /\ c # Scheduler) /\ TypeOK
  BY DhanTokensConfig DEF TokensInv
<1>1. CASE Begin
  <2>1. \A c \in Caller : pc[c] \notin Inside
    BY <1>0, <1>1 DEF Begin, TypeOK
  <2>2. ~Saving /\ ~Saving' /\ UNCHANGED manager
    BY <1>1, <2>1 DEF Begin, Saving, Inside, calls
  <2> QED BY <1>0, <1>1, <2>1, <2>2, Undisturbed
          DEF Begin, TokensInv, TypeOK, DeadGenerated, HandedOn, dhan, manager, http, calls, feeds
<1>2. CASE Load
  <2>1. /\ task = "holding" /\ lock = Scheduler /\ store # None /\ Recall
        /\ auth' = store /\ store' = store /\ unsaved' = unsaved /\ failures' = failures
        /\ UNCHANGED <<dhan, http, calls, feeds>>
        /\ \/ lock' = Free /\ task' = "idle" /\ fresh' = fresh
           \/ task' = "installing" /\ fresh' = store /\ lock' = lock
    BY <1>0, <1>2 DEF Load, Recall, Valid, TypeOK
  <2>2. \A c \in Caller : pc[c] \notin Inside /\ pc[c] \notin SavingAt
    BY <1>0, <2>1, SchedulerAlone
  <2>3. ~Saving'
    BY <2>1, <2>2 DEF Saving, SavingAt, calls
  <2>4. TypeOK'
    BY <1>0, <2>1, <2>2 DEF TypeOK, dhan, http, calls, feeds
  <2>5. Written'
    BY <2>1, <2>3, Recalled
  <2> QED BY <2>1, <2>4, <2>5 DEF TokensInv, DeadGenerated, HandedOn, dhan, calls
<1>3. CASE Acquire
  <2>1. /\ task = "holding" /\ lock = Scheduler /\ Generate /\ task' = "saving"
        /\ auth' = newest + 1 /\ UNCHANGED <<store, unsaved, failures>>
        /\ UNCHANGED <<lock, http, calls, fresh, feeds>>
    BY <1>0, <1>3 DEF Acquire, Adopt, TypeOK
  <2>2. TypeOK'
    <3>1. /\ auth' \in 0 .. newest' /\ store' \in 0 .. newest' /\ fresh' \in 0 .. newest'
          /\ unsaved' \subseteq 0 .. newest'
      BY <1>0, <2>1, Generated DEF TypeOK
    <3>2. /\ client' \in 1 .. newest' /\ copy' \in 1 .. newest'
          /\ token' \in [Caller -> 0 .. newest'] /\ live' \in [Socket -> 0 .. newest']
      BY <1>0, <2>1, Generated DEF TypeOK, http, calls, feeds
    <3>3. /\ newest' \in 1 .. MaxToken /\ dead' \in 0 .. MaxToken /\ expired' \in 0 .. dead'
      BY <2>1, Generated
    <3> QED BY <1>0, <2>1, <3>1, <3>2, <3>3 DEF TypeOK, http, calls
  <2>3. Written'
    BY <2>1, Generated DEF Written, Saving
  <2> QED BY <2>1, <2>2, <2>3, Generated DEF TokensInv, DeadGenerated, HandedOn, calls
<1>4. CASE SaveAcquired
  <2>1. /\ task = "saving" /\ lock = Scheduler /\ Save /\ auth' = auth /\ store' = auth
        /\ task' = "installing" /\ fresh' = auth
        /\ UNCHANGED <<unsaved, failures, dhan, lock, http, calls, feeds>>
    BY <1>0, <1>4 DEF SaveAcquired, Save, TypeOK
  <2>2. auth \in 0 .. newest /\ auth # None
    BY <1>0, <2>1 DEF TypeOK, TokensInv, Written, Saving
  <2>3. ~Saving'
    BY <1>0, <2>1, SchedulerAlone DEF Saving, SavingAt, calls
  <2>4. Written'
    BY <2>1, <2>3, Saved
  <2> QED BY <1>0, <2>1, <2>2, <2>4
          DEF TokensInv, TypeOK, DeadGenerated, HandedOn, dhan, http, calls, feeds
<1>5. CASE AcquiredUnsaved
  <2>1. /\ task = "saving" /\ lock' = Free /\ task' = "idle"
        /\ UNCHANGED <<dhan, http, calls, fresh, feeds>>
    BY <1>5 DEF AcquiredUnsaved
  <2>2. /\ auth' = auth /\ store' \in 0 .. newest /\ unsaved' \subseteq 0 .. newest
        /\ failures' \in 0 .. MaxFailures /\ Settled'
    BY <1>5, SaveFailed DEF AcquiredUnsaved
  <2>3. ~Saving' /\ \A c \in Caller : pc[c] \notin Inside
    BY <1>0, <2>1, SchedulerAlone DEF Saving, SavingAt, calls
  <2>4. TypeOK'
    BY <1>0, <2>1, <2>2, <2>3 DEF TypeOK, dhan, http, calls, feeds
  <2> QED BY <2>1, <2>2, <2>3, <2>4 DEF TokensInv, Written, DeadGenerated, HandedOn, dhan, calls
<1>6. CASE AcquireFails
  <2>1. ~Saving /\ ~Saving' /\ (\A c \in Caller : pc[c] \notin Inside) /\ UNCHANGED manager
    BY <1>0, <1>6, SchedulerAlone DEF AcquireFails, Saving, SavingAt, calls
  <2> QED BY <1>0, <1>6, <2>1, Undisturbed
          DEF AcquireFails, TokensInv, TypeOK, DeadGenerated, HandedOn, dhan, manager, http, calls, feeds
<1>7. CASE Install
  <2>1. fresh \in 1 .. newest
    BY <1>7 DEF Install, TokensInv, TypeOK, HandedOn, None
  <2>2. (Saving' <=> Saving) /\ UNCHANGED manager
    BY <1>7 DEF Install, Saving, calls
  <2> QED BY <1>7, <2>1, <2>2, Undisturbed
          DEF Install, TokensInv, TypeOK, DeadGenerated, HandedOn, dhan, manager, calls, feeds
<1>8. CASE Broadcast
  <2>1. fresh \in 1 .. newest /\ None \in 0 .. newest
    BY <1>8 DEF Broadcast, TokensInv, TypeOK, HandedOn, None
  <2>2. live' \in [Socket -> 0 .. newest]
    BY <1>8, <2>1 DEF Broadcast, TokensInv, TypeOK
  <2>3. (Saving' <=> Saving) /\ UNCHANGED manager
    BY <1>8 DEF Broadcast, Saving, calls
  <2>4. \A c \in Caller : pc[c] \notin Inside
    BY <1>0, <1>8, SchedulerAlone DEF Broadcast
  <2> QED BY <1>0, <1>8, <2>1, <2>2, <2>3, <2>4, Undisturbed
          DEF Broadcast, TokensInv, TypeOK, DeadGenerated, HandedOn, dhan, manager, http, calls
<1> QED BY <1>1, <1>2, <1>3, <1>4, <1>5, <1>6, <1>7, <1>8 DEF Renewal

\* The process is started anew.
LEMMA RestartStep ==
  ASSUME TokensInv, Restart
  PROVE  TokensInv'
<1>0. /\ Free # Scheduler /\ (\A c \in Caller : c # Free) /\ TypeOK
      /\ Cooldown \in 0 .. Cooldown /\ 0 \in 0 .. Backoff /\ 0 \in 0 .. LongestWait
  BY DhanTokensConfig DEF TokensInv, LongestWait
<1>1. PICK s \in Left :
        \/ auth' = None /\ store' = s /\ UNCHANGED dhan /\ client' \in 1 .. newest \ unsaved'
        \/ Valid(s) /\ auth' = s /\ store' = s /\ client' = s /\ UNCHANGED dhan
        \/ Generate /\ auth' = newest + 1 /\ store' = newest + 1 /\ client' = newest + 1
  BY DEF Restart
<1>2. s \in 0 .. newest /\ None \in 0 .. newest
  BY <1>0 DEF Left, TypeOK, None
<1>3. /\ newest' \in 1 .. MaxToken /\ dead' \in 0 .. MaxToken /\ expired' \in 0 .. dead'
      /\ auth' \in 0 .. newest' /\ store' \in 0 .. newest' /\ client' \in 1 .. newest'
      /\ dead' <= newest' /\ 0 .. newest \subseteq 0 .. newest'
  <2>1. CASE auth' = None /\ store' = s /\ UNCHANGED dhan /\ client' \in 1 .. newest \ unsaved'
    BY <1>0, <1>2, <2>1 DEF TokensInv, TypeOK, DeadGenerated, dhan
  <2>2. CASE Valid(s) /\ auth' = s /\ store' = s /\ client' = s /\ UNCHANGED dhan
    BY <1>0, <1>2, <2>2 DEF TokensInv, TypeOK, DeadGenerated, dhan, Valid, None
  <2>3. CASE Generate /\ auth' = newest + 1 /\ store' = newest + 1 /\ client' = newest + 1
    <3>1. 1 .. newest' \subseteq 0 .. newest'
      OBVIOUS
    <3> QED BY <2>3, <3>1, Generated
  <2> QED BY <1>1, <2>1, <2>2, <2>3
<1>4. unsaved' \subseteq 0 .. newest' /\ failures' \in 0 .. MaxFailures
  BY <1>0, <1>3, DhanTokensConfig DEF Restart, MayFail, TypeOK
<1>5. /\ lock' = Free /\ cool' = Cooldown /\ backoff' = 0 /\ task' = "idle" /\ fresh' = None
      /\ pc' = [c \in Caller |-> "idle"] /\ token' = [c \in Caller |-> None]
      /\ now' = [c \in Caller |-> 0] /\ copy' = client' /\ live' = [t \in Socket |-> None]
  BY DEF Restart
<1>6. TypeOK'
  BY <1>0, <1>2, <1>3, <1>4, <1>5 DEF TypeOK, Inside
<1>7. Written'
  BY <1>1, <1>5 DEF Written, Settled, Saving
<1> QED BY <1>3, <1>5, <1>6, <1>7 DEF TokensInv, DeadGenerated, HandedOn

\* Sockets, Dhan and the clock.
LEMMA WorldStep ==
  ASSUME TokensInv, (\E s \in Socket : Connect(s) \/ Drop(s)) \/ Revoke \/ Tick
  PROVE  TokensInv'
<1>1. ASSUME NEW s \in Socket, Connect(s) PROVE TokensInv'
  <2>1. Credential(s) \in 0 .. newest
    BY DEF Credential, TokensInv, TypeOK
  <2>2. (Saving' <=> Saving) /\ UNCHANGED manager
    BY <1>1 DEF Connect, Saving, calls, schedule
  <2> QED BY <1>1, <2>1, <2>2, Undisturbed
          DEF Connect, TokensInv, TypeOK, DeadGenerated, HandedOn, dhan, manager, http, calls, schedule
<1>2. ASSUME NEW s \in Socket, Drop(s) PROVE TokensInv'
  <2>1. None \in 0 .. newest
    BY DEF TokensInv, TypeOK, None
  <2>2. (Saving' <=> Saving) /\ UNCHANGED manager
    BY <1>2 DEF Drop, Saving, calls, schedule
  <2> QED BY <1>2, <2>1, <2>2, Undisturbed
          DEF Drop, TokensInv, TypeOK, DeadGenerated, HandedOn, dhan, manager, http, calls, schedule
<1>3. CASE Revoke
  <2>1. newest \in 0 .. MaxToken /\ dead' = newest /\ expired' \in 0 .. newest /\ newest <= newest
    BY <1>3 DEF Revoke, TokensInv, TypeOK, DeadGenerated
  <2>2. (Saving' <=> Saving) /\ UNCHANGED manager
    BY <1>3 DEF Revoke, Saving, calls, schedule
  <2> QED BY <1>3, <2>1, <2>2, Undisturbed
          DEF Revoke, TokensInv, TypeOK, DeadGenerated, HandedOn, manager, http, calls, schedule, feeds
<1>4. CASE Tick
  <2>1. cool' \in 0 .. Cooldown /\ backoff' \in 0 .. Backoff
    BY <1>4, DhanTokensConfig DEF Tick, TokensInv, TypeOK, Least
  <2>2. now' \in [Caller -> 0 .. LongestWait]
    BY <1>4, DhanTokensConfig DEF Tick, TokensInv, TypeOK, Least, LongestWait
  <2>3. (Saving' <=> Saving) /\ UNCHANGED manager
    BY <1>4 DEF Tick, Saving, schedule
  <2> QED BY <1>4, <2>1, <2>2, <2>3, Undisturbed
          DEF Tick, TokensInv, TypeOK, DeadGenerated, HandedOn, dhan, manager, schedule, feeds
<1> QED BY <1>1, <1>2, <1>3, <1>4

\* The inductive invariant holds.
LEMMA Invariant == Spec => []TokensInv
<1>1. Init => TokensInv
  <2> SUFFICES ASSUME Init PROVE TokensInv
    OBVIOUS
  <2>1. /\ newest \in 1 .. MaxToken /\ 0 \in 0 .. newest /\ newest \in 0 .. newest
        /\ newest \in 1 .. newest /\ 0 \in 0 .. MaxToken /\ 0 \in 0 .. 0
        /\ 0 \in 0 .. LongestWait /\ Cooldown \in 0 .. Cooldown /\ 0 \in 0 .. Backoff
    BY DhanTokensConfig DEF Init, LongestWait
  <2>2. /\ Free \in Caller \cup {Scheduler, Free} /\ Free # Scheduler
        /\ \A c \in Caller : c # Free
    BY DhanTokensConfig
  <2>3. TypeOK
    BY <2>1, <2>2, DhanTokensConfig DEF Init, TypeOK, Inside, None
  <2>4. Written /\ DeadGenerated /\ HandedOn
    BY <2>1 DEF Init, Written, Settled, Saving, DeadGenerated, HandedOn, None
  <2> QED BY <2>3, <2>4 DEF TokensInv
<1>2. TokensInv /\ [Next]_vars => TokensInv'
  <2> SUFFICES ASSUME TokensInv, [Next]_vars PROVE TokensInv'
    OBVIOUS
  <2>1. CASE UNCHANGED vars
    <3>1. (Saving' <=> Saving) /\ UNCHANGED manager
      BY <2>1 DEF vars, Saving, calls, schedule
    <3> QED BY <2>1, <3>1, Undisturbed DEF vars, TokensInv, TypeOK, DeadGenerated, HandedOn,
                                           dhan, manager, http, calls, schedule, feeds
  <2>2. ASSUME NEW c \in Caller, Request(c) PROVE TokensInv'
    BY <2>2, OutsideStep, InsideStep DEF Request
  <2> QED BY <2>1, <2>2, RenewalStep, RestartStep, WorldStep DEF Next
<1> QED BY <1>1, <1>2, PTL DEF Spec

\* For any number of callers every variable keeps its type, and the refresh lock
\* belongs to the one caller or scheduler that is inside (_refresh_via_auth and
\* the scheduler of factory.py).
THEOREM Typed == Spec => []TypeOK
<1>1. TokensInv => TypeOK
  BY DEF TokensInv
<1> QED BY <1>1, Invariant, PTL

\* For any number of callers, tokens, failed saves and restarts: whenever nobody
\* is refreshing, the token in memory is the one in the store, unless its save
\* failed (AuthManager under the refresh lock).
THEOREM StoreAgreement == Spec => []StoreAgrees
<1>1. TokensInv => StoreAgrees
  <2> SUFFICES ASSUME TokensInv, lock = Free PROVE ~Saving
    BY DEF TokensInv, Written, Settled, StoreAgrees
  <2>1. TypeOK /\ Free # Scheduler /\ Free \notin Caller
    BY DhanTokensConfig DEF TokensInv
  <2> QED BY <2>1 DEF TypeOK, Saving, Inside
<1> QED BY <1>1, Invariant, PTL
===============================================================================
