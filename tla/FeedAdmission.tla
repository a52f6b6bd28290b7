----------------------------- MODULE FeedAdmission -----------------------------
(***************************************************************************)
(* MarketFeedConnectionAdmission: the processes of a host that trade on    *)
(* one Dhan account open one market feed between them.  The thread of a    *)
(* feed takes a lock of the host, waits out the cooldown that the last 429  *)
(* left in a file, and connects.  stop gives the lock up even when the      *)
(* thread is still in the socket after the time-out of the join.           *)
(***************************************************************************)
EXTENDS Integers

CONSTANTS Procs, None,
          MaxStreak   \* bound: consecutive 429s that are counted

VARIABLES lock,      \* who has the lock file
          held,      \* _lock_held
          feeds,     \* none, waiting, admitted, handshake, up
          ending,
          cooldown,  \* the file's time has not come
          filed,     \* streak in the file, 0 without one
          streak,    \* _consecutive_rate_limits
          left       \* processes whose stop left the thread in the socket

vars == <<lock, held, feeds, ending, cooldown, filed, streak, left>>
penalty == <<cooldown, filed, streak>>

TypeOK ==
  /\ lock \in Procs \cup {None}
  /\ held \in [Procs -> BOOLEAN] /\ ending \in [Procs -> BOOLEAN]
  /\ feeds \in [Procs -> {"none", "waiting", "admitted", "handshake", "up"}]
  /\ cooldown \in BOOLEAN /\ filed \in 0 .. MaxStreak
  /\ streak \in [Procs -> 0 .. MaxStreak]
  /\ left \subseteq Procs

Init ==
  /\ lock = None
  /\ held = [p \in Procs |-> FALSE] /\ ending = held
  /\ feeds = [p \in Procs |-> "none"]
  /\ cooldown = FALSE /\ filed = 0
  /\ streak = [p \in Procs |-> 0]
  /\ left = {}

At(p, here, there) == feeds[p] = here /\ feeds' = [feeds EXCEPT ![p] = there]

Start(p) ==
  /\ At(p, "none", "waiting")
  /\ ending' = [ending EXCEPT ![p] = FALSE]
  /\ UNCHANGED <<lock, held, penalty, left>>

\* Mutation: the lock is taken for granted.
AdmitUnlocked(p) ==
  /\ ~ending[p]
  /\ At(p, "waiting", "admitted")
  /\ held' = [held EXCEPT ![p] = TRUE]
  /\ lock' = IF held[p] THEN lock ELSE p
  /\ UNCHANGED <<ending, penalty, left>>

\* try_acquire, which tries for the file only when it holds nothing.
Admit(p) ==
  /\ ~ending[p]
  /\ held[p] \/ lock = None
  /\ At(p, "waiting", "admitted")
  /\ held' = [held EXCEPT ![p] = TRUE]
  /\ lock' = IF held[p] THEN lock ELSE p
  /\ UNCHANGED <<ending, penalty, left>>

CoolDown(p) ==
  /\ cooldown
  /\ At(p, "admitted", "waiting")
  /\ UNCHANGED <<lock, held, ending, penalty, left>>

Handshake(p) ==
  /\ ~cooldown
  /\ At(p, "admitted", "handshake")
  /\ UNCHANGED <<lock, held, ending, penalty, left>>

\* _on_connect: the feed's own count and the file go.
Connected(p) ==
  /\ At(p, "handshake", "up")
  /\ streak' = [streak EXCEPT ![p] = 0]
  /\ cooldown' = FALSE /\ filed' = 0
  /\ UNCHANGED <<lock, held, ending, left>>

Counted(p) == IF streak[p] < MaxStreak THEN streak[p] + 1 ELSE MaxStreak

RateLimited(p) ==
  /\ At(p, "handshake", "waiting")
  /\ streak' = [streak EXCEPT ![p] = Counted(p)]
  /\ cooldown' = TRUE /\ filed' = Counted(p)
  /\ UNCHANGED <<lock, held, ending, left>>

Lost(p) ==
  /\ At(p, "up", "waiting") \/ At(p, "handshake", "waiting")
  /\ UNCHANGED <<lock, held, ending, penalty, left>>

Free(p) ==
  /\ held' = [held EXCEPT ![p] = FALSE]
  /\ lock' = IF held[p] THEN None ELSE lock

\* The loop sees the event, and gives up what it holds.
End(p) ==
  /\ ending[p] /\ At(p, "waiting", "none")
  /\ Free(p) /\ left' = left \ {p}
  /\ UNCHANGED <<ending, penalty>>

\* The join is over, or has taken too long.
Stop(p) ==
  /\ feeds[p] # "none"
  /\ ending' = [ending EXCEPT ![p] = TRUE]
  /\ \/ UNCHANGED <<lock, held, left>>
     \/ Free(p) /\ left' = left \cup {p}
  /\ UNCHANGED <<feeds, penalty>>

\* The host frees a dead process's lock; a new one reads the streak, or finds
\* it too old.
Restart(p) ==
  /\ feeds' = [feeds EXCEPT ![p] = "none"]
  /\ Free(p) /\ left' = left \ {p}
  /\ \E n \in {0, filed} : streak' = [streak EXCEPT ![p] = n]
  /\ UNCHANGED <<ending, cooldown, filed>>

Elapse ==
  /\ cooldown
  /\ cooldown' = FALSE
  /\ UNCHANGED <<lock, held, feeds, ending, filed, streak, left>>

Next ==
  \/ Elapse
  \/ \E p \in Procs : \/ Start(p) \/ Admit(p) \/ CoolDown(p) \/ Handshake(p)
                      \/ Connected(p) \/ RateLimited(p) \/ Lost(p)
                      \/ End(p) \/ Stop(p) \/ Restart(p)

Spec == Init /\ [][Next]_vars

Socket(p) == feeds[p] \in {"admitted", "handshake", "up"}

\* Of all processes one is connecting or connected, through crashes, cooldowns
\* and reconnects, unless a stop did not wait for its thread.
OneFeed ==
  \A p, q \in Procs \ left : p # q => ~(Socket(p) /\ Socket(q))
===============================================================================
