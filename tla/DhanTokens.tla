------------------------------ MODULE DhanTokens ------------------------------
(***************************************************************************)
(* The life of an access token in a Dhan connection: the requests of       *)
(* http_client.py that are rejected and refresh it, the scheduler of       *)
(* token_scheduler.py that renews it when it has expired, AuthManager and  *)
(* its store (common/auth/token.py), and the sockets that were opened with *)
(* it (websocket/market_feed.py, depth_feed_base.py).                      *)
(*                                                                         *)
(* Tokens are numbered in the order Dhan generated them.  Dhan rejects the *)
(* tokens up to dead, because they expired, were revoked, or were replaced *)
(* by a newer one; of these the process can tell by their expiry times     *)
(* that the tokens up to expired are no longer valid.                      *)
(*                                                                         *)
(* Sockets: the market feed, whose context asks the HTTP client for the    *)
(* token (access_token_fn of factory.py), and a depth feed, which keeps a  *)
(* copy.  Dhan closes a socket whose token died.                           *)
(*                                                                         *)
(* A token is taken over in memory first and written to the store then;    *)
(* the write may fail, and the process may die at any point and be started *)
(* anew from what the store and the environment file hold.                 *)
(***************************************************************************)
EXTENDS Integers

CONSTANTS
    Caller,         \* threads that send HTTP requests
    Scheduler,      \* the owner of the lock while the scheduler holds it
    Free,           \* the owner of the lock while nobody does
    Cooldown,       \* DhanTokenConfig.refresh_cooldown_seconds, in ticks
    Backoff,        \* DhanTokenConfig.rate_limit_backoff_seconds, in ticks
    MaxToken,       \* tokens Dhan generates in the model
    MaxDead,        \* how many tokens die: the broker then leaves the rest alone
    MaxFailures     \* writes of the store that fail and restarts, together

ASSUME DhanTokensConfig ==
    /\ Scheduler \notin Caller /\ Free \notin Caller /\ Scheduler # Free
    /\ Cooldown \in Nat /\ Backoff \in Nat
    /\ MaxToken \in Nat \ {0, 1} /\ MaxDead \in Nat /\ MaxDead < MaxToken
    /\ MaxFailures \in Nat

None == 0       \* no token, or a socket that is down

VARIABLES
    newest,     \* the last token Dhan generated
    dead,       \* Dhan rejects the tokens up to this one
    expired,    \* TokenState.is_valid() is false up to this one
    auth,       \* AuthManager._state
    store,      \* the JSON token store, None also when its file is torn
    unsaved,    \* history: tokens whose write to the store failed or was cut off
    failures,   \* failed writes and restarts so far
    lock,       \* the refresh lock of factory.py
    client,     \* DhanHttpClient.access_token
    cool,       \* ticks since _last_refresh_time, up to Cooldown
    backoff,    \* ticks left until _refresh_backoff_until
    pc,         \* where each caller stands in its request
    token,      \* the token its request carries, later the one it was handed
    now,        \* ticks since it read the clock in _try_refresh_token
    task,       \* where the scheduler stands in _do_refresh
    fresh,      \* the token it obtained
    copy,       \* BinaryDepthFeed._access_token
    live        \* the token each socket was opened with, None when it is down

dhan == <<newest, dead, expired>>
manager == <<auth, store, unsaved, failures>>
http == <<client, cool, backoff>>
calls == <<pc, token, now>>
schedule == <<task, fresh>>
feeds == <<copy, live>>
vars == <<dhan, manager, lock, http, calls, schedule, feeds>>

Socket == {"market", "depth"}
LongestWait == IF Cooldown > Backoff THEN Cooldown ELSE Backoff
Least(a, b) == IF a < b THEN a ELSE b

\* The factory starts from the token of the environment, with nothing in the
\* store or what an earlier process left there, or from AuthManager.acquire().
Init ==
    /\ newest \in 1..2
    /\ dead = 0 /\ expired = 0
    /\ client = newest
    /\ \/ auth = newest /\ store = newest
       \/ auth = None /\ store \in 0..newest
    /\ unsaved = {} /\ failures = 0
    /\ lock = Free
    /\ cool = Cooldown /\ backoff = 0
    /\ pc = [c \in Caller |-> "idle"]
    /\ token = [c \in Caller |-> None]
    /\ now = [c \in Caller |-> 0]
    /\ task = "idle" /\ fresh = None
    /\ copy = newest
    /\ live = [s \in Socket |-> None]

Valid(t) == t # None /\ t > expired

Goto(c, l) == pc' = [pc EXCEPT ![c] = l]

\* Dhan generates a token; the ones before it may die at once.
Generate ==
    /\ newest < MaxToken
    /\ newest' = newest + 1
    /\ dead' \in {dead, newest}
    /\ UNCHANGED expired

\* AuthManager generated a token: it is in memory, the store not yet written.
Adopt(t) == auth' = t /\ UNCHANGED <<store, unsaved, failures>>

\* TokenStateStore.save of the state.
Save == store' = auth /\ UNCHANGED <<auth, unsaved, failures>>

MayFail == failures < MaxFailures /\ newest < MaxToken

\* It raises: the file was not opened, or was truncated and then not written.
SaveRaises ==
    /\ MayFail
    /\ failures' = failures + 1
    /\ unsaved' = unsaved \cup {auth}
    /\ store' \in {store, None}
    /\ UNCHANGED auth

\* acquire() takes the token of the store, which it does not write again.
Recall == auth' = store /\ UNCHANGED <<store, unsaved, failures>>

-----------------------------------------------------------------------------
(* Requests: DhanHttpClient._request and _try_refresh_token *)

\* A request leaves with the client's token.
Send(c) ==
    /\ pc[c] = "idle"
    /\ Goto(c, "sent")
    /\ token' = [token EXCEPT ![c] = client]
    /\ UNCHANGED <<dhan, manager, lock, http, now, schedule, feeds>>

Rejected(c) == pc[c] = "sent" /\ token[c] <= dead

MayRefresh == backoff = 0 /\ cool >= Cooldown

\* It is answered, or rejected while no refresh is allowed: AuthenticationError.
Done(c) ==
    /\ pc[c] = "sent"
    /\ Rejected(c) => ~MayRefresh
    /\ Goto(c, "idle")
    /\ UNCHANGED <<dhan, manager, lock, http, token, now, schedule, feeds>>

\* It is rejected (401, DH-906, DH-808): call the refresh function.
Refresh(c) ==
    /\ Rejected(c)
    /\ MayRefresh
    /\ Goto(c, "waiting")
    /\ now' = [now EXCEPT ![c] = 0]
    /\ UNCHANGED <<dhan, manager, lock, http, token, schedule, feeds>>

\* The refresh returned None: back off from the time the attempt began.
BackOff(c) ==
    /\ backoff' = IF Backoff > now[c] THEN Backoff - now[c] ELSE 0
    /\ UNCHANGED <<client, cool>>

\* _refresh_via_auth waits for the lock, for five seconds at most.
LockTimeout(c) ==
    /\ pc[c] = "waiting"
    /\ lock # Free
    /\ Goto(c, "idle")
    /\ BackOff(c)
    /\ UNCHANGED <<dhan, manager, lock, token, now, schedule, feeds>>

\* Mutation: going on although the lock was not acquired in time.
TakeLockAnyway(c) ==
    /\ pc[c] = "waiting"
    /\ lock' = c
    /\ Goto(c, "holding")
    /\ UNCHANGED <<dhan, manager, http, token, now, schedule, feeds>>

TakeLock(c) ==
    /\ pc[c] = "waiting"
    /\ lock = Free
    /\ lock' = c
    /\ Goto(c, "holding")
    /\ UNCHANGED <<dhan, manager, http, token, now, schedule, feeds>>

\* c is inside the lock and hands t to the request that waits for it, after the
\* best-effort update of the environment file.
HandOver(c, t) ==
    /\ token' = [token EXCEPT ![c] = t]
    /\ lock' = Free
    /\ Goto(c, "applying")

\* force_refresh() generates a token ...
Renew(c) ==
    /\ pc[c] = "holding"
    /\ Generate
    /\ Adopt(newest + 1)
    /\ Goto(c, "saving")
    /\ UNCHANGED <<lock, http, token, now, schedule, feeds>>

\* ... and saves it ...
SaveRenewed(c) ==
    /\ pc[c] = "saving"
    /\ Save
    /\ HandOver(c, auth)
    /\ UNCHANGED <<dhan, http, now, schedule, feeds>>

\* ... or cannot: _do_refresh swallows the exception and answers as if nothing
\* had been generated.
RenewedUnsaved(c) ==
    /\ pc[c] = "saving"
    /\ SaveRaises
    /\ Goto(c, "reloading")
    /\ UNCHANGED <<dhan, lock, http, token, now, schedule, feeds>>

Refused(c) == pc[c] \in {"holding", "reloading"}

\* force_refresh() failed and acquire() finds an unexpired token in the store,
\* be it the very token that was rejected, or one older than that in memory ...
Reload(c) ==
    /\ Refused(c)
    /\ Valid(store)
    /\ Recall
    /\ HandOver(c, store)
    /\ UNCHANGED <<dhan, http, now, schedule, feeds>>

\* ... or, without one, generates a token itself, and saves it too ...
Reacquire(c) ==
    /\ Refused(c)
    /\ ~Valid(store)
    /\ Generate
    /\ Adopt(newest + 1)
    /\ Goto(c, "resaving")
    /\ UNCHANGED <<lock, http, token, now, schedule, feeds>>

SaveReacquired(c) ==
    /\ pc[c] = "resaving"
    /\ Save
    /\ HandOver(c, auth)
    /\ UNCHANGED <<dhan, http, now, schedule, feeds>>

\* ... but here the exception of save reaches the request: no token, no backoff.
ReacquiredUnsaved(c) ==
    /\ pc[c] = "resaving"
    /\ SaveRaises
    /\ lock' = Free
    /\ Goto(c, "idle")
    /\ UNCHANGED <<dhan, http, token, now, schedule, feeds>>

\* Both failed: with None or a rate-limit error there is a backoff, with any
\* other exception there is none.
RefreshFails(c) ==
    /\ Refused(c)
    /\ ~Valid(store)
    /\ lock' = Free
    /\ Goto(c, "idle")
    /\ BackOff(c) \/ UNCHANGED http
    /\ UNCHANGED <<dhan, manager, token, now, schedule, feeds>>

\* Mutation: the client is not given the token it was refreshed for.
ApplyNowhere(c) ==
    /\ pc[c] = "applying"
    /\ cool' = Least(now[c], Cooldown)
    /\ backoff' = 0
    /\ Goto(c, "idle")
    /\ UNCHANGED <<dhan, manager, lock, client, token, now, schedule, feeds>>

\* Back in _try_refresh_token, the lock released: stamp the cooldown with the
\* time read at the beginning, install the token, clear the backoff.  The
\* request goes out again; it may not refresh a second time, so its outcome
\* changes nothing here.
Apply(c) ==
    /\ pc[c] = "applying"
    /\ client' = token[c]
    /\ cool' = Least(now[c], Cooldown)
    /\ backoff' = 0
    /\ Goto(c, "idle")
    /\ UNCHANGED <<dhan, manager, lock, token, now, schedule, feeds>>

-----------------------------------------------------------------------------
(* TokenRefreshScheduler._do_refresh *)

\* Outside its own backoff, with the lock free and no valid token in memory.
Begin ==
    /\ task = "idle"
    /\ lock = Free
    /\ ~Valid(auth)
    /\ lock' = Scheduler
    /\ task' = "holding"
    /\ UNCHANGED <<dhan, manager, http, calls, fresh, feeds>>

\* acquire() finds a valid token in the store: on_refresh is next, unless it is
\* the one that was there before ...
Load ==
    /\ task = "holding"
    /\ Valid(store)
    /\ Recall
    /\ IF store = auth
       THEN lock' = Free /\ task' = "idle" /\ UNCHANGED fresh
       ELSE task' = "installing" /\ fresh' = store /\ UNCHANGED lock
    /\ UNCHANGED <<dhan, http, calls, feeds>>

\* ... or generates one ...
Acquire ==
    /\ task = "holding"
    /\ ~Valid(store)
    /\ Generate
    /\ Adopt(newest + 1)
    /\ task' = "saving"
    /\ UNCHANGED <<lock, http, calls, fresh, feeds>>

SaveAcquired ==
    /\ task = "saving"
    /\ Save
    /\ task' = "installing" /\ fresh' = auth
    /\ UNCHANGED <<dhan, lock, http, calls, feeds>>

\* ... which nobody is told of when it cannot be saved ...
AcquiredUnsaved ==
    /\ task = "saving"
    /\ SaveRaises
    /\ lock' = Free /\ task' = "idle"
    /\ UNCHANGED <<dhan, http, calls, fresh, feeds>>

\* ... or fails.
AcquireFails ==
    /\ task = "holding"
    /\ ~Valid(store)
    /\ lock' = Free
    /\ task' = "idle"
    /\ UNCHANGED <<dhan, manager, http, calls, fresh, feeds>>

\* on_refresh, first half: the HTTP client.
Install ==
    /\ task = "installing"
    /\ client' = fresh
    /\ task' = "broadcasting"
    /\ UNCHANGED <<dhan, manager, lock, cool, backoff, calls, fresh, feeds>>

\* update_token of a receiver that does not hold the token yet: take it over
\* and close the socket, so that it reconnects with the new token.
Closed(s) == IF s = "market" THEN client # fresh ELSE copy # fresh

\* on_refresh, second half: broadcast_token.
Broadcast ==
    /\ task = "broadcasting"
    /\ copy' = fresh
    /\ live' = [s \in Socket |-> IF Closed(s) THEN None ELSE live[s]]
    /\ lock' = Free
    /\ task' = "idle"
    /\ UNCHANGED <<dhan, manager, http, calls, fresh>>

-----------------------------------------------------------------------------
(* Sockets, broker and clock *)

\* The token a socket is opened with.
Credential(s) == IF s = "market" THEN client ELSE copy

\* Mutation: the market feed reconnects with the token it was built with.
ConnectWithCopy(s) ==
    /\ live[s] = None
    /\ copy > dead
    /\ live' = [live EXCEPT ![s] = copy]
    /\ UNCHANGED <<dhan, manager, lock, http, calls, schedule, copy>>

\* The reconnect loop gets through.
Connect(s) ==
    /\ live[s] = None
    /\ Credential(s) > dead
    /\ live' = [live EXCEPT ![s] = Credential(s)]
    /\ UNCHANGED <<dhan, manager, lock, http, calls, schedule, copy>>

\* The socket is closed by Dhan or by the network.
Drop(s) ==
    /\ live[s] # None
    /\ live' = [live EXCEPT ![s] = None]
    /\ UNCHANGED <<dhan, manager, lock, http, calls, schedule, copy>>

\* Every token so far dies: revoked by Dhan, or at the end of the session.
Revoke ==
    /\ newest <= MaxDead
    /\ dead' = newest
    /\ expired' \in {expired, newest}
    /\ UNCHANGED <<newest, manager, lock, http, calls, schedule, feeds>>

\* acquire() or _do_refresh has a token in memory that is not in the store yet.
Saving == task = "saving" \/ \E c \in Caller : pc[c] \in {"saving", "resaving"}

\* What the store holds of the process that dies: a write may be cut off.
Left == IF Saving THEN {store, None} ELSE {store}

\* The process dies and another one starts: from the token in the environment
\* file, whose updates may have failed at any time, or without one from
\* acquire(), that is from the store or with a new token.
Restart ==
    /\ MayFail
    /\ failures' = failures + 1
    /\ unsaved' = IF Saving THEN unsaved \cup {auth} ELSE unsaved
    /\ \E s \in Left :
          \/ auth' = None /\ store' = s /\ UNCHANGED dhan
             /\ client' \in 1..newest \ unsaved'
          \/ Valid(s) /\ auth' = s /\ store' = s /\ client' = s /\ UNCHANGED dhan
          \/ /\ ~Valid(s) /\ Generate
             /\ auth' = newest + 1 /\ store' = newest + 1 /\ client' = newest + 1
    /\ lock' = Free
    /\ cool' = Cooldown /\ backoff' = 0
    /\ pc' = [c \in Caller |-> "idle"]
    /\ token' = [c \in Caller |-> None]
    /\ now' = [c \in Caller |-> 0]
    /\ task' = "idle" /\ fresh' = None
    /\ copy' = client'
    /\ live' = [s \in Socket |-> None]

Inside == {"holding", "saving", "reloading", "resaving"}

Tick ==
    /\ cool' = Least(cool + 1, Cooldown)
    /\ backoff' = IF backoff > 0 THEN backoff - 1 ELSE 0
    /\ now' = [c \in Caller |-> IF pc[c] \in Inside \cup {"waiting", "applying"}
                                THEN Least(now[c] + 1, LongestWait) ELSE now[c]]
    /\ UNCHANGED <<dhan, manager, lock, client, pc, token, schedule, feeds>>

Request(c) ==
    \/ Send(c)
    \/ Done(c)
    \/ Refresh(c)
    \/ LockTimeout(c)
    \/ TakeLock(c)
    \/ Renew(c)
    \/ SaveRenewed(c)
    \/ RenewedUnsaved(c)
    \/ Reload(c)
    \/ Reacquire(c)
    \/ SaveReacquired(c)
    \/ ReacquiredUnsaved(c)
    \/ RefreshFails(c)
    \/ Apply(c)

Renewal ==
    \/ Begin \/ Load \/ Acquire \/ SaveAcquired \/ AcquiredUnsaved \/ AcquireFails
    \/ Install \/ Broadcast

Next ==
    \/ \E c \in Caller : Request(c)
    \/ Renewal
    \/ \E s \in Socket : Connect(s) \/ Drop(s)
    \/ Revoke
    \/ Restart
    \/ Tick

Spec == Init /\ [][Next]_vars

\* Callers keep sending requests, threads keep running, time passes; a token is
\* granted to those who keep asking; Dhan closes sockets whose token is dead.
FairSpec ==
    /\ Spec
    /\ WF_vars(Tick)
    /\ WF_vars(Renewal) /\ SF_vars(Acquire)
    /\ \A c \in Caller : WF_vars(Request(c)) /\ SF_vars(Renew(c)) /\ SF_vars(Refresh(c))
    /\ \A s \in Socket : WF_vars(Connect(s)) /\ WF_vars(live[s] <= dead /\ Drop(s))

-----------------------------------------------------------------------------
(* Properties *)

\* Every variable keeps its type, and the lock belongs to whoever is inside.
TypeOK ==
    /\ newest \in 1..MaxToken
    /\ dead \in 0..MaxToken /\ expired \in 0..dead
    /\ auth \in 0..newest /\ store \in 0..newest
    /\ unsaved \subseteq 0..newest /\ failures \in 0..MaxFailures
    /\ lock \in Caller \cup {Scheduler, Free}
    /\ client \in 1..newest
    /\ cool \in 0..Cooldown /\ backoff \in 0..Backoff
    /\ pc \in [Caller -> Inside \cup {"idle", "sent", "waiting", "applying"}]
    /\ \A c \in Caller : pc[c] \in Inside <=> lock = c
    /\ token \in [Caller -> 0..newest]
    /\ now \in [Caller -> 0..LongestWait]
    /\ task \in {"idle", "holding", "saving", "installing", "broadcasting"}
    /\ task # "idle" <=> lock = Scheduler
    /\ fresh \in 0..newest
    /\ copy \in 1..newest
    /\ live \in [Socket -> 0..newest]

\* Whenever nobody is refreshing, the token in memory is the one in the store,
\* so that a restart resumes with it, however requests, the scheduler and
\* restarts take turns between the change of the state and its save; the
\* exception is a token whose save was seen to fail (AuthManager).
StoreAgrees == lock = Free /\ auth \notin unsaved \cup {None} => auth = store

\* As long as requests are sent, the client again and again holds a token that
\* Dhan accepts, however refreshes race, time out, fail and back off.
ClientRecovers == []<>(client > dead)

\* The market feed again and again is up with a token that Dhan accepts.
MarketRecovers == []<>(live["market"] > dead)

=============================================================================
