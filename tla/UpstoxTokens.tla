----------------------------- MODULE UpstoxTokens -----------------------------
(***************************************************************************)
(* UpstoxTokenManager: threads send requests with its token and refresh it *)
(* before it expires or when Upstox refuses it, the daily scheduler         *)
(* refreshes it, a webhook delivers a new one.  One thread leads a refresh, *)
(* the others wait for it.  In TOTP mode a refresh is a login, at most one  *)
(* per cooldown, which falls back to the token of the settings when they    *)
(* have a refresh token too; otherwise it spends the OAuth refresh token.   *)
(*                                                                         *)
(* The snapshot (_state), the holder that requests take the token from, and *)
(* the file are separate: an OAuth refresh, the fallback and the load of    *)
(* the file write them one after the other, without the lock under which    *)
(* the webhook and the login write them.                                    *)
(***************************************************************************)
EXTENDS Integers

CONSTANTS Threads, MaxTokens   \* bound: tokens issued

VARIABLES totp,      \* mode
          snapshot, holder, stored,  \* tokens, by order of issue; the settings' is 1
          origin,    \* whether the holder's token was new when it came
          life,      \* of each token: 2 fresh, 1 inside the buffer, 0 expired
          revoked,   \* tokens that Upstox no longer takes
          issued, cooling,
          threads,
          crossed    \* a webhook wrote between the last refresh's writes

vars == <<totp, snapshot, holder, stored, origin, life, revoked, issued, cooling,
          threads, crossed>>
kept == <<snapshot, holder, stored, origin>>

Tokens == 1 .. MaxTokens
Idle == [at |-> "idle", why |-> "send", second |-> FALSE, token |-> 1, refused |-> 0,
         outcome |-> "none", source |-> "new"]
Steps == {"idle", "ready", "sent", "leads", "follows", "holding", "saving", "released"}
\* A leader's token is new from Upstox, or from the file, or from the settings.
Sources == {"new", "file", "settings"}
\* A retry after the refresh of a new token has a promise; "old": it has none.
Outcomes == {"none", "new", "old"}

TypeOK ==
  /\ totp \in BOOLEAN /\ cooling \in BOOLEAN /\ crossed \in BOOLEAN
  /\ snapshot \in Tokens /\ holder \in Tokens /\ stored \in Tokens /\ origin \in {"new", "old"}
  /\ life \in [Tokens -> 0 .. 2] /\ revoked \subseteq Tokens
  /\ issued \in Tokens
  /\ threads \in [Threads -> [at : Steps, why : {"send", "401", "scheduler"},
                              second : BOOLEAN, token : Tokens,
                              refused : 0 .. MaxTokens, outcome : Outcomes,
                              source : Sources]]

\* After bootstrap() with a token that is valid.
Init ==
  /\ totp \in BOOLEAN
  /\ issued = 1 /\ snapshot = 1 /\ holder = 1 /\ stored = 1 /\ origin = "new"
  /\ life = [t \in Tokens |-> 2] /\ revoked = {}
  /\ cooling = FALSE
  /\ threads = [t \in Threads |-> Idle]
  /\ crossed = FALSE

Leading == {"leads", "holding", "saving"}
Leaders == {t \in Threads : threads[t].at \in Leading}
New == issued + 1

(***************************************************************************)
(* Requests: UpstoxHttpClient takes the token through bearer_token, which  *)
(* refreshes one that is about to expire; a refusal is retried once.       *)
(***************************************************************************)
\* The leader has written its token, and this or a later one is what was refused.
Late(t) == \E l \in Leaders : threads[l].at # "leads" /\ threads[t].token >= threads[l].token

\* _run_exclusive_refresh: lead, or wait for the leader.
Enter(t, why) ==
  LET th == [threads[t] EXCEPT !.at = IF Leaders = {} THEN "leads" ELSE "follows",
                               !.why = why, !.second = threads[t].at = "ready",
                               !.token = 1]
  IN  threads' = [threads EXCEPT ![t] =
        IF why # "401" THEN th
        ELSE IF Late(t) THEN [th EXCEPT !.outcome = "old", !.refused = 0]
        ELSE [th EXCEPT !.outcome = "none", !.refused = threads[t].token]]

\* A request takes the token of the holder; a retry notes when it is an old one.
With(th) ==
  [th EXCEPT !.at = "sent", !.token = holder,
             !.outcome = IF @ = "new" THEN origin ELSE @,
             !.refused = IF origin = "new" THEN @ ELSE 0]

Send(t) ==
  /\ threads[t].at \in {"idle", "ready"} /\ life[snapshot] = 2
  /\ threads' = [threads EXCEPT ![t] = [With(@) EXCEPT !.second = threads[t].at = "ready"]]
  /\ UNCHANGED <<totp, kept, life, revoked, issued, cooling, crossed>>

RefreshFirst(t) ==
  /\ threads[t].at \in {"idle", "ready"} /\ life[snapshot] < 2
  /\ Enter(t, "send")
  /\ UNCHANGED <<totp, kept, life, revoked, issued, cooling, crossed>>

\* Bearer token after a proactive refresh.
Take(t) ==
  /\ threads[t].at = "released"
  /\ threads' = [threads EXCEPT ![t] = With(@)]
  /\ UNCHANGED <<totp, kept, life, revoked, issued, cooling, crossed>>

Served(t) ==
  /\ threads[t].at = "sent"
  /\ threads[t].token \notin revoked \/ threads[t].second
  /\ threads' = [threads EXCEPT ![t] = Idle]
  /\ UNCHANGED <<totp, kept, life, revoked, issued, cooling, crossed>>

Refused(t) ==
  /\ threads[t].at = "sent" /\ threads[t].token \in revoked /\ ~threads[t].second
  /\ Enter(t, "401")
  /\ UNCHANGED <<totp, kept, life, revoked, issued, cooling, crossed>>

\* UpstoxTotpRefreshScheduler._do_refresh leaves a TOTP token that lasts alone.
Scheduled(t) ==
  /\ threads[t].at = "idle" /\ (totp => life[snapshot] < 2)
  /\ Enter(t, "scheduler")
  /\ UNCHANGED <<totp, kept, life, revoked, issued, cooling, crossed>>

(***************************************************************************)
(* A refresh                                                               *)
(***************************************************************************)
\* What the end of a refresh makes of a thread: a retry has a promise when the
\* leader got a new token and the thread was not late. try_refresh_on_401 sees no
\* failure when another thread led, and returns whether there is a token.
After(th, led, outcome) ==
  LET new == outcome = "new" /\ th.outcome = "none"
  IN  IF (led /\ outcome = "failed") \/ th.why = "scheduler" THEN Idle
      ELSE IF th.why = "send"
      THEN [th EXCEPT !.at = "released", !.source = "new", !.token = 1]
      ELSE [Idle EXCEPT !.at = "ready", !.outcome = IF new THEN "new" ELSE "old",
                        !.refused = IF new THEN th.refused ELSE 0]

End(l, outcome) ==
  threads' = [t \in Threads |->
    IF t = l \/ threads[t].at = "follows" THEN After(threads[t], t = l, outcome)
    ELSE threads[t]]

\* try_refresh_on_401 in TOTP mode is bootstrap again: the snapshot will do
\* while it has not expired, else the file, and only then a login.
Reuse(l) ==
  /\ threads[l].at = "leads" /\ totp /\ threads[l].why = "401" /\ life[snapshot] > 0
  /\ End(l, "old")
  /\ UNCHANGED <<totp, kept, life, revoked, issued, cooling, crossed>>

\* The snapshot takes a token; the holder is told next, the file after that.
Bring(l, tk, from) ==
  /\ snapshot' = tk /\ crossed' = FALSE
  /\ threads' = [threads EXCEPT ![l] = [@ EXCEPT !.at = "holding", !.token = tk,
                                                 !.source = from]]

Load(l) ==
  /\ threads[l].at = "leads" /\ totp /\ threads[l].why = "401"
  /\ life[snapshot] = 0 /\ life[stored] > 0
  /\ Bring(l, stored, "file")
  /\ UNCHANGED <<totp, holder, stored, origin, life, revoked, issued, cooling>>

\* A login writes everything under the lock.
Login(l) ==
  /\ threads[l].at = "leads" /\ totp
  /\ threads[l].why = "401" => life[snapshot] = 0 /\ life[stored] = 0
  /\ ~cooling /\ New \in Tokens
  /\ issued' = New /\ cooling' = TRUE /\ crossed' = FALSE
  /\ snapshot' = New /\ holder' = New /\ stored' \in {New, stored} /\ origin' = "new"
  /\ End(l, "new")
  /\ UNCHANGED <<totp, life, revoked>>

\* A login that fails, or comes within the cooldown, raises, or falls back to
\* _acquire_initial: the access token of the settings, whatever its age.
LoginFails(l) ==
  /\ threads[l].at = "leads" /\ totp
  /\ threads[l].why = "401" => life[snapshot] = 0 /\ life[stored] = 0
  /\ cooling' = TRUE
  /\ \/ End(l, "failed") /\ UNCHANGED <<snapshot, crossed>>
     \/ Bring(l, 1, "settings")
  /\ UNCHANGED <<totp, holder, stored, origin, life, revoked, issued>>

\* _refresh_now
RefreshNow(l) ==
  /\ threads[l].at = "leads" /\ ~totp
  /\ \/ New \in Tokens /\ issued' = New /\ Bring(l, New, "new")
     \/ End(l, "failed") /\ UNCHANGED <<issued, snapshot, crossed>>
  /\ UNCHANGED <<totp, holder, stored, origin, life, revoked, cooling>>

\* Mutation: the refresh is over before requests see the token.
HoldNothing(l) ==
  /\ threads[l].at = "holding"
  /\ threads' = [threads EXCEPT ![l].at = "saving"]
  /\ UNCHANGED <<totp, kept, life, revoked, issued, cooling, crossed>>

\* The holder is told; a token of the file need not be saved.
Hold(l) ==
  /\ threads[l].at = "holding"
  /\ holder' = threads[l].token
  /\ origin' = IF threads[l].source = "new" THEN "new" ELSE "old"
  /\ IF threads[l].source = "file" THEN End(l, "old")
     ELSE threads' = [threads EXCEPT ![l].at = "saving"]
  /\ UNCHANGED <<totp, snapshot, stored, life, revoked, issued, cooling, crossed>>

\* _persist passes over an error of the file.
Save(l) ==
  /\ threads[l].at = "saving"
  /\ stored' \in {threads[l].token, stored}
  /\ End(l, IF threads[l].source = "new" THEN "new" ELSE "old")
  /\ UNCHANGED <<totp, snapshot, holder, origin, life, revoked, issued, cooling, crossed>>

\* A follower waits _REFRESH_WAIT_SECONDS at most.
GiveUpWaiting(t) ==
  /\ threads[t].at = "follows"
  /\ threads' = [threads EXCEPT ![t] = After(threads[t], FALSE, "old")]
  /\ UNCHANGED <<totp, kept, life, revoked, issued, cooling, crossed>>

\* upgrade_from_webhook, under the lock; one that does not expire later than the
\* snapshot changes nothing.
Webhook ==
  /\ New \in Tokens
  /\ issued' = New
  /\ snapshot' = New /\ holder' = New /\ stored' \in {New, stored} /\ origin' = "new"
  /\ crossed' \in BOOLEAN /\ (crossed' <=> \E l \in Threads : threads[l].at = "holding")
  /\ UNCHANGED <<totp, life, revoked, cooling, threads>>

(***************************************************************************)
(* The world                                                               *)
(***************************************************************************)
\* A token that is issued later does not expire earlier.
Ages(tk) ==
  /\ tk <= issued /\ life[tk] > 0
  /\ \A u \in 1 .. tk - 1 : life[u] < life[tk]
  /\ life' = [life EXCEPT ![tk] = @ - 1]
  /\ revoked' = IF life[tk] = 1 THEN revoked \union {tk} ELSE revoked
  /\ UNCHANGED <<totp, kept, issued, cooling, threads, crossed>>

Revoke(tk) ==
  /\ tk <= issued /\ tk \notin revoked
  /\ revoked' = revoked \union {tk}
  /\ UNCHANGED <<totp, kept, life, issued, cooling, threads, crossed>>

CooldownEnds ==
  /\ cooling /\ cooling' = FALSE
  /\ UNCHANGED <<totp, kept, life, revoked, issued, threads, crossed>>

\* A restart boots from the file while its token lasts (else from the settings,
\* which is the beginning again).
Restart ==
  /\ life[stored] > 0
  /\ snapshot' = stored /\ holder' = stored /\ origin' = "new"
  /\ threads' = [t \in Threads |-> Idle]
  /\ crossed' = FALSE
  /\ UNCHANGED <<totp, stored, life, revoked, issued, cooling>>

Next ==
  \/ \E t \in Threads :
       \/ Send(t) \/ RefreshFirst(t) \/ Take(t) \/ Served(t) \/ Refused(t)
       \/ Scheduled(t) \/ GiveUpWaiting(t)
       \/ Reuse(t) \/ Load(t) \/ Login(t) \/ LoginFails(t) \/ RefreshNow(t)
       \/ Hold(t) \/ Save(t)
  \/ Webhook \/ CooldownEnds \/ Restart
  \/ \E tk \in Tokens : Ages(tk) \/ Revoke(tk)

Spec == Init /\ [][Next]_vars

(***************************************************************************)
(* Properties                                                              *)
(***************************************************************************)
\* A request that is retried because a refresh got a new token carries another
\* one than the one refused, whoever led the refresh, and whatever refreshes and
\* webhooks came in between; not so a token that the file or the settings put
\* back. Nothing is promised when the leader had none: in TOTP mode the snapshot
\* had not expired, or the file or the settings had a token; it failed, or took
\* too long, of which a follower hears nothing; or the token that was refused is
\* the one it had just written, or later.
RetryHasNewToken ==
  \A t \in Threads :
    LET th == threads[t]
    IN  th.at = "sent" /\ th.second /\ th.outcome = "new" => th.token # th.refused

\* Requests take the token of the snapshot, by which expiry is judged, whenever
\* no refresh is storing one, unless a webhook came between the writes of the
\* last refresh: the next refresh, login or webhook brings them together again.
HolderAgrees ==
  (\A t \in Threads : threads[t].at # "holding") /\ ~crossed => holder = snapshot

\* The token of a refresh reaches those who send: the retry of a request that
\* Upstox refused, and every later one.
RefreshReachesRequests == RetryHasNewToken /\ HolderAgrees
===============================================================================
