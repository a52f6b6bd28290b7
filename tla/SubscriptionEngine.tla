-------------------------- MODULE SubscriptionEngine --------------------------
(***************************************************************************)
(* SubscriptionEngine (brokers/dhan/subscription_engine.py) over           *)
(* DhanMarketFeed (brokers/dhan/websocket/market_feed.py): consumers share *)
(* the instruments of one feed, whose thread connects, replays what is     *)
(* subscribed and connects again.  The SDK and Dhan are external: a        *)
(* connected SDK feed first asks for the instruments it was built with,    *)
(* and run() returns when the feed was closed or has reported an error.    *)
(*                                                                         *)
(* A consumer is a stream handle of the gateway adapter: a callback of its *)
(* own, one call of stream per instrument and one of unstream.  Admission, *)
(* cooldown and backoff are time that passes in the thread's "check".      *)
(***************************************************************************)
EXTENDS Integers, FiniteSets

CONSTANTS
    Consumer,
    Line,           \* what is asked for: pairs <<instrument, mode>>
    None,
    MaxInstruments  \* MAX_INSTRUMENTS, a limit on lines

Instrument == {l[1] : l \in Line}
Mode == {l[2] : l \in Line}

ASSUME SubscriptionAssumption ==
    /\ Line \subseteq Instrument \X Mode
    /\ None \notin Mode /\ \A L \in SUBSET Line : L # None
    /\ IsFiniteSet(Consumer) /\ IsFiniteSet(Line)
    /\ MaxInstruments \in Nat

VARIABLES
    callbacks,  \* _market_callbacks: <<consumer, line>>, with the mode it asked for
    refs,       \* _instrument_refs
    mode,       \* _instrument_modes
    starting,   \* a subscriber that holds the engine's lock has yet to call connect
    subscribed, \* _subscribed_instruments, with _instruments
    connected,  \* _is_connected
    stop,       \* _stop_event
    stopper,    \* a caller of stop() has set the event and not yet closed the feed
    pc,         \* where the thread of the feed stands
    feed,       \* _feed: the lines the SDK feed was built with
    snapshot,   \* to_subscribe in _on_connect
    asked,      \* the lines Dhan streams on the socket
    unclosed,   \* history: close_connection of the present socket raised
    mixed       \* history: instruments that were used in two modes at a time

engine == <<callbacks, refs, mode, starting, mixed>>
flags == <<connected, stop>>
thread == <<pc, feed, snapshot, asked, unclosed>>
vars == <<engine, subscribed, flags, stopper, thread>>

Socket == {"open", "replay", "live", "silent"}

Init ==
    /\ callbacks = {}
    /\ refs = [i \in Instrument |-> 0]
    /\ mode = [i \in Instrument |-> None]
    /\ starting = FALSE
    /\ subscribed = {}
    /\ connected = FALSE /\ stop = FALSE /\ stopper = FALSE
    /\ pc = "none"
    /\ feed = None
    /\ snapshot = {} /\ asked = {} /\ unclosed = FALSE
    /\ mixed = {}

Users(i) == {c \in Consumer : \E l \in Line : l[1] = i /\ <<c, l>> \in callbacks}

\* The socket is closed: run() is about to return, a replay is over.
Closed ==
    /\ pc' = IF pc \in Socket \cup {"run"} THEN "dead" ELSE pc
    /\ asked' = {} /\ snapshot' = {} /\ unclosed' = FALSE

\* close_connection raises, which everyone who calls it ignores, and run() goes
\* on: it drives a coroutine of its own, and the caller's thread may have a
\* running loop.
NotClosed ==
    /\ unclosed' \in BOOLEAN /\ (unclosed' <=> pc \in Socket \ {"open"})
    /\ UNCHANGED <<pc, asked, snapshot>>

-----------------------------------------------------------------------------
(* subscribe_market and unsubscribe_market, under the engine's lock *)

\* feed.subscribe, when the line is new and the feed connected, asks Dhan ...
Ask(l) ==
    /\ feed # None /\ connected /\ l \notin subscribed
    /\ asked' = IF pc \in Socket THEN asked \cup {l} ELSE asked
    /\ UNCHANGED <<connected, pc, snapshot, unclosed>>

\* ... which may fail: the feed counts as disconnected and is to be closed ...
AskFails(l) ==
    /\ feed # None /\ connected /\ l \notin subscribed
    /\ connected' = FALSE
    /\ Closed \/ NotClosed

\* ... otherwise the line waits for _on_connect.
Queue(l) ==
    /\ feed = None \/ ~connected \/ l \in subscribed
    /\ UNCHANGED <<connected, pc, asked, snapshot, unclosed>>

\* subscribe raises at the limit, before anything has changed.
Subscribe(c, l) ==
    /\ ~starting /\ c \notin Users(l[1])
    /\ Cardinality(subscribed \cup {l}) <= MaxInstruments \/ l \in subscribed
    /\ Ask(l) \/ AskFails(l) \/ Queue(l)
    /\ subscribed' = subscribed \cup {l}
    /\ mode' = [mode EXCEPT ![l[1]] = l[2]]
    /\ refs' = [refs EXCEPT ![l[1]] = @ + 1]
    /\ callbacks' = callbacks \cup {<<c, l>>}
    /\ mixed' = IF mode[l[1]] \in {None, l[2]} THEN mixed ELSE mixed \cup {l[1]}
    /\ starting' = TRUE
    /\ UNCHANGED <<stop, stopper, feed>>

\* feed.connect(): a thread is started when there is none.  A feed that has been
\* silent for too long counts as disconnected here.
Connect ==
    /\ starting /\ starting' = FALSE
    /\ \/ /\ pc # "none" \/ connected
          /\ UNCHANGED <<flags, thread>>
       \/ /\ pc = "none" /\ ~connected
          /\ stop' = FALSE /\ connected' = FALSE
          /\ feed' = subscribed
          /\ pc' = "check"
          /\ UNCHANGED <<snapshot, asked, unclosed>>
    /\ UNCHANGED <<callbacks, refs, mode, mixed, subscribed, stopper>>

\* Mutation: its reference is not given back.
LeaveUncounted(c, l) ==
    /\ ~starting /\ <<c, l>> \in callbacks
    /\ refs[l[1]] > 1
    /\ callbacks' = callbacks \ {<<c, l>>}
    /\ UNCHANGED <<refs, mode, starting, mixed, subscribed, flags, stopper, thread>>

\* One of several consumers leaves.
Leave(c, l) ==
    /\ ~starting /\ <<c, l>> \in callbacks
    /\ refs[l[1]] > 1
    /\ callbacks' = callbacks \ {<<c, l>>}
    /\ refs' = [refs EXCEPT ![l[1]] = @ - 1]
    /\ UNCHANGED <<mode, starting, mixed, subscribed, flags, stopper, thread>>

\* feed.unsubscribe.  That the SDK could not ask Dhan is ignored.
Unsubscribed(l) ==
    /\ subscribed' = subscribed \ {l}
    /\ \/ feed # None /\ connected /\ asked' = asked \ {l}
       \/ UNCHANGED asked

\* Mutation: the feed is not told.
ReleaseKept(c, l) ==
    /\ ~starting /\ <<c, l>> \in callbacks
    /\ refs[l[1]] <= 1
    /\ callbacks' = callbacks \ {<<c, l>>}
    /\ refs' = [refs EXCEPT ![l[1]] = 0]
    /\ mode' = [mode EXCEPT ![l[1]] = None]
    /\ UNCHANGED <<subscribed, starting, mixed, flags, stopper, thread>>

\* Mutation: the reference of another consumer is overlooked.
ReleaseEarly(c, l) ==
    /\ ~starting /\ <<c, l>> \in callbacks
    /\ refs[l[1]] <= 2
    /\ callbacks' = callbacks \ {<<c, l>>}
    /\ refs' = [refs EXCEPT ![l[1]] = 0]
    /\ mode' = [mode EXCEPT ![l[1]] = None]
    /\ Unsubscribed(<<l[1], mode[l[1]]>>)
    /\ UNCHANGED <<starting, mixed, flags, stopper, pc, feed, snapshot, unclosed>>

\* The last one leaves: the line of the last mode asked for is given up.
Release(c, l) ==
    /\ ~starting /\ <<c, l>> \in callbacks
    /\ refs[l[1]] <= 1
    /\ callbacks' = callbacks \ {<<c, l>>}
    /\ refs' = [refs EXCEPT ![l[1]] = 0]
    /\ mode' = [mode EXCEPT ![l[1]] = None]
    /\ Unsubscribed(<<l[1], mode[l[1]]>>)
    /\ UNCHANGED <<starting, mixed, flags, stopper, pc, feed, snapshot, unclosed>>

-----------------------------------------------------------------------------
(* stop, by whoever closes the connection or releases the last handle *)

StopSets ==
    /\ ~stopper /\ stopper' = TRUE
    /\ stop' = TRUE
    /\ UNCHANGED <<engine, subscribed, connected, thread>>

\* stop() goes on to wait for the thread, but not for ever.
StopCloses ==
    /\ stopper /\ stopper' = FALSE
    /\ connected' = FALSE
    /\ IF feed # None THEN Closed \/ NotClosed ELSE UNCHANGED <<pc, asked, snapshot, unclosed>>
    /\ UNCHANGED <<engine, subscribed, stop, feed>>

-----------------------------------------------------------------------------
(* _run and the callbacks of the SDK, on the feed's thread *)

ThreadEnds ==
    /\ pc = "check" /\ stop
    /\ pc' = "none"
    /\ UNCHANGED <<engine, subscribed, flags, stopper, feed, snapshot, asked, unclosed>>

\* The feed start() has built, or a fresh one.
Run ==
    /\ pc = "check" /\ ~stop
    /\ pc' = "run"
    /\ feed' = IF feed = None THEN subscribed ELSE feed
    /\ UNCHANGED <<engine, subscribed, flags, stopper, snapshot, asked, unclosed>>

SocketOpens ==
    /\ pc = "run"
    /\ pc' = "open"
    /\ asked' = feed
    /\ UNCHANGED <<engine, subscribed, flags, stopper, feed, snapshot, unclosed>>

\* Mutation: only what the feed was built with is replayed.
OnConnectBuilt ==
    /\ pc = "open"
    /\ pc' = "replay"
    /\ connected' = TRUE
    /\ snapshot' = feed
    /\ UNCHANGED <<engine, subscribed, stop, stopper, feed, asked, unclosed>>

OnConnect ==
    /\ pc = "open"
    /\ pc' = "replay"
    /\ connected' = TRUE
    /\ snapshot' = subscribed
    /\ UNCHANGED <<engine, subscribed, stop, stopper, feed, asked, unclosed>>

\* Still in _on_connect, without the lock.
Replay ==
    /\ pc = "replay"
    /\ pc' = "live"
    /\ asked' = asked \cup snapshot
    /\ snapshot' = {}
    /\ UNCHANGED <<engine, subscribed, flags, stopper, feed, unclosed>>

\* Dhan could not be asked: _on_connect disconnects, closes and returns.
ReplayFails ==
    /\ pc = "replay" /\ snapshot # {}
    /\ connected' = FALSE
    /\ \/ Closed
       \/ pc' = "live" /\ snapshot' = {} /\ unclosed' = TRUE /\ UNCHANGED asked
    /\ UNCHANGED <<engine, subscribed, stop, stopper, feed>>

\* The connection breaks, or cannot be made; _on_close or _on_error may say so.
Drop ==
    /\ pc \in Socket \cup {"run"}
    /\ connected' \in {connected, FALSE}
    /\ Closed
    /\ UNCHANGED <<engine, subscribed, stop, stopper, feed>>

\* Nothing arrives for longer than the staleness threshold, and again something.
Silence ==
    /\ pc = "live" /\ pc' = "silent"
    /\ UNCHANGED <<engine, subscribed, flags, stopper, feed, snapshot, asked, unclosed>>

Message ==
    /\ pc = "silent" /\ pc' = "live"
    /\ UNCHANGED <<engine, subscribed, flags, stopper, feed, snapshot, asked, unclosed>>

\* Mutation: the thread ends with the connection.
RunReturnsOnce ==
    /\ pc = "dead"
    /\ pc' = "none"
    /\ connected' = FALSE
    /\ feed' = None
    /\ snapshot' = {}
    /\ UNCHANGED <<engine, subscribed, stop, stopper, asked, unclosed>>

\* run() has returned or raised: back off and connect again.
RunReturns ==
    /\ pc = "dead"
    /\ pc' = "check"
    /\ connected' = FALSE
    /\ feed' = None
    /\ snapshot' = {}
    /\ UNCHANGED <<engine, subscribed, stop, stopper, asked, unclosed>>

-----------------------------------------------------------------------------
Consumers ==
    \/ \E c \in Consumer, l \in Line : Subscribe(c, l) \/ Leave(c, l) \/ Release(c, l)
    \/ Connect

Thread ==
    \/ ThreadEnds \/ Run \/ OnConnect \/ Replay \/ ReplayFails \/ RunReturns
    \/ SocketOpens \/ Drop \/ Silence \/ Message

Next == Consumers \/ StopSets \/ StopCloses \/ Thread

Spec == Init /\ [][Next]_vars

\* Threads run.  Connections break again and again, but not every one of them
\* before it is open, nor every one before its replay.
Fairness ==
    /\ WF_vars(Connect) /\ WF_vars(StopCloses)
    /\ WF_vars(ThreadEnds) /\ WF_vars(Run) /\ WF_vars(RunReturns)
    /\ SF_vars(SocketOpens) /\ SF_vars(OnConnect) /\ SF_vars(Replay)

FairSpec == Spec /\ Fairness

-----------------------------------------------------------------------------
(* Properties *)

\* Types; the references of an instrument never outnumber the consumers.
TypeOK ==
    /\ callbacks \subseteq Consumer \X Line
    /\ refs \in [Instrument -> 0 .. Cardinality(Consumer)]
    /\ mode \in [Instrument -> Mode \cup {None}]
    /\ subscribed \subseteq Line /\ snapshot \subseteq Line /\ asked \subseteq Line
    /\ starting \in BOOLEAN /\ connected \in BOOLEAN
    /\ stop \in BOOLEAN /\ stopper \in BOOLEAN /\ unclosed \in BOOLEAN
    /\ pc \in Socket \cup {"none", "check", "run", "dead"}
    /\ feed = None \/ feed \subseteq Line
    /\ mixed \subseteq Instrument

\* What a consumer subscribed to stays subscribed, in the mode it asked for,
\* whatever modes others ask for and whoever leaves (unsubscribe_market gives an
\* instrument up with its last reference, and only in the mode asked for last).
ConsumersServed == \A c \in Consumer, l \in Line : <<c, l>> \in callbacks => l \in subscribed

\* _subscribed_instruments "is the single source of truth for what instruments
\* should be active": on a connection that is replayed Dhan was asked for all of
\* them, also for those subscribed while the connection was being made.
NothingMissed == pc \in {"live", "silent"} /\ connected => subscribed \subseteq asked

\* "SDK unsubscribe when last ref released": an instrument without consumers is
\* not subscribed.  It may be, for ever, once it was used in two modes at a time.
ReleasedUnlessMixed == \A l \in subscribed : Users(l[1]) # {} \/ l[1] \in mixed

\* A consumer that stays, while nobody stops the feed, is streamed again and
\* again: every connection is followed by another that asks for its line, unless
\* the feed ends on a socket that it wanted closed and the SDK did not close.
ConsumersStreamed ==
    \A c \in Consumer, l \in Line :
        <>[](<<c, l>> \in callbacks /\ ~stop) => []<>(l \in asked) \/ <>[]unclosed

\* "if the feed was active but silent for longer than
\* DHAN_STALENESS_THRESHOLD_SECONDS, we close the socket": but the loop checks
\* only between two connections, when _is_connected is false.
SilentGivenUp == pc = "silent" ~> pc # "silent"
=============================================================================
