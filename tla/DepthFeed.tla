------------------------------- MODULE DepthFeed -------------------------------
(***************************************************************************)
(* BinaryDepthFeed, for 20 levels (packets name their instrument) and for  *)
(* 200 (one instrument to a connection, packets do not name it).  A thread *)
(* runs an event loop that connects, sends the subscriptions, and reads    *)
(* packets of one side of one book.  Gateway threads subscribe and         *)
(* unsubscribe without a lock; a subscription that finds a connection is   *)
(* handed to the loop to be sent.  unsubscribe tells Dhan nothing.         *)
(***************************************************************************)
EXTENDS Integers, Sequences

CONSTANTS Gateways,     \* threads that subscribe
          Instruments, None,
          Cap,          \* instruments to a connection of 20 levels
          MaxDrops      \* bound: connections lost

VARIABLES deep,      \* 200 levels
          thread,    \* none, waiting, opening, up
          stopping,
          connected, ws,   \* _is_connected; _ws: none, live, or one that is closed
          calls,     \* of the gateway threads
          subs,      \* _subscriptions, in order
          toSend,    \* messages the loop has yet to send
          asked,     \* what Dhan was asked for on this connection
          cache,     \* of each book, the instrument whose levels it has (one
                     \* side; the other is like it)
          lost,      \* a message was not sent on this connection
          second,    \* an instrument came while another was listed or asked for
          drops

vars == <<deep, thread, stopping, connected, ws, calls, subs, toSend, asked, cache, lost, second, drops>>
socket == <<thread, connected, ws>>
line == <<toSend, asked, lost, second>>

Idle == [at |-> "idle", of |-> None]
Limit == IF deep THEN 1 ELSE Cap
Subscribed == {subs[n] : n \in DOMAIN subs}

TypeOK ==
  /\ deep \in BOOLEAN /\ stopping \in BOOLEAN /\ connected \in BOOLEAN
  /\ thread \in {"none", "waiting", "opening", "greeting", "up"}
  /\ ws \in {"none", "live", "closed"}
  /\ calls \in [Gateways -> [at : {"idle", "checked", "listed"}, of : Instruments \cup {None}]]
  /\ subs \in Seq(Instruments)
  /\ toSend \subseteq Instruments /\ asked \subseteq Instruments
  /\ cache \in [Instruments -> Instruments \cup {None}]
  /\ lost \in BOOLEAN /\ second \in BOOLEAN
  /\ drops \in 0 .. MaxDrops

Init ==
  /\ deep \in BOOLEAN
  /\ thread = "none" /\ stopping = FALSE /\ connected = FALSE /\ ws = "none"
  /\ calls = [g \in Gateways |-> Idle]
  /\ subs = <<>> /\ toSend = {} /\ asked = {}
  /\ cache = [i \in Instruments |-> None]
  /\ lost = FALSE /\ second = FALSE /\ drops = 0

(***************************************************************************)
(* Gateway threads                                                         *)
(***************************************************************************)
Check(g, i) ==
  /\ calls[g].at = "idle" /\ i \notin Subscribed /\ Len(subs) < Limit
  /\ calls' = [calls EXCEPT ![g] = [at |-> "checked", of |-> i]]
  /\ UNCHANGED <<deep, socket, stopping, subs, line, cache, drops>>

\* What Dhan has been asked for, or will be.
Coming == IF ws = "live" THEN asked \cup toSend ELSE {}
Several(is) == \E i, j \in is : i # j

List(g) ==
  /\ calls[g].at = "checked"
  /\ subs' = Append(subs, calls[g].of)
  /\ second' = (second \/ Several(Coming \cup Subscribed \cup {calls[g].of}))
  /\ calls' = [calls EXCEPT ![g].at = "listed"]
  /\ UNCHANGED <<deep, socket, stopping, toSend, asked, lost, cache, drops>>

\* _send_subscription: the loop will send a message of these.
Hand(is) ==
  /\ toSend' = toSend \cup is
  /\ second' = (second \/ Several(Coming \cup Subscribed \cup is))

\* Nothing is sent without a connection or a loop that runs; the next
\* connection sends all.
Send(g) ==
  /\ calls[g].at = "listed"
  /\ calls' = [calls EXCEPT ![g] = Idle]
  /\ IF connected /\ ws # "none" /\ thread # "none"
     THEN IF ws = "live" THEN Hand({calls[g].of}) /\ UNCHANGED lost
                         ELSE lost' = TRUE /\ UNCHANGED <<toSend, second>>
     ELSE UNCHANGED <<toSend, lost, second>>
  /\ UNCHANGED <<deep, socket, stopping, subs, asked, cache, drops>>

Without(n) ==
  [m \in 1 .. Len(subs) - 1 |-> IF m < n THEN subs[m] ELSE subs[m + 1]]

\* list.remove takes the first entry; two threads may have listed one instrument.
Unsubscribe(i) ==
  /\ \E n \in DOMAIN subs : /\ subs[n] = i /\ \A m \in 1 .. n - 1 : subs[m] # i
                            /\ subs' = Without(n)
  /\ cache' = [cache EXCEPT ![i] = None]
  /\ UNCHANGED <<deep, socket, stopping, calls, line, drops>>

UnsubscribeAll ==
  /\ subs' = <<>>
  /\ cache' = [i \in Instruments |-> None]
  /\ UNCHANGED <<deep, socket, stopping, calls, line, drops>>

(***************************************************************************)
(* The life of the thread                                                  *)
(***************************************************************************)
Start ==
  /\ thread = "none"
  /\ thread' = "waiting" /\ stopping' = FALSE
  /\ UNCHANGED <<deep, connected, ws, calls, subs, line, cache, drops>>

\* Closes the socket; the thread sees the event when it is through.
Stop ==
  /\ ~stopping /\ thread # "none"
  /\ stopping' = TRUE
  /\ IF ws = "live" THEN ws' = "closed" ELSE UNCHANGED ws
  /\ UNCHANGED <<deep, thread, connected, calls, subs, line, cache, drops>>

\* The loop ends with the handler; _ws is not put back.
End ==
  /\ stopping /\ thread = "waiting"
  /\ thread' = "none" /\ connected' = FALSE
  /\ UNCHANGED <<deep, stopping, ws, calls, subs, line, cache, drops>>

\* The cooldown of 429 and the backoff are over.
Open ==
  /\ thread = "waiting" /\ ~stopping
  /\ thread' = "opening"
  /\ UNCHANGED <<deep, stopping, connected, ws, calls, subs, line, cache, drops>>

OpenFails ==
  /\ thread = "opening"
  /\ thread' = "waiting" /\ connected' = FALSE /\ ws' = "none"
  /\ UNCHANGED <<deep, stopping, calls, subs, line, cache, drops>>

Opened ==
  /\ thread = "opening"
  /\ thread' = "greeting" /\ connected' = TRUE /\ ws' = "live"
  /\ asked' = {} /\ toSend' = {} /\ lost' = FALSE
  /\ UNCHANGED <<deep, stopping, calls, subs, second, cache, drops>>

\* Mutation: the subscriptions are taken as sent before.
GreetNobody ==
  /\ thread = "greeting"
  /\ thread' = "up"
  /\ UNCHANGED <<deep, stopping, connected, ws, calls, subs, line, cache, drops>>

\* The subscriptions, all in one message.
Greet ==
  /\ thread = "greeting"
  /\ thread' = "up"
  /\ Hand(Subscribed)
  /\ UNCHANGED <<deep, stopping, connected, ws, calls, subs, asked, lost, cache, drops>>

\* A message goes out, or fails and is counted.
Sent(i) ==
  /\ thread \in {"greeting", "up"} /\ i \in toSend
  /\ toSend' = toSend \ {i}
  /\ \/ /\ ws = "live"
        /\ asked' = asked \cup {i} /\ UNCHANGED lost
     \/ lost' = TRUE /\ UNCHANGED asked
  /\ UNCHANGED <<deep, socket, stopping, calls, subs, second, cache, drops>>

\* update_token closes the socket too.
Drop ==
  /\ ws = "live" /\ drops < MaxDrops
  /\ ws' = "closed" /\ drops' = drops + 1
  /\ UNCHANGED <<deep, thread, stopping, connected, calls, subs, line, cache>>

\* After ConnectionClosed _is_connected and _ws stay as they are.
Closed ==
  /\ thread = "up" /\ (ws = "closed" \/ stopping)
  /\ thread' = "waiting"
  /\ ws' = IF ws = "live" THEN "closed" ELSE ws
  /\ UNCHANGED <<deep, stopping, connected, calls, subs, line, cache, drops>>

(***************************************************************************)
(* Packets                                                                 *)
(***************************************************************************)
\* Who a packet of 200 levels is taken to be of: the subscription, or else an
\* instrument that has been cached.
Implicit == IF subs # <<>> THEN {subs[1]}
            ELSE {i \in Instruments : cache[i] # None}

\* Mutation: the name in a packet of 20 levels is not looked at.
PacketUnnamed(i) ==
  /\ thread = "up" /\ ws = "live" /\ i \in asked
  /\ \E to \in Implicit : cache' = [cache EXCEPT ![to] = i]
  /\ UNCHANGED <<deep, socket, stopping, calls, subs, line, drops>>

\* Levels of a side; those of the other are kept, from before a reconnect too.
Packet(i) ==
  /\ thread = "up" /\ ws = "live" /\ i \in asked
  /\ \E to \in IF deep THEN Implicit ELSE {i} : cache' = [cache EXCEPT ![to] = i]
  /\ UNCHANGED <<deep, socket, stopping, calls, subs, line, drops>>

Next ==
  \/ \E g \in Gateways : \/ \E i \in Instruments : Check(g, i)
                         \/ List(g) \/ Send(g)
  \/ UnsubscribeAll
  \/ Start \/ Stop \/ End \/ Open \/ OpenFails \/ Opened \/ Greet \/ Drop \/ Closed
  \/ \E i \in Instruments : \/ Unsubscribe(i) \/ Sent(i) \/ Packet(i)

Spec == Init /\ [][Next]_vars

\* On a connection whose messages are all sent Dhan has been asked for every
\* instrument that a gateway thread has done subscribing to, whenever it was
\* in relation to the connection, unless a message failed.
SubscriptionsAsked ==
  (thread = "up" /\ ws = "live" /\ toSend = {} /\ ~lost) =>
    Subscribed \ {calls[g].of : g \in Gateways} \subseteq asked

\* No book has levels of another instrument, unless 200 levels were wanted of
\* another while the connection, or the list, had the one before.
BooksOwned ==
  \A i \in Instruments : cache[i] \in {None, i} \/ (deep /\ second)
===============================================================================
