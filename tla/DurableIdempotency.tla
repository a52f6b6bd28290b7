--------------------------- MODULE DurableIdempotency ---------------------------
(***************************************************************************)
(* DurableIdempotencyCache over FileIdempotencyCache: the order placed      *)
(* under a correlation id is kept in a file, for processes that may crash   *)
(* and restart.  A process looks the id up, places the order when it finds  *)
(* nothing, and puts the order in the file, under a lock of its own: one    *)
(* call at a time for each process, and one id is enough.                   *)
(*                                                                         *)
(* The lock between processes does nothing: acquire drops the only          *)
(* reference to the lock file, which closes it and gives the lock up: a     *)
(* look-up reads an expired file and removes what is there then.  When      *)
(* the lock file cannot be opened for the whole time-out, an operation goes *)
(* through _fallback_operation and its cache in memory.                     *)
(***************************************************************************)
EXTENDS Integers, FiniteSets

CONSTANTS Procs, MaxOrders  \* bound: orders placed

VARIABLES file,    \* absent, torn (cut off or mixed), live, expired
          procs,   \* at, and of the file it writes: whether another writes it too,
                   \* whether it was removed, how often it was tried before
          memory,  \* _fallback_cache: none, live, expired
          placed,  \* orders placed under the id
          excused  \* events since which another order may be placed

vars == <<file, procs, memory, placed, excused>>

Idle == [at |-> "idle", mixed |-> FALSE, gone |-> FALSE, tries |-> 0]
States == [at : {"idle", "removing", "placing", "putting", "writing"},
           mixed : BOOLEAN, gone : BOOLEAN, tries : 0 .. 1]
Busy == {p \in Procs : procs[p].at \in {"placing", "putting", "writing"}}
Writers == {p \in Procs : procs[p].at = "writing" /\ ~procs[p].gone}

TypeOK ==
  /\ file \in {"absent", "torn", "live", "expired"}
  /\ procs \in [Procs -> States]
  /\ memory \in [Procs -> {"none", "live", "expired"}]
  /\ placed \in 0 .. MaxOrders /\ excused \in 0 .. MaxOrders

Init ==
  /\ file = "absent"
  /\ procs = [p \in Procs |-> Idle]
  /\ memory = [p \in Procs |-> "none"]
  /\ placed = 0 /\ excused = 0

\* Counted up to the bound.
Excuse(event) == excused' = IF event /\ excused < MaxOrders THEN excused + 1 ELSE excused
Become(p, at) == procs' = [procs EXCEPT ![p] = [Idle EXCEPT !.at = at]]

(***************************************************************************)
(* get: a file that cannot be read is a miss.                              *)
(***************************************************************************)
Answer(p) == UNCHANGED <<procs, placed, excused>>

\* The order is to be placed.  Other processes at work may not have put theirs
\* yet, and one that is put may just go with the file.
Miss(p) ==
  /\ placed + Cardinality({q \in Procs : procs[q].at = "placing"}) < MaxOrders
  /\ Excuse(Busy # {} \/ file = "live")
  /\ UNCHANGED placed

Look(p) ==
  \/ file = "live" /\ Answer(p)
  \/ file = "expired" /\ Become(p, "removing") /\ UNCHANGED <<placed, excused>>
  \/ file \in {"absent", "torn"} /\ Miss(p) /\ Become(p, "placing")

Get(p) ==
  /\ procs[p].at = "idle"
  /\ Look(p)
  /\ UNCHANGED <<file, memory>>

\* Without the lock the memory goes before the file, and a hit is kept in it.
GetUnlocked(p) ==
  /\ procs[p].at = "idle"
  /\ \/ memory[p] = "live" /\ Answer(p) /\ UNCHANGED memory
     \/ /\ memory[p] # "live" /\ Look(p)
        /\ memory' = [memory EXCEPT ![p] = IF file = "live" THEN "live" ELSE "none"]
  /\ UNCHANGED file

\* The file whose time was over is removed, with whatever has come into it since;
\* a writer that has it open goes on into the void.
Remove(p) ==
  /\ procs[p].at = "removing"
  /\ Miss(p) /\ file' = "absent"
  /\ procs' = [q \in Procs |-> IF q = p THEN [Idle EXCEPT !.at = "placing"]
                               ELSE IF q \in Writers THEN [procs[q] EXCEPT !.gone = TRUE]
                               ELSE procs[q]]
  /\ UNCHANGED memory

(***************************************************************************)
(* The order is placed, and put.                                           *)
(***************************************************************************)
Place(p) ==
  /\ procs[p].at = "placing"
  /\ placed' = placed + 1
  /\ Become(p, "putting")
  /\ UNCHANGED <<file, memory, excused>>

\* Opening the file cuts it off; the text comes when it is closed.
Open(p) ==
  /\ procs[p].at = "putting"
  /\ file' = "torn"
  /\ procs' = [q \in Procs |->
                 IF q = p THEN [procs[p] EXCEPT !.at = "writing", !.mixed = Writers # {}, !.gone = FALSE]
                 ELSE IF q \in Writers THEN [procs[q] EXCEPT !.mixed = TRUE] ELSE procs[q]]
  /\ UNCHANGED <<memory, placed, excused>>

\* Mutation: the text stays in a buffer when put returns.
WriteLater(p) ==
  /\ procs[p].at = "writing"
  /\ Become(p, "idle")
  /\ UNCHANGED <<file, memory, placed, excused>>

\* Of two texts in one file the longer may show behind the shorter.
Write(p) ==
  /\ procs[p].at = "writing"
  /\ \/ ~procs[p].gone /\ file' = "live" /\ UNCHANGED excused
     \/ ~procs[p].gone /\ procs[p].mixed /\ file' = "torn" /\ Excuse(TRUE)
     \/ procs[p].gone /\ UNCHANGED file /\ Excuse(file # "live")
  /\ Become(p, "idle")
  /\ UNCHANGED <<memory, placed>>

\* The disk is full: under the lock the put is tried once more, unless the memory
\* has an answer, and then returns as if it had put.
WriteFails(p) ==
  /\ procs[p].at \in {"putting", "writing"}
  /\ \/ /\ procs[p].tries = 0 /\ memory[p] # "live"
        /\ procs' = [procs EXCEPT ![p] = [@ EXCEPT !.at = "putting", !.tries = 1]]
        /\ UNCHANGED excused
     \/ Become(p, "idle") /\ Excuse(TRUE)
  /\ UNCHANGED <<file, memory, placed>>

\* Without the lock nothing is written when the memory has an answer.
PutUnlocked(p) ==
  /\ procs[p].at = "putting" /\ memory[p] = "live"
  /\ Become(p, "idle") /\ Excuse(TRUE)
  /\ UNCHANGED <<file, memory, placed>>

(***************************************************************************)
(* The environment                                                         *)
(***************************************************************************)
\* Between the order and the end of its put the order is lost to the file.
Crash(p) ==
  /\ procs[p].at # "idle" \/ memory[p] # "none"
  /\ Excuse(procs[p].at \in {"putting", "writing"})
  /\ Become(p, "idle")
  /\ memory' = [memory EXCEPT ![p] = "none"]
  /\ UNCHANGED <<file, placed>>

\* The file's time is over; a copy in memory is younger.
Expire ==
  /\ file = "live"
  /\ file' = "expired" /\ Excuse(TRUE)
  /\ UNCHANGED <<procs, memory, placed>>

Forget(p) ==
  /\ memory[p] = "live"
  /\ memory' = [memory EXCEPT ![p] = "expired"]
  /\ UNCHANGED <<file, procs, placed, excused>>

Next ==
  \/ Expire
  \/ \E p \in Procs : \/ Get(p) \/ GetUnlocked(p) \/ Remove(p) \/ Place(p)
                      \/ Open(p) \/ Write(p) \/ WriteFails(p) \/ PutUnlocked(p)
                      \/ Crash(p) \/ Forget(p)

Spec == Init /\ [][Next]_vars

\* One order is placed under the id, and one more at most for each overlap of
\* two processes, crash or failed write before the put is over, mixed file,
\* expiry, and fresh file or text that goes with an expired file's removal:
\* across restarts the file answers for every other order.
RepeatsExcused ==
  placed + Cardinality({p \in Procs : procs[p].at = "placing"}) <= 1 + excused
===============================================================================
