----------------------------- MODULE CacheStore -----------------------------
(***************************************************************************)
(* The cache of evaluation results, from src/src/core/cache_store.py       *)
(* (AsyncCacheStore) over the connection of src/src/aiosqlite.py.          *)
(*                                                                         *)
(* start opens the database and loads it into the memory copy that get     *)
(* reads.  put_many changes the memory copy first, then hands the write to *)
(* a bounded queue, and takes the change back when the store is stopping   *)
(* by then or the caller is cancelled.  One writer task takes all that the *)
(* queue holds and saves it in one transaction; an error of the database   *)
(* ends it.  stop puts _STOP behind the queue and waits for the writer.    *)
(*                                                                         *)
(* The locks are never held over a suspension once a writer task exists,   *)
(* so a put_many is one step unless it has to wait for a place in the      *)
(* queue.  asyncio.Queue is modelled with its line of waiting putters:     *)
(* every get wakes the first one, which looks again when it runs and goes  *)
(* to the end of the line if somebody else took the place.  Each session   *)
(* of the owner is a new store over the same file, as in run_async.        *)
(***************************************************************************)
EXTENDS Naturals, Sequences

CONSTANTS
  Keys, Values, NoValue,
  Putters,      \* the coroutines that call put_many, once in a session
  Owner,        \* the coroutine that starts and stops the store
  Puts,         \* the writes they may ask for: functions from keys to values
  Legacy,       \* what the legacy file holds: key -> value, or NoValue
  Capacity,     \* CACHE_QUEUE_MAXSIZE
  MaxOpens,     \* DB_OPEN_MAX_ATTEMPTS
  MaxSessions   \* bound on the stores made

ASSUME CacheStoreAssumption ==
  /\ Owner \notin Putters /\ NoValue \notin Values
  /\ Puts # {}
  /\ Puts \subseteq UNION {[ks -> Values] : ks \in (SUBSET Keys) \ {{}}}
  /\ Legacy \in [Keys -> Values \cup {NoValue}]
  /\ Capacity \in Nat \ {0} /\ MaxOpens \in Nat \ {0} /\ MaxSessions \in Nat

VARIABLES
  rows,         \* the rows of cache_entries
  memory,       \* _cache
  queue,        \* _queue: writes, and the _STOP
  line, awake,  \* the putters that wait in queue.put, and those just woken
  putter,       \* putter -> where its put_many is
  update,       \* putter -> what it writes
  previous,     \* putter in the line -> the memory copy it found
  writer,       \* the writer task
  batch,        \* what it has taken, in order
  last,         \* it has taken _STOP too
  owner,        \* where start or stop is
  opens,        \* attempts to open the database that failed
  cancelled,    \* stop was cancelled
  report,       \* how the last stop ended
  sessions,     \* stores made so far
  \* What the property remembers of the past:
  over,         \* putter -> those who were under way when it began
  crossed       \* keys on which calls that overlapped went wrong, see below

tableVars == <<rows, memory>>
queueVars == <<queue, line, awake>>
putVars == <<putter, update, previous, over>>
writerVars == <<writer, batch, last>>
ownerVars == <<owner, opens, cancelled, report, sessions>>
storeVars == <<tableVars, queueVars, putVars, writerVars, ownerVars, crossed>>

Tables == [Keys -> Values \cup {NoValue}]
Blank == [k \in Keys |-> NoValue]
Stop == [stop |-> TRUE, accepted |-> FALSE]
Write(u, accepted) == [stop |-> FALSE, accepted |-> accepted, update |-> u]
Items == {Stop} \cup {Write(u, a) : u \in Puts, a \in BOOLEAN}

\* What an item of the queue is going to change: _STOP and a rejected write
\* change nothing.
Nothing == [k \in {} |-> NoValue]
Due(item) == IF item.accepted THEN item.update ELSE Nothing

StoreTypeOK ==
  /\ rows \in Tables /\ memory \in Tables
  /\ queue \in Seq(Items) /\ Len(queue) <= Capacity
  /\ line \in Seq(Putters \cup {Owner}) /\ awake \in Seq(Putters \cup {Owner})
  /\ putter \in [Putters -> {"idle", "waiting", "accepted", "rejected"}]
  /\ update \in [Putters -> Puts] /\ previous \in [Putters -> Tables]
  /\ writer \in {"none", "idle", "flushing", "done", "dead"}
  /\ batch \in Seq(Puts \cup {Nothing}) /\ last \in BOOLEAN
  /\ owner \in {"closed", "opening", "open", "queueing", "joining"}
  /\ opens \in 0..(MaxOpens - 1) /\ cancelled \in BOOLEAN
  /\ report \in {"nothing", "kept", "failed", "cancelled"}
  /\ sessions \in 0..MaxSessions
  /\ over \in [Putters -> SUBSET Putters] /\ crossed \subseteq Keys

AnyPut == CHOOSE u \in Puts : TRUE

StoreInit ==
  /\ rows \in {Blank, Legacy} /\ memory = Blank
  /\ queue = <<>> /\ line = <<>> /\ awake = <<>>
  /\ putter = [p \in Putters |-> "idle"]
  /\ update = [p \in Putters |-> AnyPut]
  /\ previous = [p \in Putters |-> Blank]
  /\ writer = "none" /\ batch = <<>> /\ last = FALSE
  /\ owner = "closed" /\ opens = 0 /\ cancelled = FALSE /\ report = "nothing"
  /\ sessions = 0
  /\ over = [p \in Putters |-> {}] /\ crossed = {}

\* What the writer has taken and what it will find in the queue.
Owed == IF writer \in {"idle", "flushing", "dead"}
        THEN batch \o [i \in DOMAIN queue |-> Due(queue[i])] ELSE <<>>

Contract == INSTANCE ResultCache WITH
  saved <- rows, owed <- Owed, told <- report,
  open <- owner \in {"open", "queueing", "joining"},
  broken <- writer = "dead"

-----------------------------------------------------------------------------
(* start, in a new store.                                                  *)

Start ==
  /\ owner = "closed" /\ sessions < MaxSessions
  /\ sessions' = sessions + 1
  /\ owner' = "opening" /\ opens' = 0 /\ cancelled' = FALSE
  /\ memory' = Blank /\ queue' = <<>> /\ line' = <<>> /\ awake' = <<>>
  /\ putter' = [p \in Putters |-> "idle"]
  /\ update' = [p \in Putters |-> AnyPut]
  /\ previous' = [p \in Putters |-> Blank]
  /\ over' = [p \in Putters |-> {}] /\ crossed' = {}
  /\ writer' = "none" /\ batch' = <<>> /\ last' = FALSE
  /\ UNCHANGED <<rows, report>>

\* Mutant of OpenAgain: one attempt too many.
OpenAgainOnceMore ==
  /\ owner = "opening" /\ opens < MaxOpens
  /\ opens' = opens + 1
  /\ UNCHANGED <<tableVars, queueVars, putVars, writerVars, owner, cancelled,
                 report, sessions, crossed>>

\* "database is locked": once more, after a pause.
OpenAgain ==
  /\ owner = "opening" /\ opens + 1 < MaxOpens
  /\ opens' = opens + 1
  /\ UNCHANGED <<tableVars, queueVars, putVars, writerVars, owner, cancelled,
                 report, sessions, crossed>>

\* Locked to the end, another error, or an error of the first read or write.
OpenFails ==
  /\ owner = "opening"
  /\ owner' = "closed"
  /\ UNCHANGED <<tableVars, queueVars, putVars, writerVars, opens, cancelled,
                 report, sessions, crossed>>

\* Nothing is stored yet: the legacy file is written to the database.
ImportLegacy ==
  /\ owner = "opening" /\ rows = Blank /\ Legacy # Blank
  /\ rows' = Legacy
  /\ UNCHANGED <<memory, queueVars, putVars, writerVars, ownerVars, crossed>>

Opened ==
  /\ owner = "opening" /\ (rows = Blank => Legacy = Blank)
  /\ memory' = rows
  /\ owner' = "open" /\ writer' = "idle" /\ report' = "nothing"
  /\ UNCHANGED <<rows, queueVars, putVars, batch, last, opens, cancelled,
                 sessions, crossed>>

-----------------------------------------------------------------------------
(* put_many.                                                               *)

Full == Len(queue) >= Capacity
Changed(u) == [k \in Keys |-> IF k \in DOMAIN u THEN u[k] ELSE memory[k]]

\* Mutant of RolledBack: whatever is there now.
RolledBackBlindly(p) ==
  [k \in Keys |-> IF k \in DOMAIN update[p] THEN previous[p][k] ELSE memory[k]]

\* _rollback_cache_updates: only where the rejected value is still there.
RolledBack(p) ==
  [k \in Keys |-> IF k \in DOMAIN update[p] /\ memory[k] = update[p][k]
                  THEN previous[p][k] ELSE memory[k]]

UnderWay(q) == putter[q] = "waiting"

\* The keys that the call of p shares with one of S.
Shared(p, S) ==
  {k \in DOMAIN update[p] : \E q \in S : k \in DOMAIN update[q]}

\* Those who began while p was under way.
Later(p) == {q \in Putters : p \in over[q]}

\* p enters the queue after a later call on the same key.
Overtaken(p) == Shared(p, {q \in Later(p) : putter[q] = "accepted"})

\* p puts back what an earlier call has written and taken back meanwhile, or
\* takes back a value that a later call has written too.
Stale(p) == Shared(p, {q \in over[p] : putter[q] = "rejected"})
Twin(p) == {k \in DOMAIN update[p] : \E q \in Later(p) :
              /\ putter[q] # "rejected" /\ k \in DOMAIN update[q]
              /\ update[q][k] = update[p][k]}

Accepts(p) ==
  /\ putter' = [putter EXCEPT ![p] = "accepted"]
  /\ crossed' = crossed \cup Overtaken(p)

TakesBack(p) ==
  /\ putter' = [putter EXCEPT ![p] = "rejected"]
  /\ memory' = RolledBack(p)
  /\ crossed' = crossed \cup Stale(p) \cup Twin(p)

\* A store that is stopping is refused at once, without a change.
PutRefused(p) ==
  /\ putter[p] = "idle" /\ owner \in {"queueing", "joining"}
  /\ putter' = [putter EXCEPT ![p] = "rejected"]
  /\ UNCHANGED <<tableVars, queueVars, update, previous, over, writerVars,
                 ownerVars, crossed>>

PutBegins(p, u) ==
  /\ putter[p] = "idle" /\ owner = "open"
  /\ memory' = Changed(u)
  /\ update' = [update EXCEPT ![p] = u]
  /\ previous' = [previous EXCEPT ![p] = memory]
  /\ over' = [over EXCEPT ![p] = {q \in Putters : UnderWay(q)}]
  /\ IF Full
     THEN /\ line' = Append(line, p)
          /\ putter' = [putter EXCEPT ![p] = "waiting"]
          /\ UNCHANGED queue
     ELSE /\ queue' = Append(queue, Write(u, TRUE))
          /\ putter' = [putter EXCEPT ![p] = "accepted"]
          /\ UNCHANGED line
  /\ UNCHANGED <<rows, awake, writerVars, ownerVars, crossed>>

\* A putter that a get has woken runs.
PutResumes(p) ==
  /\ awake # <<>> /\ Head(awake) = p /\ p \in Putters
  /\ awake' = Tail(awake)
  /\ IF Full
     THEN /\ line' = Append(line, p)
          /\ UNCHANGED <<queue, putter, memory, crossed>>
     ELSE /\ queue' = Append(queue, Write(update[p], owner = "open"))
          /\ IF owner = "open" THEN Accepts(p) /\ UNCHANGED memory
                               ELSE TakesBack(p)
          /\ UNCHANGED line
  /\ UNCHANGED <<rows, update, previous, over, writerVars, ownerVars>>

Without(s, i) == SubSeq(s, 1, i - 1) \o SubSeq(s, i + 1, Len(s))

\* p leaves queue.put; a place it was woken for is offered to the next one.
Leaves(p) ==
  \/ \E i \in DOMAIN line :
       /\ line[i] = p
       /\ line' = Without(line, i) /\ awake' = awake
  \/ \E i \in DOMAIN awake :
       /\ awake[i] = p
       /\ IF Full \/ line = <<>>
          THEN line' = line /\ awake' = Without(awake, i)
          ELSE /\ line' = Tail(line)
               /\ awake' = Append(Without(awake, i), Head(line))

\* The caller is cancelled while it waits for a place.
PutCancelled(p) ==
  /\ UnderWay(p) /\ Leaves(p) /\ TakesBack(p)
  /\ UNCHANGED <<rows, queue, update, previous, over, writerVars, ownerVars>>

-----------------------------------------------------------------------------
(* The writer task.                                                        *)

\* get, then get_nowait until the queue is empty or gives _STOP; nothing
\* suspends the writer in between.  Every get wakes one putter in the line.
Take ==
  /\ writer = "idle"
  /\ \E n \in 1..Len(queue) :
       /\ queue[n] = Stop \/ n = Len(queue)
       /\ \A i \in 1..(n - 1) : queue[i] # Stop
       /\ last' = (queue[n] = Stop)
       /\ IF \E i \in 1..n : queue[i].accepted
          THEN /\ batch' = [i \in 1..n |-> Due(queue[i])]
               /\ writer' = "flushing"
          ELSE /\ batch' = <<>>
               /\ writer' = IF last' THEN "done" ELSE "idle"
       /\ queue' = SubSeq(queue, n + 1, Len(queue))
       /\ LET woken == IF Len(line) < n THEN Len(line) ELSE n
          IN /\ awake' = awake \o SubSeq(line, 1, woken)
             /\ line' = SubSeq(line, woken + 1, Len(line))
  /\ UNCHANGED <<tableVars, putVars, ownerVars, crossed>>

\* executemany and commit; a later write of a key replaces an earlier one.
Flush ==
  /\ writer = "flushing"
  /\ rows' = Contract!Overlaid(rows, batch)
  /\ batch' = <<>> /\ writer' = IF last THEN "done" ELSE "idle"
  /\ UNCHANGED <<memory, queueVars, putVars, last, ownerVars, crossed>>

\* An error of the database ends the task, and what it had taken is lost.
FlushFails ==
  /\ writer = "flushing"
  /\ writer' = "dead"
  /\ UNCHANGED <<tableVars, queueVars, putVars, batch, last, ownerVars, crossed>>

-----------------------------------------------------------------------------
(* stop.                                                                   *)

PutStop ==
  IF Full THEN /\ line' = Append(line, Owner) /\ owner' = "queueing"
               /\ UNCHANGED queue
  ELSE /\ queue' = Append(queue, Stop) /\ owner' = "joining"
       /\ UNCHANGED line

StopBegins ==
  /\ owner = "open" /\ PutStop
  /\ UNCHANGED <<tableVars, awake, putVars, writerVars, opens, cancelled, report,
                 sessions, crossed>>

StopResumes ==
  /\ awake # <<>> /\ Head(awake) = Owner
  /\ awake' = Tail(awake) /\ PutStop
  /\ UNCHANGED <<tableVars, putVars, writerVars, opens, cancelled, report,
                 sessions, crossed>>

\* Mutant of StopCancelled: the put of _STOP is not shielded.
StopCancelledUnshielded ==
  /\ owner \in {"queueing", "joining"} /\ ~cancelled
  /\ cancelled' = TRUE /\ owner' = "joining"
  /\ IF owner = "queueing" THEN Leaves(Owner) ELSE UNCHANGED <<line, awake>>
  /\ UNCHANGED <<tableVars, queue, putVars, writerVars, opens, report, sessions,
                 crossed>>

\* What stop waits for is shielded: it only remembers the cancellation.
StopCancelled ==
  /\ owner \in {"queueing", "joining"} /\ ~cancelled
  /\ cancelled' = TRUE
  /\ UNCHANGED <<tableVars, queueVars, putVars, writerVars, owner, opens, report,
                 sessions, crossed>>

\* Mutant of StopReturns: the error of the writer is swallowed.
StopReturnsMute ==
  /\ owner = "joining" /\ writer \in {"done", "dead"}
  /\ owner' = "closed" /\ queue' = <<>> /\ batch' = <<>> /\ writer' = "none"
  /\ report' = IF cancelled THEN "cancelled" ELSE "kept"
  /\ UNCHANGED <<tableVars, line, awake, putVars, last, opens, cancelled,
                 sessions, crossed>>

\* The writer has ended: the database is closed.  The error of the writer is
\* raised again, unless a cancellation arrived together with it, and instead
\* of both one of the closing.
StopReturns ==
  /\ owner = "joining" /\ writer \in {"done", "dead"}
  /\ owner' = "closed" /\ queue' = <<>> /\ batch' = <<>> /\ writer' = "none"
  /\ \/ cancelled /\ report' = "cancelled"
     \/ ~cancelled /\ writer = "done" /\ report' = "kept"
     \/ report' = "failed"
  /\ UNCHANGED <<tableVars, line, awake, putVars, last, opens, cancelled,
                 sessions, crossed>>

\* The process dies; the transaction under way, if any, is rolled back.
StoreDies ==
  /\ owner # "closed"
  /\ owner' = "closed" /\ queue' = <<>> /\ line' = <<>> /\ awake' = <<>>
  /\ writer' = "none" /\ batch' = <<>> /\ report' = "nothing"
  /\ UNCHANGED <<tableVars, putVars, last, opens, cancelled, sessions, crossed>>

-----------------------------------------------------------------------------
Put(p) ==
  \/ PutRefused(p) \/ PutResumes(p) \/ PutCancelled(p)
  \/ \E u \in Puts : PutBegins(p, u)

StoreNext ==
  \/ Start \/ OpenAgain \/ OpenFails \/ ImportLegacy \/ Opened
  \/ \E p \in Putters : Put(p)
  \/ Take \/ Flush \/ FlushFails
  \/ StopBegins \/ StopResumes \/ StopCancelled \/ StopReturns \/ StoreDies

StoreFairness ==
  /\ WF_storeVars(Take) /\ WF_storeVars(Flush \/ FlushFails)
  /\ WF_storeVars(StopResumes \/ \E p \in Putters : PutResumes(p))
  /\ WF_storeVars(StopReturns)

StoreSpec == StoreInit /\ [][StoreNext]_storeVars /\ StoreFairness

-----------------------------------------------------------------------------
\* The store keeps its promise: whatever overlaps, is rejected, cancelled,
\* fails or dies, the database holds the accepted writes in their order, and
\* a stop that returns has saved them all or raises (lines 131-150, 289-325).
IsResultCache == Contract!CacheSpec

\* While no call is under way and the writer has nothing to do, get answers
\* what the database holds, also where several calls on one key overlapped:
\* a cancelled one took back its own value and nobody else's (lines 279-287),
\* and the accepted ones arrived in the order in which they changed the memory
\* copy.  Three accidents are exempt, on their keys, which the code does not
\* prevent: a call is Overtaken in the line, a cancelled one puts back a
\* Stale value, or removes its Twin.
ServedIsSaved ==
  (/\ owner = "open" /\ writer = "idle" /\ queue = <<>>
   /\ \A p \in Putters : ~UnderWay(p))
    => \A k \in Keys : memory[k] = rows[k] \/ k \in crossed

\* The writer is gone and nobody makes room for _STOP.
Jammed == writer = "dead" /\ Full /\ owner = "queueing"

\* A stop ends, however full the queue is, however many putters wait in the
\* line and whoever is cancelled; only an error of the database while the
\* queue is full leaves it waiting for good (line 120).
EveryStopEnds == owner \in {"queueing", "joining"} ~> owner = "closed" \/ Jammed
=============================================================================
