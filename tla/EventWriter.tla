---------------------------- MODULE EventWriter ----------------------------
(***************************************************************************)
(* AsyncEventWriter of src/src/core/events.py: append_event, the two       *)
(* writer loops, stop, and the restart after a loop ended unexpectedly.    *)
(*                                                                         *)
(* Two bounded asyncio queues: "main" holds events for events.jsonl,       *)
(* "safe" holds lines for the fail-safe directory events.queue.  Each has  *)
(* a task that takes items in batches.  Events that the main queue cannot  *)
(* hold, and batches that events.jsonl does not take, go to the safe       *)
(* queue; lines that the safe queue cannot hold are dropped and counted.   *)
(*                                                                         *)
(* Everything runs on one event loop: an action is what happens between    *)
(* two points where a coroutine really waits.  The overflow policies are   *)
(* the defaults, drop_oldest on both queues.                               *)
(***************************************************************************)
EXTENDS Naturals, SequencesExt

CONSTANTS
  Callers,    \* the coroutines that call append_event
  MaxEvents,  \* bound on the events
  QueueSize,  \* EVENT_WRITER_QUEUE_MAXSIZE
  SafeSize,   \* FAIL_SAFE_WRITER_QUEUE_MAXSIZE
  BatchSize,  \* EVENT_WRITER_MAX_BATCH_SIZE
  MaxFaults   \* bound on failed writes, to events.jsonl or to events.queue

ASSUME EventWriterAssumption ==
  /\ "stop" \notin Callers
  /\ MaxEvents \in Nat /\ MaxFaults \in Nat
  /\ {QueueSize, SafeSize, BatchSize} \subseteq Nat \ {0}

VARIABLES
  queue,    \* the items of the two queues
  open,     \* their unfinished tasks: put and not yet task_done
  dropped,  \* events counted by fail_safe_dropped_total
  tasks,    \* every task that was created, in order of creation
  current,  \* self._task and self._fail_safe_task, 0 for None
  running,  \* self._running
  log,      \* events.jsonl
  stored,   \* events in the files of events.queue
  failed,   \* events in a write to events.queue that raised for good
  call,     \* the calls of append_event and stop that have not returned
  accepted, \* the number of events given to append_event
  faults

queues == <<queue, open, dropped>>
writerVars == <<queues, tasks, current, running, log, stored, failed, call,
          accepted, faults>>

Kinds == {"main", "safe"}
Stop == 0            \* the None that ends a loop
Events == 1..MaxEvents
Waiting == {"get", "gather", "write", "retry", "last", "dying"}
Finished == {"done", "cancelled", "failed"}
Labels == {"idle", "store", "await", "own", "joinMain", "joinSafe",
           "awaitMain", "awaitSafe", "drainMain", "drainSafe", "returned",
           "raised"}

\* batch is what a task took and has not marked task_done, lines what it
\* drained when it was cancelled.
NewTask(k) ==
  [kind |-> k, pc |-> "get", batch |-> <<>>, lines |-> {}, cancel |-> FALSE]
Idle == [pc |-> "idle", event |-> Stop, lines |-> {}, awaits |-> {}]

WriterInit ==
  /\ queue = [k \in Kinds |-> <<>>] /\ open = [k \in Kinds |-> 0]
  /\ dropped = {}
  /\ tasks = <<>> /\ current = [k \in Kinds |-> 0] /\ running = FALSE
  /\ log = <<>> /\ stored = {} /\ failed = {}
  /\ call = [p \in Callers \cup {"stop"} |-> Idle]
  /\ accepted = 0 /\ faults = 0

Fault == faults < MaxFaults /\ faults' = faults + 1

-----------------------------------------------------------------------------
(* The two queues, as the record [queue, open, dropped]. *)

Now == [queue |-> queue, open |-> open, dropped |-> dropped]
Become(s) == queue' = s.queue /\ open' = s.open /\ dropped' = s.dropped

Put(s, k, x) == [s EXCEPT !.queue[k] = Append(@, x), !.open[k] = @ + 1]

\* Mutant: the evicted item is not marked task_done.
ReplaceOldestOpen(s, k, x) ==
  [s EXCEPT !.queue[k] = Append(Tail(@), x), !.open[k] = @ + 1]

ReplaceOldest(s, k, x) == [s EXCEPT !.queue[k] = Append(Tail(@), x)]
Done(s, k, n) == [s EXCEPT !.open[k] = @ - n]

\* _enqueue_fail_safe_line_nonblocking
SpillLine(s, e) ==
  LET oldest == Head(s.queue["safe"])
  IN IF Len(s.queue["safe"]) < SafeSize THEN Put(s, "safe", e)
     ELSE IF oldest = Stop
       THEN [ReplaceOldest(s, "safe", Stop) EXCEPT !.dropped = @ \cup {e}]
       ELSE [ReplaceOldest(s, "safe", e) EXCEPT !.dropped = @ \cup {oldest}]
SpillLines(s, lines) ==
  LET after[i \in 0..Len(lines)] ==
        IF i = 0 THEN s ELSE SpillLine(after[i - 1], lines[i])
  IN after[Len(lines)]

\* Mutant: the queue takes one event too many.
EnqueueOneTooMany(s, e) ==
  IF Len(s.queue["main"]) <= QueueSize THEN Put(s, "main", e)
  ELSE SpillLine(ReplaceOldest(s, "main", e), Head(s.queue["main"]))

\* the queue operations of append_event
Enqueue(s, e) ==
  LET oldest == Head(s.queue["main"])
  IN IF Len(s.queue["main"]) < QueueSize THEN Put(s, "main", e)
     ELSE IF oldest = Stop
       THEN SpillLine(ReplaceOldest(s, "main", Stop), e)
       ELSE SpillLine(ReplaceOldest(s, "main", e), oldest)

Pending(s, k) == ToSet(s.queue[k]) \ {Stop}

\* drain_pending_main_queue_lines and drain_pending_fail_safe_queue_lines
Drain(s, k) ==
  [s EXCEPT !.queue[k] = <<>>, !.open[k] = @ - Len(s.queue[k])]

-----------------------------------------------------------------------------
(* The writer loops *)

Task(t, pcs) == t \in DOMAIN tasks /\ tasks[t].pc \in pcs
Live(t, pcs) == Task(t, pcs) /\ ~tasks[t].cancel
IsMain(t) == tasks[t].kind = "main"
Becomes(t, pc, batch) ==
  tasks' = [tasks EXCEPT ![t].pc = pc, ![t].batch = batch, ![t].lines = {},
                         ![t].cancel = FALSE]
Unwritten(t) == ToSet(tasks[t].batch) \cup tasks[t].lines

\* The task takes what is there, up to a full batch or the stop item; the
\* stop item ends the loop at once, or is put back for the next round.
Collect(t) ==
  /\ Live(t, {"get", "gather"})
  /\ LET k == tasks[t].kind
         items == queue[k]
         full == BatchSize - Len(tasks[t].batch)
     IN \E n \in 0..Len(items) :
          /\ items # <<>> /\ n <= full
          /\ \A i \in 1..n : items[i] # Stop
          /\ LET rest == SubSeq(items, n + 1, Len(items))
                 batch == tasks[t].batch \o SubSeq(items, 1, n)
             IN \/ /\ n = full \/ rest = <<>>
                   /\ queue' = [queue EXCEPT ![k] = rest]
                   /\ open' = open
                   /\ Becomes(t, IF n = full THEN "write" ELSE "gather", batch)
                \/ /\ n < full /\ rest # <<>> /\ Head(rest) = Stop
                   /\ batch = <<>>
                   /\ queue' = [queue EXCEPT ![k] = Tail(rest)]
                   /\ open' = [open EXCEPT ![k] = @ - 1]
                   /\ Becomes(t, "done", batch)
                \/ /\ n < full /\ rest # <<>> /\ Head(rest) = Stop
                   /\ batch # <<>>
                   /\ queue' = [queue EXCEPT ![k] = Append(Tail(rest), Stop)]
                   /\ open' = open
                   /\ Becomes(t, "write", batch)
  /\ UNCHANGED <<dropped, current, running, log, stored, failed, call,
                 accepted, faults>>

FlushTimer(t) ==
  /\ Live(t, {"gather"})
  /\ Becomes(t, "write", tasks[t].batch)
  /\ UNCHANGED <<queues, current, running, log, stored, failed, call,
                 accepted, faults>>

LogWrite(t) ==
  /\ Live(t, {"write"}) /\ IsMain(t)
  /\ log' = log \o tasks[t].batch
  /\ Become(Done(Now, "main", Len(tasks[t].batch)))
  /\ Becomes(t, "get", <<>>)
  /\ UNCHANGED <<current, running, stored, failed, call, accepted, faults>>

\* Mutant: the first event of the batch counts as written.
LogWriteFailsOffByOne(t) ==
  /\ Live(t, {"write"}) /\ IsMain(t) /\ Fault
  /\ Become(Done(SpillLines(Now, Tail(tasks[t].batch)), "main",
                 Len(tasks[t].batch)))
  /\ Becomes(t, "get", <<>>)
  /\ UNCHANGED <<current, running, log, stored, failed, call, accepted>>

\* Mutant: the batch is written again instead of spilled.
LogWriteFailsRetries(t) ==
  /\ Live(t, {"write"}) /\ IsMain(t) /\ Fault
  /\ \E n \in 0..Len(tasks[t].batch) :
       log' = log \o SubSeq(tasks[t].batch, 1, n)
  /\ UNCHANGED <<queues, tasks, current, running, stored, failed, call,
                 accepted>>

\* lock timeout, or an error after a part of the batch reached the file:
\* zero characters count as written, so the whole batch is spilled
LogWriteFails(t) ==
  /\ Live(t, {"write"}) /\ IsMain(t) /\ Fault
  /\ \E n \in 0..Len(tasks[t].batch) :
       log' = log \o SubSeq(tasks[t].batch, 1, n)
  /\ Become(Done(SpillLines(Now, tasks[t].batch), "main",
                 Len(tasks[t].batch)))
  /\ Becomes(t, "get", <<>>)
  /\ UNCHANGED <<current, running, stored, failed, call, accepted>>

SafeWrite(t) ==
  /\ Live(t, {"write", "retry"}) /\ ~IsMain(t)
  /\ stored' = stored \cup ToSet(tasks[t].batch)
  /\ Become(Done(Now, "safe", Len(tasks[t].batch)))
  /\ Becomes(t, "get", <<>>)
  /\ UNCHANGED <<current, running, log, failed, call, accepted, faults>>

\* an error is answered by one more try; the second one ends the task
SafeWriteFails(t) ==
  /\ Live(t, {"write", "retry"}) /\ ~IsMain(t) /\ Fault
  /\ IF tasks[t].pc = "write"
       THEN /\ Becomes(t, "retry", tasks[t].batch)
            /\ UNCHANGED <<queues, failed>>
       ELSE /\ Becomes(t, "failed", <<>>)
            /\ failed' = failed \cup ToSet(tasks[t].batch)
            /\ Become(Done(Now, "safe", Len(tasks[t].batch)))
  /\ UNCHANGED <<current, running, log, stored, call, accepted>>

\* CancelledError: the task drains what its queue still holds into one file
EndCancelled(t, s) ==
  LET k == tasks[t].kind
      pending == Pending(s, k)
  IN /\ Become(Drain(s, k))
     /\ tasks' = [tasks EXCEPT
          ![t].pc = IF pending = {} THEN "cancelled" ELSE "dying",
          ![t].batch = <<>>, ![t].lines = pending, ![t].cancel = FALSE]

\* What cancel() does depends on where the task waits.  A batch that is being
\* gathered belongs to no handler.  The thread that writes a batch cannot be
\* stopped, so the batch reaches the file (here: at once) or not.
Cancelled(t) ==
  /\ Task(t, Waiting)
  /\ tasks[t].cancel
  /\ LET batch == tasks[t].batch
         size == Len(batch)
         at == tasks[t].pc
     IN \/ /\ at \in {"get", "gather"}
           /\ EndCancelled(t, Now)
           /\ UNCHANGED <<log, stored>>
        \/ /\ at = "write" /\ IsMain(t)
           /\ log' \in {log, log \o batch}
           /\ EndCancelled(t, Done(SpillLines(Now, batch), "main", size))
           /\ UNCHANGED stored
        \/ /\ at = "write" /\ ~IsMain(t)
           /\ stored' \in {stored, stored \cup ToSet(batch)}
           /\ Becomes(t, "last", batch)
           /\ UNCHANGED <<queues, log>>
        \/ /\ at \in {"retry", "last"}
           /\ stored' \in {stored, stored \cup ToSet(batch)}
           /\ EndCancelled(t, Done(Now, "safe", size))
           /\ UNCHANGED log
        \/ /\ at = "dying"
           /\ stored' \in {stored, stored \cup tasks[t].lines}
           /\ Becomes(t, "cancelled", <<>>)
           /\ UNCHANGED <<queues, log>>
  /\ UNCHANGED <<current, running, failed, call, accepted, faults>>

\* the writes that follow a cancellation
LastWrite(t) ==
  /\ Live(t, {"last", "dying"})
  /\ stored' = stored \cup Unwritten(t)
  /\ IF tasks[t].pc = "last"
       THEN EndCancelled(t, Done(Now, "safe", Len(tasks[t].batch)))
       ELSE Becomes(t, "cancelled", <<>>) /\ UNCHANGED queues
  /\ UNCHANGED <<current, running, log, failed, call, accepted, faults>>

LastWriteFails(t) ==
  /\ Live(t, {"last", "dying"}) /\ Fault
  /\ failed' = failed \cup Unwritten(t)
  /\ Become(Done(Now, "safe", Len(tasks[t].batch)))
  /\ Becomes(t, "failed", <<>>)
  /\ UNCHANGED <<current, running, log, stored, call, accepted>>

-----------------------------------------------------------------------------
(* start, and the restart in _handle_unexpected_task_exit *)

Ended(k) == current[k] # 0 /\ tasks[current[k]].pc \in Finished
SomeEnded == \E k \in Kinds : Ended(k)
Calls(p, pcs) == call[p].pc \in pcs
Returns(p) == call' = [call EXCEPT ![p] = Idle]

\* the end of start and the put of append_event
StartAndEnqueue(p, s, e) ==
  /\ running' = TRUE
  /\ Become(Enqueue(s, e))
  /\ IF running THEN UNCHANGED <<tasks, current>>
     ELSE /\ tasks' = tasks \o <<NewTask("main"), NewTask("safe")>>
          /\ current' = [main |-> Len(tasks) + 1, safe |-> Len(tasks) + 2]
  /\ Returns(p)

\* The handler is through: the tasks are forgotten whatever they are by now,
\* and append_event goes on as if nothing had been started.
Restarted(p, s, e) ==
  IF p = "stop"
    THEN /\ running' = FALSE
         /\ current' = [k \in Kinds |-> 0]
         /\ Become(s)
         /\ call' = [call EXCEPT ![p] = [Idle EXCEPT !.pc = "returned"]]
         /\ UNCHANGED tasks
    ELSE /\ running' = TRUE
         /\ tasks' = tasks \o <<NewTask("main"), NewTask("safe")>>
         /\ current' = [main |-> Len(tasks) + 1, safe |-> Len(tasks) + 2]
         /\ Become(Enqueue(s, e))
         /\ Returns(p)

\* the pending lines are safe: cancel the task that still runs, await it
CancelOthers(p, s, e) ==
  LET others == {current[k] : k \in {j \in Kinds : current[j] # 0 /\ ~Ended(j)}}
  IN IF others = {} THEN Restarted(p, s, e)
     ELSE /\ tasks' = [t \in DOMAIN tasks |->
                        IF t \in others THEN [tasks[t] EXCEPT !.cancel = TRUE]
                        ELSE tasks[t]]
          /\ Become(s)
          /\ call' = [call EXCEPT ![p] = [pc |-> "await", event |-> e,
                                          lines |-> {}, awaits |-> others]]
          /\ UNCHANGED <<current, running>>

HandleExit(p, e) ==
  LET pending == Pending(Now, "main") \cup Pending(Now, "safe")
      s == Drain(Drain(Now, "main"), "safe")
  IN IF pending = {} THEN CancelOthers(p, s, e)
     ELSE /\ Become(s)
          /\ call' = [call EXCEPT ![p] = [pc |-> "store", event |-> e,
                                          lines |-> pending, awaits |-> {}]]
          /\ UNCHANGED <<tasks, current, running>>

\* the exception of a failed write reaches the caller of the handler
Raised(p) ==
  call' = [call EXCEPT ![p] =
            [Idle EXCEPT !.pc = IF p = "stop" THEN "raised" ELSE "own",
                         !.event = call[p].event]]

StorePending(p) ==
  /\ Calls(p, {"store"})
  /\ stored' = stored \cup call[p].lines
  /\ CancelOthers(p, Now, call[p].event)
  /\ UNCHANGED <<log, failed, accepted, faults>>

StorePendingFails(p) ==
  /\ Calls(p, {"store"}) /\ Fault
  /\ failed' = failed \cup call[p].lines
  /\ Raised(p)
  /\ UNCHANGED <<queues, tasks, current, running, log, stored, accepted>>

AwaitOthers(p) ==
  /\ Calls(p, {"await"})
  /\ \/ /\ \E t \in call[p].awaits : Task(t, {"failed"})
        /\ Raised(p)
        /\ UNCHANGED <<queues, tasks, current, running>>
     \/ /\ \A t \in call[p].awaits : Task(t, {"done", "cancelled"})
        /\ Restarted(p, Now, call[p].event)
  /\ UNCHANGED <<log, stored, failed, accepted, faults>>

-----------------------------------------------------------------------------
(* append_event of the module *)

AppendEvent(p) ==
  /\ Calls(p, {"idle"}) /\ Calls("stop", {"idle"})
  /\ accepted < MaxEvents /\ accepted' = accepted + 1
  /\ IF SomeEnded THEN HandleExit(p, accepted')
     ELSE StartAndEnqueue(p, Now, accepted')
  /\ UNCHANGED <<log, stored, failed, faults>>

\* the writer raised: the event gets a file of its own in events.queue
StoreOwn(p) ==
  /\ Calls(p, {"own"})
  /\ stored' = stored \cup {call[p].event}
  /\ Returns(p)
  /\ UNCHANGED <<queues, tasks, current, running, log, failed, accepted,
                 faults>>

StoreOwnFails(p) ==
  /\ Calls(p, {"own"}) /\ Fault
  /\ failed' = failed \cup {call[p].event}
  /\ Returns(p)
  /\ UNCHANGED <<queues, tasks, current, running, log, stored, accepted>>

-----------------------------------------------------------------------------
(* stop, called once the writer has left _EVENT_WRITERS *)

StopAt(label) == call' = [call EXCEPT !["stop"].pc = label]
Awaiting == [main |-> "awaitMain", safe |-> "awaitSafe"]
Draining == [main |-> "drainMain", safe |-> "drainSafe"]
StopAwaits(k) ==
  call' = [call EXCEPT !["stop"].pc = Awaiting[k],
                       !["stop"].lines = {},
                       !["stop"].awaits = {current[k]} \ {0}]

StopBegin ==
  /\ Calls("stop", {"idle"}) /\ running
  /\ IF SomeEnded THEN HandleExit("stop", Stop)
     ELSE StopAt("joinMain") /\ UNCHANGED <<queues, tasks, current, running>>
  /\ UNCHANGED <<log, stored, failed, accepted, faults>>

\* Mutant: stop does not wait for the main queue.
JoinMainAtOnce ==
  /\ Calls("stop", {"joinMain"})
  /\ StopAt("joinSafe")
  /\ UNCHANGED <<queues, tasks, current, running, log, stored, failed,
                 accepted, faults>>

JoinMain ==
  /\ Calls("stop", {"joinMain"}) /\ open["main"] = 0
  /\ StopAt("joinSafe")
  /\ UNCHANGED <<queues, tasks, current, running, log, stored, failed,
                 accepted, faults>>

JoinSafe ==
  /\ Calls("stop", {"joinSafe"}) /\ open["safe"] = 0
  /\ Len(queue["main"]) < QueueSize
  /\ Become(Put(Put(Now, "main", Stop), "safe", Stop))
  /\ StopAwaits("main")
  /\ UNCHANGED <<tasks, current, running, log, stored, failed, accepted,
                 faults>>

Advance(k) ==
  IF k = "main" THEN StopAwaits("safe") /\ UNCHANGED <<current, running>>
  ELSE /\ StopAt("returned")
       /\ current' = [j \in Kinds |-> 0] /\ running' = FALSE

\* what came after a task was cancelled is drained by stop
AwaitTask(k) ==
  /\ Calls("stop", {Awaiting[k]})
  /\ LET Awaited(pc) == \A t \in call["stop"].awaits : Task(t, {pc})
     IN \/ /\ Awaited("done")
           /\ Advance(k) /\ UNCHANGED queues
        \/ /\ ~Awaited("done") /\ Awaited("cancelled")
           /\ Become(Drain(Now, k))
           /\ IF Pending(Now, k) = {} THEN Advance(k)
              ELSE /\ call' = [call EXCEPT !["stop"].pc = Draining[k],
                                           !["stop"].lines = Pending(Now, k)]
                   /\ UNCHANGED <<current, running>>
        \/ /\ ~Awaited("done") /\ Awaited("failed")
           /\ StopAt("raised") /\ UNCHANGED <<queues, current, running>>
  /\ UNCHANGED <<tasks, log, stored, failed, accepted, faults>>

StoreDrained(k) ==
  /\ Calls("stop", {Draining[k]})
  /\ stored' = stored \cup call["stop"].lines
  /\ Advance(k)
  /\ UNCHANGED <<queues, tasks, log, failed, accepted, faults>>

StoreDrainedFails(k) ==
  /\ Calls("stop", {Draining[k]}) /\ Fault
  /\ failed' = failed \cup call["stop"].lines
  /\ StopAt("raised")
  /\ UNCHANGED <<queues, tasks, current, running, log, stored, accepted>>

-----------------------------------------------------------------------------
Writers ==
  \E t \in DOMAIN tasks :
    \/ Collect(t) \/ FlushTimer(t)
    \/ LogWrite(t) \/ LogWriteFails(t) \/ SafeWrite(t) \/ SafeWriteFails(t)
    \/ Cancelled(t) \/ LastWrite(t) \/ LastWriteFails(t)
Restarts ==
  \E p \in DOMAIN call :
    StorePending(p) \/ StorePendingFails(p) \/ AwaitOthers(p)
Appends == \E p \in Callers : AppendEvent(p) \/ StoreOwn(p) \/ StoreOwnFails(p)
Stops ==
  \/ StopBegin \/ JoinMain \/ JoinSafe
  \/ \E k \in Kinds : AwaitTask(k) \/ StoreDrained(k) \/ StoreDrainedFails(k)

WriterNext == Writers \/ Restarts \/ Appends \/ Stops

WriterSpec == WriterInit /\ [][WriterNext]_writerVars

\* The event loop runs what is ready, and the threads that write come to an
\* end (a wait for the lock of events.jsonl takes one second at most).  Who
\* logs or stops does so when he likes.
Progress ==
  \/ Writers \/ Restarts
  \/ Stops /\ ~Calls("stop", {"idle"})
FairWriterSpec == WriterSpec /\ WF_writerVars(Progress)

-----------------------------------------------------------------------------
(* Properties *)

\* Types, and the sizes of the queues: no put_nowait meets a full queue.
WriterTypeOK ==
  /\ queue \in [Kinds -> Seq(0..accepted)]
  /\ Len(queue["main"]) <= QueueSize /\ Len(queue["safe"]) <= SafeSize
  /\ open \in [Kinds -> Nat]
  /\ tasks \in Seq([kind : Kinds, pc : Waiting \cup Finished,
                    batch : Seq(1..accepted), lines : SUBSET (1..accepted),
                    cancel : BOOLEAN])
  /\ current \in [Kinds -> 0..Len(tasks)] /\ running \in BOOLEAN
  /\ log \in Seq(1..accepted)
  /\ {dropped, stored, failed} \subseteq SUBSET (1..accepted)
  /\ call \in [Callers \cup {"stop"} ->
                 [pc : Labels, event : 0..accepted,
                  lines : SUBSET (1..accepted), awaits : SUBSET DOMAIN tasks]]
  /\ accepted \in 0..MaxEvents /\ faults \in 0..MaxFaults

Held ==
  Pending(Now, "main") \cup Pending(Now, "safe")
  \cup UNION {Unwritten(t) : t \in DOMAIN tasks}
  \cup UNION {call[p].lines : p \in DOMAIN call}
  \cup ({call[p].event : p \in Callers} \ {Stop})
OnDisk == ToSet(log) \cup stored

WriterDied == \E t \in DOMAIN tasks : tasks[t].pc = "failed"

\* No loss is silent: as long as no loop was ended by an error, an event that
\* was given to append_event is in a queue, in a batch, in events.jsonl or in
\* events.queue, or fail_safe_dropped_total counts it.  The contract at lines
\* 40-44 says more, that every dropped event is kept for replay, and is NOT
\* met: a full fail-safe queue drops lines for good (lines 357-376).
NothingVanishes == WriterDied \/ (1..accepted) \ dropped \subseteq Held \cup OnDisk

\* No event is twice in events.jsonl, even when two pairs of loops read the
\* same queues; with one pair the file has them in the order of the calls.
LogOrder ==
  \A i, j \in DOMAIN log :
    i < j => log[i] # log[j] /\ (WriterDied \/ log[i] < log[j])

\* stop leaves nothing behind: when it returns, what is not on disk had been
\* dropped and counted before.  The lifecycle contract of shutdown_event_writer
\* (lines 661-663) says that every unwritten entry is moved to events.queue,
\* which is NOT so for those entries.
StopFlushes ==
  Calls("stop", {"returned"}) =>
    WriterDied \/ (1..accepted) \ dropped \subseteq OnDisk

\* stop comes to an end, unless an error ended a loop.
StopReturns ==
  Calls("stop", {"joinMain"})
    ~> (Calls("stop", {"returned", "raised"}) \/ WriterDied)

\* "any unwritten accepted entries are moved to fail-safe events.queue": but
\* for the lines that a full fail-safe queue drops, an event can only be
\* missing because a write to events.queue raised.
AcceptedIsKept == 1..accepted \subseteq Held \cup OnDisk \cup failed \cup dropped
=============================================================================
