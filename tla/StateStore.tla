----------------------------- MODULE StateStore -----------------------------
(***************************************************************************)
(* load_state and save_state of src/src/core/state_store.py, called by     *)
(* processes that share one state file.                                    *)
(*                                                                         *)
(* A save takes the file lock (flock on <state>.lock, whose content names  *)
(* the holder), writes <state>.tmp, renames it over the state file,        *)
(* releases the lock and removes <state>.tmp if there is one.  The removal *)
(* comes after the release and also when the lock was never acquired, so   *)
(* it meets the .tmp of other processes.  Files are inodes here and the    *)
(* two names point to them: an open handle keeps its inode when the name   *)
(* goes away or is renamed.                                                *)
(*                                                                         *)
(* A lock window (DEFAULT_LOCK_TIMEOUT_S) allows a bounded number of       *)
(* attempts, since the pauses between them do not go below the backoff.    *)
(***************************************************************************)
EXTENDS Naturals, Sequences

CONSTANTS
  Procs,         \* the processes (one pid each)
  Payloads,      \* the states that are saved
  Default,       \* _default_state
  Partial,       \* the content of a file that is being written
  None,          \* no process
  StaleRetries,  \* DEFAULT_STALE_LOCK_RETRIES
  MaxTries,      \* bound on the attempts in a lock window
  MaxSaves,      \* bound on the calls of save_state
  MaxFaults      \* bound on the I/O errors and the processes that die

ASSUME StateStoreAssumption ==
  /\ None \notin Procs
  /\ Partial \notin Payloads /\ Default \notin Payloads /\ Partial # Default
  /\ StaleRetries \in Nat /\ MaxTries \in Nat
  /\ MaxSaves \in Nat /\ MaxFaults \in Nat

VARIABLES
  file,       \* inode -> content
  state, tmp, \* the inodes that the two names point to, 0 for none
  lock,       \* the holder of the file lock
  pid,        \* the process that the content of the lock file names
  pc, payload, fd,
  tries,      \* attempts in the current window
  windows,    \* stale_lock_retries
  installed,  \* os.replace of the save in progress took place
  returned,   \* how the last save ended
  seen,       \* what load_state gave last
  saves, faults

saveVars == <<payload, fd, tries, windows, installed, returned>>
vars == <<file, state, tmp, lock, pid, pc, saveVars, seen, saves, faults>>

PCs == {"idle", "locking", "waiting", "metadata", "open", "write", "replace",
        "release", "unlink", "dead"}

Init ==
  /\ file \in {<<>>} \cup {<<v>> : v \in Payloads} /\ state = Len(file)
  /\ tmp = 0 /\ lock = None /\ pid = None
  /\ pc = [p \in Procs |-> "idle"]
  /\ payload = [p \in Procs |-> Default]
  /\ fd = [p \in Procs |-> 0]
  /\ tries = [p \in Procs |-> 0] /\ windows = [p \in Procs |-> 0]
  /\ installed = [p \in Procs |-> FALSE]
  /\ returned = [p \in Procs |-> "none"]
  /\ seen = [p \in Procs |-> Default]
  /\ saves = 0 /\ faults = 0

At(p, label) == pc[p] = label
Goto(p, label) == pc' = [pc EXCEPT ![p] = label]
Fault == faults < MaxFaults /\ faults' = faults + 1

-----------------------------------------------------------------------------
(* load_state *)

Content == IF state = 0 \/ file[state] = Partial THEN Default ELSE file[state]

Load(p) ==
  /\ At(p, "idle")
  /\ seen' = [seen EXCEPT ![p] = Content]
  /\ UNCHANGED <<file, state, tmp, lock, pid, pc, saveVars, saves, faults>>

\* An OSError of the read gives the default state.
LoadFails(p) ==
  /\ At(p, "idle") /\ Fault
  /\ seen' = [seen EXCEPT ![p] = Default]
  /\ UNCHANGED <<file, state, tmp, lock, pid, pc, saveVars, saves>>

-----------------------------------------------------------------------------
(* save_state: _acquire_state_lock *)

SaveBegin(p, v) ==
  /\ At(p, "idle") /\ saves < MaxSaves
  /\ saves' = saves + 1
  /\ payload' = [payload EXCEPT ![p] = v]
  /\ returned' = [returned EXCEPT ![p] = "none"]
  /\ Goto(p, "locking")
  /\ UNCHANGED <<file, state, tmp, lock, pid, fd, tries, windows, installed,
                 seen, faults>>

TryLock(p) ==
  /\ At(p, "locking")
  /\ \/ lock = None /\ lock' = p /\ Goto(p, "metadata")
     \/ lock # None /\ Goto(p, "waiting") /\ UNCHANGED lock
  /\ UNCHANGED <<file, state, tmp, pid, saveVars, seen, saves, faults>>

Backoff(p) ==
  /\ At(p, "waiting") /\ tries[p] < MaxTries
  /\ tries' = [tries EXCEPT ![p] = @ + 1]
  /\ Goto(p, "locking")
  /\ UNCHANGED <<file, state, tmp, lock, pid, payload, fd, windows, installed,
                 returned, seen, saves, faults>>

\* _read_lock_pid: nothing while the content is being replaced.
ReadPids == {pid} \cup {None : q \in {q \in Procs : At(q, "metadata")}}

\* _sync_is_pid_alive
Alive(q) == q \in Procs /\ ~At(q, "dead")

\* The end of a window: a living holder or the last window is an error, which
\* goes through the finally of save_state without a lock.
GivesUp(p) ==
  /\ At(p, "waiting")
  /\ \E q \in ReadPids : Alive(q) \/ windows[p] >= StaleRetries
  /\ Goto(p, "unlink")
  /\ UNCHANGED <<file, state, tmp, lock, pid, saveVars, seen, saves, faults>>

\* Mutant of NextWindow: stale_lock_retries is reset with the window.
NextWindowUncounted(p) ==
  /\ At(p, "waiting")
  /\ \E q \in ReadPids : ~Alive(q)
  /\ tries' = [tries EXCEPT ![p] = 0]
  /\ Goto(p, "locking")
  /\ UNCHANGED <<file, state, tmp, lock, pid, payload, fd, windows, installed,
                 returned, seen, saves, faults>>

NextWindow(p) ==
  /\ At(p, "waiting") /\ windows[p] < StaleRetries
  /\ \E q \in ReadPids : ~Alive(q)
  /\ windows' = [windows EXCEPT ![p] = @ + 1]
  /\ tries' = [tries EXCEPT ![p] = 0]
  /\ Goto(p, "locking")
  /\ UNCHANGED <<file, state, tmp, lock, pid, payload, fd, installed, returned,
                 seen, saves, faults>>

WriteMetadata(p) ==
  /\ At(p, "metadata")
  /\ pid' = p
  /\ Goto(p, "open")
  /\ UNCHANGED <<file, state, tmp, lock, saveVars, seen, saves, faults>>

\* The handle is closed, which releases the lock, and the error goes on.
WriteMetadataFails(p) ==
  /\ At(p, "metadata") /\ Fault
  /\ pid' \in {pid, None, p} /\ lock' = None
  /\ Goto(p, "unlink")
  /\ UNCHANGED <<file, state, tmp, saveVars, seen, saves>>

-----------------------------------------------------------------------------
(* save_state: _sync_write_state_atomically *)

\* open(tmp_path, "w") creates the file or truncates the one that is there.
OpenTmp(p) ==
  /\ At(p, "open")
  /\ \/ /\ tmp = 0
        /\ file' = Append(file, Partial)
        /\ tmp' = Len(file) + 1
     \/ /\ tmp # 0
        /\ file' = [file EXCEPT ![tmp] = Partial]
        /\ UNCHANGED tmp
  /\ fd' = [fd EXCEPT ![p] = tmp']
  /\ Goto(p, "write")
  /\ UNCHANGED <<state, lock, pid, payload, tries, windows, installed,
                 returned, seen, saves, faults>>

WriteTmp(p) ==
  /\ At(p, "write")
  /\ file' = [file EXCEPT ![fd[p]] = payload[p]]
  /\ Goto(p, "replace")
  /\ UNCHANGED <<state, tmp, lock, pid, saveVars, seen, saves, faults>>

\* open, write or fsync raises.
WriteFails(p) ==
  /\ pc[p] \in {"open", "write"} /\ Fault
  /\ Goto(p, "release")
  /\ UNCHANGED <<file, state, tmp, lock, pid, saveVars, seen, saves>>

\* os.replace
Replace(p) ==
  /\ At(p, "replace") /\ tmp # 0
  /\ state' = tmp /\ tmp' = 0
  /\ installed' = [installed EXCEPT ![p] = TRUE]
  /\ Goto(p, "release")
  /\ UNCHANGED <<file, lock, pid, payload, fd, tries, windows, returned, seen,
                 saves, faults>>

\* Another process removed the file (FileNotFoundError), or an I/O error.
ReplaceFails(p) ==
  /\ At(p, "replace")
  /\ \/ tmp = 0 /\ UNCHANGED faults
     \/ Fault
  /\ Goto(p, "release")
  /\ UNCHANGED <<file, state, tmp, lock, pid, saveVars, seen, saves>>

-----------------------------------------------------------------------------
(* save_state: finally *)

Release(p) ==
  /\ At(p, "release")
  /\ lock' = None
  /\ Goto(p, "unlink")
  /\ UNCHANGED <<file, state, tmp, pid, saveVars, seen, saves, faults>>

\* The call is over; its locals go away.
Forgets(p) ==
  /\ payload' = [payload EXCEPT ![p] = Default]
  /\ fd' = [fd EXCEPT ![p] = 0]
  /\ tries' = [tries EXCEPT ![p] = 0]
  /\ windows' = [windows EXCEPT ![p] = 0]
  /\ installed' = [installed EXCEPT ![p] = FALSE]

Returns(p, how) ==
  /\ Goto(p, "idle") /\ Forgets(p)
  /\ returned' = [returned EXCEPT ![p] = how]
  /\ UNCHANGED <<file, state, lock, pid, seen, saves>>

\* Mutant of Unlink: the error of the write is swallowed by the finally.
UnlinkSwallows(p) ==
  /\ At(p, "unlink")
  /\ tmp' = 0
  /\ Returns(p, "ok")
  /\ UNCHANGED faults

Unlink(p) ==
  /\ At(p, "unlink")
  /\ tmp' = 0
  /\ Returns(p, IF installed[p] THEN "ok" ELSE "raised")
  /\ UNCHANGED faults

UnlinkFails(p) ==
  /\ At(p, "unlink") /\ Fault
  /\ Returns(p, "raised")
  /\ UNCHANGED tmp

\* The process is killed; the kernel closes its handles.
Die(p) ==
  /\ ~At(p, "dead") /\ Fault
  /\ pid' \in IF At(p, "metadata") THEN {pid, None, p} ELSE {pid}
  /\ lock' = IF lock = p THEN None ELSE lock
  /\ Goto(p, "dead") /\ Forgets(p)
  /\ UNCHANGED <<file, state, tmp, returned, seen, saves>>

-----------------------------------------------------------------------------
Waits(p) == TryLock(p) \/ Backoff(p) \/ GivesUp(p) \/ NextWindow(p)

Writes(p) ==
  \/ WriteMetadata(p) \/ OpenTmp(p) \/ WriteTmp(p) \/ Replace(p)
  \/ ReplaceFails(p) \/ Release(p) \/ Unlink(p)

Fails(p) ==
  \/ LoadFails(p) \/ WriteMetadataFails(p) \/ WriteFails(p) \/ UnlinkFails(p)
  \/ Die(p)

Next ==
  \E p \in Procs :
    \/ Load(p) \/ \E v \in Payloads : SaveBegin(p, v)
    \/ Waits(p) \/ Writes(p) \/ Fails(p)

Spec == Init /\ [][Next]_vars

\* The timers of a process that waits run on; the holder of the lock may hang
\* in its file system or be stopped.
Fairness == \A p \in Procs : WF_vars(Waits(p))

FairSpec == Spec /\ Fairness

-----------------------------------------------------------------------------
Handles == 0..Len(file)

TypeOK ==
  /\ file \in Seq(Payloads \cup {Partial})
  /\ state \in Handles /\ tmp \in Handles
  /\ lock \in Procs \cup {None} /\ pid \in Procs \cup {None}
  /\ pc \in [Procs -> PCs]
  /\ payload \in [Procs -> Payloads \cup {Default}]
  /\ fd \in [Procs -> Handles]
  /\ tries \in [Procs -> 0..MaxTries]
  /\ windows \in [Procs -> 0..StaleRetries]
  /\ installed \in [Procs -> BOOLEAN]
  /\ returned \in [Procs -> {"none", "ok", "raised"}]
  /\ seen \in [Procs -> Payloads \cup {Default}]
  /\ saves \in 0..MaxSaves /\ faults \in 0..MaxFaults

\* The state file holds a whole state at every moment, whoever writes, fails,
\* is killed, or removes the .tmp of another process.
StateWhole == state # 0 => file[state] # Partial

\* What the others see of a save.
Progress ==
  [p \in Procs |-> IF pc[p] \in {"idle", "dead"} THEN pc[p]
                   ELSE IF installed[p] THEN "saved" ELSE "saving"]

Register == INSTANCE StateRegister WITH reg <- Content, at <- Progress

\* The state file behaves as a register of whole states: a save takes effect
\* when its rename does, a save that returns took effect, and one that raises
\* before the rename left the state as it was.
IsStateRegister == Register!Spec

\* No save waits for ever for a lock that is not given back: though the
\* holder hangs, died, or never wrote its pid, it ends after a bounded number
\* of windows.
LockWaitEnds ==
  \A p \in Procs :
    pc[p] \in {"locking", "waiting"} ~> pc[p] \notin {"locking", "waiting"}
=============================================================================
