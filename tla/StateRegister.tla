--------------------------- MODULE StateRegister ---------------------------
(***************************************************************************)
(* What the state store promises to the processes that share a state file: *)
(* the file is a register.  A save takes effect at one moment between its  *)
(* call and its end, or not at all; a save that returns took effect; a     *)
(* load gives what the last effective save wrote, or the default state     *)
(* when the file cannot be read.  A process may end at any moment.         *)
(***************************************************************************)
CONSTANTS Procs, Payloads, Default

VARIABLES
  reg,       \* the state
  at,        \* process -> "idle", "saving", "saved" (took effect) or "dead"
  payload,   \* process -> what it saves
  returned,  \* process -> how its last save ended
  seen       \* process -> what it loaded last

vars == <<reg, at, payload, returned, seen>>

Init ==
  /\ reg \in Payloads \cup {Default}
  /\ at = [p \in Procs |-> "idle"]
  /\ payload = [p \in Procs |-> Default]
  /\ returned = [p \in Procs |-> "none"]
  /\ seen = [p \in Procs |-> Default]

Save(p, v) ==
  /\ at[p] = "idle"
  /\ at' = [at EXCEPT ![p] = "saving"]
  /\ payload' = [payload EXCEPT ![p] = v]
  /\ returned' = [returned EXCEPT ![p] = "none"]
  /\ UNCHANGED <<reg, seen>>

TakesEffect(p) ==
  /\ at[p] = "saving"
  /\ reg' = payload[p]
  /\ at' = [at EXCEPT ![p] = "saved"]
  /\ UNCHANGED <<payload, returned, seen>>

Ends(p) ==
  /\ \/ at[p] = "saved" /\ \E how \in {"ok", "raised"} :
                             returned' = [returned EXCEPT ![p] = how]
     \/ at[p] = "saving" /\ returned' = [returned EXCEPT ![p] = "raised"]
  /\ at' = [at EXCEPT ![p] = "idle"]
  /\ payload' = [payload EXCEPT ![p] = Default]
  /\ UNCHANGED <<reg, seen>>

Load(p) ==
  /\ at[p] = "idle"
  /\ \E content \in {reg, Default} : seen' = [seen EXCEPT ![p] = content]
  /\ UNCHANGED <<reg, at, payload, returned>>

Dies(p) ==
  /\ at[p] # "dead"
  /\ at' = [at EXCEPT ![p] = "dead"]
  /\ payload' = [payload EXCEPT ![p] = Default]
  /\ UNCHANGED <<reg, returned, seen>>

Next ==
  \E p \in Procs :
    \/ \E v \in Payloads : Save(p, v)
    \/ TakesEffect(p) \/ Ends(p) \/ Load(p) \/ Dies(p)

Spec == Init /\ [][Next]_vars
=============================================================================
