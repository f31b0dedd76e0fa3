--------------------------- MODULE AtomicRegister ---------------------------
(***************************************************************************)
(* What the SPI bus promises to the threads that share it: a register that *)
(* each command reads or writes at one moment between its call and its     *)
(* return.  A command may fail; then it writes nothing, and what it reads  *)
(* is anything.                                                            *)
(***************************************************************************)
CONSTANTS Users, Values

VARIABLES
  reg,
  phase,    \* of each user: idle, called, done or failed
  command,  \* the value it writes, or "read", or "none"
  result    \* what it has read and not yet returned, or "none"

vars == <<reg, phase, command, result>>

Init ==
  /\ reg \in Values
  /\ phase = [u \in Users |-> "idle"]
  /\ command = [u \in Users |-> "none"]
  /\ result = [u \in Users |-> "none"]

Go(u, from, to) == phase[u] = from /\ phase' = [phase EXCEPT ![u] = to]

Call(u) ==
  /\ Go(u, "idle", "called")
  /\ \E c \in Values \cup {"read"} : command' = [command EXCEPT ![u] = c]
  /\ UNCHANGED <<reg, result>>

Read(u) ==
  /\ Go(u, "called", "done")
  /\ command[u] = "read"
  /\ result' = [result EXCEPT ![u] = reg]
  /\ UNCHANGED <<reg, command>>

Write(u) ==
  /\ Go(u, "called", "done")
  /\ command[u] \in Values
  /\ reg' = command[u]
  /\ UNCHANGED <<command, result>>

Fail(u) ==
  /\ Go(u, "called", "failed")
  /\ \E v \in Values \cup {"none"} : result' = [result EXCEPT ![u] = v]
  /\ UNCHANGED <<reg, command>>

Return(u) ==
  /\ Go(u, "done", "idle") \/ Go(u, "failed", "idle")
  /\ command' = [command EXCEPT ![u] = "none"]
  /\ result' = [result EXCEPT ![u] = "none"]
  /\ UNCHANGED reg

Next == \E u \in Users : Call(u) \/ Read(u) \/ Write(u) \/ Fail(u) \/ Return(u)

Spec == Init /\ [][Next]_vars
=============================================================================
