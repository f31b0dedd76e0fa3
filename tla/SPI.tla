-------------------------------- MODULE SPI --------------------------------
(***************************************************************************)
(* spi.c and the commands of two bytes that rf24.c makes of it: the mutex  *)
(* and the chip select around a command, each byte a transfer that may     *)
(* fail.  The chip takes the first byte it gets after its select went low  *)
(* as the command, whichever byte of the driver's it is.                   *)
(*                                                                         *)
(* One register stands for all.  A command is the value to write, or       *)
(* "read".  This is one of the parts of Services, which has the Spec.      *)
(***************************************************************************)
EXTENDS Naturals

CONSTANTS
  Users,    \* the threads that use the bus; Starter, one of them, opens it
  Starter,
  Values,   \* of the register
  Faults    \* what can fail: "open", "transfer"

Nobody  == "nobody"
Garbage == "garbage"   \* a mutex in memory fresh from malloc

ASSUME SPIAssumption ==
  /\ Starter \in Users
  /\ Nobody \notin Users /\ Garbage \notin Users
  /\ Values # {} /\ "read" \notin Values /\ "none" \notin Values
  /\ Faults \subseteq {"open", "transfer"}

VARIABLES
  spi_at,    \* the next step of each thread in spi.c
  command,   \* the value it writes, or "read", or "none"
  spi_lock,  \* who holds the mutex
  selected,  \* the chip select is low
  taken,     \* what the chip took as its command since then
  reg,
  result,    \* what each thread has read and not yet returned, or "none"
  failed     \* a transfer of its command failed

spiVars == <<spi_at, command, spi_lock, selected, taken, reg, result, failed>>

SpiInit ==
  /\ spi_at = [u \in Users |-> IF u = Starter THEN "init" ELSE "idle"]
  /\ command = [u \in Users |-> "none"]
  /\ spi_lock = Garbage
  /\ selected \in BOOLEAN
  /\ taken = "nothing"
  /\ reg \in Values
  /\ result = [u \in Users |-> "none"]
  /\ failed = [u \in Users |-> FALSE]

(* The chip select; spi.c does not look at what gpio_write returns. *)
gpio_write(level) == selected' = (level = "GPIO_LOW")

SpiGo(u, from, to) == spi_at[u] = from /\ spi_at' = [spi_at EXCEPT ![u] = to]

-----------------------------------------------------------------------------
(* spi_init. *)

OpenDevice ==
  /\ \/ SpiGo(Starter, "init", "init_disable")
     \/ "open" \in Faults /\ SpiGo(Starter, "init", "exit")
  /\ UNCHANGED <<command, spi_lock, selected, taken, reg, result, failed>>

(* spi_disable unlocks a mutex that is not yet one. *)
DisableFirst ==
  /\ SpiGo(Starter, "init_disable", "init_mutex")
  /\ gpio_write("GPIO_HIGH")
  /\ spi_lock' \in {Nobody, Garbage}
  /\ UNCHANGED <<command, taken, reg, result, failed>>

(* Wrong: the mutex is taken to be initialised. *)
InitMutexNot ==
  /\ SpiGo(Starter, "init_mutex", "idle")
  /\ UNCHANGED <<command, spi_lock, selected, taken, reg, result, failed>>

InitMutex ==
  /\ SpiGo(Starter, "init_mutex", "idle")
  /\ spi_lock' = Nobody
  /\ UNCHANGED <<command, selected, taken, reg, result, failed>>

spi_init == OpenDevice \/ DisableFirst \/ InitMutex

Opened == spi_at[Starter] \notin {"init", "init_disable", "init_mutex", "exit"}

-----------------------------------------------------------------------------
(* read_register and write_register.                                       *)

SpiCall(u, c) ==
  /\ Opened
  /\ SpiGo(u, "idle", "enable")
  /\ command' = [command EXCEPT ![u] = c]
  /\ UNCHANGED <<spi_lock, selected, taken, reg, result, failed>>

(* Wrong: the chip is selected without the mutex. *)
spi_enableUnlocked(u) ==
  /\ SpiGo(u, "enable", "first")
  /\ gpio_write("GPIO_LOW")
  /\ UNCHANGED <<command, spi_lock, taken, reg, result, failed>>

spi_enable(u) ==
  /\ SpiGo(u, "enable", "first")
  /\ spi_lock = Nobody
  /\ spi_lock' = u
  /\ gpio_write("GPIO_LOW")
  /\ UNCHANGED <<command, taken, reg, result, failed>>

(* A transfer that fails does not reach the chip; its caller goes on. *)
TransferFails(u, from, to) ==
  /\ "transfer" \in Faults
  /\ SpiGo(u, from, to)
  /\ failed' = [failed EXCEPT ![u] = TRUE]
  /\ UNCHANGED <<command, spi_lock, selected, taken, reg>>

Code(c) == IF c = "read" THEN "R_REGISTER" ELSE "W_REGISTER"

CommandByte(u) ==
  \/ /\ SpiGo(u, "first", "second")
     /\ taken' = IF selected THEN Code(command[u]) ELSE taken
     /\ UNCHANGED <<command, spi_lock, selected, reg, result, failed>>
  \/ /\ TransferFails(u, "first", "second")
     /\ UNCHANGED result

Returns(u, v) == result' = [result EXCEPT ![u] = v]

Heard == IF selected THEN taken ELSE "none"

(* What the chip does with the second byte depends on the first one it got, *)
(* and if that was none it answers with STATUS and takes a value for a      *)
(* command without data.  A caller without an answer returns what was on   *)
(* its stack.                                                              *)
DataByte(u) ==
  \/ /\ SpiGo(u, "second", "disable")
     /\ UNCHANGED <<command, spi_lock, selected, failed>>
     /\ \/ Heard = "R_REGISTER" /\ Returns(u, reg) /\ UNCHANGED <<reg, taken>>
        \/ Heard = "W_REGISTER" /\ reg' = command[u] /\ UNCHANGED <<result, taken>>
        \/ /\ Heard \notin {"R_REGISTER", "W_REGISTER"}
           /\ taken' = IF Heard = "nothing" THEN "other" ELSE taken
           /\ \E v \in Values : Returns(u, v)
           /\ UNCHANGED reg
  \/ /\ TransferFails(u, "second", "disable")
     /\ \E v \in Values : Returns(u, v)

(* The chip ends its command, the thread its function. *)
Deselect(u) ==
  /\ SpiGo(u, "disable", "idle")
  /\ gpio_write("GPIO_HIGH")
  /\ taken' = "nothing"
  /\ command' = [command EXCEPT ![u] = "none"]
  /\ result' = [result EXCEPT ![u] = "none"]
  /\ failed' = [failed EXCEPT ![u] = FALSE]
  /\ UNCHANGED reg

(* Wrong: the mutex is kept after a failure. *)
spi_disableIfSent(u) ==
  /\ Deselect(u)
  /\ spi_lock' = IF failed[u] THEN spi_lock ELSE Nobody

spi_disable(u) ==
  /\ Deselect(u)
  /\ spi_lock' = Nobody

SpiStep(u) ==
  \/ spi_enable(u)
  \/ CommandByte(u)
  \/ DataByte(u)
  \/ spi_disable(u)

-----------------------------------------------------------------------------

SpiLocations ==
  {"init", "init_disable", "init_mutex", "exit", "idle", "enable", "first",
   "second", "disable"}

SpiTypeOK ==
  /\ spi_at \in [Users -> SpiLocations]
  /\ command \in [Users -> Values \cup {"read", "none"}]
  /\ spi_lock \in Users \cup {Nobody, Garbage}
  /\ selected \in BOOLEAN
  /\ taken \in {"nothing", "R_REGISTER", "W_REGISTER", "other"}
  /\ reg \in Values
  /\ result \in [Users -> Values \cup {"none"}]
  /\ failed \in [Users -> BOOLEAN]

(* Where a command is, as its caller sees it. *)
Phase(u) ==
  CASE spi_at[u] \in {"enable", "first", "second"} -> "called"
    [] spi_at[u] = "disable" -> IF failed[u] THEN "failed" ELSE "done"
    [] OTHER -> "idle"

(* A command takes effect at one moment, or fails and writes nothing,       *)
(* though the threads share the bus and either of its bytes may be lost    *)
(* (spi.c, 85-112).                                                        *)
Bus == INSTANCE AtomicRegister WITH phase <- [u \in Users |-> Phase(u)]
BusSpec == Bus!Spec
=============================================================================
