-------------------------- MODULE ServicesProofs --------------------------
(***************************************************************************)
(* What Services keeps, for any number of threads, all values and amounts, *)
(* every fault, either width of a long and every timeout.                  *)
(***************************************************************************)
EXTENDS Services, TLAPS

-----------------------------------------------------------------------------
(* The SPI bus.  Whoever is between spi_enable and spi_disable holds the    *)
(* mutex, and the chip took its command byte or, if that failed, none.      *)

InBus == {"first", "second", "disable"}
Starting == {"init", "init_disable", "init_mutex", "exit"}

BusThread(u) ==
  /\ spi_at[u] \in Starting => u = Starter
  /\ ~Opened => spi_at[u] \in Starting \cup {"idle"}
  /\ spi_at[u] \in InBus => spi_lock = u /\ selected
  /\ spi_at[u] \notin InBus => ~failed[u]
  /\ spi_at[u] = "first" => taken = "nothing" /\ ~failed[u]
  /\ spi_at[u] = "second" => taken = IF failed[u] THEN "nothing" ELSE Code(command[u])
  /\ spi_at[u] \in {"enable", "first", "second"} => command[u] \in Values \cup {"read"}

BusInv ==
  /\ SpiTypeOK
  /\ \A u \in Users : BusThread(u)
  /\ IF spi_lock \in Users THEN spi_at[spi_lock] \in InBus ELSE taken = "nothing"

LEMMA BusInitially == SpiInit => BusInv
<1> SUFFICES ASSUME SpiInit PROVE BusInv
  OBVIOUS
<1>1. SpiTypeOK
  BY SPIAssumption DEF SpiInit, SpiTypeOK, SpiLocations
<1>2. \A u \in Users : BusThread(u)
  BY SPIAssumption DEF SpiInit, BusThread, Opened, Starting, InBus
<1>3. QED BY <1>1, <1>2, SPIAssumption DEF BusInv, SpiInit

LEMMA BusStarts ==
  ASSUME BusInv, spi_init
  PROVE  BusInv'
<1>1. SpiTypeOK'
  BY SPIAssumption DEF BusInv, SpiTypeOK, SpiLocations, spi_init, OpenDevice,
         DisableFirst, InitMutex, SpiGo, gpio_write
<1>2. \A u \in Users : BusThread(u)'
  <2> TAKE u \in Users
  <2>1. BusThread(u) /\ BusThread(Starter)
    BY SPIAssumption DEF BusInv
  <2>2. /\ spi_at \in [Users -> SpiLocations]
        /\ UNCHANGED <<command, taken, failed>>
    BY DEF BusInv, SpiTypeOK, spi_init, OpenDevice, DisableFirst, InitMutex
  <2>3. /\ spi_at[Starter] \in {"init", "init_disable", "init_mutex"}
        /\ spi_at'[Starter] \in Starting \cup {"idle"}
        /\ u # Starter => spi_at'[u] = spi_at[u]
    BY <2>2, SPIAssumption
       DEF spi_init, OpenDevice, DisableFirst, InitMutex, SpiGo, Starting
  <2>4. spi_at[u] \in Starting \cup {"idle"}
    BY <2>1, <2>3 DEF BusThread, Opened
  <2>5. spi_at'[u] \in Starting \cup {"idle"}
    BY <2>3, <2>4
  <2>6. ~failed'[u]
    BY <2>1, <2>2, <2>4 DEF BusThread, InBus, Starting
  <2>7. spi_at'[u] \in Starting => u = Starter
    BY <2>1, <2>3 DEF BusThread
  <2>8. QED BY <2>5, <2>6, <2>7 DEF BusThread, InBus, Starting
<1>3. spi_lock' \notin Users /\ taken' = "nothing"
  <2>1. ~Opened /\ UNCHANGED taken
    BY DEF spi_init, OpenDevice, DisableFirst, InitMutex, SpiGo, Opened
  <2>2. spi_lock \notin Users
    BY <2>1 DEF BusInv, BusThread, InBus, Starting
  <2>3. spi_lock' \notin Users
    BY <2>2, SPIAssumption DEF spi_init, OpenDevice, DisableFirst, InitMutex
  <2>4. QED BY <2>1, <2>2, <2>3 DEF BusInv
<1>4. QED BY <1>1, <1>2, <1>3 DEF BusInv

(* A step of one thread leaves the others where they are. *)
LEMMA BusMoves ==
  ASSUME BusInv, NEW u \in Users, NEW from \in SpiLocations, NEW to \in SpiLocations,
         SpiGo(u, from, to)
  PROVE  /\ spi_at' \in [Users -> SpiLocations]
         /\ spi_at[u] = from /\ spi_at'[u] = to
         /\ \A v \in Users : v # u => spi_at'[v] = spi_at[v]
BY DEF SpiGo, BusInv, SpiTypeOK

LEMMA BusCalls ==
  ASSUME BusInv, NEW u \in Users, NEW c \in Values \cup {"read"}, SpiCall(u, c)
  PROVE  BusInv'
<1>1. /\ spi_at' \in [Users -> SpiLocations]
      /\ spi_at[u] = "idle" /\ spi_at'[u] = "enable"
      /\ \A v \in Users : v # u => spi_at'[v] = spi_at[v]
  BY BusMoves DEF SpiCall, SpiLocations
<1>2. Opened /\ Opened'
  BY <1>1, SPIAssumption DEF SpiCall, Opened
<1>3. /\ command' = [command EXCEPT ![u] = c]
      /\ UNCHANGED <<spi_lock, selected, taken, reg, result, failed>>
  BY DEF SpiCall
<1>4. SpiTypeOK'
  BY <1>1, <1>3 DEF BusInv, SpiTypeOK
<1>5. ASSUME NEW v \in Users PROVE BusThread(v)'
  <2>1. BusThread(v) /\ BusThread(u)
    BY DEF BusInv
  <2>2. CASE v = u
    BY <1>1, <1>2, <1>3, <2>1, <2>2 DEF BusThread, InBus, Starting, BusInv, SpiTypeOK
  <2>3. CASE v # u
    <3>1. command'[v] = command[v] /\ spi_at'[v] = spi_at[v]
      BY <1>1, <1>3, <2>3 DEF BusInv, SpiTypeOK
    <3>2. QED BY <1>2, <1>3, <2>1, <3>1 DEF BusThread
  <2>4. QED BY <2>2, <2>3
<1>6. IF spi_lock' \in Users THEN spi_at'[spi_lock'] \in InBus ELSE taken' = "nothing"
  BY <1>1, <1>3 DEF BusInv, InBus
<1>7. QED BY <1>4, <1>5, <1>6 DEF BusInv

LEMMA BusEnables ==
  ASSUME BusInv, NEW u \in Users, spi_enable(u)
  PROVE  BusInv'
<1>1. /\ spi_at' \in [Users -> SpiLocations]
      /\ spi_at[u] = "enable" /\ spi_at'[u] = "first"
      /\ \A v \in Users : v # u => spi_at'[v] = spi_at[v]
  BY BusMoves DEF spi_enable, SpiLocations
<1>2. /\ spi_lock = Nobody /\ spi_lock' = u /\ selected'
      /\ UNCHANGED <<command, taken, reg, result, failed>>
  BY DEF spi_enable, gpio_write
<1>3. SpiTypeOK'
  BY <1>1, <1>2 DEF BusInv, SpiTypeOK, spi_enable, gpio_write
<1>4. taken = "nothing"
  BY <1>2, SPIAssumption DEF BusInv
<1>5. Opened /\ Opened'
  <2>1. Opened
    BY <1>1 DEF BusInv, BusThread, Starting
  <2>2. QED BY <1>1, <2>1, SPIAssumption DEF Opened
<1>6. ASSUME NEW v \in Users PROVE BusThread(v)'
  <2>1. BusThread(v) /\ BusThread(u)
    BY DEF BusInv
  <2>2. CASE v = u
    BY <1>1, <1>2, <1>4, <1>5, <2>1, <2>2 DEF BusThread, InBus, Starting
  <2>3. CASE v # u
    <3>1. spi_at[v] \notin InBus
      BY <1>2, <2>1, SPIAssumption DEF BusThread
    <3>2. QED BY <1>1, <1>2, <1>5, <2>1, <2>3, <3>1 DEF BusThread, InBus
  <2>4. QED BY <2>2, <2>3
<1>7. spi_at'[spi_lock'] \in InBus
  BY <1>1, <1>2 DEF InBus
<1>8. QED BY <1>2, <1>3, <1>6, <1>7 DEF BusInv

(* Only the holder of the mutex is on the bus. *)
LEMMA BusAlone ==
  ASSUME BusInv, NEW u \in Users, spi_at[u] \in InBus
  PROVE  /\ spi_lock = u /\ selected /\ Opened
         /\ \A v \in Users : v # u => spi_at[v] \notin InBus
BY DEF BusInv, BusThread, InBus, Starting

LEMMA BusSendsCommand ==
  ASSUME BusInv, NEW u \in Users, CommandByte(u)
  PROVE  BusInv'
<1>1. /\ spi_at' \in [Users -> SpiLocations]
      /\ spi_at[u] = "first" /\ spi_at'[u] = "second"
      /\ \A v \in Users : v # u => spi_at'[v] = spi_at[v]
  BY BusMoves DEF CommandByte, TransferFails, SpiLocations
<1>2. /\ spi_lock = u /\ selected /\ Opened
      /\ \A v \in Users : v # u => spi_at[v] \notin InBus
  BY <1>1, BusAlone DEF InBus
<1>3. UNCHANGED <<command, spi_lock, selected, reg, result>>
  BY DEF CommandByte, TransferFails
<1>4. taken = "nothing" /\ ~failed[u] /\ command[u] \in Values \cup {"read"}
  BY <1>1 DEF BusInv, BusThread
<1>5. /\ failed' \in [Users -> BOOLEAN]
      /\ taken' = IF failed'[u] THEN "nothing" ELSE Code(command[u])
      /\ \A v \in Users : v # u => failed'[v] = failed[v]
  BY <1>2, <1>4 DEF CommandByte, TransferFails, BusInv, SpiTypeOK
<1>6. SpiTypeOK'
  BY <1>1, <1>3, <1>5 DEF BusInv, SpiTypeOK, Code
<1>7. Opened'
  BY <1>1, <1>2, SPIAssumption DEF Opened
<1>8. ASSUME NEW v \in Users PROVE BusThread(v)'
  <2>1. BusThread(v)
    BY DEF BusInv
  <2>2. CASE v = u
    BY <1>1, <1>2, <1>3, <1>4, <1>5, <1>7, <2>2 DEF BusThread, InBus, Starting
  <2>3. CASE v # u
    BY <1>1, <1>2, <1>3, <1>5, <1>7, <2>1, <2>3 DEF BusThread, InBus
  <2>4. QED BY <2>2, <2>3
<1>9. spi_lock' \in Users /\ spi_at'[spi_lock'] \in InBus
  BY <1>1, <1>2, <1>3 DEF InBus
<1>10. QED BY <1>6, <1>8, <1>9 DEF BusInv

LEMMA BusSendsData ==
  ASSUME BusInv, NEW u \in Users, DataByte(u)
  PROVE  BusInv'
<1>1. /\ spi_at' \in [Users -> SpiLocations]
      /\ spi_at[u] = "second" /\ spi_at'[u] = "disable"
      /\ \A v \in Users : v # u => spi_at'[v] = spi_at[v]
  BY BusMoves DEF DataByte, TransferFails, SpiLocations
<1>2. /\ spi_lock = u /\ selected /\ Opened
      /\ \A v \in Users : v # u => spi_at[v] \notin InBus
  BY <1>1, BusAlone DEF InBus
<1>3. UNCHANGED <<command, spi_lock, selected>>
  BY DEF DataByte, TransferFails
<1>4. /\ command[u] \in Values \cup {"read"}
      /\ taken = IF failed[u] THEN "nothing" ELSE Code(command[u])
  BY <1>1 DEF BusInv, BusThread
<1>5. /\ failed' \in [Users -> BOOLEAN]
      /\ \A v \in Users : v # u => failed'[v] = failed[v]
  BY DEF DataByte, TransferFails, BusInv, SpiTypeOK
<1>6. /\ result' \in [Users -> Values \cup {"none"}]
      /\ taken' \in {"nothing", "R_REGISTER", "W_REGISTER", "other"}
  BY DEF DataByte, TransferFails, BusInv, SpiTypeOK, Returns
<1>7. reg' \in Values
  BY <1>2, <1>4 DEF DataByte, TransferFails, BusInv, SpiTypeOK, Heard, Code
<1>8. SpiTypeOK'
  BY <1>1, <1>3, <1>5, <1>6, <1>7 DEF BusInv, SpiTypeOK
<1>9. Opened'
  BY <1>1, <1>2, SPIAssumption DEF Opened
<1>10. ASSUME NEW v \in Users PROVE BusThread(v)'
  <2>1. BusThread(v)
    BY DEF BusInv
  <2>2. CASE v = u
    BY <1>1, <1>2, <1>3, <1>9, <2>2 DEF BusThread, InBus, Starting
  <2>3. CASE v # u
    BY <1>1, <1>2, <1>3, <1>5, <1>9, <2>1, <2>3 DEF BusThread, InBus
  <2>4. QED BY <2>2, <2>3
<1>11. spi_lock' \in Users /\ spi_at'[spi_lock'] \in InBus
  BY <1>1, <1>2, <1>3 DEF InBus
<1>12. QED BY <1>8, <1>10, <1>11 DEF BusInv

LEMMA BusDisables ==
  ASSUME BusInv, NEW u \in Users, spi_disable(u)
  PROVE  BusInv'
<1>1. /\ spi_at' \in [Users -> SpiLocations]
      /\ spi_at[u] = "disable" /\ spi_at'[u] = "idle"
      /\ \A v \in Users : v # u => spi_at'[v] = spi_at[v]
  BY BusMoves DEF spi_disable, Deselect, SpiLocations
<1>2. /\ spi_lock = u /\ selected /\ Opened
      /\ \A v \in Users : v # u => spi_at[v] \notin InBus
  BY <1>1, BusAlone DEF InBus
<1>3. /\ spi_lock' = Nobody /\ taken' = "nothing" /\ reg' = reg
      /\ command' = [command EXCEPT ![u] = "none"]
      /\ result' = [result EXCEPT ![u] = "none"]
      /\ failed' = [failed EXCEPT ![u] = FALSE]
      /\ selected' \in BOOLEAN
  BY DEF spi_disable, Deselect, gpio_write
<1>4. SpiTypeOK'
  BY <1>1, <1>3 DEF BusInv, SpiTypeOK
<1>5. Opened'
  BY <1>1, <1>2, SPIAssumption DEF Opened
<1>6. ASSUME NEW v \in Users PROVE BusThread(v)'
  <2>1. BusThread(v)
    BY DEF BusInv
  <2>2. CASE v = u
    BY <1>1, <1>3, <1>5, <2>2 DEF BusThread, InBus, Starting, BusInv, SpiTypeOK
  <2>3. CASE v # u
    <3>1. failed'[v] = failed[v] /\ command'[v] = command[v]
      BY <1>3, <2>3 DEF BusInv, SpiTypeOK
    <3>2. QED BY <1>1, <1>2, <1>5, <2>1, <2>3, <3>1 DEF BusThread, InBus
  <2>4. QED BY <2>2, <2>3
<1>7. QED BY <1>3, <1>4, <1>6, SPIAssumption DEF BusInv

LEMMA BusStep ==
  ASSUME BusInv, NEW u \in Users,
         spi_init \/ SpiStep(u) \/ \E c \in Values \cup {"read"} : SpiCall(u, c)
  PROVE  BusInv'
BY BusStarts, BusCalls, BusEnables, BusSendsCommand, BusSendsData, BusDisables
   DEF SpiStep

LEMMA BusStands ==
  ASSUME BusInv, UNCHANGED spiVars
  PROVE  BusInv'
BY DEF BusInv, SpiTypeOK, BusThread, Opened, spiVars

-----------------------------------------------------------------------------
(* The bus as an atomic register.                                           *)

(* Where the other commands are does not change. *)
LEMMA PhaseMoves ==
  ASSUME NEW u \in Users,
         \A v \in Users : v # u => spi_at'[v] = spi_at[v] /\ failed'[v] = failed[v]
  PROVE  [v \in Users |-> Phase(v)]' = [[v \in Users |-> Phase(v)] EXCEPT ![u] = Phase(u)']
<1>1. \A v \in Users : v # u => Phase(v)' = Phase(v)
  BY DEF Phase
<1>2. QED BY <1>1

LEMMA PhaseGoes ==
  ASSUME NEW u \in Users,
         \A v \in Users : v # u => spi_at'[v] = spi_at[v] /\ failed'[v] = failed[v]
  PROVE  Bus!Go(u, Phase(u), Phase(u)')
BY PhaseMoves DEF Bus!Go

LEMMA PhaseStays ==
  ASSUME NEW u \in Users,
         \A v \in Users : v # u => spi_at'[v] = spi_at[v] /\ failed'[v] = failed[v],
         Phase(u)' = Phase(u)
  PROVE  UNCHANGED [v \in Users |-> Phase(v)]
BY PhaseMoves

LEMMA BusInitRefines == SpiInit => Bus!Init
<1> SUFFICES ASSUME SpiInit PROVE Bus!Init
  OBVIOUS
<1>1. \A u \in Users : spi_at[u] \in {"init", "idle"}
  BY DEF SpiInit
<1>2. \A u \in Users : Phase(u) = "idle"
  BY <1>1 DEF Phase
<1>3. QED BY <1>2 DEF Bus!Init, SpiInit

LEMMA BusStartRefines ==
  ASSUME BusInv, spi_init
  PROVE  UNCHANGED Bus!vars
<1>1. BusInv'
  BY BusStarts
<1>2. ~Opened /\ UNCHANGED <<command, reg, result>>
  BY DEF spi_init, OpenDevice, DisableFirst, InitMutex, SpiGo, Opened
<1>3. spi_at'[Starter] \in Starting \cup {"idle"}
  BY SPIAssumption DEF BusInv, SpiTypeOK, spi_init, OpenDevice, DisableFirst,
         InitMutex, SpiGo, Starting
<1>4. UNCHANGED [v \in Users |-> Phase(v)]
  <2>1. spi_at[Starter] \in Starting \cup {"idle"}
    BY <1>2 DEF Opened, Starting
  <2>2. \A v \in Users : v # Starter => spi_at'[v] = spi_at[v] /\ failed'[v] = failed[v]
    BY SPIAssumption
       DEF BusInv, SpiTypeOK, spi_init, OpenDevice, DisableFirst, InitMutex, SpiGo
  <2>3. Phase(Starter)' = Phase(Starter)
    BY <1>3, <2>1 DEF Phase, Starting
  <2>4. QED BY <2>2, <2>3, PhaseStays, SPIAssumption
<1>5. QED BY <1>2, <1>4 DEF Bus!vars

LEMMA BusCallRefines ==
  ASSUME BusInv, NEW u \in Users, NEW c \in Values \cup {"read"}, SpiCall(u, c)
  PROVE  Bus!Call(u)
<1>1. /\ spi_at[u] = "idle" /\ spi_at'[u] = "enable"
      /\ \A v \in Users : v # u => spi_at'[v] = spi_at[v]
      /\ failed' = failed
  BY BusMoves DEF SpiCall, SpiLocations
<1>2. Phase(u) = "idle" /\ Phase(u)' = "called"
  BY <1>1 DEF Phase
<1>3. Bus!Go(u, "idle", "called")
  BY <1>1, <1>2, PhaseGoes
<1>4. QED BY <1>3 DEF Bus!Call, SpiCall

LEMMA BusFirstRefines ==
  ASSUME BusInv, NEW u \in Users, spi_enable(u) \/ CommandByte(u)
  PROVE  UNCHANGED Bus!vars
<1>1. /\ spi_at[u] \in {"enable", "first"} /\ spi_at'[u] \in {"first", "second"}
      /\ \A v \in Users : v # u => spi_at'[v] = spi_at[v]
  BY BusMoves DEF spi_enable, CommandByte, TransferFails, SpiLocations
<1>2. \A v \in Users : v # u => failed'[v] = failed[v]
  BY DEF spi_enable, CommandByte, TransferFails, BusInv, SpiTypeOK
<1>3. Phase(u) = "called" /\ Phase(u)' = "called"
  BY <1>1 DEF Phase
<1>4. UNCHANGED [v \in Users |-> Phase(v)]
  BY <1>1, <1>2, <1>3, PhaseStays
<1>5. UNCHANGED <<command, reg, result>>
  BY DEF spi_enable, CommandByte, TransferFails
<1>6. QED BY <1>4, <1>5 DEF Bus!vars

(* The data byte is the moment of a command whose transfers succeed. *)
LEMMA BusDataRefines ==
  ASSUME BusInv, NEW u \in Users, DataByte(u)
  PROVE  Bus!Read(u) \/ Bus!Write(u) \/ Bus!Fail(u)
<1>1. /\ spi_at[u] = "second" /\ spi_at'[u] = "disable"
      /\ \A v \in Users : v # u => spi_at'[v] = spi_at[v]
  BY BusMoves DEF DataByte, TransferFails, SpiLocations
<1>2. selected
  BY <1>1, BusAlone DEF InBus
<1>3. /\ command[u] \in Values \cup {"read"}
      /\ taken = IF failed[u] THEN "nothing" ELSE Code(command[u])
  BY <1>1 DEF BusInv, BusThread
<1>4. /\ failed[u] \in BOOLEAN /\ failed'[u] \in BOOLEAN
      /\ failed[u] => failed'[u]
      /\ \A v \in Users : v # u => failed'[v] = failed[v]
  BY DEF DataByte, TransferFails, BusInv, SpiTypeOK
<1>5. UNCHANGED command
  BY DEF DataByte, TransferFails
<1>6. CASE failed'[u]
  <2>1. Phase(u) = "called" /\ Phase(u)' = "failed"
    BY <1>1, <1>6 DEF Phase
  <2>2. Bus!Go(u, "called", "failed")
    BY <1>1, <1>4, <2>1, PhaseGoes
  <2>3. reg' = reg /\ \E v \in Values : result' = [result EXCEPT ![u] = v]
    <3>1. CASE TransferFails(u, "second", "disable") /\ \E v \in Values : Returns(u, v)
      BY <3>1 DEF TransferFails, Returns
    <3>2. CASE failed' = failed
      BY <1>2, <1>3, <1>6, <3>2 DEF DataByte, TransferFails, Heard, Returns
    <3>3. QED BY <3>1, <3>2 DEF DataByte
  <2>4. QED BY <1>5, <2>2, <2>3 DEF Bus!Fail
<1>7. CASE ~failed'[u]
  <2>1. Phase(u) = "called" /\ Phase(u)' = "done"
    BY <1>1, <1>7 DEF Phase
  <2>2. Bus!Go(u, "called", "done")
    BY <1>1, <1>4, <2>1, PhaseGoes
  <2>3. Heard = Code(command[u]) /\ failed' = failed
    BY <1>2, <1>3, <1>4, <1>7 DEF Heard, DataByte, TransferFails, BusInv, SpiTypeOK
  <2>4. \/ Heard = "R_REGISTER" /\ Returns(u, reg) /\ UNCHANGED reg
        \/ Heard = "W_REGISTER" /\ reg' = command[u] /\ UNCHANGED result
    <3>1. ~TransferFails(u, "second", "disable")
      BY <1>7 DEF TransferFails, BusInv, SpiTypeOK
    <3>2. QED BY <2>3, <3>1 DEF DataByte, Code
  <2>5. CASE command[u] = "read"
    BY <1>5, <2>2, <2>3, <2>4, <2>5 DEF Bus!Read, Code, Returns
  <2>6. CASE command[u] # "read"
    BY <1>3, <1>5, <2>2, <2>3, <2>4, <2>6 DEF Bus!Write, Code
  <2>7. QED BY <2>5, <2>6
<1>8. QED BY <1>6, <1>7

LEMMA BusDisableRefines ==
  ASSUME BusInv, NEW u \in Users, spi_disable(u)
  PROVE  Bus!Return(u)
<1>1. /\ spi_at[u] = "disable" /\ spi_at'[u] = "idle"
      /\ \A v \in Users : v # u => spi_at'[v] = spi_at[v]
  BY BusMoves DEF spi_disable, Deselect, SpiLocations
<1>2. \A v \in Users : v # u => failed'[v] = failed[v]
  BY DEF spi_disable, Deselect, BusInv, SpiTypeOK
<1>3. Phase(u) \in {"done", "failed"} /\ Phase(u)' = "idle"
  BY <1>1 DEF Phase
<1>4. Bus!Go(u, "done", "idle") \/ Bus!Go(u, "failed", "idle")
  BY <1>1, <1>2, <1>3, PhaseGoes
<1>5. QED BY <1>4 DEF Bus!Return, spi_disable, Deselect

LEMMA BusStepRefines ==
  ASSUME BusInv, NEW u \in Users,
         spi_init \/ SpiStep(u) \/ \E c \in Values \cup {"read"} : SpiCall(u, c)
  PROVE  Bus!Next \/ UNCHANGED Bus!vars
BY BusStartRefines, BusCallRefines, BusFirstRefines, BusDataRefines, BusDisableRefines
   DEF SpiStep, Bus!Next

LEMMA BusStandsStill == UNCHANGED spiVars => UNCHANGED Bus!vars
BY DEF spiVars, Bus!vars, Phase

-----------------------------------------------------------------------------
(* The statistics.  Whoever is inside a function holds the mutex; the       *)
(* totals and the bytes since make up what was counted, except between the *)
(* two steps of the monitor.                                               *)

StatsLocked == {"load", "store", "rates", "totals"}

StatsThread(t) ==
  /\ stats_at[t] \notin {"tally", "reset"}
  /\ stats_at[t] \in StatsLocked => stats_lock = t
  /\ stats_at[t] = "store" => loaded[t] = bytes
  /\ stats_at[t] = "totals" => snapshot[t].rate = rate

Tallying == stats_at[Monitor] = "reset"

MonitorInv ==
  /\ stats_at[Monitor] \in {"idle", "tally", "reset"}
  /\ stats_at[Monitor] # "idle" => stats_lock = Monitor
  /\ Tallying => total = counted
  /\ ~Tallying => /\ \A io \in IO : total[io] + bytes[io] = counted[io]
                  /\ published = Snapshot(rate, total)

StatsInv ==
  /\ StatsTypeOK
  /\ \A t \in Clients : StatsThread(t)
  /\ MonitorInv

StatsStep ==
  \/ \E t \in Clients, io \in IO : Increment(t, io)
  \/ \E t \in Clients :
       \/ Retrieve(t)
       \/ StatsLock(t) \/ stats_increment(t) \/ stats_retrieve(t)
  \/ monitor_thread

LEMMA StatsInitially == stats_create => StatsInv
<1> SUFFICES ASSUME stats_create PROVE StatsInv
  OBVIOUS
<1>1. StatsTypeOK
  BY DEF stats_create, StatsTypeOK, Counters, Zero, Snapshot, Threads
<1>2. \A t \in Clients : StatsThread(t)
  BY DEF stats_create, StatsThread, StatsLocked, Threads
<1>3. MonitorInv
  BY DEF stats_create, MonitorInv, Tallying, Zero, Threads
<1>4. QED BY <1>1, <1>2, <1>3 DEF StatsInv

(* A step of one thread leaves the others where they are. *)
LEMMA StatsMoves ==
  ASSUME StatsInv, NEW t \in Threads, NEW from, NEW to, StatsGo(t, from, to)
  PROVE  /\ stats_at[t] = from /\ stats_at'[t] = to
         /\ \A s \in Threads : s # t => stats_at'[s] = stats_at[s]
BY DEF StatsGo, StatsInv, StatsTypeOK

LEMMA PlusCounts ==
  ASSUME NEW f \in Counters, NEW g \in Counters
  PROVE  Plus(f, g) \in Counters /\ \A io \in IO : Plus(f, g)[io] = f[io] + g[io]
BY DEF Plus, Counters

LEMMA StatsTypes ==
  ASSUME StatsInv, StatsStep
  PROVE  StatsTypeOK'
<1> USE DEF StatsInv
<1> DEFINE Snapshots == [rate : Counters, total : Counters]
           StatsLocations == {"idle", "increment", "retrieve", "load", "store",
                              "rates", "totals", "tally", "reset"}
<1>1. StatsTypeOK /\ Zero \in Counters
  BY DEF Zero, Counters
<1>2. ASSUME NEW t \in Clients, NEW io \in IO, Increment(t, io) PROVE StatsTypeOK'
  <2>1. PICK n \in Amounts : adding' = [adding EXCEPT ![t] = [Zero EXCEPT ![io] = n]]
    BY <1>2 DEF Increment
  <2>2. [Zero EXCEPT ![io] = n] \in Counters
    BY <1>1, StatsAssumption DEF Counters
  <2>3. adding' \in [Clients -> Counters]
    BY <1>1, <2>1, <2>2 DEF StatsTypeOK
  <2>4. QED BY <1>1, <1>2, <2>3 DEF Increment, StatsGo, StatsTypeOK
<1>3. ASSUME NEW t \in Clients, Retrieve(t) \/ StatsLock(t) PROVE StatsTypeOK'
  BY <1>1, <1>3 DEF Retrieve, StatsLock, LockFor, StatsGo, StatsTypeOK, Threads
<1>4. ASSUME NEW t \in Clients, Load(t) PROVE StatsTypeOK'
  BY <1>1, <1>4 DEF Load, StatsGo, StatsTypeOK
<1>5. ASSUME NEW t \in Clients, Store(t) PROVE StatsTypeOK'
  <2>1. bytes' \in Counters /\ counted' \in Counters
    BY <1>1, <1>5, PlusCounts DEF Store, StatsTypeOK
  <2>2. adding' \in [Clients -> Counters] /\ loaded' \in [Clients -> Counters]
    BY <1>1, <1>5 DEF Store, StatsTypeOK
  <2>3. QED BY <1>1, <1>5, <2>1, <2>2 DEF Store, StatsUnlock, StatsGo, StatsTypeOK, Threads
<1>6. ASSUME NEW t \in Clients, stats_retrieve(t) PROVE StatsTypeOK'
  <2>1. /\ \A s \in Clients : /\ Snapshot(rate, snapshot[s].total) \in Snapshots
                             /\ Snapshot(snapshot[s].rate, total) \in Snapshots
        /\ snapshot \in [Clients -> Snapshots]
    BY <1>1 DEF Snapshot, StatsTypeOK
  <2>2. snapshot' \in [Clients -> Snapshots]
    BY <1>6, <2>1 DEF stats_retrieve, RetrieveRates, RetrieveTotals
  <2>3. stats_at' \in [Threads -> StatsLocations]
    BY <1>1, <1>6 DEF stats_retrieve, RetrieveRates, RetrieveTotals, StatsUnlock,
                      StatsGo, StatsTypeOK
  <2>4. stats_lock' \in Threads \cup {Free}
    BY <1>1, <1>6 DEF stats_retrieve, RetrieveRates, RetrieveTotals, StatsUnlock,
                      StatsTypeOK
  <2>5. UNCHANGED <<adding, bytes, total, rate, loaded, counted, published>>
    BY <1>6 DEF stats_retrieve, RetrieveRates, RetrieveTotals
  <2>6. QED BY <1>1, <2>2, <2>3, <2>4, <2>5 DEF StatsTypeOK
<1>7. ASSUME monitor_thread PROVE StatsTypeOK'
  <2>1. Plus(total, bytes) \in Counters
    BY <1>1, PlusCounts DEF StatsTypeOK
  <2>2. QED BY <1>1, <1>7, <2>1 DEF monitor_thread, TallyLock, LockFor, TallyRates,
               TallyReset, Snapshot, StatsUnlock, StatsGo, StatsTypeOK, Threads
<1>8. QED BY <1>2, <1>3, <1>4, <1>5, <1>6, <1>7 DEF StatsStep, stats_increment

(* A client that neither holds nor takes the mutex. *)
LEMMA StatsCalls ==
  ASSUME StatsInv, NEW t \in Clients,
         (\E io \in IO : Increment(t, io)) \/ Retrieve(t)
  PROVE  (\A s \in Clients : StatsThread(s)') /\ MonitorInv'
<1> USE DEF StatsInv
<1>1. /\ stats_at'[t] \in {"increment", "retrieve"}
      /\ \A s \in Threads : s # t => stats_at'[s] = stats_at[s]
  BY StatsMoves DEF Increment, Retrieve, Threads
<1>2. UNCHANGED <<stats_lock, bytes, total, rate, loaded, snapshot, counted, published>>
  BY DEF Increment, Retrieve
<1>3. ASSUME NEW s \in Clients PROVE StatsThread(s)'
  <2>1. StatsThread(s) /\ s \in Threads
    BY DEF Threads
  <2>2. CASE s = t
    BY <1>1, <2>2 DEF StatsThread, StatsLocked
  <2>3. CASE s # t
    BY <1>1, <1>2, <2>1, <2>3 DEF StatsThread
  <2>4. QED BY <2>2, <2>3
<1>4. stats_at'[Monitor] = stats_at[Monitor]
  BY <1>1, StatsAssumption DEF Threads
<1>5. MonitorInv'
  BY <1>2, <1>4 DEF MonitorInv, Tallying, Snapshot
<1>6. QED BY <1>3, <1>5

LEMMA StatsLocks ==
  ASSUME StatsInv, NEW t \in Clients, StatsLock(t)
  PROVE  (\A s \in Clients : StatsThread(s)') /\ MonitorInv'
<1> USE DEF StatsInv
<1>1. /\ stats_at'[t] \in {"load", "rates"}
      /\ \A s \in Threads : s # t => stats_at'[s] = stats_at[s]
  BY StatsMoves DEF StatsLock, LockFor, Threads
<1>2. /\ stats_lock = Free /\ stats_lock' = t
      /\ UNCHANGED <<bytes, total, rate, loaded, snapshot, counted, published>>
  BY DEF StatsLock, LockFor
<1>3. ASSUME NEW s \in Clients PROVE StatsThread(s)'
  <2>1. StatsThread(s) /\ s \in Threads /\ s # Free
    BY StatsAssumption DEF Threads
  <2>2. CASE s = t
    BY <1>1, <1>2, <2>2 DEF StatsThread
  <2>3. CASE s # t
    BY <1>1, <1>2, <2>1, <2>3 DEF StatsThread, StatsLocked
  <2>4. QED BY <2>2, <2>3
<1>4. stats_at'[Monitor] = stats_at[Monitor]
  BY <1>1, StatsAssumption DEF Threads
<1>5. stats_at[Monitor] = "idle"
  BY <1>2, StatsAssumption DEF MonitorInv, Threads
<1>6. MonitorInv'
  BY <1>2, <1>4, <1>5 DEF MonitorInv, Tallying, Snapshot
<1>7. QED BY <1>3, <1>6

(* Only the holder of the mutex is inside. *)
LEMMA StatsAlone ==
  ASSUME StatsInv, NEW t \in Clients, stats_at[t] \in StatsLocked
  PROVE  /\ stats_lock = t /\ stats_at[Monitor] = "idle"
         /\ \A s \in Clients : s # t => stats_at[s] \notin StatsLocked
BY StatsAssumption DEF StatsInv, StatsThread, MonitorInv

LEMMA StatsWorks ==
  ASSUME StatsInv, NEW t \in Clients, stats_increment(t) \/ stats_retrieve(t)
  PROVE  (\A s \in Clients : StatsThread(s)') /\ MonitorInv'
<1> USE DEF StatsInv
<1>1. /\ stats_at[t] \in StatsLocked /\ stats_at'[t] \in {"store", "totals", "idle"}
      /\ \A s \in Threads : s # t => stats_at'[s] = stats_at[s]
      /\ t \in Threads
  BY StatsMoves DEF stats_increment, stats_retrieve, Load, Store, RetrieveRates,
     RetrieveTotals, StatsUnlock, StatsLocked, Threads
<1>2. /\ stats_lock = t /\ stats_at[Monitor] = "idle"
      /\ \A s \in Clients : s # t => stats_at[s] \notin StatsLocked
  BY <1>1, StatsAlone
<1>3. stats_at'[Monitor] = "idle"
  BY <1>1, <1>2, StatsAssumption DEF Threads
<1>4. StatsThread(t)'
  <2>1. CASE Load(t)
    BY <1>1, <1>2, <2>1, StatsMoves
       DEF Load, StatsThread, StatsTypeOK, StatsLocked
  <2>2. CASE RetrieveRates(t)
    BY <1>1, <1>2, <2>2, StatsMoves
       DEF RetrieveRates, StatsThread, StatsTypeOK, StatsLocked, Snapshot
  <2>3. CASE Store(t) \/ RetrieveTotals(t)
    BY <1>1, <2>3, StatsMoves
       DEF Store, RetrieveTotals, StatsUnlock, StatsThread, StatsLocked
  <2>4. QED BY <2>1, <2>2, <2>3 DEF stats_increment, stats_retrieve
<1>5. ASSUME NEW s \in Clients PROVE StatsThread(s)'
  <2>1. CASE s = t
    BY <1>4, <2>1
  <2>2. CASE s # t
    <3>1. stats_at'[s] = stats_at[s] /\ stats_at[s] \notin StatsLocked
      BY <1>1, <1>2, <2>2 DEF Threads
    <3>2. QED BY <3>1 DEF StatsThread, StatsLocked
  <2>3. QED BY <2>1, <2>2
<1>6. UNCHANGED <<total, rate, published>>
  BY DEF stats_increment, stats_retrieve, Load, Store, RetrieveRates, RetrieveTotals
<1>7. \A io \in IO : total[io] + bytes[io] = counted[io]
  BY <1>2 DEF MonitorInv, Tallying
<1>8. \A io \in IO : total[io] + bytes'[io] = counted'[io]
  <2>1. CASE Store(t)
    <3>1. loaded[t] = bytes /\ adding[t] \in Counters
      BY <2>1 DEF Store, StatsUnlock, StatsGo, StatsThread, StatsTypeOK
    <3>2. /\ \A io \in IO : bytes'[io] = bytes[io] + adding[t][io]
          /\ \A io \in IO : counted'[io] = counted[io] + adding[t][io]
      BY <2>1, <3>1, PlusCounts DEF Store, StatsTypeOK
    <3>3. /\ \A io \in IO : total[io] \in Nat /\ bytes[io] \in Nat
          /\ \A io \in IO : counted[io] \in Nat /\ adding[t][io] \in Nat
      BY <3>1 DEF StatsTypeOK, Counters
    <3>4. QED BY <1>7, <3>2, <3>3
  <2>2. CASE UNCHANGED <<bytes, counted>>
    BY <1>7, <2>2
  <2>3. QED
    BY <2>1, <2>2 DEF stats_increment, stats_retrieve, Load, RetrieveRates, RetrieveTotals
<1>9. published = Snapshot(rate, total)
  BY <1>2 DEF MonitorInv, Tallying
<1>10. MonitorInv'
  BY <1>3, <1>6, <1>8, <1>9 DEF MonitorInv, Tallying, Snapshot
<1>11. QED BY <1>5, <1>10

LEMMA StatsTallies ==
  ASSUME StatsInv, monitor_thread
  PROVE  (\A s \in Clients : StatsThread(s)') /\ MonitorInv'
<1> USE DEF StatsInv
<1>1. ASSUME NEW s \in Clients PROVE s \in Threads /\ s # Monitor /\ s # Free
  BY StatsAssumption DEF Threads
<1>2. /\ stats_at[Monitor] \in {"idle", "tally", "reset"}
      /\ \A s \in Clients : stats_at'[s] = stats_at[s]
  <2>1. Monitor \in Threads
    BY DEF Threads
  <2>2. \A s \in Threads : s # Monitor => stats_at'[s] = stats_at[s]
    BY <2>1, StatsMoves DEF monitor_thread, TallyLock, LockFor, TallyRates, TallyReset,
       StatsUnlock
  <2>3. QED BY <1>1, <2>2 DEF MonitorInv
<1>3. ASSUME NEW s \in Clients PROVE stats_at[s] \notin StatsLocked
  <2>1. stats_lock \in {Free, Monitor}
    BY DEF monitor_thread, TallyLock, LockFor, TallyRates, TallyReset, StatsUnlock, StatsGo,
           MonitorInv
  <2>2. QED BY <1>1, <2>1 DEF StatsThread
<1>4. ASSUME NEW s \in Clients PROVE StatsThread(s)'
  BY <1>2, <1>3 DEF StatsThread, StatsLocked
<1>5. MonitorInv'
  <2>1. Monitor \in Threads
    BY DEF Threads
  <2>2. CASE TallyLock
    <3>1. stats_at[Monitor] = "idle" /\ stats_at'[Monitor] = "tally"
      BY <2>1, <2>2, StatsMoves DEF TallyLock, LockFor
    <3>2. QED BY <2>2, <3>1 DEF TallyLock, LockFor, MonitorInv, Tallying, Snapshot
  <2>3. CASE TallyRates
    <3>1. stats_at[Monitor] = "tally" /\ stats_at'[Monitor] = "reset"
      BY <2>1, <2>3, StatsMoves DEF TallyRates
    <3>2. total' = counted
      <4>1. \A io \in IO : total[io] + bytes[io] = counted[io]
        BY <3>1 DEF MonitorInv, Tallying
      <4>2. \A io \in IO : Plus(total, bytes)[io] = counted[io]
        BY <4>1, PlusCounts DEF StatsTypeOK
      <4>3. Plus(total, bytes) \in Counters /\ counted \in Counters
        BY PlusCounts DEF StatsTypeOK
      <4>4. QED BY <2>3, <4>2, <4>3 DEF TallyRates, Counters
    <3>3. UNCHANGED <<stats_lock, counted>>
      BY <2>3 DEF TallyRates
    <3>4. QED BY <3>1, <3>2, <3>3 DEF MonitorInv, Tallying
  <2>4. CASE TallyReset
    <3>1. stats_at[Monitor] = "reset" /\ stats_at'[Monitor] = "idle"
      BY <2>1, <2>4, StatsMoves DEF TallyReset, StatsUnlock
    <3>2. /\ UNCHANGED <<total, rate, counted>>
          /\ bytes' = Zero /\ published' = Snapshot(rate, total)
      BY <2>4 DEF TallyReset
    <3>3. total = counted
      BY <3>1 DEF MonitorInv, Tallying
    <3>4. \A io \in IO : total[io] + 0 = counted[io]
      BY <3>3 DEF StatsTypeOK, Counters
    <3>5. QED BY <3>1, <3>2, <3>4 DEF MonitorInv, Tallying, Snapshot, Zero
  <2>5. QED BY <2>2, <2>3, <2>4 DEF monitor_thread
<1>6. QED BY <1>4, <1>5

LEMMA StatsStepKeeps ==
  ASSUME StatsInv, StatsStep
  PROVE  StatsInv'
BY StatsTypes, StatsCalls, StatsLocks, StatsWorks, StatsTallies DEF StatsStep, StatsInv

LEMMA StatsStands ==
  ASSUME StatsInv, UNCHANGED statsVars
  PROVE  StatsInv'
BY DEF StatsInv, StatsTypeOK, StatsThread, MonitorInv, Tallying, Snapshot, statsVars

LEMMA StatsConsistent ==
  ASSUME StatsInv, StatsStep, NEW t \in Clients, Returned(t)
  PROVE  snapshot'[t] = published
<1> USE DEF StatsInv
<1>1. stats_at[t] = "totals" /\ stats_at'[t] = "idle"
  BY DEF Returned
<1>2. stats_at[Monitor] = "idle" /\ snapshot[t].rate = rate
  BY <1>1, StatsAlone DEF StatsLocked, StatsThread
<1>3. RetrieveTotals(t)
  <2>1. ASSUME NEW s \in Threads, NEW from, NEW to, from # "totals", StatsGo(s, from, to)
        PROVE  FALSE
    BY <1>1, <2>1, StatsMoves DEF Threads
  <2>2. ASSUME NEW s \in Threads, s # t, NEW from, NEW to, StatsGo(s, from, to)
        PROVE  FALSE
    BY <1>1, <2>2, StatsMoves DEF Threads
  <2>3. QED BY <2>1, <2>2
        DEF StatsStep, Increment, Retrieve, StatsLock, LockFor, stats_increment, Load, Store,
        stats_retrieve, RetrieveRates, monitor_thread, TallyLock, TallyRates, TallyReset,
        StatsUnlock, RetrieveTotals, Threads
<1>4. published = Snapshot(rate, total)
  BY <1>2 DEF MonitorInv, Tallying
<1>5. QED BY <1>2, <1>3, <1>4 DEF RetrieveTotals, Snapshot, StatsTypeOK

-----------------------------------------------------------------------------
(* Calls and the wait of rf24_write, which only Starter makes.  While it    *)
(* waits the clock has wrapped around at most once, and elapsed is what it *)
(* went on by since sent_at.                                               *)

CallSteps ==
  {"write", "read", "tx", "rx", "retrieve", "sent_at", "observe", "check"}

Polling == {<<"observe">>, <<"check">>}

AppTodo ==
  Programs \cup Polling \cup {<<>>, <<"tx">>, <<"sent_at">>}

IsrTodo == {<<>>, <<"read", "rx">>, <<"rx">>}

TodoInv ==
  /\ todo \in [Users -> Seq(CallSteps)]
  /\ todo[Starter] \in AppTodo
  /\ \A u \in Users \ {Starter} : todo[u] \in IsrTodo
  /\ calls \in Nat /\ received \in Nat

TimerTypeOK ==
  /\ high \in Nat /\ low \in 0 .. WORD - 1
  /\ sent_at \in 0 .. WORD - 1
  /\ elapsed \in 0 .. MaxWait /\ began \in Nat /\ late \in 0 .. Beyond
  /\ waited \in Nat

(* sent_at was late behind the clock, which wrapped around since or did not. *)
Measured ==
  /\ \/ high = began /\ low = sent_at + late + elapsed
     \/ high = began + 1 /\ low + WORD = sent_at + late + elapsed
  /\ late > 0 => LongIsWord /\ sent_at = Largest
  /\ LongIsWord => sent_at <= Largest \/ Largest + Beyond < sent_at

TimerInv ==
  /\ TimerTypeOK
  /\ began <= high
  /\ todo[Starter] \in Polling => Measured
  /\ WaitsItsTimeout

LEMMA OneStep ==
  ASSUME NEW S, NEW a \in S
  PROVE  <<a>> \in Seq(S) /\ Head(<<a>>) = a /\ Tail(<<a>>) = <<>>
OBVIOUS

LEMMA TwoSteps ==
  ASSUME NEW S, NEW a \in S, NEW b \in S
  PROVE  <<a, b>> \in Seq(S) /\ Head(<<a, b>>) = a /\ Tail(<<a, b>>) = <<b>>
OBVIOUS

LEMMA AppTails ==
  ASSUME NEW p \in AppTodo, p # <<>>
  PROVE  /\ p \in Polling => Tail(p) = <<>> /\ Head(p) \in {"observe", "check"}
         /\ p \notin Polling => Tail(p) \in {<<>>, <<"tx">>, <<"sent_at">>}
                              /\ Head(p) \notin {"observe", "check"}
<1>1. \A a \in CallSteps : Head(<<a>>) = a /\ Tail(<<a>>) = <<>>
  BY OneStep
<1>2. \A a, b \in CallSteps : Head(<<a, b>>) = a /\ Tail(<<a, b>>) = <<b>>
  BY TwoSteps
<1>3. CASE p \in Polling
  BY <1>1, <1>3 DEF Polling, CallSteps
<1>4. CASE p \in {<<"retrieve">>, <<"tx">>, <<"sent_at">>}
  BY <1>1, <1>4 DEF Polling, CallSteps
<1>5. CASE p = <<"write", "tx">>
  BY <1>2, <1>5 DEF Polling, CallSteps
<1>6. CASE p = <<"write", "sent_at">>
  BY <1>2, <1>6 DEF Polling, CallSteps
<1>7. QED BY <1>3, <1>4, <1>5, <1>6 DEF AppTodo, Programs

LEMMA IsrTails ==
  ASSUME NEW p \in IsrTodo, p # <<>>
  PROVE  Tail(p) \in IsrTodo /\ Head(p) \in {"read", "rx"}
<1>1. "read" \in CallSteps /\ "rx" \in CallSteps
  BY DEF CallSteps
<1>2. CASE p = <<"rx">>
  BY <1>1, <1>2, OneStep DEF IsrTodo
<1>3. CASE p = <<"read", "rx">>
  BY <1>1, <1>3, TwoSteps DEF IsrTodo
<1>4. QED BY <1>2, <1>3 DEF IsrTodo

LEMMA Tuples ==
  /\ \A p \in AppTodo \cup IsrTodo : p \in Seq(CallSteps)
  /\ \A p \in Programs \cup {<<>>, <<"tx">>, <<"sent_at">>} : p \notin Polling
<1>1. ASSUME NEW p \in AppTodo \cup IsrTodo PROVE p \in Seq(CallSteps)
  <2>1. \A a \in CallSteps : <<a>> \in Seq(CallSteps)
    BY OneStep
  <2>2. \A a, b \in CallSteps : <<a, b>> \in Seq(CallSteps)
    BY TwoSteps
  <2>3. /\ "write" \in CallSteps /\ "read" \in CallSteps /\ "tx" \in CallSteps
        /\ "rx" \in CallSteps /\ "retrieve" \in CallSteps /\ "sent_at" \in CallSteps
        /\ "observe" \in CallSteps /\ "check" \in CallSteps
    BY DEF CallSteps
  <2>4. <<>> \in Seq(CallSteps)
    OBVIOUS
  <2>5. QED BY <2>1, <2>2, <2>3, <2>4 DEF AppTodo, IsrTodo, Programs, Polling
<1>2. \A p \in Programs \cup {<<>>, <<"tx">>, <<"sent_at">>} : p \notin Polling
  BY DEF Programs, Polling
<1>3. QED BY <1>1, <1>2

(* A thread that goes on with its call outside the loop of rf24_write. *)
LEMMA TodoProceeds ==
  ASSUME TodoInv, NEW u \in Users, todo[u] # <<>>, Proceed(u), UNCHANGED <<calls, received>>
  PROVE  /\ TodoInv'
         /\ todo'[Starter] \in Polling => todo[Starter] \in Polling
<1> USE DEF TodoInv
<1>1. /\ todo'[u] = Tail(todo[u])
      /\ \A v \in Users : v # u => todo'[v] = todo[v]
      /\ DOMAIN todo' = Users /\ todo' = [v \in Users |-> todo'[v]]
  BY DEF Proceed
<1>2. u # Starter => todo'[u] \in IsrTodo
  BY <1>1, IsrTails
<1>3. u = Starter => todo'[u] \in AppTodo
  BY <1>1, AppTails, SPIAssumption DEF AppTodo
<1>4. \A v \in Users : todo'[v] \in Seq(CallSteps)
  BY <1>1, <1>2, <1>3, Tuples
<1>5. TodoInv'
  BY <1>1, <1>2, <1>3, <1>4, SPIAssumption
<1>6. QED BY <1>5, <1>1, Tuples, AppTails, SPIAssumption

LEMMA AppBecomes ==
  ASSUME TodoInv, NEW p \in AppTodo, todo' = [todo EXCEPT ![Starter] = p],
         calls' \in Nat, received' \in Nat
  PROVE  TodoInv' /\ todo'[Starter] = p
BY Tuples, SPIAssumption DEF TodoInv

LEMMA IsrBecomes ==
  ASSUME TodoInv, NEW u \in Users, u # Starter, NEW p \in IsrTodo,
         todo' = [todo EXCEPT ![u] = p], calls' \in Nat, received' \in Nat
  PROVE  TodoInv' /\ todo'[Starter] = todo[Starter]
BY Tuples, SPIAssumption DEF TodoInv

(* Only Starter has a step of rf24_write to do. *)
LEMMA OnlyStarterPolls ==
  ASSUME TodoInv, NEW u \in Users, NEW what \in {"sent_at", "observe", "check"},
         NextIs(u, what)
  PROVE  /\ u = Starter /\ todo[u] # <<>>
         /\ what \in {"observe", "check"} => todo[Starter] \in Polling
BY IsrTails, AppTails DEF TodoInv, NextIs

LEMMA Measures ==
  ASSUME TimerTypeOK, Measured
  PROVE  (LongIsWord \/ began = 0) /\ TimedOut => elapsed + late >= Timeout
<1>1. /\ WORD \in Nat /\ Timeout \in Nat /\ MaxWait \in Nat
      /\ Largest \in Nat /\ Beyond \in Nat
      /\ MaxWait + Beyond < WORD /\ Largest + Beyond < WORD
  BY ServicesAssumption
<1>2. CASE LongIsWord /\ TimedOut
  <2>1. millis \in 0 .. low
    BY <1>1 DEF TimerTypeOK, millis
  <2>2. CASE high = began /\ low = sent_at + late + elapsed
    <3>1. sent_at <= millis
      BY <1>1, <1>2, <2>2 DEF TimerTypeOK, Measured, millis
    <3>2. QED BY <1>1, <1>2, <2>1, <2>2, <3>1 DEF TimerTypeOK, TimedOut
  <2>3. CASE high = began + 1 /\ low + WORD = sent_at + late + elapsed
    <3>1. low < sent_at
      BY <1>1, <2>3 DEF TimerTypeOK
    <3>2. QED BY <1>1, <1>2, <2>1, <2>3, <3>1 DEF TimerTypeOK, TimedOut
  <2>4. QED BY <2>2, <2>3 DEF Measured
<1>3. CASE ~LongIsWord /\ began = 0 /\ TimedOut
  <2>1. late = 0
    BY <1>1, <1>3 DEF TimerTypeOK, Measured
  <2>2. CASE high = 0 /\ low = sent_at + elapsed
    <3>1. high * WORD = 0
      BY <1>1, <2>2
    <3>2. QED BY <1>1, <1>3, <2>1, <2>2, <3>1 DEF TimerTypeOK, TimedOut
  <2>3. CASE high = 1 /\ low + WORD = sent_at + elapsed
    <3>1. high * WORD = WORD
      BY <1>1, <2>3
    <3>2. QED BY <1>1, <1>3, <2>1, <2>3, <3>1 DEF TimerTypeOK, TimedOut
  <2>4. QED BY <1>1, <1>3, <2>1, <2>2, <2>3 DEF Measured, TimerTypeOK
<1>4. QED BY <1>2, <1>3

(* A step that leaves the clock and the wait alone. *)
LEMMA TimerStands ==
  ASSUME TimerInv, UNCHANGED timers,
         todo'[Starter] \in Polling => todo[Starter] \in Polling
  PROVE  TimerInv'
BY DEF TimerInv, TimerTypeOK, Measured, WaitsItsTimeout, timers, clock

TimedStep ==
  \/ Call \/ Tick
  \/ \E u \in Users : Interrupt(u) \/ Command(u) \/ Count(u) \/ rf24_write(u)
  \/ UNCHANGED <<control, timers>>

LEMMA TimerStep ==
  ASSUME TodoInv, TimerInv, TimedStep
  PROVE  TodoInv' /\ TimerInv'
<1>1. CASE Call
  <2>1. PICK p \in Programs : todo' = [todo EXCEPT ![Starter] = p]
    BY <1>1 DEF Call
  <2>2. TodoInv' /\ todo'[Starter] = p
    <3>1. p \in AppTodo /\ calls' \in Nat /\ received' \in Nat
      BY <1>1 DEF Call, AppTodo, TodoInv
    <3>2. QED BY <2>1, <3>1, AppBecomes
  <2>3. p \notin Polling
    BY Tuples
  <2>4. QED BY <1>1, <2>2, <2>3, TimerStands DEF Call
<1>2. ASSUME NEW u \in Users, Interrupt(u) PROVE TodoInv' /\ TimerInv'
  <2>1. TodoInv' /\ todo'[Starter] = todo[Starter]
    <3>1. /\ u # Starter /\ todo' = [todo EXCEPT ![u] = <<"read", "rx">>]
          /\ calls' \in Nat /\ received' \in Nat
      BY <1>2 DEF Interrupt, TodoInv
    <3>2. <<"read", "rx">> \in IsrTodo
      BY DEF IsrTodo
    <3>3. QED BY <3>1, <3>2, IsrBecomes
  <2>2. QED BY <1>2, <2>1, TimerStands DEF Interrupt
<1>3. ASSUME NEW u \in Users, Command(u) \/ Count(u) PROVE TodoInv' /\ TimerInv'
  <2>1. /\ todo[u] # <<>> /\ Proceed(u)
        /\ UNCHANGED <<calls, received>> /\ UNCHANGED timers
    BY <1>3 DEF Command, Count, NextIs
  <2>2. /\ TodoInv'
        /\ todo'[Starter] \in Polling => todo[Starter] \in Polling
    BY <2>1, TodoProceeds
  <2>3. QED BY <2>1, <2>2, TimerStands
<1>4. ASSUME NEW u \in Users, StartWaiting(u) PROVE TodoInv' /\ TimerInv'
  <2>1. u = Starter
    BY <1>4, OnlyStarterPolls DEF StartWaiting
  <2>2. TodoInv'
    <3>1. /\ todo' = [todo EXCEPT ![Starter] = <<"observe">>]
          /\ calls' \in Nat /\ received' \in Nat
      BY <1>4, <2>1 DEF StartWaiting, TodoInv
    <3>2. <<"observe">> \in AppTodo
      BY DEF AppTodo, Polling
    <3>3. QED BY <3>1, <3>2, AppBecomes
  <2>3. /\ millis \in 0 .. WORD - 1 /\ low - millis \in 0 .. Beyond
        /\ low - millis > 0 => LongIsWord /\ millis = Largest
        /\ LongIsWord => millis <= Largest \/ Largest + Beyond < millis
    BY ServicesAssumption DEF TimerInv, TimerTypeOK, millis
  <2>4. TimerTypeOK' /\ began' <= high' /\ Measured'
    BY <1>4, <2>3, ServicesAssumption
       DEF StartWaiting, TimerInv, TimerTypeOK, Measured, clock
  <2>5. WaitsItsTimeout'
    BY <1>4, <2>4, ServicesAssumption DEF StartWaiting, TimerTypeOK, WaitsItsTimeout
  <2>6. QED BY <2>2, <2>4, <2>5 DEF TimerInv
<1>5. ASSUME NEW u \in Users, Observe(u) PROVE TodoInv' /\ TimerInv'
  <2>1. u = Starter /\ todo[Starter] \in Polling
    BY <1>5, OnlyStarterPolls DEF Observe
  <2>2. TodoInv'
    <3>1. /\ todo' = [todo EXCEPT ![Starter] = <<"check">>]
          /\ calls' \in Nat /\ received' \in Nat
      BY <1>5, <2>1 DEF Observe, TodoInv
    <3>2. <<"check">> \in AppTodo
      BY DEF AppTodo, Polling
    <3>3. QED BY <3>1, <3>2, AppBecomes
  <2>3. QED BY <1>5, <2>1, <2>2, TimerStands DEF Observe
<1>6. ASSUME NEW u \in Users, Check(u) PROVE TodoInv' /\ TimerInv'
  <2>1. u = Starter /\ todo[u] # <<>> /\ todo[Starter] \in Polling
    BY <1>6, OnlyStarterPolls DEF Check
  <2>2. Measured /\ TimerTypeOK
    BY <2>1 DEF TimerInv
  <2>3. CASE /\ Proceed(u) /\ sent_at' = 0 /\ elapsed' = 0
             /\ \/ UNCHANGED waited
                \/ TimedOut /\ waited' = elapsed
    <3>1. TodoInv'
      BY <1>6, <2>1, <2>3, TodoProceeds DEF Check
    <3>2. todo'[Starter] \notin Polling
      <4>1. todo'[Starter] = <<>>
        BY <2>1, <2>3, AppTails DEF Proceed, TodoInv
      <4>2. QED BY <4>1, Tuples
    <3>3. TimerTypeOK' /\ began' <= high'
      BY <1>6, <2>3, ServicesAssumption DEF Check, TimerInv, TimerTypeOK, clock
    <3>4. WaitsItsTimeout'
      <4>1. CASE UNCHANGED waited
        BY <1>6, <4>1 DEF Check, TimerInv, WaitsItsTimeout
      <4>2. CASE TimedOut /\ waited' = elapsed
        BY <1>6, <2>2, <4>2, Measures DEF Check, WaitsItsTimeout
      <4>3. QED BY <2>3, <4>1, <4>2
    <3>5. QED BY <3>1, <3>2, <3>3, <3>4 DEF TimerInv
  <2>4. CASE todo' = [todo EXCEPT ![u] = <<"observe">>] /\ UNCHANGED <<sent_at, elapsed, waited>>
    <3>1. TodoInv'
      <4>1. <<"observe">> \in AppTodo /\ calls' \in Nat /\ received' \in Nat
        BY <1>6 DEF Check, TodoInv, AppTodo, Polling
      <4>2. QED BY <2>1, <2>4, <4>1, AppBecomes
    <3>2. QED BY <1>6, <2>1, <2>4, <3>1, TimerStands DEF Check, timers, clock
  <2>5. \/ todo' = [todo EXCEPT ![u] = <<"observe">>] /\ UNCHANGED <<sent_at, elapsed, waited>>
        \/ /\ Proceed(u) /\ sent_at' = 0 /\ elapsed' = 0
           /\ \/ UNCHANGED waited
              \/ TimedOut /\ waited' = elapsed
    BY <1>6 DEF Check
  <2>6. QED BY <2>3, <2>4, <2>5
<1>7. CASE Tick
  <2>1. todo[Starter] \in Polling
    <3>1. PICK u \in Users : todo[u] \in Polling
      BY <1>7 DEF Tick, Waiting, Polling
    <3>2. u = Starter
      <4>1. IsrTodo \cap Polling = {}
        BY DEF IsrTodo, Polling
      <4>2. QED BY <3>1, <4>1 DEF TodoInv
    <3>3. QED BY <3>1, <3>2
  <2>2. Measured /\ TimerTypeOK
    BY <2>1 DEF TimerInv
  <2>3. /\ WORD \in Nat /\ MaxWait \in Nat /\ Beyond \in Nat
        /\ MaxWait + Beyond < WORD
    BY ServicesAssumption
  <2>4. TimerTypeOK' /\ Measured'
    <3>1. CASE low + 1 = WORD
      BY <1>7, <2>2, <2>3, <3>1 DEF Tick, TimerTypeOK, Measured
    <3>2. CASE low + 1 # WORD
      BY <1>7, <2>2, <2>3, <3>2 DEF Tick, TimerTypeOK, Measured
    <3>3. QED BY <3>1, <3>2
  <2>5. began' <= high'
    BY <1>7, <2>2 DEF Tick, TimerInv, TimerTypeOK
  <2>6. WaitsItsTimeout'
    BY <1>7 DEF Tick, TimerInv, WaitsItsTimeout
  <2>7. TodoInv'
    BY <1>7 DEF Tick, control, TodoInv
  <2>8. QED BY <2>4, <2>5, <2>6, <2>7 DEF TimerInv
<1>8. CASE UNCHANGED <<control, timers>>
  <2>1. TodoInv' /\ todo' = todo
    BY <1>8 DEF control, TodoInv
  <2>2. QED BY <1>8, <2>1, TimerStands
<1>9. QED BY <1>1, <1>2, <1>3, <1>4, <1>5, <1>6, <1>7, <1>8 DEF TimedStep, rf24_write

LEMMA TimerInitially == Init => TodoInv /\ TimerInv
<1> SUFFICES ASSUME Init PROVE TodoInv /\ TimerInv
  OBVIOUS
<1>1. TodoInv
  <2>1. <<>> \in AppTodo /\ <<>> \in IsrTodo
    BY DEF AppTodo, IsrTodo
  <2>2. \A u \in Users : todo[u] = <<>>
    BY DEF Init
  <2>3. todo \in [Users -> Seq(CallSteps)]
    BY DEF Init
  <2>4. calls \in Nat /\ received \in Nat
    BY DEF Init
  <2>5. QED BY <2>1, <2>2, <2>3, <2>4, SPIAssumption DEF TodoInv
<1>2. todo[Starter] \notin Polling
  BY Tuples, SPIAssumption DEF Init
<1>3. PICK start \in Starts : high = start[1] /\ low = start[2]
  BY DEF Init
<1>4. start \in Nat \X (0 .. WORD - 1)
  BY <1>3, ServicesAssumption
<1>5. high \in Nat /\ low \in 0 .. WORD - 1
  BY <1>3, <1>4
<1>6. /\ 0 \in 0 .. WORD - 1 /\ 0 \in 0 .. MaxWait /\ 0 \in 0 .. Beyond
      /\ Timeout \in Nat
  BY ServicesAssumption
<1>7. sent_at = 0 /\ elapsed = 0 /\ began = 0 /\ late = 0 /\ waited = Timeout
  BY DEF Init
<1>8. TimerTypeOK /\ began <= high /\ waited + late >= Timeout
  BY <1>5, <1>6, <1>7 DEF TimerTypeOK
<1>9. QED BY <1>1, <1>2, <1>8 DEF TimerInv, WaitsItsTimeout

-----------------------------------------------------------------------------
(* The parts together.                                                      *)

BusStepOrNot ==
  \/ \E u \in Users :
       \/ spi_init \/ SpiStep(u)
       \/ \E c \in Values \cup {"read"} : SpiCall(u, c)
  \/ UNCHANGED spiVars

IInv == BusInv /\ StatsInv /\ TodoInv /\ TimerInv

LEMMA Parts ==
  ASSUME [Next]_vars
  PROVE  /\ BusStepOrNot
         /\ StatsStep \/ UNCHANGED statsVars
         /\ TimedStep
<1> USE DEF control, timers
<1>1. Clients = Users /\ Starter \in Users
  BY SPIAssumption, ServicesAssumption
<1>2. CASE Bus_(spi_init)
  BY <1>1, <1>2 DEF Bus_, BusStepOrNot, TimedStep
<1>3. CASE Call \/ Tick
  BY <1>3 DEF Call, Tick, BusStepOrNot, TimedStep
<1>4. CASE Stats_(monitor_thread)
  BY <1>4 DEF Stats_, BusStepOrNot, StatsStep, TimedStep
<1>5. ASSUME NEW u \in Users, Interrupt(u)
      PROVE  BusStepOrNot /\ UNCHANGED statsVars /\ TimedStep
  BY <1>5 DEF Interrupt, BusStepOrNot, TimedStep
<1>6. ASSUME NEW u \in Users, Command(u)
      PROVE  BusStepOrNot /\ UNCHANGED statsVars /\ TimedStep
  <2>1. \E c \in Values \cup {"read"} : SpiCall(u, c)
    BY <1>6 DEF Command
  <2>2. UNCHANGED statsVars
    BY <1>6 DEF Command
  <2>3. QED BY <1>6, <2>1, <2>2 DEF BusStepOrNot, TimedStep
<1>7. ASSUME NEW u \in Users, Count(u)
      PROVE  BusStepOrNot /\ StatsStep /\ TimedStep
  <2>1. StatsStep
    BY <1>1, <1>7 DEF Count, StatsStep, IO
  <2>2. UNCHANGED spiVars
    BY <1>7 DEF Count
  <2>3. QED BY <1>7, <2>1, <2>2 DEF BusStepOrNot, TimedStep
<1>8. ASSUME NEW u \in Users, rf24_write(u)
      PROVE  BusStepOrNot /\ UNCHANGED statsVars /\ TimedStep
  <2>1. UNCHANGED statsVars
    BY <1>8 DEF rf24_write, StartWaiting, Observe, Check
  <2>2. BusStepOrNot
    BY <1>8 DEF rf24_write, StartWaiting, Observe, Check, BusStepOrNot
  <2>3. QED BY <1>8, <2>1, <2>2 DEF TimedStep
<1>9. ASSUME NEW u \in Users, Bus_(SpiStep(u))
      PROVE  BusStepOrNot /\ UNCHANGED statsVars /\ TimedStep
  BY <1>9 DEF Bus_, BusStepOrNot, TimedStep
<1>10. ASSUME NEW u \in Users, Stats_(StatsLock(u) \/ stats_increment(u) \/ stats_retrieve(u))
       PROVE  BusStepOrNot /\ StatsStep /\ TimedStep
  <2>1. /\ StatsLock(u) \/ stats_increment(u) \/ stats_retrieve(u)
        /\ UNCHANGED <<spiVars, control, timers>>
    BY <1>10 DEF Stats_
  <2>2. u \in Clients
    BY <1>1
  <2>3. StatsStep
    BY <2>1, <2>2 DEF StatsStep
  <2>4. QED BY <2>1, <2>3 DEF BusStepOrNot, TimedStep
<1>11. CASE UNCHANGED vars
  BY <1>11 DEF vars, BusStepOrNot, TimedStep
<1>12. CASE Next
  <2>1. CASE \E u \in Users : Interrupt(u) \/ Thread(u)
    BY <1>5, <1>6, <1>7, <1>8, <1>9, <1>10, <2>1 DEF Thread
  <2>2. CASE Bus_(spi_init) \/ Call \/ Tick \/ Stats_(monitor_thread)
    BY <1>2, <1>3, <1>4, <2>2
  <2>3. QED
    <3>1. Opened /\ Stats_(monitor_thread) => Stats_(monitor_thread)
      OBVIOUS
    <3>2. QED BY <1>12, <2>1, <2>2, <3>1 DEF Next
<1>13. QED BY <1>11, <1>12

LEMMA Initially == Init => IInv
BY BusInitially, StatsInitially, TimerInitially DEF Init, IInv

LEMMA Inductive == IInv /\ [Next]_vars => IInv'
<1> SUFFICES ASSUME IInv, [Next]_vars PROVE IInv'
  OBVIOUS
<1>1. BusInv'
  BY Parts, BusStep, BusStands DEF BusStepOrNot, IInv
<1>2. StatsInv'
  BY Parts, StatsStepKeeps, StatsStands DEF IInv
<1>3. TodoInv' /\ TimerInv'
  BY Parts, TimerStep DEF IInv
<1>4. QED BY <1>1, <1>2, <1>3 DEF IInv

THEOREM IInvAlways == Spec => []IInv
<1>1. QED BY Initially, Inductive, PTL DEF Spec

(* Each variable keeps its type; the clock's lower half stays a uint32_t.   *)
THEOREM TypeCorrect == Spec => []TypeOK
<1>1. IInv => TypeOK
  BY DEF IInv, BusInv, StatsInv, TodoInv, TimerInv, TimerTypeOK, CallSteps, TypeOK
<1>2. QED BY <1>1, IInvAlways, PTL

(* The mutex of spi.c makes every command of two bytes a single read or     *)
(* write of the register, or a failure that writes nothing, for any number *)
(* of threads and any transfers that fail.                                 *)
THEOREM BusIsAtomic == Spec => BusSpec
<1>1. Init => Bus!Init
  BY BusInitRefines DEF Init
<1>2. IInv /\ [Next]_vars => [Bus!Next]_(Bus!vars)
  BY Parts, BusStepRefines, BusStandsStill DEF BusStepOrNot, IInv
<1>3. QED BY <1>1, <1>2, IInvAlways, PTL DEF Spec, BusSpec, Bus!Spec

(* Two threads that add and a monitor that resets lose no byte.             *)
THEOREM NothingIsLost == Spec => []NothingLost
<1>1. IInv => NothingLost
  BY StatsAssumption DEF IInv, StatsInv, MonitorInv, Tallying, NothingLost, Threads
<1>2. QED BY <1>1, IInvAlways, PTL

(* Who retrieves statistics gets rates and totals of one interval.          *)
THEOREM RatesAreConsistent == Spec => ConsistentRates
<1>1. IInv /\ [Next]_vars =>
        [\A t \in Clients : Returned(t) => snapshot'[t] = published]_statsVars
  BY Parts, StatsConsistent DEF IInv
<1>2. QED BY <1>1, IInvAlways, PTL DEF Spec, ConsistentRates

(* rf24_write waits for its timeout, whatever the clock, where a long is as *)
(* wide as a uint32_t or the wait began before the clock first wrapped.    *)
THEOREM WaitsLongEnough == Spec => []WaitsItsTimeout
<1>1. IInv => WaitsItsTimeout
  BY DEF IInv, TimerInv
<1>2. QED BY <1>1, IInvAlways, PTL

-----------------------------------------------------------------------------
(* Who holds a mutex.  A thread is in spi.c or in rf24Stats.c and never in  *)
(* both, and nobody is in rf24Stats.c before spi_init is done.             *)

Inside == {"tally", "reset"}

MutexInv ==
  /\ Opened => spi_lock # Garbage
  /\ ~Opened => \A t \in Threads : stats_at[t] = "idle"
  /\ \A u \in Users : spi_at[u] = "idle" \/ stats_at[u] = "idle"
  /\ stats_lock \in Clients => stats_at[stats_lock] \in StatsLocked
  /\ stats_lock = Monitor => stats_at[Monitor] \in Inside

LEMMA MutexInitially == Init => MutexInv
BY SPIAssumption, StatsAssumption, ServicesAssumption
   DEF Init, SpiInit, stats_create, MutexInv, Opened, Threads

(* A step in spi.c. *)
LEMMA MutexOfBus ==
  ASSUME BusInv, MutexInv, UNCHANGED statsVars,
         \/ spi_init
         \/ \E u \in Users : SpiStep(u)
         \/ \E u \in Users, c \in Values \cup {"read"} : stats_at[u] = "idle" /\ SpiCall(u, c)
  PROVE  MutexInv'
<1>1. /\ UNCHANGED <<stats_at, stats_lock>>
      /\ Users \subseteq Threads
      /\ spi_at \in [Users -> SpiLocations]
  BY ServicesAssumption DEF statsVars, Threads, BusInv, SpiTypeOK
<1>2. CASE spi_init
  <2>1. ~Opened
    BY <1>2 DEF spi_init, OpenDevice, DisableFirst, InitMutex, SpiGo, Opened
  <2>2. \A t \in Threads : stats_at'[t] = "idle"
    BY <1>1, <2>1 DEF MutexInv
  <2>3. Opened' => spi_lock' # Garbage
    BY <1>1, <1>2, SPIAssumption
       DEF spi_init, OpenDevice, DisableFirst, InitMutex, SpiGo, Opened, Nobody, Garbage
  <2> QED
    BY <1>1, <2>2, <2>3 DEF MutexInv
<1>3. ASSUME NEW u \in Users, SpiStep(u) \/ \E c \in Values \cup {"read"} : SpiCall(u, c),
             stats_at[u] = "idle"
      PROVE  MutexInv'
  <2>1. /\ spi_at[u] \in {"idle", "enable"} \cup InBus
        /\ spi_at'[u] \in {"idle", "enable"} \cup InBus
        /\ \A v \in Users : v # u => spi_at'[v] = spi_at[v]
    BY <1>1, <1>3, BusMoves
       DEF SpiStep, spi_enable, CommandByte, DataByte, TransferFails, spi_disable, Deselect,
           SpiCall, SpiGo, InBus
  <2>2. spi_lock' \in {u, Nobody, spi_lock}
    BY <1>3 DEF SpiStep, spi_enable, CommandByte, DataByte, TransferFails, spi_disable, SpiCall
  <2>3. Opened /\ Opened'
    <3>1. Opened
      BY <1>3, <2>1 DEF BusInv, BusThread, InBus, Starting, SpiCall, SpiStep, spi_enable,
         CommandByte, DataByte, TransferFails, spi_disable, Deselect, SpiGo
    <3> QED
      BY <2>1, <3>1, SPIAssumption DEF Opened, InBus
  <2>4. spi_lock' # Garbage
    BY <2>2, <2>3, SPIAssumption DEF MutexInv, Nobody, Garbage
  <2>5. \A v \in Users : spi_at'[v] = "idle" \/ stats_at'[v] = "idle"
    BY <1>1, <1>3, <2>1 DEF MutexInv
  <2> QED
    BY <1>1, <2>3, <2>4, <2>5 DEF MutexInv
<1>4. ASSUME NEW u \in Users, SpiStep(u) PROVE stats_at[u] = "idle"
  BY <1>4 DEF MutexInv, SpiStep, spi_enable, CommandByte, DataByte, TransferFails,
     spi_disable, Deselect, SpiGo
<1> QED
  BY <1>2, <1>3, <1>4

(* A step in rf24Stats.c of a thread that is not in spi.c. *)
LEMMA MutexOfStats ==
  ASSUME StatsInv, MutexInv, UNCHANGED spiVars, Opened,
         \/ \E t \in Users : /\ spi_at[t] = "idle"
                            /\ \/ Retrieve(t) \/ \E io \in IO : Increment(t, io)
         \/ \E t \in Users : StatsLock(t) \/ stats_increment(t) \/ stats_retrieve(t)
         \/ monitor_thread
  PROVE  MutexInv'
<1>1. /\ UNCHANGED <<spi_at, spi_lock>> /\ Opened'
      /\ Users \subseteq Threads /\ Clients = Users /\ Monitor \in Threads
      /\ Monitor \notin Users /\ Free \notin Users /\ Free # Monitor
      /\ stats_at \in [Threads -> {"idle", "increment", "retrieve", "load", "store",
                                   "rates", "totals", "tally", "reset"}]
  BY ServicesAssumption, StatsAssumption DEF spiVars, Opened, Threads, StatsInv, StatsTypeOK
<1>2. ASSUME NEW t \in Users, spi_at[t] = "idle",
             \A s \in Threads : s # t => stats_at'[s] = stats_at[s],
             \/ stats_lock' = stats_lock /\ stats_lock # t
             \/ stats_lock' = stats_lock /\ stats_at'[t] \in StatsLocked
             \/ stats_lock' = t /\ stats_at'[t] \in StatsLocked
             \/ stats_lock' = Free
      PROVE  MutexInv'
  BY <1>1, <1>2 DEF MutexInv
<1>3. ASSUME NEW t \in Users, spi_at[t] = "idle",
             Retrieve(t) \/ \E io \in IO : Increment(t, io)
      PROVE  MutexInv'
  <2>1. stats_at[t] = "idle" /\ stats_lock' = stats_lock
        /\ \A s \in Threads : s # t => stats_at'[s] = stats_at[s]
    BY <1>1, <1>3, StatsMoves DEF Retrieve, Increment
  <2>2. stats_lock # t
    BY <1>1, <2>1 DEF MutexInv, StatsLocked
  <2> QED
    BY <1>2, <1>3, <2>1, <2>2
<1>4. ASSUME NEW t \in Users, StatsLock(t) \/ stats_increment(t) \/ stats_retrieve(t)
      PROVE  MutexInv'
  <2>1. /\ stats_at[t] # "idle"
        /\ \A s \in Threads : s # t => stats_at'[s] = stats_at[s]
    BY <1>1, <1>4, StatsMoves DEF StatsLock, LockFor, stats_increment, Load, Store,
       stats_retrieve, RetrieveRates, RetrieveTotals, StatsUnlock
  <2>2. \/ stats_lock' = stats_lock /\ stats_at'[t] \in StatsLocked
        \/ stats_lock' = t /\ stats_at'[t] \in StatsLocked
        \/ stats_lock' = Free
    BY <1>1, <1>4, StatsMoves DEF StatsLock, LockFor, stats_increment, Load, Store,
       stats_retrieve, RetrieveRates, RetrieveTotals, StatsUnlock, StatsLocked
  <2>3. spi_at[t] = "idle"
    BY <2>1 DEF MutexInv
  <2> QED
    BY <1>2, <2>1, <2>2, <2>3
<1>5. CASE monitor_thread
  <2>1. /\ \A s \in Threads : s # Monitor => stats_at'[s] = stats_at[s]
        /\ \/ stats_lock' = Monitor /\ stats_at'[Monitor] \in Inside
           \/ stats_lock' = stats_lock /\ stats_at'[Monitor] \in Inside
           \/ stats_lock' = Free
    BY <1>1, <1>5, StatsMoves DEF monitor_thread, TallyLock, LockFor, TallyRates, TallyReset,
       StatsUnlock, Inside
  <2> QED
    BY <1>1, <2>1 DEF MutexInv
<1> QED
  BY <1>3, <1>4, <1>5

LEMMA MutexNext ==
  ASSUME BusInv, StatsInv, MutexInv, [Next]_vars
  PROVE  MutexInv'
<1>1. ASSUME UNCHANGED <<spiVars, statsVars>> PROVE MutexInv'
  BY <1>1 DEF MutexInv, spiVars, statsVars, Opened
<1>2. CASE Bus_(spi_init)
  BY <1>2, MutexOfBus DEF Bus_
<1>3. CASE Call \/ Tick \/ \E u \in Users : Interrupt(u) \/ StartWaiting(u) \/ Check(u)
  BY <1>1, <1>3 DEF Call, Tick, Interrupt, StartWaiting, Check
<1>4. CASE Opened /\ Stats_(monitor_thread)
  BY <1>4, MutexOfStats DEF Stats_
<1>5. ASSUME NEW u \in Users, Command(u) \/ Observe(u) PROVE MutexInv'
  <2>1. stats_at[u] = "idle" /\ UNCHANGED statsVars
        /\ \E c \in Values \cup {"read"} : SpiCall(u, c)
    BY <1>5 DEF Command, Observe, NextIs, Ready
  <2> QED
    BY <2>1, MutexOfBus
<1>6. ASSUME NEW u \in Users, Count(u) PROVE MutexInv'
  <2>1. Opened /\ spi_at[u] = "idle" /\ UNCHANGED spiVars
        /\ (Retrieve(u) \/ \E io \in IO : Increment(u, io))
    BY <1>6 DEF Count, NextIs, Ready, IO
  <2> QED
    BY <2>1, MutexOfStats
<1>7. ASSUME NEW u \in Users, Bus_(SpiStep(u)) PROVE MutexInv'
  BY <1>7, MutexOfBus DEF Bus_
<1>8. ASSUME NEW u \in Users,
             Stats_(StatsLock(u) \/ stats_increment(u) \/ stats_retrieve(u))
      PROVE  MutexInv'
  <2>1. UNCHANGED spiVars /\ (StatsLock(u) \/ stats_increment(u) \/ stats_retrieve(u))
    BY <1>8 DEF Stats_
  <2>2. u \in Threads /\ stats_at[u] # "idle"
    BY <2>1, ServicesAssumption DEF StatsLock, LockFor, stats_increment, Load, Store,
       stats_retrieve, RetrieveRates, RetrieveTotals, StatsUnlock, StatsGo, Threads
  <2>3. Opened
    BY <2>2 DEF MutexInv
  <2> QED
    BY <2>1, <2>3, MutexOfStats
<1>9. CASE UNCHANGED vars
  BY <1>1, <1>9 DEF vars
<1>10. CASE \E u \in Users : Thread(u)
  BY <1>3, <1>5, <1>6, <1>7, <1>8, <1>10 DEF Thread, rf24_write
<1> QED
  BY <1>2, <1>3, <1>4, <1>9, <1>10 DEF Next

(* Neither mutex is kept or destroyed, and nobody waits for one while it    *)
(* holds the other: threads under the driver can not lock each other out,  *)
(* however many there are and whatever transfers fail.                     *)
THEOREM MutexesComeFree == Spec => []HoldersMoveOn
<1>1. BusInv /\ StatsInv /\ MutexInv => HoldersMoveOn
  BY SPIAssumption, StatsAssumption, ServicesAssumption
     DEF BusInv, SpiTypeOK, BusThread, StatsInv, StatsTypeOK, MutexInv, HoldersMoveOn,
         InBus, StatsLocked, Inside, Threads
<1>2. IInv => BusInv /\ StatsInv
  BY DEF IInv
<1>3. BusInv /\ StatsInv /\ MutexInv /\ [Next]_vars => MutexInv'
  BY MutexNext
<1>4. QED BY <1>1, <1>2, <1>3, MutexInitially, IInvAlways, PTL DEF Spec

-----------------------------------------------------------------------------
(* The statistics implement AtomicStats.  Between the two steps of the      *)
(* monitor the rates and totals are those of the interval it is about to   *)
(* publish.                                                                *)

TallyInv == Tallying => rate = bytes /\ total = Plus(published.total, bytes)

(* Between the first and the last step of another the monitor waits, and    *)
(* the other way round.                                                    *)
LEMMA TallyNext ==
  ASSUME StatsInv, TallyInv, StatsStep \/ UNCHANGED statsVars
  PROVE  TallyInv'
<1>1. Monitor \in Threads /\ \A t \in Clients : t \in Threads /\ t # Monitor
  BY StatsAssumption DEF Threads
<1>2. CASE TallyRates
  <2>1. ~Tallying /\ published = Snapshot(rate, total)
    BY <1>1, <1>2, StatsMoves DEF TallyRates, Tallying, StatsInv, MonitorInv
  <2> QED
    BY <1>2, <2>1 DEF TallyRates, TallyInv, Plus, Snapshot
<1>3. ASSUME UNCHANGED <<bytes, total, rate, published>>, Tallying' => Tallying
      PROVE  TallyInv'
  BY <1>3 DEF TallyInv, Plus
<1>4. CASE TallyLock \/ TallyReset
  <2>1. ~Tallying'
    BY <1>1, <1>4, StatsMoves DEF TallyLock, TallyReset, StatsUnlock, LockFor, Tallying
  <2> QED
    BY <2>1 DEF TallyInv
<1>5. ASSUME NEW t \in Clients,
             \/ Retrieve(t) \/ \E io \in IO : Increment(t, io)
             \/ StatsLock(t) \/ stats_increment(t) \/ stats_retrieve(t)
      PROVE  TallyInv'
  <2>1. stats_at'[Monitor] = stats_at[Monitor]
    BY <1>1, <1>5, StatsMoves DEF Retrieve, Increment, StatsLock, LockFor, stats_increment,
       Load, Store, stats_retrieve, RetrieveRates, RetrieveTotals, StatsUnlock
  <2>2. CASE Store(t)
    <3>1. stats_at[Monitor] = "idle"
      BY <2>2, StatsAlone DEF Store, StatsUnlock, StatsGo, StatsLocked
    <3> QED
      BY <2>1, <3>1 DEF TallyInv, Tallying
  <2>3. CASE UNCHANGED <<bytes, total, rate, published>>
    BY <1>3, <2>1, <2>3 DEF Tallying
  <2> QED
    BY <1>5, <2>2, <2>3 DEF Retrieve, Increment, StatsLock, LockFor, stats_increment, Load,
       stats_retrieve, RetrieveRates, RetrieveTotals
<1>6. CASE UNCHANGED statsVars
  BY <1>3, <1>6 DEF statsVars, Tallying
<1> QED
  BY <1>2, <1>4, <1>5, <1>6 DEF StatsStep, monitor_thread

(* The abstract view of one client. *)
LEMMA ViewMoves ==
  ASSUME StatsInv, NEW t \in Clients, UNCHANGED total,
         \A s \in Clients : s # t => stats_at'[s] = stats_at[s] /\ snapshot'[s] = snapshot[s]
  PROVE  /\ [s \in Clients |-> CallPhase(s)]'
              = [[s \in Clients |-> CallPhase(s)] EXCEPT ![t] = CallPhase(t)']
         /\ [s \in Clients |-> Copied(s)]'
              = [[s \in Clients |-> Copied(s)] EXCEPT ![t] = Copied(t)']
<1>1. \A s \in Clients : s # t => CallPhase(s)' = CallPhase(s) /\ Copied(s)' = Copied(s)
  BY DEF CallPhase, Copied
<1> QED
  BY <1>1

LEMMA ViewStays ==
  ASSUME StatsInv, UNCHANGED <<adding, bytes, published>>,
         \A s \in Clients : CallPhase(s)' = CallPhase(s) /\ Copied(s)' = Copied(s)
  PROVE  UNCHANGED Stats!vars
BY DEF Stats!vars

LEMMA StatsCallRefines ==
  ASSUME StatsInv, NEW t \in Clients,
         Retrieve(t) \/ \E io \in IO : Increment(t, io)
  PROVE  Stats!Client(t)
<1>1. /\ \A s \in Clients : s # t => stats_at'[s] = stats_at[s] /\ snapshot'[s] = snapshot[s]
      /\ stats_at[t] = "idle"
      /\ UNCHANGED <<total, snapshot, bytes, published>>
  BY StatsMoves DEF Retrieve, Increment, Threads
<1>2. Copied(t)' = Copied(t) /\ CallPhase(t) = "idle"
  <2>1. stats_at'[t] # "totals"
    BY StatsMoves DEF Retrieve, Increment, Threads
  <2> QED
    BY <1>1, <2>1 DEF Copied, CallPhase
<1>3. [s \in Clients |-> Copied(s)]' = [s \in Clients |-> Copied(s)]
  BY <1>1, <1>2, ViewMoves
<1>4. CASE Retrieve(t)
  <2>1. CallPhase(t)' = "retrieve" /\ UNCHANGED adding
    BY <1>4, StatsMoves DEF Retrieve, CallPhase, Threads
  <2>2. Stats!CallRetrieve(t)
    BY <1>1, <1>2, <1>3, <2>1, ViewMoves DEF Stats!CallRetrieve, Stats!Go
  <2> QED
    BY <2>2 DEF Stats!Client
<1>5. ASSUME NEW io \in IO, Increment(t, io)
      PROVE  Stats!Client(t)
  <2>1. CallPhase(t)' = "increment"
    BY <1>5, StatsMoves DEF Increment, CallPhase, Threads
  <2>2. \E n \in Amounts : adding' = [adding EXCEPT ![t] = [Zero EXCEPT ![io] = n]]
    BY <1>5 DEF Increment
  <2>3. io \in Stats!IO /\ Zero = Stats!Zero
    BY DEF IO, Zero, Stats!IO, Stats!Zero
  <2>4. Stats!CallIncrement(t)
    BY <1>1, <1>2, <1>3, <2>1, <2>2, <2>3, ViewMoves DEF Stats!CallIncrement, Stats!Go
  <2> QED
    BY <2>4 DEF Stats!Client
<1> QED
  BY <1>4, <1>5

LEMMA StatsLockRefines ==
  ASSUME StatsInv, NEW t \in Clients, StatsLock(t) \/ Load(t)
  PROVE  UNCHANGED Stats!vars
<1>1. /\ \A s \in Clients : s # t => stats_at'[s] = stats_at[s]
      /\ \/ stats_at[t] = "increment" /\ stats_at'[t] = "load"
         \/ stats_at[t] = "retrieve" /\ stats_at'[t] = "rates"
         \/ stats_at[t] = "load" /\ stats_at'[t] = "store"
  BY StatsMoves DEF StatsLock, LockFor, Load, Threads
<1>2. UNCHANGED <<adding, bytes, total, snapshot, published>>
  BY DEF StatsLock, LockFor, Load
<1>3. \A s \in Clients : CallPhase(s)' = CallPhase(s) /\ Copied(s)' = Copied(s)
  BY <1>1, <1>2 DEF CallPhase, Copied
<1> QED
  BY <1>2, <1>3, ViewStays

(* What was loaded is what there is. *)
LEMMA StoreRefines ==
  ASSUME StatsInv, NEW t \in Clients, Store(t)
  PROVE  Stats!Increment(t)
<1>1. /\ \A s \in Clients : s # t => stats_at'[s] = stats_at[s] /\ snapshot'[s] = snapshot[s]
      /\ stats_at[t] = "store" /\ stats_at'[t] = "idle"
      /\ UNCHANGED <<total, snapshot, published>>
  BY StatsMoves DEF Store, StatsUnlock, Threads
<1>2. loaded[t] = bytes
  BY <1>1 DEF StatsInv, StatsThread
<1>3. /\ Copied(t)' = Copied(t)
      /\ CallPhase(t) = "increment" /\ CallPhase(t)' = "idle"
  BY <1>1 DEF Copied, CallPhase
<1>4. /\ [s \in Clients |-> CallPhase(s)]'
           = [[s \in Clients |-> CallPhase(s)] EXCEPT ![t] = "idle"]
      /\ [s \in Clients |-> Copied(s)]' = [s \in Clients |-> Copied(s)]
  BY <1>1, <1>3, ViewMoves
<1>5. bytes' = Stats!Plus(bytes, adding[t]) /\ adding' = [adding EXCEPT ![t] = Stats!Zero]
  BY <1>2 DEF Store, Plus, Zero, IO, Stats!Plus, Stats!Zero, Stats!IO
<1> QED
  BY <1>1, <1>3, <1>4, <1>5 DEF Stats!Increment, Stats!Go

(* The retrieval takes effect when it copies the rates: the totals stay     *)
(* what they are until it has copied them too.                             *)
LEMMA RetrieveRefines ==
  ASSUME StatsInv, NEW t \in Clients, stats_retrieve(t)
  PROVE  Stats!Retrieve(t) \/ Stats!Return(t)
<1>1. /\ \A s \in Clients : s # t => stats_at'[s] = stats_at[s] /\ snapshot'[s] = snapshot[s]
      /\ stats_at[t] \in StatsLocked
      /\ UNCHANGED <<adding, bytes, total, rate, published>>
  BY StatsMoves DEF stats_retrieve, RetrieveRates, RetrieveTotals, StatsUnlock, StatsLocked,
     StatsInv, StatsTypeOK, Threads
<1>2. published = Snapshot(rate, total)
  BY <1>1, StatsAlone DEF StatsInv, MonitorInv, Tallying
<1>3. CASE RetrieveRates(t)
  <2>1. /\ CallPhase(t) = "retrieve" /\ CallPhase(t)' = "return"
        /\ stats_at'[t] = "totals"
    BY <1>3, StatsMoves DEF RetrieveRates, CallPhase, Threads
  <2>2. snapshot'[t].rate = rate
    BY <1>3 DEF RetrieveRates, Snapshot, StatsInv, StatsTypeOK
  <2>3. Copied(t)' = published
    BY <1>1, <1>2, <2>1, <2>2 DEF Copied, Snapshot
  <2>4. Stats!Retrieve(t)
    BY <1>1, <2>1, <2>3, ViewMoves DEF Stats!Retrieve, Stats!Go
  <2> QED
    BY <2>4
<1>4. CASE RetrieveTotals(t)
  <2>1. /\ CallPhase(t) = "return" /\ CallPhase(t)' = "idle"
        /\ stats_at[t] = "totals" /\ stats_at'[t] = "idle"
    BY <1>4, StatsMoves DEF RetrieveTotals, StatsUnlock, CallPhase, Threads
  <2>2. Copied(t)' = Copied(t)
    BY <1>4, <2>1 DEF RetrieveTotals, Copied, Snapshot, StatsInv, StatsTypeOK
  <2>3. [s \in Clients |-> Copied(s)]' = [s \in Clients |-> Copied(s)]
    BY <1>1, <2>2, ViewMoves
  <2>4. Stats!Return(t)
    BY <1>1, <2>1, <2>3, ViewMoves DEF Stats!Return, Stats!Go
  <2> QED
    BY <2>4
<1> QED
  BY <1>3, <1>4 DEF stats_retrieve

(* The interval ends with the second step of the monitor; during the first  *)
(* nobody else is inside who would copy half of it.                        *)
LEMMA MonitorRefines ==
  ASSUME StatsInv, TallyInv, monitor_thread
  PROVE  Stats!Tally \/ UNCHANGED Stats!vars
<1>1. /\ Monitor \in Threads
      /\ \A s \in Clients : s \in Threads /\ s # Monitor /\ s # Free
  BY StatsAssumption DEF Threads
<1>2. \A s \in Clients : stats_at'[s] = stats_at[s] /\ stats_at[s] # "totals"
  <2>1. \A s \in Clients : stats_at'[s] = stats_at[s]
    BY <1>1, StatsMoves DEF monitor_thread, TallyLock, LockFor, TallyRates, TallyReset,
       StatsUnlock
  <2>2. stats_lock \in {Free, Monitor}
    BY <1>1, StatsMoves DEF monitor_thread, TallyLock, LockFor, TallyRates, TallyReset,
       StatsUnlock, StatsInv, MonitorInv
  <2> QED
    BY <1>1, <2>1, <2>2 DEF StatsInv, StatsThread, StatsLocked
<1>3. UNCHANGED <<adding, snapshot>>
  BY DEF monitor_thread, TallyLock, LockFor, TallyRates, TallyReset
<1>4. \A s \in Clients : CallPhase(s)' = CallPhase(s) /\ Copied(s)' = Copied(s)
  BY <1>2, <1>3 DEF CallPhase, Copied
<1>5. CASE TallyLock \/ TallyRates
  BY <1>3, <1>4, <1>5, ViewStays DEF TallyLock, LockFor, TallyRates
<1>6. CASE TallyReset
  <2>1. Tallying
    BY <1>1, <1>6, StatsMoves DEF TallyReset, StatsUnlock, Tallying
  <2>2. rate = bytes /\ total = Stats!Plus(published.total, bytes)
    BY <2>1 DEF TallyInv, Plus, IO, Stats!Plus, Stats!IO
  <2>3. bytes' = Stats!Zero /\ published' = [rate |-> rate, total |-> total]
    BY <1>6 DEF TallyReset, Zero, Snapshot, IO, Stats!Zero, Stats!IO
  <2>4. Stats!Tally
    BY <1>3, <1>4, <2>2, <2>3 DEF Stats!Tally
  <2> QED
    BY <2>4
<1> QED
  BY <1>5, <1>6 DEF monitor_thread

LEMMA StatsStepRefines ==
  ASSUME StatsInv, TallyInv, StatsStep \/ UNCHANGED statsVars
  PROVE  [Stats!Next]_(Stats!vars)
<1>1. CASE UNCHANGED statsVars
  <2>1. \A s \in Clients : CallPhase(s)' = CallPhase(s) /\ Copied(s)' = Copied(s)
    BY <1>1 DEF statsVars, CallPhase, Copied
  <2> QED
    BY <1>1, <2>1, ViewStays DEF statsVars
<1>2. CASE monitor_thread
  BY <1>2, MonitorRefines DEF Stats!Next
<1>3. ASSUME NEW t \in Clients, Retrieve(t) \/ \E io \in IO : Increment(t, io)
      PROVE  Stats!Next
  BY <1>3, StatsCallRefines DEF Stats!Next
<1>4. ASSUME NEW t \in Clients, StatsLock(t) \/ Load(t)
      PROVE  UNCHANGED Stats!vars
  BY <1>4, StatsLockRefines
<1>5. ASSUME NEW t \in Clients, Store(t)
      PROVE  Stats!Next
  BY <1>5, StoreRefines DEF Stats!Next, Stats!Client
<1>6. ASSUME NEW t \in Clients, stats_retrieve(t)
      PROVE  Stats!Next
  BY <1>6, RetrieveRefines DEF Stats!Next, Stats!Client
<1> QED
  BY <1>1, <1>2, <1>3, <1>4, <1>5, <1>6 DEF StatsStep, stats_increment

LEMMA StatsInitRefines == stats_create => Stats!Init /\ TallyInv
<1> SUFFICES ASSUME stats_create PROVE Stats!Init /\ TallyInv
  OBVIOUS
<1>1. Zero = Stats!Zero
  BY DEF Zero, IO, Stats!Zero, Stats!IO
<1>2. \A t \in Threads : stats_at[t] = "idle"
  BY DEF stats_create
<1>3. \A t \in Clients : CallPhase(t) = "idle" /\ Copied(t) = published
  BY <1>2 DEF stats_create, CallPhase, Copied, Threads
<1>4. ~Tallying
  BY <1>2 DEF Tallying, Threads
<1> QED
  BY <1>1, <1>3, <1>4 DEF stats_create, Stats!Init, Snapshot, TallyInv

-----------------------------------------------------------------------------

(* The counters under their mutex are atomic: an increment, the end of an   *)
(* interval and a retrieval take effect at one moment each, for any number *)
(* of threads.                                                             *)
THEOREM StatsAreAtomic == Spec => StatsSpec
<1>1. Init => Stats!Init /\ TallyInv
  BY StatsInitRefines DEF Init
<1>2. IInv /\ TallyInv /\ [Next]_vars => TallyInv'
  BY Parts, TallyNext DEF IInv
<1>3. IInv /\ TallyInv /\ [Next]_vars => [Stats!Next]_(Stats!vars)
  BY Parts, StatsStepRefines DEF IInv
<1>4. QED BY <1>1, <1>2, <1>3, IInvAlways, PTL DEF Spec, StatsSpec, Stats!Spec
=============================================================================
