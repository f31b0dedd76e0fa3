------------------------------ MODULE Services ------------------------------
(***************************************************************************)
(* What is under the driver: the threads of a process share the SPI bus    *)
(* (SPI) and the statistics (RF24Stats), and rf24_write polls the chip     *)
(* against a clock (compatibility.c).                                      *)
(*                                                                         *)
(* The application calls rf24_send, rf24_write or stats_retrieve, the      *)
(* interrupt thread moves packets; todo is what is left of each call, its  *)
(* commands reduced to one that writes and one that reads.  What they do   *)
(* to the radio is RF24's subject.                                         *)
(***************************************************************************)
EXTENDS SPI, RF24Stats, Sequences

CONSTANTS
  WORD,         \* a uint32_t is less
  Starts,       \* millis() at the start, as the two halves of a long
  LongIsWord,   \* a long is as wide as a uint32_t
  Largest,      \* such a long
  Beyond,       \* the milliseconds of its last second that are beyond it
  Timeout,      \* of rf24_write, in milliseconds
  MaxWait,      \* bound: on the time one rf24_write may wait
  MaxCalls,     \* bound: the application's calls in a behaviour
  MaxPackets    \* bound: the packets received in a behaviour

ASSUME ServicesAssumption ==
  /\ Clients = Users
  /\ WORD \in Nat /\ Starts \subseteq Nat \X (0 .. WORD - 1)
  /\ MaxWait \in Nat /\ Timeout \in Nat
  /\ Timeout <= MaxWait /\ MaxWait + Beyond < WORD
  /\ LongIsWord \in BOOLEAN
  /\ Largest \in Nat /\ Beyond \in Nat /\ Largest + Beyond < WORD
  /\ MaxCalls \in Nat /\ MaxPackets \in Nat

VARIABLES
  todo,       \* what is left of each thread's call
  calls, received,
  high, low,  \* the clock is at high * WORD + low
  sent_at,    \* the variable of rf24_write
  elapsed,    \* ghost: since sent_at was set
  began,      \* ghost: high at that time
  late,       \* ghost: how far millis() was behind the clock at that time
  waited      \* ghost: how long rf24_write had waited if it gave up

clock   == <<high, low>>
timers  == <<clock, sent_at, elapsed, began, late, waited>>
control == <<todo, calls, received>>
vars    == <<spiVars, statsVars, control, timers>>

(* Nothing in the library calls start_timer, so millis() counts from 1970   *)
(* and not from the start of the program, unless the application does.     *)
Init ==
  /\ SpiInit
  /\ stats_create
  /\ todo = [u \in Users |-> <<>>]
  /\ calls = 0 /\ received = 0
  /\ \E start \in Starts : high = start[1] /\ low = start[2]
  /\ sent_at = 0 /\ elapsed = 0 /\ began = 0 /\ late = 0
  /\ waited = Timeout

Ready(u) == Opened /\ spi_at[u] = "idle" /\ stats_at[u] = "idle"

NextIs(u, what) == Ready(u) /\ todo[u] # <<>> /\ Head(todo[u]) = what

Proceed(u) == todo' = [todo EXCEPT ![u] = Tail(@)]

-----------------------------------------------------------------------------

(* transmit_payload and stats_increment; transmit_payload and the loop. *)
Programs == {<<"write", "tx">>, <<"write", "sent_at">>, <<"retrieve">>}

Call ==
  /\ Ready(Starter)
  /\ todo[Starter] = <<>>
  /\ calls < MaxCalls
  /\ calls' = calls + 1
  /\ \E program \in Programs : todo' = [todo EXCEPT ![Starter] = program]
  /\ UNCHANGED <<received, spiVars, statsVars, timers>>

(* retrieve_packets. *)
Interrupt(u) ==
  /\ u # Starter
  /\ Ready(u)
  /\ todo[u] = <<>>
  /\ received < MaxPackets
  /\ received' = received + 1
  /\ todo' = [todo EXCEPT ![u] = <<"read", "rx">>]
  /\ UNCHANGED <<calls, spiVars, statsVars, timers>>

Command(u) ==
  /\ \/ NextIs(u, "write") /\ \E v \in Values : SpiCall(u, v)
     \/ NextIs(u, "read") /\ SpiCall(u, "read")
  /\ Proceed(u)
  /\ UNCHANGED <<calls, received, statsVars, timers>>

Count(u) ==
  /\ \/ NextIs(u, "tx") /\ Increment(u, "tx")
     \/ NextIs(u, "rx") /\ Increment(u, "rx")
     \/ NextIs(u, "retrieve") /\ Retrieve(u)
  /\ Proceed(u)
  /\ UNCHANGED <<calls, received, spiVars, timers>>

-----------------------------------------------------------------------------
(* The loop of rf24_write. *)

(* The lower half of millis().  seconds * 1000 wraps around in a long, but  *)
(* its sum with the microseconds is a double, and what is beyond a long    *)
(* becomes the largest one.                                                *)
millis ==
  IF LongIsWord /\ low \in Largest .. Largest + Beyond THEN Largest ELSE low

StartWaiting(u) ==
  /\ NextIs(u, "sent_at")
  /\ todo' = [todo EXCEPT ![u] = <<"observe">>]
  /\ sent_at' = millis
  /\ elapsed' = 0
  /\ began' = high
  /\ late' = low - millis
  /\ waited' = Timeout
  /\ UNCHANGED <<calls, received, spiVars, statsVars, clock>>

Observe(u) ==
  /\ NextIs(u, "observe")
  /\ SpiCall(u, "read")
  /\ todo' = [todo EXCEPT ![u] = <<"check">>]
  /\ UNCHANGED <<calls, received, statsVars, timers>>

(* Wrong: the end of the wait is computed instead of its length. *)
TimedOutAtEnd ==
  LET end == sent_at + Timeout
  IN millis >= (IF end < WORD THEN end ELSE end - WORD)

(* millis() - sent_at, in uint32_t where a long is as wide, and else in the *)
(* long, of which sent_at is only the lower half.                          *)
TimedOut ==
  IF LongIsWord
  THEN (IF sent_at <= millis THEN millis - sent_at ELSE millis + WORD - sent_at) >= Timeout
  ELSE high * WORD + low >= sent_at + Timeout

(* A flag ends the wait, or else the clock does. *)
Check(u) ==
  /\ NextIs(u, "check")
  /\ \/ /\ Proceed(u)
        /\ sent_at' = 0 /\ elapsed' = 0
        /\ \/ UNCHANGED waited
           \/ TimedOut /\ waited' = elapsed
     \/ /\ ~TimedOut
        /\ todo' = [todo EXCEPT ![u] = <<"observe">>]
        /\ UNCHANGED <<sent_at, elapsed, waited>>
  /\ UNCHANGED <<calls, received, spiVars, statsVars, clock, began, late>>

Waiting == \E u \in Users : todo[u] \in {<<"observe">>, <<"check">>}

(* Wrong: the lower half does not wrap around. *)
TickUnwrapped ==
  /\ Waiting
  /\ elapsed < MaxWait
  /\ elapsed' = elapsed + 1
  /\ low' = low + 1
  /\ UNCHANGED <<high, sent_at, began, late, waited, control, spiVars, statsVars>>

Tick ==
  /\ Waiting
  /\ elapsed < MaxWait
  /\ elapsed' = elapsed + 1
  /\ low' = IF low + 1 = WORD THEN 0 ELSE low + 1
  /\ high' = IF low + 1 = WORD THEN high + 1 ELSE high
  /\ UNCHANGED <<sent_at, began, late, waited, control, spiVars, statsVars>>

rf24_write(u) == StartWaiting(u) \/ Observe(u) \/ Check(u)

-----------------------------------------------------------------------------

Bus_(step) == step /\ UNCHANGED <<statsVars, control, timers>>
Stats_(step) == step /\ UNCHANGED <<spiVars, control, timers>>

Thread(u) ==
  \/ Command(u)
  \/ Count(u)
  \/ rf24_write(u)
  \/ Bus_(SpiStep(u))
  \/ Stats_(StatsLock(u) \/ stats_increment(u) \/ stats_retrieve(u))

Next ==
  \/ Bus_(spi_init)
  \/ Call
  \/ Tick
  \/ Opened /\ Stats_(monitor_thread)
  \/ \E u \in Users : Interrupt(u) \/ Thread(u)

Spec == Init /\ [][Next]_vars

(* A thread runs on, one that contends for a mutex which is released again  *)
(* and again gets it, and the clock goes on.                               *)
FairSpec ==
  /\ Spec
  /\ WF_vars(Bus_(spi_init))
  /\ WF_vars(Opened /\ Stats_(TallyRates \/ TallyReset))
  /\ WF_vars(Tick)
  /\ \A u \in Users :
       /\ WF_vars(Thread(u))
       /\ SF_vars(Bus_(spi_enable(u)))
       /\ SF_vars(Stats_(StatsLock(u)))

-----------------------------------------------------------------------------

TypeOK ==
  /\ SpiTypeOK
  /\ StatsTypeOK
  /\ todo \in [Users -> Seq({"write", "read", "tx", "rx", "retrieve", "sent_at",
                             "observe", "check"})]
  /\ calls \in Nat /\ received \in Nat
  /\ high \in Nat /\ low \in 0 .. WORD - 1
  /\ sent_at \in 0 .. WORD - 1
  /\ elapsed \in 0 .. MaxWait /\ began \in Nat /\ late \in 0 .. Beyond
  /\ waited \in Nat

(* rf24_write does not give up early, though the clock wraps around while   *)
(* it waits, where a long is as wide as a uint32_t or the clock started at *)
(* less than that; only if the wait began while millis() stood still at    *)
(* the largest long, it ends early by no more than that time               *)
(* (compatibility.c, 31-37; rf24.c, 545-552).                              *)
WaitsItsTimeout == LongIsWord \/ began = 0 => waited + late >= Timeout

(* Who holds a mutex is on its way to give it back: it is inside a function *)
(* that ends with the unlock and waits for no other mutex meanwhile, and   *)
(* the mutex of spi.c is one by the time anybody takes it (spi.c, 80-88,   *)
(* 143-146; rf24Stats.c, 28-61).                                           *)
HoldersMoveOn ==
  /\ Opened => \/ spi_lock = Nobody
               \/ \E u \in Users : /\ spi_lock = u /\ stats_at[u] = "idle"
                                   /\ spi_at[u] \in {"first", "second", "disable"}
  /\ \/ stats_lock = Free
     \/ \E u \in Users : /\ stats_lock = u /\ spi_at[u] = "idle"
                         /\ stats_at[u] \in {"load", "store", "rates", "totals"}
     \/ Opened /\ stats_lock = Monitor /\ stats_at[Monitor] \in {"tally", "reset"}

(* Every call ends, whatever transfers fail, and its thread waits for       *)
(* neither mutex for good (spi.c, 80-88, 143-146; rf24.c, 545-552).        *)
CallsEnd == \A u \in Users : todo[u] # <<>> ~> todo[u] = <<>> /\ Ready(u)
=============================================================================
