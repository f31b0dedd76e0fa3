----------------------------- MODULE RF24Stats -----------------------------
(***************************************************************************)
(* rf24Stats.c: the counters of bytes sent and received, which the         *)
(* application and the interrupt thread add to, the monitor thread adds up *)
(* and resets once per interval, and anyone may read.  The interval is one *)
(* second, as in rf24.c, so that a rate is the count of an interval; the   *)
(* monitor sleeps for any time, as the code leaves tv_nsec uninitialised.  *)
(*                                                                         *)
(* Each function is two steps under the mutex, so that one without it      *)
(* would show.  This is one of the parts of Services, which has the Spec.  *)
(***************************************************************************)
EXTENDS Naturals

CONSTANTS
  Clients,   \* the threads that call stats_increment and stats_retrieve
  Monitor,   \* the one that runs monitor_thread
  Amounts    \* of bytes in an increment

Free    == "free"
Threads == Clients \cup {Monitor}
IO      == {"tx", "rx"}

ASSUME StatsAssumption ==
  /\ Monitor \notin Clients
  /\ Free \notin Threads
  /\ Amounts \subseteq Nat

VARIABLES
  stats_at,    \* the next step of each thread in rf24Stats.c
  adding,      \* what each client adds, or nothing when it retrieves
  stats_lock,  \* who holds the mutex
  bytes,       \* since the monitor came last
  total,
  rate,
  loaded,      \* what += has read and not yet written
  snapshot,    \* what each client retrieved last
  counted,     \* ghost: all bytes of the increments that returned
  published    \* ghost: what the monitor left in rate and total last

statsVars ==
  <<stats_at, adding, stats_lock, bytes, total, rate, loaded, snapshot,
    counted, published>>

Zero == [io \in IO |-> 0]

Snapshot(rates, totals) == [rate |-> rates, total |-> totals]

stats_create ==
  /\ stats_at = [t \in Threads |-> "idle"]
  /\ adding = [t \in Clients |-> Zero]
  /\ stats_lock = Free
  /\ bytes = Zero /\ total = Zero /\ rate = Zero
  /\ loaded = [t \in Clients |-> Zero]
  /\ snapshot = [t \in Clients |-> Snapshot(Zero, Zero)]
  /\ counted = Zero
  /\ published = Snapshot(Zero, Zero)

StatsGo(t, from, to) == stats_at[t] = from /\ stats_at' = [stats_at EXCEPT ![t] = to]

Plus(f, g) == [io \in IO |-> f[io] + g[io]]

-----------------------------------------------------------------------------

(* A call of stats_increment. *)
Increment(t, io) ==
  /\ StatsGo(t, "idle", "increment")
  /\ \E n \in Amounts : adding' = [adding EXCEPT ![t] = [Zero EXCEPT ![io] = n]]
  /\ UNCHANGED <<stats_lock, bytes, total, rate, loaded, snapshot, counted, published>>

Retrieve(t) ==
  /\ StatsGo(t, "idle", "retrieve")
  /\ UNCHANGED <<adding, stats_lock, bytes, total, rate, loaded, snapshot, counted, published>>

LockFor(t, from, to) ==
  /\ StatsGo(t, from, to)
  /\ stats_lock = Free
  /\ stats_lock' = t
  /\ UNCHANGED <<adding, bytes, total, rate, loaded, snapshot, counted, published>>

(* Wrong: who only reads takes no mutex. *)
StatsLockToWrite(t) ==
  \/ LockFor(t, "increment", "load")
  \/ /\ StatsGo(t, "retrieve", "rates")
     /\ UNCHANGED <<adding, stats_lock, bytes, total, rate, loaded, snapshot, counted, published>>

(* Wrong: a mere += takes no mutex. *)
StatsLockToRetrieve(t) ==
  \/ /\ StatsGo(t, "increment", "load")
     /\ UNCHANGED <<adding, stats_lock, bytes, total, rate, loaded, snapshot, counted, published>>
  \/ LockFor(t, "retrieve", "rates")

StatsLock(t) ==
  \/ LockFor(t, "increment", "load")
  \/ LockFor(t, "retrieve", "rates")

StatsUnlock(t, from) ==
  /\ StatsGo(t, from, "idle")
  /\ stats_lock' = Free

(* stats->bytes_tx += bytes, or bytes_rx; only one of both changes. *)
Load(t) ==
  /\ StatsGo(t, "load", "store")
  /\ loaded' = [loaded EXCEPT ![t] = bytes]
  /\ UNCHANGED <<adding, stats_lock, bytes, total, rate, snapshot, counted, published>>

Store(t) ==
  /\ StatsUnlock(t, "store")
  /\ bytes' = Plus(loaded[t], adding[t])
  /\ counted' = Plus(counted, adding[t])
  /\ adding' = [adding EXCEPT ![t] = Zero]
  /\ loaded' = [loaded EXCEPT ![t] = Zero]
  /\ UNCHANGED <<total, rate, snapshot, published>>

RetrieveRates(t) ==
  /\ StatsGo(t, "rates", "totals")
  /\ snapshot' = [snapshot EXCEPT ![t] = Snapshot(rate, snapshot[t].total)]
  /\ UNCHANGED <<adding, stats_lock, bytes, total, rate, loaded, counted, published>>

RetrieveTotals(t) ==
  /\ StatsUnlock(t, "totals")
  /\ snapshot' = [snapshot EXCEPT ![t] = Snapshot(snapshot[t].rate, total)]
  /\ UNCHANGED <<adding, bytes, total, rate, loaded, counted, published>>

stats_increment(t) == Load(t) \/ Store(t)
stats_retrieve(t) == RetrieveRates(t) \/ RetrieveTotals(t)

-----------------------------------------------------------------------------
(* monitor_thread. *)

TallyLock == LockFor(Monitor, "idle", "tally")

(* Wrong: the mutex is given back to print the rates. *)
TallyRatesUnlocked ==
  /\ StatsGo(Monitor, "tally", "reset")
  /\ rate' = bytes
  /\ total' = Plus(total, bytes)
  /\ stats_lock' = Free
  /\ UNCHANGED <<adding, bytes, loaded, snapshot, counted, published>>

TallyRates ==
  /\ StatsGo(Monitor, "tally", "reset")
  /\ rate' = bytes
  /\ total' = Plus(total, bytes)
  /\ UNCHANGED <<adding, stats_lock, bytes, loaded, snapshot, counted, published>>

TallyReset ==
  /\ StatsUnlock(Monitor, "reset")
  /\ bytes' = Zero
  /\ published' = Snapshot(rate, total)
  /\ UNCHANGED <<adding, total, rate, loaded, snapshot, counted>>

monitor_thread == TallyLock \/ TallyRates \/ TallyReset

-----------------------------------------------------------------------------

Counters == [IO -> Nat]

StatsTypeOK ==
  /\ stats_at \in [Threads -> {"idle", "increment", "retrieve", "load", "store",
                               "rates", "totals", "tally", "reset"}]
  /\ adding \in [Clients -> Counters]
  /\ stats_lock \in Threads \cup {Free}
  /\ bytes \in Counters /\ total \in Counters /\ rate \in Counters
  /\ loaded \in [Clients -> Counters]
  /\ snapshot \in [Clients -> [rate : Counters, total : Counters]]
  /\ counted \in Counters
  /\ published \in [rate : Counters, total : Counters]

(* Every byte that a returned stats_increment was given is counted once,    *)
(* though both threads add and the monitor moves what they added from one  *)
(* counter to another and starts again from zero (rf24Stats.c, 28-61).     *)
NothingLost ==
  stats_lock = Free => \A io \in IO : total[io] + bytes[io] = counted[io]

(* What stats_retrieve returns is what the monitor left: rates and totals   *)
(* of the same interval, the last one (rf24Stats.c, 38-46, 53-61).         *)
Returned(t) == stats_at[t] = "totals" /\ stats_at'[t] = "idle"
ConsistentRates ==
  [][\A t \in Clients : Returned(t) => snapshot'[t] = published]_statsVars

(* What a call is doing, as its caller sees it, and what it will have       *)
(* retrieved: the rates it has copied and the totals it is about to copy.  *)
CallPhase(t) ==
  CASE stats_at[t] \in {"increment", "load", "store"} -> "increment"
    [] stats_at[t] \in {"retrieve", "rates"} -> "retrieve"
    [] stats_at[t] = "totals" -> "return"
    [] OTHER -> "idle"

Copied(t) ==
  IF stats_at[t] = "totals" THEN Snapshot(snapshot[t].rate, total) ELSE snapshot[t]

(* Increments, intervals and retrievals take effect at one moment each,     *)
(* whichever threads make them (rf24Stats.c, 28-61).               *)
Stats == INSTANCE AtomicStats WITH
  phase <- [t \in Clients |-> CallPhase(t)],
  snapshot <- [t \in Clients |-> Copied(t)]
StatsSpec == Stats!Spec
=============================================================================
