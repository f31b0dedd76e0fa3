---------------------------- MODULE AtomicStats ----------------------------
(***************************************************************************)
(* What the statistics promise to the threads that share them: every call  *)
(* of stats_increment adds what it was given at one moment, the monitor    *)
(* turns the bytes of an interval into a rate and adds them to the total   *)
(* at one moment, and stats_retrieve returns what was published at one      *)
(* moment between its call and its return.                                 *)
(***************************************************************************)
EXTENDS Naturals

CONSTANTS Clients, Amounts

IO   == {"tx", "rx"}
Zero == [io \in IO |-> 0]

Plus(f, g) == [io \in IO |-> f[io] + g[io]]

VARIABLES
  phase,      \* of each client: idle, increment, retrieve or return
  adding,     \* what each client adds, or nothing when it retrieves
  bytes,      \* of the present interval
  published,  \* the rates of the last interval, and the totals until its end
  snapshot    \* what each client retrieved last

vars == <<phase, adding, bytes, published, snapshot>>

Init ==
  /\ phase = [t \in Clients |-> "idle"]
  /\ adding = [t \in Clients |-> Zero]
  /\ bytes = Zero
  /\ published = [rate |-> Zero, total |-> Zero]
  /\ snapshot = [t \in Clients |-> published]

Go(t, from, to) == phase[t] = from /\ phase' = [phase EXCEPT ![t] = to]

CallIncrement(t) ==
  /\ Go(t, "idle", "increment")
  /\ \E io \in IO, n \in Amounts :
       adding' = [adding EXCEPT ![t] = [Zero EXCEPT ![io] = n]]
  /\ UNCHANGED <<bytes, published, snapshot>>

Increment(t) ==
  /\ Go(t, "increment", "idle")
  /\ bytes' = Plus(bytes, adding[t])
  /\ adding' = [adding EXCEPT ![t] = Zero]
  /\ UNCHANGED <<published, snapshot>>

CallRetrieve(t) ==
  /\ Go(t, "idle", "retrieve")
  /\ UNCHANGED <<adding, bytes, published, snapshot>>

Retrieve(t) ==
  /\ Go(t, "retrieve", "return")
  /\ snapshot' = [snapshot EXCEPT ![t] = published]
  /\ UNCHANGED <<adding, bytes, published>>

Return(t) ==
  /\ Go(t, "return", "idle")
  /\ UNCHANGED <<adding, bytes, published, snapshot>>

Tally ==
  /\ bytes' = Zero
  /\ published' = [rate |-> bytes, total |-> Plus(published.total, bytes)]
  /\ UNCHANGED <<phase, adding, snapshot>>

Client(t) ==
  CallIncrement(t) \/ Increment(t) \/ CallRetrieve(t) \/ Retrieve(t) \/ Return(t)

Next == Tally \/ \E t \in Clients : Client(t)

Spec == Init /\ [][Next]_vars
=============================================================================
