----------------------------- MODULE MCTSQueue -----------------------------
(***************************************************************************)
(* TLC instances of TSQueue.  DriverCalls is the use rf24.c makes of the   *)
(* queue: the interrupt thread adds without blocking, application threads  *)
(* remove.  BlockingCalls lets every thread add and remove and block in     *)
(* both, as tsqtest.c calls it, and one of them count; with a ring of       *)
(* three slots, five threads are the most that EnoughRoom allows.           *)
(***************************************************************************)
EXTENDS TSQueue, TLC

CONSTANTS isr, app1, app2, app3, t1, t2, t3, t4, t5

Adds(blocking)    == [op : {"add"}, element : Element, blocking : blocking]
Removes(blocking) == [op : {"remove"}, blocking : blocking]
Counts            == [op : {"count"}, blocking : {FALSE}]

DriverThreads == {isr, app1, app2, app3}
DriverCalls ==
  isr  :> Adds({FALSE})
  @@ app1 :> Removes({TRUE})
  @@ app2 :> Removes({TRUE})
  @@ app3 :> Removes({FALSE})

BlockingThreads == {t1, t2, t3, t4, t5}
BlockingCalls ==
  [t \in BlockingThreads |->
     Adds({TRUE}) \cup Removes({TRUE}) \cup (IF t = t5 THEN Counts ELSE {})]

BlockingSymmetry == Permutations(BlockingThreads \ {t5})
=============================================================================
