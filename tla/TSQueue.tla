------------------------------ MODULE TSQueue ------------------------------
(***************************************************************************)
(* The thread-safe queue of tsqueue.c: the ring of queue.c under one mutex *)
(* and one condition variable, which threads that wait for room and        *)
(* threads that wait for an element share.  A call has two steps:          *)
(*                                                                         *)
(*   Enter    takes the mutex and evaluates the while condition; a thread  *)
(*            that has to wait gives the mutex back in the same step, as   *)
(*            pthread_cond_wait does, and when it is woken it is a thread  *)
(*            that wants to enter again;                                   *)
(*   the body of tsq_add, tsq_remove or tsq_count with the mutex held, the *)
(*            signal and the unlock.                                       *)
(*                                                                         *)
(* pthread_cond_signal wakes one waiting thread, any of them.  POSIX lets  *)
(* a wait end with no signal, which SpuriousWakeup models.                 *)
(***************************************************************************)
EXTENDS Queue, FiniteSets

CONSTANTS
  Threads,
  Calls     \* Calls[t]: the calls thread t makes, in any order

Call == [op : {"add"}, element : Element, blocking : BOOLEAN]
          \cup [op : {"remove"}, blocking : BOOLEAN]
          \cup [op : {"count"}, blocking : {FALSE}]

ASSUME TSQueueAssumption ==
  /\ IsFiniteSet(Threads)
  /\ Calls \in [Threads -> SUBSET Call]
  /\ NULL \notin Threads

VARIABLES
  q,     \* the Queue
  lock,  \* the thread that holds the mutex, or NULL
  pc,    \* per thread: "idle", "enter", "wait" or "inside"
  call,  \* per thread, the call it makes or made last, or NULL
  ret    \* per thread, what its latest call returned

vars == <<q, lock, pc, call, ret>>

Waiting == {t \in Threads : pc[t] = "wait"}

(* tsq_create, and no thread has called yet.  It returns NULL when malloc   *)
(* fails here or in q_create; a call on that is no call on a queue, and    *)
(* RF24 has what becomes of the driver then.                               *)
Init ==
  /\ q \in q_create \ {NULL}
  /\ lock = NULL
  /\ pc   = [t \in Threads |-> "idle"]
  /\ call = [t \in Threads |-> NULL]
  /\ ret  = [t \in Threads |-> NULL]

Invoke(t) ==
  /\ pc[t] = "idle"
  /\ \E c \in Calls[t] : call' = [call EXCEPT ![t] = c]
  /\ pc' = [pc EXCEPT ![t] = "enter"]
  /\ UNCHANGED <<q, lock, ret>>

(* The while conditions of tsq_add and tsq_remove. *)
MustWait(c) ==
  /\ c.blocking
  /\ \/ c.op = "add" /\ q_count(q) = q_size(q)
     \/ c.op = "remove" /\ q_count(q) = 0

Enter(t) ==
  /\ pc[t] = "enter"
  /\ lock = NULL
  /\ \/ /\ MustWait(call[t])
        /\ pc' = [pc EXCEPT ![t] = "wait"]
        /\ UNCHANGED lock
     \/ /\ ~MustWait(call[t])
        /\ pc' = [pc EXCEPT ![t] = "inside"]
        /\ lock' = t
  /\ UNCHANGED <<q, call, ret>>

(* Leave the critical section without a signal, or with one: then one of    *)
(* the waiting threads, if there is any, contends for the mutex again.     *)
Leave(t, value) ==
  /\ pc' = [pc EXCEPT ![t] = "idle"]
  /\ lock' = NULL
  /\ ret' = [ret EXCEPT ![t] = value]

SignalAndLeave(t, value) ==
  IF Waiting = {}
  THEN Leave(t, value)
  ELSE /\ \E w \in Waiting : pc' = [pc EXCEPT ![t] = "idle", ![w] = "enter"]
       /\ lock' = NULL
       /\ ret' = [ret EXCEPT ![t] = value]

Inside(t, op) == pc[t] = "inside" /\ call[t].op = op

(* Wrong: only the first element of an empty queue is worth a signal. *)
tsq_addSignalFirst(t) ==
  /\ Inside(t, "add")
  /\ q' = q_add(q, call[t].element)
  /\ IF q_count(q) = 0
     THEN SignalAndLeave(t, q_addReturns(q))
     ELSE Leave(t, q_addReturns(q))
  /\ UNCHANGED call

(* Wrong: no signal at all. *)
tsq_addSilent(t) ==
  /\ Inside(t, "add")
  /\ q' = q_add(q, call[t].element)
  /\ Leave(t, q_addReturns(q))
  /\ UNCHANGED call

tsq_add(t) ==
  /\ Inside(t, "add")
  /\ q' = q_add(q, call[t].element)
  /\ IF q_addReturns(q) # 0
     THEN SignalAndLeave(t, q_addReturns(q))
     ELSE Leave(t, q_addReturns(q))
  /\ UNCHANGED call

(* Wrong: who takes an element does not tell those who wait for room. *)
tsq_removeSilent(t) ==
  /\ Inside(t, "remove")
  /\ q' = q_remove(q)
  /\ Leave(t, q_removeReturns(q))
  /\ UNCHANGED call

tsq_remove(t) ==
  /\ Inside(t, "remove")
  /\ q' = q_remove(q)
  /\ IF q_removeReturns(q) # NULL
     THEN SignalAndLeave(t, q_removeReturns(q))
     ELSE Leave(t, q_removeReturns(q))
  /\ UNCHANGED call

tsq_count(t) ==
  /\ Inside(t, "count")
  /\ Leave(t, q_count(q))
  /\ UNCHANGED <<q, call>>

(* Wrong: if in the place of while, so that nobody looks again. *)
WakeupWithoutLoop(t) ==
  /\ pc[t] = "wait"
  /\ lock = NULL
  /\ lock' = t
  /\ pc' = [pc EXCEPT ![t] = "inside"]
  /\ UNCHANGED <<q, call, ret>>

SpuriousWakeup(t) ==
  /\ pc[t] = "wait"
  /\ pc' = [pc EXCEPT ![t] = "enter"]
  /\ UNCHANGED <<q, lock, call, ret>>

Body(t) == tsq_add(t) \/ tsq_remove(t) \/ tsq_count(t)

Next == \E t \in Threads : Invoke(t) \/ Enter(t) \/ Body(t) \/ SpuriousWakeup(t)

Spec == Init /\ [][Next]_vars

(* A thread inside the critical section runs on, and a thread that contends *)
(* for a mutex that is free again and again gets it.  Nobody has to call,  *)
(* and no spurious wakeup may be relied on.                                *)
FairSpec == Spec /\ \A t \in Threads : SF_vars(Enter(t)) /\ WF_vars(Body(t))
-----------------------------------------------------------------------------
TypeOK ==
  /\ q \in Ring
  /\ lock \in Threads \cup {NULL}
  /\ pc \in [Threads -> {"idle", "enter", "wait", "inside"}]
  /\ call \in [Threads -> Call \cup {NULL}]
  /\ \A t \in Threads : pc[t] # "idle" => call[t] \in Calls[t]
  /\ ret \in [Threads -> Element \cup {NULL} \cup 0 .. Size]

(* A call that passed its while loop still finds what it waited for when   *)
(* its body runs: a blocking tsq_add is never refused and a blocking       *)
(* tsq_remove never returns from an empty queue (tsqueue.c, 25-27, 36-38). *)
BlockingCallsSucceed ==
  \A t \in Threads : pc[t] = "inside" => ~MustWait(call[t])

(* The calls that are about to look at the queue. *)
Awake(op) == {t \in Threads : pc[t] \in {"enter", "inside"} /\ call[t].op = op}

AwakeRemovers == Awake("remove")

(* No wakeup is lost when nobody blocks in tsq_add, which is how rf24.c     *)
(* uses the queue: while a thread waits for an element, there is an awake  *)
(* remover for each element in the queue.  tsq_add signals once per        *)
(* element and a signal may hit any waiter, so this is the argument that   *)
(* one signal per element is enough.                                       *)
NoLostWakeup ==
  Waiting # {} => q.count <= Cardinality(AwakeRemovers)

(* Once no call is about to add or to remove, nobody waits for what is      *)
(* there: for room that is not taken or for elements that are left.        *)
NobodyForgotten ==
  Awake("add") \cup Awake("remove") = {} => \A w \in Waiting : MustWait(call[w])

(* Both kinds of waiters share one condition variable and a signal may wake *)
(* a thread of the wrong kind, which takes it to sleep with it.  That does *)
(* no harm while the queue has room for all but two of the threads, so     *)
(* that both kinds can hardly wait at once, and no null pointer is added,  *)
(* for which tsq_remove does not signal (tsqueue.c, 22-42).                *)
EnoughRoom ==
  /\ Cardinality(Threads) <= Size + 2
  /\ Cardinality(Threads) <= 2 * Size

NoForgottenWaiter == EnoughRoom /\ NULL \notin Element => NobodyForgotten

(* The queue refines a bounded FIFO whose calls are atomic: a call is        *)
(* pending until its body ran (tsqueue.c, 22-51).                          *)
Pending == {t \in Threads : pc[t] # "idle"}

Fifo == INSTANCE BoundedFifo WITH fifo <- Contents(q), pending <- Pending
FifoSpec == Fifo!Spec

(* A thread that waits for an element while there is one is woken, or the  *)
(* elements go to other removers (rf24_recv with block set).               *)
RemoverServed ==
  \A t \in Threads :
    (pc[t] = "wait" /\ q.count > 0) ~> (pc[t] # "wait" \/ q.count = 0)
=============================================================================
