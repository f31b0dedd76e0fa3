--------------------------- MODULE TSQueueProofs ---------------------------
(***************************************************************************)
(* Theorems about the thread-safe queue of tsqueue.c, for every number of  *)
(* threads, every size and every set of elements.                          *)
(***************************************************************************)
EXTENDS TSQueue, QueueProofs, FiniteSetTheorems

(* The mutex is held by the thread inside the critical section, if any.    *)
LockHeld == \A t \in Threads : pc[t] = "inside" <=> lock = t

Inv == TypeOK /\ LockHeld /\ BlockingCallsSucceed

-----------------------------------------------------------------------------

(* The steps of one thread. *)
Step(t) == Invoke(t) \/ Enter(t) \/ Body(t) \/ SpuriousWakeup(t)

(* What a call that runs its body does to the queue. *)
LEMMA AddEffect ==
  ASSUME Inv, NEW t \in Threads, tsq_add(t)
  PROVE  /\ call[t].element \in Element
         /\ \/ /\ q.count = Size /\ q' = q /\ ret' = [ret EXCEPT ![t] = 0]
               /\ pc' = [pc EXCEPT ![t] = "idle"]
            \/ /\ q.count # Size /\ q' = q_add(q, call[t].element)
               /\ ret' = [ret EXCEPT ![t] = 1]
               /\ SignalAndLeave(t, 1)
<1>1. call[t] \in Call /\ call[t].op = "add" /\ q \in Ring /\ t # NULL
  BY TSQueueAssumption DEF Inv, TypeOK, tsq_add, Inside
<1>2. call[t].element \in Element
  BY <1>1 DEF Call
<1>3. CASE q.count = Size
  <2>1. q_add(q, call[t].element) = q /\ q_addReturns(q) = 0
    BY <1>1, <1>3, RingFields DEF q_add, q_addReturns, q_count, q_size
  <2> QED
    BY <1>2, <1>3, <2>1 DEF tsq_add, Leave
<1>4. CASE q.count # Size
  <2>1. q_addReturns(q) = 1
    BY <1>1, <1>2, <1>4, AddAppends
  <2> QED
    BY <1>2, <1>4, <2>1 DEF tsq_add, SignalAndLeave, Leave
<1> QED
  BY <1>3, <1>4

LEMMA RemoveEffect ==
  ASSUME Inv, NEW t \in Threads, tsq_remove(t)
  PROVE  LET value == q_removeReturns(q) IN
         /\ ret' = [ret EXCEPT ![t] = value]
         /\ \/ q.count = 0 /\ q' = q /\ value = NULL
            \/ q.count # 0 /\ q' = q_remove(q) /\ value \in Element
         /\ IF value # NULL
            THEN SignalAndLeave(t, value)
            ELSE pc' = [pc EXCEPT ![t] = "idle"]
<1> DEFINE value == q_removeReturns(q)
<1>1. q \in Ring
  BY DEF Inv, TypeOK
<1>2. ret' = [ret EXCEPT ![t] = value]
  BY DEF tsq_remove, SignalAndLeave, Leave
<1>3. IF value # NULL
      THEN SignalAndLeave(t, value)
      ELSE pc' = [pc EXCEPT ![t] = "idle"]
  BY DEF tsq_remove, Leave
<1>4. CASE q.count = 0
  BY <1>2, <1>3, <1>4 DEF tsq_remove, q_remove, q_removeReturns, q_count
<1>5. CASE q.count # 0
  BY <1>1, <1>2, <1>3, <1>5, RemoveTakesHead DEF tsq_remove
<1> QED
  BY <1>4, <1>5

(* A signal wakes at most one waiter and the caller leaves. *)
LEMMA SignalEffect ==
  ASSUME TypeOK, NEW t \in Threads, NEW value, SignalAndLeave(t, value)
  PROVE  /\ lock' = NULL
         /\ \/ Waiting = {} /\ pc' = [pc EXCEPT ![t] = "idle"]
            \/ \E w \in Waiting :
                 pc' = [pc EXCEPT ![t] = "idle", ![w] = "enter"]
BY DEF SignalAndLeave, Leave

-----------------------------------------------------------------------------

LEMMA InitInv == Init => Inv
<1> SUFFICES ASSUME Init PROVE Inv
  OBVIOUS
<1>1. q \in Ring
  BY CreateIsEmpty DEF Init
<1> QED
  BY <1>1, TSQueueAssumption
  DEF Init, Inv, TypeOK, LockHeld, BlockingCallsSucceed

(* Steps that leave the queue and the mutex alone. *)
LEMMA InvokeInv ==
  ASSUME Inv, NEW t \in Threads, Invoke(t)
  PROVE  Inv'
<1>1. TypeOK'
  <2>1. PICK c \in Calls[t] : call' = [call EXCEPT ![t] = c]
    BY DEF Invoke
  <2>2. c \in Call
    BY TSQueueAssumption
  <2>3. /\ call \in [Threads -> Call \cup {NULL}]
        /\ pc \in [Threads -> {"idle", "enter", "wait", "inside"}]
        /\ \A s \in Threads : pc[s] # "idle" => call[s] \in Calls[s]
        /\ pc' = [pc EXCEPT ![t] = "enter"]
        /\ UNCHANGED <<q, lock, ret>>
    BY DEF Inv, TypeOK, Invoke
  <2>4. call' \in [Threads -> Call \cup {NULL}]
    BY <2>1, <2>2, <2>3
  <2>5. pc' \in [Threads -> {"idle", "enter", "wait", "inside"}]
    BY <2>3
  <2>6. \A s \in Threads : pc'[s] # "idle" => call'[s] \in Calls[s]
    BY <2>1, <2>3
  <2> QED
    BY <2>3, <2>4, <2>5, <2>6 DEF Inv, TypeOK
<1>2. LockHeld'
  BY DEF Inv, TypeOK, LockHeld, Invoke
<1>3. BlockingCallsSucceed'
  <2> SUFFICES ASSUME NEW s \in Threads, pc'[s] = "inside"
               PROVE  ~MustWait(call[s])' 
    BY DEF BlockingCallsSucceed
  <2>1. s # t /\ pc[s] = "inside" /\ call'[s] = call[s]
    BY DEF Inv, TypeOK, Invoke
  <2> QED
    BY <2>1 DEF Inv, BlockingCallsSucceed, MustWait, Invoke
<1> QED
  BY <1>1, <1>2, <1>3 DEF Inv

LEMMA EnterInv ==
  ASSUME Inv, NEW t \in Threads, Enter(t)
  PROVE  Inv'
<1>1. TypeOK'
  BY DEF Inv, TypeOK, Enter
<1>2. LockHeld'
  BY TSQueueAssumption DEF Inv, TypeOK, LockHeld, Enter
<1>3. BlockingCallsSucceed'
  BY DEF Inv, TypeOK, BlockingCallsSucceed, MustWait, Enter
<1> QED
  BY <1>1, <1>2, <1>3 DEF Inv

LEMMA SpuriousWakeupInv ==
  ASSUME Inv, NEW t \in Threads, SpuriousWakeup(t)
  PROVE  Inv'
<1>1. TypeOK'
  BY DEF Inv, TypeOK, SpuriousWakeup
<1>2. LockHeld'
  BY DEF Inv, TypeOK, LockHeld, SpuriousWakeup
<1>3. BlockingCallsSucceed'
  BY DEF Inv, TypeOK, BlockingCallsSucceed, MustWait, SpuriousWakeup
<1> QED
  BY <1>1, <1>2, <1>3 DEF Inv

(* A body runs with the mutex, so that nobody is inside when it is done:    *)
(* what the others found when they entered cannot become stale.            *)
LEMMA NobodyInside ==
  ASSUME Inv, NEW t \in Threads, pc[t] = "inside",
         lock' = NULL, call' = call,
         \/ pc' = [pc EXCEPT ![t] = "idle"]
         \/ \E w \in Waiting : pc' = [pc EXCEPT ![t] = "idle", ![w] = "enter"]
  PROVE  /\ pc' \in [Threads -> {"idle", "enter", "wait", "inside"}]
         /\ \A s \in Threads : pc'[s] # "idle" => call'[s] \in Calls[s]
         /\ LockHeld'
         /\ BlockingCallsSucceed'
<1>1. \A s \in Threads : pc[s] = "inside" => s = t
  BY DEF Inv, LockHeld
<1>2. pc' \in [Threads -> {"idle", "enter", "wait", "inside"}]
  BY DEF Inv, TypeOK, Waiting
<1>3. \A s \in Threads : pc'[s] # "inside"
  BY <1>1 DEF Inv, TypeOK, Waiting
<1>4. \A s \in Threads : pc'[s] # "idle" => pc[s] # "idle"
  BY DEF Inv, TypeOK, Waiting
<1>5. \A s \in Threads : pc'[s] # "idle" => call'[s] \in Calls[s]
  BY <1>4 DEF Inv, TypeOK
<1>6. LockHeld'
  BY <1>3, TSQueueAssumption DEF LockHeld
<1>7. BlockingCallsSucceed'
  BY <1>3 DEF BlockingCallsSucceed
<1> QED
  BY <1>2, <1>5, <1>6, <1>7

LEMMA AddInv ==
  ASSUME Inv, NEW t \in Threads, tsq_add(t)
  PROVE  Inv'
<1>1. pc[t] = "inside" /\ call' = call /\ lock' = NULL
  BY DEF tsq_add, Inside, SignalAndLeave, Leave
<1>2. \/ pc' = [pc EXCEPT ![t] = "idle"]
      \/ \E w \in Waiting : pc' = [pc EXCEPT ![t] = "idle", ![w] = "enter"]
  BY AddEffect, SignalEffect DEF Inv
<1>3. q' \in Ring
  BY AddEffect, AddAppends DEF Inv, TypeOK
<1>4. ret' \in [Threads -> Element \cup {NULL} \cup 0 .. Size]
  BY AddEffect, QueueAssumption DEF Inv, TypeOK
<1>5. TypeOK'
  BY <1>1, <1>2, <1>3, <1>4, NobodyInside DEF Inv, TypeOK
<1> QED
  BY <1>1, <1>2, <1>5, NobodyInside DEF Inv

LEMMA RemoveInv ==
  ASSUME Inv, NEW t \in Threads, tsq_remove(t)
  PROVE  Inv'
<1>1. pc[t] = "inside" /\ call' = call /\ lock' = NULL
  BY DEF tsq_remove, Inside, SignalAndLeave, Leave
<1>2. \/ pc' = [pc EXCEPT ![t] = "idle"]
      \/ \E w \in Waiting : pc' = [pc EXCEPT ![t] = "idle", ![w] = "enter"]
  BY RemoveEffect, SignalEffect DEF Inv
<1>3. q' \in Ring
  BY RemoveEffect, RemoveTakesHead DEF Inv, TypeOK
<1>4. ret' \in [Threads -> Element \cup {NULL} \cup 0 .. Size]
  BY RemoveEffect DEF Inv, TypeOK
<1>5. TypeOK'
  BY <1>1, <1>2, <1>3, <1>4, NobodyInside DEF Inv, TypeOK
<1> QED
  BY <1>1, <1>2, <1>5, NobodyInside DEF Inv

LEMMA CountInv ==
  ASSUME Inv, NEW t \in Threads, tsq_count(t)
  PROVE  Inv'
<1>1. /\ pc[t] = "inside" /\ call' = call /\ lock' = NULL /\ q' = q
      /\ pc' = [pc EXCEPT ![t] = "idle"] /\ ret' = [ret EXCEPT ![t] = q.count]
  BY DEF tsq_count, Inside, Leave, q_count
<1>2. q.count \in 0 .. Size
  BY RingFields DEF Inv, TypeOK
<1>3. ret' \in [Threads -> Element \cup {NULL} \cup 0 .. Size]
  BY <1>1, <1>2 DEF Inv, TypeOK
<1>4. TypeOK'
  BY <1>1, <1>3, NobodyInside DEF Inv, TypeOK
<1> QED
  BY <1>1, <1>4, NobodyInside DEF Inv

LEMMA NextInv == Inv /\ [Next]_vars => Inv'
<1> SUFFICES ASSUME Inv, [Next]_vars PROVE Inv'
  OBVIOUS
<1>1. CASE Next
  <2>1. PICK t \in Threads : Step(t)
    BY <1>1 DEF Next, Step
  <2> QED
    BY <2>1, InvokeInv, EnterInv, SpuriousWakeupInv, AddInv, RemoveInv, CountInv
    DEF Step, Body
<1>2. CASE UNCHANGED vars
  BY <1>2 DEF vars, Inv, TypeOK, LockHeld, BlockingCallsSucceed, MustWait
<1> QED
  BY <1>1, <1>2

THEOREM Invariance == Spec => []Inv
BY InitInv, NextInv, PTL DEF Spec

(* The queue stays a ring whose indices and count agree, the mutex has at   *)
(* most one holder, and every call returns a value of its kind.            *)
THEOREM TypeCorrect == Spec => []TypeOK
<1>1. Inv => TypeOK
  BY DEF Inv
<1> QED
  BY <1>1, Invariance, PTL

(* The while loops of tsq_add and tsq_remove are enough: a blocking call    *)
(* never finds the queue full, respectively empty, in its body.            *)
THEOREM BlockingCallsAreServed == Spec => []BlockingCallsSucceed
<1>1. Inv => BlockingCallsSucceed
  BY DEF Inv
<1> QED
  BY <1>1, Invariance, PTL

-----------------------------------------------------------------------------

(* Only a call that blocks in tsq_add or tsq_remove sleeps. *)
BlockersWait ==
  \A t \in Waiting : call[t].blocking /\ call[t].op \in {"add", "remove"}

(* A body puts nobody to sleep. *)
LEMMA BodyEffect ==
  ASSUME Inv, NEW t \in Threads, Body(t)
  PROVE  /\ pc[t] = "inside" /\ call' = call
         /\ \/ pc' = [pc EXCEPT ![t] = "idle"]
            \/ \E w \in Waiting : pc' = [pc EXCEPT ![t] = "idle", ![w] = "enter"]
<1>1. CASE tsq_add(t)
  BY <1>1, AddEffect, SignalEffect DEF Inv, tsq_add, Inside
<1>2. CASE tsq_remove(t)
  BY <1>2, RemoveEffect, SignalEffect DEF Inv, tsq_remove, Inside
<1>3. CASE tsq_count(t)
  BY <1>3 DEF tsq_count, Inside, Leave
<1> QED
  BY <1>1, <1>2, <1>3 DEF Body

LEMMA BlockersWaitNext == Inv /\ BlockersWait /\ [Next]_vars => BlockersWait'
<1> SUFFICES ASSUME Inv, BlockersWait, [Next]_vars, NEW s \in Waiting'
             PROVE  call'[s].blocking /\ call'[s].op \in {"add", "remove"}
  BY DEF BlockersWait
<1>1. s \in Threads /\ pc'[s] = "wait" /\ pc \in [Threads -> {"idle", "enter", "wait", "inside"}]
  BY DEF Waiting, Inv, TypeOK
<1>2. CASE s \in Waiting /\ call'[s] = call[s]
  BY <1>2 DEF BlockersWait
<1>3. CASE UNCHANGED vars
  BY <1>1, <1>2, <1>3 DEF vars, Waiting
<1>4. ASSUME NEW t \in Threads, Step(t)
      PROVE  call'[s].blocking /\ call'[s].op \in {"add", "remove"}
  <2>1. CASE Invoke(t)
    <3>1. s \in Waiting /\ s # t
      BY <1>1, <2>1 DEF Invoke, Waiting
    <3> QED
      BY <1>1, <1>2, <2>1, <3>1 DEF Invoke, Inv, TypeOK
  <2>2. CASE Enter(t)
    <3>1. CASE s = t
      BY <1>1, <2>2, <3>1 DEF Enter, MustWait
    <3>2. CASE s # t
      BY <1>1, <1>2, <2>2, <3>2 DEF Enter, Waiting
    <3> QED
      BY <3>1, <3>2
  <2>3. CASE SpuriousWakeup(t)
    BY <1>1, <1>2, <2>3 DEF SpuriousWakeup, Waiting
  <2>4. CASE Body(t)
    BY <1>1, <1>2, <2>4, BodyEffect DEF Waiting
  <2> QED
    BY <1>4, <2>1, <2>2, <2>3, <2>4 DEF Step
<1> QED
  BY <1>3, <1>4 DEF Next, Step

(* A call that does not block never sleeps, so that the interrupt thread,   *)
(* which adds that way, is held up by nothing but the mutex.               *)
THEOREM OnlyBlockersWait == Spec => []BlockersWait
<1>1. Init => BlockersWait
  BY DEF Init, BlockersWait, Waiting
<1> QED
  BY <1>1, BlockersWaitNext, Invariance, PTL DEF Spec

-----------------------------------------------------------------------------

(* rf24.c adds to its queue without blocking. *)
NonBlockingAdds ==
  \A t \in Threads : \A c \in Calls[t] : c.op = "add" => ~c.blocking

(* Then only removers wait. *)
WakeupInv ==
  /\ Inv
  /\ \A t \in Waiting : call[t].op = "remove"
  /\ NoLostWakeup

(* A set with one element more, or one element fewer. *)
LEMMA OneMore ==
  ASSUME NEW S, NEW x, IsFiniteSet(S), x \notin S
  PROVE  Cardinality(S \cup {x}) = Cardinality(S) + 1
BY FS_AddElement

LEMMA OneFewer ==
  ASSUME NEW S, NEW x, IsFiniteSet(S)
  PROVE  Cardinality(S \ {x}) >= Cardinality(S) - 1
<1>1. Cardinality(S) \in Nat
  BY FS_CardinalityType
<1>2. CASE x \in S
  BY <1>1, <1>2, FS_RemoveElement
<1>3. CASE x \notin S
  <2>1. S \ {x} = S
    BY <1>3
  <2>2. Cardinality(S \ {x}) = Cardinality(S)
    BY <2>1, Zenon
  <2> QED
    BY <1>1, <2>2
<1> QED
  BY <1>2, <1>3

LEMMA AwakeIsFinite ==
  /\ IsFiniteSet(AwakeRemovers)
  /\ Cardinality(AwakeRemovers) \in Nat
<1>1. AwakeRemovers \subseteq Threads
  BY DEF AwakeRemovers, Awake
<1> QED
  BY <1>1, TSQueueAssumption, FS_Subset, FS_CardinalityType

(* When the elements do not become more and the awake removers not fewer,   *)
(* and nobody starts to wait, no wakeup gets lost.                         *)
LEMMA StillNoLostWakeup ==
  ASSUME WakeupInv, TypeOK', Waiting' \subseteq Waiting,
         q'.count = q.count, AwakeRemovers \subseteq AwakeRemovers'
  PROVE  NoLostWakeup'
<1>1. q.count \in Nat
  BY RingFields, QueueAssumption DEF WakeupInv, Inv, TypeOK
<1>2. AwakeRemovers' \subseteq Threads
  BY DEF AwakeRemovers, Awake
<1>3. /\ Cardinality(AwakeRemovers) <= Cardinality(AwakeRemovers')
      /\ Cardinality(AwakeRemovers) \in Nat /\ Cardinality(AwakeRemovers') \in Nat
  BY <1>2, TSQueueAssumption, FS_Subset, FS_CardinalityType
<1>4. Waiting' # {} => Waiting # {}
  OBVIOUS
<1> QED
  BY <1>1, <1>3, <1>4 DEF WakeupInv, NoLostWakeup

LEMMA EnterKeepsWakeups ==
  ASSUME WakeupInv, NonBlockingAdds, NEW t \in Threads, Enter(t)
  PROVE  /\ \A s \in Waiting' : call'[s].op = "remove"
         /\ NoLostWakeup'
<1>1. Inv /\ Inv' /\ q' = q /\ call' = call /\ pc[t] = "enter" /\ call[t] \in Calls[t]
  BY EnterInv DEF WakeupInv, Inv, TypeOK, Enter
<1>2. CASE MustWait(call[t]) /\ pc' = [pc EXCEPT ![t] = "wait"]
  <2>1. call[t].op = "remove" /\ q.count = 0
    BY <1>1, <1>2 DEF NonBlockingAdds, MustWait, q_count
  <2>2. Waiting' = Waiting \cup {t}
    BY <1>1, <1>2 DEF Waiting, Inv, TypeOK
  <2>3. Cardinality(AwakeRemovers') \in Nat
    <3>1. AwakeRemovers' \subseteq Threads
      BY DEF AwakeRemovers, Awake
    <3> QED
      BY <3>1, TSQueueAssumption, FS_Subset, FS_CardinalityType
  <2> QED
    BY <1>1, <2>1, <2>2, <2>3 DEF WakeupInv, NoLostWakeup
<1>3. CASE ~MustWait(call[t]) /\ pc' = [pc EXCEPT ![t] = "inside"]
  <2>1. Waiting' \subseteq Waiting
    BY <1>1, <1>3 DEF Waiting, Inv, TypeOK
  <2>2. AwakeRemovers \subseteq AwakeRemovers'
    BY <1>1, <1>3 DEF AwakeRemovers, Awake, Inv, TypeOK
  <2> QED
    BY <1>1, <2>1, <2>2, StillNoLostWakeup DEF WakeupInv, Inv
<1> QED
  BY <1>2, <1>3 DEF Enter

(* A signal for each element: the count and the awake removers grow by one. *)
LEMMA AddKeepsWakeups ==
  ASSUME WakeupInv, NEW t \in Threads, tsq_add(t)
  PROVE  /\ \A s \in Waiting' : call'[s].op = "remove"
         /\ NoLostWakeup'
<1>1. /\ Inv /\ Inv' /\ call' = call /\ pc[t] = "inside" /\ call[t].op = "add"
      /\ pc \in [Threads -> {"idle", "enter", "wait", "inside"}] /\ q \in Ring
  BY AddInv DEF WakeupInv, Inv, TypeOK, tsq_add, Inside
<1>2. CASE q' = q /\ pc' = [pc EXCEPT ![t] = "idle"]
  <2>1. Waiting' \subseteq Waiting
    BY <1>1, <1>2 DEF Waiting
  <2>2. AwakeRemovers \subseteq AwakeRemovers'
    BY <1>1, <1>2 DEF AwakeRemovers, Awake
  <2> QED
    BY <1>1, <1>2, <2>1, <2>2, StillNoLostWakeup DEF WakeupInv, Inv
<1>3. CASE q.count # Size /\ q' = q_add(q, call[t].element) /\ SignalAndLeave(t, 1)
  <2>1. q'.count = q.count + 1
    BY <1>1, <1>3, AddEffect, AddAppends
  <2>2. CASE Waiting = {} /\ pc' = [pc EXCEPT ![t] = "idle"]
    <3>1. Waiting' = {}
      BY <1>1, <2>2 DEF Waiting
    <3> QED
      BY <3>1 DEF NoLostWakeup
  <2>3. ASSUME NEW w \in Waiting, pc' = [pc EXCEPT ![t] = "idle", ![w] = "enter"]
        PROVE  /\ \A s \in Waiting' : call'[s].op = "remove"
               /\ NoLostWakeup'
    <3>1. w # t /\ w \notin AwakeRemovers /\ call[w].op = "remove"
      BY <1>1 DEF Waiting, AwakeRemovers, Awake, WakeupInv
    <3>2. Waiting' \subseteq Waiting /\ AwakeRemovers' = AwakeRemovers \cup {w}
      BY <1>1, <2>3, <3>1 DEF Waiting, AwakeRemovers, Awake
    <3>3. Cardinality(AwakeRemovers') = Cardinality(AwakeRemovers) + 1
      BY <3>1, <3>2, AwakeIsFinite, OneMore
    <3>4. q.count <= Cardinality(AwakeRemovers)
      BY DEF WakeupInv, NoLostWakeup
    <3>5. q'.count <= Cardinality(AwakeRemovers')
      BY <1>1, <2>1, <3>3, <3>4, AwakeIsFinite, RingFields
    <3> QED
      BY <1>1, <3>2, <3>5 DEF WakeupInv, NoLostWakeup
  <2> QED
    BY <1>1, <1>3, <2>2, <2>3, SignalEffect DEF Inv, Waiting
<1> QED
  BY <1>2, <1>3, AddEffect DEF WakeupInv

(* A remover takes one element along, and when it passes a signal on, one   *)
(* other remover is awake for it.                                          *)
LEMMA RemoveKeepsWakeups ==
  ASSUME WakeupInv, NEW t \in Threads, tsq_remove(t)
  PROVE  /\ \A s \in Waiting' : call'[s].op = "remove"
         /\ NoLostWakeup'
<1>1. /\ Inv /\ Inv' /\ call' = call /\ pc[t] = "inside" /\ call[t].op = "remove"
      /\ pc \in [Threads -> {"idle", "enter", "wait", "inside"}] /\ q \in Ring
  BY RemoveInv DEF WakeupInv, Inv, TypeOK, tsq_remove, Inside
<1>2. \/ pc' = [pc EXCEPT ![t] = "idle"]
      \/ \E w \in Waiting : pc' = [pc EXCEPT ![t] = "idle", ![w] = "enter"]
  BY <1>1, RemoveEffect, SignalEffect DEF Inv
<1>3. Waiting' \subseteq Waiting
  BY <1>1, <1>2 DEF Waiting
<1>4. AwakeRemovers \ {t} \subseteq AwakeRemovers'
  BY <1>1, <1>2 DEF AwakeRemovers, Awake, Waiting
<1>5. /\ Cardinality(AwakeRemovers') >= Cardinality(AwakeRemovers) - 1
      /\ Cardinality(AwakeRemovers) \in Nat /\ Cardinality(AwakeRemovers') \in Nat
  <2>1. AwakeRemovers' \subseteq Threads
    BY DEF AwakeRemovers, Awake
  <2>2. IsFiniteSet(AwakeRemovers') /\ Cardinality(AwakeRemovers') \in Nat
    BY <2>1, TSQueueAssumption, FS_Subset, FS_CardinalityType
  <2>3. Cardinality(AwakeRemovers \ {t}) <= Cardinality(AwakeRemovers')
    BY <1>4, <2>2, FS_Subset
  <2>4. Cardinality(AwakeRemovers \ {t}) \in Nat
    BY AwakeIsFinite, FS_RemoveElement, FS_CardinalityType
  <2>5. Cardinality(AwakeRemovers \ {t}) >= Cardinality(AwakeRemovers) - 1
    BY AwakeIsFinite, OneFewer
  <2> QED
    BY <2>2, <2>3, <2>4, <2>5, AwakeIsFinite
<1>6. Waiting' # {} => q'.count <= Cardinality(AwakeRemovers')
  <2>1. CASE q.count = 0 /\ q' = q
    BY <1>5, <2>1
  <2>2. CASE q.count # 0 /\ q' = q_remove(q)
    <3>1. q'.count = q.count - 1 /\ q.count \in 0 .. Size
      BY <1>1, <2>2, RemoveTakesHead, RingFields
    <3>2. Waiting' # {} => q.count <= Cardinality(AwakeRemovers)
      BY <1>3 DEF WakeupInv, NoLostWakeup
    <3> QED
      BY <1>5, <3>1, <3>2, QueueAssumption
  <2> QED
    BY <1>1, <2>1, <2>2, RemoveEffect
<1> QED
  BY <1>1, <1>3, <1>6 DEF WakeupInv, NoLostWakeup

LEMMA WakeupInvNext ==
  ASSUME WakeupInv, NonBlockingAdds, [Next]_vars
  PROVE  WakeupInv'
<1>1. Inv'
  BY NextInv DEF WakeupInv
<1>2. CASE Next
  <2>1. PICK t \in Threads : Step(t)
    BY <1>2 DEF Next, Step
  <2>2. CASE Invoke(t)
    <3>1. /\ Waiting' = Waiting /\ q' = q
          /\ \A s \in Waiting : call'[s] = call[s]
          /\ AwakeRemovers \subseteq AwakeRemovers'
      BY <2>2 DEF Invoke, Waiting, AwakeRemovers, Awake, WakeupInv, Inv, TypeOK
    <3> QED
      BY <1>1, <3>1, StillNoLostWakeup DEF WakeupInv, Inv
  <2>3. CASE Enter(t)
    BY <1>1, <2>3, EnterKeepsWakeups DEF WakeupInv
  <2>4. CASE SpuriousWakeup(t)
    <3>1. /\ Waiting' \subseteq Waiting /\ q' = q /\ call' = call
          /\ AwakeRemovers \subseteq AwakeRemovers'
      BY <2>4 DEF SpuriousWakeup, Waiting, AwakeRemovers, Awake, WakeupInv, Inv, TypeOK
    <3> QED
      BY <1>1, <3>1, StillNoLostWakeup DEF WakeupInv, Inv
  <2>5. CASE tsq_add(t)
    BY <1>1, <2>5, AddKeepsWakeups DEF WakeupInv
  <2>6. CASE tsq_remove(t)
    BY <1>1, <2>6, RemoveKeepsWakeups DEF WakeupInv
  <2>7. CASE tsq_count(t)
    <3>1. /\ pc[t] = "inside" /\ call[t].op = "count" /\ q' = q /\ call' = call
          /\ pc' = [pc EXCEPT ![t] = "idle"]
          /\ pc \in [Threads -> {"idle", "enter", "wait", "inside"}]
      BY <2>7 DEF tsq_count, Inside, Leave, WakeupInv, Inv, TypeOK
    <3>2. Waiting' \subseteq Waiting /\ AwakeRemovers \subseteq AwakeRemovers'
      BY <3>1 DEF Waiting, AwakeRemovers, Awake
    <3> QED
      BY <1>1, <3>1, <3>2, StillNoLostWakeup DEF WakeupInv, Inv
  <2> QED
    BY <2>1, <2>2, <2>3, <2>4, <2>5, <2>6, <2>7 DEF Step, Body
<1>3. CASE UNCHANGED vars
  BY <1>1, <1>3 DEF vars, WakeupInv, Waiting, NoLostWakeup, AwakeRemovers, Awake
<1> QED
  BY <1>2, <1>3

LEMMA WakeupInvInit == Init => WakeupInv
<1> SUFFICES ASSUME Init PROVE WakeupInv
  OBVIOUS
<1>1. Waiting = {}
  BY DEF Init, Waiting
<1> QED
  BY <1>1, InitInv DEF WakeupInv, NoLostWakeup

(* One signal per element is enough, whatever the number of threads, as     *)
(* long as nobody blocks in tsq_add: no thread sleeps next to an element    *)
(* that no other remover is on its way to.                                 *)
THEOREM NoWakeupIsLost ==
  ASSUME NonBlockingAdds
  PROVE  Spec => []NoLostWakeup
<1>1. Init => WakeupInv
  BY WakeupInvInit
<1>2. WakeupInv /\ [Next]_vars => WakeupInv'
  BY WakeupInvNext
<1>3. WakeupInv => NoLostWakeup
  BY DEF WakeupInv
<1> QED
  BY <1>1, <1>2, <1>3, PTL DEF Spec

-----------------------------------------------------------------------------

(* Removers alone can not be forgotten: who waits has found the queue empty *)
(* and there is no element yet that an awake remover is not there for.     *)
THEOREM RemoversAreNotForgotten ==
  ASSUME NonBlockingAdds
  PROVE  Spec => []NobodyForgotten
<1>1. WakeupInv /\ BlockersWait => NobodyForgotten
  <2> SUFFICES ASSUME WakeupInv, BlockersWait, Awake("remove") = {}, NEW w \in Waiting
               PROVE  MustWait(call[w])
    BY DEF NobodyForgotten
  <2>1. q.count <= 0 /\ q.count \in 0 .. Size
    BY FS_EmptySet, RingFields DEF WakeupInv, NoLostWakeup, AwakeRemovers, Inv, TypeOK
  <2>2. call[w].op = "remove" /\ call[w].blocking
    BY DEF WakeupInv, BlockersWait
  <2> QED
    BY <2>1, <2>2, QueueAssumption DEF MustWait, q_count
<1> QED
  BY <1>1, WakeupInvInit, WakeupInvNext, OnlyBlockersWait, PTL DEF Spec

-----------------------------------------------------------------------------

(* With blocking in both directions the numbers of awake and of sleeping    *)
(* calls of both kinds balance the elements and the free slots.            *)

WaitingFor(op) == {t \in Waiting : call[t].op = op}

(* For n elements: sleeping removers have an awake remover per element,     *)
(* sleeping adders an awake adder per free slot.  When both sleep, one of   *)
(* each, the queue is full or empty and everybody else is awake; a signal   *)
(* to the wrong one then leaves a single element, or slot, unattended by    *)
(* its kind but surrounded by the other.                                   *)
Balanced(n, adders, removers, sleepingAdders, sleepingRemovers) ==
  /\ sleepingRemovers > 0 =>
       \/ n <= removers
       \/ n <= 1 /\ sleepingRemovers = 1 /\ adders >= Size /\ adders > 1
  /\ sleepingAdders > 0 =>
       \/ Size - n <= adders
       \/ Size - n <= 1 /\ sleepingAdders = 1 /\ removers >= Size /\ removers > 1
  /\ sleepingRemovers > 0 /\ sleepingAdders > 0 =>
       \/ n = Size /\ removers >= Size
       \/ n = 0 /\ adders >= Size

Balance ==
  Balanced(q.count,
           Cardinality(Awake("add")), Cardinality(Awake("remove")),
           Cardinality(WaitingFor("add")), Cardinality(WaitingFor("remove")))

BalanceInv == Inv /\ BlockersWait /\ Balance

(* The arithmetic: a, r awake and x, y sleeping adders and removers.        *)
LEMMA BalanceOfFewer ==
  ASSUME NEW n \in 0 .. Size, NEW a \in Nat, NEW r \in Nat, NEW x \in Nat, NEW y \in Nat,
         NEW b \in Nat, NEW s \in Nat, NEW u \in Nat, NEW v \in Nat,
         Balanced(n, a, r, x, y), a <= b, r <= s, u <= x, v <= y
  PROVE  Balanced(n, b, s, u, v)
BY QueueAssumption DEF Balanced

LEMMA BalanceWhenRefused ==
  ASSUME NEW n \in 0 .. Size, NEW a \in Nat, NEW r \in Nat, NEW x \in Nat, NEW y \in Nat,
         EnoughRoom, Cardinality(Threads) \in Nat,
         a + r + x + y <= Cardinality(Threads), Balanced(n, a, r, x, y)
  PROVE  /\ n = Size /\ a > 0 => Balanced(n, a - 1, r, x, y) /\ Balanced(n, a - 1, r, x + 1, y)
         /\ n = 0 /\ r > 0 => Balanced(n, a, r - 1, x, y) /\ Balanced(n, a, r - 1, x, y + 1)
BY QueueAssumption DEF Balanced, EnoughRoom

LEMMA BalanceOfAdd ==
  ASSUME NEW n \in 0 .. Size, NEW a \in Nat, NEW r \in Nat, NEW x \in Nat, NEW y \in Nat,
         EnoughRoom, Cardinality(Threads) \in Nat, n # Size, a > 0,
         a + r + x + y <= Cardinality(Threads), Balanced(n, a, r, x, y)
  PROVE  /\ x > 0 => Balanced(n + 1, a, r, x - 1, y)
         /\ y > 0 => Balanced(n + 1, a - 1, r + 1, x, y - 1)
         /\ x = 0 /\ y = 0 => Balanced(n + 1, a - 1, r, x, y)
BY QueueAssumption DEF Balanced, EnoughRoom

LEMMA BalanceOfRemove ==
  ASSUME NEW n \in 0 .. Size, NEW a \in Nat, NEW r \in Nat, NEW x \in Nat, NEW y \in Nat,
         EnoughRoom, Cardinality(Threads) \in Nat, n # 0, r > 0,
         a + r + x + y <= Cardinality(Threads), Balanced(n, a, r, x, y)
  PROVE  /\ x > 0 => Balanced(n - 1, a + 1, r - 1, x - 1, y)
         /\ y > 0 => Balanced(n - 1, a, r, x, y - 1)
         /\ x = 0 /\ y = 0 => Balanced(n - 1, a, r - 1, x, y)
BY QueueAssumption DEF Balanced, EnoughRoom

LEMMA LosesOne ==
  ASSUME NEW S, NEW x, IsFiniteSet(S), x \in S
  PROVE  /\ IsFiniteSet(S \ {x}) /\ Cardinality(S) > 0
         /\ Cardinality(S \ {x}) = Cardinality(S) - 1
<1>1. IsFiniteSet(S \ {x}) /\ Cardinality(S \ {x}) = Cardinality(S) - 1
  BY FS_RemoveElement
<1>2. Cardinality(S \ {x}) \in Nat /\ Cardinality(S) \in Nat
  BY <1>1, FS_CardinalityType
<1> QED
  BY <1>1, <1>2

LEMMA ExchangesOne ==
  ASSUME NEW S, NEW x, NEW y, IsFiniteSet(S), x \in S, y \notin S
  PROVE  Cardinality((S \ {x}) \cup {y}) = Cardinality(S)
<1>1. IsFiniteSet(S \ {x}) /\ Cardinality(S \ {x}) = Cardinality(S) - 1
  BY LosesOne
<1>2. Cardinality((S \ {x}) \cup {y}) = Cardinality(S \ {x}) + 1
  <2>1. y \notin S \ {x}
    OBVIOUS
  <2> QED
    BY <1>1, <2>1, OneMore
<1> QED
  BY <1>1, <1>2, FS_CardinalityType

LEMMA TwoParts ==
  ASSUME NEW S, NEW T, IsFiniteSet(S), IsFiniteSet(T), S \cap T = {}
  PROVE  /\ IsFiniteSet(S \cup T)
         /\ Cardinality(S \cup T) = Cardinality(S) + Cardinality(T)
<1>1. /\ IsFiniteSet(S \cup T)
      /\ Cardinality(S \cup T) = Cardinality(S) + Cardinality(T) - Cardinality(S \cap T)
  BY FS_Union
<1>2. Cardinality(S \cap T) = 0
  BY FS_EmptySet
<1>3. Cardinality(S) \in Nat /\ Cardinality(T) \in Nat
  BY FS_CardinalityType
<1> QED
  BY <1>1, <1>2, <1>3

LEMMA FourParts ==
  ASSUME NEW U, IsFiniteSet(U),
         NEW A \in SUBSET U, NEW B \in SUBSET U, NEW C \in SUBSET U, NEW D \in SUBSET U,
         A \cap B = {}, (A \cup B) \cap C = {}, (A \cup B \cup C) \cap D = {}
  PROVE  Cardinality(A) + Cardinality(B) + Cardinality(C) + Cardinality(D) <= Cardinality(U)
<1>1. IsFiniteSet(A) /\ IsFiniteSet(B) /\ IsFiniteSet(C) /\ IsFiniteSet(D)
  BY FS_Subset
<1>2. Cardinality(A) \in Nat /\ Cardinality(B) \in Nat /\ Cardinality(C) \in Nat
      /\ Cardinality(D) \in Nat /\ Cardinality(U) \in Nat
  BY <1>1, FS_CardinalityType
<1>3. IsFiniteSet(A \cup B) /\ Cardinality(A \cup B) = Cardinality(A) + Cardinality(B)
  BY <1>1, TwoParts
<1>4. /\ IsFiniteSet(A \cup B \cup C)
      /\ Cardinality(A \cup B \cup C) = Cardinality(A \cup B) + Cardinality(C)
  BY <1>1, <1>3, TwoParts
<1>5. Cardinality(A \cup B \cup C \cup D) = Cardinality(A \cup B \cup C) + Cardinality(D)
  BY <1>1, <1>4, TwoParts
<1>6. Cardinality(A \cup B \cup C \cup D) <= Cardinality(U)
  <2>1. A \cup B \cup C \cup D \in SUBSET U
    OBVIOUS
  <2> QED
    BY <2>1, FS_Subset
<1> QED
  BY <1>2, <1>3, <1>4, <1>5, <1>6

(* Nobody is awake and asleep, or adds and removes, at once. *)
LEMMA Headcount ==
  /\ \A op : IsFiniteSet(Awake(op)) /\ Cardinality(Awake(op)) \in Nat
  /\ \A op : IsFiniteSet(WaitingFor(op)) /\ Cardinality(WaitingFor(op)) \in Nat
  /\ Cardinality(Threads) \in Nat
  /\ Cardinality(Awake("add")) + Cardinality(Awake("remove"))
       + Cardinality(WaitingFor("add")) + Cardinality(WaitingFor("remove"))
       <= Cardinality(Threads)
<1>1. /\ \A op : Awake(op) \in SUBSET Threads
      /\ \A op : WaitingFor(op) \in SUBSET Threads
  BY DEF Awake, WaitingFor, Waiting
<1>2. /\ \A op : IsFiniteSet(Awake(op)) /\ Cardinality(Awake(op)) \in Nat
      /\ \A op : IsFiniteSet(WaitingFor(op)) /\ Cardinality(WaitingFor(op)) \in Nat
      /\ Cardinality(Threads) \in Nat
  BY <1>1, TSQueueAssumption, FS_Subset, FS_CardinalityType
<1>3. /\ Awake("add") \cap Awake("remove") = {}
      /\ (Awake("add") \cup Awake("remove")) \cap WaitingFor("add") = {}
      /\ (Awake("add") \cup Awake("remove") \cup WaitingFor("add")) \cap WaitingFor("remove") = {}
  BY DEF Awake, WaitingFor, Waiting
<1> QED
  BY <1>1, <1>2, <1>3, TSQueueAssumption, FourParts

(* The same in the next state. *)
LEMMA HeadcountNext ==
  /\ \A op : IsFiniteSet(Awake(op)') /\ Cardinality(Awake(op)') \in Nat
  /\ \A op : IsFiniteSet(WaitingFor(op)') /\ Cardinality(WaitingFor(op)') \in Nat
<1>1. /\ \A op : Awake(op)' \in SUBSET Threads
      /\ \A op : WaitingFor(op)' \in SUBSET Threads
  BY DEF Awake, WaitingFor, Waiting
<1> QED
  BY <1>1, TSQueueAssumption, FS_Subset, FS_CardinalityType

(* Nobody returns or goes to sleep: more are awake and fewer asleep. *)
LEMMA BalanceWhenNobodyLeaves ==
  ASSUME BalanceInv, q'.count = q.count,
         \A op \in {"add", "remove"} : Awake(op) \subseteq Awake(op)',
         \A op \in {"add", "remove"} : WaitingFor(op)' \subseteq WaitingFor(op)
  PROVE  Balance'
<1>1. \A op \in {"add", "remove"} :
           /\ Cardinality(Awake(op)) \in Nat /\ Cardinality(Awake(op)') \in Nat
           /\ Cardinality(WaitingFor(op)) \in Nat /\ Cardinality(WaitingFor(op)') \in Nat
           /\ Cardinality(Awake(op)) <= Cardinality(Awake(op)')
           /\ Cardinality(WaitingFor(op)') <= Cardinality(WaitingFor(op))
  BY Headcount, HeadcountNext, FS_Subset
<1>2. q.count \in 0 .. Size
  BY RingFields DEF BalanceInv, Inv, TypeOK
<1> QED
  BY <1>1, <1>2, BalanceOfFewer DEF BalanceInv, Balance

(* A call that can not proceed returns, or goes to sleep. *)
LEMMA BalanceWhenOneGivesUp ==
  ASSUME BalanceInv, EnoughRoom, NEW t \in Threads,
         pc[t] \in {"enter", "inside"}, call' = call, q'.count = q.count,
         \/ call[t].op = "add" /\ q.count = Size
         \/ call[t].op = "remove" /\ q.count = 0,
         \/ pc' = [pc EXCEPT ![t] = "idle"]
         \/ pc' = [pc EXCEPT ![t] = "wait"]
  PROVE  Balance'
<1> DEFINE a == Cardinality(Awake("add"))
           r == Cardinality(Awake("remove"))
           x == Cardinality(WaitingFor("add"))
           y == Cardinality(WaitingFor("remove"))
<1>1. /\ q.count \in 0 .. Size
      /\ pc \in [Threads -> {"idle", "enter", "wait", "inside"}]
  BY RingFields DEF BalanceInv, Inv, TypeOK
<1>2. /\ a \in Nat /\ r \in Nat /\ x \in Nat /\ y \in Nat /\ Cardinality(Threads) \in Nat
      /\ a + r + x + y <= Cardinality(Threads)
      /\ Balanced(q.count, a, r, x, y)
  BY Headcount DEF BalanceInv, Balance
<1>3. ASSUME NEW op, call[t].op = op
      PROVE  /\ Awake(op)' = Awake(op) \ {t} /\ t \in Awake(op)
             /\ Cardinality(Awake(op)') = Cardinality(Awake(op)) - 1
             /\ Cardinality(Awake(op)) > 0
             /\ \/ WaitingFor(op)' = WaitingFor(op)
                \/ Cardinality(WaitingFor(op)') = Cardinality(WaitingFor(op)) + 1
  <2>1. Awake(op)' = Awake(op) \ {t} /\ t \in Awake(op) /\ t \notin WaitingFor(op)
    BY <1>1, <1>3 DEF Awake, WaitingFor, Waiting
  <2>2. \/ WaitingFor(op)' = WaitingFor(op)
        \/ WaitingFor(op)' = WaitingFor(op) \cup {t}
    <3>1. CASE pc' = [pc EXCEPT ![t] = "idle"]
      BY <1>1, <3>1 DEF WaitingFor, Waiting
    <3>2. CASE pc' = [pc EXCEPT ![t] = "wait"]
      BY <1>1, <1>3, <3>2 DEF WaitingFor, Waiting
    <3> QED
      BY <3>1, <3>2
  <2>3. Cardinality(Awake(op) \ {t}) = Cardinality(Awake(op)) - 1 /\ Cardinality(Awake(op)) > 0
    BY <2>1, Headcount, LosesOne
  <2>4. \/ WaitingFor(op)' = WaitingFor(op)
        \/ Cardinality(WaitingFor(op)') = Cardinality(WaitingFor(op)) + 1
    BY <2>1, <2>2, Headcount, OneMore
  <2> QED
    BY <2>1, <2>3, <2>4
<1>4. ASSUME NEW op, call[t].op # op
      PROVE  Awake(op)' = Awake(op) /\ WaitingFor(op)' = WaitingFor(op)
  BY <1>1, <1>4 DEF Awake, WaitingFor, Waiting
<1>5. CASE call[t].op = "add" /\ q.count = Size
  <2>1. /\ Awake("remove")' = Awake("remove") /\ WaitingFor("remove")' = WaitingFor("remove")
        /\ Cardinality(Awake("add")') = a - 1 /\ a > 0
        /\ Cardinality(WaitingFor("add")') \in {x, x + 1}
    BY <1>3, <1>4, <1>5
  <2>2. Balanced(q.count, a - 1, r, x, y) /\ Balanced(q.count, a - 1, r, x + 1, y)
    BY <1>1, <1>2, <1>5, <2>1, BalanceWhenRefused
  <2> QED
    BY <2>1, <2>2 DEF Balance
<1>6. CASE call[t].op = "remove" /\ q.count = 0
  <2>1. /\ Awake("add")' = Awake("add") /\ WaitingFor("add")' = WaitingFor("add")
        /\ Cardinality(Awake("remove")') = r - 1 /\ r > 0
        /\ Cardinality(WaitingFor("remove")') \in {y, y + 1}
    BY <1>3, <1>4, <1>6
  <2>2. Balanced(q.count, a, r - 1, x, y) /\ Balanced(q.count, a, r - 1, x, y + 1)
    BY <1>1, <1>2, <1>6, <2>1, BalanceWhenRefused
  <2> QED
    BY <2>1, <2>2 DEF Balance
<1> QED
  BY <1>5, <1>6

(* Whom the signal of a leaving thread wakes. *)
LEMMA WhoIsWoken ==
  ASSUME BalanceInv, NEW t \in Threads, pc[t] = "inside", NEW op, call[t].op = op,
         NEW other, other # op, call' = call,
         NEW value, SignalAndLeave(t, value)
  PROVE  LET leaving  == Cardinality(Awake(op))
             awake    == Cardinality(Awake(other))
             same     == Cardinality(WaitingFor(op))
             opposite == Cardinality(WaitingFor(other))
         IN  /\ leaving > 0
             /\ \/ /\ Waiting = {} /\ same = 0 /\ opposite = 0
                   /\ Cardinality(Awake(op)') = leaving - 1
                   /\ Cardinality(Awake(other)') = awake
                   /\ Cardinality(WaitingFor(op)') = same
                   /\ Cardinality(WaitingFor(other)') = opposite
                \/ /\ same > 0
                   /\ Cardinality(Awake(op)') = leaving
                   /\ Cardinality(Awake(other)') = awake
                   /\ Cardinality(WaitingFor(op)') = same - 1
                   /\ Cardinality(WaitingFor(other)') = opposite
                \/ /\ opposite > 0
                   /\ Cardinality(Awake(op)') = leaving - 1
                   /\ Cardinality(Awake(other)') = awake + 1
                   /\ Cardinality(WaitingFor(op)') = same
                   /\ Cardinality(WaitingFor(other)') = opposite - 1
                \/ \E w \in Waiting : call[w].op \notin {op, other}
<1>1. /\ TypeOK /\ pc \in [Threads -> {"idle", "enter", "wait", "inside"}]
  BY DEF BalanceInv, Inv, TypeOK
<1>2. /\ t \in Awake(op) /\ t \notin Awake(other) /\ t \notin Waiting
      /\ Cardinality(Awake(op)) > 0
      /\ IsFiniteSet(Awake(op) \ {t})
      /\ Cardinality(Awake(op) \ {t}) = Cardinality(Awake(op)) - 1
  <2>1. t \in Awake(op) /\ t \notin Awake(other) /\ t \notin Waiting
    BY DEF Awake, Waiting
  <2> QED
    BY <2>1, Headcount, LosesOne
<1>3. CASE Waiting = {} /\ pc' = [pc EXCEPT ![t] = "idle"]
  <2>1. /\ Awake(op)' = Awake(op) \ {t} /\ Awake(other)' = Awake(other)
        /\ WaitingFor(op) = {} /\ WaitingFor(other) = {}
        /\ WaitingFor(op)' = {} /\ WaitingFor(other)' = {}
    BY <1>1, <1>3 DEF Awake, WaitingFor, Waiting
  <2> QED
    BY <1>2, <1>3, <2>1, FS_EmptySet
<1>4. ASSUME NEW w \in Waiting, pc' = [pc EXCEPT ![t] = "idle", ![w] = "enter"],
             call[w].op = op
      PROVE  /\ Cardinality(WaitingFor(op)) > 0
             /\ Cardinality(Awake(op)') = Cardinality(Awake(op))
             /\ Cardinality(Awake(other)') = Cardinality(Awake(other))
             /\ Cardinality(WaitingFor(op)') = Cardinality(WaitingFor(op)) - 1
             /\ Cardinality(WaitingFor(other)') = Cardinality(WaitingFor(other))
  <2>1. /\ w \in WaitingFor(op) /\ w \notin Awake(op) /\ w # t
        /\ Awake(op)' = (Awake(op) \ {t}) \cup {w}
        /\ Awake(other)' = Awake(other)
        /\ WaitingFor(op)' = WaitingFor(op) \ {w}
        /\ WaitingFor(other)' = WaitingFor(other)
    BY <1>1, <1>2, <1>4 DEF Awake, WaitingFor, Waiting
  <2>2. Cardinality((Awake(op) \ {t}) \cup {w}) = Cardinality(Awake(op))
    BY <1>2, <2>1, Headcount, ExchangesOne
  <2>3. /\ Cardinality(WaitingFor(op) \ {w}) = Cardinality(WaitingFor(op)) - 1
        /\ Cardinality(WaitingFor(op)) > 0
    BY <2>1, Headcount, LosesOne
  <2> QED
    BY <2>1, <2>2, <2>3
<1>5. ASSUME NEW w \in Waiting, pc' = [pc EXCEPT ![t] = "idle", ![w] = "enter"],
             call[w].op = other
      PROVE  /\ Cardinality(WaitingFor(other)) > 0
             /\ Cardinality(Awake(op)') = Cardinality(Awake(op)) - 1
             /\ Cardinality(Awake(other)') = Cardinality(Awake(other)) + 1
             /\ Cardinality(WaitingFor(op)') = Cardinality(WaitingFor(op))
             /\ Cardinality(WaitingFor(other)') = Cardinality(WaitingFor(other)) - 1
  <2>1. /\ w \in WaitingFor(other) /\ w \notin Awake(other) /\ w # t
        /\ Awake(op)' = Awake(op) \ {t}
        /\ Awake(other)' = Awake(other) \cup {w}
        /\ WaitingFor(op)' = WaitingFor(op)
        /\ WaitingFor(other)' = WaitingFor(other) \ {w}
    BY <1>1, <1>2, <1>5 DEF Awake, WaitingFor, Waiting
  <2>2. Cardinality(Awake(other)') = Cardinality(Awake(other)) + 1
    BY <2>1, Headcount, OneMore
  <2>3. /\ Cardinality(WaitingFor(other) \ {w}) = Cardinality(WaitingFor(other)) - 1
        /\ Cardinality(WaitingFor(other)) > 0
    BY <2>1, Headcount, LosesOne
  <2> QED
    BY <1>2, <2>1, <2>2, <2>3
<1>6. \/ Waiting = {} /\ pc' = [pc EXCEPT ![t] = "idle"]
      \/ \E w \in Waiting : pc' = [pc EXCEPT ![t] = "idle", ![w] = "enter"]
  BY <1>1, SignalEffect
<1> QED
  BY <1>2, <1>3, <1>4, <1>5, <1>6

(* The waiter that is woken is of the same kind or of the other one. *)
LEMMA BalanceAfterSignal ==
  ASSUME BalanceInv, EnoughRoom, NEW t \in Threads, pc[t] = "inside", call' = call,
         NEW value, SignalAndLeave(t, value),
         \/ call[t].op = "add" /\ q.count # Size /\ q'.count = q.count + 1
         \/ call[t].op = "remove" /\ q.count # 0 /\ q'.count = q.count - 1
  PROVE  Balance'
<1> DEFINE a == Cardinality(Awake("add"))
           r == Cardinality(Awake("remove"))
           x == Cardinality(WaitingFor("add"))
           y == Cardinality(WaitingFor("remove"))
<1>1. /\ q.count \in 0 .. Size
      /\ ~ \E w \in Waiting : call[w].op \notin {"add", "remove"}
  BY RingFields DEF BalanceInv, BlockersWait, Inv, TypeOK
<1>2. /\ a \in Nat /\ r \in Nat /\ x \in Nat /\ y \in Nat /\ Cardinality(Threads) \in Nat
      /\ a + r + x + y <= Cardinality(Threads)
      /\ Balanced(q.count, a, r, x, y)
  BY Headcount DEF BalanceInv, Balance
<1>3. CASE call[t].op = "add" /\ q.count # Size /\ q'.count = q.count + 1
  <2>1. /\ a > 0
        /\ \/ /\ x = 0 /\ y = 0
              /\ Cardinality(Awake("add")') = a - 1 /\ Cardinality(Awake("remove")') = r
              /\ Cardinality(WaitingFor("add")') = x /\ Cardinality(WaitingFor("remove")') = y
           \/ /\ x > 0
              /\ Cardinality(Awake("add")') = a /\ Cardinality(Awake("remove")') = r
              /\ Cardinality(WaitingFor("add")') = x - 1 /\ Cardinality(WaitingFor("remove")') = y
           \/ /\ y > 0
              /\ Cardinality(Awake("add")') = a - 1 /\ Cardinality(Awake("remove")') = r + 1
              /\ Cardinality(WaitingFor("add")') = x /\ Cardinality(WaitingFor("remove")') = y - 1
    <3> "remove" # "add"
      OBVIOUS
    <3> QED
      BY <1>1, <1>3, WhoIsWoken
  <2>2. /\ x > 0 => Balanced(q.count + 1, a, r, x - 1, y)
        /\ y > 0 => Balanced(q.count + 1, a - 1, r + 1, x, y - 1)
        /\ x = 0 /\ y = 0 => Balanced(q.count + 1, a - 1, r, x, y)
    BY <1>1, <1>2, <1>3, <2>1, BalanceOfAdd
  <2> QED
    BY <1>3, <2>1, <2>2 DEF Balance
<1>4. CASE call[t].op = "remove" /\ q.count # 0 /\ q'.count = q.count - 1
  <2>1. /\ r > 0
        /\ \/ /\ x = 0 /\ y = 0
              /\ Cardinality(Awake("add")') = a /\ Cardinality(Awake("remove")') = r - 1
              /\ Cardinality(WaitingFor("add")') = x /\ Cardinality(WaitingFor("remove")') = y
           \/ /\ y > 0
              /\ Cardinality(Awake("add")') = a /\ Cardinality(Awake("remove")') = r
              /\ Cardinality(WaitingFor("add")') = x /\ Cardinality(WaitingFor("remove")') = y - 1
           \/ /\ x > 0
              /\ Cardinality(Awake("add")') = a + 1 /\ Cardinality(Awake("remove")') = r - 1
              /\ Cardinality(WaitingFor("add")') = x - 1 /\ Cardinality(WaitingFor("remove")') = y
    <3>1. "add" # "remove" /\ call[t].op = "remove"
      BY <1>4
    <3>2. /\ r > 0
          /\ \/ /\ Waiting = {} /\ y = 0 /\ x = 0
                /\ Cardinality(Awake("remove")') = r - 1 /\ Cardinality(Awake("add")') = a
                /\ Cardinality(WaitingFor("remove")') = y /\ Cardinality(WaitingFor("add")') = x
             \/ /\ y > 0
                /\ Cardinality(Awake("remove")') = r /\ Cardinality(Awake("add")') = a
                /\ Cardinality(WaitingFor("remove")') = y - 1 /\ Cardinality(WaitingFor("add")') = x
             \/ /\ x > 0
                /\ Cardinality(Awake("remove")') = r - 1 /\ Cardinality(Awake("add")') = a + 1
                /\ Cardinality(WaitingFor("remove")') = y /\ Cardinality(WaitingFor("add")') = x - 1
             \/ \E w \in Waiting : call[w].op \notin {"remove", "add"}
      BY <3>1, WhoIsWoken
    <3> QED
      BY <1>1, <3>2
  <2>2. /\ x > 0 => Balanced(q.count - 1, a + 1, r - 1, x - 1, y)
        /\ y > 0 => Balanced(q.count - 1, a, r, x, y - 1)
        /\ x = 0 /\ y = 0 => Balanced(q.count - 1, a, r - 1, x, y)
    BY <1>1, <1>2, <1>4, <2>1, BalanceOfRemove
  <2> QED
    BY <1>4, <2>1, <2>2 DEF Balance
<1> QED
  BY <1>3, <1>4

LEMMA BalanceNext ==
  ASSUME BalanceInv, EnoughRoom, NULL \notin Element, [Next]_vars
  PROVE  BalanceInv'
<1>1. /\ Inv /\ Inv' /\ BlockersWait' /\ q \in Ring
      /\ pc \in [Threads -> {"idle", "enter", "wait", "inside"}]
      /\ call \in [Threads -> Call \cup {NULL}]
  BY NextInv, BlockersWaitNext DEF BalanceInv, Inv, TypeOK
<1>2. ASSUME NEW t \in Threads, Step(t)
      PROVE  Balance'
  <2>1. CASE Invoke(t)
    <3>1. /\ q'.count = q.count
          /\ \A op \in {"add", "remove"} : Awake(op) \subseteq Awake(op)'
          /\ \A op \in {"add", "remove"} : WaitingFor(op)' \subseteq WaitingFor(op)
      BY <1>1, <2>1 DEF Invoke, Awake, WaitingFor, Waiting
    <3> QED
      BY <3>1, BalanceWhenNobodyLeaves
  <2>2. CASE SpuriousWakeup(t)
    <3>1. /\ q'.count = q.count
          /\ \A op \in {"add", "remove"} : Awake(op) \subseteq Awake(op)'
          /\ \A op \in {"add", "remove"} : WaitingFor(op)' \subseteq WaitingFor(op)
      BY <1>1, <2>2 DEF SpuriousWakeup, Awake, WaitingFor, Waiting
    <3> QED
      BY <3>1, BalanceWhenNobodyLeaves
  <2>3. CASE Enter(t) /\ MustWait(call[t]) /\ pc' = [pc EXCEPT ![t] = "wait"]
    <3>1. /\ pc[t] \in {"enter", "inside"} /\ call' = call /\ q'.count = q.count
          /\ \/ call[t].op = "add" /\ q.count = Size
             \/ call[t].op = "remove" /\ q.count = 0
      BY <1>1, <2>3, RingFields DEF Enter, MustWait, q_count, q_size
    <3> QED
      BY <2>3, <3>1, BalanceWhenOneGivesUp
  <2>4. CASE Enter(t) /\ pc' = [pc EXCEPT ![t] = "inside"]
    <3>1. /\ q'.count = q.count
          /\ \A op \in {"add", "remove"} : Awake(op) \subseteq Awake(op)'
          /\ \A op \in {"add", "remove"} : WaitingFor(op)' \subseteq WaitingFor(op)
      BY <1>1, <2>4 DEF Enter, Awake, WaitingFor, Waiting
    <3> QED
      BY <3>1, BalanceWhenNobodyLeaves
  <2>5. CASE tsq_add(t)
    <3>1. pc[t] = "inside" /\ call[t].op = "add" /\ call' = call
      BY <2>5 DEF tsq_add, Inside
    <3>2. CASE q.count = Size /\ q' = q /\ pc' = [pc EXCEPT ![t] = "idle"]
      BY <3>1, <3>2, BalanceWhenOneGivesUp
    <3>3. CASE q.count # Size /\ q' = q_add(q, call[t].element) /\ SignalAndLeave(t, 1)
      <4>1. q'.count = q.count + 1
        BY <1>1, <2>5, <3>3, AddEffect, AddAppends
      <4> QED
        BY <3>1, <3>3, <4>1, BalanceAfterSignal
    <3> QED
      BY <1>1, <2>5, <3>2, <3>3, AddEffect
  <2>6. CASE tsq_remove(t)
    <3>1. pc[t] = "inside" /\ call[t].op = "remove" /\ call' = call
      BY <2>6 DEF tsq_remove, Inside
    <3>2. CASE q.count = 0 /\ q' = q /\ pc' = [pc EXCEPT ![t] = "idle"]
      BY <3>1, <3>2, BalanceWhenOneGivesUp
    <3>3. CASE q.count # 0 /\ q' = q_remove(q) /\ SignalAndLeave(t, q_removeReturns(q))
      <4>1. q'.count = q.count - 1
        BY <1>1, <3>3, RemoveTakesHead
      <4> QED
        BY <3>1, <3>3, <4>1, BalanceAfterSignal
    <3> QED
      BY <1>1, <2>6, <3>2, <3>3, RemoveEffect
  <2>7. CASE tsq_count(t)
    <3>1. /\ pc[t] = "inside" /\ call[t].op = "count" /\ call' = call /\ q' = q
          /\ pc' = [pc EXCEPT ![t] = "idle"]
      BY <2>7 DEF tsq_count, Inside, Leave
    <3>2. /\ \A op \in {"add", "remove"} : Awake(op) \subseteq Awake(op)'
          /\ \A op \in {"add", "remove"} : WaitingFor(op)' \subseteq WaitingFor(op)
      BY <1>1, <3>1 DEF Awake, WaitingFor, Waiting
    <3> QED
      BY <3>1, <3>2, BalanceWhenNobodyLeaves
  <2> QED
    BY <1>2, <2>1, <2>2, <2>3, <2>4, <2>5, <2>6, <2>7 DEF Step, Body, Enter
<1>3. CASE UNCHANGED vars
  BY <1>1, <1>3 DEF vars, BalanceInv, Balance, Awake, WaitingFor, Waiting
<1> QED
  BY <1>1, <1>2, <1>3 DEF Next, Step, BalanceInv

LEMMA BalanceInit == Init => BalanceInv
<1> SUFFICES ASSUME Init PROVE BalanceInv
  OBVIOUS
<1>1. Waiting = {} /\ WaitingFor("add") = {} /\ WaitingFor("remove") = {}
  BY DEF Init, Waiting, WaitingFor
<1>2. Cardinality(WaitingFor("add")) = 0 /\ Cardinality(WaitingFor("remove")) = 0
  BY <1>1, FS_EmptySet
<1> QED
  BY <1>1, <1>2, InitInv DEF BalanceInv, BlockersWait, Balance, Balanced

(* With nobody awake for it there is no element and no free slot.           *)
LEMMA BalanceMeansNobodyForgotten == BalanceInv => NobodyForgotten
<1> SUFFICES ASSUME BalanceInv, Awake("add") = {}, Awake("remove") = {}, NEW w \in Waiting
             PROVE  MustWait(call[w])
  BY DEF NobodyForgotten
<1>1. Cardinality(Awake("add")) = 0 /\ Cardinality(Awake("remove")) = 0
  BY FS_EmptySet
<1>2. call[w].blocking /\ w \in WaitingFor(call[w].op) /\ q \in Ring /\ q.count \in 0 .. Size
  BY RingFields DEF BalanceInv, BlockersWait, WaitingFor, Inv, TypeOK
<1>3. CASE call[w].op = "add"
  <2>1. Cardinality(WaitingFor("add")) > 0
    BY <1>2, <1>3, Headcount, LosesOne
  <2>2. Size - q.count <= 0
    BY <1>1, <2>1, QueueAssumption DEF BalanceInv, Balance, Balanced
  <2>3. q_count(q) = q_size(q)
    BY <1>2, <2>2, QueueAssumption, RingFields DEF q_count, q_size
  <2> QED
    BY <1>2, <1>3, <2>3 DEF MustWait
<1>4. CASE call[w].op = "remove"
  <2>1. Cardinality(WaitingFor("remove")) > 0
    BY <1>2, <1>4, Headcount, LosesOne
  <2>2. q.count <= 0
    BY <1>1, <2>1, QueueAssumption DEF BalanceInv, Balance, Balanced
  <2> QED
    BY <1>2, <1>4, <2>2 DEF MustWait, q_count
<1> QED
  BY <1>3, <1>4 DEF BalanceInv, BlockersWait

(* One condition variable for both kinds of waiters is enough as long as    *)
(* all but two of the threads have a slot: whatever the order of the calls *)
(* and of the wakeups, when nobody is about to add or to remove, who waits *)
(* waits for something that is not there.                                  *)
THEOREM NobodyIsForgotten == Spec => []NoForgottenWaiter
<1>1. CASE EnoughRoom /\ NULL \notin Element
  <2>1. BalanceInv /\ [Next]_vars => BalanceInv'
    BY <1>1, BalanceNext
  <2>2. BalanceInv => NoForgottenWaiter
    BY BalanceMeansNobodyForgotten DEF NoForgottenWaiter
  <2> QED
    BY BalanceInit, <2>1, <2>2, PTL DEF Spec
<1>2. CASE ~(EnoughRoom /\ NULL \notin Element)
  <2>1. NoForgottenWaiter
    BY <1>2 DEF NoForgottenWaiter
  <2> QED
    BY <2>1, PTL
<1> QED
  BY <1>1, <1>2

-----------------------------------------------------------------------------

(* A call that runs its body is pending until it has returned, and one that *)
(* finds the queue full or empty there was not to block.                   *)
LEMMA BodyReturns ==
  ASSUME Inv, NEW t \in Threads, Body(t)
  PROVE  /\ t \in Pending /\ Pending' = Pending \ {t}
         /\ ~MustWait(call[t]) /\ call' = call
<1>1. pc[t] = "inside" /\ call' = call
  BY DEF Body, tsq_add, tsq_remove, tsq_count, Inside
<1>2. /\ pc \in [Threads -> {"idle", "enter", "wait", "inside"}]
      /\ ~MustWait(call[t])
  BY <1>1 DEF Inv, TypeOK, BlockingCallsSucceed
<1>3. \/ pc' = [pc EXCEPT ![t] = "idle"]
      \/ \E w \in Waiting : pc' = [pc EXCEPT ![t] = "idle", ![w] = "enter"]
  BY DEF Body, tsq_add, tsq_remove, tsq_count, SignalAndLeave, Leave
<1>4. CASE pc' = [pc EXCEPT ![t] = "idle"]
  BY <1>1, <1>2, <1>4 DEF Pending
<1>5. ASSUME NEW w \in Waiting, pc' = [pc EXCEPT ![t] = "idle", ![w] = "enter"]
      PROVE  Pending' = Pending \ {t}
  <2>1. w \in Threads /\ pc[w] = "wait" /\ w # t
    BY <1>1 DEF Waiting
  <2> QED
    BY <1>2, <1>5, <2>1 DEF Pending
<1> QED
  BY <1>1, <1>2, <1>3, <1>4, <1>5 DEF Pending

(* Every step of the queue is a step of the bounded FIFO or leaves its      *)
(* contents, the calls and the returned values alone.                      *)
LEMMA StepSimulation ==
  Inv /\ [Next]_vars => [Fifo!Next]_<<Contents(q), Pending, call, ret>>
<1> SUFFICES ASSUME Inv, [Next]_vars
             PROVE  [Fifo!Next]_<<Contents(q), Pending, call, ret>>
  OBVIOUS
<1>1. q \in Ring /\ Contents(q) \in Seq(Element) /\ Len(Contents(q)) = q.count
      /\ q.count \in 0 .. Size
  BY ContentsOfRing, RingFields DEF Inv, TypeOK
<1>2. pc \in [Threads -> {"idle", "enter", "wait", "inside"}]
  BY DEF Inv, TypeOK
<1>3. ASSUME NEW t \in Threads, tsq_add(t)
      PROVE  Fifo!Next
  <2>1. /\ t \in Pending /\ Pending' = Pending \ {t} /\ call' = call
        /\ ~MustWait(call[t]) /\ call[t].op = "add"
    BY <1>3, BodyReturns DEF Body, tsq_add, Inside
  <2>2. CASE q.count = Size /\ q' = q /\ ret' = [ret EXCEPT ![t] = 0]
    <3>1. ~call[t].blocking
      BY <1>1, <2>1, <2>2, RingFields DEF MustWait, q_count, q_size
    <3>2. Fifo!AddRefused(t)
      BY <1>1, <2>1, <2>2, <3>1 DEF Fifo!AddRefused, Fifo!Called, Fifo!Return
    <3> QED
      BY <3>2 DEF Fifo!Next
  <2>3. CASE /\ q.count # Size /\ q' = q_add(q, call[t].element)
             /\ ret' = [ret EXCEPT ![t] = 1]
    <3>1. call[t].element \in Element
      BY <1>3, AddEffect
    <3>2. Contents(q)' = Append(Contents(q), call[t].element)
      BY <1>1, <2>3, <3>1, AddAppends
    <3>3. Fifo!Add(t)
      BY <1>1, <2>1, <2>3, <3>2, QueueAssumption
         DEF Fifo!Add, Fifo!Called, Fifo!Return
    <3> QED
      BY <3>3 DEF Fifo!Next
  <2> QED
    BY <1>3, <2>2, <2>3, AddEffect
<1>4. ASSUME NEW t \in Threads, tsq_remove(t)
      PROVE  Fifo!Next
  <2>1. /\ t \in Pending /\ Pending' = Pending \ {t} /\ call' = call
        /\ ~MustWait(call[t]) /\ call[t].op = "remove"
    BY <1>4, BodyReturns DEF Body, tsq_remove, Inside
  <2>2. ret' = [ret EXCEPT ![t] = q_removeReturns(q)]
    BY <1>4, RemoveEffect
  <2>3. CASE q.count = 0 /\ q' = q /\ q_removeReturns(q) = NULL
    <3>1. ~call[t].blocking
      BY <2>1, <2>3 DEF MustWait, q_count
    <3>2. Fifo!RemoveEmpty(t)
      BY <1>1, <2>1, <2>2, <2>3, <3>1, EmptySeq
         DEF Fifo!RemoveEmpty, Fifo!Called, Fifo!Return
    <3> QED
      BY <3>2 DEF Fifo!Next
  <2>4. CASE q.count # 0 /\ q' = q_remove(q)
    <3>1. /\ Contents(q) # <<>> /\ Contents(q)' = Tail(Contents(q))
          /\ q_removeReturns(q) = Head(Contents(q))
      BY <1>1, <2>4, RemoveTakesHead
    <3>2. Fifo!Remove(t)
      BY <2>1, <2>2, <3>1 DEF Fifo!Remove, Fifo!Called, Fifo!Return
    <3> QED
      BY <3>2 DEF Fifo!Next
  <2> QED
    BY <1>4, <2>3, <2>4, RemoveEffect
<1>5. ASSUME NEW t \in Threads, tsq_count(t)
      PROVE  Fifo!Next
  <2>1. /\ t \in Pending /\ Pending' = Pending \ {t} /\ call' = call
        /\ call[t].op = "count"
    BY <1>5, BodyReturns DEF Body, tsq_count, Inside
  <2>2. Fifo!Count(t)
    BY <1>1, <1>5, <2>1
       DEF Fifo!Count, Fifo!Called, Fifo!Return, tsq_count, Leave, q_count
  <2> QED
    BY <2>2 DEF Fifo!Next
<1>6. ASSUME NEW t \in Threads, Invoke(t)
      PROVE  Fifo!Next
  <2>1. t \notin Pending /\ Pending' = Pending \cup {t}
    BY <1>2, <1>6 DEF Invoke, Pending
  <2>2. Fifo!Invoke(t)
    BY <1>6, <2>1 DEF Invoke, Fifo!Invoke
  <2> QED
    BY <2>2 DEF Fifo!Next
<1>7. ASSUME NEW t \in Threads, Enter(t) \/ SpuriousWakeup(t)
      PROVE  UNCHANGED <<Contents(q), Pending, call, ret>>
  <2>1. /\ UNCHANGED <<q, call, ret>> /\ pc[t] # "idle"
        /\ \E value \in {"enter", "wait", "inside"} : pc' = [pc EXCEPT ![t] = value]
    BY <1>7 DEF Enter, SpuriousWakeup
  <2>2. Pending' = Pending
    BY <1>2, <2>1 DEF Pending
  <2> QED
    BY <2>1, <2>2
<1>8. CASE UNCHANGED vars
  BY <1>8 DEF vars, Pending
<1> QED
  BY <1>3, <1>4, <1>5, <1>6, <1>7, <1>8 DEF Next, Body

(* The ring under its mutex implements the atomic bounded FIFO: concurrent  *)
(* calls of tsq_add, tsq_remove and tsq_count lose, duplicate and reorder   *)
(* nothing, for every number of threads and every size.                    *)
THEOREM Refinement == Spec => FifoSpec
<1>1. Init => Fifo!Init
  <2> SUFFICES ASSUME Init PROVE Fifo!Init
    OBVIOUS
  <2>1. Contents(q) = <<>> /\ Pending = {}
    BY CreateIsEmpty DEF Init, Pending
  <2> QED
    BY <2>1 DEF Init, Fifo!Init
<1> QED
  BY <1>1, StepSimulation, Invariance, PTL DEF Spec, FifoSpec, Fifo!Spec
=============================================================================
