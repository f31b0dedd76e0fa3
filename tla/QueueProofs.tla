---------------------------- MODULE QueueProofs ----------------------------
(***************************************************************************)
(* The ring buffer of queue.c is a bounded FIFO: what q_add and q_remove   *)
(* do to a ring is what Append and Tail do to the sequence it stands for,  *)
(* for every size and every set of elements.                               *)
(***************************************************************************)
EXTENDS Queue, Integers, SequenceTheorems, TLAPS

(* The index x, at most once around the array. *)
Wrap(x) == IF x < Size THEN x ELSE x - Size

(* The remainder the code computes of an index, without division. *)
LEMMA WrapAround ==
  ASSUME NEW x \in 0 .. 2 * Size - 1
  PROVE  x % Size = Wrap(x)
<1>1. CASE x < Size
  BY <1>1, QueueAssumption DEF Wrap
<1>2. CASE x >= Size
  BY <1>2, QueueAssumption DEF Wrap
<1> QED
  BY <1>1, <1>2, QueueAssumption

(* Steps around the array, from slot x: one step after k and k after one    *)
(* are k + 1 steps, and fewer than Size steps do not lead back.            *)
LEMMA WrapInSlots ==
  ASSUME NEW x \in 0 .. 2 * Size - 1
  PROVE  Wrap(x) \in Slots
BY QueueAssumption DEF Wrap, Slots

LEMMA WrapSteps ==
  ASSUME NEW x \in Slots, NEW k \in 0 .. Size - 1
  PROVE  /\ Wrap(Wrap(x + k) + 1) = Wrap(x + (k + 1))
         /\ Wrap(Wrap(x + 1) + k) = Wrap(x + (k + 1))
         /\ \A j \in 0 .. k - 1 : Wrap(x + j) # Wrap(x + k)
<1>1. Size \in Nat /\ x \in Int /\ k \in Int /\ 0 <= x /\ x < Size /\ 0 <= k /\ k < Size
  BY QueueAssumption DEF Slots
<1>2. Wrap(Wrap(x + k) + 1) = Wrap(x + (k + 1))
  BY <1>1 DEF Wrap
<1>3. Wrap(Wrap(x + 1) + k) = Wrap(x + (k + 1))
  BY <1>1 DEF Wrap
<1>4. \A j \in 0 .. k - 1 : Wrap(x + j) # Wrap(x + k)
  BY <1>1 DEF Wrap
<1> QED
  BY <1>2, <1>3, <1>4

(* The fields of a ring. *)
LEMMA RingFields ==
  ASSUME NEW q \in Ring
  PROVE  /\ q.size = Size /\ q.count \in 0 .. Size /\ q.in \in Slots
         /\ q.out \in Slots /\ q.elements \in [Slots -> Element]
         /\ q.in = Wrap(q.out + q.count)
<1>1. /\ q.size = Size /\ q.count \in 0 .. Size /\ q.in \in Slots
      /\ q.out \in Slots /\ q.elements \in [Slots -> Element]
      /\ q.in = (q.out + q.count) % q.size
  BY DEF Ring
<1>2. q.out + q.count \in 0 .. 2 * Size - 1
  BY <1>1, QueueAssumption DEF Slots
<1> QED
  BY <1>1, <1>2, WrapAround

(* A struct with these fields is a ring. *)
LEMMA RingFromFields ==
  ASSUME NEW count \in 0 .. Size, NEW elements \in [Slots -> Element],
         NEW in \in Slots, NEW out \in Slots, in = Wrap(out + count),
         NEW r, r = [size |-> Size, count |-> count, elements |-> elements,
                     in |-> in, out |-> out]
  PROVE  r \in Ring
<1>1. out + count \in 0 .. 2 * Size - 1
  BY QueueAssumption DEF Slots
<1>2. in = (out + count) % Size
  BY <1>1, WrapAround
<1> QED
  BY <1>2 DEF Ring

(* The contents of a ring are a sequence of count elements. *)
LEMMA ContentsOfRing ==
  ASSUME NEW q \in Ring
  PROVE  /\ Contents(q) \in Seq(Element)
         /\ Len(Contents(q)) = q.count
         /\ \A i \in 1 .. q.count :
              Contents(q)[i] = q.elements[Wrap(q.out + i - 1)]
<1>1. /\ q.size = Size /\ q.count \in 0 .. Size /\ q.out \in Slots
      /\ q.elements \in [Slots -> Element]
  BY RingFields
<1>2. ASSUME NEW i \in 1 .. q.count
      PROVE  /\ (q.out + i - 1) % q.size = Wrap(q.out + i - 1)
             /\ Wrap(q.out + i - 1) \in Slots
  <2>1. q.out + i - 1 \in 0 .. 2 * Size - 1
    BY <1>1, QueueAssumption DEF Slots
  <2>2. (q.out + i - 1) % q.size = Wrap(q.out + i - 1)
    BY <1>1, <2>1, WrapAround
  <2> QED
    BY <2>1, <2>2, WrapInSlots
<1>3. Contents(q) = [i \in 1 .. q.count |-> q.elements[Wrap(q.out + i - 1)]]
  BY <1>2 DEF Contents
<1>4. \A i \in 1 .. q.count : q.elements[Wrap(q.out + i - 1)] \in Element
  BY <1>1, <1>2
<1>5. q.count \in Nat
  BY <1>1, QueueAssumption
<1> QED
  BY <1>3, <1>4, <1>5

-----------------------------------------------------------------------------

(* A new queue is an empty ring, whatever malloc left in its array.        *)
LEMMA CreateIsEmpty ==
  ASSUME NEW q \in q_create \ {NULL}
  PROVE  /\ q \in Ring
         /\ q.count = 0
         /\ Contents(q) = <<>>
<1>1. 0 \in Slots /\ 0 \in 0 .. Size /\ Wrap(0 + 0) = 0
  BY QueueAssumption DEF Slots, Wrap
<1>2. q \in [size : {Size}, count : {0}, elements : [Slots -> Element],
             in : {0}, out : {0}]
  BY DEF q_create
<1>3. /\ q = [size |-> Size, count |-> 0, elements |-> q.elements, in |-> 0, out |-> 0]
      /\ q.elements \in [Slots -> Element]
      /\ q.count = 0
  BY <1>2
<1>4. q \in Ring
  BY <1>1, <1>3, RingFromFields
<1> QED
  BY <1>3, <1>4, ContentsOfRing, EmptySeq

(* q_add on a queue that is not full keeps the ring and appends.  No other *)
(* element moves, although the new one may be stored in front of them.     *)
LEMMA AddAppends ==
  ASSUME NEW q \in Ring, NEW element \in Element, q.count # Size
  PROVE  /\ q_add(q, element) \in Ring
         /\ q_add(q, element).count = q.count + 1
         /\ q_addReturns(q) = 1
         /\ Contents(q_add(q, element)) = Append(Contents(q), element)
<1> DEFINE r == q_add(q, element)
<1>1. /\ q.size = Size /\ q.count \in 0 .. Size - 1 /\ q.in \in Slots
      /\ q.out \in Slots /\ q.elements \in [Slots -> Element]
      /\ q.in = Wrap(q.out + q.count)
  BY RingFields, QueueAssumption
<1>2. (q.in + 1) % q.size = Wrap(q.in + 1)
  <2>1. q.in + 1 \in 0 .. 2 * Size - 1
    BY <1>1, QueueAssumption DEF Slots
  <2> QED
    BY <1>1, <2>1, WrapAround
<1>3. q = [size |-> q.size, count |-> q.count, elements |-> q.elements,
           in |-> q.in, out |-> q.out]
  BY DEF Ring
<1>4. r = [size |-> Size, count |-> q.count + 1,
           elements |-> [q.elements EXCEPT ![q.in] = element],
           in |-> Wrap(q.in + 1), out |-> q.out]
  <2>1. r = [q EXCEPT !.elements[q.in] = element,
                      !.in = Wrap(q.in + 1), !.count = q.count + 1]
    BY <1>1, <1>2 DEF q_add, q_count, q_size
  <2> QED
    BY <1>1, <1>3, <2>1
<1> HIDE DEF r
<1>5. /\ r.count = q.count + 1 /\ r.out = q.out
      /\ r.elements = [q.elements EXCEPT ![q.in] = element]
  BY <1>4
<1>6. r \in Ring
  <2>1. q.count + 1 \in 0 .. Size
    BY <1>1, QueueAssumption
  <2>2. Wrap(q.in + 1) \in Slots /\ Wrap(q.in + 1) = Wrap(q.out + (q.count + 1))
    <3>1. q.in + 1 \in 0 .. 2 * Size - 1 /\ q.count \in 0 .. Size - 1
      BY <1>1, QueueAssumption DEF Slots
    <3> QED
      BY <1>1, <3>1, WrapInSlots, WrapSteps
  <2> QED
    BY <1>1, <1>4, <2>1, <2>2, RingFromFields
<1>7. ASSUME NEW i \in 1 .. q.count
      PROVE  Contents(r)[i] = Contents(q)[i]
  <2>1. Wrap(q.out + i - 1) # q.in /\ Wrap(q.out + i - 1) \in Slots
    BY <1>1, QueueAssumption DEF Slots, Wrap
  <2> i \in 1 .. r.count
    BY <1>1, <1>5, QueueAssumption
  <2>2. Contents(r)[i] = r.elements[Wrap(q.out + i - 1)]
    BY <1>1, <1>5, <1>6, ContentsOfRing
  <2> QED
    BY <1>1, <1>5, <2>1, <2>2, ContentsOfRing
<1>8. Contents(r)[q.count + 1] = element
  <2>1. q.count + 1 \in 1 .. r.count /\ q.out + (q.count + 1) - 1 = q.out + q.count
    BY <1>1, <1>5, QueueAssumption DEF Slots
  <2>2. Contents(r)[q.count + 1] = r.elements[q.in]
    BY <1>1, <1>5, <1>6, <2>1, ContentsOfRing
  <2> QED
    BY <1>1, <1>5, <2>2
<1>9. /\ Contents(r) \in Seq(Element) /\ Len(Contents(r)) = q.count + 1
      /\ Contents(q) \in Seq(Element) /\ Len(Contents(q)) = q.count
  BY <1>5, <1>6, ContentsOfRing
<1>10. Contents(r) = Append(Contents(q), element)
  BY <1>1, <1>7, <1>8, <1>9, AppendProperties, SeqEqual
<1>11. q_addReturns(q) = 1
  BY <1>1, QueueAssumption DEF q_addReturns, q_count, q_size
<1> QED
  BY <1>5, <1>6, <1>10, <1>11 DEF r

(* q_remove on a queue that is not empty keeps the ring, returns the oldest *)
(* element and removes it and no other.                                    *)
LEMMA RemoveTakesHead ==
  ASSUME NEW q \in Ring, q.count # 0
  PROVE  /\ q_remove(q) \in Ring
         /\ q_remove(q).count = q.count - 1
         /\ Contents(q) # <<>>
         /\ Contents(q_remove(q)) = Tail(Contents(q))
         /\ q_removeReturns(q) = Head(Contents(q))
         /\ q_removeReturns(q) \in Element
<1> DEFINE r == q_remove(q)
<1>1. /\ q.size = Size /\ q.count \in 1 .. Size /\ q.in \in Slots
      /\ q.out \in Slots /\ q.elements \in [Slots -> Element]
      /\ q.in = Wrap(q.out + q.count)
  BY RingFields, QueueAssumption
<1>2. (q.out + 1) % q.size = Wrap(q.out + 1)
  <2>1. q.out + 1 \in 0 .. 2 * Size - 1
    BY <1>1, QueueAssumption DEF Slots
  <2> QED
    BY <1>1, <2>1, WrapAround
<1>3. q = [size |-> q.size, count |-> q.count, elements |-> q.elements,
           in |-> q.in, out |-> q.out]
  BY DEF Ring
<1>4. r = [size |-> Size, count |-> q.count - 1, elements |-> q.elements,
           in |-> q.in, out |-> Wrap(q.out + 1)]
  <2>1. r = [q EXCEPT !.out = Wrap(q.out + 1), !.count = q.count - 1]
    BY <1>1, <1>2 DEF q_remove, q_count
  <2> QED
    BY <1>1, <1>3, <2>1
<1> HIDE DEF r
<1>5. /\ r.count = q.count - 1 /\ r.out = Wrap(q.out + 1)
      /\ r.elements = q.elements
  BY <1>4
<1>6. r \in Ring
  <2>1. q.count - 1 \in 0 .. Size
    BY <1>1, QueueAssumption
  <2>2. Wrap(q.out + 1) \in Slots /\ q.in = Wrap(Wrap(q.out + 1) + (q.count - 1))
    <3>1. /\ q.out + 1 \in 0 .. 2 * Size - 1 /\ q.count - 1 \in 0 .. Size - 1
          /\ (q.count - 1) + 1 = q.count
      BY <1>1, QueueAssumption DEF Slots
    <3> QED
      BY <1>1, <3>1, WrapInSlots, WrapSteps
  <2> QED
    BY <1>1, <1>4, <2>1, <2>2, RingFromFields
<1>7. ASSUME NEW i \in 1 .. q.count - 1
      PROVE  Contents(r)[i] = Contents(q)[i + 1]
  <2>1. /\ i \in 1 .. r.count /\ i + 1 \in 1 .. q.count
        /\ Wrap(Wrap(q.out + 1) + i - 1) = Wrap(q.out + (i + 1) - 1)
    <3>1. i \in 1 .. r.count /\ i + 1 \in 1 .. q.count /\ i - 1 \in 0 .. Size - 1
      BY <1>1, <1>5, QueueAssumption
    <3>2. Wrap(Wrap(q.out + 1) + (i - 1)) = Wrap(q.out + ((i - 1) + 1))
      BY <1>1, <3>1, WrapSteps
    <3>3. /\ Wrap(q.out + 1) + i - 1 = Wrap(q.out + 1) + (i - 1)
          /\ q.out + (i + 1) - 1 = q.out + ((i - 1) + 1)
      BY <1>1, <3>1, QueueAssumption DEF Slots, Wrap
    <3> QED
      BY <3>1, <3>2, <3>3
  <2>2. Contents(r)[i] = r.elements[Wrap(Wrap(q.out + 1) + i - 1)]
    BY <1>5, <1>6, <2>1, ContentsOfRing
  <2> QED
    BY <1>5, <2>1, <2>2, ContentsOfRing
<1>8. /\ Contents(r) \in Seq(Element) /\ Len(Contents(r)) = q.count - 1
      /\ Contents(q) \in Seq(Element) /\ Len(Contents(q)) = q.count
  BY <1>5, <1>6, ContentsOfRing
<1>9. Contents(q) # <<>>
  BY <1>1, <1>8, EmptySeq
<1>10. Contents(r) = Tail(Contents(q))
  <2>1. /\ Tail(Contents(q)) \in Seq(Element)
        /\ Len(Tail(Contents(q))) = q.count - 1
        /\ \A i \in 1 .. q.count - 1 : Tail(Contents(q))[i] = Contents(q)[i + 1]
    BY <1>1, <1>8, <1>9, HeadTailProperties
  <2> QED
    BY <1>7, <1>8, <2>1, SeqEqual
<1>11. q_removeReturns(q) = Head(Contents(q))
  <2>1. q.out + 1 - 1 = q.out /\ Wrap(q.out) = q.out /\ 1 \in 1 .. q.count
    BY <1>1, QueueAssumption DEF Slots, Wrap
  <2>2. Contents(q)[1] = q.elements[q.out]
    BY <2>1, ContentsOfRing
  <2> QED
    BY <1>1, <1>8, <1>9, <2>2 DEF q_removeReturns, q_count
<1>12. q_removeReturns(q) \in Element
  BY <1>8, <1>9, <1>11, HeadTailProperties
<1> QED
  BY <1>5, <1>6, <1>9, <1>10, <1>11, <1>12 DEF r
=============================================================================
