------------------------------- MODULE Queue -------------------------------
(***************************************************************************)
(* The ring buffer of queue.c.  A Queue is a C struct that its callers     *)
(* pass around by pointer, so it is modelled as a record with the fields   *)
(* of the struct, and each function as the operator that maps the struct   *)
(* before the call to the struct after it; what a call returns is the      *)
(* operator of the same name with the suffix Returns.                      *)
(*                                                                         *)
(* The void* elements are members of Element.  A caller may enqueue the    *)
(* null pointer (NULL \in Element is allowed), which q_remove then returns *)
(* as it does for an empty queue.                                          *)
(***************************************************************************)
EXTENDS Naturals, Sequences

CONSTANTS
  Element,  \* the pointers that are enqueued
  NULL,     \* the null pointer
  Size      \* the argument of q_create

ASSUME QueueAssumption == Size \in Nat \ {0}

Slots == 0 .. Size - 1

(* What q_create may return: NULL when malloc has no memory for the struct  *)
(* or for its array, and otherwise an empty ring whose array holds what the *)
(* memory held, any array over Element.                                    *)
q_create ==
  {NULL} \cup [size : {Size}, count : {0}, elements : [Slots -> Element],
               in : {0}, out : {0}]

q_count(q) == q.count
q_size(q)  == q.size

(* Wrong: the index of the next free slot does not wrap around. *)
q_addUnwrapped(q, element) ==
  IF q_count(q) = q_size(q)
  THEN q
  ELSE [q EXCEPT !.elements[q.in] = element,
                 !.in             = q.in + 1,
                 !.count          = q.count + 1]

q_add(q, element) ==
  IF q_count(q) = q_size(q)
  THEN q
  ELSE [q EXCEPT !.elements[q.in] = element,
                 !.in             = (q.in + 1) % q.size,
                 !.count          = q.count + 1]

q_addReturns(q) == IF q_count(q) = q_size(q) THEN 0 ELSE 1

(* Wrong: the index of the oldest element stays. *)
q_removeInPlace(q) ==
  IF q_count(q) = 0 THEN q ELSE [q EXCEPT !.count = q.count - 1]

q_remove(q) ==
  IF q_count(q) = 0
  THEN q
  ELSE [q EXCEPT !.out   = (q.out + 1) % q.size,
                 !.count = q.count - 1]

q_removeReturns(q) == IF q_count(q) = 0 THEN NULL ELSE q.elements[q.out]

-----------------------------------------------------------------------------

(* The sequence a ring stands for: count elements, the oldest at out.      *)
Contents(q) == [i \in 1 .. q.count |-> q.elements[(q.out + i - 1) % q.size]]

(* What every function keeps of the struct: the indices lie in the array    *)
(* and the next free slot is count slots after the oldest element.         *)
Ring ==
  {q \in [size : {Size}, count : 0 .. Size, elements : [Slots -> Element],
          in : Slots, out : Slots] :
     q.in = (q.out + q.count) % q.size}
=============================================================================
