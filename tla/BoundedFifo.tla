---------------------------- MODULE BoundedFifo ----------------------------
(***************************************************************************)
(* What a bounded first-in-first-out queue shared by several threads       *)
(* promises, whatever its implementation: a call takes effect at one       *)
(* moment between its invocation and its return, and what enters is what   *)
(* that call was given.  An element is refused only when Size elements are *)
(* in the queue, elements leave in the order they entered, each to one     *)
(* caller, and NULL is what a caller gets from an empty queue; a call that *)
(* may block is neither refused nor answered from an empty queue.          *)
(***************************************************************************)
EXTENDS Naturals, Sequences

CONSTANTS Threads, Calls, NULL, Size

VARIABLES
  fifo,     \* the elements in the queue, the oldest first
  pending,  \* the threads whose call has not returned
  call,     \* per thread, the call it makes or made last, or NULL
  ret       \* per thread, what its latest call returned

Invoke(t) ==
  /\ t \notin pending
  /\ pending' = pending \cup {t}
  /\ \E c \in Calls[t] : call' = [call EXCEPT ![t] = c]
  /\ UNCHANGED <<fifo, ret>>

Called(t, op) == t \in pending /\ call[t].op = op

Return(t, value) ==
  /\ ret' = [ret EXCEPT ![t] = value]
  /\ pending' = pending \ {t}
  /\ UNCHANGED call

Add(t) ==
  /\ Called(t, "add")
  /\ Len(fifo) < Size
  /\ fifo' = Append(fifo, call[t].element)
  /\ Return(t, 1)

AddRefused(t) ==
  /\ Called(t, "add")
  /\ ~call[t].blocking
  /\ Len(fifo) = Size
  /\ Return(t, 0)
  /\ UNCHANGED fifo

Remove(t) ==
  /\ Called(t, "remove")
  /\ fifo # <<>>
  /\ fifo' = Tail(fifo)
  /\ Return(t, Head(fifo))

RemoveEmpty(t) ==
  /\ Called(t, "remove")
  /\ ~call[t].blocking
  /\ fifo = <<>>
  /\ Return(t, NULL)
  /\ UNCHANGED fifo

Count(t) ==
  /\ Called(t, "count")
  /\ Return(t, Len(fifo))
  /\ UNCHANGED fifo

Init ==
  /\ fifo = <<>>
  /\ pending = {}
  /\ call = [t \in Threads |-> NULL]
  /\ ret = [t \in Threads |-> NULL]

Next ==
  \E t \in Threads :
    Invoke(t) \/ Add(t) \/ AddRefused(t) \/ Remove(t) \/ RemoveEmpty(t) \/ Count(t)

Spec == Init /\ [][Next]_<<fifo, pending, call, ret>>
=============================================================================
