\* Five threads that add and remove and block in both, on a ring of three slots.
CONSTANTS
  isr = isr
  app1 = app1
  app2 = app2
  app3 = app3
  t1 = t1
  t2 = t2
  t3 = t3
  t4 = t4
  t5 = t5
  NULL = NULL
  Element = {e1}
  Size = 3
  Threads <- BlockingThreads
  Calls <- BlockingCalls
SYMMETRY BlockingSymmetry
SPECIFICATION Spec
INVARIANT NoForgottenWaiter
