\* The interrupt thread and three application threads on a ring of two slots.
CONSTANTS
  isr = isr
  app1 = app1
  app2 = app2
  app3 = app3
  t1 = t1
  t2 = t2
  t3 = t3
  t4 = t4
  t5 = t5
  NULL = NULL
  Element = {e1, e2}
  Size = 2
  Threads <- DriverThreads
  Calls <- DriverCalls
SPECIFICATION FairSpec
INVARIANTS
  TypeOK
  BlockingCallsSucceed
  NoLostWakeup
PROPERTIES
  FifoSpec
  RemoverServed
