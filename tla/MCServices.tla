----------------------------- MODULE MCServices -----------------------------
(***************************************************************************)
(* TLC instances of Services: an application, an interrupt thread and the  *)
(* monitor, and a clock that reaches both ends of a long soon.             *)
(***************************************************************************)
EXTENDS Services

MCUsers == {"app", "isr"}
(* Just before the clock stands still, and two waits before it wraps around. *)
MCStarts == {<<1, 3>>}
MCValues == {"0x07", "0x0e"}
=============================================================================
