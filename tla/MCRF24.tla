------------------------------- MODULE MCRF24 -------------------------------
(***************************************************************************)
(* TLC instances of RF24: the API functions that the application of a run  *)
(* calls, in any order.                                                    *)
(***************************************************************************)
EXTENDS RF24

AllFaults == {"spi", "gpio", "malloc", "width"}

(* The calls of pingtest.c after its set-up, and rf24_write.               *)
EchoCalls == {"startListening", "recv", "send", "write"}

(* Everything but sending.                                                 *)
ReceiverCalls == API \ {"send", "write", "recv"}
=============================================================================
