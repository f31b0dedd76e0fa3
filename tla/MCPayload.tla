----------------------------- MODULE MCPayload -----------------------------
(***************************************************************************)
(* TLC instances of Payload: addresses of two bytes, payloads of five, and *)
(* a uint8_t that counts to seven, so that lengths wrap around soon.       *)
(***************************************************************************)
EXTENDS Payload

(* Less than an address, the longest message of rf24_send and one more.     *)
MCLengths == {1, 3, 4}
(* Less than an address, and more than a payload can carry.                *)
MCSizes == {1, 7}
MCGarbage == {0, 7}
=============================================================================
