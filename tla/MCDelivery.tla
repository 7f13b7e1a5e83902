----------------------------- MODULE MCDelivery -----------------------------
(***************************************************************************)
(* Delivery with one request at a time, for TLC.  No symmetry: liveness.   *)
(***************************************************************************)
EXTENDS Delivery, MCBilling
=============================================================================
