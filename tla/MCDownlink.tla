----------------------------- MODULE MCDownlink -----------------------------
(***************************************************************************)
(* Downlink on small instances: a packet is larger than some blocks and    *)
(* smaller than others, the pool can run empty and the window can be full. *)
(***************************************************************************)
EXTENDS Downlink
=============================================================================
