------------------------------ MODULE MCUplink ------------------------------
(***************************************************************************)
(* Uplink on small instances: blocks of 2 or 3 bytes and pouches of a few  *)
(* bytes, so that writes end inside, at and across the end of a block.     *)
(***************************************************************************)
EXTENDS Uplink
=============================================================================
