---------------------------- MODULE MCServerCert ----------------------------
(***************************************************************************)
(* ServerCert with certificates, and serials, that get longer and then     *)
(* shorter, so that an update moves the end of the one that is being sent  *)
(* both ways.                                                              *)
(***************************************************************************)
EXTENDS ServerCert

MCCertLen == [v \in 1 .. Certs |-> IF v = 2 THEN 3 ELSE 2]
MCSerialLen == [v \in 1 .. Certs |-> IF v = 2 THEN 2 ELSE 1]
=============================================================================
