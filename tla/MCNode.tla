------------------------------- MODULE MCNode -------------------------------
(***************************************************************************)
(* Node with six kinds of nodes.  Three have another service with a CCC in *)
(* front of the pouch service: one with every characteristic, one without  *)
(* certificates, one with certificates but no info and an uplink without a *)
(* CCC.  One has the 128-bit UUID, another order, an unknown               *)
(* characteristic and a downlink without a CCC.  One has no uplink, and    *)
(* one no pouch service.                                                   *)
(***************************************************************************)
EXTENDS Node

Pair(a) == <<a, "ccc">>

MCTables == {
  [uuid |-> "svc16", first |-> 3,
   handles |-> <<"other", "ccc">> \o Pair("info") \o Pair("downlink")
      \o Pair("uplink") \o Pair("server_cert") \o Pair("device_cert")],
  [uuid |-> "svc128", first |-> 1,
   handles |-> Pair("device_cert") \o Pair("server_cert") \o <<"downlink">>
      \o <<"other">> \o Pair("uplink") \o Pair("info")],
  [uuid |-> "svc16", first |-> 3,
   handles |-> <<"other", "ccc">> \o Pair("uplink") \o Pair("downlink")],
  [uuid |-> "svc16", first |-> 1, handles |-> Pair("downlink") \o Pair("info")],
  [uuid |-> "svc16", first |-> 3,
   handles |-> <<"other", "ccc">> \o Pair("downlink") \o <<"uplink">>
      \o Pair("server_cert") \o Pair("device_cert")],
  [uuid |-> "none", first |-> 3, handles |-> <<"other", "ccc">>]}

(* Discovery is right about these tables, as NodeProofs asks of them.      *)
ASSUME PlainTables == \A t \in MCTables : Plain(t)
=============================================================================
