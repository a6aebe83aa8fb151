----------------------------- MODULE MCGateway -----------------------------
(***************************************************************************)
(* Gateway with two nodes, at most two windows that a press of the button  *)
(* opens, and one fatal error; all builds of both applications, or those   *)
(* of the sample.                                                          *)
(***************************************************************************)
EXTENDS Gateway

MCConfigs     == Config
SampleConfigs == {c \in Config : c.app = "custom_connect"}
=============================================================================
