------------------------------ MODULE BytePipe ------------------------------
(***************************************************************************)
(* What one direction of a synchronisation promises: the bytes put in at   *)
(* one end come out at the other in order and once, because what is out is *)
(* always a prefix (its length, got) of what went in (put); the pipe is    *)
(* done only when it was closed and everything is out, and it may give up. *)
(* A pipe can be cut: it lost the end of the last bytes put into it.  It   *)
(* takes no more, the lost end never comes out, and it ends short, which   *)
(* its reader is not told.                                                 *)
(***************************************************************************)
EXTENDS Integers

VARIABLES put, got, mode

pipe == <<put, got, mode>>

PipeInit == put = 0 /\ got = 0 /\ mode = "shut"

Start == mode = "shut" /\ mode' = "open" /\ UNCHANGED <<put, got>>

(* The last bytes may shut the pipe; nothing is put into it after that.    *)
(* What is still put into a pipe that gave up goes nowhere.                *)
Put == /\ put' \in Nat /\ put' > put
       /\ \/ mode = "open" /\ mode' \in {"open", "closed"}
          \/ mode = "failed" /\ mode' = "failed"
       /\ UNCHANGED got

(* The end of what is put in is lost.                                      *)
Cut == /\ mode = "open" /\ mode' = "cut"
       /\ put' \in Nat /\ put' > put
       /\ UNCHANGED got

Get == /\ mode \in {"open", "closed"}
       /\ got' \in got + 1 .. put
       /\ UNCHANGED <<put, mode>>

GetCut == /\ mode = "cut"
          /\ got' \in got + 1 .. put - 1
          /\ UNCHANGED <<put, mode>>

Shut == mode = "open" /\ mode' = "closed" /\ UNCHANGED <<put, got>>

Finish == /\ mode = "closed" /\ got = put
          /\ mode' = "done"
          /\ UNCHANGED <<put, got>>

FinishShort == /\ mode = "cut" /\ got < put
               /\ mode' = "short"
               /\ UNCHANGED <<put, got>>

GiveUp == /\ mode \in {"shut", "open", "closed", "cut"}
          /\ mode' = "failed"
          /\ UNCHANGED <<put, got>>

PipeNext == \/ Start \/ Put \/ Get \/ Shut \/ Finish \/ GiveUp
            \/ Cut \/ GetCut \/ FinishShort

PipeSpec == PipeInit /\ [][PipeNext]_pipe
=============================================================================
