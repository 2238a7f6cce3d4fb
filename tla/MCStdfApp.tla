------------------------------- MODULE MCStdfApp -------------------------------
(* Instances of StdfApp for TLC. *)
EXTENDS StdfApp

(* For this ear, for both with one bad check byte, for the other ear, and   *)
(* one whose command is in no table                                         *)
MCFrames == {[cmd |-> "open", side |-> "left", fcs |-> 2],
             [cmd |-> "close", side |-> "both", fcs |-> 1],
             [cmd |-> "open", side |-> "right", fcs |-> 2],
             [cmd |-> "unknown", side |-> "left", fcs |-> 2]}
===============================================================================
