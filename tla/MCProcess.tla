------------------------------ MODULE MCProcess ------------------------------
(* Instances of Process for TLC.  Three runs let a late goroutine of one run *)
(* meet the next Start and Stop; a channel of one report makes the send      *)
(* block.                                                                    *)
EXTENDS Process
=============================================================================
