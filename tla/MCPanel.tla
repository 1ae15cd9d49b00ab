-------------------------------- MODULE MCPanel --------------------------------
(***************************************************************************)
(* Two services, two snapshots, three lines of log and two domains.        *)
(***************************************************************************)
EXTENDS Panel
===============================================================================
