---------------------------- MODULE MCScheduling ----------------------------
(* Scheduling on a small instance.                                         *)
EXTENDS Scheduling

(* Two builds of different days.                                           *)
TwoDays == <<1, 2>>
=============================================================================
