-------------------------------- MODULE Reports --------------------------------
(***************************************************************************)
(* What is reported to those outside the backend: to the dashboard of the  *)
(* agents and their transactions, to sellers of their sales.               *)
(***************************************************************************)
EXTENDS Desk, Sales

(* The transactions of agents and the ends of their runs are told once      *)
(* (Desk), and what sellers read of their sales adds up (Sales).            *)
ReportsHold == ToldOnce /\ SalesAddUp
=============================================================================
