------------------------------ MODULE MCDashboard ------------------------------
(***************************************************************************)
(* Charts of two points and a history of four, so that a full history is   *)
(* thinned; the server's period is the default or another one.             *)
(***************************************************************************)
EXTENDS Dashboard
===============================================================================
