----------------------------- MODULE MCExecutor -----------------------------
(***************************************************************************)
(* A small instance of the executor: commands and catalog scans beside     *)
(* host lighting, with a queue that they and a start overflow.             *)
(***************************************************************************)
EXTENDS ExecutorSafety

Requests == {"Command", "Catalog", "Host"}
=============================================================================
