------------------------------- MODULE MCStore -------------------------------
(* Commands without faults, commands that may die, commands whose writes   *)
(* may fail.  "create" is left out where processes die: its own window is  *)
(* the truncation of the old ledger.                                       *)
EXTENDS UltragoalStore

MCSettings ==
  {[kinds |-> {"create", "add", "steer", "start"}, faults |-> {}, legacy |-> TRUE],
   [kinds |-> {"add", "steer", "start"}, faults |-> {"crash"}, legacy |-> TRUE],
   [kinds |-> Kind, faults |-> {"failure"}, legacy |-> FALSE]}
MCRetry == {[kinds |-> {"steer"}, faults |-> {"failure"}, legacy |-> TRUE]}
=============================================================================
