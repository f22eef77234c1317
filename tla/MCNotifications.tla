-------------------------- MODULE MCNotifications --------------------------
(***************************************************************************)
(* Instances of Notifications for TLC.  The two notifications share no     *)
(* field, so a queue that mixes two of them up holds an entry that is not  *)
(* in Message.                                                             *)
(***************************************************************************)
EXTENDS Notifications

CONSTANTS worker, other, f, g, s0, s1

MCWorkers == {worker}
MCTwoWorkers == {worker, other}
MCHandlers == {f, g}
MCMessage ==
  { [session |-> s0, type |-> "deploy", value |-> "start"],
    [session |-> s1, type |-> "option", value |-> "ascii_mode"] }
MCQuiet == {"set"}
=============================================================================
