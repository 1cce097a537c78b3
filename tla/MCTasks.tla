------------------------------- MODULE MCTasks -------------------------------
(***************************************************************************)
(* One token, every other kind of node:                                    *)
(*   start -> apply -> sign -> route -+--------------> done -> end          *)
(*                                    +-> log -> check -+                   *)
(*                                                 +-> sub                 *)
(* "sign" is open to add-sign, "route" is a decision with a default edge    *)
(* and "check" one without, "log" a record node, "sub" a node of a type     *)
(* the engine does nothing for.                                            *)
(***************************************************************************)
EXTENDS FlowShape

MCSucc ==
  [start |-> <<"apply">>, apply |-> <<"sign">>, sign |-> <<"route">>,
   route |-> <<"log", "done">>, log |-> <<"check">>, check |-> <<"done", "sub">>,
   done |-> <<"end">>, sub |-> <<"done">>, end |-> <<>>]
MCNode == DOMAIN MCSucc
MCKind ==
  [n \in MCNode |-> CASE n \in {"start", "end"} -> n [] n \in {"route", "check"} -> "decision"
                      [] n = "log" -> "custom" [] n = "sub" -> "other" [] OTHER -> "task"]
MCConditional ==
  [n \in MCNode |-> CASE n = "route" -> {1} [] n = "check" -> {1, 2} [] OTHER -> {}]
MCCountersign == [n \in MCNode |-> "none"]
MCMembers == [n \in MCNode |-> 1]
MCCsExpr(all, active, completed) == TRUE

\* What the theorems suppose of the flow and of its use.
ASSUME FlowChecked == WellNested /\ Disciplined /\ RejectsAlone
=============================================================================
