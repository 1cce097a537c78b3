------------------------------- MODULE MCFork -------------------------------
(***************************************************************************)
(* One fork: start -> apply -> review -> F -> (A | B) -> J -> C -> end.     *)
(* The configurations choose which of its nodes are sequential              *)
(* countersigns of two members, and which switches are on.                 *)
(***************************************************************************)
EXTENDS Engine

CONSTANT Turns

MCSucc ==
  [start |-> <<"apply">>, apply |-> <<"review">>, review |-> <<"F">>, F |-> <<"A", "B">>,
   A |-> <<"J">>, B |-> <<"J">>, J |-> <<"C">>, C |-> <<"end">>, end |-> <<>>]
MCNode == DOMAIN MCSucc
MCKind ==
  [n \in MCNode |-> CASE n \in {"start", "end"} -> n [] n = "F" -> "fork" [] n = "J" -> "join" [] OTHER -> "task"]
MCConditional == [n \in MCNode |-> {}]
MCCountersign == [n \in MCNode |-> IF n \in Turns THEN "sequential" ELSE "none"]
MCMembers == [n \in MCNode |-> IF n \in Turns THEN 2 ELSE 1]
MCCsExpr(all, active, completed) == TRUE

\* The flow has no ties.
ASSUME FlowChecked == OneForkPerJoin
=============================================================================
