------------------------------ MODULE MCNested ------------------------------
(***************************************************************************)
(* Nested branches with return and reapply, the shape of the test flow     *)
(* test_nested_fork_branch_ctx_persists_across_requests:                   *)
(*   start -> apply -> F1 -> (B | F2 -> (X | Y) -> J2 -> E) -> J1 -> C -> end *)
(***************************************************************************)
EXTENDS FlowShape

MCSucc ==
  [start |-> <<"apply">>, apply |-> <<"F1">>, F1 |-> <<"B", "F2">>, B |-> <<"J1">>,
   F2 |-> <<"X", "Y">>, X |-> <<"J2">>, Y |-> <<"J2">>, J2 |-> <<"E">>, E |-> <<"J1">>,
   J1 |-> <<"C">>, C |-> <<"end">>, end |-> <<>>]
MCNode == DOMAIN MCSucc
MCKind ==
  [n \in MCNode |-> CASE n = "start" -> "start" [] n = "end" -> "end"
                      [] n \in {"F1", "F2"} -> "fork" [] n \in {"J1", "J2"} -> "join"
                      [] OTHER -> "task"]
MCConditional == [n \in MCNode |-> {}]
\* C is a countersign that resolves to nobody.
MCCountersign == [n \in MCNode |-> IF n = "C" THEN "parallel" ELSE "none"]
MCMembers == [n \in MCNode |-> IF n = "C" THEN 0 ELSE 1]
MCCsExpr(all, active, completed) == TRUE

\* What the theorems suppose of the flow and of its use.
ASSUME FlowChecked == WellNested /\ Disciplined /\ SingleRows /\ ThroughJoin /\ LeadsOn /\ OnTheWay
=============================================================================
