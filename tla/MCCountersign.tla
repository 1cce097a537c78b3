---------------------------- MODULE MCCountersign ----------------------------
(***************************************************************************)
(* Every kind of countersign in a line of nodes without branches:          *)
(*   start -> apply -> all -> turns -> veto -> half -> odd -> end           *)
(* "all" PARALLEL, "turns" SEQUENTIAL, "veto" PARALLEL with ONE_VOTE_VETO,  *)
(* "half" with the expression "half of them have completed", "odd" with a  *)
(* countersignType the engine does not know.                               *)
(***************************************************************************)
EXTENDS FlowShape

MCSucc ==
  [start |-> <<"apply">>, apply |-> <<"all">>, all |-> <<"turns">>, turns |-> <<"veto">>,
   veto |-> <<"half">>, half |-> <<"odd">>, odd |-> <<"end">>, end |-> <<>>]
MCNode == DOMAIN MCSucc
MCKind == [n \in MCNode |-> IF n \in {"start", "end"} THEN n ELSE "task"]
MCConditional == [n \in MCNode |-> {}]
MCCountersign ==
  [n \in MCNode |-> CASE n \in {"all", "veto"} -> "parallel" [] n = "turns" -> "sequential"
                      [] n = "half" -> "expression" [] n = "odd" -> "unknown"
                      [] OTHER -> "none"]
MCMembers == [n \in MCNode |-> IF n = "odd" THEN 0 ELSE 2]
MCCsExpr(all, active, completed) == 2 * completed >= all

\* What the theorems suppose of the flow and of its use.
ASSUME FlowChecked == WellNested /\ Disciplined /\ PlainFirst /\ VotedThrough
=============================================================================
