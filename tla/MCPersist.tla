------------------------------ MODULE MCPersist ------------------------------
(* Two fields: g is closed to the applicant, f to the checker; a value tells *)
(* who sent it.                                                              *)
EXTENDS Persist

MCFields == {"f", "g"}
MCMayEdit == [t \in {"apply", "check"} |-> IF t = "apply" THEN {"f"} ELSE {"g"}]
Form(f, g) == [x \in {"f", "g"} |-> IF x = "f" THEN f ELSE g]
MCInitialCall == [kind |-> "start", form |-> Form(1, Absent)]
Call(kind, task, form, type) == [kind |-> kind, task |-> task, form |-> form, submitType |-> type]
MCCalls ==
    {MCInitialCall,
     Call("submit", "apply", Form(2, 3), "apply"), Call("submit", "check", Form(4, 5), "agree"),
     Call("submit", "check", Form(4, Absent), "reject"), Call("submit", "check", Form(Absent, 5), "disagree"),
     Call("reject", "check", Form(4, Absent), "reject"), Call("return", "check", Form(Absent, 5), "return")}
MCSetups ==
    {[mode |-> "SYNC", wired |-> TRUE, gate |-> g] : g \in BOOLEAN}
    \cup {[mode |-> "SYNC", wired |-> FALSE, gate |-> FALSE]}
    \cup {[mode |-> "ARCHIVE", wired |-> w, gate |-> TRUE] : w \in BOOLEAN}
=============================================================================
