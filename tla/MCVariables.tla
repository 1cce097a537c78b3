---------------------------- MODULE MCVariables ----------------------------
(* Three people in two departments, three nodes, every way to assign them. *)
EXTENDS Variables

MCPath == <<"apply", "sign", "check">>
Assign(a, s, k) == [apply |-> a, sign |-> s, check |-> k]
MCAssigns ==
    {Assign("applicant", "field", "deptLeader"),
     Assign("operator", "applicantDeptLeader", "formField"),
     Assign("applicant", "role", "field")}

MCPeople == {"a", "b", "c"}
MCDept == [a |-> 1, b |-> 1, c |-> 2]
MCLeaders ==
    [d \in BOOLEAN \X {1, 2} |->
        IF d[2] = 2 THEN IF d[1] THEN {"c"} ELSE {} ELSE IF d[1] THEN {"b", "c"} ELSE {"b"}]
MCRoles == [n \in {"apply", "sign", "check"} |-> {"b", "c"}]
MCNames == {{}, {"c"}}
=============================================================================
