---------------------------- MODULE MCTaskActors ----------------------------
(* Three people, one task, and the forms a name comes in. *)
EXTENDS TaskActors

MCPeople == {"a", "b", "c"}
A == Plain("a")  B == Plain("b")  C == Plain("c")

Call(kind, operator, from, to, raw) ==
    [kind |-> kind, operator |-> operator, from |-> from, to |-> to, raw |-> raw]

Adds == {Call("add", "a", "", "", raw) : raw \in {<<Spaced("c"), C, Blank>>, <<Blank>>}}
Transfers == {Call("transfer", o, f, t, <<>>) : o \in {"a", "flow.auto"}, f \in {"a", "b"}, t \in {"b", "c"}}
Removes == {Call("remove", o, "", "", raw) : o \in {"a", "b"}, raw \in {<<A>>, <<Spaced("b")>>, <<A, C, Blank>>}}
Purges == {Call("purge", "a", "", "", raw) : raw \in {<<Spaced("c"), Blank>>, <<Blank>>}}
Completes == {Call("complete", o, "", "", <<>>) : o \in {"a", "c", "flow.admin"}}
Copies == {Call("copy", "a", "", "", raw) : raw \in {<<B, Spaced("b"), C>>, <<Blank>>, <<Spaced("c")>>}}
Reads == {Call("read", "b", "", "", <<v>>) : v \in {Spaced("b"), Blank}}

MCCalls == Adds \cup Transfers \cup Removes \cup Purges \cup Completes \cup Copies \cup Reads

MCNextOperators == {<<Blank>>, <<Spaced("b"), Blank>>}
MCResolved == {<<A, B>>, <<Spaced("b"), Blank, B, B>>}
MCOldRows == {<<Spaced("a"), B, Blank>>, <<A, Blank>>}
MCPrincipals == {A, B, Spaced("b")}

Field(p, s, from, till, on) ==
    [processName |-> p, surrogate |-> s, startTime |-> from, endTime |-> till, enabled |-> on]
MCFields ==
    {Field("p", "c", NoLimit, NoLimit, "absent"), Field("p", "c", 1, NoLimit, "1"),
     Field("p", "b", NoLimit, 0, "1"), Field("p", Nobody, NoLimit, NoLimit, "1"),
     Field("p", "a", NoLimit, NoLimit, "1"), Field("p", "c", NoLimit, NoLimit, "dirty"),
     Field(AllProcesses, "b", NoLimit, NoLimit, "1"), Field(AllProcesses, "c", NoLimit, NoLimit, "0")}
=============================================================================
