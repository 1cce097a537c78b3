---------------------------- MODULE MCDefinitions ----------------------------
(* One design, two names, three drafts; two requests at a time. *)
EXTENDS Definitions

Draft(n, b) == [name |-> n, body |-> b]
MCContents == {Draft("n", 1)}
D1 == Draft("n", 1)  D2 == Draft("n", 2)  D3 == Draft("m", 3)

Call(kind) == [kind |-> kind]
MCCalls ==
    {[kind |-> "deploy", content |-> c] : c \in {D1, D3}}
    \cup {[kind |-> "redeploy", id |-> 0, content |-> c] : c \in {D2, D3}}
    \cup {[kind |-> "redeploy", id |-> 1, content |-> D2]}
    \cup {[kind |-> "remove", ids |-> s] : s \in {{0}, {0, 1}}}
    \cup {[kind |-> "upAndDown", ids |-> {0, 1}, state |-> 0]}
    \cup {[kind |-> "start", id |-> i] : i \in {0, 1}}
    \cup {[kind |-> "saveNew", content |-> D1]}
    \cup {[kind |-> k, id |-> 0, content |-> c] : k \in {"saveAgain", "updateDefine"}, c \in {D1, D2}}
    \cup {[kind |-> "updateDesign", id |-> 0, name |-> "m"]}
    \cup {[kind |-> k, id |-> i] : k \in {"deployDesign", "redeployDesign"}, i \in {0, 1}}
    \cup {[kind |-> "removeDesign", id |-> 0]}

Drafting == {"saveAgain", "updateDefine"}
Deploying == {"deploy", "deployDesign"}
Replacing == {"redeploy", "redeployDesign"}
Flagging == {"deployDesign", "redeployDesign", "updateDesign"}

\* Overlaps that break one of the properties.
MCApart == {{a, b} : a \in Deploying, b \in Deploying \cup Replacing}
           \cup {{a, b} : a \in Replacing, b \in {"upAndDown", "redeployDesign"}}
           \cup {{"remove", "start"}}
           \cup {{a, b} : a \in Flagging, b \in Drafting \cup {"saveNew"}}
=============================================================================
