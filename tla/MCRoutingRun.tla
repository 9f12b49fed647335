---------------------------- MODULE MCRoutingRun ----------------------------
EXTENDS RoutingRun

\* Two policies of one or two steps, which react to a missed call in every
\* possible way; times are in units of 30 seconds.
MCTransitions == {Stop} \cup {GotoStep(s) : s \in {"a", "b", "missing"}}
                 \cup {ToPolicy(p) : p \in {"first", "second"}}

MCNextOn == {<<>>} \cup [{"no_answer"} -> MCTransitions]

MCStep(id) == [id : {id}, endpoint : {"phone"}, timeout : {1, 3}, nextOn : MCNextOn]

MCSteps == {<<s>> : s \in MCStep("a")}
           \cup {<<s, t>> : s \in {x \in MCStep("a") : x.timeout = 1}, t \in MCStep("b")}

MCPolicy == [steps : MCSteps, fallback : {NoPolicy, "first", "second"}]

MCSecond == [steps : {<<s>> : s \in MCStep("a")}, fallback : {NoPolicy, "first", "second"}]

MCPolicySets == {[p \in {"first", "second"} |-> IF p = "first" THEN f ELSE s] :
                    f \in MCPolicy, s \in MCSecond}
=============================================================================
