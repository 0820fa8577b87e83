------------------------------- MODULE MCRouter ------------------------------
(* The Router as a library: any sequence of Add, Match and ReverseURI      *)
(* calls, registration and resolution interleaved.                         *)
EXTENDS Router

S(s) == Lit(s)
P(x) == Seg("", x)

\* Patterns of one or two segments over a literal and a parameter.
MCPatternInputs == UNION {[1..k -> {S("a"), P("x")}] : k \in 1..2} \cup {BadPattern}

\* "constructor" is a member of Object.prototype.
MCNameInputs == {"n1", "n2", "n3", "constructor", ""}

MCPathInputs ==
    {[parts |-> h, query |-> NoQuery] :
        h \in UNION {[1..k -> {S("a"), S("b"), S("constructor")}] : k \in 1..2}}

MCCheckPaths == UNION {[1..k -> {S("a"), S("b"), S("constructor"), P("x")}] : k \in 1..3}

MCParamInputs == [{"x"} -> {S("a"), S("b"), Undef}]

MCQueryInputs == {NoQuery, "qs", "obj"}
MCSearchParams == {"qs"}
==============================================================================
