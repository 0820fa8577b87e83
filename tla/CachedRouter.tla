----------------------------- MODULE CachedRouter -----------------------------
(***************************************************************************)
(* What the Router of src/femanager/spa/src/lib/router.js guarantees to a  *)
(* caller that interleaves registration and matching in any order.  It is  *)
(* AbstractRouter with two things a caller can observe added:              *)
(*   - the answer a path got from the parametrized routes is remembered    *)
(*     (memo) and given again for that path for the Router's lifetime      *)
(*     (spec section 3), unless a static route for the path is registered; *)
(*   - names of Object.prototype members are taken from the start: Add     *)
(*     refuses them and ReverseURI answers the text "undefined".           *)
(* Resolution, the walk and the static-first rule are AbstractRouter's.    *)
(***************************************************************************)
EXTENDS Naturals, Sequences, TLC, Route

CONSTANTS
    PatternInputs, BadPattern, NameInputs, PathInputs, ParamInputs,
    QueryInputs, SearchParams, NoQuery, None, Undef, NoMatch,
    InheritedNames, UndefinedText

VARIABLES
    registry,   \* name -> route
    memo,       \* path -> the answer the parametrized routes gave it first
    out         \* what the last call returned

cvars == <<registry, memo, out>>

A == INSTANCE AbstractRouter

Add(pattern, name) ==
    /\ IF name \in InheritedNames
       THEN out' = Undef /\ UNCHANGED registry
       ELSE A!Add(pattern, name)
    /\ UNCHANGED memo

\* A static route for the path answers first; otherwise a remembered answer;
\* otherwise a fresh resolution, remembered when it found a route.
Match(path) ==
    LET h       == path.parts
        fresh   == A!Resolution(registry, h)
        static  == fresh # NoMatch /\ ~fresh.route.isParametrized
        res     == IF ~static /\ h \in DOMAIN memo THEN memo[h] ELSE fresh
    IN  /\ out' = [pathname |-> h, search |-> path.query, result |-> res]
        /\ memo' = IF static \/ h \in DOMAIN memo \/ res = NoMatch
                   THEN memo ELSE (h :> res) @@ memo
        /\ UNCHANGED registry

ReverseURI(name, params, query) ==
    /\ IF name \in InheritedNames
       THEN /\ out' = [parts |-> UndefinedText,
                       query |-> IF query \in SearchParams THEN query ELSE NoQuery]
            /\ UNCHANGED registry
       ELSE A!ReverseURI(name, params, query)
    /\ UNCHANGED memo

Init ==
    /\ A!Init
    /\ memo = [h \in {} |-> None]

Next ==
    \/ \E p \in PatternInputs, n \in NameInputs : Add(p, n)
    \/ \E path \in PathInputs : Match(path)
    \/ \E n \in NameInputs, ps \in ParamInputs, q \in QueryInputs :
           ReverseURI(n, ps, q)

Spec == Init /\ [][Next]_cvars
==============================================================================
