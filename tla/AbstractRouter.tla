---------------------------- MODULE AbstractRouter ----------------------------
(***************************************************************************)
(* What the Router of src/femanager/spa/src/lib/router.js promises to its  *)
(* callers (spec sections 4.2-4.4 and 7), with none of its lookup          *)
(* structures: the only state is the registry of routes by name.  Match is *)
(* a function of the registry and the path: the static route with that     *)
(* pattern, else the route reached by walking the registered parametrized  *)
(* patterns segment by segment, taking the wildcard whenever some pattern  *)
(* continues with it and the path's own segment otherwise; a walk that     *)
(* cannot continue is "no match", never an exception.                      *)
(***************************************************************************)
EXTENDS Naturals, Sequences, TLC, Route

CONSTANTS
    PatternInputs, BadPattern, NameInputs, PathInputs, ParamInputs,
    QueryInputs, SearchParams, NoQuery, None, Undef, NoMatch

VARIABLES
    registry,   \* name -> route
    out         \* what the last call returned

avars == <<registry, out>>

Routes(reg) == {reg[n] : n \in DOMAIN reg}

\* The segments that registered parametrized patterns have after prefix k.
NextKeys(reg, k) ==
    {r.pattern[Len(k) + 1] : r \in {q \in Routes(reg) :
        q.isParametrized /\ Len(q.pattern) > Len(k)
        /\ SubSeq(q.pattern, 1, Len(k)) = k}}

\* Spec section 4.3: the walk over path h from prefix k; the wildcard is
\* taken whenever it can be, the literal segment only otherwise.
RECURSIVE Walk(_, _, _)
Walk(reg, h, k) ==
    IF Len(k) = Len(h) THEN k
    ELSE IF Wildcard \in NextKeys(reg, k) THEN Walk(reg, h, Append(k, Wildcard))
    ELSE IF h[Len(k) + 1] \in NextKeys(reg, k) THEN Walk(reg, h, Append(k, h[Len(k) + 1]))
    ELSE NoMatch

\* The route a path resolves to, with its captured parameters.
Resolution(reg, h) ==
    LET static == {r \in Routes(reg) : ~r.isParametrized /\ r.pattern = h}
        k      == Walk(reg, h, <<>>)
        ends   == IF k = NoMatch THEN {}
                  ELSE {r \in Routes(reg) : r.isParametrized /\ r.pattern = k}
    IN  CASE static # {} ->
                 [route |-> CHOOSE r \in static : TRUE, params |-> None]
          [] ends # {} ->
                 LET r == CHOOSE q \in ends : TRUE IN
                 [route |-> r,
                  params |-> [n \in ParamNamesOf(r) |-> h[PositionOf(r, n)]]]
          [] OTHER -> NoMatch

\* Spec section 4.2: an invalid pattern or name, or a name or pattern that
\* is taken, leaves the registry as it is.
Add(pattern, name) ==
    /\ out' = Undef
    /\ IF pattern = BadPattern \/ name = "" THEN UNCHANGED registry
       ELSE LET r == NewRoute(pattern, name) IN
            IF name \in DOMAIN registry \/ \E q \in Routes(registry) : q.pattern = r.pattern
            THEN UNCHANGED registry
            ELSE registry' = (name :> r) @@ registry

Match(path) ==
    /\ out' = [pathname |-> path.parts, search |-> path.query,
               result |-> Resolution(registry, path.parts)]
    /\ UNCHANGED registry

\* Spec section 4.4: every descriptor's value put at its position.
ReverseURI(name, params, query) ==
    LET r      == registry[name]
        suffix == IF query \in SearchParams THEN query ELSE NoQuery
        valueAt(i) == params[CHOOSE n \in ParamNamesOf(r) : PositionOf(r, n) = i]
    IN  /\ out' =
              CASE name \notin DOMAIN registry -> Undef
                [] \E n \in ParamNamesOf(r) : params[n] = Undef -> Undef
                [] OTHER ->
                       [parts |-> [i \in DOMAIN r.pattern |->
                                      IF \E n \in ParamNamesOf(r) : PositionOf(r, n) = i
                                      THEN valueAt(i) ELSE r.pattern[i]],
                        query |-> suffix]
        /\ UNCHANGED registry

Init ==
    /\ registry = [n \in {} |-> None]
    /\ out = Undef

Next ==
    \/ \E p \in PatternInputs, n \in NameInputs : Add(p, n)
    \/ \E path \in PathInputs : Match(path)
    \/ \E n \in NameInputs, ps \in ParamInputs, q \in QueryInputs :
           ReverseURI(n, ps, q)

Spec == Init /\ [][Next]_avars
==============================================================================
