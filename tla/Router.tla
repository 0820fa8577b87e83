------------------------------- MODULE Router --------------------------------
(***************************************************************************)
(* The Router class of src/femanager/spa/src/lib/router.js: registration   *)
(* (Add), resolution with the static map, the match cache and the          *)
(* parametrized trie (Match), and reverse generation (ReverseURI).  Calls  *)
(* run to completion one at a time (single-threaded page), so each call is *)
(* one atomic step; the environment may issue any call in any order.       *)
(*                                                                         *)
(* The nested trie objects are kept as one function from key paths (the   *)
(* sequence of keys from the root) to the node record, so the node found   *)
(* by following keys k1..ki is ParametrizedTree[<<k1,...,ki>>].  A node's  *)
(* `child` field is TRUE when its child object has been created (line 83); *)
(* reading a key of an absent child object is the TypeError of line 121.  *)
(*                                                                         *)
(* The maps are plain objects, so a name or segment such as "constructor"  *)
(* finds a member of Object.prototype that no Add put there: the name      *)
(* check of line 54 counts it as taken, ReverseURI finds a "route" whose   *)
(* pattern is undefined, and the walk finds a node with neither route nor  *)
(* child.  Such keys are InheritedNames.  Inserting a pattern through one  *)
(* would write into the shared Object function; PatternInputs has none.    *)
(***************************************************************************)
EXTENDS Naturals, Sequences, TLC, Route

CONSTANTS
    PatternInputs,  \* raw patterns given to Add: segment sequences, or BadPattern
    BadPattern,     \* a pattern that does not start with '/' (or is undefined)
    NameInputs,     \* route names given to Add and ReverseURI; "" is the empty name
    PathInputs,     \* paths given to Match: [parts |-> segments, query |-> Queries]
    CheckPaths,     \* segment sequences over which the resolution invariants quantify
    ParamInputs,    \* parameter objects given to ReverseURI: functions name -> value or Undef
    QueryInputs,    \* query arguments given to ReverseURI
    SearchParams,   \* the members of QueryInputs that are URLSearchParams instances
    NoQuery,        \* the empty query suffix / absent search string
    MaxCalls,       \* bound on the number of router calls in a behaviour
    InheritedNames, \* names of Object.prototype members ("constructor")
    UndefinedText,  \* the string "undefined" (undefined + '')
    None, Undef, NotFound, Throw, NoMatch

VARIABLES
    Patterns,           \* set of (canonical) patterns already registered
    Static,             \* pattern -> route, for routes that are not parametrized
    ParametrizedTree,   \* key path -> [route, depth, child]
    ParametrizedCache,  \* href -> [route, params], memo of trie matches
    NameRouteMap,       \* name -> route
    out,                \* what the last call returned (or threw)
    calls               \* number of calls made so far

routerVars == <<Patterns, Static, ParametrizedTree, ParametrizedCache, NameRouteMap>>
vars == <<routerVars, out, calls>>

ASSUME \A p \in PatternInputs \ {BadPattern} :
           \A i \in DOMAIN p : p[i] \notin {Lit(n) : n \in InheritedNames}

\* Segments that are inherited keys of every trie object.
InheritedKeys == {Lit(n) : n \in InheritedNames}

\* typeof this.NameRouteMap[name] !== 'undefined' (lines 38 and 54).
NameTaken(name) == name \in DOMAIN NameRouteMap \/ name \in InheritedNames

MaxOf(a, b) == IF a >= b THEN a ELSE b

-----------------------------------------------------------------------------
(* Registration *)

\* Seeded faults of the trie insertion, each a plausible slip in lines
\* 65-87: depth decremented after use instead of before, the child object
\* created only for new nodes, and the depth of a shared node not raised.
TreeInsertDepthOffByOne(tree, r) ==
    LET L    == Len(r.pattern)
        keys == {SubSeq(r.pattern, 1, i) : i \in 1..L}
        Node(k) ==
            LET d == L - Len(k) - 1 IN
            IF k \in DOMAIN tree
            THEN [route |-> IF d = 0 THEN r ELSE tree[k].route,
                  depth |-> MaxOf(tree[k].depth, d),
                  child |-> tree[k].child \/ d > 0]
            ELSE [route |-> IF d = 0 THEN r ELSE None,
                  depth |-> d,
                  child |-> d > 0]
    IN  [k \in DOMAIN tree \cup keys |-> IF k \in keys THEN Node(k) ELSE tree[k]]

TreeInsertNoChildOnShared(tree, r) ==
    LET L    == Len(r.pattern)
        keys == {SubSeq(r.pattern, 1, i) : i \in 1..L}
        Node(k) ==
            LET d == L - Len(k) IN
            IF k \in DOMAIN tree
            THEN [route |-> IF d = 0 THEN r ELSE tree[k].route,
                  depth |-> MaxOf(tree[k].depth, d),
                  child |-> tree[k].child]
            ELSE [route |-> IF d = 0 THEN r ELSE None,
                  depth |-> d,
                  child |-> d > 0]
    IN  [k \in DOMAIN tree \cup keys |-> IF k \in keys THEN Node(k) ELSE tree[k]]

TreeInsertNoDepthMax(tree, r) ==
    LET L    == Len(r.pattern)
        keys == {SubSeq(r.pattern, 1, i) : i \in 1..L}
        Node(k) ==
            LET d == L - Len(k) IN
            IF k \in DOMAIN tree
            THEN [route |-> IF d = 0 THEN r ELSE tree[k].route,
                  depth |-> tree[k].depth,
                  child |-> tree[k].child \/ d > 0]
            ELSE [route |-> IF d = 0 THEN r ELSE None,
                  depth |-> d,
                  child |-> d > 0]
    IN  [k \in DOMAIN tree \cup keys |-> IF k \in keys THEN Node(k) ELSE tree[k]]

\* The trie after inserting parametrized route r (the loop of lines 65-87).
\* The key path of length i gets remaining depth Len - i; a new node is
\* created with the route only at depth 0 and a child object only above it;
\* an existing node keeps the larger depth, takes the route at depth 0
\* (then the loop breaks, being at its last segment), and gets a child
\* object if it has none and depth > 0.
TreeInsert(tree, r) ==
    LET L    == Len(r.pattern)
        keys == {SubSeq(r.pattern, 1, i) : i \in 1..L}
        Node(k) ==
            LET d == L - Len(k) IN
            IF k \in DOMAIN tree
            THEN [route |-> IF d = 0 THEN r ELSE tree[k].route,
                  depth |-> MaxOf(tree[k].depth, d),
                  child |-> tree[k].child \/ d > 0]
            ELSE [route |-> IF d = 0 THEN r ELSE None,
                  depth |-> d,
                  child |-> d > 0]
    IN  [k \in DOMAIN tree \cup keys |-> IF k \in keys THEN Node(k) ELSE tree[k]]

\* Seeded faults of add: the name check of line 54 dropped, and the name
\* recorded only on the static branch.
addNoNameCheck(r) ==
    \/ /\ r.pattern \in Patterns
       /\ UNCHANGED routerVars
    \/ /\ r.pattern \notin Patterns
       /\ NameRouteMap' = (r.name :> r) @@ NameRouteMap
       /\ Patterns' = Patterns \cup {r.pattern}
       /\ \/ /\ ~r.isParametrized
             /\ Static' = (r.pattern :> r) @@ Static
             /\ UNCHANGED ParametrizedTree
          \/ /\ r.isParametrized
             /\ ParametrizedTree' = TreeInsert(ParametrizedTree, r)
             /\ UNCHANGED Static
       /\ UNCHANGED ParametrizedCache

addNameOnlyStatic(r) ==
    \/ /\ NameTaken(r.name) \/ r.pattern \in Patterns
       /\ UNCHANGED routerVars
    \/ /\ ~NameTaken(r.name)
       /\ r.pattern \notin Patterns
       /\ Patterns' = Patterns \cup {r.pattern}
       /\ \/ /\ ~r.isParametrized
             /\ NameRouteMap' = (r.name :> r) @@ NameRouteMap
             /\ Static' = (r.pattern :> r) @@ Static
             /\ UNCHANGED ParametrizedTree
          \/ /\ r.isParametrized
             /\ ParametrizedTree' = TreeInsert(ParametrizedTree, r)
             /\ UNCHANGED <<Static, NameRouteMap>>
       /\ UNCHANGED ParametrizedCache

\* add(route, ...): a name or pattern already present makes it a no-op
\* (lines 54-57); otherwise the route is recorded by name and pattern and
\* goes to the static map or into the trie.
add(r) ==
    \/ /\ NameTaken(r.name) \/ r.pattern \in Patterns
       /\ UNCHANGED routerVars
    \/ /\ ~NameTaken(r.name)
       /\ r.pattern \notin Patterns
       /\ NameRouteMap' = (r.name :> r) @@ NameRouteMap
       /\ Patterns' = Patterns \cup {r.pattern}
       /\ \/ /\ ~r.isParametrized
             /\ Static' = (r.pattern :> r) @@ Static
             /\ UNCHANGED ParametrizedTree
          \/ /\ r.isParametrized
             /\ ParametrizedTree' = TreeInsert(ParametrizedTree, r)
             /\ UNCHANGED Static
       /\ UNCHANGED ParametrizedCache

\* Router.Add(pattern, name, handler): an invalid pattern or an empty name is
\* silently ignored (lines 15-18).
Add(pattern, name) ==
    /\ calls < MaxCalls
    /\ calls' = calls + 1
    /\ out' = Undef
    /\ \/ /\ pattern = BadPattern \/ name = ""
          /\ UNCHANGED routerVars
       \/ /\ pattern # BadPattern /\ name # ""
          /\ add(NewRoute(pattern, name))

-----------------------------------------------------------------------------
(* Resolution *)

\* Seeded fault of the walk: the route taken from the last node found even
\* when the walk stops before the last segment (the i === childFlag test of
\* line 123 dropped).
RECURSIVE WalkFromAnyLevel(_, _, _)
WalkFromAnyLevel(tree, parts, cur) ==
    IF Len(cur) = Len(parts) THEN cur
    ELSE IF cur # <<>> /\ ~tree[cur].child THEN Throw
    ELSE LET key == IF Append(cur, Wildcard) \in DOMAIN tree
                    THEN Wildcard ELSE parts[Len(cur) + 1]
         IN  IF Append(cur, key) \in DOMAIN tree
             THEN WalkFromAnyLevel(tree, parts, Append(cur, key))
             ELSE IF key \in InheritedKeys /\ Len(cur) + 1 < Len(parts) THEN Throw
             ELSE IF cur = <<>> THEN NotFound ELSE cur

\* The trie walk of lines 120-127 from the node at key path cur, with
\* Len(cur) segments of parts consumed.  At each level the wildcard key is
\* tried before the segment itself (line 121).  Returns the key path of the
\* node reached at the last segment, NotFound when a level has neither key,
\* or Throw when the previous node has no child object to look into.  An
\* inherited key is found but has no route and no child: at the last
\* segment nothing matches, before it the next read throws.
RECURSIVE WalkFrom(_, _, _)
WalkFrom(tree, parts, cur) ==
    IF Len(cur) = Len(parts) THEN cur
    ELSE IF cur # <<>> /\ ~tree[cur].child THEN Throw
    ELSE LET key == IF Append(cur, Wildcard) \in DOMAIN tree
                    THEN Wildcard ELSE parts[Len(cur) + 1]
         IN  IF Append(cur, key) \in DOMAIN tree
             THEN WalkFrom(tree, parts, Append(cur, key))
             ELSE IF key \in InheritedKeys /\ Len(cur) + 1 < Len(parts) THEN Throw
             ELSE NotFound

\* The params object of lines 131-134: each descriptor reads the path
\* segment at its position.
ParamsOf(r, parts) == [n \in ParamNamesOf(r) |-> parts[PositionOf(r, n)]]

\* What the trie walk and the params loop produce for pathname href.
TrieResolve(href) ==
    LET w == WalkFrom(ParametrizedTree, href, <<>>) IN
    CASE w = Throw -> Throw
      [] w = NotFound -> NoMatch
      [] ParametrizedTree[w].route = None -> NoMatch
      [] OTHER ->
             [via |-> "trie", route |-> ParametrizedTree[w].route,
              params |-> ParamsOf(ParametrizedTree[w].route, href)]

\* Seeded fault: the cache consulted before the static map.
ResolveCacheBeforeStatic(href) ==
    CASE href \in DOMAIN ParametrizedCache ->
             [via |-> "cache", route |-> ParametrizedCache[href].route,
              params |-> ParametrizedCache[href].params]
      [] href \in DOMAIN Static ->
             [via |-> "static", route |-> Static[href], params |-> None]
      [] OTHER -> TrieResolve(href)

\* What match(path) returns for pathname href, in the current state: the
\* static map first (line 101), then the cache (line 110), then the trie.
Resolve(href) ==
    CASE href \in DOMAIN Static ->
             [via |-> "static", route |-> Static[href], params |-> None]
      [] href \in DOMAIN ParametrizedCache ->
             [via |-> "cache", route |-> ParametrizedCache[href].route,
              params |-> ParametrizedCache[href].params]
      [] OTHER -> TrieResolve(href)

\* A resolution that returned a route.
IsMatch(res) == res \notin {Throw, NoMatch}

\* Router.Match(path): the query string is split off at the first '?'
\* (lines 92-98); a trie match is stored in the cache (lines 136-138); a
\* thrown TypeError leaves the state as it was.
Match(path) ==
    LET res == Resolve(path.parts) IN
    /\ calls < MaxCalls
    /\ calls' = calls + 1
    /\ out' = [pathname |-> path.parts, search |-> path.query, result |-> res]
    /\ ParametrizedCache' =
           IF IsMatch(res) /\ res.via = "trie"
           THEN (path.parts :> [route |-> res.route, params |-> res.params])
                    @@ ParametrizedCache
           ELSE ParametrizedCache
    /\ UNCHANGED <<Patterns, Static, ParametrizedTree, NameRouteMap>>

-----------------------------------------------------------------------------
(* Reverse generation *)

\* The patternParts of r with each descriptor's position replaced by the
\* value supplied for its name (lines 42-48).
Substitute(r, values) ==
    [i \in DOMAIN r.pattern |->
        IF \E n \in ParamNamesOf(r) : PositionOf(r, n) = i
        THEN values[CHOOSE n \in ParamNamesOf(r) : PositionOf(r, n) = i]
        ELSE r.pattern[i]]

\* Seeded fault of ReverseURI: the pattern returned without substituting
\* the parameters, as for a static route.
ReverseResultNoSubstitution(name, params, query) ==
    LET r      == NameRouteMap[name]
        suffix == IF query \in SearchParams THEN query ELSE NoQuery
    IN  CASE name \notin DOMAIN NameRouteMap -> Undef
          [] \E n \in ParamNamesOf(r) : params[n] = Undef -> Undef
          [] OTHER -> [parts |-> r.pattern, query |-> suffix]

\* What ReverseURI(name, params, query) returns (lines 37-50): Undef for an
\* unknown name or a missing parameter value; the query is rendered only
\* when it is a URLSearchParams instance.  Called without a params object
\* (params = Undef), the read params[...] of line 45 throws as soon as the
\* route has a descriptor.  An inherited name passes the typeof test of
\* line 38, is not parametrized, and gives undefined + query.
ReverseResult(name, params, query) ==
    LET r      == NameRouteMap[name]
        suffix == IF query \in SearchParams THEN query ELSE NoQuery
    IN  CASE ~NameTaken(name) -> Undef
          [] name \in InheritedNames -> [parts |-> UndefinedText, query |-> suffix]
          [] ~r.isParametrized -> [parts |-> r.pattern, query |-> suffix]
          [] params = Undef /\ r.params # <<>> -> Throw
          [] params = Undef -> [parts |-> r.pattern, query |-> suffix]
          [] \E n \in ParamNamesOf(r) : params[n] = Undef -> Undef
          [] OTHER -> [parts |-> Substitute(r, params), query |-> suffix]

ReverseURI(name, params, query) ==
    /\ calls < MaxCalls
    /\ calls' = calls + 1
    /\ out' = ReverseResult(name, params, query)
    /\ UNCHANGED routerVars

-----------------------------------------------------------------------------
Init ==
    /\ Patterns = {}
    /\ Static = [p \in {} |-> None]
    /\ ParametrizedTree = [k \in {} |-> None]
    /\ ParametrizedCache = [h \in {} |-> None]
    /\ NameRouteMap = [n \in {} |-> None]
    /\ out = Undef
    /\ calls = 0

Next ==
    \/ \E p \in PatternInputs, n \in NameInputs : Add(p, n)
    \/ \E path \in PathInputs : Match(path)
    \/ \E n \in NameInputs, ps \in ParamInputs, q \in QueryInputs :
           ReverseURI(n, ps, q)

Spec == Init /\ [][Next]_vars

-----------------------------------------------------------------------------
(* Properties *)

TypeOK ==
    /\ calls \in 0..MaxCalls
    /\ DOMAIN NameRouteMap \subseteq NameInputs \ {""}
    /\ \A k \in DOMAIN ParametrizedTree :
           /\ ParametrizedTree[k].depth \in Nat
           /\ ParametrizedTree[k].child \in BOOLEAN
    /\ \A h \in DOMAIN ParametrizedCache :
           ParametrizedCache[h].route.name \in DOMAIN NameRouteMap

\* The registries agree (add, lines 54-87): every route reachable by name is
\* the one stored under its pattern, in the static map or at its trie node,
\* and the static map and the trie hold no route the name map does not.  A
\* later Add with a taken name or pattern must neither overwrite nor orphan
\* an earlier registration.
RegistryConsistent ==
    /\ Patterns = {NameRouteMap[n].pattern : n \in DOMAIN NameRouteMap}
    /\ \A n \in DOMAIN NameRouteMap :
           LET r == NameRouteMap[n] IN
           /\ r.name = n
           /\ IF r.isParametrized
              THEN r.pattern \in DOMAIN ParametrizedTree
                   /\ ParametrizedTree[r.pattern].route = r
              ELSE r.pattern \in DOMAIN Static /\ Static[r.pattern] = r
    /\ \A p \in DOMAIN Static :
           Static[p].name \in DOMAIN NameRouteMap
           /\ NameRouteMap[Static[p].name] = Static[p]
    /\ \A k \in DOMAIN ParametrizedTree :
           LET r == ParametrizedTree[k].route IN
           r # None => r.name \in DOMAIN NameRouteMap /\ NameRouteMap[r.name] = r

\* The trie has exactly the prefixes of the registered parametrized patterns
\* as nodes; a node's depth is the largest number of segments any of those
\* patterns has below it, and it has a child object exactly when it has a
\* child node.  The last part is what keeps Match from reading a key of an
\* absent child object on a path that some route continues.
TrieShape ==
    LET routes == {r \in {NameRouteMap[n] : n \in DOMAIN NameRouteMap} :
                       r.isParametrized}
        Through(k) == {r \in routes : Len(k) <= Len(r.pattern)
                                        /\ SubSeq(r.pattern, 1, Len(k)) = k}
    IN  /\ DOMAIN ParametrizedTree =
               UNION {{SubSeq(r.pattern, 1, i) : i \in 1..Len(r.pattern)} : r \in routes}
        /\ \A k \in DOMAIN ParametrizedTree :
               /\ \A r \in Through(k) : ParametrizedTree[k].depth >= Len(r.pattern) - Len(k)
               /\ \E r \in Through(k) : ParametrizedTree[k].depth = Len(r.pattern) - Len(k)
               /\ ParametrizedTree[k].child <=>
                      \E r \in Through(k) : Len(r.pattern) > Len(k)

\* The path a route stands for when its parameters take the given values;
\* a static route stands for its pattern alone.
Instance(r, params) == IF params = None THEN r.pattern ELSE Substitute(r, params)

\* Whatever Match returns, from the static map, the cache or the trie walk,
\* is a route whose pattern the path instantiates, with params holding the
\* captured segments: ReverseURI(name, params) would give the path back.
\* A stale cache entry, a walk that stops at the wrong level or a misread
\* position would all return a route the path does not belong to.
MatchSound ==
    \A h \in CheckPaths :
        LET res == Resolve(h) IN
        IsMatch(res) => Instance(res.route, res.params) = h

\* Match never throws (spec section 7: "No exceptions are raised by the
\* core"), whatever path the history hands it.
NoThrow == \A h \in CheckPaths : Resolve(h) # Throw

\* A route r is a candidate for path h: same length, literal segments equal.
Fits(r, h) ==
    /\ Len(r.pattern) = Len(h)
    /\ \A i \in DOMAIN h : r.pattern[i] = Wildcard \/ r.pattern[i] = h[i]

\* Spec section 8, wildcard precedence: with both /device/:ip and
\* /device/create registered, Match("/device/create") resolves to the
\* parametrized route.  The static map is consulted first (line 101).
SpecWildcardPrecedence ==
    \A p \in DOMAIN Static :
        (\E n \in DOMAIN NameRouteMap : NameRouteMap[n].isParametrized
                                        /\ Fits(NameRouteMap[n], p))
            => Resolve(p).route.isParametrized

\* Following a link made by ReverseURI leads back to the route it was made
\* for, with the same parameter values.
ReverseRoundTrip ==
    \A n \in DOMAIN NameRouteMap, ps \in ParamInputs :
        LET r == NameRouteMap[n]
            u == ReverseResult(n, ps, NoQuery)
            res == Resolve(u.parts)
        IN  u \notin {Undef, Throw} =>
                /\ IsMatch(res)
                /\ res.route = r
                /\ res.params = IF r.isParametrized
                                THEN [k \in ParamNamesOf(r) |-> ps[k]]
                                ELSE None
-----------------------------------------------------------------------------
(* Refinement *)

\* What a caller sees of a call's result.  A thrown TypeError (line 121)
\* leaves the caller without a route, as "no match" does; which of the two
\* it is, is what NoThrow tells apart.  Which structure answered (static
\* map, cache or trie) is invisible to the caller.
AbsOut(o) ==
    IF o # Undef /\ "result" \in DOMAIN o
    THEN [pathname |-> o.pathname, search |-> o.search,
          result |-> IF IsMatch(o.result)
                     THEN [route |-> o.result.route, params |-> o.result.params]
                     ELSE NoMatch]
    ELSE o

CRouter == INSTANCE CachedRouter
               WITH registry <- NameRouteMap, memo <- ParametrizedCache,
                    out <- AbsOut(out)

\* Whatever order Add, Match and ReverseURI come in, the static map, trie
\* and cache together answer as CachedRouter says: a fresh trie answer is
\* the declarative wildcard-first resolution over the routes registered so
\* far, a static route registered later overrides a cached answer, and a
\* cached answer is the one the path got the first time.
RefinesCachedRouter == CRouter!Spec
==============================================================================
