-------------------------------- MODULE Route --------------------------------
(***************************************************************************)
(* The Route class of src/femanager/spa/src/lib/router.js: constructing a  *)
(* route from a raw pattern and parsing its parameter segments.            *)
(*                                                                         *)
(* A pattern string "/s1/s2/.../sn" is represented by the sequence of its  *)
(* segments <<s1, ..., sn>> (pattern.split('/').slice(1)); the leading '/' *)
(* is implied, and join is the inverse of split because no segment holds a *)
(* '/'.  A segment string is split at its first ':' into a colon-free      *)
(* prefix `pre` and the rest `post`: the record [pre, colon, post] stands  *)
(* for pre, or pre ++ ":" ++ post when colon is TRUE.  That decomposition  *)
(* is unique, so record equality is string equality, and it exposes       *)
(* exactly the three facts the code reads of a segment: whether it starts  *)
(* with ':', what follows the ':', and whether it contains a ':'.          *)
(* Positions are 1-based here; the code's 0-based position p is our p+1.   *)
(***************************************************************************)
EXTENDS Naturals, Sequences

\* A segment with no ':' in it.
Lit(s) == [pre |-> s, colon |-> FALSE, post |-> ""]

\* The segment pre ++ ":" ++ post.
Seg(pre, post) == [pre |-> pre, colon |-> TRUE, post |-> post]

\* The wildcard token ':' that replaces a parameter segment.
Wildcard == Seg("", "")

\* patternParts[i].charAt(0) === ':'
IsParamSegment(s) == s.colon /\ s.pre = ""

\* patternParts[i].slice(1)
ParamName(s) == s.post

\* this.pattern.indexOf(':') >= 0: a ':' anywhere in the pattern, not only
\* at the start of a segment.
ContainsColon(parts) == \E i \in DOMAIN parts : parts[i].colon

\* Segment i is a parameter segment whose name no earlier parameter segment
\* carries (the paramsMap lookup of line 175).
FirstOccurrence(parts, i) ==
    /\ IsParamSegment(parts[i])
    /\ \A j \in 1..(i - 1) :
           ~(IsParamSegment(parts[j]) /\ ParamName(parts[j]) = ParamName(parts[i]))

\* parseParametrizedPattern: the loop over the segments.  A first occurrence
\* records a descriptor and is replaced by the wildcard; every other segment,
\* a repeated parameter segment included (the `continue` of line 175 skips
\* the replacement of line 179), is kept as it is.  The descriptors are in
\* left-to-right order of position.
ParseParametrizedPattern(parts) ==
    LET positions == SelectSeq([i \in 1..Len(parts) |-> i],
                               LAMBDA i : FirstOccurrence(parts, i))
    IN  [patternParts |-> [i \in 1..Len(parts) |->
                               IF FirstOccurrence(parts, i) THEN Wildcard
                                                            ELSE parts[i]],
         params       |-> [k \in 1..Len(positions) |->
                               [name     |-> ParamName(parts[positions[k]]),
                                position |-> positions[k]]]]

\* new Route(pattern, handler, name).  The handler is opaque to the router
\* and is carried through unchanged; a route is identified by its name.  The
\* pattern of a parametrized route is the re-joined patternParts.
NewRoute(pattern, name) ==
    IF ContainsColon(pattern)
    THEN LET p == ParseParametrizedPattern(pattern)
         IN  [name |-> name, pattern |-> p.patternParts,
              isParametrized |-> TRUE, params |-> p.params]
    ELSE [name |-> name, pattern |-> pattern,
          isParametrized |-> FALSE, params |-> <<>>]

\* The names of a route's parameter descriptors.
ParamNamesOf(r) == {r.params[k].name : k \in DOMAIN r.params}

\* The descriptor position of parameter name n of route r.
PositionOf(r, n) == r.params[CHOOSE k \in DOMAIN r.params : r.params[k].name = n].position
==============================================================================
