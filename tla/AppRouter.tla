------------------------------ MODULE AppRouter ------------------------------
(***************************************************************************)
(* The application's router instance, src/femanager/spa/src/App/state/     *)
(* router.js: one Router, the routes of the routes table added in order at *)
(* module load (lines 7-10), and only after that the calls the pages make: *)
(* Match on navigation and ReverseURI to build links.                      *)
(***************************************************************************)
EXTENDS Router

CONSTANT RouteTable     \* sequence of [path, name], in the table's order

VARIABLE registered     \* number of table entries added so far

appVars == <<vars, registered>>

\* One iteration of the for-loop: router.Add(v.path, v.name, v.handler).
RegisterNext ==
    /\ registered < Len(RouteTable)
    /\ Add(RouteTable[registered + 1].path, RouteTable[registered + 1].name)
    /\ registered' = registered + 1

\* After module load, the pages call the router.
Navigate(path) ==
    /\ registered = Len(RouteTable)
    /\ Match(path)
    /\ UNCHANGED registered

MakeLink(n, ps, q) ==
    /\ registered = Len(RouteTable)
    /\ ReverseURI(n, ps, q)
    /\ UNCHANGED registered

AppInit == Init /\ registered = 0

AppNext ==
    \/ RegisterNext
    \/ \E path \in PathInputs : Navigate(path)
    \/ \E n \in NameInputs, ps \in ParamInputs, q \in QueryInputs : MakeLink(n, ps, q)

AppSpec == AppInit /\ [][AppNext]_appVars

\* All of the table has been added: the state every page sees.
Loaded == registered = Len(RouteTable)

\* Once the table is loaded, Match never throws on any path the browser
\* can navigate to (spec section 7: the core raises no exceptions).
LoadedNoThrow == Loaded => NoThrow

\* Once the table is loaded, spec section 8's wildcard precedence holds:
\* /user/create and /device/create resolve to the :uuid and :ip routes.
LoadedWildcardPrecedence == Loaded => SpecWildcardPrecedence
-----------------------------------------------------------------------------
(* Refinement *)

ARouter == INSTANCE AbstractRouter WITH registry <- NameRouteMap, out <- AbsOut(out)

\* The router with its static map, match cache and trie implements the
\* abstract router: every Match returns the route the declarative
\* resolution over the registered routes gives (static first, then the
\* wildcard-first walk), and registration and ReverseURI change and return
\* what the abstract registry says.
RefinesAbstractRouter == ARouter!Spec
==============================================================================
