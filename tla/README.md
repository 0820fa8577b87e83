# TLA+ models of wgnetwork's web front ends

This directory holds TLA+ models of the browser code under `src/`, the TLC
configurations that check them, and `PROJECT.json`. That file lists the
components, runs, mutants, the source map, the findings and the hazards.

## 1. Inventory

The code belongs to two single-page apps (`src/fe`, `src/femanager/spa`). They
share one design.

| Component | Source | State | Operations | Interacts with |
|---|---|---|---|---|
| Route | `lib/router.js` 151-186 | immutable: pattern, name, handler, isParametrized, patternParts, params | constructor, parseParametrizedPattern | built by Router.Add |
| Router | `lib/router.js` 3-149 | Patterns, Static, ParametrizedTree, ParametrizedCache, NameRouteMap | Add, Match, ReverseURI | called by the app router instance and the pages |
| App router instance | `App/state/router.js`, `state/routes.js` | one Router; the routes table | add every route at module load; moveTo, moveBack (history) | pages call `router.Match` on `curPath` and `ReverseURI` to build links |
| Stores | `state/store.js`, `state/index.js` | authToken, curPath, derived curRoute | set / subscribe | Svelte reactivity |
| RPC client | `fe/src/lib/rpcapi.js` | URL | Fetch(method, params, session) → result, ValidationError or RPCError | every view-model function |
| View-model fetchers | `Pages/*/func.js` | none (per call) | session check, then one or more Fetches (often `Promise.all`), then reshaping | RPC client, the server |
| Clipboard notice, download | `Pages/*/Components/func.js`, `Server/func.js` | DOM classes, a 2 s timer | click handlers | the DOM, `setTimeout` |
| excludePrivateNetworks, formValidate | `Device/Components/func.js`, `*/func.js` | none | pure functions | the device page's WireGuard config; forms |
| transitionCfg | `util/transition.js` | a `started` flag per transition | tick(t) | Svelte transitions |
| setHtmlClass / setBodyClass | `util/dom.js` | DOM classes | set | none |

All of this runs on the page's single thread. A router call runs to completion
and is therefore one atomic step. These are the behaviours that make it hard:
- **Router.** Which calls come in which order: registration interleaved with
  matching (the cache), registrations that share trie prefixes, duplicates,
  and paths longer than any route.
- **View-models.** The `await` points: two RPCs in flight against a server that
  changes between them, a mutation that succeeded followed by a re-read that
  failed, and a session value read before the check and used after it.
- **Clipboard notice.** Two `setTimeout` callbacks racing.
- **Transition.** Animation frames that are dropped, so that `tick` sees only
  some values of t.

These properties make each component correct:
- **Route.** A parameter segment becomes the wildcard and gets exactly one
  descriptor at its first position. Parametrization is decided by
  `:`-prefixed segments.
- **Router.**
  - The four maps agree.
  - The trie holds exactly the prefixes of the parametrized patterns.
  - Every match is sound: the path instantiates the route with the returned
    params.
  - A cached answer is the first answer its path got, and a static route
    registered later still wins over it.
  - Match never throws.
  - ReverseURI and Match are inverse on the application's table.
  - The router implements its abstract specification: `AbstractRouter` once
    the table is loaded, `CachedRouter` under any order of calls.
- **RPC client.** Every rejection is an RPCError or a ValidationError. A
  non-200 status is never reported as success.
- **View-models.** They never throw and never lose a
  user's name on a consistent server. A change they make is visible in the
  list they return.
- **Clipboard notice.** It stays visible for 2 s after the last click, and it
  is always hidden again.
- **Transition.** The element goes from its `from` classes to its `to`
  classes (which the code misses when only the end value is ticked), and it
  ends without its `base` classes.
- **excludePrivateNetworks.** When the one full-tunnel entry is replaced by
  the hand-written CIDR table, the table routes exactly the public IPv4
  space.

## 2. Modules and how they correspond to the code

A pattern `/s1/.../sn` is the sequence of its segments, which is the code's
`split('/').slice(1)`. Each segment string is the record `[pre, colon, post]`.
That record is the string cut at its first `:`. This exposes exactly what the
code reads of a segment: whether it starts with `:` (`charAt(0)`), the name
after it (`slice(1)`), and whether it contains `:` (`indexOf`). Record
equality is string equality, so segments serve as map keys unchanged. Handlers
are opaque, so each route is identified by its name.

- **`Route.tla`** models the Route class. `NewRoute` is the constructor.
  `ParseParametrizedPattern` is the parsing loop, including its `continue` on a
  repeated name, which keeps that segment unreplaced.
- **`Router.tla`** models the Router class. Its variables have the names of the
  constructor's fields. `ParametrizedTree` maps key paths (root to node) to
  `[route, depth, child]`; `child` records whether the node's child object
  exists. Its actions:
  - `Add` covers the guard of lines 15-18. It uses `add` (the duplicate check
    and the static branch) and `TreeInsert` (the insertion loop).
  - `Match` uses `Resolve`, which checks the static map, then the cache, then
    the walk. The walk is `WalkFrom`, which tries the wildcard first and
    returns `Throw` when the child object is absent. `Match` also writes to
    the cache.
  - `ReverseURI` uses `ReverseResult`.

  The maps are plain objects, so a key such as `constructor` finds a member of
  `Object.prototype`. `InheritedNames` lists such keys. `NameTaken` is the
  `typeof ... !== 'undefined'` test of lines 38 and 54, which counts them as
  taken. `WalkFrom` finds an inherited segment with neither route nor child:
  no match at the last segment, a TypeError before it. `ReverseResult` of an
  inherited name returns `undefined + query` (`UndefinedText`). No pattern of
  `PatternInputs` has an inherited segment, see §5.

  `calls` bounds the number of calls (`MaxCalls`). `out` holds the last return
  value. `Next` lets the environment make any call with any input from the
  constant input sets.
- **`AppRouter.tla`** models `App/state/router.js`. It extends Router with the
  `for` loop that adds `RouteTable` in order (`RegisterNext`). After that, the
  pages' calls follow (`Navigate`, `MakeLink`).
- **`RpcApi.tla`** models `RPCApi.Fetch` as three atomic steps, one at each
  side of its two awaits:
  - `FetchSend` builds and sends the request.
  - `FetchReceive` or `FetchNetworkError`: `fetch()` settles.
  - `FetchSettle`: `json()` settles and `Classify` applies lines 53-78.

  Every error caught at line 79 becomes a ReferenceError. The reason is that
  the test `instanceof NetworkError` references an undefined global. A
  response is abstracted to its status, its content type, whether the body
  parses as JSON, the error object (code, and whether `data` is present) and
  the result.
- **`AbstractRouter.tla`** states what the router promises (spec §§4.2-4.4,
  7). Its only state is the registry of routes by name. Match is a pure
  function of the registry and the path: the static route with that pattern,
  else the route reached by walking the registered parametrized patterns,
  wildcard first, and otherwise "no match", never an exception. It has no
  cache, no trie and no exceptions. `AppRouter` instantiates it with
  `registry <- NameRouteMap` and `out <- AbsOut(out)`. `AbsOut` drops the
  `via` field and maps a thrown TypeError to "no match", so a throw still
  breaks the refinement if the abstract walk finds a route.
- **`CachedRouter.tla`** states what the library guarantees when
  registration and matching interleave in any order. It instantiates
  `AbstractRouter` and adds two things a caller can observe. The first is
  `memo`, the answer a path got from the parametrized routes; it is given
  again for that path, unless a static route for the path is registered
  later. The second is that names of `Object.prototype` members are taken
  from the start. `Router` instantiates it with `registry <- NameRouteMap`,
  `memo <- ParametrizedCache` and `out <- AbsOut(out)`.
- **`Fetchers.tla`** extends RpcApi and models every view-model function that
  reads or changes server state: `checkSession`, `getDevice`, `getUsers`,
  `getUser` and `getUserWithDevices` of `fe`, and `getDevices`, `getUsers`,
  `getData`, `ipsetAdd` and `ipsetRemove` of the manager. Each function is a
  stage table, `<<S1, S2, ...>>`, one set of calls per `await`. A set with two
  calls is a `Promise.all`, whose calls are sent together (`SendAll`).
  - The function steps are `Start`, `StageRejected`, `NextStage` and `Finish`.
    `StageRejected` is the `catch { return Promise.reject(err) }` every
    function has. `Finish` applies the reshaping: `getDevicesResult` is the
    usersMap lookup of `Devices/func.js` 21-46, and
    `getUserWithDevicesThrows`/`Result` are the index lookups of
    `User/func.js` 68-105. The other functions only rename fields, so their
    result is opaque.
  - The server is `users`, `owner` (ip → user) and `ipset`. `OtherManager`
    changes it at any time, up to `MaxChanges` times: it creates or deletes a
    user, adds or removes a device, or toggles a trusted IP.
  - The network can answer (`ServerRespond`), fail (`ServerFail`), or lose the
    request or its response (`ResponseLost`). A lost response may or may not
    have been applied by the server.
- **`ClipboardNotice.tla`** models `handleClipboard` (`Server/func.js` 83-103;
  the fe copies are the same code). It uses a discrete clock `now`. A click
  swaps the notice's classes to shown and schedules a hide callback
  `HideDelay` later. The pending callbacks are a set of due times, since no
  click cancels an earlier one. `HideCallback` runs a due callback.
- **`Transition.tla`** models `transitionCfg` and its `tick` closure
  (`util/transition.js`). Svelte drives it: `Frame(t)` calls `tick` with a t
  that moves monotonically towards the end value without reaching it, and
  `End` calls it with the end value. `t` is in units of `1/Scale`. A frame
  strictly inside (0,1) need not come at all (a short duration, or a busy or
  hidden tab), so `End` may follow `transitionCfg` directly.
- **`Networks.tla`** models `excludePrivateNetworks` (`Device/Components/
  func.js` 59-109) as an operator. An AllowedIPs entry is its address and the
  characters after its first `/`, or `NoSlash`. `PrefixSize` and `ToNumber`
  follow JavaScript: spaces are trimmed, the empty string is 0, a signed
  decimal is its value, anything else is `NaN`, and `JsLess`/`JsGreater`
  are false on `NaN`. `PublicNets` is the table of lines 73-106, one
  `<<a, b, prefix>>` per `a.b.0.0/prefix`. `Call` is the page calling the
  function on the list it holds. The reference is `Excluded` (0/8, 10/8,
  172.16/12, 192.168/16, 224/3), with blocks counted in /16 units.
- **`MCApp.tla`** holds the real table of `fe/src/App/state/routes.js`.
  **`MCRouter.tla`** holds small generic inputs for library use.
  **`MCFetchers.tla`** lists the calls and functions, and **`MCTransition.tla`**
  lists every params shape, and **`MCNetworks.tla`** the prefix texts.
  `ClipboardNotice` needs no MC module.

Each module has a few definitions whose names start with `...NoChildOnShared`,
`...AnyLevel` and the like. These are seeded faults, used to show that each
property can detect a plausible bug (see `mutants` in `PROJECT.json`).

## 3. Runs

| Run | Config | Expect | What it shows |
|---|---|---|---|
| app | `MCApp.cfg` | pass | The application's 10 routes are loaded, then 2 further calls are made. `TrieShape` and `MatchSound` hold over all 1110 paths of up to 3 segments over the table's literals, a value and `constructor`, plus 2 longer ones. `ReverseRoundTrip` holds: every link ReverseURI builds resolves back to its route and values. `RefinesAbstractRouter` holds: loaded in order, the router implements `AbstractRouter` (163 states). |
| router | `MCRouter.cfg` | pass | Up to 5 arbitrary calls, drawn from 3 names, the inherited name `constructor` and the empty name, the patterns of 1-2 segments over `a` and `:x`, an invalid pattern, 12 paths over `a`, `b` and `constructor`, and 9 ReverseURI argument choices. Registration stays consistent, the trie keeps its shape, and every match, cached ones included, is sound. `RefinesCachedRouter` holds: every fresh trie answer is the declarative wildcard-first resolution over the routes registered so far, a static route registered after its path was cached still wins, and a cached answer is the first one its path got (51790 states, about 2 minutes). |
| app_nothrow | `MCApp_LoadedNoThrow.cfg` | violation | Match of `/user/v1/edit/v1` throws a TypeError (code bug). |
| rpc | `MCRpcApi.cfg` | pass | Two calls in flight over all 40 response shapes: Fetch resolves exactly on a 200 JSON response without an error object. |
| rpc_classified | `MCRpcApi_RejectionsClassified.cfg` | violation | A network error, a non-JSON body or a 401 error without data rejects with a ReferenceError (code bug, line 82). |
| fetchers | `MCFetchers.cfg` | pass | All ten fetchers, one IP, two users, one change by another manager, lossy network (71812 states). `ipsetAdd`/`ipsetRemove` resolve with a list that shows their change unless another manager intervened (`MutationVisible`). `getDevices` names every device's user and `getUserWithDevices` never throws when nothing changed during the call. |
| fetchers_typeerror | `MCFetchers_NoTypeError.cfg` | violation | A device added between the two parallel reads makes `getUserWithDevices` throw a TypeError (code bug, User/func.js line 83). |
| clipboard | `MCClipboardNotice.cfg` | pass | Up to 3 clicks within 6 time units, delay 2: once shown, the notice is always hidden again (364 states). |
| clipboard_early_hide | `MCClipboardNotice_ShownForDelay.cfg` | violation | A second click within 2 s has its notice hidden by the first click's timer (code bug, line 98). |
| transition | `MCTransition.cfg` | pass | Intros and outros with every combination of empty or non-empty base/from/to, frames dropped as Svelte may: once the transition has ended, no base class is left (`EndsWithoutBase`; 336 states). |
| transition_from_stuck | `MCTransition_ClassesFollowPhase.cfg` | violation | An intro whose only tick is the end value ends without its `to` classes: `tick` tests the end value before it swaps from for to (code bug, `transition.js` 24). |
| networks | `MCNetworks.cfg` | pass | Every list of up to two entries over `0.0.0.0`, `::` and the prefixes `0`, `00`, `-0`, `8`, `32`, `-1`, empty, ` 0`, `x` or none: whenever the single entry is expanded, the 33 blocks are aligned, disjoint, disjoint from the excluded ranges, and with them cover all 2^16 /16 blocks (842 states). |

Found while modelling, but not kept as runs:
- an `Add` after a `Match` leaves a stale cache entry: after `Add("/a/:x")`,
  `Match("/a/a")` and `Add("/:x/a")`, the cache still answers `/a/:x` where a
  fresh walk gives `/:x/a` (`router.js` 110). The answer is still sound, so
  `MatchSound` holds. `CachedRouter` states this behaviour as the guarantee,
  and the router run checks that nothing else goes stale;
- a route named `constructor` is silently refused, `ReverseURI("constructor")`
  returns the string `undefined`, and `Match("/constructor/x")` throws
  (`router.js` 38, 54, 121);
- `excludePrivateNetworks` also expands `::/0`, an entry with an empty prefix
  and one with a non-numeric prefix, replacing an IPv6 full tunnel with the
  IPv4 table (`Device/Components/func.js` 66);
- a pattern with `:` inside a segment (`/a:b`) is treated as parametrized
  (`router.js` 158);
- a repeated parameter name keeps a literal `:x` segment (`router.js` 175);
- `ReverseURI(name)` of a parametrized route with no params object throws
  (`router.js` 45), where spec §§4.4 and 7 promise "no result";
- `ipsetAdd` can reject although the server added the IP;
- `/device/create` is answered by the static route, not by `/device/:ip`
  (`router.js` 101). Spec §4.3 describes this order and spec §8 the
  opposite; `AbstractRouter` follows §4.3 and the app run checks it.

Each of these is a single step, or a short sequence, of the models above.
No route of either application has a `:` inside a segment, a repeated
parameter name or an inherited name.
`transitionCfg` has no caller under `src/`.

**Bounds.** The runs use patterns of one to three segments. `MaxCalls` (5 in
the router run, 12 in the app run, where the table alone takes 10) allows
three registrations and then a match, which is enough to:
- share a prefix between two routes,
- register a shorter route before and after a longer one,
- register a duplicate,
- match, and then register a route that changes the walk;
- match, register a route that changes the walk, and match again, which is
  where a cached answer and a fresh one differ (four calls).

Every violation above needs at most three calls. `CheckPaths` covers every
path up to one segment longer than any pattern, which is where the walk
throws. Parameter values `v1`/`v2` are never one of the table's literals,
because real uuids and IPs are not `create` or `edit`.

`Fetchers` runs at one IP, two users and one change by another manager.
That is enough for every race the properties are about: a device created or
removed between two parallel reads, a user deleted with their devices, and a
trust-list toggle during an add. Each of those needs one change. The run with
two IPs and two changes took about seven minutes and reached no new kind of
behaviour. `ClipboardNotice` uses `HideDelay` = 2 and `MaxTime` = 6, which
leaves room for a second click inside the first click's delay and for three
overlapping timers. `Networks` checks lists of up to two entries: the function returns every list
of other than one entry unchanged, so two is enough for that branch. The
prefix texts cover each branch of `ToNumber` and of the comparisons: zero
written three ways, positive, negative, empty, spaced, non-numeric and absent.
`Transition` uses `Scale` = 2, so t is 0, ½ or 1, and up
to 3 frames. This covers a repeated frame at the start value, a repeated frame
in the middle, and the end.

**Fairness and liveness.** The router needs none. Every router call is
synchronous and terminates, so the router has nothing that must eventually
happen.

`Fetchers` assumes no fairness and checks no liveness. `RPCApi.Fetch` sets
no timeout and no caller aborts a request, so a request the server never
answers leaves its function, and the page, waiting for good. That every
function settles would hold only by assuming the network always answers,
which is the case the code does not handle.

`ClipboardNotice` assumes weak fairness of `Tick` (time passes) and of the
due callbacks (the event loop runs a due timer). The user need not click.

`Transition` checks no liveness: Svelte's loop is outside the repository.

Deadlock checking is off in every run. A behaviour ends when the call budget
is spent, when the page load or fetch has finished, when the clock reaches
its bound, or when the transition has ended.

## 4. Plan for later sittings

1. **Router, rest.** Insertion through an inherited segment, which writes
   into the `Object` function shared by every map and every trie level.
2. **Retrying callers.** A page that retries a rejected `ipsetAdd` against the
   lossy network of `Fetchers`.

## 5. Not modelled

- **Stores, DOM class helpers, download, clipboard copying.** These are I/O or
  reactivity glue and have no state of their own.
- **formValidate** (`Device/func.js` 101-111, `User/func.js` 108-114). It is a
  few length checks on form fields and changes no state.
- **Patterns with an inherited segment** (`/constructor/...`). `Add` would not
  create a node but write `route` and `child` into the `Object` function,
  which is then the same node at every level of the trie and the value of
  `NameRouteMap.constructor`. No route of either application has one.
- **moveTo / moveBack.** These hand a path to `history`. The component that
  calls `Match` is not under `src/`.
- **The session the check returns.** Its rotation happens on the server, which
  is not under `src/`.
- **`delay`, `duration` and `easing` of `transitionCfg`.** They are handed to
  Svelte unchanged.
- **Strings.** Segments are represented structurally, as described in §2, and
  query strings are opaque values.
