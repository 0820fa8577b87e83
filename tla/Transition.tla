------------------------------ MODULE Transition ------------------------------
(***************************************************************************)
(* transitionCfg of src/femanager/spa/src/App/util/transition.js: a Svelte *)
(* transition that moves an element from its `from` classes to its `to`    *)
(* classes, with `base` classes present while it runs.  The call adds base *)
(* and from and returns a tick(t) callback with its own `started` flag;    *)
(* Svelte then calls tick with t running from 0 to 1 for an intro and from *)
(* 1 to 0 for an outro (isOut), one call per animation frame, and a last   *)
(* call with the end value.  Frames are dropped when the page is busy or   *)
(* in the background, so a frame strictly between the ends need not come. *)
(*                                                                         *)
(* t is kept in units of 1/Scale.  Class lists are sets of class names.    *)
(***************************************************************************)
EXTENDS Naturals

CONSTANTS
    ParamChoices,   \* the params objects: [isOut, base, from, to] (class sets)
    Markup,         \* the element's own classes
    Scale,          \* t = 1 is Scale
    MaxFrames       \* bound on the frames before the end

VARIABLES
    p,          \* the params of the transition
    classes,    \* node.classList
    started,    \* the closure's started flag
    phase,      \* "none" | "running" | "ended"
    lastT,      \* the t of the latest tick
    frames,     \* frames delivered so far
    midFrames   \* history: frames delivered with 0 < t < 1

tVars == <<p, classes, started, phase, lastT, frames, midFrames>>

IsIn == ~p.isOut
StartT == IF IsIn THEN 0 ELSE Scale
EndT == IF IsIn THEN Scale ELSE 0

\* Seeded fault: the `params.base ? ... : []` guard dropped, so that an
\* empty base splits into one empty class name.
transitionCfgNoEmptyGuard ==
    /\ phase = "none"
    /\ classes' = classes \cup (IF p.base = {} THEN {""} ELSE p.base) \cup p.from
    /\ started' = FALSE
    /\ phase' = "running"
    /\ lastT' = StartT
    /\ UNCHANGED <<p, frames, midFrames>>

\* Lines 5-18: base and from are added and the closure's flag is cleared.
transitionCfg ==
    /\ phase = "none"
    /\ classes' = classes \cup p.base \cup p.from
    /\ started' = FALSE
    /\ phase' = "running"
    /\ lastT' = StartT
    /\ UNCHANGED <<p, frames, midFrames>>

\* Seeded fault: only the intro's end value recognised as the end.
tickEndInOnly(t) ==
    IF t = Scale /\ IsIn
    THEN classes' = classes \ p.base /\ UNCHANGED started
    ELSE IF started THEN UNCHANGED <<classes, started>>
    ELSE IF (t > 0 /\ IsIn) \/ (t < Scale /\ p.isOut)
    THEN started' = TRUE /\ classes' = (classes \ p.from) \cup p.to
    ELSE UNCHANGED <<classes, started>>

\* Lines 23-46: at the end value base is removed; otherwise, the first tick
\* past the start value swaps from for to, and later ticks do nothing.
tick(t) ==
    IF (t = Scale /\ IsIn) \/ (t = 0 /\ p.isOut)
    THEN classes' = classes \ p.base /\ UNCHANGED started
    ELSE IF started THEN UNCHANGED <<classes, started>>
    ELSE IF (t > 0 /\ IsIn) \/ (t < Scale /\ p.isOut)
    THEN started' = TRUE /\ classes' = (classes \ p.from) \cup p.to
    ELSE UNCHANGED <<classes, started>>

\* Svelte calls tick on an animation frame with a t that has moved towards
\* the end value without reaching it.
Frame(t) ==
    /\ phase = "running"
    /\ frames < MaxFrames
    /\ IF IsIn THEN lastT <= t /\ t < Scale ELSE 0 < t /\ t <= lastT
    /\ tick(t)
    /\ lastT' = t
    /\ frames' = frames + 1
    /\ midFrames' = IF 0 < t /\ t < Scale THEN midFrames + 1 ELSE midFrames
    /\ UNCHANGED <<p, phase>>

\* The end time has passed: Svelte calls tick with the end value, whether
\* or not any frame strictly inside the transition came before.
End ==
    /\ phase = "running"
    /\ tick(EndT)
    /\ lastT' = EndT
    /\ phase' = "ended"
    /\ UNCHANGED <<p, frames, midFrames>>

TInit ==
    /\ p \in ParamChoices
    /\ classes = Markup
    /\ started = FALSE
    /\ phase = "none"
    /\ lastT = 0
    /\ frames = 0
    /\ midFrames = 0

TNext == transitionCfg \/ (\E t \in 0..Scale : Frame(t)) \/ End

TSpec == TInit /\ [][TNext]_tVars

-----------------------------------------------------------------------------
TTypeOK ==
    /\ phase \in {"none", "running", "ended"}
    /\ lastT \in 0..Scale
    /\ frames \in 0..MaxFrames
    /\ started \in BOOLEAN
    /\ classes \subseteq Markup \cup p.base \cup p.from \cup p.to

\* Once the transition has ended, none of its base classes is left on the
\* element, for intros (t reaches 1) and outros (t reaches 0) alike: the
\* end-value test of line 24 must recognise both directions, or the base
\* classes stay for good.
EndsWithoutBase == phase = "ended" => classes \cap p.base = {}

\* The element is in the from state until the first frame that moves, in
\* the to state after it, with the base classes throughout, and in the to
\* state without them once the transition has ended, for intros and
\* outros alike.
ClassesFollowPhase ==
    /\ phase = "running" /\ midFrames = 0 => classes = Markup \cup p.base \cup p.from
    /\ phase = "running" /\ midFrames > 0 => classes = Markup \cup p.base \cup p.to
    /\ phase = "ended" => classes = Markup \cup p.to
==============================================================================
