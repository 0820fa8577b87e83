--------------------------- MODULE ClipboardNotice ---------------------------
(***************************************************************************)
(* The "copied" notice of handleClipboard, src/femanager/spa/src/App/      *)
(* Pages/Server/func.js lines 83-103 (copyToClipboard of the fe pages'     *)
(* Components/func.js is the same code).  A click shows the notice by      *)
(* swapping its classes and schedules, with setTimeout, a callback that    *)
(* hides it 2000 ms later.  Nothing cancels an earlier callback, so the    *)
(* callbacks of several clicks all run.  The copy itself is browser I/O    *)
(* and is left out.                                                        *)
(*                                                                         *)
(* Time is a counter in units of the hide delay's granularity; a callback  *)
(* becomes due HideDelay units after its click and the event loop runs it  *)
(* at some point once it is due.  Callbacks with the same due time do the  *)
(* same thing, so the pending ones are kept as a set of due times.         *)
(***************************************************************************)
EXTENDS Naturals

CONSTANTS
    HideDelay,  \* the setTimeout delay (2000 ms) in time units
    MaxTime,    \* bound on the clock
    MaxClicks   \* bound on the number of clicks

VARIABLES
    classes,    \* elNotice.classList
    timers,     \* due times of the scheduled hide callbacks
    now,        \* the clock
    lastClick,  \* history: time of the latest click (0 before any)
    clicks      \* number of clicks so far

nVars == <<classes, timers, now, lastClick, clicks>>

Shown  == {"opacity-100"}
Hidden == {"opacity-0", "invisible"}

\* Seeded fault: the click shows the notice without scheduling its hiding.
handleClipboardNoTimer ==
    /\ clicks < MaxClicks
    /\ now + HideDelay <= MaxTime
    /\ classes' = (classes \ {"invisible", "opacity-0"}) \cup {"opacity-100"}
    /\ lastClick' = now
    /\ clicks' = clicks + 1
    /\ UNCHANGED <<timers, now>>

\* Lines 95-102: the notice's classes are swapped to shown, and a callback
\* is scheduled HideDelay later.  Clicks are bounded so that every callback
\* falls due within the clock's bound.
handleClipboard ==
    /\ clicks < MaxClicks
    /\ now + HideDelay <= MaxTime
    /\ classes' = (classes \ {"invisible", "opacity-0"}) \cup {"opacity-100"}
    /\ timers' = timers \cup {now + HideDelay}
    /\ lastClick' = now
    /\ clicks' = clicks + 1
    /\ UNCHANGED now

\* Seeded fault: the callback does not make the notice invisible again.
HideCallbackNoInvisible(t) ==
    /\ t \in timers
    /\ t <= now
    /\ classes' = (classes \ {"opacity-100"}) \cup {"opacity-0"}
    /\ timers' = timers \ {t}
    /\ UNCHANGED <<now, lastClick, clicks>>

\* Lines 98-102: a due callback runs and swaps the classes to hidden,
\* whichever click scheduled it.
HideCallback(t) ==
    /\ t \in timers
    /\ t <= now
    /\ classes' = (classes \ {"opacity-100"}) \cup {"opacity-0", "invisible"}
    /\ timers' = timers \ {t}
    /\ UNCHANGED <<now, lastClick, clicks>>

Tick ==
    /\ now < MaxTime
    /\ now' = now + 1
    /\ UNCHANGED <<classes, timers, lastClick, clicks>>

\* The notice's markup starts hidden.
NInit ==
    /\ classes = Hidden
    /\ timers = {}
    /\ now = 0
    /\ lastClick = 0
    /\ clicks = 0

NNext == handleClipboard \/ (\E t \in timers : HideCallback(t)) \/ Tick

\* Time advances and the event loop runs every due callback; the user need
\* not click.
NSpec == NInit /\ [][NNext]_nVars /\ WF_nVars(Tick)
                /\ WF_nVars(\E t \in timers : HideCallback(t))

-----------------------------------------------------------------------------
NTypeOK ==
    /\ classes \in {Shown, Hidden}
    /\ timers \subseteq 0..MaxTime
    /\ now \in 0..MaxTime
    /\ clicks \in 0..MaxClicks

\* Once shown, the notice is eventually hidden again: every click leaves a
\* callback that will hide it, so no click can strand it on screen.
NoticeHidesAgain == (classes = Shown) ~> (classes = Hidden)

\* The notice stays shown for the whole delay after the latest click, as a
\* click that shows it for 2000 ms intends (the "TODO: rework and fix" of
\* line 94 marks this handler).
ShownForDelayAfterLastClick ==
    (clicks > 0 /\ now < lastClick + HideDelay) => classes = Shown
==============================================================================
