---------------------------- MODULE MCTransition ----------------------------
EXTENDS Transition

\* Every combination of direction and of empty or one-class base, from and to.
MCParamChoices ==
    [isOut : BOOLEAN, base : {{}, {"b"}}, from : {{}, {"f"}}, to : {{}, {"t"}}]
==============================================================================
