-------------------------- MODULE MCDciImagePlayer --------------------------
(* Instances of DciImagePlayer for TLC.                                       *)
EXTENDS DciImagePlayer

CONSTANTS once, endless, twice, still, grey, blue

MCImages == {once, endless, still}
MCFrames == [i \in Images |-> CASE i = still -> 0 [] i = endless -> 1 [] OTHER -> 2]
MCLoops == [i \in Images |-> CASE i = endless -> -1 [] i = twice -> 2 [] OTHER -> 0]
MCTinted == {once}
MCLists == {<<once>>, <<once, endless>>, <<still, once>>}
TwiceList == {<<twice>>}
MCFlagSets == {
    {},
    {"CacheAll"},
    {"CacheAll", "Continue"},
    {"InvertedOrder", "Continue", "IgnoreLastImageLoop"},
    {"InvertedOrder", "ClearCacheOnStop"}}
=============================================================================
