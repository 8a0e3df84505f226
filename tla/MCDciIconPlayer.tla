--------------------------- MODULE MCDciIconPlayer ---------------------------
(* Instances of DciIconPlayer for TLC.                                        *)
EXTENDS DciIconPlayer

CONSTANTS grey, blue

Icon(n, h, p, x) == [m \in Modes |->
    CASE m = "Normal" -> n [] m = "Hover" -> h [] m = "Pressed" -> p [] OTHER -> x]

MCKind == [l \in Looks |->
    CASE l = "lively" -> Icon("still", "animated", "animated", "still")
      [] l = "mixed" -> Icon("still", "animated", "still", "none")
      [] l = "empty" -> Icon("none", "none", "none", "none")
      [] OTHER -> Icon("still", "still", "still", "still")]
MCImages ==
    {<<l, m, k>> \in Looks \X Modes \X {0, 1} : MCKind[l][m] = "animated"}
MCFrames == [i \in Images |-> IF i[2] = "Hover" THEN 2 ELSE 1]
MCLoops == [i \in Images |-> 0]
=============================================================================
