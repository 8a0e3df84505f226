------------------------ MODULE MCThumbnailProvider ------------------------
(* Instances of ThumbnailProvider for TLC.                                    *)
EXTENDS ThumbnailProvider

CONSTANTS gui, other, run, k1, k2

OneCaller == {gui}
TwoCallers == {gui, other}
TwoKeys == {k1, k2}
=============================================================================
