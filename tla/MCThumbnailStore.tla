--------------------------- MODULE MCThumbnailStore ---------------------------
(* Instances of ThumbnailStore for TLC.                                       *)
EXTENDS ThumbnailStore

CONSTANTS photo, gui
=============================================================================
