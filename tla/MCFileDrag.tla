----------------------------- MODULE MCFileDrag -----------------------------
(* Two drags of one source, two clients of the receiver.                      *)
EXTENDS FileDrag
=============================================================================
