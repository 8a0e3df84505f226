-------------------------- MODULE MCPlatformHandle --------------------------
(* Two handles of one window.                                                 *)
EXTENDS PlatformHandle

CONSTANTS h1, h2

MCHandles == {h1, h2}

=============================================================================
