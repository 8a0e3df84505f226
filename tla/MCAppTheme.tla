----------------------------- MODULE MCAppTheme -----------------------------
(* Constants of the run of AppTheme                                           *)
EXTENDS AppTheme

MCRoles == {"Window", "Base"}

Start(p, d, e, s) == [platform |-> p, dontSave |-> d, env |-> e, saved |-> s]
MCStarts ==
    {Start("xcb", FALSE, None, "unknown"), Start("xcb", FALSE, None, "dark"),
     Start("xcb", TRUE, "compact", "light"), Start("treeland", FALSE, None, "light")}
=============================================================================
