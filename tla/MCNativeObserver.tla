--------------------------- MODULE MCNativeObserver ---------------------------
(* The main thread of Xochitl and two others, two breakpoints, two hits    *)
(* for a counting probe, one failing call and two signals.                 *)
EXTENDS NativeObserver

MCThread     == {1, 2, 3}
MCBreakpoint == {1, 2}
=============================================================================
