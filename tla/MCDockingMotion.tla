--------------------------- MODULE MCDockingMotion ---------------------------
(* Errors for TLC: inside the stop tolerance, between it and the completion  *)
(* tolerance, and outside on both sides; for yaw also between the two        *)
(* thresholds of the translation gate and above them.                        *)
EXTENDS DockingMotion

MCErrors == [x : {-3, 0, 2, 3}, y : {-3, 0, 3}, yaw : {-3, 0, 4, 5}]
=============================================================================
