--------------------------- MODULE MCTagAcquisition ---------------------------
(* TagAcquisition with a table that undocks on time and a box that undocks    *)
(* relative to its tag, seen by the same camera.                              *)
EXTENDS TagAcquisition

OneCamera == [name \in Names |-> "front"]
=============================================================================
