--------------------------- MODULE MCPointCloudPath ---------------------------
(* Clouds for TLC: one with more points than samples, whose intervals leave a *)
(* remainder, a short one with a rejected point, one that the obstacle layer  *)
(* refuses, one that cannot be published and one that is malformed.           *)
EXTENDS PointCloudPath

Cloud(header, malformed, points_) ==
    [header |-> header, malformed |-> malformed, points |-> points_]

MCClouds == {Cloud("stamped", FALSE, <<"a", "b", "a", "a", "b", "b", "b", "a">>),
             Cloud("stamped", FALSE, <<"b", "rejected">>),
             Cloud("unstamped", FALSE, <<>>),
             Cloud("unusable", FALSE, <<"a">>),
             Cloud("stamped", TRUE, <<"a">>)}
=============================================================================
