--------------------------- MODULE MCRequestGate ---------------------------
(* Two requests, at two processes, two tiers of keys beside the anonymous. *)
EXTENDS RequestGate, TLC

CONSTANTS w1, w2, q1, q2, anonymous, free, primary

OneEach == q1 :> w1 @@ q2 :> w2
SmallLimits == anonymous :> 1 @@ free :> 1 @@ primary :> NoLimit
=============================================================================
