----------------------------- MODULE MCFleetRun -----------------------------
(* Instances of FleetRun: the live frame alone in its zone, a zone of two     *)
(* devices and a zone of one.                                                 *)
EXTENDS FleetRun, TLC

Order == <<"adsbfi", "adsblol">>
Zoning == (1 :> 1) @@ (2 :> 2) @@ (3 :> 2) @@ (4 :> 3)
=============================================================================
