------------------------------ MODULE MCStaging -------------------------------
(***************************************************************************)
(* Three routes for ArrivalStaging: an endpoint's own, of no element and   *)
(* no delay, a wire of delay 1, and a wire, a junction and a wire of delay *)
(* 2.                                                                      *)
(***************************************************************************)
EXTENDS ArrivalStaging

MCItems == {1, 2}
MCStamps == {"w1", "j", "w2"}
MCPath == <<<<>>, <<"w1">>, <<"w1", "j", "w2">>>>
MCDelay == <<0, 1, 2>>
MCTransitions == {1}

ASSUME StagingAssumption
=============================================================================
