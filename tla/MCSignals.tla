----------------------------- MODULE MCSignals ------------------------------
(***************************************************************************)
(* Two networks for SignalDelivery; a behaviour builds in one of them.     *)
(*   Parallel  one gate output and one gate input, with a long and a short *)
(*             wire that can each join them: signals sent along one can    *)
(*             overtake those sent along the other.  The input also has its *)
(*             external driver, which reaches it without a wire.           *)
(*   Junction  a gate output and a gate input joined by two wires through a *)
(*             junction: what happens to one wire or to the junction touches *)
(*             the route over the other.  Only the wire ends at the junction *)
(*             can be rebound.                                             *)
(***************************************************************************)
EXTENDS SignalDelivery, TLC

Parallel == {1, 2, 3, 4}
Junction == {5, 6, 7, 8, 9}
ParallelEdits == 5
ParallelTicks == 4

MCGates == {1, 2, 5, 6}
MCWires == {3, 4, 7, 8}
MCJunctions == {9}
MCPorts == {"out", "in", "far out", "far in"}
MCPortGate == ("out" :> 1) @@ ("in" :> 2) @@ ("far out" :> 5) @@ ("far in" :> 6)
MCDrivers == {1, 2, 3}
MCSinks == {1, 2}
MCDriverPort == <<"out", "in", "far out">>
MCSinkPort == <<"in", "far in">>
MCLength == [w \in MCWires |-> IF w = 3 THEN 2 ELSE 1]
MCSegments == [w \in MCWires |-> 1]
MCLinearK == <<1, 2>>
MCQuadraticK == <<1, 2>>
MCReach ==
    [w \in {3, 4} |-> [e \in {"A", "B"} |->
        {<<"free">>, <<"port", IF e = "A" THEN "out" ELSE "in">>}]]
    @@ (7 :> [A |-> {<<"port", "far out">>}, B |-> {<<"free">>, <<"junction", 9>>}])
    @@ (8 :> [A |-> {<<"free">>, <<"junction", 9>>}, B |-> {<<"port", "far in">>}])
MCOutputs == {<<"Low", 0>>, <<"High", 2>>}

Untouched(places) ==
    /\ \A g \in Gates \cap places : gates[g] = "absent"
    /\ \A w \in Wires \cap places : wires[w].state = "absent"
    /\ \A j \in Junctions \cap places : junctions[j].state = "absent"
OneNetwork ==
    \/ Untouched(Parallel)
    \/ Untouched(Junction) /\ edits <= ParallelEdits /\ tick <= ParallelTicks
=============================================================================
