----------------------------- MODULE MCLifecycle -----------------------------
(***************************************************************************)
(* Two scenes for StructuralLifecycle; a behaviour stays in its own.       *)
(*   board  a fixed substrate with a gate, a second gate whose place       *)
(*          overlaps, a wire from the first gate, and a wire that listens  *)
(*          at the end of that wire                                        *)
(*   yard   two wires that meet at a junction, and a mobile that can be    *)
(*          placed at either end of the first and may carry a wire from a  *)
(*          port of its own; the second wire of the open world ends there  *)
(*          too, and is never bound to it                                  *)
(***************************************************************************)
EXTENDS StructuralLifecycle, TLC

Board == {"f", "g", "h", "w", "v"}
Yard == {"r1", "r2", "j", "m", "k"}
YardIds == 4
YardDamage == 1
YardSites == {"k"}

MCPlans == Board \cup Yard
MCKind == [f |-> "fixed", g |-> "gate", h |-> "gate", w |-> "wire", v |-> "wire",
           r1 |-> "wire", r2 |-> "wire", j |-> "junction", m |-> "mobile", k |-> "wire"]
MCHost == [p \in MCPlans |-> IF p \in Board \ {"f"} THEN "f" ELSE IF p = "k" THEN "m" ELSE "open"]
MCClash == {{p} : p \in Board} \cup {{"g", "h"}, {"r1"}, {"r2"}, {"k"}}
MCTouch == [w |-> [A |-> {"g"}, B |-> {}], v |-> [A |-> {"w"}, B |-> {}],
            r1 |-> [A |-> {}, B |-> {"j"}], r2 |-> [A |-> {"j"}, B |-> {"m"}],
            k |-> [A |-> {"m"}, B |-> {}]]
MCStation == [m |-> {<<"r1", "A">>, <<"r1", "B">>}]

OneScene ==
    LET plans == {entities[e].plan : e \in Live}
    IN  \/ plans \subseteq Board
        \/ /\ plans \subseteq Yard
           /\ Len(entities) <= YardIds /\ Cardinality(pending) <= YardDamage
           /\ \A s \in Sites : entities[s].plan \in YardSites
=============================================================================
