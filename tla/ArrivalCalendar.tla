-------------------------- MODULE ArrivalCalendar --------------------------
(***************************************************************************)
(* What the calendar of signal arrivals promises (the abstract view of     *)
(* event.rs, path_certificate.rs and of the transaction around a step in   *)
(* simulation.rs): a step delivers every arrival that is due, exactly as   *)
(* it was sent, along with nothing else, and keeps the others.  A step     *)
(* that fails has no effect at all.                                        *)
(***************************************************************************)
EXTENDS Naturals

CONSTANTS
    Items,      \* what an arrival carries: driver, sink, sample, kind
    Paths       \* the paths of stamped elements it may be sent along

VARIABLES
    now,        \* the tick of the next step
    inFlight,   \* arrivals sent and not yet due
    delivered   \* arrivals the last completed step delivered

Sent == [due : Nat, item : Items, path : Paths]

Init == now = 0 /\ inFlight = {} /\ delivered = {}

(* One completed step: it sends any arrivals that are not overdue.         *)
Step ==
    /\ now' = now + 1
    /\ \A a \in delivered' : a.due = now
    /\ \A a \in inFlight' : a.due > now
    /\ \A a \in inFlight : a \in delivered' \cup inFlight'
    /\ \A a \in (delivered' \cup inFlight') \ inFlight : a \in Sent

Spec == Init /\ [][Step]_<<now, inFlight, delivered>>
=============================================================================
