--------------------------- MODULE MCDamageAndWork ---------------------------
(***************************************************************************)
(* What wears things down and what builds them up, each for itself; a      *)
(* behaviour stays in its own part.                                        *)
(*   work    Construction: a wire that bends and a junction to be built;   *)
(*           two mobiles that may work at both, at one of them, or at none *)
(*   damage  ContactDamage: a core in a corner, two wires that cross, a    *)
(*           gate; one hostile that runs along a wire into the core, one   *)
(*           that crosses both wires and flies on                          *)
(***************************************************************************)
EXTENDS Construction, TLC

VARIABLES
    part,
    tick, running, alive, position, integrity, heat, pending,
    temperature, granted, losses, cancelled, contacts, interaction_heat, exposures

MCTarget == (1 :> [kind |-> "wire", points |-> <<<<0, 0>>, <<4, 0>>, <<4, 4>>>>])
            @@ (2 :> [kind |-> "junction", at |-> <<6, 2>>])
MCRequiredWork == (1 :> 3) @@ (2 :> 2)
MCStations == {<<0, 2>>, <<5, 2>>, <<7, 2>>}
MCFootprintOf == [min |-> <<-1, -1>>, max |-> <<1, 1>>]
MCPowerPerWork == <<3, 2>>
MCRatios == {<<1, 4>>, <<3, 4>>}

MCPoints == (2 :> <<<<0, 0>>, <<4, 0>>>>) @@ (3 :> <<<<3, -2>>, <<3, 2>>, <<5, 2>>>>)
MCIntegrity == (1 :> 2) @@ (2 :> 3) @@ (3 :> 1) @@ (4 :> 1) @@ (7 :> 2) @@ (8 :> 3)

Damages == INSTANCE ContactDamage
           WITH Core <- 1, Wires <- {2, 3}, Appliances <- {4}, Enemies <- {7, 8},
                Points <- MCPoints, CorePosition <- <<0, 1>>,
                Origin <- (7 :> <<5, 1>>) @@ (8 :> <<4, 4>>),
                Velocity <- (7 :> <<-2, 0>>) @@ (8 :> <<0, -3>>),
                Radius <- (7 :> 1) @@ (8 :> 0), BodyRadius <- 1,
                Integrity <- MCIntegrity, Conductivity <- 2, Leak <- 1, Attack <- 2,
                Tolerance <- 2, Safe <- 1, Rate <- <<1, 2>>, HeatFraction <- <<1, 2>>,
                HeatCapacity <- 1, Offers <- {0, 7}, MaxTick <- 3

ASSUME Damages!ContactAssumption

work == <<state, completed, ready, at, build, ratio, intent, applied>>
damage == <<tick, running, alive, position, integrity, heat, pending,
            temperature, granted, losses, cancelled, contacts, interaction_heat, exposures>>

NoWork ==
    /\ state = [s \in Sites |-> "none"] /\ completed = [s \in Sites |-> 0]
    /\ ready = [s \in Sites |-> FALSE] /\ at = <<>> /\ build = <<>>
    /\ ratio = <<>> /\ intent = [b \in Builders |-> Nothing] /\ applied = Idle
NoDamage ==
    /\ tick = 0 /\ running = TRUE /\ alive = {} /\ position = <<>> /\ integrity = <<>>
    /\ heat = <<>> /\ pending = {} /\ temperature = <<>> /\ granted = <<>> /\ losses = {}
    /\ cancelled = {} /\ contacts = {} /\ interaction_heat = {} /\ exposures = {}

BothInit ==
    \/ part = "work" /\ Init /\ NoDamage
    \/ part = "damage" /\ Damages!Init /\ NoWork
TickOfWork == part = "work" /\ Tick /\ UNCHANGED <<part, damage>>
BothNext ==
    \/ TickOfWork
    \/ part = "work" /\ Surroundings /\ UNCHANGED <<part, damage>>
    \/ part = "damage" /\ Damages!Next /\ UNCHANGED <<part, work>>
\* The host goes on stepping, whatever mobiles, signals and power do.
BothSpec == BothInit /\ [][BothNext]_<<part, vars, damage>> /\ WF_<<part, vars, damage>>(TickOfWork)

-----------------------------------------------------------------------------

\* With more than half of its power a builder that stays gets its site done.
NobodyBuildsInVain == \A s \in Sites : []<>(part = "work" => ~Attended(s))

\* What a live wire was granted is absorbed or heats it, to the unit; nobody
\* hits twice; exactly what has lost its integrity waits to be removed; no heat
\* is lost between the phases, and the heat of a tick does no damage before the
\* next.
DamageAccounted ==
    /\ [](part = "damage" => /\ Damages!TypeOK /\ Damages!LiveEnergyAccounted
                            /\ Damages!OneBlowEach /\ Damages!PendingIsLost)
    /\ [][part = "damage" => Damages!Accumulates /\ Damages!Lags]_damage
=============================================================================
