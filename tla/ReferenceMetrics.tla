---- MODULE ReferenceMetrics ----
(* The metrics of a reference run (reference_metrics.rs): a collector reduces
   the reports of completed ticks to totals, peaks, kills and, for every
   response row, the ticks of stimulus and response; `finish` checks the result
   as a reader of it would.  A report carries what the reduction tells apart. *)
EXTENDS Integers, Sequences, FiniteSets, SequencesExt, FiniteSetsExt

CONSTANTS
    Rows,          \* response observations: a sensor, a defense wire, an enemy
    Enemies,       \* enemies bound to the run
    MaxTicks,      \* boundary of the longest run offered
    MaxTotal,      \* largest total an accumulator holds (u128)
    StartCore,     \* integrity of the main core before the run
    Contents       \* what the reports of a tick may hold

MetricsAssumption ==
    /\ MaxTicks \in Nat \ {0} /\ MaxTotal \in Nat /\ StartCore \in Nat \ {0}
    /\ \A c \in Contents : c.sensed \subseteq Rows /\ c.touched \subseteq Rows

VARIABLES
    bounds,      \* ReferenceMetricBoundaries: buildEnd, start, max
    collector,   \* ReferenceMetricCollector
    tape,        \* the reports it accepted
    reported     \* "collecting", "reported", "refused", or "incoherent"

metricVars == <<bounds, collector, tape, reported>>

None == -1

(* ---------------- boundaries and the collector ---------------- *)

\* ReferenceMetricBoundaries::validate
BoundsAreOrdered(b) == b.buildEnd <= b.start /\ b.start < b.max

NewCollector(b) ==
    [expected |-> 0, ended |-> FALSE, core |-> StartCore,
     startCore |-> IF b.start = 0 THEN StartCore ELSE None,
     energy |-> 0, brownouts |-> 0, peak |-> None, last |-> None, integral |-> 0,
     killed |-> {}, stimulus |-> [r \in Rows |-> None], response |-> [r \in Rows |-> None]]

\* validate_tick
Fits(c, b, report) ==
    /\ ~c.ended /\ c.expected < b.max
    /\ report.completed = c.expected
    /\ report.next = c.expected + 1
    /\ report.genuine                 \* the snapshot has the report's tick, hash and status

\* What reduce_window_tick requires before it adds anything up.
IsReducible(c, report) ==
    /\ report.complete                \* power report, accounting, support, rows in order
    /\ Rows \subseteq report.present  \* every row has its sense row
    /\ \A r \in Rows : (c.stimulus[r] = None /\ r \in report.touched) => r \in report.sensed

InWindow_Always(b, report) == report.next > 0
InWindow(b, report) == report.completed >= b.start

\* reduce_window_tick after its checks; each stage is what an overflow leaves.
WithPower(c, report) ==
    [c EXCEPT !.energy = @ + report.energy, !.brownouts = @ + (IF report.brownout THEN 1 ELSE 0)]
WithCapacity(c, report) ==
    [c EXCEPT !.peak = IF @ >= report.used THEN @ ELSE report.used,
              !.last = report.used, !.integral = @ + report.used]
WithResponses(c, report) ==
    LET stimulus == [r \in Rows |-> IF c.stimulus[r] = None /\ r \in report.sensed
                                    THEN report.completed ELSE c.stimulus[r]]
    IN [c EXCEPT !.killed = @ \cup (report.killed \cap Enemies),
                 !.stimulus = stimulus,
                 !.response = [r \in Rows |->
                     IF stimulus[r] # None /\ @[r] = None /\ r \in report.touched
                     THEN report.completed ELSE @[r]]]

Reduced(c, report) ==
    LET powered == WithPower(c, report)
        counted == WithCapacity(powered, report)
    IN IF ~IsReducible(c, report) THEN [fails |-> TRUE, left |-> c]
       ELSE IF powered.energy > MaxTotal THEN [fails |-> TRUE, left |-> c]
       ELSE IF counted.integral > MaxTotal THEN [fails |-> TRUE, left |-> powered]
       ELSE [fails |-> FALSE, left |-> WithResponses(counted, report)]

Stamped(c, b, report) ==
    IF report.next = b.start THEN [c EXCEPT !.startCore = report.core] ELSE c
Advanced(c, report) ==
    [c EXCEPT !.expected = report.next, !.ended = report.ended, !.core = report.core]

Observed_InPlace(c, b, report) ==
    LET reduced == IF InWindow(b, report) THEN Reduced(Stamped(c, b, report), report)
                   ELSE [fails |-> FALSE, left |-> Stamped(c, b, report)]
    IN IF ~Fits(c, b, report) THEN [fails |-> TRUE, left |-> c]
       ELSE IF reduced.fails THEN reduced
       ELSE [fails |-> FALSE, left |-> Advanced(reduced.left, report)]

\* observe_sample: the tick is reduced on a copy that replaces the collector.
Observed(c, b, report) ==
    LET reduced == IF InWindow(b, report) THEN Reduced(Stamped(c, b, report), report)
                   ELSE [fails |-> FALSE, left |-> Stamped(c, b, report)]
    IN IF ~Fits(c, b, report) \/ reduced.fails THEN [fails |-> TRUE, left |-> c]
       ELSE [fails |-> FALSE, left |-> Advanced(reduced.left, report)]

(* ---------------- finish ---------------- *)

\* finish: what must be there for a result to be made at all.
IsFinishable(c, b) ==
    /\ c.ended \/ c.expected = b.max
    /\ b.start < c.expected
    /\ c.startCore # None /\ c.peak # None
    /\ c.core <= c.startCore
    /\ \A r \in Rows : c.stimulus[r] # None /\ c.response[r] # None

\* validate_metric_result
IsCoherent(c, b) ==
    /\ BoundsAreOrdered(b) /\ b.start < c.expected /\ c.expected <= b.max
    /\ c.peak >= c.last
    /\ IF c.ended THEN c.core = 0 ELSE c.expected = b.max
    /\ \A r \in Rows :
           /\ b.start <= c.stimulus[r] /\ c.stimulus[r] <= c.response[r]
           /\ c.response[r] < c.expected

(* ---------------- the run ---------------- *)

InitMetrics ==
    /\ bounds \in {b \in [buildEnd : 0..MaxTicks, start : 0..MaxTicks, max : 1..MaxTicks] :
                      BoundsAreOrdered(b)}
    /\ collector = NewCollector(bounds)
    /\ tape = <<>>
    /\ reported = "collecting"

\* Reports as the simulation makes them: the core never heals and the run ends
\* with it.  `lapse` is what may go wrong between the simulation and here.
Shift(lapse) == CASE lapse = "repeated" -> -1 [] lapse = "skipped" -> 1 [] OTHER -> 0
Reports ==
    {[completed |-> collector.expected + Shift(content.lapse),
      next |-> collector.expected + 1 + Shift(content.lapse),
      genuine |-> content.lapse # "foreign", core |-> core, ended |-> core = 0,
      complete |-> content.complete, present |-> content.present, energy |-> content.energy,
      brownout |-> content.brownout, used |-> content.used, sensed |-> content.sensed,
      touched |-> content.touched, killed |-> content.killed] :
        core \in 0..collector.core, content \in Contents}

Observe ==
    /\ reported = "collecting"
    /\ \E report \in Reports :
           LET observed == Observed(collector, bounds, report) IN
           /\ collector' = observed.left
           /\ tape' = IF observed.fails THEN tape ELSE Append(tape, report)
    /\ UNCHANGED <<bounds, reported>>

FinishRun ==
    /\ reported = "collecting"
    /\ reported' = IF ~IsFinishable(collector, bounds) THEN "refused"
                   ELSE IF IsCoherent(collector, bounds) THEN "reported" ELSE "incoherent"
    /\ UNCHANGED <<bounds, collector, tape>>

NextMetrics == Observe \/ FinishRun

(* ---------------- properties ---------------- *)

Window == SelectSeq(tape, LAMBDA report : report.completed >= bounds.start)
Total(value(_)) == FoldLeft(LAMBDA sum, report : sum + value(report), 0, Window)
Firsts(ticks) == IF ticks = {} THEN None ELSE Min(ticks)
Sensed(r) == Firsts({report.completed : report \in {p \in ToSet(Window) : r \in p.sensed}})
Touched(r) ==
    Firsts({report.completed : report \in
               {p \in ToSet(Window) : r \in p.touched /\ Sensed(r) # None /\ p.completed >= Sensed(r)}})

\* The collector is exactly what the accepted reports from the measurement start
\* on add up to, in one pass or in any other: a refused report, whatever stage
\* it failed in, leaves no trace (observe_sample), and no wire defends before
\* its sensor has seen anything (reduce_window_tick).
TraceIsReduced ==
    /\ \A i \in DOMAIN tape : tape[i].completed = i - 1
    /\ collector.expected = Len(tape)
    /\ collector.core = IF tape = <<>> THEN StartCore ELSE Last(tape).core
    /\ collector.startCore = IF bounds.start = 0 THEN StartCore
                             ELSE IF Len(tape) < bounds.start THEN None ELSE tape[bounds.start].core
    /\ collector.energy = Total(LAMBDA report : report.energy)
    /\ collector.integral = Total(LAMBDA report : report.used)
    /\ collector.brownouts = Total(LAMBDA report : IF report.brownout THEN 1 ELSE 0)
    /\ collector.peak = IF Window = <<>> THEN None ELSE Max({p.used : p \in ToSet(Window)})
    /\ collector.last = IF Window = <<>> THEN None ELSE Last(Window).used
    /\ collector.killed = UNION {p.killed : p \in ToSet(Window)} \cap Enemies
    /\ \A r \in Rows :
           /\ collector.stimulus[r] = Sensed(r) /\ collector.response[r] = Touched(r)
           /\ \A p \in ToSet(Window) :
                  r \in p.touched => Sensed(r) # None /\ Sensed(r) <= p.completed

\* finish hands out a result exactly for a run that was measured to its end and
\* answered every stimulus, and never stumbles over its own validation.
ResultIsCoherent ==
    /\ reported # "incoherent"
    /\ reported = "reported" <=>
          /\ reported # "collecting"
          /\ Len(tape) = bounds.max \/ (tape # <<>> /\ Last(tape).core = 0)
          /\ Window # <<>>
          /\ \A r \in Rows : Touched(r) # None
====
