-------------------------------- MODULE Sim --------------------------------
(***************************************************************************)
(* sim.rs: the constants of a design - netlist ties, set_logic_*,          *)
(* set_case_analysis, tie cells - seeded in that order, propagated through *)
(* a work list of instances, and the timing arcs they cut or narrow.       *)
(*                                                                         *)
(* A function of a cell is a table from the set of its pins that are 1 to  *)
(* the output. A pin's value is "0", "1", "rise" or "fall" (only that edge *)
(* passes), or Unknown; "x" (set_logic_dc) is a constraint value that no   *)
(* value agrees with. Names are resolved to pins by the constant Cases.    *)
(***************************************************************************)
EXTENDS Naturals, Sequences, FiniteSets, FiniteSetsExt, SequencesExt

CONSTANTS
  Insts,      \* instances
  InPins,     \* per instance, its input pins
  OutPins,    \* per instance, its output pins
  Support,    \* per output pin, the pins its function reads; {} with no function
  Function,   \* per output pin, [SUBSET Support -> Levels]
  DisableOf,  \* per output pin, the pin whose 1 disables it (three_state), or NoPin
  InPorts, OutPorts,
  Loads,      \* per driver (input port, output pin), the pins and ports of its net
  Ties,       \* <<pin, value>> tied in the netlist
  Arcs,       \* timing arcs <<instance, from, to>>
  Cases,      \* the commands a file may hold: [case, value, pins]
  MaxCases,   \* bound on their number
  Unknown, NoPin

Pins == (UNION {InPins[i] \cup OutPins[i] : i \in Insts}) \cup InPorts \cup OutPorts
Drivers == (UNION {OutPins[i] : i \in Insts}) \cup InPorts
InstOf(p) == CHOOSE i \in Insts : p \in InPins[i] \cup OutPins[i]
Levels == {"0", "1"}
Transitions == {"rise", "fall"}
Values == Levels \cup Transitions \cup {Unknown}
Inputs == UNION {InPins[i] : i \in Insts}

\* A function is enumerated over its free pins up to this many.
FreePorts == 16

\* What the constants are.
ConstantsOK ==
  /\ \A c \in Cases : /\ c.case \in BOOLEAN /\ c.pins \subseteq Pins
                      /\ c.value \in Levels \cup Transitions \cup {"x"}
  /\ IsFiniteSet(Pins) /\ IsFiniteSet(Ties) /\ Ties \subseteq Pins \X Levels
  /\ Unknown \notin Levels \cup Transitions /\ MaxCases \in Nat
  \* a pin is of one instance, or a port, and has one direction
  /\ \A i, j \in Insts : i # j => (InPins[i] \cup OutPins[i]) \cap (InPins[j] \cup OutPins[j]) = {}
  /\ \A i, j \in Insts : InPins[i] \cap OutPins[j] = {}
  /\ \A i \in Insts : (InPins[i] \cup OutPins[i]) \cap (InPorts \cup OutPorts) = {}
  /\ InPorts \cap OutPorts = {}
  /\ \A i \in Insts : \A o \in OutPins[i] :
       /\ Support[o] \subseteq InPins[i] /\ DisableOf[o] \in InPins[i] \cup {NoPin}
       /\ {} \in DOMAIN Function[o] => Function[o] \in [SUBSET Support[o] -> Levels]
       \* of more free pins the code gives no value and keeps the library's sense
       /\ Cardinality(Support[o]) <= FreePorts
       \* a function that reads pins is not constant: without a value it is not evaluated
       /\ {} \in DOMAIN Function[o] /\ Support[o] # {} =>
            \E S, T \in SUBSET Support[o] : Function[o][S] # Function[o][T]
  /\ DOMAIN Loads = Drivers
  \* a net has one driver
  /\ \A d, e \in Drivers : d # e => Loads[d] \cap Loads[e] = {}
  /\ \A d \in Drivers : Loads[d] \subseteq Inputs \cup OutPorts
  /\ \A a \in Arcs : a[1] \in Insts /\ a[2] \in InPins[a[1]] /\ a[3] \in OutPins[a[1]]

VARIABLES
  cases,    \* the commands, in file order
  phase,    \* "seed", "propagate", "senses" or "done"
  seeds,    \* <<pin, value>> still to be seeded, in order
  value,    \* what each pin holds
  queue,    \* instances to re-evaluate, in order
  annotate, \* instances that got a value on a pin
  warned,   \* pins a value differed from the constraint of
  sense     \* per arc, its sense once the constants are substituted

vars == <<cases, phase, seeds, value, queue, annotate, warned, sense>>

-----------------------------------------------------------------------------
(* Seeds and constraints                                                   *)

\* A command that names no pin (an object that is not resolved) is said and skipped.
PinsOf(c) == [k \in 1 .. Cardinality(c.pins) |-> <<SetToSeq(c.pins)[k], c.value>>]
SeedsOf(cs, case) ==
  FlattenSeq([k \in DOMAIN cs |-> IF cs[k].case = case THEN PinsOf(cs[k]) ELSE <<>>])

LogicSeeds(cs) == SeedsOf(cs, FALSE)
CaseSeeds(cs) == SeedsOf(cs, TRUE)

\* Case values before logic values, and so under them.
Constraints(cs) == LogicSeeds(cs) \o CaseSeeds(cs)

\* The constraint on a pin: the last in that order; Unknown when there is none.
Constraint(p) ==
  LET K == {k \in DOMAIN Constraints(cases) : Constraints(cases)[k][1] = p}
  IN IF K = {} THEN Unknown
     ELSE Constraints(cases)[CHOOSE k \in K : \A j \in K : j <= k][2]

Constrained(p) == \E k \in DOMAIN Constraints(cases) : Constraints(cases)[k][1] = p

\* Outputs of tie cells: a function of nothing.
TieCells == {o \in Drivers \ InPorts : Support[o] = {} /\ {} \in DOMAIN Function[o]}

Init ==
  /\ cases \in UNION {[1 .. n -> Cases] : n \in 0 .. MaxCases}
  /\ phase = "seed"
  /\ seeds = SetToSeq(Ties) \o Constraints(cases)
             \o SetToSeq({<<o, Function[o][{}]>> : o \in TieCells})
  /\ value = [p \in Pins |-> Unknown]
  /\ queue = <<>>
  /\ annotate = {}
  /\ warned = {}
  /\ sense = [a \in Arcs |-> "library"]

-----------------------------------------------------------------------------
(* set_pin_value                                                           *)

State == [value |-> value, queue |-> queue, annotate |-> annotate, warned |-> warned]

Update(s) ==
  /\ value' = s.value /\ queue' = s.queue /\ annotate' = s.annotate /\ warned' = s.warned

\* The value a pin is set to is the value of X no pin has.
ValueOf(v) == IF v = "x" THEN Unknown ELSE v
Differs(p, v) == Constrained(p) /\ ValueOf(Constraint(p)) # v

\* A queue an instance enters once per run.
QueuedOnce(s, i) == IF i \in s.annotate THEN s.queue ELSE Append(s.queue, i)

\* An instance is queued again unless it is last in the queue.
Queued(s, i) == IF s.queue # <<>> /\ Last(s.queue) = i THEN s.queue ELSE Append(s.queue, i)

\* An output's value that leaves its instance unannotated.
SettleInputsOnly(s, p, v) ==
  IF p \in Inputs
  THEN [s EXCEPT !.value[p] = v, !.annotate = @ \cup {InstOf(p)}, !.queue = Queued(s, InstOf(p))]
  ELSE [s EXCEPT !.value[p] = v]

\* A new value at an input queues its instance, and goes no further from there.
Settle(s, p, v) ==
  IF p \in Inputs
  THEN [s EXCEPT !.value[p] = v, !.annotate = @ \cup {InstOf(p)}, !.queue = Queued(s, InstOf(p))]
  ELSE [s EXCEPT !.value[p] = v,
                 !.annotate = IF p \in InPorts \cup OutPorts THEN @ ELSE @ \cup {InstOf(p)}]

\* A set_pin_value that looks at no constraint.
SetPinAnyway(s, p, v) == IF s.value[p] = v THEN s ELSE Settle(s, p, v)

\* One pin: its constraint wins, and a value that differs from it is said.
SetPin(s, p, v) ==
  IF Differs(p, v)
  THEN IF v = Unknown THEN s ELSE [s EXCEPT !.warned = @ \cup {p}]
  ELSE IF s.value[p] = v THEN s ELSE Settle(s, p, v)

\* A driver that took the value hands it to its loads.
SetValue(s, p, v) ==
  LET t == SetPin(s, p, v)
  IN IF p \in Drivers /\ ~Differs(p, v) /\ s.value[p] # v
     THEN FoldLeft(LAMBDA u, l : SetPin(u, l, v), t, SetToSeq(Loads[p]))
     ELSE t

Seed ==
  /\ phase = "seed" /\ seeds # <<>>
  /\ seeds' = Tail(seeds)
  /\ Update(SetValue(State, Head(seeds)[1], ValueOf(Head(seeds)[2])))
  /\ UNCHANGED <<cases, phase, sense>>

Seeded ==
  /\ phase = "seed" /\ seeds = <<>>
  /\ phase' = "propagate"
  /\ UNCHANGED <<cases, seeds, value, queue, annotate, warned, sense>>

-----------------------------------------------------------------------------
(* Functions with the held pins substituted                                *)

One(vals, S) == {p \in S : vals[p] = "1"}
Free(vals, S) == {p \in S : vals[p] \notin Levels}

\* The outcomes of an output over every value of the pins not held.
Outcomes(vals, o) ==
  {Function[o][One(vals, Support[o]) \cup F] : F \in SUBSET Free(vals, Support[o])}

\* A function that reads pins not held as 0.
EvalUnknownAsZero(vals, o) ==
  IF DisableOf[o] # NoPin /\ vals[DisableOf[o]] # "0"
  THEN Unknown ELSE Function[o][One(vals, Support[o])]

\* Known only when the same for all of them; a tri-state one only while enabled.
Eval(vals, o) ==
  IF (DisableOf[o] # NoPin /\ vals[DisableOf[o]] # "0") \/ Cardinality(Outcomes(vals, o)) # 1
  THEN Unknown ELSE CHOOSE v \in Outcomes(vals, o) : TRUE

\* An output with a function; one without holds what it was given.
Evaluated(i) == {o \in OutPins[i] : {} \in DOMAIN Function[o]}

EvalInstance ==
  /\ phase = "propagate" /\ queue # <<>>
  /\ LET i == Head(queue)
         updates == SetToSeq({o \in Evaluated(i) : Eval(value, o) # value[o]})
     IN Update(FoldLeft(LAMBDA s, o : SetValue(s, o, Eval(value, o)),
                        [State EXCEPT !.queue = Tail(queue)], updates))
  /\ UNCHANGED <<cases, phase, seeds, sense>>

Propagated ==
  /\ phase = "propagate" /\ queue = <<>>
  /\ phase' = "senses"
  /\ UNCHANGED <<cases, seeds, value, queue, annotate, warned, sense>>

-----------------------------------------------------------------------------
(* find_disabled_edges                                                     *)

\* Does raising `from` ever raise (lower) the output, the held pins substituted?
Raises(from, o) ==
  \E F \in SUBSET (Free(value, Support[o]) \ {from}) :
    LET S == (One(value, Support[o]) \cup F) \ {from}
    IN Function[o][S] = "0" /\ Function[o][S \cup {from}] = "1"
Lowers(from, o) ==
  \E F \in SUBSET (Free(value, Support[o]) \ {from}) :
    LET S == (One(value, Support[o]) \cup F) \ {from}
    IN Function[o][S] = "1" /\ Function[o][S \cup {from}] = "0"

FunctionSense(from, o) ==
  IF Raises(from, o) THEN IF Lowers(from, o) THEN "nonunate" ELSE "positive"
  ELSE IF Lowers(from, o) THEN "negative" ELSE "none"

SenseOf(from, o) ==
  IF value[from] \in Levels THEN "none"
  ELSE IF from \notin Support[o] THEN "library"
  ELSE IF DisableOf[o] # NoPin /\ value[DisableOf[o]] = "1" THEN "none"
  ELSE FunctionSense(from, o)

FindDisabledEdges ==
  /\ phase = "senses"
  /\ phase' = "done"
  /\ sense' = [a \in Arcs |-> IF a[1] \in annotate THEN SenseOf(a[2], a[3]) ELSE "library"]
  /\ UNCHANGED <<cases, seeds, value, queue, annotate, warned>>

Next == Seed \/ Seeded \/ EvalInstance \/ Propagated \/ FindDisabledEdges

\* One thread runs seeds, work list and senses to the end.
Spec == Init /\ [][Next]_vars /\ WF_vars(Next)

-----------------------------------------------------------------------------
(* What the graph takes from it (build_report, pass 2)                     *)

Held(p) == value[p] \in Levels
Passes(p, edge) == value[p] \in {Unknown, edge}

Pairs(s, from, to) ==
  CASE s = "positive" -> from = to [] s = "negative" -> from # to
    [] s = "none" -> FALSE [] OTHER -> TRUE

\* The arc has an edge, and the edge carries the transition.
Built(a) == ~Held(a[2]) /\ ~Held(a[3])
Carries(a, from, to) ==
  /\ Built(a) /\ Pairs(sense[a], from, to)
  /\ Passes(a[2], from) /\ Passes(a[3], to)

-----------------------------------------------------------------------------
(* Properties                                                              *)

\* Values, queue and senses have their types (struct Sim, struct State, sim.rs:120, 219).
TypeOK ==
  /\ phase \in {"seed", "propagate", "senses", "done"}
  /\ value \in [Pins -> Values]
  /\ Range(queue) \subseteq annotate /\ annotate \subseteq Insts
  /\ warned \subseteq Pins
  /\ sense \in [Arcs -> {"library", "none", "positive", "negative", "nonunate"}]

\* The commands whose value a pin has: the case values on it, else the logic values.
Ruling(p) ==
  LET of(case) == {k \in DOMAIN cases : p \in cases[k].pins /\ cases[k].case = case}
  IN IF of(TRUE) # {} THEN of(TRUE) ELSE of(FALSE)

\* One round over all pins at once: constraints, ties, each load from its driver, each
\* output from its inputs.
DriverOf(p) == {d \in Drivers : p \in Loads[d]}
Settled(vals, p) ==
  IF Ruling(p) # {} THEN ValueOf(cases[Max(Ruling(p))].value)
  ELSE IF \E v \in Levels : <<p, v>> \in Ties THEN CHOOSE v \in Levels : <<p, v>> \in Ties
  ELSE IF DriverOf(p) # {} THEN vals[CHOOSE d \in DriverOf(p) : TRUE]
  ELSE IF p \in Drivers \ InPorts /\ {} \in DOMAIN Function[p] THEN Eval(vals, p)
  ELSE Unknown

\* The pins with their values after so many rounds.
ValuesIn(pairs) == [p \in Pins |-> CHOOSE v \in Values : <<p, v>> \in pairs]
Round(pairs) == LET vals == ValuesIn(pairs) IN {<<p, Settled(vals, p)>> : p \in Pins}
Rounds[n \in Nat] == IF n = 0 THEN Pins \X {Unknown} ELSE Round(Rounds[n - 1])

\* Whatever the order of the commands, of the ties and of the work list, and however
\* often a value reaches a pin along different ways, loops included, the values are the
\* ones rounds over the whole netlist settle at: constraints win where they are, a
\* case value over a logic value, and nothing is left to propagate (run, sim.rs:210).
ValuesAreTheClosure ==
  phase = "done" => {<<p, value[p]>> : p \in Pins} = Rounds[Cardinality(Pins)]

\* A constraint that contradicts the netlist is said: where the value that reaches a
\* constrained pin along its net, from its tie or from its function is not the
\* constraint's, the pin is warned of (set_pin_value, sim.rs:303).
ConflictsSaid ==
  phase = "done" =>
    \A p \in Pins :
      LET arriving == {value[d] : d \in DriverOf(p)} \cup {v \in Levels : <<p, v>> \in Ties}
                      \cup (IF p \in Drivers \ InPorts /\ {} \in DOMAIN Function[p]
                          THEN {Eval(value, p)} ELSE {})
      IN Ruling(p) # {} /\ arriving \ {Unknown, ValueOf(cases[Max(Ruling(p))].value)} # {}
         => p \in warned

\* The instance's pins and its own held values admit a transition of `from` in one
\* direction that takes `to` in another.
Moves(a, from, to) ==
  \E F \in SUBSET (Free(value, Support[a[3]]) \ {a[2]}) :
    LET low == (One(value, Support[a[3]]) \cup F) \ {a[2]}
        before == IF from = "rise" THEN low ELSE low \cup {a[2]}
        after == IF from = "rise" THEN low \cup {a[2]} ELSE low
    IN /\ Function[a[3]][before] = (IF to = "rise" THEN "0" ELSE "1")
       /\ Function[a[3]][after] = (IF to = "rise" THEN "1" ELSE "0")

\* A pin of the instance has a value.
Affected(i) == \E p \in InPins[i] \cup OutPins[i] : value[p] # Unknown

\* Timing follows what can still switch: an arc whose pins the constants leave free
\* carries a transition exactly when some value of the free pins makes the output
\* follow the input that way, and a deselected or disabled one carries none - also in
\* instances only an output of which was given a value (find_disabled_edges,
\* sim.rs:385; build_report's pass 2, sta.rs:1725).
TimedIsWhatSwitches ==
  phase = "done" =>
    \A a \in Arcs : \A from, to \in Transitions :
      a[2] \in Support[a[3]] /\ Affected(a[1])
      => (Carries(a, from, to) <=>
            /\ ~Held(a[2]) /\ ~Held(a[3])
            /\ ~(DisableOf[a[3]] # NoPin /\ value[DisableOf[a[3]]] = "1")
            /\ Passes(a[2], from) /\ Passes(a[3], to) /\ Moves(a, from, to))

\* The work list runs empty: a loop of gates passes a constant round at most once
\* (propagate_constants, sim.rs:341).
Settles == <>(phase = "done")
=============================================================================
