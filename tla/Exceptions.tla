------------------------------ MODULE Exceptions -----------------------------
(***************************************************************************)
(* exc.rs: false paths and multicycles as the constraint file states them, *)
(* the paths each side covers by kind of object, the one exception the     *)
(* reference picks for a check, and how far it moves the capture edge.     *)
(*                                                                         *)
(* Lists of objects are flat here, and what a pattern matches is the       *)
(* constant Matches. A side is a set of objects; one object of kind "any"  *)
(* stands for a side that names none.                                      *)
(***************************************************************************)
EXTENDS Integers, Sequences, FiniteSets, SequencesExt

CONSTANTS
  Clocks,       \* clock names
  Matches,      \* the clocks, instances and ports a written name matches
  Statements,   \* the exceptions a file may state
  MaxExceptions,\* bound on the length of the file
  Paths,        \* [from, to, pl, pc]: two points, the launch and the capture period
  NoClock,      \* a point no clock launches or captures
  NoName,       \* a point that is no instance or port (a tie cell)
  Star          \* the name "*" of a job file's side

\* What the constants are.
ConstantsOK ==
  /\ \A e \in Statements :
       /\ e.kind \in {"false_path", "multicycle"} /\ e.n \in Nat
       /\ e.flags \subseteq {"-setup", "-hold", "-start", "-end"}
       /\ e.hold \in BOOLEAN /\ e.start \in BOOLEAN /\ e.args \in BOOLEAN
  /\ \A p \in Paths :
       /\ p.pl \in Nat /\ p.pc \in Nat
       /\ p.from.port \in BOOLEAN /\ p.to.port \in BOOLEAN
       /\ {p.from.clock, p.to.clock} \subseteq Clocks \cup {NoClock}

VARIABLES
  exceptions, \* the statements read, in file order
  refused     \* the positions of those this timer cannot match

vars == <<exceptions, refused>>

Init == exceptions = <<>> /\ refused = {}

-----------------------------------------------------------------------------
(* Reading the two sides                                                   *)

Obj(kind, name) == [kind |-> kind, name |-> name]
AnyObject == Obj("any", Star)

\* A bare name is a clock's first, and only then an instance, a port or a pin.
BareObject(name) ==
  IF name \in {"*INPUTS*", "*OUTPUTS*", "*REGS*"} THEN Obj(name, Star)
  ELSE IF Matches[name] \cap Clocks # {} THEN Obj("clock", name)
  ELSE Obj("inst", name)

\* A written object; a selector narrowed by clock, or of a kind no path has, cannot
\* be matched.
Read(o) ==
  IF o.narrowed \/ o.accessor \in {"get_nets", "get_lib_cells"} THEN Obj("unreadable", Star)
  ELSE IF o.accessor = "get_clocks" THEN Obj("clock", o.name)
  ELSE IF o.accessor = "all_inputs" THEN Obj("*INPUTS*", Star)
  ELSE IF o.accessor = "all_outputs" THEN Obj("*OUTPUTS*", Star)
  ELSE IF o.accessor = "all_registers" THEN Obj("*REGS*", Star)
  ELSE IF o.accessor \in {"get_ports", "get_pins", "get_cells"} THEN Obj("inst", o.name)
  ELSE BareObject(o.name)

\* A side without written objects covers every path; a job file's side is reduced to
\* names, read as instances.
Side(e, written) ==
  IF written = {} \/ (~e.args /\ \E o \in written : o.name = Star) THEN {AnyObject}
  ELSE IF e.args THEN {Read(o) : o \in written}
  ELSE {Obj("inst", o.name) : o \in written}

Unmatchable(e) ==
  \E o \in Side(e, e.from) \cup Side(e, e.to) : o.kind = "unreadable"

\* The sides matched: an exception that cannot be read matches nothing.
From(e) == IF Unmatchable(e) THEN {} ELSE Side(e, e.from)
To(e) == IF Unmatchable(e) THEN {} ELSE Side(e, e.to)

-----------------------------------------------------------------------------
(* What one exception says of a check                                      *)

MinMax(e) ==
  LET setup == IF e.flags = {} /\ e.hold THEN FALSE ELSE "-setup" \in e.flags
      hold == IF e.flags = {} /\ e.hold THEN TRUE ELSE "-hold" \in e.flags
  IN IF setup /\ ~hold THEN "max" ELSE IF hold /\ ~setup THEN "min" ELSE "all"

\* A multicycle counts the capture clock's cycles, unless -start, or it is a -hold
\* one without -end.
EndClk(e) ==
  IF e.flags = {} THEN ~e.start
  ELSE ~("-start" \in e.flags \/ (MinMax(e) = "min" /\ "-end" \notin e.flags))

HasClock(side) == \E o \in side : o.kind = "clock"
HasObject(side) == \E o \in side : o.kind \notin {"clock", "any"}

Bit(on, weight) == IF on THEN weight ELSE 0

\* How specific the sides are (fromThruToPriority).
Specificity(e) ==
  Bit(HasObject(From(e)), 64) + Bit(HasObject(To(e)), 32)
  + Bit(HasClock(From(e)), 8) + Bit(HasClock(To(e)), 4)

\* A multicycle counts for the check it is written for only.
MatchesCheckExactly(e, hold, exactly) ==
  MinMax(e) = "all" \/ (MinMax(e) = "min") = hold

\* Written for the check; without `exactly`, every multicycle reaches the hold check.
MatchesCheck(e, hold, exactly) ==
  \/ MinMax(e) = "all" \/ (MinMax(e) = "min") = hold
  \/ e.kind = "multicycle" /\ ~exactly /\ hold

\* A priority that weighs the type of an exception below its sides.
PrioritySidesFirst(e, hold) == Specificity(e) + Bit(e.kind = "false_path", 1)

\* A false path over a multicycle, then how specific the sides are, then whether a
\* multicycle was written for this check alone, for both, or for the other one.
Priority(e, hold) ==
  IF e.kind = "false_path" THEN 4000 + Specificity(e)
  ELSE 2000 + Specificity(e) +
       (IF MinMax(e) = "all" THEN 1 ELSE IF (MinMax(e) = "min") = hold THEN 2 ELSE 0)

\* A multicycle written for both checks counts 0 on the hold side.
Multiplier(e, hold) ==
  IF e.kind = "false_path" \/ (hold /\ MinMax(e) = "all") THEN 0 ELSE e.n

Period(e, path) == IF EndClk(e) THEN path.pc ELSE path.pl

-----------------------------------------------------------------------------
(* Which exception a check gets                                            *)

Covers(o, point, start) ==
  \/ o.kind = "any"
  \/ o.kind = "clock" /\ point.clock # NoClock /\ point.clock \in Matches[o.name]
  \/ o.kind = "inst" /\ point.name # NoName /\ point.name \in Matches[o.name]
  \/ o.kind = "*INPUTS*" /\ start /\ point.port
  \/ o.kind = "*OUTPUTS*" /\ ~start /\ point.port
  \/ o.kind = "*REGS*" /\ ~point.port /\ point.name # NoName

SideMatches(side, point, start) == \E o \in side : Covers(o, point, start)

CoversPath(e, path) ==
  SideMatches(From(e), path.from, TRUE) /\ SideMatches(To(e), path.to, FALSE)

\* A scan that keeps the first of two multicycles of equal priority.
BeatsFirst(file, i, j, hold) ==
  LET a == file[i]  b == file[j]
  IN \/ Priority(a, hold) > Priority(b, hold)
     \/ Priority(a, hold) = Priority(b, hold) /\ i < j

\* Of two covering exceptions of a file, the one the scan ends with: the higher
\* priority, the smaller multiplier of two multicycles, the earlier.
Beats(file, i, j, hold) ==
  LET a == file[i]  b == file[j]
  IN \/ Priority(a, hold) > Priority(b, hold)
     \/ /\ Priority(a, hold) = Priority(b, hold)
        /\ IF a.kind = "multicycle" /\ b.kind = "multicycle"
           THEN a.n < b.n \/ (a.n = b.n /\ i < j) ELSE i < j

\* The position of the exception picked; 0 when none covers the path.
Best(file, ignored, hold, exactly, mcp_only, path) ==
  LET K == {i \in DOMAIN file \ ignored :
              /\ MatchesCheck(file[i], hold, exactly)
              /\ CoversPath(file[i], path)
              /\ mcp_only => file[i].kind = "multicycle"}
  IN IF K = {} THEN 0
     ELSE CHOOSE i \in K : \A j \in K \ {i} : Beats(file, i, j, hold)

\* The check is dropped by a false path.
DroppedIn(file, ignored, hold, path) ==
  LET m == Best(file, ignored, hold, FALSE, FALSE, path)
  IN m # 0 /\ file[m].kind = "false_path"

SetupTerm(file, i, path) ==
  IF i = 0 THEN 0 ELSE (Multiplier(file[i], FALSE) - 1) * Period(file[i], path)
HoldTerm(file, i, path) ==
  IF i = 0 THEN 0 ELSE Multiplier(file[i], TRUE) * Period(file[i], path)

\* How far the capture edge of a check that is made moves.
ShiftIn(file, ignored, hold, path) ==
  LET m == Best(file, ignored, hold, FALSE, FALSE, path)
      other(h) == Best(file, ignored, h, TRUE, TRUE, path)
  IN IF m = 0 THEN 0
     ELSE IF ~hold THEN SetupTerm(file, m, path)
     ELSE IF MinMax(file[m]) # "max"
          THEN SetupTerm(file, other(FALSE), path) - HoldTerm(file, m, path)
          ELSE SetupTerm(file, m, path) - HoldTerm(file, other(TRUE), path)

Dropped(hold, path) == DroppedIn(exceptions, refused, hold, path)
Shift(hold, path) == ShiftIn(exceptions, refused, hold, path)

-----------------------------------------------------------------------------

\* An exception is read; one that cannot be matched is refused at load.
State(e) ==
  /\ Len(exceptions) < MaxExceptions
  /\ exceptions' = Append(exceptions, e)
  /\ refused' = IF Unmatchable(e) THEN refused \cup {Len(exceptions')} ELSE refused

Next == \E e \in Statements : State(e)

Spec == Init /\ [][Next]_vars

-----------------------------------------------------------------------------
(* Properties                                                              *)

\* Refusals are of statements read, and shifts whole numbers (exc.rs:51).
TypeOK ==
  /\ refused \subseteq DOMAIN exceptions
  /\ \A path \in Paths, hold \in BOOLEAN : Shift(hold, path) \in Int

\* A false path written for a check drops it on every path it covers, however
\* specific the multicycles on that path are, and nothing else drops a check: what
\* the timer does not check, the file said not to (exc.rs:245, 326).
DroppedByFalsePathOnly ==
  \A path \in Paths, hold \in BOOLEAN :
    Dropped(hold, path) <=>
      \E i \in DOMAIN exceptions \ refused :
        /\ exceptions[i].kind = "false_path"
        /\ MinMax(exceptions[i]) # (IF hold THEN "max" ELSE "min")
        /\ CoversPath(exceptions[i], path)

\* The multicycles covering a path that are written for a check.
MulticyclesFor(hold, path) ==
  {i \in DOMAIN exceptions \ refused :
     /\ exceptions[i].kind = "multicycle" /\ CoversPath(exceptions[i], path)
     /\ MinMax(exceptions[i]) # (IF hold THEN "max" ELSE "min")}

\* The hold edge moves with the setup edge: on a path both of whose checks are made
\* and no multicycle is written for hold alone, the two capture edges move by the very
\* same time, whichever of the path's multicycles each check picks by itself
\* ("the setup multicycle moves the hold edge with it", exc.rs:323).
HoldFollowsSetup ==
  \A path \in Paths :
    /\ ~Dropped(TRUE, path) /\ ~Dropped(FALSE, path)
    /\ \A i \in MulticyclesFor(TRUE, path) : MinMax(exceptions[i]) = "all"
    => Shift(TRUE, path) = Shift(FALSE, path)

\* Two multicycles on a path that the scan cannot tell apart count different clocks.
Contradict(i, j, hold, path) ==
  LET a == exceptions[i]  b == exceptions[j]
  IN /\ a.kind = "multicycle" /\ b.kind = "multicycle"
     /\ CoversPath(a, path) /\ CoversPath(b, path)
     /\ a.n = b.n /\ Priority(a, hold) = Priority(b, hold)
     /\ EndClk(a) # EndClk(b)

\* The order of a file is immaterial: whatever order the same exceptions are stated
\* in, each check of each path is dropped or moved alike, unless two multicycles that
\* cover this very path, of one priority and one multiplier, count different clocks
\* (`tighter`, exc.rs:299).
OrderImmaterial ==
  \A i \in 2 .. Len(exceptions), path \in Paths, hold \in BOOLEAN :
    LET swapped == [k \in DOMAIN exceptions |->
                      IF k = i THEN exceptions[i - 1] ELSE IF k = i - 1 THEN exceptions[i]
                      ELSE exceptions[k]]
        ignored == {k \in DOMAIN swapped : Unmatchable(swapped[k])}
    IN (\E h \in BOOLEAN : Contradict(i - 1, i, h, path)) \/
       /\ DroppedIn(swapped, ignored, hold, path) <=> Dropped(hold, path)
       /\ Dropped(hold, path) \/ ShiftIn(swapped, ignored, hold, path) = Shift(hold, path)
=============================================================================
