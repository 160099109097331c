---------------------------- MODULE TimerOracle ----------------------------
(***************************************************************************)
(* What a timing session promises its client (the doc of `Timer`, sta.rs): *)
(* the report is that of the netlist as of the last successful update,     *)
(* computed as a full analysis would, and a restore brings back netlist    *)
(* and report of the checkpoint. How an update is served (cone-localized   *)
(* or in full), what is indexed and what is cached is none of the client's *)
(* business.                                                               *)
(***************************************************************************)
CONSTANTS
  Analyze(_),  \* the report of a full analysis of a netlist
  InitNetlist, \* the netlist the session is built from
  Nothing      \* no checkpoint is held

VARIABLES nl, report, dirty, held

ovars == <<nl, report, dirty, held>>

OInit ==
  /\ nl = InitNetlist
  /\ report = Analyze(InitNetlist)
  /\ dirty = FALSE
  /\ held = Nothing

\* A staged move edits the netlist; the report stays the last update's.
OStage ==
  /\ dirty' = TRUE
  /\ UNCHANGED <<report, held>>

OUpdate ==
  /\ dirty
  /\ report' = Analyze(nl)
  /\ dirty' = FALSE
  /\ UNCHANGED <<nl, held>>

OCheckpoint ==
  /\ held' = [nl |-> nl, report |-> report, dirty |-> dirty]
  /\ UNCHANGED <<nl, report, dirty>>

ODrop ==
  /\ held' = Nothing
  /\ UNCHANGED <<nl, report, dirty>>

ORestore ==
  /\ held # Nothing
  /\ nl' = held.nl
  /\ report' = held.report
  /\ dirty' = held.dirty
  /\ held' = Nothing

ONext == OStage \/ OUpdate \/ OCheckpoint \/ ODrop \/ ORestore

OSpec == OInit /\ [][ONext]_ovars
=============================================================================
