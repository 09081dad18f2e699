----------------------- MODULE MCCompetitionJourney ------------------------
(* Small instances of CompetitionJourney for TLC: a draft, an amendment,   *)
(* and a published competition that is played, stopped, or looked into.    *)
EXTENDS CompetitionJourney, TLC

(* Rosters A and B fill the pools; under B one demand has become           *)
(* impossible.  A third source has no pools.                               *)
RosterA == [pools |-> "A", known |-> {"x", "y"}, met |-> {"x", "y"}, controls |-> TRUE, ready |-> TRUE]
RosterB == [pools |-> "B", known |-> {"x", "y"}, met |-> {"x"}, controls |-> TRUE, ready |-> TRUE]
NoPools == [pools |-> None, known |-> {}, met |-> {}, controls |-> FALSE, ready |-> TRUE]
Sources == {RosterA, RosterB, NoPools}

AssignedFunctions ==
  [INCIDENT_LEAD |-> "ivy", COMPETITION_LEAD |-> "cat", SAFETY_LEAD |-> "sam", SCRIBE |-> "sue"]

Draft == NewRecord(RosterA)
Published == Approve(Compile(Draft, None), "ann")
Running == ActivateLive(Published, AssignedFunctions)
Looked == [Running EXCEPT !.credentials = NoCredentials]

Limits == [record |-> Draft, version |-> 0, revision |-> 0, log |-> 0, ops |-> 0, publications |-> 0, access |-> 0, handed |-> 0, time |-> 0, faults |-> 0]
AllScenes ==
  {[Limits EXCEPT !.version = 5, !.revision = 2, !.faults = 1],
   [Limits EXCEPT !.record = Published, !.version = 3, !.revision = 3, !.log = 1, !.faults = 2],
   [Limits EXCEPT !.record = Running, !.log = 7, !.publications = 2, !.ops = 1, !.faults = 1],
   [Limits EXCEPT !.record = Running, !.ops = 6],
   [Limits EXCEPT !.record = Looked, !.access = 2, !.handed = 2, !.time = 1, !.faults = 2]}

SafetyScenes == {[Limits EXCEPT !.record = Running, !.ops = 6, !.faults = 1]}

Interchangeable == Permutations(Participants)

Mode(fn, target) == [kind |-> "TRANSITION_MODE", fn |-> fn, actor |-> AssignedFunctions[fn], what |-> target]
Cleared(fn, what) == [kind |-> "RECORD_RESTART_CLEARANCE", fn |-> fn, actor |-> AssignedFunctions[fn], what |-> what]
SafetyCommands ==
  {Mode("INCIDENT_LEAD", m) : m \in {"NORMAL", "PAUSED", "STOPPED", "RECOVERING"}}
  \union {Cleared("SAFETY_LEAD", "SAFETY"), Cleared("COMPETITION_LEAD", "COMPETITION")}
  \union {[kind |-> "RECORD_INCIDENT", fn |-> "SCRIBE", actor |-> "sue", what |-> "i1"],
          [kind |-> "TRANSFER_AUTHORITY", fn |-> "COMPETITION_LEAD", actor |-> "cat", what |-> "dan"]}
=============================================================================
