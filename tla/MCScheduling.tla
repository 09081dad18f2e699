---------------------------- MODULE MCScheduling ----------------------------
(***************************************************************************)
(* Small drafts and requests for SchedulePlanning.                         *)
(***************************************************************************)
EXTENDS SchedulePlanning

E(n) == Entrant(n)
Unit(open) == [type |-> "court", open |-> open]
Info(stage, round, minutes) ==
  [stage |-> stage, round |-> round, minutes |-> minutes, type |-> "court", headline |-> FALSE]
NoRule == <<>>

Event0(graph, feeds, info, units, rest) ==
  [graph |-> graph, feeds |-> feeds, info |-> info, units |-> units, rest |-> rest,
   protect |-> NoRule, required |-> NoRule, finishBy |-> 10]

(* Two pool contests seat the final; entrant 2 also has a contest elsewhere. *)
PoolsThenFinal ==
  Event0({Contest(1, E(1), E(2)), Contest(2, E(3), E(4)), Contest(3, E(1), E(3)), Contest(4, E(2), E(5))},
         {<<1, 3>>, <<2, 3>>},
         <<Info("pool", 1, 2), Info("pool", 1, 2), Info("final", 1, 2), Info("side", 1, 2)>>,
         <<Unit({<<0, 10>>}), Unit({<<0, 6>>}), Unit({<<3, 6>>})>>, 1)

(* A bracket of three whose final is to close the day, beside two contests with promises. *)
Bracket3(protect, required) ==
  [Event0({ByeNode(1, E(1), Bye), Contest(2, E(2), E(3)), Contest(3, WinnerOf(1), WinnerOf(2)),
           Contest(4, E(4), E(5)), Contest(5, E(6), E(7))}, {},
          <<Info("knockout", 1, 2), Info("knockout", 1, 2), [Info("knockout", 2, 2) EXCEPT !.headline = TRUE],
            Info("plate", 1, 2), Info("plate", 1, 3)>>,
          <<Unit({<<0, 8>>}), Unit({<<0, 5>>, <<6, 8>>})>>, 1)
   EXCEPT !.protect = protect, !.required = required]

At(start, court) == [start |-> start, court |-> court]

(* A semifinal pair and a final; the promises differ from draft to draft. *)
Bracket4(protect) ==
  [Event0({Contest(1, E(1), E(2)), Contest(2, E(3), E(4)), Contest(3, WinnerOf(1), WinnerOf(2)),
           Contest(4, LoserOf(1), LoserOf(2))}, {},
          <<Info("knockout", 1, 2), Info("knockout", 1, 2), Info("knockout", 2, 2), Info("bronze", 2, 2)>>,
          <<Unit({<<0, 8>>}), Unit({<<0, 8>>})>>, 1)
   EXCEPT !.protect = protect]

(* No unit can host its contest. *)
Impossible == [PoolsThenFinal EXCEPT !.info[1].type = "table"]

Task(minutes, courts, after, who) ==
  [minutes |-> minutes, courts |-> courts, after |-> after, who |-> who, fixed |-> NoStart]
Court(open, closed) == [open |-> open, closed |-> closed]
NoLocks == <<>>
Problem(tasks, courts, locks, rest) == [tasks |-> tasks, courts |-> courts, locks |-> locks, rest |-> rest]

ExactRequest(problem, limit) ==
  [kind |-> "EXACT", problem |-> problem, limit |-> limit, baseline |-> {}, pins |-> {}, freeze |-> 0]
RepairOf(problem, limit, baseline, pins, freeze) ==
  [kind |-> "REPAIR", problem |-> problem, limit |-> limit, baseline |-> baseline, pins |-> pins, freeze |-> freeze]

(* Two contests and the one their players join for. *)
Joined == <<Task(2, {1, 2}, {}, {"p"}), Task(2, {1}, {}, {"q"}), Task(2, {1, 2}, {1, 2}, {"p", "q"})>>

ExactRequests ==
  {ExactRequest(Problem(Joined, <<Court({<<0, 6>>}, {}), Court({<<0, 3>>, <<4, 6>>}, closed)>>, locks, rest), limit) :
     <<closed, locks, rest, limit>> \in
       {{}, {<<1, 2>>}} \X {NoLocks, (3 :> [court |-> 2, start |-> 4]), (1 :> [court |-> 1, start |-> 0])}
         \X {0, 1} \X {1, 4, 60}}
  \cup {ExactRequest(Problem([Joined EXCEPT ![2].fixed = s], <<Court({<<0, 6>>}, {}), Court({<<0, 6>>}, {})>>, locks, 0), 60) :
         <<s, locks>> \in {1, 5} \X {NoLocks, (2 :> [court |-> 1, start |-> 0])}}
  \cup {ExactRequest(Problem([Joined EXCEPT ![3].who = {"r"}], <<Court({<<0, 6>>}, {}), Court({<<0, 7>>}, {})>>, NoLocks, rest), 60) :
         rest \in {0, 1}}
  \cup {ExactRequest(Problem([Joined EXCEPT ![1].after = {3}], <<Court({<<0, 6>>}, {}), Court({<<0, 6>>}, {})>>, NoLocks, 0), 60)}

RepairRequests ==
  {RepairOf(Problem(<<Task(1, {1}, {}, {"p"}), Task(2, {1}, {}, {"p"}), Task(3, {1}, {}, {"p"})>>,
                    <<Court({<<0, 12>>}, {<<3, 4>>})>>, NoLocks, 0), 100,
            {Slot(1, 1, 3, 4), Slot(2, 1, 10, 12), Slot(3, 1, 6, 9)}, {}, 0)}
  \cup {RepairOf(Problem([Joined EXCEPT ![2].courts = {1, 2}],
                         <<Court({<<0, 8>>}, closed), Court({<<0, 8>>}, {})>>, locks, rest), limit,
                 {Slot(1, 1, 0, 2), Slot(2, 2, 0, 2), Slot(3, 1, 2, 4)}, pins, freeze) :
         <<closed, locks, rest, limit, pins, freeze>> \in
           {{<<1, 2>>}, {<<2, 3>>}, {}} \X {NoLocks, (1 :> [court |-> 2, start |-> 3])} \X {0, 1} \X {20, 300}
             \X {{}, {1}} \X {0, 1}}

PlanningScenes ==
  { [events |-> <<PoolsThenFinal>>, connected |-> TRUE, starts |-> {0, 3, 6}, moments |-> {2, 5, 8}, requests |-> {}],
    [events |-> <<Bracket4(NoRule), Bracket4((4 :> At(6, AnyCourt) @@ 2 :> At(NoStart, 2))), Bracket4((3 :> At(6, 1)))>>,
     connected |-> TRUE, starts |-> {0, 3, 6}, moments |-> {1, 3, 6}, requests |-> {}],
    [events |-> <<Bracket3(NoRule, (5 :> 2)), Bracket3((4 :> At(2, AnyCourt)), (2 :> 2)), Bracket3((5 :> At(1, 1)), (4 :> 2)),
                  Bracket3((3 :> At(0, AnyCourt)), NoRule)>>,
     connected |-> FALSE, starts |-> {}, moments |-> {1, 4, 6}, requests |-> {}],
    [events |-> <<Impossible>>, connected |-> TRUE, starts |-> {}, moments |-> {},
     requests |-> ExactRequests \cup RepairRequests] }
============================================================================
