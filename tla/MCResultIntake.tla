--------------------------- MODULE MCResultIntake -------------------------
EXTENDS ResultIntake
CONSTANTS d1, d2

(* A mapping, a longer one, one that swaps two entrants of it, and one that is refused. *)
MCConfigurations ==
  {<<<<"a", "A">>, <<"b", "B">>>>,
   <<<<"b", "B">>, <<"a", "A">>, <<"x", "X">>>>,
   <<<<"a", "B">>, <<"b", "A">>, <<"x", "X">>>>,
   <<<<"a", "A">>, <<"b", "A">>, <<"x", "X">>>>}

Match(c, p, q, status, score) ==
  [contest |-> c, entrants |-> <<p, q>>, winner |-> q, loser |-> p, status |-> status, score |-> score]
MCTruths ==
  {Match("c1", "a", "b", "COMPLETED", <<1, 2>>), Match("c1", "b", "x", "WALKOVER", <<0, 0>>),
   Match("c1", "b", "a", "WALKOVER", <<0, 1>>)}

(* What was published and what never was, of contests and entrants unheard of,     *)
(* and what is refused: one entrant twice, a winner from elsewhere, a walkover     *)
(* with a score.                                                                   *)
MCReported ==
  {Match("c1", "A", "B", "COMPLETED", <<1, 2>>), Match("c1", "B", "A", "COMPLETED", <<1, 2>>),
   Match("c1", "A", "X", "WALKOVER", <<0, 0>>), Match("c9", "A", "B", "COMPLETED", <<3, 0>>),
   Match("c1", "A", "Z", "COMPLETED", <<1, 2>>), Match("c1", "A", "A", "COMPLETED", <<1, 2>>),
   [Match("c1", "A", "B", "COMPLETED", <<1, 2>>) EXCEPT !.winner = "X"],
   Match("c1", "B", "X", "WALKOVER", <<0, 1>>)}

AB == {"a", "b"}
AX == {"a", "x"}
Both == "c1" :> AB @@ "c2" :> AX
Swapped == "c1" :> AX @@ "c2" :> AB
MCRosters == {"c1" :> AB, Both, Swapped}

NewDefinition(r) == [kind |-> "REGISTER_DEFINITION", revision |-> r]
NewPlan(r, d) == [kind |-> "ACTIVATE_PLAN", revision |-> r, definition |-> d]
NewRoster(r, p, contests) == [kind |-> "ACTIVATE_OPERATIONAL", revision |-> r, plan |-> p, contests |-> contests]
Won(c, pair, w) == [kind |-> "RECORD_RESULT", contest |-> c, entrants |-> pair, winner |-> w]
Corrected(c, pair, w, s) == [kind |-> "CORRECT_RESULT", contest |-> c, entrants |-> pair, winner |-> w, supersedes |-> s]
Voided(c, s) == [kind |-> "VOID_RESULT", contest |-> c, supersedes |-> s]
Say(id, content) == [id |-> id, content |-> content]

(* Ids are reused once, for another content. *)
MCSubmitted ==
  {Say(1, NewDefinition(1)), Say(2, NewDefinition(2)), Say(3, NewPlan(1, 1)), Say(4, NewPlan(2, 2)),
   Say(5, NewRoster(1, 1, Both)), Say(6, NewRoster(2, 1, Swapped)), Say(7, NewRoster(2, 2, "c1" :> AB)),
   Say(8, Won("c1", AB, "a")), Say(8, Won("c1", AB, "b")), Say(9, Won("c2", AX, "x")),
   Say(10, Corrected("c1", AB, "b", 4)), Say(11, Corrected("c1", AB, "a", 5)),
   Say(12, Voided("c1", 4)), Say(13, Voided("c1", 5))}

DeskSymmetry == Permutations(Desks)
============================================================================
