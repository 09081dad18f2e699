-------------------------- MODULE MCLiveOperations ---------------------------
(* Small instances of LiveOperations for TLC.                              *)
EXTENDS LiveOperations, TLC

CONSTANTS a, b, c, court, official, x, y

(* a and b share the court; c follows a, and its entrants are to come.     *)
Programme ==
  LET fixture == [possible |-> {x, y}, resolved |-> {x, y}, court |-> court, staff |-> {official}, after |-> {}]
  IN  a :> fixture @@ b :> fixture @@ c :> [fixture EXCEPT !.resolved = {}, !.after = {a}]

(* BOUND: how many events of each kind.                                    *)
Plenty ==
  "PRESENCE" :> 3 @@ "WALKOVER" :> 1 @@ "CALLED" :> 1 @@ "STARTED" :> 3 @@ "SCORED" :> 1 @@ "COMPLETED" :> 2 @@
  "ENTRANTS" :> 1 @@ "RETIRED" :> 1 @@ "RECEIVED" :> 1 @@ "PROTEST" :> 1 @@ "RULING" :> 1 @@ "APPEAL" :> 2 @@
  "APPEAL_RULING" :> 1 @@ "RESOURCE" :> 2 @@ "TIE" :> 1 @@ "CORRECTED" :> 1

(* BOUND: corrections of x, of the court and of any contest's course.      *)
FewRewrites ==
  {r \in Replacements :
     \/ r.kind = "SET_PRESENCE" /\ r.entrant = x /\ r.status \in {"CHECKED_IN", "NO_SHOW"}
     \/ r.kind = "SET_TIMING" /\ r.start = 1 /\ r.end # 2
     \/ r.kind = "SET_SCORE"
     \/ r.kind = "SET_RESOURCE" /\ r.resource = court /\ (r.yes => r.until = NoTime)}

(* Midday: everybody has checked in and a has been played.                 *)
MiddayLog ==
  << [kind |-> "PRESENCE", entrant |-> x, status |-> "CHECKED_IN"],
     [kind |-> "PRESENCE", entrant |-> y, status |-> "CHECKED_IN"],
     [kind |-> "STARTED", contest |-> a, court |-> court, start |-> 1],
     [kind |-> "COMPLETED", contest |-> a, end |-> 1] >>

(* Effects on different subjects commute and guards look at the projection *)
(* alone, so two logs that tell the same story of every subject have the   *)
(* same future: a story is what was said of it, in order, and whether that *)
(* was taken out.                                                          *)
Subjects == Entrants \union Contests \union Resources \union Protests \union Appeals \union {"TIE"}
Stories ==
  LET said == [i \in DOMAIN log |-> [fact |-> Fact(i), stands |-> i \in Standing]]
  IN  [z \in Subjects |-> SelectSeq(said, LAMBDA line : z \in Subject(line.fact))]

Midday == log = MiddayLog /\ live = Project(MiddayLog)

MiddaySpec == Midday /\ [][Next]_vars

DeskSymmetry == Permutations(Appeals)
=============================================================================
