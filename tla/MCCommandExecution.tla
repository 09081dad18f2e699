------------------------- MODULE MCCommandExecution -------------------------
(* Small instances of CommandExecution for TLC.                            *)
EXTENDS CommandExecution, TLC

(* Requests, identities and times are interchangeable.                     *)
ExecutionSymmetry == Permutations(Clients) \union Permutations(Identities) \union Permutations(Times)
=============================================================================
