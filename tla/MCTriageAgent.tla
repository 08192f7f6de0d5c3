--------------------------- MODULE MCTriageAgent ---------------------------
(***************************************************************************)
(* Instances of TriageAgent for TLC.                                       *)
(***************************************************************************)
EXTENDS TriageAgent, TLC

CONSTANTS r1, r2

(* One repository, one target, one run. *)
OneRun == << << {r1} >> >>

(* One repository, one target that both runs match. *)
OneTarget == << << {r1, r2} >> >>
SameRepo == [r \in Runs |-> 1]

(* With SameRepo and a target that matches every run, runs are symmetric.  *)
RunSymmetry == Permutations(Runs)

(* Bound of the runs in which a run pushed out of the seen list is triaged  *)
(* again and again.                                                        *)
AtMostTwoMessages == \A r \in Runs : sent[r] <= 2

(* Two repositories with a run and a target each. *)
TwoRepos == << << {r1} >>, << {r2} >> >>
OwnRepo == [r \in Runs |-> IF r = r1 THEN 1 ELSE 2]

(* README's example: several targets of one repository, the same filters. *)
SharedRepo == << << {r1, r2}, {r1, r2} >> >>

=============================================================================
