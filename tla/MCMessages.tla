----------------------------- MODULE MCMessages -----------------------------
(* Messages for TLC: a lead and a worker, the worker's task run twice; the   *)
(* second draft closes the route back and has a line as long as is allowed,  *)
(* the third has a cycle longer than that, the fourth a line one too long.   *)
EXTENDS Messages, TLC

Membership(a, d, from, until) ==
  [agent |-> a, department |-> d, from |-> from, until |-> until, listed |-> TRUE,
   lead |-> a = "lead"]

Both == {[source |-> "plan", target |-> "build", allowed |-> TRUE],
         [source |-> "build", target |-> "plan", allowed |-> TRUE]}

Open == [departments |-> {"plan", "build"},
         members |-> {Membership("lead", "plan", 0, 9), Membership("worker", "build", 0, 1)},
         reports |-> {<<"worker", "lead">>},
         routes |-> Both]

OneWay == [Open EXCEPT !.routes = {r \in Both : r.source = "plan"},
                       !.members = {Membership("lead", "plan", 0, 9),
                                    Membership("worker", "build", 0, 9)},
                       !.reports = {<<"worker", "lead">>, <<"lead", "chief">>}]

Circular == [OneWay EXCEPT !.reports = @ \cup {<<"chief", "worker">>}]

TooLong == [OneWay EXCEPT !.reports = @ \cup {<<"chief", "owner">>}]

SomeDrafts == {Open, OneWay, Circular, TooLong}

SomeRuns == {"planning", "first", "second"}

Agent(r) == IF r = "planning" THEN "lead" ELSE "worker"

Task(r) == IF r = "planning" THEN "plan task" ELSE "build task"

Symmetry == Permutations(Ids)
=============================================================================
