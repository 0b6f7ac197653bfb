------------------------------ MODULE MCBench ------------------------------
\* Bench on seven small plans: a shuffled cold run of a paced scenario and a
\* ladder, a controlled-warm run, two steady-warm runs, a run without metrics,
\* a plan that names a scenario twice and one whose tolerance is not below its
\* target.
EXTENDS Bench

Base == [pattern |-> "same", groups |-> 1, batches |-> 1, size |-> 2, workers |-> 2, hot |-> 0, unique |-> 0,
         ladder |-> FALSE, paced |-> FALSE, warmups |-> 0, target |-> 0, tolerance |-> 0]

Plan0 == [mode |-> "cold", seed |-> 1, isolated |-> TRUE, formal |-> FALSE, skipEvidence |-> FALSE,
          provenance |-> FALSE, highConcurrency |-> FALSE, randomize |-> TRUE, sampling |-> TRUE, order |-> <<>>,
          scenarios |-> <<[Base EXCEPT !.paced = TRUE, !.pattern = "different"],
                          [Base EXCEPT !.ladder = TRUE, !.groups = 2, !.batches = 2]>>]

\* Of the mixed scenario's inputs 0 and 1 are hot, 2 is unique and 3 is of a
\* group of its own.
Warm == [Plan0 EXCEPT !.mode = "steady-warm", !.sampling = FALSE, !.randomize = FALSE, !.order = <<2, 1>>,
           !.scenarios = <<[Base EXCEPT !.pattern = "mixed", !.groups = 2, !.size = 4, !.workers = 1,
                                        !.hot = 50, !.unique = 25, !.warmups = 2],
                           [Base EXCEPT !.ladder = TRUE, !.groups = 2, !.batches = 2, !.workers = 1]>>]

MCPlans ==
  {Plan0,
   [Plan0 EXCEPT !.order = <<1, 1>>],
   [Plan0 EXCEPT !.mode = "", !.sampling = FALSE, !.scenarios = <<Base>>],
   [Plan0 EXCEPT !.mode = "controlled-warm", !.randomize = FALSE, !.scenarios =
      <<[Base EXCEPT !.pattern = "mixed", !.groups = 2, !.size = 1, !.batches = 2, !.warmups = 2,
                     !.target = 2, !.tolerance = 1]>>],
   Warm,
   [Warm EXCEPT !.scenarios = <<[Base EXCEPT !.groups = 2, !.size = 3, !.workers = 1, !.warmups = 2],
                                [Base EXCEPT !.size = 1, !.warmups = 1]>>],
   [Warm EXCEPT !.scenarios[1].target = 1, !.scenarios[1].tolerance = 1]}

MCStreams == {<<"text", "done">>, <<"blank", "done">>, <<"other", "text">>, <<"bad", "done">>}
MCBackends == {"b1", "b2", ""}
MCEvidence == {"ok", "outside"}
MCWorkers == 1..2
=============================================================================
