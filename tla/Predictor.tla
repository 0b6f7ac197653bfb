----------------------------- MODULE Predictor -----------------------------
(***************************************************************************)
(* internal/serving/prediction: the shadow predictor's window of samples   *)
(* per backend and its cached models.  A sample is the time it was         *)
(* recorded at; a model is the number of samples it was fitted on (0: no   *)
(* model).  The regression itself is arithmetic on the samples and leaves  *)
(* no other trace.                                                         *)
(***************************************************************************)
EXTENDS Observation, Sequences

CONSTANTS
  MaxSamples, MinimumSamples, RefitEvery, MaxSampleAge     \* Config

ASSUME PredictorConstants ==
  /\ {MaxSamples, MinimumSamples, RefitEvery, MaxSampleAge} \subseteq Nat \ {0}
  /\ MinimumSamples <= MaxSamples

VARIABLES
  samples,       \* tracker.samples: backend -> times, <<>> when there is no entry
  models         \* tracker.models: backend -> sampleCount, 0 when there is none

predictor == <<samples, models>>

InitPredictor ==
  /\ samples = [b \in Backends |-> <<>>]
  /\ models = [b \in Backends |-> 0]

\* pruneLocked: sort.Search finds the first sample that is young enough, or the end
\* of the window, by halving; it is the first only when the window is sorted.
First(window) ==
  CHOOSE i \in 1..Len(window) + 1 :
    /\ \A j \in 1..i - 1 : window[j] < now - MaxSampleAge
    /\ i <= Len(window) => window[i] >= now - MaxSampleAge
Young(window) == SubSeq(window, First(window), Len(window))
Pruned == [b \in Backends |-> Young(samples[b])]

\* The models left when the entries of the given backends are deleted from both maps.
Without(dropped) == [b \in Backends |-> IF b \in dropped THEN 0 ELSE models[b]]

\* Entries whose samples are all too old.
Expired == {b \in Backends : samples[b] # <<>> /\ Pruned[b] = <<>>}

Bug_Reconcile(list) ==
  LET dropped == {b \in Backends \ list : models[b] # 0}
  IN  /\ samples' = [b \in Backends |-> IF b \in dropped THEN <<>> ELSE samples[b]]
      /\ models' = Without(dropped)

\* Only backends with samples are looked at.
Reconcile(list) ==
  LET dropped == {b \in Backends \ list : samples[b] # <<>>}
  IN  /\ samples' = [b \in Backends |-> IF b \in dropped THEN <<>> ELSE samples[b]]
      /\ models' = Without(dropped)

\* modelLocked for one candidate, given its window and the cached model.
Refit(count, cached) ==
  IF cached # 0 /\ count >= cached /\ count - cached < RefitEvery THEN cached ELSE count

\* The candidates that shadowLocked does not stop at.
Shadow(candidates, loads) ==
  {b \in candidates : loads[b].valid /\ Len(Pruned[b]) >= MinimumSamples}

\* Begin, past its early returns.  shadowLocked goes through the candidates in their
\* order and gives up at the first that it cannot estimate: which models were
\* refitted by then depends on the order.
Begin(candidates, loads) ==
  /\ samples' = Pruned
  /\ \E fitted \in SUBSET Shadow(candidates, loads) :
       /\ Shadow(candidates, loads) = candidates => fitted = candidates
       /\ models' = [b \in Backends |-> IF b \in fitted
                                        THEN Refit(Len(Pruned[b]), Without(Expired)[b])
                                        ELSE Without(Expired)[b]]

\* append at the current time, keeping the newest MaxSamples.
Recorded(b) ==
  LET grown == Append(Pruned[b], now)
  IN  SubSeq(grown, IF Len(grown) > MaxSamples THEN Len(grown) - MaxSamples + 1 ELSE 1,
             Len(grown))

\* record.
Record(b) ==
  /\ samples' = [Pruned EXCEPT ![b] = Recorded(b)]
  /\ models' = Without(Expired)
=============================================================================
