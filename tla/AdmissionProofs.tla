--------------------------- MODULE AdmissionProofs ---------------------------
(***************************************************************************)
(* The controller and its tuner for any number of requests and any         *)
(* configuration that Config.Validate and TuningConfig.Validate accept:    *)
(* the permits are a pool, the tuner never faults, and what lowers the     *)
(* target.                                                                 *)
(***************************************************************************)
EXTENDS Admission, FiniteSetTheorems, TLAPS

Places  == Holding \cup {"out", "ended", "soft", "softTotal", "hard", "hardTotal"}
Serving == {r \in Requests : pc[r] = "serving"}
Counters == {"accepted", "completed", "rejected", "soft", "hard"}

\* The gauge counts the requests between its two Adds, so it is never negative.
GaugeExact == total["inflight"] = Cardinality(Serving)

\* Nothing the tuner has read lies in the future: totals only grow.
NotAhead ==
  /\ \A f \in Counters : prev[f] <= total[f] /\ sig[f] <= total[f]
  /\ prev["at"] <= now /\ sig["at"] <= now

\* What the signal under way has already read is no older than the last sample.
NotBehind ==
  /\ tuner \in {"accepted", "completed", "rejected", "soft", "hard", "step"} => prev["at"] <= sig["at"]
  /\ tuner \in {"completed", "rejected", "soft", "hard", "step"} => prev["accepted"] <= sig["accepted"]
  /\ tuner \in {"rejected", "soft", "hard", "step"} => prev["completed"] <= sig["completed"]
  /\ tuner \in {"soft", "hard", "step"} => prev["rejected"] <= sig["rejected"]
  /\ tuner \in {"hard", "step"} => prev["soft"] <= sig["soft"]
  /\ tuner = "step" => prev["hard"] <= sig["hard"]

\* The inductive invariant.
IInv == TunerNeverFaults /\ GaugeExact /\ NotAhead /\ NotBehind

-----------------------------------------------------------------------------
LEMMA InitIInv == Init => IInv
<1> SUFFICES ASSUME Init PROVE IInv
  BY Zenon
<1> USE AdmissionConstants DEF AdmissionConstants
<1>1. Held = {} /\ Serving = {}
  BY Zenon DEF Init, Held, Serving, Holding
<1>2. Cardinality({}) = 0
  BY Zenon, FS_EmptySet
<1>3. total["inflight"] = 0 /\ permits = 0
  BY Zenon DEF Init, Totals
<1>4. TypeOK
  <2>1. hasSample \in BOOLEAN
    BY Zenon DEF Init
  <2>2. sig \in [Signal -> Nat] /\ prev \in [Signal -> Nat]
    BY Zenon DEF Init, Signal, NoSignal
  <2>3. total \in [Totals -> Nat] /\ target \in 1..MaxInflight /\ now \in 1..MaxTime /\ lastAction \in 0..MaxTime
    BY DEF Init, Totals
  <2>4. pc \in [Requests -> Places]
    BY Zenon DEF Init, Places
  <2>5. tuner \in {"off", "wait"}
    BY Zenon DEF Init
  <2>6. QED
    BY <1>1, <1>2, <1>3, <2>1, <2>2, <2>3, <2>4, <2>5 DEF TypeOK, Places
<1>5. NotAhead /\ NotBehind
  BY DEF Init, NotAhead, NotBehind, Counters, Totals, NoSignal, Signal
<1>6. QED
  BY Zenon, <1>1, <1>2, <1>3, <1>4, <1>5 DEF IInv, TunerNeverFaults, GaugeExact, Init

-----------------------------------------------------------------------------
\* The sets whose cardinality is counted are finite.
LEMMA FiniteHeld == IsFiniteSet(Held) /\ IsFiniteSet(Serving)
<1>1. Held \in SUBSET Requests /\ Serving \in SUBSET Requests
  BY Zenon DEF Held, Serving
<1>2. IsFiniteSet(Requests)
  BY Zenon, AdmissionConstants DEF AdmissionConstants
<1>3. QED
  BY Zenon, <1>1, <1>2, FS_Subset

\* What one Add of the accounting does to the totals.
LEMMA CountType ==
  ASSUME total \in [Totals -> Nat], NEW field \in Totals, Count(field, 1)
  PROVE  /\ total' \in [Totals -> Nat]
         /\ total'[field] = total[field] + 1
         /\ \A f \in Totals : f # field => total'[f] = total[f]
         /\ \A f \in Totals : total[f] <= total'[f]
BY DEF Count

\* A request that moves between control points of the same side of the permit.
LEMMA GotoHeld ==
  ASSUME TypeOK, NEW r \in Requests, NEW place \in Places, Goto(r, place)
  PROVE  /\ pc' \in [Requests -> Places]
         /\ (pc[r] \in Holding <=> place \in Holding) => Held' = Held
         /\ pc[r] \notin Holding /\ place \in Holding => Held' = Held \cup {r} /\ r \notin Held
         /\ pc[r] \in Holding /\ place \notin Holding => Held' = Held \ {r} /\ r \in Held
         /\ (pc[r] = "serving" <=> place = "serving") => Serving' = Serving
         /\ pc[r] # "serving" /\ place = "serving" => Serving' = Serving \cup {r} /\ r \notin Serving
         /\ pc[r] = "serving" /\ place # "serving" => Serving' = Serving \ {r} /\ r \in Serving
<1>1. pc \in [Requests -> Places] /\ pc' = [pc EXCEPT ![r] = place]
  BY Zenon DEF TypeOK, Places, Goto
<1>2. QED
  BY Zenon, <1>1 DEF Held, Serving
-----------------------------------------------------------------------------
(* One lemma per action.                                                   *)

\* Steps of the requests leave the tuner alone and only raise the counters.
LEMMA TunerUntouched ==
  ASSUME IInv, UNCHANGED <<now, loop>>, total' \in [Totals -> Nat],
         \A f \in Counters : total[f] <= total'[f]
  PROVE  /\ NotAhead' /\ NotBehind' /\ reason' \notin {"signal-counter-reset", "target-update-failed"}
<1>1. /\ \A f \in Counters : prev[f] \in Nat /\ sig[f] \in Nat /\ total[f] \in Nat /\ total'[f] \in Nat
      /\ now \in Nat
  BY DEF IInv, TunerNeverFaults, TypeOK, Counters, Signal, Totals
<1>2. UNCHANGED <<now, tuner, sig, prev, reason>>
  BY Zenon DEF loop
<1>3. NotAhead'
  BY <1>1, <1>2 DEF IInv, NotAhead
<1>4. NotBehind'
  BY Zenon, <1>2 DEF IInv, NotBehind
<1>5. QED
  BY Zenon, <1>2, <1>3, <1>4 DEF IInv, TunerNeverFaults

\* The types when a request steps.
LEMMA RequestStepType ==
  ASSUME IInv, UNCHANGED <<target, now, loop>>, total' \in [Totals -> Nat],
         pc' \in [Requests -> Places],
         permits' \in 0..MaxInflight, permits' = Cardinality(Held')
  PROVE  TypeOK'
<1>1. UNCHANGED <<target, now, tuner, sig, prev, hasSample, lastAction>>
  BY Zenon DEF loop
<1>2. QED
  BY Zenon, <1>1 DEF IInv, TunerNeverFaults, TypeOK, Places

LEMMA TryAcquireIInv == ASSUME IInv, NEW r \in Requests, TryAcquire(r) PROVE IInv'
<1> USE AdmissionConstants DEF AdmissionConstants
<1>0. TypeOK /\ pc[r] = "out" /\ UNCHANGED <<target, now, loop>>
  BY Zenon DEF IInv, TunerNeverFaults, TryAcquire
<1>1. /\ total' \in [Totals -> Nat] /\ total'["inflight"] = total["inflight"]
      /\ \A f \in Counters : total[f] <= total'[f]
  <2>1. total \in [Totals -> Nat] /\ "arrived" \in Totals /\ "inflight" \in Totals /\ Counters \subseteq Totals
    BY Zenon, <1>0 DEF TypeOK, Totals, Counters
  <2>2. Count("arrived", 1)
    BY Zenon DEF TryAcquire
  <2>3. QED
    BY Zenon, <2>1, <2>2, CountType
<1>2. CASE Acquire(r)
  <2>1. Goto(r, "admitted") /\ permits' = permits + 1 /\ permits < MaxInflight
    BY Zenon, <1>2 DEF Acquire
  <2>2. /\ pc' \in [Requests -> Places] /\ Held' = Held \cup {r} /\ r \notin Held
        /\ Serving' = Serving
    BY <1>0, <2>1, GotoHeld DEF Places, Holding
  <2>3. Cardinality(Held') = Cardinality(Held) + 1
    BY Zenon, <2>2, FiniteHeld, FS_AddElement
  <2>4. permits' \in 0..MaxInflight /\ permits' = Cardinality(Held')
    BY <1>0, <2>1, <2>3 DEF TypeOK
  <2>5. TypeOK'
    BY Zenon, <1>0, <1>1, <2>2, <2>4, RequestStepType
  <2>6. QED
    BY Zenon, <1>0, <1>1, <2>2, <2>5, TunerUntouched DEF IInv, TunerNeverFaults, GaugeExact
<1>3. CASE Reject(r)
  <2>1. PICK place \in {"soft", "hard"} : Goto(r, place) /\ permits' = permits
    BY Zenon, <1>3 DEF Reject
  <2>2. pc' \in [Requests -> Places] /\ Held' = Held /\ Serving' = Serving
    BY Zenon, <1>0, <2>1, GotoHeld DEF Places, Holding
  <2>3. permits' \in 0..MaxInflight /\ permits' = Cardinality(Held')
    BY Zenon, <1>0, <2>1, <2>2 DEF TypeOK
  <2>4. TypeOK'
    BY Zenon, <1>0, <1>1, <2>2, <2>3, RequestStepType
  <2>5. QED
    BY Zenon, <1>0, <1>1, <2>2, <2>4, TunerUntouched DEF IInv, TunerNeverFaults, GaugeExact
<1>4. QED
  BY Zenon, <1>2, <1>3 DEF TryAcquire

LEMMA ReleaseIInv == ASSUME IInv, NEW r \in Requests, Release(r) PROVE IInv'
<1> USE AdmissionConstants DEF AdmissionConstants
<1>0. TypeOK /\ pc[r] = "leaving" /\ Goto(r, "ended") /\ permits' = permits - 1
      /\ UNCHANGED <<target, now, loop>> /\ total' = total
  BY Zenon DEF IInv, TunerNeverFaults, Release
<1>1. pc' \in [Requests -> Places] /\ Held' = Held \ {r} /\ r \in Held /\ Serving' = Serving
  BY <1>0, GotoHeld DEF Places, Holding
<1>2. Cardinality(Held') = Cardinality(Held) - 1 /\ Cardinality(Held') \in Nat
  BY Zenon, <1>1, FiniteHeld, FS_RemoveElement, FS_CardinalityType
<1>3. permits' \in 0..MaxInflight /\ permits' = Cardinality(Held')
  BY <1>0, <1>2 DEF TypeOK
<1>4. total' \in [Totals -> Nat] /\ \A f \in Counters : total[f] <= total'[f]
  BY <1>0 DEF TypeOK, Totals, Counters
<1>5. TypeOK'
  BY Zenon, <1>0, <1>1, <1>3, <1>4, RequestStepType
<1>6. QED
  BY Zenon, <1>0, <1>1, <1>4, <1>5, TunerUntouched DEF IInv, TunerNeverFaults, GaugeExact

\* An Add to a counter, between control points on the same side of the permit
\* and of the gauge.
LEMMA CountingStep ==
  ASSUME IInv, NEW r \in Requests, NEW from \in Places, NEW to \in Places, NEW field \in Counters,
         from \in Holding <=> to \in Holding, from # "serving", to # "serving",
         Step(r, from, to, field, 1)
  PROVE  IInv'
<1>0. TypeOK /\ pc[r] = from /\ Goto(r, to) /\ Count(field, 1) /\ permits' = permits
      /\ UNCHANGED <<target, now, loop>>
  BY Zenon DEF IInv, TunerNeverFaults, Step, ctrl
<1>1. pc' \in [Requests -> Places] /\ Held' = Held /\ Serving' = Serving
  BY Zenon, <1>0, GotoHeld
<1>2. /\ total' \in [Totals -> Nat] /\ total'["inflight"] = total["inflight"]
      /\ \A f \in Counters : total[f] <= total'[f]
  <2>1. total \in [Totals -> Nat] /\ field \in Totals /\ "inflight" \in Totals
        /\ field # "inflight" /\ Counters \subseteq Totals
    BY Zenon, <1>0 DEF TypeOK, Totals, Counters
  <2>2. QED
    BY Zenon, <1>0, <2>1, CountType
<1>3. permits' \in 0..MaxInflight /\ permits' = Cardinality(Held')
  BY Zenon, <1>0, <1>1 DEF TypeOK
<1>4. TypeOK'
  BY Zenon, <1>0, <1>1, <1>2, <1>3, RequestStepType
<1>5. QED
  BY Zenon, <1>0, <1>1, <1>2, <1>4, TunerUntouched DEF IInv, TunerNeverFaults, GaugeExact
\* The gauge moves with the request that enters or leaves the upstream call.
LEMMA GaugeStep ==
  ASSUME IInv, NEW r \in Requests,
         \/ Step(r, "counted", "serving", "inflight", 1)
         \/ Step(r, "serving", "leaving", "inflight", -1)
  PROVE  IInv'
<1>0. TypeOK /\ GaugeExact /\ permits' = permits /\ UNCHANGED <<target, now, loop>>
  BY Zenon DEF IInv, TunerNeverFaults, Step, ctrl
<1>1. pc' \in [Requests -> Places] /\ Held' = Held
  <2>1. CASE pc[r] = "counted" /\ Goto(r, "serving")
    BY Zenon, <1>0, <2>1, GotoHeld DEF Places, Holding
  <2>2. CASE pc[r] = "serving" /\ Goto(r, "leaving")
    BY Zenon, <1>0, <2>2, GotoHeld DEF Places, Holding
  <2>3. QED
    BY Zenon, <2>1, <2>2 DEF Step
<1>2. total' \in [Totals -> Nat] /\ GaugeExact'
  <2>0. total \in [Totals -> Nat] /\ "inflight" \in Totals
    BY Zenon, <1>0 DEF TypeOK, Totals
  <2>1. CASE Step(r, "counted", "serving", "inflight", 1)
    <3>1. Serving' = Serving \cup {r} /\ r \notin Serving
      BY Zenon, <1>0, <2>1, GotoHeld DEF Places, Holding, Step
    <3>2. Cardinality(Serving') = Cardinality(Serving) + 1
      BY Zenon, <3>1, FiniteHeld, FS_AddElement
    <3>3. QED
      BY <1>0, <2>0, <2>1, <3>2 DEF Step, Count, GaugeExact
  <2>2. CASE Step(r, "serving", "leaving", "inflight", -1)
    <3>1. Serving' = Serving \ {r} /\ r \in Serving
      BY Zenon, <1>0, <2>2, GotoHeld DEF Places, Holding, Step
    <3>2. Cardinality(Serving') = Cardinality(Serving) - 1 /\ Cardinality(Serving') \in Nat
      BY Zenon, <3>1, FiniteHeld, FS_RemoveElement, FS_CardinalityType
    <3>3. total' = [total EXCEPT !["inflight"] = total["inflight"] - 1]
      BY Zenon, <2>0, <2>2 DEF Step, Count
    <3>4. QED
      BY Zenon, <1>0, <2>0, <3>2, <3>3 DEF GaugeExact
  <2>3. QED
    BY Zenon, <2>1, <2>2
<1>3. \A f \in Counters : total[f] <= total'[f]
  <2>1. \A f \in Counters : total'[f] = total[f] /\ total[f] \in Nat
    BY Zenon, <1>0 DEF Step, Count, TypeOK, Counters, Totals
  <2>2. QED
    BY <2>1
<1>4. permits' \in 0..MaxInflight /\ permits' = Cardinality(Held')
  BY Zenon, <1>0, <1>1 DEF TypeOK
<1>5. TypeOK'
  BY Zenon, <1>0, <1>1, <1>2, <1>4, RequestStepType
<1>6. QED
  BY Zenon, <1>0, <1>2, <1>3, <1>5, TunerUntouched DEF IInv, TunerNeverFaults

LEMMA AccountingIInv ==
  ASSUME IInv, NEW r \in Requests, Serve(r) \/ rejectAdmission(r) PROVE IInv'
<1> USE DEF Places, Holding, Counters
<1>1. CASE Step(r, "admitted", "counted", "accepted", 1)
  BY Zenon, <1>1, CountingStep
<1>2. CASE \/ Step(r, "counted", "serving", "inflight", 1)
           \/ Step(r, "serving", "leaving", "inflight", -1)
  BY Zenon, <1>2, GaugeStep
<1>3. CASE Step(r, "ended", "out", "completed", 1)
  BY Zenon, <1>3, CountingStep
<1>4. CASE Step(r, "soft", "softTotal", "rejected", 1)
  BY Zenon, <1>4, CountingStep
<1>5. CASE Step(r, "softTotal", "ended", "soft", 1)
  BY Zenon, <1>5, CountingStep
<1>6. CASE Step(r, "hard", "hardTotal", "rejected", 1)
  BY Zenon, <1>6, CountingStep
<1>7. CASE Step(r, "hardTotal", "ended", "hard", 1)
  BY Zenon, <1>7, CountingStep
<1>8. QED
  BY Zenon, <1>1, <1>2, <1>3, <1>4, <1>5, <1>6, <1>7 DEF Serve, rejectAdmission

\* Steps of the clock and of the tuner leave the requests alone.
LEMMA RequestsUntouched ==
  ASSUME IInv, UNCHANGED <<permits, pc, total>>
  PROVE  /\ permits' \in 0..MaxInflight /\ permits' = Cardinality(Held')
         /\ pc' \in [Requests -> Places] /\ total' \in [Totals -> Nat] /\ GaugeExact'
<1>1. Held' = Held /\ Serving' = Serving
  BY Zenon DEF Held, Serving
<1>2. QED
  BY Zenon, <1>1 DEF IInv, TunerNeverFaults, TypeOK, Places, GaugeExact

LEMMA TickIInv == ASSUME IInv, Tick PROVE IInv'
<1> USE AdmissionConstants DEF AdmissionConstants
<1>0. TypeOK /\ now' = now + TickLength /\ now' <= MaxTime
      /\ UNCHANGED <<permits, target, pc, total, tuner, sig, prev, hasSample, lastAction, reason>>
  BY Zenon DEF IInv, TunerNeverFaults, Tick, ctrl, loop
<1>1. now' \in 1..MaxTime /\ now <= now' /\ now \in Nat
  BY <1>0 DEF TypeOK
<1>2. TypeOK'
  BY Zenon, <1>0, <1>1, RequestsUntouched DEF TypeOK, Places
<1>3. NotAhead'
  <2>1. prev["at"] \in Nat /\ sig["at"] \in Nat
    BY Zenon, <1>0 DEF TypeOK, Signal
  <2>2. QED
    BY <1>0, <1>1, <2>1 DEF IInv, NotAhead
<1>4. NotBehind'
  BY Zenon, <1>0 DEF IInv, NotBehind
<1>5. QED
  BY Zenon, <1>0, <1>2, <1>3, <1>4, RequestsUntouched DEF IInv, TunerNeverFaults
\* One load of AdmissionSignal: the field read is no older than the last sample
\* and not in the future.
LEMMA LoadIInv ==
  ASSUME IInv, NEW from, NEW to, NEW field \in Signal \ {"at"}, Load(from, to, field),
         <<from, to, field>> \in {<<"wait", "accepted", "inflight">>,
           <<"accepted", "completed", "accepted">>, <<"completed", "rejected", "completed">>,
           <<"rejected", "soft", "rejected">>, <<"soft", "hard", "soft">>, <<"hard", "step", "hard">>}
  PROVE  IInv'
<1>0. /\ TypeOK /\ tuner = from /\ tuner' = to
      /\ sig' = [sig EXCEPT ![field] = total[field], !["at"] = IF from = "wait" THEN now ELSE @]
      /\ UNCHANGED <<permits, target, pc, total, now, prev, hasSample, lastAction, reason>>
  BY Zenon DEF IInv, TunerNeverFaults, Load, ctrl
<1>1. /\ sig \in [Signal -> Nat] /\ prev \in [Signal -> Nat] /\ total \in [Totals -> Nat]
      /\ now \in Nat /\ field \in Totals
  BY <1>0 DEF TypeOK, Signal, Totals
<1>2. /\ sig' \in [Signal -> Nat] /\ sig'[field] = total[field]
      /\ sig'["at"] = IF from = "wait" THEN now ELSE sig["at"]
      /\ \A f \in Signal \ {"at", field} : sig'[f] = sig[f]
  BY Zenon, <1>0, <1>1 DEF Signal
<1>3. TypeOK'
  <2>1. tuner' \in {"accepted", "completed", "rejected", "soft", "hard", "step"}
    BY Zenon, <1>0
  <2>2. hasSample' \in BOOLEAN
    BY Zenon, <1>0 DEF TypeOK
  <2>3. QED
    BY Zenon, <1>0, <1>2, <2>1, <2>2, RequestsUntouched DEF TypeOK, Places
<1>4. NotAhead'
  <2>1. \A f \in Counters : f \in Signal /\ f # "at" /\ f \in Totals
    BY Zenon DEF Counters, Signal, Totals
  <2>2. \A f \in Counters : prev[f]' <= total[f]' /\ sig[f]' <= total[f]'
    BY <1>0, <1>1, <1>2, <2>1 DEF IInv, NotAhead
  <2>3. prev["at"]' <= now' /\ sig["at"]' <= now'
    BY <1>0, <1>1, <1>2 DEF IInv, NotAhead, Signal
  <2>4. QED
    BY Zenon, <2>2, <2>3 DEF NotAhead
<1>5. NotBehind'
  <2>1. prev["at"] <= now /\ \A f \in Counters : prev[f] <= total[f]
    BY Zenon DEF IInv, NotAhead
  <2> USE DEF NotBehind, IInv, Counters, Signal
  <2>2. CASE from = "wait" /\ to = "accepted" /\ field = "inflight"
    BY Zenon, <1>0, <1>2, <2>1, <2>2
  <2>3. CASE from = "accepted" /\ to = "completed" /\ field = "accepted"
    BY Zenon, <1>0, <1>2, <2>1, <2>3
  <2>4. CASE from = "completed" /\ to = "rejected" /\ field = "completed"
    BY Zenon, <1>0, <1>2, <2>1, <2>4
  <2>5. CASE from = "rejected" /\ to = "soft" /\ field = "rejected"
    BY Zenon, <1>0, <1>2, <2>1, <2>5
  <2>6. CASE from = "soft" /\ to = "hard" /\ field = "soft"
    BY Zenon, <1>0, <1>2, <2>1, <2>6
  <2>7. CASE from = "hard" /\ to = "step" /\ field = "hard"
    BY Zenon, <1>0, <1>2, <2>1, <2>7
  <2>8. QED
    BY Zenon, <2>2, <2>3, <2>4, <2>5, <2>6, <2>7
<1>6. QED
  BY Zenon, <1>0, <1>3, <1>4, <1>5, RequestsUntouched DEF IInv, TunerNeverFaults

LEMMA AdmissionSignalIInv == ASSUME IInv, AdmissionSignal PROVE IInv'
BY Zenon, LoadIInv DEF AdmissionSignal, Signal

\* A verdict is one of five, and only two of them move the target.
LEMMA VerdictMoves ==
  ASSUME TypeOK
  PROVE  /\ Verdict \in {"overloaded", "soft-target-pressure", "saturated", "underutilized", "hold"}
         /\ Verdict = "overloaded" => Delta("hard") > 0
         /\ Suggested = target \/ (Verdict = "overloaded" /\ Suggested = Lowered)
                              \/ (Verdict = "underutilized" /\ Suggested = Raised)
<1>1. /\ Verdict \in {"overloaded", "soft-target-pressure", "saturated", "underutilized", "hold"}
      /\ Verdict = "overloaded" => Delta("hard") > 0
  BY Zenon DEF Verdict
<1>2. QED
  BY Zenon, <1>1 DEF Suggested

\* SetTarget accepts every target the tuner can ask for.
LEMMA SuggestedAccepted == ASSUME TypeOK PROVE SetTargetAccepts(Suggested)
<1> USE AdmissionConstants DEF AdmissionConstants
<1>1. Lowered \in 1..MaxInflight /\ Raised \in 1..MaxInflight /\ target \in 1..MaxInflight
  BY DEF Lowered, Raised, TypeOK
<1>2. QED
  BY Zenon, <1>1, VerdictMoves DEF SetTargetAccepts

LEMMA TunerStepIInv == ASSUME IInv, TunerStep PROVE IInv'
<1> USE AdmissionConstants DEF AdmissionConstants
<1>0. /\ TypeOK /\ tuner = "step" /\ tuner' = "wait" /\ sig' = NoSignal
      /\ UNCHANGED <<permits, pc, total, now>>
  BY Zenon DEF IInv, TunerNeverFaults, TunerStep
<1>1. ~CounterReset
  <2>1. \A f \in Monotonic : prev[f] <= sig[f] /\ prev[f] \in Nat /\ sig[f] \in Nat
    BY Zenon, <1>0 DEF IInv, NotBehind, Monotonic, TypeOK, Signal
  <2>2. QED
    BY <2>1 DEF CounterReset
<1>2. NoSignal \in [Signal -> Nat] /\ \A f \in Signal : NoSignal[f] = 0
  BY Zenon DEF NoSignal
<1>3. \/ UNCHANGED prev
      \/ prev' = sig
  BY Zenon DEF TunerStep
<1>4. NotAhead'
  <2>1. \A f \in Counters : f \in Signal /\ f \in Totals
    BY Zenon DEF Counters, Signal, Totals
  <2>2. \A f \in Counters : total[f] \in Nat
    BY Zenon, <1>0, <2>1 DEF TypeOK
  <2>3. \A f \in Counters : prev'[f] <= total[f] /\ 0 <= total[f]
    BY <1>3, <2>2 DEF IInv, NotAhead
  <2>4. prev'["at"] <= now /\ 0 <= now /\ sig'["at"] = 0
    BY <1>0, <1>2, <1>3 DEF IInv, NotAhead, TypeOK, Signal
  <2>5. QED
    BY Zenon, <1>0, <1>2, <2>1, <2>3, <2>4 DEF NotAhead
<1>5. NotBehind'
  BY Zenon, <1>0 DEF NotBehind
<1>6. hasSample' \in BOOLEAN
  BY Zenon, <1>0 DEF TunerStep, TypeOK
<1>7. prev' \in [Signal -> Nat]
  BY Zenon, <1>0, <1>3 DEF TypeOK
<1>8. /\ target' \in 1..MaxInflight /\ lastAction' \in 0..MaxTime
      /\ reason' \notin {"signal-counter-reset", "target-update-failed"}
  <2>1. CASE SignalUnusable
    BY Zenon, <1>0, <2>1 DEF TunerStep, TypeOK
  <2>2. CASE ~SignalUnusable
    <3>1. Suggested \in 1..MaxInflight /\ SetTargetAccepts(Suggested)
      BY Zenon, <1>0, SuggestedAccepted DEF SetTargetAccepts
    <3>2. now \in 0..MaxTime /\ lastAction \in 0..MaxTime /\ target \in 1..MaxInflight
      BY <1>0 DEF TypeOK
    <3>3. /\ target' \in {target, Suggested} /\ lastAction' \in {lastAction, now}
          /\ reason' \in {Verdict, "cooldown"}
      BY Zenon, <1>1, <2>2, <3>1 DEF TunerStep
    <3>4. QED
      BY Zenon, <1>0, <3>1, <3>2, <3>3, VerdictMoves
  <2>3. QED
    BY Zenon, <2>1, <2>2
<1>9. TypeOK'
  BY Zenon, <1>0, <1>2, <1>6, <1>7, <1>8, RequestsUntouched DEF TypeOK, Places
<1>10. QED
  BY Zenon, <1>0, <1>4, <1>5, <1>8, <1>9, RequestsUntouched DEF IInv, TunerNeverFaults
LEMMA StutterIInv == ASSUME IInv, UNCHANGED vars PROVE IInv'
<1>1. Held' = Held /\ Serving' = Serving
  BY Zenon DEF vars, ctrl, Held, Serving
<1>2. hasSample' \in BOOLEAN
  BY Zenon DEF vars, loop, IInv, TunerNeverFaults, TypeOK
<1>3. TypeOK'
  BY Zenon, <1>1, <1>2 DEF vars, ctrl, loop, IInv, TunerNeverFaults, TypeOK
<1>4. GaugeExact' /\ NotAhead' /\ NotBehind'
  BY Zenon, <1>1 DEF vars, ctrl, loop, IInv, GaugeExact, NotAhead, NotBehind
<1>5. QED
  BY Zenon, <1>3, <1>4 DEF vars, loop, IInv, TunerNeverFaults

LEMMA NextIInv == IInv /\ [Next]_vars => IInv'
<1> SUFFICES ASSUME IInv, [Next]_vars PROVE IInv'
  BY Zenon
<1>1. ASSUME NEW r \in Requests, TryAcquire(r) PROVE IInv'
  BY Zenon, <1>1, TryAcquireIInv
<1>2. ASSUME NEW r \in Requests, Serve(r) \/ rejectAdmission(r) PROVE IInv'
  BY Zenon, <1>2, AccountingIInv
<1>3. ASSUME NEW r \in Requests, Release(r) PROVE IInv'
  BY Zenon, <1>3, ReleaseIInv
<1>4. QED
  BY Zenon, <1>1, <1>2, <1>3, TickIInv, AdmissionSignalIInv, TunerStepIInv, StutterIInv DEF Next

\* tuner.step never reports signal-counter-reset or target-update-failed, and the
\* permit channel always holds exactly one element per request that got one: for
\* any set of requests, any valid configuration and every interleaving of the
\* tuner's loads with the requests' Adds.
THEOREM TunerSafe == Spec => []TunerNeverFaults
<1>1. IInv => TunerNeverFaults
  BY Zenon DEF IInv
<1>2. QED
  BY <1>1, InitIInv, NextIInv, PTL DEF Spec

-----------------------------------------------------------------------------
\* A step of the controller grants or takes back one permit, or moves none.
LEMMA NextPool == IInv /\ [Next]_vars => [Pool!Next]_Held
<1> SUFFICES ASSUME IInv, [Next]_vars PROVE [Pool!Next]_Held
  BY Zenon
<1>0. TypeOK
  BY Zenon DEF IInv, TunerNeverFaults
<1>1. ASSUME NEW r \in Requests, TryAcquire(r) PROVE [Pool!Next]_Held
  <2>1. CASE Acquire(r)
    <3>1. Held' = Held \cup {r} /\ r \notin Held
      BY Zenon, <1>0, <1>1, <2>1, GotoHeld DEF TryAcquire, Acquire, Places, Holding
    <3>2. Cardinality(Held) < MaxInflight
      BY Zenon, <1>0, <2>1 DEF TypeOK, Acquire
    <3>3. Pool!Cardinality(Held) = Cardinality(Held)
      BY Zenon DEF Pool!Cardinality, Cardinality
    <3>4. QED
      BY Zenon, <3>1, <3>2, <3>3 DEF Pool!Next, Pool!Grant
  <2>2. CASE Reject(r)
    <3>1. Held' = Held
      BY Zenon, <1>0, <1>1, <2>2, GotoHeld DEF TryAcquire, Reject, Places, Holding
    <3>2. QED
      BY Zenon, <3>1
  <2>3. QED
    BY Zenon, <1>1, <2>1, <2>2 DEF TryAcquire
<1>2. ASSUME NEW r \in Requests, Serve(r) \/ rejectAdmission(r) PROVE [Pool!Next]_Held
  <2>1. ASSUME NEW from \in Places, NEW to \in Places, NEW field, NEW by,
               from \in Holding <=> to \in Holding, Step(r, from, to, field, by)
        PROVE  Held' = Held
    BY Zenon, <1>0, <2>1, GotoHeld DEF Step
  <2>2. Held' = Held
    BY Zenon, <1>2, <2>1 DEF Serve, rejectAdmission, Places, Holding
  <2>3. QED
    BY Zenon, <2>2
<1>3. ASSUME NEW r \in Requests, Release(r) PROVE [Pool!Next]_Held
  <2>1. Held' = Held \ {r} /\ r \in Held
    BY <1>0, <1>3, GotoHeld DEF Release, Places, Holding
  <2>2. QED
    BY Zenon, <2>1 DEF Pool!Next, Pool!GiveBack
<1>4. CASE UNCHANGED pc
  BY Zenon, <1>4 DEF Held
<1>5. QED
  BY Zenon, <1>1, <1>2, <1>3, <1>4 DEF Next, Tick, AdmissionSignal, Load, TunerStep, vars

\* The controller implements the pool of MaxInflight permits: TryAcquire grants
\* only when fewer than MaxInflight are out, only the holder's Release returns
\* one, and the tuner's SetTarget moves none.
THEOREM ControllerIsPool == Spec => PoolSpec
<1>1. Init => Pool!Init
  BY Zenon DEF Init, Pool!Init, Held, Holding
<1>2. QED
  BY <1>1, InitIInv, NextIInv, NextPool, PTL DEF Spec, PoolSpec, Pool!Spec

-----------------------------------------------------------------------------
\* What a step that lowers the target has seen.
LEMMA NextLowers ==
  IInv /\ [Next]_vars => [target' < target => \/ total["hard"] > prev["hard"]
                                              \/ target > MaxTarget /\ target' = MaxTarget]_vars
<1> SUFFICES ASSUME IInv, Next, target' < target
             PROVE  \/ total["hard"] > prev["hard"]
                    \/ target > MaxTarget /\ target' = MaxTarget
  BY Zenon
<1> USE AdmissionConstants DEF AdmissionConstants
<1>0. TypeOK /\ target \in 1..MaxInflight
  BY Zenon DEF IInv, TunerNeverFaults, TypeOK
<1>1. target' # target
  BY <1>0
<1>2. TunerStep
  BY Zenon, <1>1 DEF Next, TryAcquire, Serve, rejectAdmission, Step, Release, Tick,
              AdmissionSignal, Load, ctrl
<1>3. target' = Suggested
  BY Zenon, <1>1, <1>2 DEF TunerStep
<1>4. CASE Verdict = "overloaded"
  <2>1. sig["hard"] - prev["hard"] > 0
    BY <1>0, <1>4, VerdictMoves DEF Delta
  <2>2. sig["hard"] <= total["hard"] /\ sig["hard"] \in Nat /\ prev["hard"] \in Nat /\ total["hard"] \in Nat
    BY Zenon, <1>0 DEF IInv, NotAhead, Counters, TypeOK, Signal, Totals
  <2>3. QED
    BY <2>1, <2>2
<1>5. CASE Suggested = Raised
  BY <1>0, <1>3, <1>5 DEF Raised
<1>6. QED
  BY Zenon, <1>0, <1>1, <1>3, <1>4, <1>5, VerdictMoves

\* tuner.step lowers the target only after a hard rejection counted since its
\* last sample, never because of the soft target's own rejections or of a high
\* gauge; the exception is the cut of an InitialTarget above MaxTarget.
THEOREM LoweredByHardRejection == Spec => OnlyHardLowers
BY InitIInv, NextIInv, NextLowers, PTL DEF Spec, OnlyHardLowers
==============================================================================
