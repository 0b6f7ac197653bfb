----------------------------- MODULE Admission -----------------------------
(***************************************************************************)
(* internal/serving/admission: the permit controller and the tuner that    *)
(* moves its soft target, with the request accounting of the gateway's     *)
(* proxy and Metrics.AdmissionSignal, which the tuner reads one atomic     *)
(* counter at a time.  Watermarks are fractions of WatermarkScale; the     *)
(* unit of time is the tuner's Interval.                                   *)
(***************************************************************************)
EXTENDS Integers, FiniteSets

CONSTANTS
  Requests,                      \* concurrent callers of proxy
  MaxInflight, InitialTarget,    \* Config
  Mode,                          \* "off", "shadow", "active"
  MinTarget, MaxTarget, TargetStep, Cooldown,
  LowWatermark, HighWatermark, WatermarkScale,
  MaxArrivals,                   \* bound: requests in all
  TickLength, MaxTime            \* bound: the clock advances by TickLength up to MaxTime

ASSUME AdmissionConstants ==
  /\ IsFiniteSet(Requests)
  /\ MaxInflight \in Nat \ {0} /\ InitialTarget \in 0..MaxInflight
  /\ Mode \in {"off", "shadow", "active"}
  /\ MinTarget \in Nat \ {0} /\ MaxTarget \in MinTarget..MaxInflight
  /\ TargetStep \in Nat \ {0} /\ Cooldown \in Nat
  /\ WatermarkScale \in Nat /\ HighWatermark \in 1..(WatermarkScale - 1)
  /\ LowWatermark \in 1..(HighWatermark - 1)
  /\ MaxArrivals \in Nat /\ TickLength \in Nat \ {0} /\ MaxTime \in Nat \ {0}

VARIABLES
  permits, target,      \* controller: len(permits), target
  pc,                   \* control point of each request
  total,                \* the atomic totals of Metrics
  now,                  \* clock
  tuner,                \* control point of the tuner loop
  sig,                  \* the Signal being read
  prev, hasSample,      \* tuner.previous, tuner.hasSample
  lastAction,           \* tuner.lastAction, 0 for the zero time
  reason                \* Reason of the last published Decision

ctrl == <<permits, target>>
loop == <<tuner, sig, prev, hasSample, lastAction, reason>>
vars == <<ctrl, pc, total, now, loop>>

Totals  == {"arrived", "inflight", "accepted", "completed", "rejected", "soft", "hard"}
Signal  == {"at", "inflight", "accepted", "completed", "rejected", "soft", "hard"}
NoSignal == [f \in Signal |-> 0]
Interval == 1

\* Control points of a request that holds a permit.
Holding == {"admitted", "counted", "serving", "leaving"}
Goto(r, place) == pc' = [pc EXCEPT ![r] = place]
Count(field, by) == total' = [total EXCEPT ![field] = @ + by]

Init ==
  /\ permits = 0 /\ target = IF InitialTarget = 0 THEN MaxInflight ELSE InitialTarget
  /\ pc = [r \in Requests |-> "out"] /\ total = [f \in Totals |-> 0]
  /\ now = 1 /\ tuner = IF Mode = "off" THEN "off" ELSE "wait"
  /\ sig = NoSignal /\ prev = NoSignal /\ hasSample = FALSE
  /\ lastAction = 0 /\ reason = "initial"

-----------------------------------------------------------------------------
(* The controller, called by proxy.                                        *)

BelowTarget == permits < target

Bug_Acquire(r) == permits <= target /\ permits' = permits + 1 /\ Goto(r, "admitted")
Acquire(r) ==
  /\ permits < MaxInflight /\ BelowTarget
  /\ permits' = permits + 1 /\ Goto(r, "admitted")

\* ErrHardLimit is tested before ErrSoftTarget.
Reject(r) ==
  /\ \/ permits >= MaxInflight /\ Goto(r, "hard")
     \/ permits < MaxInflight /\ ~BelowTarget /\ Goto(r, "soft")
  /\ UNCHANGED permits

TryAcquire(r) ==
  /\ pc[r] = "out" /\ total["arrived"] < MaxArrivals /\ Count("arrived", 1)
  /\ Acquire(r) \/ Reject(r)
  /\ UNCHANGED <<target, now, loop>>

Release(r) ==
  /\ pc[r] = "leaving" /\ Goto(r, "ended")
  /\ permits' = permits - 1
  /\ UNCHANGED <<target, total, now, loop>>

-----------------------------------------------------------------------------
(* proxy's accounting around the permit, one atomic Add at a time.         *)

Step(r, from, to, field, by) ==
  /\ pc[r] = from /\ Goto(r, to) /\ Count(field, by)
  /\ UNCHANGED <<ctrl, now, loop>>

Serve(r) ==
  \/ Step(r, "admitted", "counted", "accepted", 1)
  \/ Step(r, "counted", "serving", "inflight", 1)
  \/ Step(r, "serving", "leaving", "inflight", -1)      \* deferred
  \/ Step(r, "ended", "out", "completed", 1)            \* observeRequest

rejectAdmission(r) ==
  \/ Step(r, "soft", "softTotal", "rejected", 1)
  \/ Step(r, "softTotal", "ended", "soft", 1)
  \/ Step(r, "hard", "hardTotal", "rejected", 1)
  \/ Step(r, "hardTotal", "ended", "hard", 1)

-----------------------------------------------------------------------------
(* AdmissionSignal and tuner.step.                                         *)

Tick == now + TickLength <= MaxTime /\ now' = now + TickLength /\ UNCHANGED <<ctrl, pc, total, loop>>

\* One atomic load; the fields are read in the order of the struct literal.
Load(from, to, field) ==
  /\ tuner = from /\ tuner' = to
  /\ sig' = [sig EXCEPT ![field] = total[field],
                        !["at"] = IF from = "wait" THEN now ELSE @]
  /\ UNCHANGED <<ctrl, pc, total, now, prev, hasSample, lastAction, reason>>

AdmissionSignal ==
  \/ Load("wait", "accepted", "inflight")
  \/ Load("accepted", "completed", "accepted")
  \/ Load("completed", "rejected", "completed")
  \/ Load("rejected", "soft", "rejected")
  \/ Load("soft", "hard", "soft")
  \/ Load("hard", "step", "hard")

SignalUnusable ==
  \/ sig["inflight"] < 0
  \/ sig["soft"] + sig["hard"] > sig["rejected"]
  \/ now - sig["at"] > 2 * Interval

Monotonic == {"at", "accepted", "completed", "rejected", "soft", "hard"}
CounterReset == hasSample /\ \E f \in Monotonic : sig[f] < prev[f]
Delta(f) == IF hasSample THEN sig[f] - prev[f] ELSE 0

Saturated == sig["inflight"] * WatermarkScale >= HighWatermark * target
Underused == sig["inflight"] * WatermarkScale <= LowWatermark * target

Bug_Verdict ==
  CASE Delta("hard") > 0 \/ Saturated -> "overloaded"
    [] Delta("soft") > 0 -> "soft-target-pressure"
    [] Delta("accepted") > 0 /\ Underused -> "underutilized"
    [] OTHER -> "hold"
Verdict ==
  CASE Delta("hard") > 0 -> "overloaded"
    [] Delta("hard") <= 0 /\ Delta("soft") > 0 -> "soft-target-pressure"
    [] Delta("hard") <= 0 /\ Delta("soft") <= 0 /\ Saturated -> "saturated"
    [] Delta("hard") <= 0 /\ Delta("soft") <= 0 /\ ~Saturated
         /\ Delta("accepted") > 0 /\ Underused -> "underutilized"
    [] OTHER -> "hold"

Bug_Lowered == target - TargetStep
Lowered == IF target - TargetStep > MinTarget THEN target - TargetStep ELSE MinTarget
Raised  == IF target + TargetStep < MaxTarget THEN target + TargetStep ELSE MaxTarget

Suggested ==
  CASE Verdict = "overloaded" -> Lowered
    [] Verdict = "underutilized" -> Raised
    [] OTHER -> target

CoolingDown == lastAction # 0 /\ now - lastAction < Cooldown

\* SetTarget refuses a target outside 1..cap(permits).
SetTargetAccepts(t) == t \in 1..MaxInflight

TunerStep ==
  /\ tuner = "step" /\ tuner' = "wait" /\ sig' = NoSignal
  /\ IF SignalUnusable \/ CounterReset
     THEN /\ reason' = IF SignalUnusable THEN "signal-stale-or-invalid"
                                         ELSE "signal-counter-reset"
          /\ UNCHANGED <<prev, hasSample, target, lastAction>>
     ELSE /\ prev' = sig /\ hasSample' = TRUE
          /\ \/ /\ Suggested = target \/ (~CoolingDown /\ Mode # "active")
                /\ reason' = Verdict /\ UNCHANGED <<target, lastAction>>
             \/ /\ Suggested # target /\ CoolingDown
                /\ reason' = "cooldown" /\ UNCHANGED <<target, lastAction>>
             \/ /\ Suggested # target /\ ~CoolingDown /\ Mode = "active"
                /\ target' = IF SetTargetAccepts(Suggested) THEN Suggested ELSE target
                /\ lastAction' = IF SetTargetAccepts(Suggested) THEN now ELSE lastAction
                /\ reason' = IF SetTargetAccepts(Suggested) THEN Verdict
                                                            ELSE "target-update-failed"
  /\ UNCHANGED <<permits, pc, total, now>>

-----------------------------------------------------------------------------
Next ==
  \/ \E r \in Requests : TryAcquire(r) \/ Serve(r) \/ rejectAdmission(r) \/ Release(r)
  \/ Tick \/ AdmissionSignal \/ TunerStep

Spec == Init /\ [][Next]_vars

-----------------------------------------------------------------------------
Held == {r \in Requests : pc[r] \in Holding}

\* Types; the channel holds one element per request between TryAcquire and Release,
\* never more than MaxInflight, and SetTarget keeps the target within it.
TypeOK ==
  /\ permits \in 0..MaxInflight /\ permits = Cardinality(Held) /\ target \in 1..MaxInflight
  /\ pc \in [Requests -> Holding \cup {"out", "ended", "soft", "softTotal", "hard", "hardTotal"}]
  /\ total \in [Totals -> Nat] /\ now \in 1..MaxTime /\ lastAction \in 0..MaxTime
  /\ tuner \in {"off", "wait", "accepted", "completed", "rejected", "soft", "hard", "step"}
  /\ sig \in [Signal -> Nat] /\ prev \in [Signal -> Nat] /\ hasSample \in BOOLEAN

\* The controller is a pool of MaxInflight permits: moving the target grants and
\* revokes nothing, and no interleaving exceeds the hard limit.
Pool == INSTANCE PermitPool WITH held <- Held
PoolSpec == Pool!Spec

\* The tuner never sees its own process's counters run backwards, although it
\* reads them one by one while requests add to them, and it never asks SetTarget
\* for a target the controller refuses.
TunerNeverFaults == TypeOK /\ reason \notin {"signal-counter-reset", "target-update-failed"}

\* Stage 65: only a hard rejection, counted since the previous sample, lowers the
\* target; rejections by the soft target itself never do.  The one exception is a
\* configured InitialTarget above MaxTarget, which Validate accepts: the first
\* increase then cuts it to MaxTarget.
OnlyHardLowers ==
  [][target' < target => \/ total["hard"] > prev["hard"]
                         \/ target > MaxTarget /\ target' = MaxTarget]_vars
=============================================================================
