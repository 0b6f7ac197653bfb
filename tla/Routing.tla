------------------------------ MODULE Routing ------------------------------
(***************************************************************************)
(* The selection strategies of internal/serving/routing as operators on    *)
(* one immutable snapshot, with the projections that requestpath and the   *)
(* static TTFT estimator (internal/serving/prediction) put into it.        *)
(*                                                                         *)
(* A backend ID is a positive number (IDs are only compared), the Service  *)
(* fallback is 0.  A metrics sample is [valid, half], its value in halves. *)
(* int64 arithmetic is kept: Top stands for 2^63-1 and Wrap for overflow.  *)
(***************************************************************************)
EXTENDS Integers, Sequences, FiniteSets, Functions

CONSTANTS
  Top,                                         \* maximumKVAwareCost, math.MaxInt64
  QueuePenalty, RunningPenalty, InflightPenalty,  \* KVAwareConfig
  HardQueueDepth, HardLocalInflight, RuntimeLimit, \* requestpath.Config, 0 = off
  QueueDepthDelta, InflightDelta,              \* SessionKeyConfig
  Profile,                                     \* prediction.StaticProfile
  TiesUp          \* operands of an interpolation that lies half-way between two
                  \* durations and that float64 arithmetic rounds up

\* KVAwareConfig.Validate.
ASSUME CostConstants ==
  Top \in Nat /\ {QueuePenalty, RunningPenalty, InflightPenalty} \subseteq 0..Top

Increasing(values) == \A i, j \in 1..Len(values) : i < j => values[i] < values[j]
\* StaticProfile.Validate: what it requires of the breakpoints, the grid (its values
\* do not increase with the cached ratio) and the coefficients.
ASSUME ProfileConstants ==
  /\ Profile.prompts \in Seq(Nat \ {0}) /\ Len(Profile.prompts) > 0 /\ Increasing(Profile.prompts)
  /\ Profile.ratios \in Seq(Nat) /\ Len(Profile.ratios) > 1 /\ Increasing(Profile.ratios)
  /\ \A i \in 1..Len(Profile.prompts), j \in 1..Len(Profile.ratios) :
       /\ Profile.prefill[i][j] \in Nat
       /\ \A k \in 1..j : Profile.prefill[i][j] <= Profile.prefill[i][k]
  /\ {Profile.margin, Profile.queueWait, Profile.runningDelay, Profile.deltaDelay, Profile.localDelay}
       \subseteq 0..Top

\* The interpolation is done in float64.  For durations below m over breakpoints w
\* apart, m * w < 2^50 keeps its error below the distance to the next half-way
\* point, so that it is rounded as exact arithmetic would be, but for ties.
Precise(m, w) == (m \div 2^27 + 1) * (w \div 2^13 + 1) <= 2^10
ASSUME PrecisionConstants ==
  \A i \in 1..Len(Profile.prompts), j \in 1..Len(Profile.ratios) :
    /\ \A k \in 2..Len(Profile.prompts) : Precise(Profile.prefill[i][j], Profile.prompts[k] - Profile.prompts[k - 1])
    /\ \A k \in 2..Len(Profile.ratios) : Precise(Profile.prefill[i][j], Profile.ratios[k] - Profile.ratios[k - 1])

Service == 0
cacheRatioBasisPoints == 10000
Wrap(n) == ((n + Top + 1) % (2 * (Top + 1))) - (Top + 1)

\* "best := list[0]; for each other one, if less(candidate, best) ..."
\* (best[i]: the variable after list[i] was looked at; beats[b]: those that b is
\* less than).
Scan(list, beats) ==
  LET best == CHOOSE f \in [1..Len(list) -> Range(list)] :
                /\ f[1] = list[1]
                /\ \A i \in 2..Len(list) : f[i] = IF f[i - 1] \in beats[list[i]] THEN list[i] ELSE f[i - 1]
  IN  best[Len(list)]

\* "for each one, if it is in keep, result = append(result, it)": the i-th of the
\* result is the element with which i of them have been kept.
Filtered(list, keep) ==
  LET kept(j) == Cardinality({k \in 1..j : list[k] \in keep})
  IN  [i \in 1..kept(Len(list)) |->
         list[CHOOSE j \in 1..Len(list) : list[j] \in keep /\ kept(j) = i]]

-----------------------------------------------------------------------------
(* Projection of observations (requestpath).                               *)

\* math.Ceil of a sample an int64 can hold; NaN and infinities are samples
\* without a number, as an invalid one is.
nonNegativeCount(sample) ==
  IF sample.valid /\ sample.half >= 0 /\ sample.half <= 2 * Top
  THEN [ok |-> TRUE, n |-> (sample.half + 1) \div 2] ELSE [ok |-> FALSE, n |-> 0]

runtimeHardOverloaded(o) == RuntimeLimit > 0 /\ o.runtime.valid /\ o.runtime.half >= RuntimeLimit

hardOverloaded(load, inflight) ==
  \/ load.valid /\ HardQueueDepth > 0 /\ load.queue >= HardQueueDepth
  \/ HardLocalInflight > 0 /\ inflight >= HardLocalInflight
  \/ load.hot

Unknown == [valid |-> FALSE, half |-> 0]
\* The zero value a map lookup yields for a backend without an observation.
Observed(obs, b) ==
  IF b \in DOMAIN obs THEN obs[b] ELSE [queue |-> Unknown, running |-> Unknown, runtime |-> Unknown]

routingLoad(o, inflight) ==
  LET q     == nonNegativeCount(o.queue)
      r     == nonNegativeCount(o.running)
      valid == q.ok /\ r.ok
      load  == [valid   |-> valid,
                queue   |-> IF valid THEN q.n ELSE 0,
                running |-> IF valid THEN r.n ELSE 0,
                delta   |-> IF valid /\ inflight > r.n THEN inflight - r.n ELSE 0,
                hot     |-> runtimeHardOverloaded(o), hard |-> FALSE]
  IN  [load EXCEPT !.hard = hardOverloaded(load, inflight)]

routingLoads(order, obs, inflight) ==
  [b \in Range(order) |-> routingLoad(Observed(obs, b), inflight[b])]

-----------------------------------------------------------------------------
(* Candidates.                                                             *)

EligibleBackends(s) == Filtered(s.order, Range(s.order) \ s.open)

Bug_UsableFor(kv, backends) ==
  /\ kv.prompt > 0 /\ backends # {}
  /\ \A b \in backends : b \in DOMAIN kv.matches => kv.matches[b].valid
UsableFor(kv, backends) ==
  /\ kv.prompt > 0 /\ backends # {}
  /\ \A b \in backends : /\ b \in DOMAIN kv.matches /\ kv.matches[b].valid
                         /\ kv.matches[b].tokens \in 0..kv.prompt

withoutHardOverload(list, loads) == Filtered(list, {b \in Range(list) : ~loads[b].hard})

loadBalancedBackends(s) ==
  LET available == withoutHardOverload(EligibleBackends(s), s.loads)
  IN  IF Len(available) > 0 THEN available ELSE EligibleBackends(s)

-----------------------------------------------------------------------------
(* kv-aware.                                                               *)

Bug_saturatingMultiply(count, penalty) ==
  IF count <= 0 \/ penalty <= 0 THEN 0 ELSE Wrap(count * penalty)
saturatingMultiply(count, penalty) ==
  IF count <= 0 \/ penalty <= 0 THEN 0
  ELSE IF count > Top \div penalty THEN Top ELSE Wrap(count * penalty)

saturatingAdd(left, right) == IF left >= Wrap(Top - right) THEN Top ELSE Wrap(left + right)

kvAwareCost(b, s) ==
  LET load == s.loads[b]
      base == s.kv.prompt - s.kv.matches[b].tokens
  IN  IF load.valid
      THEN saturatingAdd(
             saturatingAdd(saturatingAdd(base, saturatingMultiply(load.queue, QueuePenalty)),
                           saturatingMultiply(load.running, RunningPenalty)),
             saturatingMultiply(load.delta, InflightPenalty))
      ELSE saturatingAdd(base, saturatingMultiply(s.inflight[b], InflightPenalty))

kvAwareLess(b, best, s) ==
  LET x == kvAwareCost(b, s)
      y == kvAwareCost(best, s)
  IN  x < y \/ (x = y /\ b < best)

staticEstimatesUsable(list, estimates) ==
  /\ Len(list) > 0
  /\ \A b \in Range(list) : /\ b \in DOMAIN estimates
                            /\ estimates[b].valid /\ estimates[b].ttft > 0
                            /\ estimates[b].confidence # "uncalibrated"

staticEstimateLess(b, best, estimates) ==
  \/ estimates[b].ttft < estimates[best].ttft
  \/ estimates[b].ttft = estimates[best].ttft /\ b < best

-----------------------------------------------------------------------------
(* load-balanced, load-aware, round-robin.                                 *)

localInflightLess(b, best, s) ==
  s.inflight[b] < s.inflight[best] \/ (s.inflight[b] = s.inflight[best] /\ b < best)

\* The list rotated to the start that the hash of the routing key gives.
Rotated(list, hash) ==
  [i \in 1..Len(list) |-> list[((hash + i - 1) % Len(list)) + 1]]

Decision(b, reason, policy) ==
  [backend |-> b, preferred |-> b, reason |-> reason, policy |-> policy]

LoadBalancedSelect(hash, s) ==
  LET list == Rotated(loadBalancedBackends(s), hash)
  IN  Decision(Scan(list, [b \in Range(list) |-> {best \in Range(list) : localInflightLess(b, best, s)}]),
               "load_balanced", "load-balanced")

completeObservedLoad(list, loads) == Len(list) > 0 /\ \A b \in Range(list) : loads[b].valid

observedLoadLess(b, best, s) ==
  LET x == s.loads[b]
      y == s.loads[best]
  IN  CASE x.queue # y.queue     -> x.queue < y.queue
        [] x.queue = y.queue /\ x.running # y.running -> x.running < y.running
        [] x.queue = y.queue /\ x.running = y.running /\ x.delta # y.delta -> x.delta < y.delta
        [] OTHER                 -> localInflightLess(b, best, s)

LoadAwareSelect(hash, s) ==
  LET list == loadBalancedBackends(s)
  IN  IF completeObservedLoad(list, s.loads)
      THEN Decision(Scan(list, [b \in Range(list) |-> {best \in Range(list) : observedLoadLess(b, best, s)}]),
                    "load_aware", "load-aware")
      ELSE LoadBalancedSelect(hash, s)

\* next is the value of the counter before next.Add(1).
RoundRobinSelect(next, s) ==
  Decision(EligibleBackends(s)[(next % Len(EligibleBackends(s))) + 1], "round_robin", "round-robin")

-----------------------------------------------------------------------------
(* session-key, and the order it shares with kv-aware's overload fallback. *)

queueAvailableForAll(s) ==
  /\ DOMAIN s.obs # {}
  /\ \A b \in Range(EligibleBackends(s)) : b \in DOMAIN s.obs /\ s.obs[b].queue.valid

lessLoaded(b, best, s, tie) ==
  LET queued == queueAvailableForAll(s) /\ s.obs[b].queue.half # s.obs[best].queue.half
  IN  CASE queued -> s.obs[b].queue.half < s.obs[best].queue.half
        [] ~queued /\ s.inflight[b] # s.inflight[best] -> s.inflight[b] < s.inflight[best]
        [] OTHER  -> b = tie \/ (best # tie /\ b < best)

leastLoaded(s, tie) ==
  LET list == EligibleBackends(s)
  IN  Scan(list, [b \in Range(list) |-> {best \in Range(list) : lessLoaded(b, best, s, tie)}])

Bug_WithinBounds(preferred, s) == preferred
\* selectWithinSessionKeyBounds: the preferred backend unless it is blocked or
\* clearly more loaded than the least loaded one.
WithinBounds(preferred, s) ==
  LET least == leastLoaded(s, preferred)
      spill == \/ preferred \in s.open
               \/ /\ least # preferred /\ queueAvailableForAll(s)
                  /\ s.obs[preferred].queue.half > s.obs[least].queue.half + 2 * QueueDepthDelta
               \/ s.inflight[preferred] > s.inflight[least] + InflightDelta
  IN  IF spill THEN least ELSE preferred

-----------------------------------------------------------------------------
KVAwareSelect(s, estimator) ==
  LET list       == EligibleBackends(s)
      candidates == withoutHardOverload(list, s.loads)
  IN  IF Len(candidates) = 0
      THEN Decision(leastLoaded(s, Service), "kv_hard_overload", "kv-aware")
      ELSE IF estimator = "static" /\ staticEstimatesUsable(candidates, s.estimates)
      THEN Decision(Scan(candidates, [b \in Range(candidates) |->
                                        {best \in Range(candidates) : staticEstimateLess(b, best, s.estimates)}]),
                    "kv_static", "kv-aware-static")
      ELSE Decision(Scan(candidates, [b \in Range(candidates) |-> {best \in Range(candidates) : kvAwareLess(b, best, s)}]),
                    IF estimator = "static" THEN "kv_static_fallback" ELSE "kv_aware", "kv-aware")

-----------------------------------------------------------------------------
(* The static TTFT estimator.                                              *)

multiplyDuration(value, count) ==
  IF value = 0 \/ count = 0 THEN [ok |-> TRUE, d |-> 0]
  ELSE IF count > Top \div value THEN [ok |-> FALSE, d |-> 0]
  ELSE [ok |-> TRUE, d |-> Wrap(value * count)]

addDuration(left, right) ==
  IF left > Wrap(Top - right) THEN [ok |-> FALSE, d |-> 0] ELSE [ok |-> TRUE, d |-> Wrap(left + right)]

\* The total so far plus a term, overflowed as soon as one of them is.
Plus(total, term) ==
  IF total.ok /\ term.ok THEN addDuration(total.d, term.d) ELSE [ok |-> FALSE, d |-> 0]

\* The breakpoints around target (1-based).
bracket(values, target) ==
  LET last == Len(values)
  IN  IF target <= values[1] THEN <<1, 1>>
      ELSE IF target >= values[last] THEN <<last, last>>
      ELSE LET high == CHOOSE i \in 1..last : values[i] >= target /\ \A j \in 1..(i - 1) : values[j] < target
           IN  <<high - 1, high>>

Bug_interpolateDuration(low, high, lowAt, highAt, target) ==
  IF lowAt = highAt \/ low = high THEN low
  ELSE LET width == highAt - lowAt
       IN  (2 * (low * width + (highAt - target) * (high - low)) + width) \div (2 * width)
\* math.Round of the linear interpolation (all values are non-negative), in
\* float64 arithmetic for a profile within PrecisionConstants.
interpolateDuration(low, high, lowAt, highAt, target) ==
  IF lowAt = highAt \/ low = high THEN low
  ELSE LET width == highAt - lowAt
           tie   == IF <<low, high, lowAt, highAt, target>> \in TiesUp THEN 1 ELSE 0
       IN  (2 * (low * width + (target - lowAt) * (high - low)) + width - 1 + tie) \div (2 * width)

interpolateGrid(x, y) ==
  LET xs == bracket(Profile.prompts, x)
      ys == bracket(Profile.ratios, y)
      At(j) == interpolateDuration(Profile.prefill[xs[1]][j], Profile.prefill[xs[2]][j],
                                   Profile.prompts[xs[1]], Profile.prompts[xs[2]], x)
  IN  interpolateDuration(At(ys[1]), At(ys[2]), Profile.ratios[ys[1]], Profile.ratios[ys[2]], y)

outsideLoadBounds(load, inflight) ==
  IF load.valid THEN \/ load.queue > Profile.bounds.queue \/ load.running > Profile.bounds.running
                     \/ load.delta > Profile.bounds.delta
                ELSE inflight > Profile.bounds.inflight

Estimate(prompt, cached, load, inflight) ==
  LET prefill == interpolateGrid(prompt, (cached * cacheRatioBasisPoints) \div prompt)
      base    == addDuration(prefill, Profile.margin)
      total   == IF load.valid
                 THEN Plus(Plus(Plus(base, multiplyDuration(Profile.queueWait, load.queue)),
                                multiplyDuration(Profile.runningDelay, load.running)),
                           multiplyDuration(Profile.deltaDelay, load.delta))
                 ELSE Plus(base, multiplyDuration(Profile.localDelay, inflight))
      inRange == /\ prompt \in Profile.prompts[1]..Profile.prompts[Len(Profile.prompts)]
                 /\ cached \in 0..prompt /\ ~outsideLoadBounds(load, inflight)
  IN  IF inRange /\ total.ok /\ total.d > 0
      THEN [valid |-> TRUE, ttft |-> total.d,
            confidence |-> IF ~Profile.calibrated THEN "uncalibrated"
                           ELSE IF load.valid THEN "calibrated" ELSE "degraded"]
      ELSE [valid |-> FALSE, ttft |-> 0, confidence |-> "none"]

\* Matches[b].MatchedTokens, zero for a backend without a match.
CachedTokens(kv, b) == IF b \in DOMAIN kv.matches THEN kv.matches[b].tokens ELSE 0

staticLatencyEstimates(s) ==
  [b \in Range(EligibleBackends(s)) |->
     Estimate(s.kv.prompt, CachedTokens(s.kv, b), s.loads[b], s.inflight[b])]
=============================================================================
