----------------------------- MODULE Selection -----------------------------
(***************************************************************************)
(* requestpath.Select: from the discovery snapshot to the decision, for    *)
(* one request after the other, with everything that may change while the  *)
(* request tokenizes and looks up the KV index (circuits, load, membership,*)
(* the session-key table's reconciliation).  Leases and counters are in    *)
(* module RequestPath; here the in-flight counts are inputs.               *)
(***************************************************************************)
EXTENDS Routing

CONSTANTS
  Backends,        \* backend IDs
  Modes,           \* configured strategies explored: <<mode, estimator>>
  ObsCases,        \* observations a backend may have (seen = FALSE: none)
  Inflights,       \* local in-flight counts
  Prompts, ShortPromptTokens, BlockSize,
  Keys, Hash, Score,          \* routing keys, their hash and rendezvous scores
  MaxEntries, TTL, MaxTime    \* session-key table; MaxTime is a bound

ASSUME SelectionConstants ==
  IsFiniteSet(Keys) /\ MaxEntries \in Nat \ {0} /\ TTL \in Nat \ {0} /\ MaxTime \in Nat

\* The inputs: known strategies, IDs, counts, and samples that are numbers.
ASSUME InputConstants ==
  /\ IsFiniteSet(Backends) /\ Backends \subseteq Nat \ {0}
  /\ \A m \in Modes : m[1] \in {"kv-aware", "load-aware", "load-balanced", "round-robin", "session-key"}
  /\ \A o \in ObsCases : {o.queue.half, o.running.half} \subseteq Int
  /\ Inflights \subseteq Nat /\ Hash \subseteq Nat /\ Prompts \subseteq 0..Top

NoKey == "none"
Absent == [b |-> Service, expires |-> 0]

VARIABLES
  mode, pc, order,  \* configuration, control point and backends of the request
  key, kvStatus, kv,  \* its routing key, KVStatus and KVAwareInput
  snap, decision,   \* the final snapshot and the decision
  next,             \* the round-robin counter
  entries, now, preferred  \* session-key: table, clock, local variable

vars == <<mode, pc, order, key, kvStatus, kv, snap, decision, next, entries, now, preferred>>

NoKV   == [prompt |-> 0, matches |-> <<>>]
NoSnap == [order |-> <<>>, open |-> {}, fresh |-> FALSE, inflight |-> <<>>, obs |-> <<>>,
           loads |-> <<>>, kv |-> NoKV, estimates |-> <<>>]
NoDecision == Decision(Service, "none", "none")
Orders == {o \in UNION {[1..n -> Backends] : n \in 0..Cardinality(Backends)} : IsInjective(o)}
Live   == {k \in Keys : entries[k] # Absent}

Init ==
  /\ mode \in Modes /\ pc = "idle" /\ order = <<>> /\ key = NoKey
  /\ kvStatus = "not_requested" /\ kv = NoKV /\ snap = NoSnap /\ decision = NoDecision
  /\ next = 0 /\ entries = [k \in Keys |-> Absent] /\ now = 0 /\ preferred = Service

-----------------------------------------------------------------------------
\* ReconcileBackends of the session-key strategy: by this request, or by the
\* loop or another request at any time.
Dropped(members) == [k \in Keys |-> IF entries[k].b \in members THEN entries[k] ELSE Absent]

\* Step 1 and 2: the discovery snapshot (a failed one is empty and reconciles
\* nothing), reconcileBackends, and the candidates of the first snapshot.
Begin ==
  /\ pc = "idle" /\ pc' = IF mode[1] = "kv-aware" THEN "kv" ELSE "final"
  /\ \E o \in Orders, failed \in BOOLEAN :
       /\ failed => o = <<>>
       /\ order' = o
       /\ entries' = IF mode[1] = "session-key" /\ ~failed THEN Dropped(Range(o)) ELSE entries
  /\ key' \in IF mode[1] = "session-key" THEN Keys \cup {NoKey} ELSE {NoKey}
  /\ kvStatus' = "not_requested" /\ kv' = NoKV /\ decision' = NoDecision /\ snap' = NoSnap
  /\ UNCHANGED <<mode, next, now, preferred>>

OtherReconcile ==
  /\ mode[1] = "session-key" /\ Live # {}
  /\ \E members \in SUBSET Backends : entries' = Dropped(members)
  /\ UNCHANGED <<mode, pc, order, key, kvStatus, kv, snap, decision, next, now, preferred>>

-----------------------------------------------------------------------------
\* kvcache.Lookup of the candidates: a match of whole blocks for each, or an
\* invalid one.
Lookups(candidates, prompt) ==
  [candidates -> [valid : {FALSE}, tokens : {0}]
                 \cup [valid : {TRUE}, tokens : {t \in 0..prompt : t % BlockSize = 0}]]

\* buildKVAwareInput: tokenization and reconcile run in parallel and both are
\* awaited; a cancelled request or a permanent tokenization error aborts Select.
BuildKVAwareInput ==
  /\ pc = "kv"
  /\ \E open \in SUBSET Range(order), tok \in {"ok", "transient", "abort"},
        rec \in {"ok", "failed", "abort"}, look \in {"ok", "failed", "abort"}, n \in Prompts :
       LET candidates == Range(order) \ open
           Status(st, input) == kvStatus' = st /\ kv' = input /\ pc' = "final"
           Abort == pc' = "idle" /\ UNCHANGED <<kvStatus, kv>>
       IN  CASE tok = "abort" -> Abort
             [] tok = "transient" -> Status("tokenization_failed", NoKV)
             [] tok = "ok" /\ rec = "abort" -> Abort
             [] tok = "ok" /\ rec = "failed" -> Status("lookup_failed", NoKV)
             [] tok = "ok" /\ rec = "ok" /\ n <= ShortPromptTokens ->
                  Status("short_context", [prompt |-> n, matches |-> <<>>])
             [] OTHER ->
                  \/ look = "abort" /\ Abort
                  \/ look = "failed" /\ Status("lookup_failed", NoKV)
                  \/ /\ look = "ok"
                     /\ \E m \in Lookups(candidates, n) :
                          LET input == [prompt |-> n, matches |-> m]
                          IN  Status(IF UsableFor(input, candidates)
                                     THEN "available" ELSE "match_unavailable", input)
  /\ UNCHANGED <<mode, order, key, snap, decision, next, entries, now, preferred>>

-----------------------------------------------------------------------------
(* Under selection.Lock: the final snapshot, then the decision.            *)

Snapshot(open, fresh, inflight, cases) ==
  [order |-> order, open |-> open, fresh |-> fresh, inflight |-> inflight,
   obs |-> [b \in {c \in Range(order) : cases[c].seen} |-> cases[b]],
   loads |-> <<>>, kv |-> kv, estimates |-> <<>>]
Snapshots ==
  {Snapshot(open, fresh, inflight, cases) :
      open \in SUBSET Range(order), fresh \in BOOLEAN,
      inflight \in [Range(order) -> Inflights], cases \in [Range(order) -> ObsCases]}

\* buildSnapshot and, for an available KV signal, the static estimates.
Completed(s) ==
  LET loaded == [s EXCEPT !.loads = routingLoads(s.order, s.obs, s.inflight)]
  IN  IF kvStatus = "available" /\ mode[2] = "static"
      THEN [loaded EXCEPT !.estimates = staticLatencyEstimates(loaded)] ELSE loaded

Fallback(reason) == Decision(Service, reason, "service-fallback")

\* kvAwareLoadFallback and kvAwareFallbackPolicy.
KVFallback(s, reason, hash) ==
  LET d == LoadAwareSelect(hash, s)
  IN  [d EXCEPT !.reason = reason,
                !.policy = IF d.policy = "load-aware" THEN "kv-load-aware-fallback"
                                                      ELSE "kv-load-balanced-fallback"]

\* directRoutingEligible and the check for eligible backends.
DirectFallback(s) ==
  IF ~s.fresh THEN Fallback("discovery")
  ELSE IF Len(EligibleBackends(s)) = 0 THEN Fallback("circuit") ELSE NoDecision

\* selectDecision for every strategy but session-key.
selectDecision(s, hash) ==
  CASE DirectFallback(s) # NoDecision -> DirectFallback(s)
    [] OTHER ->
       CASE mode[1] = "kv-aware" /\ kvStatus = "short_context" -> KVFallback(s, "short_context", hash)
         [] mode[1] = "kv-aware" /\ kvStatus # "short_context" ->
              IF UsableFor(s.kv, Range(EligibleBackends(s))) THEN KVAwareSelect(s, mode[2])
              ELSE KVFallback(s, "kv_unavailable", hash)
         [] mode[1] = "load-aware" -> LoadAwareSelect(hash, s)
         [] mode[1] = "load-balanced" -> LoadBalancedSelect(hash, s)
         [] mode[1] = "round-robin" -> RoundRobinSelect(next, s)

Decide ==
  /\ pc = "final" /\ mode[1] # "session-key"
  /\ \E s \in Snapshots, hash \in Hash :
       /\ snap' = Completed(s)
       /\ decision' = selectDecision(Completed(s), hash)
  /\ next' = IF mode[1] = "round-robin" /\ decision'.policy = "round-robin"
             THEN (next + 1) % 6 ELSE next
  /\ pc' = "done"
  /\ UNCHANGED <<mode, order, key, kvStatus, kv, entries, now, preferred>>

-----------------------------------------------------------------------------
(* session-key: preferred, remember and remember again, each in its own    *)
(* critical section of the table's mutex.                                  *)

\* rendezvousBackend over all members, blocked ones included.
rendezvousBackend(k) ==
  Scan(order, [b \in Range(order) |->
                 {best \in Range(order) :
                    Score[k][b] > Score[k][best] \/ (Score[k][b] = Score[k][best] /\ b < best)}])

Hit(k) == entries[k] # Absent /\ now < entries[k].expires /\ entries[k].b \in Range(order)

SessionBegin ==
  /\ pc = "final" /\ mode[1] = "session-key"
  /\ \E s \in Snapshots :
       LET full == Completed(s)
       IN  /\ snap' = full
           /\ CASE DirectFallback(full) # NoDecision ->
                     decision' = DirectFallback(full) /\ pc' = "done" /\ UNCHANGED <<entries, preferred>>
                [] DirectFallback(full) = NoDecision /\ key = NoKey ->
                     /\ decision' = Decision(leastLoaded(full, Service), "no_session_key", "session-key")
                     /\ pc' = "done" /\ UNCHANGED <<entries, preferred>>
                [] OTHER ->
                     /\ preferred' = IF Hit(key) THEN entries[key].b ELSE rendezvousBackend(key)
                     /\ entries' = IF Hit(key) THEN entries ELSE [entries EXCEPT ![key] = Absent]
                     /\ pc' = IF Hit(key) THEN "bounds" ELSE "remember"
                     /\ UNCHANGED decision
  /\ UNCHANGED <<mode, order, key, kvStatus, kv, next, now>>

Oldest(E) == CHOOSE k \in Keys : /\ E[k] # Absent
                                 /\ \A j \in Keys : E[j] # Absent => E[k].expires <= E[j].expires
Count(E) == Cardinality({k \in Keys : E[k] # Absent})

Bug_collectOrEvictOldest ==
  [k \in Keys |-> IF now >= entries[k].expires THEN Absent ELSE entries[k]]
collectOrEvictOldest ==
  LET fresh == [k \in Keys |-> IF now >= entries[k].expires THEN Absent ELSE entries[k]]
  IN  IF Count(fresh) >= MaxEntries THEN [fresh EXCEPT ![Oldest(fresh)] = Absent] ELSE fresh

Remembered(k, b) ==
  LET room == IF entries[k] = Absent /\ Count(entries) >= MaxEntries
              THEN collectOrEvictOldest ELSE entries
  IN  [room EXCEPT ![k] = [b |-> b, expires |-> now + TTL]]

Remember ==
  /\ pc = "remember" /\ pc' = "bounds" /\ entries' = Remembered(key, preferred)
  /\ UNCHANGED <<mode, order, key, kvStatus, kv, snap, decision, next, now, preferred>>

Bug_Kept == WithinBounds(preferred, snap)
\* What the table keeps for the key: a spillover does not rewrite it.
Kept == preferred

SessionDecide ==
  /\ pc = "bounds" /\ pc' = "done"
  /\ decision' = [Decision(WithinBounds(preferred, snap), "session", "session-key")
                    EXCEPT !.preferred = preferred]
  /\ entries' = Remembered(key, Kept) /\ preferred' = Service
  /\ UNCHANGED <<mode, order, key, kvStatus, kv, snap, next, now>>

Tick ==
  /\ mode[1] = "session-key" /\ now < MaxTime /\ now' = now + 1
  /\ UNCHANGED <<mode, pc, order, key, kvStatus, kv, snap, decision, next, entries, preferred>>

Finish ==
  /\ pc = "done" /\ pc' = "idle" /\ order' = <<>> /\ key' = NoKey /\ kvStatus' = "not_requested"
  /\ kv' = NoKV /\ snap' = NoSnap /\ decision' = NoDecision
  /\ UNCHANGED <<mode, next, entries, now, preferred>>

Next == Begin \/ OtherReconcile \/ BuildKVAwareInput \/ Decide \/ SessionBegin \/ Remember
        \/ SessionDecide \/ Tick \/ Finish

Spec == Init /\ [][Next]_vars

-----------------------------------------------------------------------------
Eligible   == Range(EligibleBackends(snap))
Decided    == pc = "done"
Direct     == Decided /\ decision.backend # Service
KVPolicies == {"kv-aware", "kv-aware-static"}

\* Types; an entry lives at most TTL beyond the last use of its key.
TypeOK ==
  /\ pc \in {"idle", "kv", "final", "remember", "bounds", "done"} /\ order \in Orders
  /\ next \in 0..5 /\ now \in 0..MaxTime /\ preferred \in Backends \cup {Service}
  /\ \A k \in Keys : entries[k] = Absent \/ (entries[k].b \in Backends /\ entries[k].expires <= now + TTL)
  /\ decision.backend \in Backends \cup {Service}

\* A request goes to a backend whose circuit is closed in the snapshot the
\* decision was made from (not the earlier one its KV lookup used), and to the
\* Service exactly when discovery is not usable or no backend is eligible.  A
\* hard-overloaded backend is chosen only when every eligible one is (kv-aware,
\* load-aware and load-balanced strategies and their fallbacks).
DecisionIsEligible ==
  /\ TypeOK
  /\ Decided => IF snap.fresh /\ Eligible # {} THEN decision.backend \in Eligible
                                               ELSE decision.backend = Service
  /\ Direct /\ mode[1] \in {"kv-aware", "load-aware", "load-balanced"}
     /\ snap.loads[decision.backend].hard => \A b \in Eligible : snap.loads[b].hard

\* Locality is used only when every backend eligible now has a valid match: one
\* that became eligible after the lookup makes the signal unusable.
LocalityNeedsEveryMatch ==
  Decided /\ decision.policy \in KVPolicies =>
    \A b \in Eligible : /\ b \in DOMAIN snap.kv.matches /\ snap.kv.matches[b].valid
                        /\ snap.kv.matches[b].tokens <= snap.kv.prompt

ExactCost(b, s) ==
  LET load == s.loads[b]
  IN  s.kv.prompt - s.kv.matches[b].tokens
      + IF load.valid
        THEN load.queue * QueuePenalty + load.running * RunningPenalty + load.delta * InflightPenalty
        ELSE s.inflight[b] * InflightPenalty

\* The kv-aware choice is the cheapest candidate in exact arithmetic, capped at
\* Top, whatever order discovery returned: the saturating int64 sums never wrap.
CheapestIsChosen ==
  Decided /\ decision.reason \in {"kv_aware", "kv_static_fallback"} =>
    \A b \in Eligible : ~snap.loads[b].hard =>
      LET mine == ExactCost(decision.backend, snap)
          his  == ExactCost(b, snap)
      IN  mine < his \/ his >= Top \/ (mine = his /\ decision.backend <= b)

\* A backend with no fewer cached tokens and no more load is never estimated
\* slower (the estimator's grid, rounding and overflow checks keep the order).
EstimatesAreMonotone ==
  \A b, c \in DOMAIN snap.estimates :
    LET x == snap.estimates[b]
        y == snap.estimates[c]
        p == snap.loads[b]
        q == snap.loads[c]
    IN  /\ x.valid /\ y.valid /\ p.valid = q.valid
        /\ CachedTokens(snap.kv, b) >= CachedTokens(snap.kv, c)
        /\ p.queue <= q.queue /\ p.running <= q.running /\ p.delta <= q.delta
        /\ snap.inflight[b] <= snap.inflight[c]
        => x.ttft <= y.ttft

\* The session-key table never holds more than MaxEntries keys.
TableBounded == Cardinality(Live) <= MaxEntries

\* A key changes its preferred backend only after its entry was dropped (expired,
\* evicted or its backend gone), never because of a spillover.
PreferenceIsSticky ==
  [][\A k \in Live : entries'[k] # Absent => entries'[k].b = entries[k].b]_vars
=============================================================================
