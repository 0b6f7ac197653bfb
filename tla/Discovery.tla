----------------------------- MODULE Discovery -----------------------------
(***************************************************************************)
(* The EndpointSlice resolver of internal/serving/discovery: a periodic    *)
(* list (refreshLoop) and a reconnecting watch (watchLoop) write the same  *)
(* slices, version and status, in whatever order their answers arrive.     *)
(*                                                                         *)
(* A slice is the set of its Ready Pods; a deleted slice is empty.  The    *)
(* API server's history is the sequence of its events.  Time is counted in *)
(* refresh intervals.  One request at a time is followed through Select    *)
(* (requestpath): it reads the membership, waits for the tokenizer and the *)
(* KV lookup, and is then judged by the status of that later moment.       *)
(***************************************************************************)
EXTENDS Naturals, Sequences, FiniteSets

CONSTANTS
  Slices, Pods, Placed,   \* Placed: the Pods a slice may hold
  Followed,         \* bound: the Pods whose requests are followed
  MaxVersion,       \* bound: changes at the API server
  DiscoveryMaxAge,  \* requestpath.Config.DiscoveryMaxAge
  ListTimeout,      \* http.Client.Timeout of a list
  WatchTimeout,     \* 2 * RefreshInterval: life of one watch connection
  MaxAwait          \* bound: ages are told apart up to StaleBound + MaxAwait

ASSUME DiscoveryConstants ==
  /\ IsFiniteSet(Pods) /\ Followed \subseteq Pods /\ Placed \in [Slices -> SUBSET Pods]
  /\ MaxVersion \in Nat /\ DiscoveryMaxAge \in Nat
  /\ ListTimeout \in Nat \ {0} /\ WatchTimeout \in Nat \ {0}
  /\ MaxAwait \in Nat

VARIABLES
  api, hist,                 \* API server: slices; per version, [slice changed, slices then]
  gone,                      \* per Pod: time since it was last Ready there (capped)
  slices, version, backends, \* the resolver's state
  status, ready, age,        \* ResolverStatus: Status, ReadyBackends, Freshness (capped)
  due, call,                 \* refreshLoop's ticker; per loop: the list in flight
  watch,                     \* the watch loop and its connection
  req                        \* a request and a Pod of the membership it read; history:
                             \* the age of the list that membership comes from, if a
                             \* later one arrived since, and if the resolver was behind
                             \* the Pod's removal

vars == <<api, hist, gone, slices, version, backends, status, ready, age, due, call, watch, req>>
resolver == <<slices, version, backends, status, ready, age>>

StaleBound == DiscoveryMaxAge + ListTimeout
Cap == StaleBound + MaxAwait + 1
Loops == {"refresh", "watch"}
Idle == [at |-> "idle", slices |-> <<>>, version |-> 0, time |-> 0]

NoRequest == [at |-> "idle", pod |-> "", age |-> 0, renewed |-> FALSE, behind |-> FALSE]

ReadyPods(s) == UNION {s[n] : n \in Slices}

\* NewEndpointSlice: the first list succeeded and found a Ready Pod.
Init ==
  /\ api \in [Slices -> SUBSET Pods] /\ \A n \in Slices : api[n] \subseteq Placed[n]
  /\ ReadyPods(api) # {} /\ hist = <<[slice |-> "", state |-> api]>>
  /\ gone = [p \in Pods |-> IF p \in ReadyPods(api) THEN 0 ELSE Cap]
  /\ slices = api /\ version = 1 /\ backends = ReadyPods(api)
  /\ status = "ok" /\ ready = Cardinality(backends) /\ age = 0
  /\ due = FALSE /\ call = [l \in Loops |-> Idle]
  /\ watch = [at |-> "down", cursor |-> 0, time |-> 0] /\ req = NoRequest

-----------------------------------------------------------------------------
(* The API server (external).                                              *)

ApiChange ==
  /\ Len(hist) < MaxVersion
  /\ \E n \in Slices : \E c \in SUBSET Placed[n] :
       /\ c # api[n] /\ api' = [api EXCEPT ![n] = c]
       /\ hist' = Append(hist, [slice |-> n, state |-> api'])
  /\ gone' = [p \in Pods |-> IF p \in ReadyPods(api) \cup ReadyPods(api') THEN 0 ELSE gone[p]]
  /\ UNCHANGED <<resolver, due, call, watch, req>>

\* A list is answered with the state of the moment.
Serve(l) ==
  /\ call[l].at = "asked"
  /\ call' = [call EXCEPT ![l] = [@ EXCEPT !.at = "served", !.slices = api, !.version = Len(hist)]]
  /\ UNCHANGED <<api, hist, gone, resolver, due, watch, req>>

-----------------------------------------------------------------------------
(* refresh.                                                                *)

recordError ==
  /\ status' = "degraded" /\ ready' = Cardinality(backends)
  /\ UNCHANGED <<slices, version, backends, age>>

\* watchLoop then waits one interval; refreshLoop waits for its next tick.
Returned(l) ==
  /\ call' = [call EXCEPT ![l] = Idle]
  /\ watch' = IF l = "watch" THEN [at |-> "wait", cursor |-> 0, time |-> 0] ELSE watch

\* A tick is taken (one tick is kept while a list is in flight).
TickTaken == due /\ due' = FALSE

RefreshTick ==
  /\ call["refresh"].at = "idle" /\ TickTaken
  /\ call' = [call EXCEPT !["refresh"].at = "asked", !["refresh"].time = 0]
  /\ UNCHANGED <<api, hist, gone, resolver, watch, req>>

Bug_NoReadyAddress == status' = "ok" /\ age' = 0 /\ UNCHANGED <<slices, version, backends, ready>>
\* A list without a Ready address is an error: the last backends are kept.
NoReadyAddress == recordError

Bug_Replace(list) ==
  /\ slices' = [n \in Slices |-> slices[n] \cup list.slices[n]] /\ version' = list.version
  /\ backends' = ReadyPods(slices')
  /\ status' = "ok" /\ age' = 0 /\ ready' = Cardinality(backends')
Replace(list) ==
  /\ slices' = list.slices /\ version' = list.version /\ backends' = ReadyPods(list.slices)
  /\ status' = "ok" /\ age' = 0 /\ ready' = Cardinality(backends')

Receive(l) ==
  /\ call[l].at = "served" /\ Returned(l)
  /\ IF ReadyPods(call[l].slices) = {}
     THEN NoReadyAddress /\ UNCHANGED req
     ELSE Replace(call[l]) /\ req' = [req EXCEPT !.renewed = @ \/ req.at = "read"]
  /\ UNCHANGED <<api, hist, gone, due>>

\* The list fails or times out.
ListFails(l) ==
  /\ call[l].at \in {"asked", "served"} /\ Returned(l) /\ recordError
  /\ UNCHANGED <<api, hist, gone, due, req>>

-----------------------------------------------------------------------------
(* watchLoop.                                                              *)

WatchOpen ==
  /\ watch.at = "down" /\ watch' = [at |-> "open", cursor |-> version, time |-> 0]
  /\ UNCHANGED <<api, hist, gone, resolver, due, call, req>>

\* buildBackendsFromMap over the kept slices.
Rebuilt == backends' = ReadyPods(slices')

\* ADDED, MODIFIED or DELETED: the status is left alone.
WatchEvent ==
  /\ watch.at = "open" /\ watch.cursor < Len(hist)
  /\ LET e == hist[watch.cursor + 1] IN slices' = [slices EXCEPT ![e.slice] = e.state[e.slice]]
  /\ version' = watch.cursor + 1 /\ Rebuilt
  /\ watch' = [watch EXCEPT !.cursor = @ + 1]
  /\ UNCHANGED <<api, hist, gone, status, ready, age, due, call, req>>

\* The server closes the stream: no refresh before the next connection.
WatchClosed ==
  /\ watch.at = "open" /\ watch' = [at |-> "wait", cursor |-> 0, time |-> 0] /\ recordError
  /\ UNCHANGED <<api, hist, gone, due, call, req>>

\* A failed connection, an error event (version expired), or its timeout: refresh.
WatchError ==
  /\ watch.at \in {"down", "open"} /\ recordError
  /\ watch' = [at |-> "refresh", cursor |-> 0, time |-> 0]
  /\ call' = [call EXCEPT !["watch"].at = "asked", !["watch"].time = 0]
  /\ UNCHANGED <<api, hist, gone, due, req>>

WatchRetry ==
  /\ watch.at = "wait" /\ watch.time > 0 /\ watch' = [at |-> "down", cursor |-> 0, time |-> 0]
  /\ UNCHANGED <<api, hist, gone, resolver, due, call, req>>

-----------------------------------------------------------------------------
(* Select, of a request path that requires fresh discovery.                *)

\* Pod p stopped being Ready in a version after v.
RemovedAfter(p, v) ==
  \E u \in v + 1..Len(hist) : p \in ReadyPods(hist[u - 1].state) \ ReadyPods(hist[u].state)

\* resolver.Snapshot, with the Pod that the strategy may choose in the end.
ReadMembership ==
  /\ req.at = "idle"
  /\ \E p \in backends \cap Followed :
       req' = [at |-> "read", pod |-> p, age |-> age, renewed |-> FALSE,
               behind |-> RemovedAfter(p, version)]
  /\ UNCHANGED <<api, hist, gone, resolver, due, call, watch>>

directRoutingEligible == status # "unavailable" /\ ready > 0 /\ age <= DiscoveryMaxAge

\* The decision, or a cancelled request.
Decide ==
  /\ req.at = "read" /\ req' = NoRequest
  /\ UNCHANGED <<api, hist, gone, resolver, due, call, watch>>

\* A request that decides now may be routed to its Pod.
RoutedDirectly == req.at = "read" /\ directRoutingEligible

-----------------------------------------------------------------------------
Older(t) == IF t < Cap THEN t + 1 ELSE t

\* One refresh interval: no list outlives its timeout, no connection its own,
\* and an idle refreshLoop takes its tick at once.
Tick ==
  /\ \A l \in Loops : call[l].at # "idle" => call[l].time < ListTimeout
  /\ call["refresh"].at = "idle" => ~due
  /\ due' = TRUE
  /\ watch.at = "open" => watch.time < WatchTimeout
  /\ watch.at # "down" /\ (watch.at = "wait" => watch.time = 0)
  /\ gone' = [p \in Pods |-> IF p \in ReadyPods(api) THEN 0 ELSE Older(gone[p])]
  /\ age' = Older(age)
  /\ call' = [l \in Loops |-> IF call[l].at = "idle" THEN call[l] ELSE [call[l] EXCEPT !.time = @ + 1]]
  /\ watch' = IF watch.at \in {"open", "wait"} THEN [watch EXCEPT !.time = @ + 1] ELSE watch
  /\ req' = IF req.at = "read" THEN [req EXCEPT !.age = Older(@)] ELSE req
  /\ UNCHANGED <<api, hist, slices, version, backends, status, ready>>

Next ==
  \/ ApiChange \/ RefreshTick \/ WatchOpen \/ WatchEvent \/ WatchClosed \/ WatchError
  \/ WatchRetry \/ ReadMembership \/ Decide \/ Tick
  \/ \E l \in Loops : Serve(l) \/ Receive(l) \/ ListFails(l)

Spec == Init /\ [][Next]_vars

(* Time passes, timers and contexts expire, and infinitely many of the     *)
(* lists of each loop are answered in time.                                *)
FairSpec ==
  /\ Spec /\ WF_vars(Tick) /\ WF_vars(RefreshTick) /\ WF_vars(WatchRetry) /\ WF_vars(WatchOpen)
  /\ WF_vars(watch.time = WatchTimeout /\ WatchError)
  /\ \A l \in Loops : SF_vars(Serve(l)) /\ SF_vars(Receive(l))

-----------------------------------------------------------------------------
\* Types; what is published is built from the slices that are kept.
TypeOK ==
  /\ slices \in [Slices -> SUBSET Pods] /\ version \in 1..Len(hist)
  /\ backends = ReadyPods(slices) /\ status \in {"ok", "degraded"}
  /\ ready \in 0..Cardinality(Pods) /\ age \in 0..Cap
  /\ \A l \in Loops : call[l].time \in 0..ListTimeout

\* A Pod that a request is routed to directly was Ready at the API server at most
\* StaleBound before the decision, unless the watch was still behind its removal
\* when the membership was read: an old list that overwrites newer watch events, or
\* a list without Ready Pods, keeps no Pod longer.  This holds if the list behind
\* that membership is still the last one; when a refresh succeeded in between, the
\* freshness that is checked is not that of the Pods chosen from, and only the age
\* of their own list, which nothing limits, bounds the delay.
BoundedStaleness ==
  /\ TypeOK
  /\ RoutedDirectly =>
       LET limit == IF req.renewed THEN req.age ELSE DiscoveryMaxAge
       IN  gone[req.pod] <= limit + ListTimeout \/ req.behind

\* Once the API server stops changing, the resolver comes to agree with it for
\* good, or, when no Pod is Ready, no request is routed directly to a Pod.
EventuallyAgrees ==
  <>[](IF ReadyPods(api) # {} THEN backends = ReadyPods(api) ELSE backends = {} \/ ~directRoutingEligible)
=============================================================================
