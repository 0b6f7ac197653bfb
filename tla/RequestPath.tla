---------------------------- MODULE RequestPath ----------------------------
(***************************************************************************)
(* internal/serving/requestpath: backend leases, the local in-flight       *)
(* counters they are counted on, and the discovery membership that both    *)
(* the requests and the background loop reconcile.                         *)
(*                                                                         *)
(* Every process that calls reconcileBackends is in Procs: the requests,   *)
(* and the background processes, whose turns are ticks of the reconcile    *)
(* loop or /metrics scrapes.  A step is one critical section of s.mu or of *)
(* the circuit mutex, or one atomic Add.  A counter object is named by the *)
(* request that allocated it.  The removal callbacks (metrics series,      *)
(* clients of the transport pool) change nothing that is modelled here.    *)
(***************************************************************************)
EXTENDS Integers, FiniteSets

CONSTANTS
  Backends,        \* backend.IDs discovery may publish
  Churn,           \* those that come and go; the others stay Ready
  Requests,        \* requests; each goes through the path once
  Background,      \* processes that run the reconcile loop or a scrape
  Svc,             \* config.Service.ID
  NoCounter,       \* a nil *atomic.Int64
  HardLocalInflight,  \* config.HardLocalInflight; 0: no local limit
  MaxChanges       \* bound: changes of the discovery membership

ASSUME PathConstants ==
  /\ Svc \notin Backends /\ Svc \notin Requests /\ NoCounter \notin Requests \cup {Svc}
  /\ Churn \subseteq Backends /\ Background \cap Requests = {} /\ MaxChanges \in Nat
  /\ IsFiniteSet(Requests) /\ HardLocalInflight \in Nat

VARIABLES
  leastInflight,        \* load-balanced strategy (else any), fixed by New
  members, changes,     \* discovery: the Ready set, changes so far
  active, counters,     \* service.active; service.counters: id -> counter or nil
  val,                  \* value of each counter object
  circuit,              \* breaker.states: "none", "closed" or "open"
  pc, snap,             \* per process: control point, membership read
  pick, cnt,            \* per request: decision and counter of the lease
  hard                  \* history, per request: backends whose observed queue or
                        \* runtime load was a hard overload when it decided

disco    == <<leastInflight, members, changes>>
lease    == <<pick, cnt, hard>>
vars     == <<disco, active, counters, val, circuit, pc, snap, lease>>

Ids      == Backends \cup {Svc}
Objects  == Requests \cup {Svc}     \* Svc: the counter allocated by New
Procs    == Requests \cup Background
Selection == {"counter", "add"}     \* holding service.selection after buildSnapshot
\* Between counter.Add(1) and counter.Add(-1).
Leased   == {"flight", "release"}
Places   == {"idle", "circuits", "swap", "kv", "select", "counter", "add", "flight",
             "release", "reap", "forget", "done"}

Goto(p, place) == pc' = [pc EXCEPT ![p] = place]

Init ==
  /\ leastInflight \in BOOLEAN /\ members = Backends \ Churn /\ changes = 0
  /\ active = {Svc} /\ counters = [b \in Ids |-> IF b = Svc THEN Svc ELSE NoCounter]
  /\ val = [c \in Objects |-> 0]
  /\ circuit = [b \in Backends |-> "none"]
  /\ pc = [p \in Procs |-> "idle"] /\ snap = [p \in Procs |-> {}]
  /\ pick = [r \in Requests |-> Svc] /\ cnt = [r \in Requests |-> NoCounter]
  /\ hard = [r \in Requests |-> {}]

\* EndpointSlice changes (the discovery module models how).
Discover ==
  /\ changes < MaxChanges
  /\ \E C \in SUBSET Churn : /\ C # members \cap Churn
                            /\ members' = (Backends \ Churn) \cup C
  /\ changes' = changes + 1
  /\ UNCHANGED <<leastInflight, active, counters, val, circuit, pc, snap, lease>>

-----------------------------------------------------------------------------
(* reconcileBackends, from a membership read before.                       *)

\* resolver.Snapshot; on an error a request goes on without backends, the loop
\* and the scrape leave everything as it is.
Resolve(p) ==
  /\ pc[p] = "idle"
  /\ \/ snap' = [snap EXCEPT ![p] = members] /\ Goto(p, "circuits")
     \/ p \in Requests /\ UNCHANGED snap /\ Goto(p, "kv")
  /\ UNCHANGED <<disco, active, counters, val, circuit, lease>>

ReconcileCircuits(p) ==
  /\ pc[p] = "circuits" /\ Goto(p, "swap")
  /\ circuit' = [b \in Backends |-> IF b \in snap[p] THEN circuit[b] ELSE "none"]
  /\ UNCHANGED <<disco, active, counters, val, snap, lease>>

\* Counters outside the new membership whose value is zero.
Bug_Reclaimable(S) == {}
Reclaimable(S) == {b \in Ids \ S : counters[b] # NoCounter /\ val[counters[b]] = 0}

SwapActive(p) ==
  LET next == snap[p] \cup {Svc}
  IN  /\ pc[p] = "swap"
      /\ active' = next
      /\ counters' = [b \in Ids |-> IF b \in Reclaimable(next) THEN NoCounter ELSE counters[b]]
      /\ \/ p \in Requests /\ Goto(p, "kv") /\ UNCHANGED snap
         \/ p \in Background /\ Goto(p, "idle") /\ snap' = [snap EXCEPT ![p] = {}]
      /\ UNCHANGED <<disco, val, circuit, lease>>

-----------------------------------------------------------------------------
(* Select, after reconcileBackends.                                        *)

\* Tokenization and KV lookup; a cancelled request leaves without a lease.
BuildKVAwareInput(r) ==
  /\ pc[r] = "kv"
  /\ \/ Goto(r, "select") /\ UNCHANGED snap
     \/ Goto(r, "done") /\ snap' = [snap EXCEPT ![r] = {}]
  /\ UNCHANGED <<disco, active, counters, val, circuit, lease>>

Bug_SelectionFree == TRUE
SelectionFree == \A r \in Requests : pc[r] \notin Selection

Inflight(b) == IF counters[b] = NoCounter THEN 0 ELSE val[counters[b]]

\* hardOverloaded: reported for its observed queue or runtime, or at the local limit.
HardOverloaded(reported) ==
  reported \cup {b \in Backends : HardLocalInflight > 0 /\ Inflight(b) >= HardLocalInflight}

\* The overloaded are left out, unless all are.
loadBalancedBackends(eligible, overloaded) ==
  IF eligible \subseteq overloaded THEN eligible ELSE eligible \ overloaded

\* The final snapshot and the decision, under service.selection.  An expired
\* circuit is reset by IsOpen.  What the observations report may differ from one
\* decision to the next; strategies other than load-balanced take any candidate.
SelectDecision(r) ==
  /\ pc[r] = "select" /\ SelectionFree /\ Goto(r, "counter")
  /\ \E expired  \in SUBSET {b \in snap[r] : circuit[b] = "open"},
        reported \in IF leastInflight THEN SUBSET snap[r] ELSE {{}} :
       LET now      == [b \in Backends |-> IF b \in expired THEN "closed" ELSE circuit[b]]
           eligible == {b \in snap[r] : now[b] # "open"}
           among    == loadBalancedBackends(eligible, HardOverloaded(reported))
       IN  /\ circuit' = now
           /\ hard' = [hard EXCEPT ![r] = @ \cup reported]
           /\ \E b \in eligible \cup {Svc} :
                /\ b = Svc => eligible = {} \/ ~leastInflight
                /\ b # Svc /\ leastInflight =>
                     b \in among /\ \A c \in among : Inflight(b) <= Inflight(c)
                /\ pick' = [pick EXCEPT ![r] = b]
  /\ UNCHANGED <<disco, active, counters, val, snap, cnt>>

CounterFor(r, b) == IF counters[b] = NoCounter THEN r ELSE counters[b]

InflightCounter(r) ==
  /\ pc[r] = "counter" /\ Goto(r, "add")
  /\ LET b == pick[r]
         c == CounterFor(r, b)
     IN  /\ counters' = [counters EXCEPT ![b] = c]
         /\ cnt' = [cnt EXCEPT ![r] = c]
  /\ UNCHANGED <<disco, active, val, circuit, snap, pick, hard>>

\* counter.Add(1) and selection.Unlock.
Reserve(r) ==
  /\ pc[r] = "add" /\ Goto(r, "flight")
  /\ val' = [val EXCEPT ![cnt[r]] = @ + 1]
  /\ UNCHANGED <<disco, active, counters, circuit, snap, lease>>

-----------------------------------------------------------------------------
(* Lease.Complete.                                                         *)

\* circuits.Record: creates the state if there is none; only a failure opens.
Record(r) ==
  /\ pc[r] = "flight" /\ Goto(r, "release")
  /\ \/ UNCHANGED circuit                               \* Service, or not a backend fault
     \/ /\ pick[r] # Svc
        /\ \E s \in {"closed", "open"} : circuit' = [circuit EXCEPT ![pick[r]] = s]
  /\ UNCHANGED <<disco, active, counters, val, snap, lease>>

\* Complete returns.
Completed(r) ==
  /\ Goto(r, "done") /\ snap' = [snap EXCEPT ![r] = {}] /\ pick' = [pick EXCEPT ![r] = Svc]
  /\ cnt' = [cnt EXCEPT ![r] = NoCounter] /\ hard' = [hard EXCEPT ![r] = {}]

Bug_Release(r) ==
  /\ pc[r] = "release" /\ Completed(r)
  /\ val' = IF pick[r] \in active THEN [val EXCEPT ![cnt[r]] = @ - 1] ELSE val
  /\ UNCHANGED <<disco, active, counters, circuit>>

\* releaseBackend: counter.Add(-1).
Release(r) ==
  /\ pc[r] = "release"
  /\ val' = [val EXCEPT ![cnt[r]] = @ - 1]
  /\ IF val[cnt[r]] = 1 THEN Goto(r, "reap") /\ UNCHANGED <<snap, lease>> ELSE Completed(r)
  /\ UNCHANGED <<disco, active, counters, circuit>>

Departed(r) == pick[r] \notin active /\ counters[pick[r]] = cnt[r]

\* The last lease of a departed backend deletes its counter.
Reap(r) ==
  /\ pc[r] = "reap"
  /\ IF Departed(r)
     THEN /\ counters' = [counters EXCEPT ![pick[r]] = NoCounter]
          /\ Goto(r, "forget") /\ UNCHANGED <<snap, lease>>
     ELSE UNCHANGED counters /\ Completed(r)
  /\ UNCHANGED <<disco, active, val, circuit>>

ForgetCircuit(r) ==
  /\ pc[r] = "forget" /\ Completed(r)
  /\ circuit' = [circuit EXCEPT ![pick[r]] = "none"]
  /\ UNCHANGED <<disco, active, counters, val>>

-----------------------------------------------------------------------------
Reconcile(p) == Resolve(p) \/ ReconcileCircuits(p) \/ SwapActive(p)

Request(r) ==
  \/ BuildKVAwareInput(r) \/ SelectDecision(r) \/ InflightCounter(r) \/ Reserve(r)
  \/ Record(r) \/ Release(r) \/ Reap(r) \/ ForgetCircuit(r)

Next ==
  \/ Discover
  \/ \E p \in Procs : Reconcile(p)
  \/ \E r \in Requests : Request(r)

Spec == Init /\ [][Next]_vars

(* The ticker of the loop fires for ever, goroutines that have work run,   *)
(* and an upstream request ends (it has a timeout).  Which request gets    *)
(* service.selection is left open: each has finitely many steps.           *)
FairSpec ==
  /\ Spec
  /\ \A p \in Background : WF_vars(Reconcile(p))
  /\ WF_vars(\E r \in Requests : Reconcile(r) \/ Request(r))

-----------------------------------------------------------------------------
\* Types; the Service stays active, and no counter goes below zero (Complete).
TypeOK ==
  /\ members \subseteq Backends /\ changes \in 0..MaxChanges
  /\ active \subseteq Ids /\ Svc \in active
  /\ counters \in [Ids -> Objects \cup {NoCounter}]
  /\ val \in [Objects -> Nat]
  /\ circuit \in [Backends -> {"none", "closed", "open"}]
  /\ pc \in [Procs -> Places] /\ snap \in [Procs -> SUBSET Backends]
  /\ pick \in [Requests -> Ids] /\ cnt \in [Requests -> Objects \cup {NoCounter}]
  /\ hard \in [Requests -> SUBSET Backends]

Holders(c) == {r \in Requests : cnt[r] = c /\ pc[r] \in Leased}

\* Every counter object counts exactly the leases that hold it (Complete neither
\* loses nor repeats a release, whatever the membership does meanwhile), and it is
\* published for its own backend only: a lease never counts against another one.
CountsLeases ==
  /\ TypeOK
  /\ \A c \in Objects : val[c] = Cardinality(Holders(c))
  /\ \A r \in Requests : cnt[r] # NoCounter =>
       \A b \in Ids : counters[b] = cnt[r] => b = pick[r]

\* Where a request is once it has reported its result to the circuit breaker.
Ended == {"release", "reap", "forget", "done"}
OnLease(b) == {r \in Requests : pick[r] = b /\ pc[r] \in Leased}
LeasesOn(b) == Cardinality(OnLease(b))

\* reconcileBackends' comment: only counters that left the membership and have no
\* request in flight are reclaimed; so a lease's counter stays the published one.
\* Not guaranteed: between InflightCounter and Reserve the counter
\* is published with value zero, and SwapActive may reclaim it.
ReclaimOnlyIdle ==
  \A r \in Requests : pc[r] \in Leased => counters[pick[r]] = cnt[r]

\* The requests decided on the membership M, and none of them has ended.
DecidedOn(M) ==
  /\ leastInflight /\ ReclaimOnlyIdle
  /\ \A r \in Requests : /\ pc[r] \notin Ended
                         /\ pc[r] \in Leased \cup Selection => snap[r] = M

\* Backends that some of the requests were told to avoid when they decided.
Avoided == UNION {hard[r] : r \in Requests}

\* Requests that decided on the same membership, while none of them has ended, are
\* spread evenly by the load-balanced strategy, whatever discovery and the
\* reconciles of others did in between: no backend is more than one lease ahead of
\* one that was never reported overloaded.  service.selection keeps two requests
\* from deciding on the same in-flight snapshot, and the local overload limit only
\* drops backends that are not among the least loaded.
Balanced ==
  \A M \in SUBSET Backends : DecidedOn(M) =>
    \A a \in M, b \in M \ Avoided : LeasesOn(a) <= LeasesOn(b) + 1

\* Reconciles applied in the wrong order do not last: once discovery is stable,
\* active, counters and circuits settle on the membership.
Converges ==
  <>[](/\ active = members \cup {Svc}
       /\ \A b \in Ids : counters[b] # NoCounter => b \in active
       /\ \A b \in Backends : circuit[b] # "none" => b \in members)
=============================================================================
