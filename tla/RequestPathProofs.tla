------------------------- MODULE RequestPathProofs -------------------------
(***************************************************************************)
(* Leases, their counters and the even spread of load-balanced requests,   *)
(* for any finite set of requests, any backends and any number of          *)
(* processes that reconcile.                                               *)
(***************************************************************************)
EXTENDS RequestPath, FiniteSetTheorems, TLAPS

\* Where a request has not asked for a counter yet.
Early == {"idle", "circuits", "swap", "kv", "select", "counter"}

Counting == \A c \in Objects : val[c] = Cardinality(Holders(c))

\* A counter object is allocated once, and serves one backend for good: in the
\* map, and in every lease that took it from there.
Naming ==
  /\ \A r \in Requests : pc[r] \in Early =>
       (\A b \in Ids : counters[b] # r) /\ (\A q \in Requests : cnt[q] # r)
  /\ \A r \in Requests : cnt[r] = NoCounter <=> pc[r] \in Early \cup {"done"}
  /\ \A a, b \in Ids : counters[a] = counters[b] /\ counters[a] # NoCounter => a = b
  /\ \A q, r \in Requests : cnt[q] = cnt[r] /\ cnt[q] # NoCounter => pick[q] = pick[r]
  /\ \A r \in Requests : cnt[r] # NoCounter =>
       \A b \in Ids : counters[b] = cnt[r] => b = pick[r]

\* Only a request that ended leaves a circuit behind.
Quiet == (\E b \in Backends : circuit[b] # "none") => \E r \in Requests : pc[r] \in Ended

\* service.selection is held by one request.
Mutual == \A q, r \in Requests : pc[q] \in Selection /\ pc[r] \in Selection => q = r

\* Balanced, and the request about to take its lease is on a backend with no more
\* leases than one that was never reported overloaded.
Even(M) ==
  /\ \A a \in M, b \in M \ Avoided : LeasesOn(a) <= LeasesOn(b) + 1
  /\ \A r \in Requests : pc[r] \in Selection =>
       \A b \in M \ Avoided : pick[r] \in M /\ LeasesOn(pick[r]) <= LeasesOn(b)

Spread == \A M \in SUBSET Backends : DecidedOn(M) => Even(M)

IInv == TypeOK /\ Counting /\ Naming /\ Quiet /\ Mutual /\ Spread
-----------------------------------------------------------------------------
LEMMA Moves ==
  ASSUME pc \in [Procs -> Places], NEW p \in Procs, NEW place \in Places, Goto(p, place)
  PROVE  /\ pc' \in [Procs -> Places] /\ pc'[p] = place
         /\ \A q \in Procs : q # p => pc'[q] = pc[q]
  BY Zenon DEF Goto

LEMMA HoldersFinite ==
  ASSUME NEW c
  PROVE  IsFiniteSet(Holders(c)) /\ Cardinality(Holders(c)) \in Nat
<1>1. Holders(c) \subseteq Requests
  BY Zenon DEF Holders
<1>2. QED
  BY Zenon, <1>1, PathConstants, FS_Subset, FS_CardinalityType DEF PathConstants

LEMMA OnLeaseFinite ==
  ASSUME NEW b
  PROVE  IsFiniteSet(OnLease(b)) /\ LeasesOn(b) \in Nat
<1>1. OnLease(b) \subseteq Requests
  BY Zenon DEF OnLease
<1>2. QED
  BY Zenon, <1>1, PathConstants, FS_Subset, FS_CardinalityType DEF PathConstants, LeasesOn

\* While no lease has lost its counter, Inflight shows the leases on a backend.
LEMMA InflightIsLeases ==
  ASSUME TypeOK, Counting, Naming, ReclaimOnlyIdle, NEW b \in Ids
  PROVE  Inflight(b) = LeasesOn(b)
<1>1. CASE counters[b] = NoCounter
  <2>1. OnLease(b) = {}
    BY <1>1 DEF OnLease, ReclaimOnlyIdle, Naming, Leased, Early
  <2>2. QED
    BY Zenon, <1>1, <2>1, FS_EmptySet DEF Inflight, LeasesOn
<1>2. CASE counters[b] # NoCounter
  <2>1. counters[b] \in Objects
    BY Zenon, <1>2 DEF TypeOK
  <2>2. Holders(counters[b]) = OnLease(b)
    BY <1>2 DEF Holders, OnLease, ReclaimOnlyIdle, Naming
  <2>3. QED
    BY Zenon, <1>2, <2>1, <2>2 DEF Inflight, LeasesOn, Counting
<1>3. QED
  BY Zenon, <1>1, <1>2

LEMMA InitIInv == Init => IInv
<1> SUFFICES ASSUME Init PROVE IInv
  BY Zenon
<1>1. TypeOK
  BY PathConstants DEF PathConstants, Init, TypeOK, Ids, Objects, Places
<1>2. pc \in [Procs -> Places] /\ \A r \in Requests : pc[r] = "idle"
  BY Zenon DEF Init, Procs, Places
<1>3. Counting
  <2>1. \A c : Holders(c) = {}
    BY Zenon, <1>2 DEF Holders, Leased
  <2>2. \A c \in Objects : val[c] = 0
    BY Zenon DEF Init
  <2>3. QED
    BY Zenon, <2>1, <2>2, FS_EmptySet DEF Counting
<1>4. Naming
  BY Zenon, <1>2, PathConstants DEF PathConstants, Naming, Init, Early, Ids
<1>5. Quiet /\ Mutual
  BY Zenon, <1>2 DEF Quiet, Mutual, Init, Selection
<1>6. Spread
  <2>1. \A b : LeasesOn(b) = 0
    <3>1. \A b : OnLease(b) = {}
      BY Zenon, <1>2 DEF OnLease, Leased
    <3>2. QED
      BY Zenon, <3>1, FS_EmptySet DEF LeasesOn
  <2>2. QED
    BY <1>2, <2>1 DEF Spread, Even, Selection
<1>7. QED
  BY Zenon, <1>1, <1>3, <1>4, <1>5, <1>6 DEF IInv
-----------------------------------------------------------------------------
(* What a step that leaves a part of the state alone preserves.            *)

LEMMA CountingFrame ==
  ASSUME Counting, UNCHANGED <<val, cnt>>,
         \A r \in Requests : pc'[r] \in Leased <=> pc[r] \in Leased
  PROVE  Counting'
<1>1. \A c : Holders(c)' = Holders(c)
  BY Zenon DEF Holders
<1>2. QED
  BY Zenon, <1>1 DEF Counting

LEMMA NamingFrame ==
  ASSUME Naming, UNCHANGED <<counters, pick, cnt>>,
         \A r \in Requests : /\ pc'[r] \in Early => pc[r] \in Early
                             /\ pc'[r] \in Early \cup {"done"} <=> pc[r] \in Early \cup {"done"}
  PROVE  Naming'
  BY DEF Naming

LEMMA QuietFrame ==
  ASSUME Quiet, \A b \in Backends : circuit'[b] # "none" => circuit[b] # "none",
         \A r \in Requests : pc[r] \in Ended => pc'[r] \in Ended
  PROVE  Quiet'
  BY Zenon DEF Quiet

LEMMA MutualFrame ==
  ASSUME Mutual, \A r \in Requests : pc'[r] \in Selection => pc[r] \in Selection
  PROVE  Mutual'
  BY Zenon DEF Mutual

\* A request that has ended makes both statements about open requests empty.
LEMMA EndedFrame ==
  ASSUME NEW r \in Requests, pc'[r] \in Ended
  PROVE  Quiet' /\ Spread'
  BY Zenon DEF Quiet, Spread, DecidedOn

LEMMA LeasesFrame ==
  ASSUME UNCHANGED pick, \A r \in Requests : pc'[r] \in Leased <=> pc[r] \in Leased
  PROVE  \A b : LeasesOn(b)' = LeasesOn(b)
<1>1. \A b : OnLease(b)' = OnLease(b)
  BY Zenon DEF OnLease
<1>2. QED
  BY Zenon, <1>1 DEF LeasesOn

\* No step makes a premise of Balanced true of leases that exist: a lease keeps
\* its snapshot, and a counter that was taken away does not come back.
LEMMA Backward ==
  ASSUME NEW M, DecidedOn(M)', leastInflight' = leastInflight,
         \A r \in Requests :
           /\ pc[r] \in Ended => pc'[r] \in Ended
           /\ pc[r] \in Leased \cup Selection =>
                pc'[r] \in Leased \cup Selection \cup Ended /\ snap'[r] = snap[r]
           /\ pc[r] \in Leased => /\ pc'[r] \in Leased \cup Ended
                                  /\ pick'[r] = pick[r] /\ cnt'[r] = cnt[r]
                                  /\ counters'[pick[r]] = cnt[r] => counters[pick[r]] = cnt[r]
  PROVE  DecidedOn(M)
<1>1. \A r \in Requests : pc'[r] \notin Ended /\ pc[r] \notin Ended
  BY Zenon DEF DecidedOn
<1>2. \A r \in Requests : pc[r] \in Leased \cup Selection => snap[r] = M
  BY Zenon, <1>1 DEF DecidedOn
<1>3. ReclaimOnlyIdle
  BY <1>1 DEF DecidedOn, ReclaimOnlyIdle
<1>4. QED
  BY Zenon, <1>1, <1>2, <1>3 DEF DecidedOn

LEMMA SpreadFrame ==
  ASSUME Spread, UNCHANGED <<leastInflight, counters, pick, cnt, hard>>,
         \A r \in Requests :
           /\ pc'[r] \in Leased <=> pc[r] \in Leased
           /\ pc'[r] \in Selection <=> pc[r] \in Selection
           /\ pc'[r] \in Ended <=> pc[r] \in Ended
           /\ pc[r] \in Leased \cup Selection => snap'[r] = snap[r]
  PROVE  Spread'
<1> SUFFICES ASSUME NEW M \in SUBSET Backends, DecidedOn(M)'
             PROVE  Even(M)'
  BY Zenon DEF Spread
<1>1. Even(M)
  BY Zenon, Backward DEF Spread
<1>2. \A b : LeasesOn(b)' = LeasesOn(b)
  BY Zenon, LeasesFrame
<1>3. QED
  BY Zenon, <1>1, <1>2 DEF Even, Avoided

\* A step on the way to the decision.
LEMMA Passing ==
  ASSUME IInv, TypeOK', NEW p \in Procs, NEW place \in Places, Goto(p, place),
         UNCHANGED <<leastInflight, counters, val, lease>>,
         {pc[p], place} \subseteq Early \ {"counter"},
         \A q \in Procs : q # p => snap'[q] = snap[q],
         \A b \in Backends : circuit'[b] # "none" => circuit[b] # "none"
  PROVE  IInv'
<1>1. \A q \in Procs : q # p => pc'[q] = pc[q]
  BY Zenon, Moves DEF IInv, TypeOK
<1>2. pc'[p] = place
  BY Zenon, Moves DEF IInv, TypeOK
<1>3. \A r \in Requests :
        /\ pc'[r] \in Leased <=> pc[r] \in Leased
        /\ pc'[r] \in Selection <=> pc[r] \in Selection
        /\ pc'[r] \in Ended <=> pc[r] \in Ended
        /\ pc'[r] \in Early <=> pc[r] \in Early
        /\ pc'[r] \in Early \cup {"done"} <=> pc[r] \in Early \cup {"done"}
        /\ pc[r] \in Leased \cup Selection => snap'[r] = snap[r]
  <2>1. Requests \subseteq Procs
    BY Zenon DEF Procs
  <2>2. /\ place \in Leased <=> pc[p] \in Leased
        /\ place \in Selection <=> pc[p] \in Selection
        /\ place \in Ended <=> pc[p] \in Ended
        /\ place \in Early <=> pc[p] \in Early
        /\ place \in Early \cup {"done"} <=> pc[p] \in Early \cup {"done"}
        /\ pc[p] \in Leased \cup Selection => snap'[p] = snap[p]
    BY Zenon DEF Leased, Selection, Ended, Early
  <2>3. QED
    BY Zenon, <1>1, <1>2, <2>1, <2>2
<1>4. Counting' /\ Naming'
  BY Zenon, <1>3, CountingFrame, NamingFrame DEF IInv, lease
<1>5. Quiet' /\ Mutual'
  BY Zenon, <1>3, QuietFrame, MutualFrame DEF IInv
<1>6. Spread'
  BY Zenon, <1>3, SpreadFrame DEF IInv, lease
<1>7. QED
  BY Zenon, <1>4, <1>5, <1>6 DEF IInv

LEMMA DiscoverStep == IInv /\ Discover => IInv'
<1> SUFFICES ASSUME IInv, Discover PROVE IInv'
  BY Zenon
<1>1. TypeOK'
  BY PathConstants DEF PathConstants, IInv, TypeOK, Discover, lease
<1>2. Counting' /\ Naming' /\ Quiet' /\ Mutual' /\ Spread'
  BY Zenon, CountingFrame, NamingFrame, QuietFrame, MutualFrame, SpreadFrame
  DEF IInv, Discover, lease
<1>3. QED
  BY Zenon, <1>1, <1>2 DEF IInv

LEMMA ResolveStep == ASSUME IInv, NEW p \in Procs, Resolve(p) PROVE IInv'
<1>1. TypeOK'
  BY DEF IInv, TypeOK, Resolve, Goto, Places, disco, lease
<1>2. QED
  BY <1>1, Passing DEF IInv, TypeOK, Resolve, disco, lease, Places, Early

LEMMA ReconcileCircuitsStep == ASSUME IInv, NEW p \in Procs, ReconcileCircuits(p) PROVE IInv'
<1>1. TypeOK'
  BY Zenon DEF IInv, TypeOK, ReconcileCircuits, Goto, Places, disco, lease
<1>2. QED
  BY Zenon, <1>1, Passing DEF IInv, TypeOK, ReconcileCircuits, disco, lease, Places, Early

-----------------------------------------------------------------------------
(* The steps of Complete, and a request that leaves without a lease.       *)

LEMMA Completing ==
  ASSUME IInv, TypeOK', NEW r \in Requests, NEW place \in Ended, Goto(r, place),
         UNCHANGED <<counters, val, pick, cnt>>,
         place \in Leased <=> pc[r] \in Leased,
         place = "done" <=> pc[r] \in Early \cup {"done"}
  PROVE  IInv'
<1>1. r \in Procs /\ Requests \subseteq Procs /\ place \in Places
  BY Zenon DEF Procs, Ended, Places
<1>2. pc'[r] = place /\ \A q \in Procs : q # r => pc'[q] = pc[q]
  BY Zenon, <1>1, Moves DEF IInv, TypeOK
<1>3. place \notin Early /\ place \notin Selection
  BY Zenon DEF Ended, Early, Selection
<1>4. Counting'
  BY Zenon, <1>1, <1>2, CountingFrame DEF IInv
<1>5. Naming'
  BY Zenon, <1>1, <1>2, <1>3, NamingFrame DEF IInv
<1>6. Quiet' /\ Spread'
  BY Zenon, <1>2, EndedFrame
<1>7. Mutual'
  BY Zenon, <1>1, <1>2, <1>3, MutualFrame DEF IInv
<1>8. QED
  BY Zenon, <1>4, <1>5, <1>6, <1>7 DEF IInv

LEMMA BuildKVAwareInputStep == ASSUME IInv, NEW r \in Requests, BuildKVAwareInput(r) PROVE IInv'
<1>1. r \in Procs
  BY Zenon DEF Procs
<1>2. TypeOK'
  BY <1>1 DEF IInv, TypeOK, BuildKVAwareInput, Goto, Places, disco, lease
<1>3. CASE Goto(r, "select") /\ UNCHANGED snap
  BY Zenon, <1>1, <1>2, <1>3, Passing DEF BuildKVAwareInput, disco, lease, Places, Early
<1>4. CASE Goto(r, "done")
  BY Zenon, <1>2, <1>4, Completing DEF BuildKVAwareInput, disco, lease, Ended, Leased, Early
<1>5. QED
  BY Zenon, <1>3, <1>4 DEF BuildKVAwareInput

LEMMA RecordStep == ASSUME IInv, NEW r \in Requests, Record(r) PROVE IInv'
<1>1. r \in Procs
  BY Zenon DEF Procs
<1>2. TypeOK'
  BY <1>1 DEF IInv, TypeOK, Record, Goto, Places, disco, lease
<1>3. QED
  BY Zenon, <1>2, Completing DEF Record, disco, lease, Ended, Leased, Early

\* What the last step of Complete leaves.
LEMMA Finishing ==
  ASSUME IInv, NEW r \in Requests, Completed(r), pc[r] \notin Early, UNCHANGED counters
  PROVE  /\ pc' \in [Procs -> Places] /\ snap' \in [Procs -> SUBSET Backends]
         /\ pick' \in [Requests -> Ids] /\ cnt' \in [Requests -> Objects \cup {NoCounter}]
         /\ hard' \in [Requests -> SUBSET Backends]
         /\ pc'[r] = "done" /\ \A q \in Requests : q # r => pc'[q] = pc[q] /\ cnt'[q] = cnt[q]
         /\ Naming' /\ Quiet' /\ Mutual' /\ Spread'
<1>1. r \in Procs /\ Requests \subseteq Procs
  BY Zenon DEF Procs
<1>2. pc'[r] = "done" /\ \A q \in Procs : q # r => pc'[q] = pc[q]
  BY Zenon, <1>1, Moves DEF IInv, TypeOK, Completed, Places
<1>3. /\ cnt'[r] = NoCounter /\ pick'[r] = Svc
      /\ \A q \in Requests : q # r => cnt'[q] = cnt[q] /\ pick'[q] = pick[q]
  BY Zenon DEF Completed, IInv, TypeOK
<1>4. Naming'
  <2>1. "done" \notin Early
    BY Zenon DEF Early
  <2>2. QED
    BY <1>1, <1>2, <1>3, <2>1, PathConstants DEF IInv, Naming, PathConstants
<1>5. Quiet' /\ Spread'
  BY Zenon, <1>2, EndedFrame DEF Ended
<1>6. Mutual'
  BY Zenon, <1>1, <1>2, MutualFrame DEF IInv, Selection
<1>7. /\ pc' \in [Procs -> Places] /\ snap' \in [Procs -> SUBSET Backends]
      /\ pick' \in [Requests -> Ids] /\ cnt' \in [Requests -> Objects \cup {NoCounter}]
      /\ hard' \in [Requests -> SUBSET Backends]
  BY <1>1 DEF IInv, TypeOK, Completed, Goto, Places, Ids
<1>8. QED
  BY Zenon, <1>1, <1>2, <1>3, <1>4, <1>5, <1>6, <1>7

LEMMA ForgetCircuitStep == ASSUME IInv, NEW r \in Requests, ForgetCircuit(r) PROVE IInv'
<1>1. Completed(r) /\ pc[r] = "forget" /\ pc[r] \notin Early /\ UNCHANGED <<counters, val>>
  BY Zenon DEF ForgetCircuit, Early
<1>2. circuit' \in [Backends -> {"none", "closed", "open"}]
  BY Zenon DEF IInv, TypeOK, ForgetCircuit
<1>3. TypeOK'
  BY Zenon, <1>1, <1>2, Finishing DEF IInv, TypeOK, ForgetCircuit, disco
<1>4. Counting'
  <2>1. \A c : Holders(c)' = Holders(c)
    BY <1>1, Finishing DEF Holders, Leased
  <2>2. QED
    BY Zenon, <1>1, <2>1 DEF IInv, Counting
<1>5. QED
  BY Zenon, <1>1, <1>3, <1>4, Finishing DEF IInv

\* releaseBackend gives back a unit that the counter has.
LEMMA ReleaseStep == ASSUME IInv, NEW r \in Requests, Release(r) PROVE IInv'
<1>0. PICK c \in Objects : c = cnt[r]
  BY DEF IInv, TypeOK, Naming, Release, Early
<1>1. r \in Procs /\ Requests \subseteq Procs
  BY Zenon DEF Procs
<1>2. pc[r] = "release" /\ pc[r] \notin Early /\ UNCHANGED counters
  BY Zenon DEF Release, Early
<1>3. /\ pc' \in [Procs -> Places] /\ snap' \in [Procs -> SUBSET Backends]
      /\ pick' \in [Requests -> Ids] /\ cnt' \in [Requests -> Objects \cup {NoCounter}]
      /\ hard' \in [Requests -> SUBSET Backends]
      /\ pc'[r] \notin Leased
      /\ \A q \in Requests : q # r => pc'[q] = pc[q] /\ cnt'[q] = cnt[q]
      /\ Naming' /\ Quiet' /\ Mutual' /\ Spread'
  <2>1. CASE Completed(r)
    BY Zenon, <1>2, <2>1, Finishing DEF Leased
  <2>2. CASE Goto(r, "reap") /\ UNCHANGED <<snap, lease>>
    <3>1. pc'[r] = "reap" /\ \A q \in Procs : q # r => pc'[q] = pc[q]
      BY Zenon, <1>1, <2>2, Moves DEF IInv, TypeOK, Places
    <3>2. Naming'
      BY Zenon, <1>1, <1>2, <2>2, <3>1, NamingFrame DEF IInv, Early, lease
    <3>3. Quiet' /\ Spread'
      BY Zenon, <3>1, EndedFrame DEF Ended
    <3>4. Mutual'
      BY Zenon, <1>1, <3>1, MutualFrame DEF IInv, Selection
    <3>5. pc' \in [Procs -> Places] /\ pc'[r] \notin Leased
      BY Zenon, <2>2, <3>1 DEF IInv, TypeOK, Goto, Places, Leased
    <3>6. QED
      BY Zenon, <1>1, <2>2, <3>1, <3>2, <3>3, <3>4, <3>5 DEF IInv, TypeOK, lease
  <2>3. QED
    BY Zenon, <2>1, <2>2 DEF Release
<1>4. r \in Holders(c)
  BY Zenon, <1>0, <1>2 DEF Holders, Leased
<1>5. Holders(c)' = Holders(c) \ {r} /\ \A d : d # c => Holders(d)' = Holders(d)
  BY Zenon, <1>0, <1>3 DEF Holders
<1>6. val[c] = Cardinality(Holders(c)) /\ IsFiniteSet(Holders(c)) /\ Cardinality(Holders(c)) \in Nat
  BY Zenon, HoldersFinite DEF IInv, Counting
<1>7. Cardinality(Holders(c)') = val[c] - 1 /\ Cardinality(Holders(c)') \in Nat
  <2>1. IsFiniteSet(Holders(c) \ {r})
    BY Zenon, <1>6, FS_RemoveElement
  <2>2. QED
    BY <1>4, <1>5, <1>6, <2>1, FS_RemoveElement, FS_CardinalityType
<1>8. val' = [val EXCEPT ![c] = @ - 1] /\ val \in [Objects -> Nat]
  BY Zenon, <1>0 DEF IInv, TypeOK, Release
<1>9. val'[c] = Cardinality(Holders(c)') /\ \A d \in Objects : d # c => val'[d] = val[d]
  BY Zenon, <1>7, <1>8
<1>10. Counting'
  <2>1. \A d \in Objects : d # c => val'[d] = Cardinality(Holders(d)')
    BY Zenon, <1>5, <1>9 DEF IInv, Counting
  <2>2. \A d \in Objects : val'[d] = Cardinality(Holders(d)')
    BY Zenon, <1>9, <2>1
  <2>3. QED
    BY Zenon, <2>2 DEF Counting
<1>11. val' \in [Objects -> Nat]
  BY Zenon, <1>7, <1>8
<1>12. TypeOK'
  BY Zenon, <1>3, <1>11 DEF IInv, TypeOK, Release, disco
<1>13. QED
  BY Zenon, <1>3, <1>10, <1>12 DEF IInv

LEMMA ReapStep == ASSUME IInv, NEW r \in Requests, Reap(r) PROVE IInv'
<1>1. r \in Procs /\ Requests \subseteq Procs
  BY Zenon DEF Procs
<1>2. pc[r] = "reap" /\ pc[r] \notin Early /\ pc[r] \notin Leased /\ UNCHANGED val
  BY Zenon DEF Reap, Early, Leased
<1>3. CASE UNCHANGED counters /\ Completed(r)
  <2>1. TypeOK'
    BY Zenon, <1>2, <1>3, Finishing DEF IInv, TypeOK, Reap, disco
  <2>2. Counting'
    <3>1. \A c : Holders(c)' = Holders(c)
      BY <1>2, <1>3, Finishing DEF Holders, Leased
    <3>2. QED
      BY Zenon, <1>2, <3>1 DEF IInv, Counting
  <2>3. QED
    BY Zenon, <1>2, <1>3, <2>1, <2>2, Finishing DEF IInv
<1>4. CASE Departed(r)
  <2>1. pc'[r] = "forget" /\ \A q \in Procs : q # r => pc'[q] = pc[q]
    BY Zenon, <1>1, <1>4, Moves DEF IInv, TypeOK, Places, Reap
  <2>2. UNCHANGED <<snap, lease>> /\ counters' = [counters EXCEPT ![pick[r]] = NoCounter]
    BY Zenon, <1>4 DEF Reap
  <2>3. UNCHANGED <<cnt, pick>>
    BY Zenon, <2>2 DEF lease
  <2>4. TypeOK'
    BY Zenon, <1>1, <1>4, <2>2 DEF IInv, TypeOK, Reap, Goto, Places, disco, lease
  <2>5. Counting'
    BY Zenon, <1>1, <1>2, <2>1, <2>3, CountingFrame DEF IInv, Leased
  <2>6. \A b \in Ids : counters'[b] \in {counters[b], NoCounter}
    BY Zenon, <2>2 DEF IInv, TypeOK
  <2>7. Naming'
    <3>1. \A q \in Requests : /\ pc'[q] \in Early => pc[q] \in Early
                              /\ pc'[q] \in Early \cup {"done"} <=> pc[q] \in Early \cup {"done"}
      BY Zenon, <1>1, <1>2, <2>1 DEF Early
    <3>2. QED
      BY <2>3, <2>6, <3>1, PathConstants DEF IInv, Naming, PathConstants
  <2>8. Quiet' /\ Spread'
    BY Zenon, <2>1, EndedFrame DEF Ended
  <2>9. Mutual'
    BY Zenon, <1>1, <2>1, MutualFrame DEF IInv, Selection
  <2>10. QED
    BY Zenon, <2>4, <2>5, <2>7, <2>8, <2>9 DEF IInv
<1>5. QED
  BY Zenon, <1>3, <1>4 DEF Reap

-----------------------------------------------------------------------------
(* The steps that move counters and decide.                                *)

\* reconcileBackends takes counters away and adds none.
LEMMA SwapActiveStep == ASSUME IInv, NEW p \in Procs, SwapActive(p) PROVE IInv'
<1>1. PICK place \in {"kv", "idle"} : Goto(p, place)
  BY Zenon DEF SwapActive
<1>2. pc'[p] = place /\ pc[p] = "swap" /\ \A q \in Procs : q # p => pc'[q] = pc[q]
  BY Zenon, <1>1, Moves DEF IInv, TypeOK, SwapActive, Places
<1>3. /\ UNCHANGED <<leastInflight, val, circuit, pick, cnt, hard>>
      /\ \A q \in Procs : q # p => snap'[q] = snap[q]
  BY Zenon DEF IInv, TypeOK, SwapActive, disco, lease
<1>4. \A b \in Ids : counters'[b] \in {counters[b], NoCounter}
  BY Zenon DEF SwapActive
<1>5. TypeOK'
  <2>1. active' \subseteq Ids /\ Svc \in active'
    BY Zenon DEF IInv, TypeOK, SwapActive, Ids
  <2>2. counters' \in [Ids -> Objects \cup {NoCounter}]
    BY Zenon DEF IInv, TypeOK, SwapActive
  <2>3. snap' \in [Procs -> SUBSET Backends]
    BY Zenon DEF IInv, TypeOK, SwapActive
  <2>4. QED
    BY Zenon, <1>1, <2>1, <2>2, <2>3 DEF IInv, TypeOK, SwapActive, Goto, Places, disco, lease
<1>6. \A r \in Requests :
        /\ pc'[r] \in Leased <=> pc[r] \in Leased
        /\ pc'[r] \in Selection <=> pc[r] \in Selection
        /\ pc'[r] \in Ended <=> pc[r] \in Ended
        /\ pc'[r] \in Early <=> pc[r] \in Early
        /\ pc'[r] \in Early \cup {"done"} <=> pc[r] \in Early \cup {"done"}
        /\ pc[r] \in Leased \cup Selection => snap'[r] = snap[r]
  BY <1>2, <1>3 DEF Leased, Selection, Ended, Early, Procs
<1>7. Counting' /\ Quiet' /\ Mutual'
  BY Zenon, <1>3, <1>6, CountingFrame, QuietFrame, MutualFrame DEF IInv
<1>8. Naming'
  BY <1>3, <1>4, <1>6, PathConstants DEF IInv, Naming, PathConstants
<1>9. Spread'
  <2> SUFFICES ASSUME NEW M \in SUBSET Backends, DecidedOn(M)'
               PROVE  Even(M)'
    BY Zenon DEF Spread
  <2>1. \A r \in Requests : pc[r] \in Leased => cnt[r] # NoCounter /\ pick[r] \in Ids
    BY Zenon DEF IInv, TypeOK, Naming, Leased, Early
  <2>2. Even(M)
    BY Zenon, <1>3, <1>4, <1>6, <2>1, Backward DEF IInv, Spread
  <2>3. \A b : LeasesOn(b)' = LeasesOn(b)
    BY Zenon, <1>3, <1>6, LeasesFrame
  <2>4. QED
    BY Zenon, <1>3, <1>6, <2>2, <2>3 DEF Even, Avoided
<1>10. QED
  BY Zenon, <1>5, <1>7, <1>8, <1>9 DEF IInv

\* The request inside service.selection takes the published counter, or a new one.
LEMMA InflightCounterStep == ASSUME IInv, NEW r \in Requests, InflightCounter(r) PROVE IInv'
<1> DEFINE b == pick[r]
           c == CounterFor(r, b)
<1>1. r \in Procs /\ Requests \subseteq Procs
  BY Zenon DEF Procs
<1>2. pc'[r] = "add" /\ pc[r] = "counter" /\ \A q \in Procs : q # r => pc'[q] = pc[q]
  BY Zenon, <1>1, Moves DEF IInv, TypeOK, InflightCounter, Places
<1>3. UNCHANGED <<leastInflight, val, circuit, pick, snap, hard>>
  BY Zenon DEF InflightCounter, disco
<1>4. b \in Ids /\ c \in Objects /\ c # NoCounter
  BY Zenon, PathConstants DEF PathConstants, IInv, TypeOK, CounterFor, Objects
<1>5. /\ counters'[b] = c /\ \A a \in Ids : a # b => counters'[a] = counters[a]
      /\ cnt'[r] = c /\ \A q \in Requests : q # r => cnt'[q] = cnt[q]
  BY Zenon, <1>4 DEF IInv, TypeOK, InflightCounter
<1>6. TypeOK'
  BY Zenon, <1>1, <1>4 DEF IInv, TypeOK, InflightCounter, Goto, Places, disco
<1>7. \A q \in Requests :
        /\ pc'[q] \in Leased <=> pc[q] \in Leased
        /\ pc'[q] \in Selection <=> pc[q] \in Selection
        /\ pc'[q] \in Ended <=> pc[q] \in Ended
        /\ pc'[q] \in Early <=> pc[q] \in Early /\ q # r
        /\ pc'[q] \in Early \cup {"done"} <=> pc[q] \in Early \cup {"done"} /\ q # r
  BY Zenon, <1>1, <1>2 DEF Leased, Selection, Ended, Early
<1>8. Quiet' /\ Mutual'
  BY Zenon, <1>3, <1>7, QuietFrame, MutualFrame DEF IInv
<1>9. \/ c = r /\ counters[b] = NoCounter
      \/ c = counters[b] /\ counters[b] # NoCounter
  BY Zenon DEF CounterFor
<1>10. (\A a \in Ids : counters[a] # r) /\ (\A q \in Requests : cnt[q] # r)
  BY Zenon, <1>2 DEF IInv, Naming, Early
<1>11. \A a \in Ids : counters[a] = c => a = b
  BY <1>4, <1>9, <1>10 DEF IInv, Naming
<1>12. \A q \in Requests : cnt[q] = c => pick[q] = b
  BY <1>4, <1>9, <1>10 DEF IInv, Naming
<1>13. Counting'
  <2>1. \A d : Holders(d)' = Holders(d)
    BY <1>1, <1>2, <1>5 DEF Holders, Leased
  <2>2. QED
    BY Zenon, <1>3, <2>1 DEF IInv, Counting
<1>14. Naming'
  <2>1. ASSUME NEW q \in Requests, pc'[q] \in Early
        PROVE  (\A a \in Ids : counters'[a] # q) /\ (\A s \in Requests : cnt'[s] # q)
    <3>1. (\A a \in Ids : counters[a] # q) /\ (\A s \in Requests : cnt[s] # q)
      BY Zenon, <1>7, <2>1 DEF IInv, Naming
    <3>2. c # q
      BY Zenon, <1>4, <1>7, <1>9, <2>1, <3>1
    <3>3. QED
      BY Zenon, <1>5, <3>1, <3>2
  <2>2. \A q \in Requests : cnt'[q] = NoCounter <=> pc'[q] \in Early \cup {"done"}
    BY <1>4, <1>5, <1>7 DEF IInv, Naming
  <2>3. \A a, d \in Ids : counters'[a] = counters'[d] /\ counters'[a] # NoCounter => a = d
    BY <1>4, <1>5, <1>11 DEF IInv, Naming
  <2>4. \A q, s \in Requests : cnt'[q] = cnt'[s] /\ cnt'[q] # NoCounter => pick'[q] = pick'[s]
    BY <1>3, <1>5, <1>12 DEF IInv, Naming
  <2>5. \A q \in Requests : cnt'[q] # NoCounter =>
          \A a \in Ids : counters'[a] = cnt'[q] => a = pick'[q]
    BY <1>3, <1>4, <1>5, <1>11, <1>12 DEF IInv, Naming
  <2>6. QED
    BY Zenon, <2>1, <2>2, <2>3, <2>4, <2>5 DEF Naming
<1>15. Spread'
  <2> SUFFICES ASSUME NEW M \in SUBSET Backends, DecidedOn(M)'
               PROVE  Even(M)'
    BY Zenon DEF Spread
  <2>1. \A q \in Requests : pc[q] \in Leased =>
          /\ q # r /\ pick[q] \in Ids /\ cnt[q] # NoCounter
          /\ counters'[pick[q]] = cnt[q] => counters[pick[q]] = cnt[q]
    <3>1. \A q \in Requests : pc[q] \in Leased => q # r /\ pick[q] \in Ids /\ cnt[q] # NoCounter
      BY Zenon, <1>2 DEF IInv, TypeOK, Naming, Leased, Early
    <3>2. QED
      BY Zenon, <1>4, <1>5, <1>9, <1>10, <3>1
  <2>2. Even(M)
    BY Zenon, <1>3, <1>5, <1>7, <2>1, Backward DEF IInv, Spread
  <2>3. \A a : LeasesOn(a)' = LeasesOn(a)
    BY Zenon, <1>3, <1>7, LeasesFrame
  <2>4. Avoided' = Avoided
    BY Zenon, <1>3 DEF Avoided
  <2>5. QED
    BY Zenon, <1>3, <1>7, <2>2, <2>3, <2>4 DEF Even
<1>16. QED
  BY Zenon, <1>6, <1>8, <1>13, <1>14, <1>15 DEF IInv

\* counter.Add(1) on the counter of a least loaded backend.
LEMMA ReserveStep == ASSUME IInv, NEW r \in Requests, Reserve(r) PROVE IInv'
<1>1. r \in Procs /\ Requests \subseteq Procs
  BY Zenon DEF Procs
<1>2. pc'[r] = "flight" /\ pc[r] = "add" /\ \A q \in Procs : q # r => pc'[q] = pc[q]
  BY Zenon, <1>1, Moves DEF IInv, TypeOK, Reserve, Places
<1>3. UNCHANGED <<leastInflight, counters, circuit, pick, cnt, snap, hard>>
  BY Zenon DEF Reserve, disco, lease
<1> PICK c \in Objects : c = cnt[r]
  BY <1>2 DEF IInv, TypeOK, Naming, Early
<1>4. val' = [val EXCEPT ![c] = @ + 1] /\ val \in [Objects -> Nat]
  BY Zenon DEF IInv, TypeOK, Reserve
<1>5. TypeOK'
  <2>1. val' \in [Objects -> Nat]
    BY <1>4
  <2>2. QED
    BY Zenon, <1>1, <2>1 DEF IInv, TypeOK, Reserve, Goto, Places, disco, lease
<1>6. Counting'
  <2>1. r \notin Holders(c) /\ Holders(c)' = Holders(c) \cup {r}
    BY Zenon, <1>1, <1>2, <1>3 DEF Holders, Leased
  <2>2. \A d : d # c => Holders(d)' = Holders(d)
    BY Zenon, <1>1, <1>2, <1>3 DEF Holders, Leased
  <2>3. val'[c] = Cardinality(Holders(c)')
    <3>1. val[c] = Cardinality(Holders(c)) /\ val'[c] = val[c] + 1
      BY Zenon, <1>4 DEF IInv, Counting
    <3>2. Cardinality(Holders(c) \cup {r}) = Cardinality(Holders(c)) + 1
      BY Zenon, <2>1, HoldersFinite, FS_AddElement
    <3>3. QED
      BY Zenon, <2>1, <3>1, <3>2
  <2>4. \A d \in Objects : d # c => val'[d] = Cardinality(Holders(d)')
    BY Zenon, <1>3, <1>4, <2>2 DEF IInv, Counting
  <2>5. \A d \in Objects : val'[d] = Cardinality(Holders(d)')
    BY Zenon, <2>3, <2>4
  <2>6. QED
    BY Zenon, <2>5 DEF Counting
<1>7. \A q \in Requests :
        /\ pc'[q] \in Selection <=> pc[q] \in Selection /\ q # r
        /\ pc'[q] \in Ended <=> pc[q] \in Ended
        /\ pc'[q] \in Early <=> pc[q] \in Early
        /\ pc'[q] \in Early \cup {"done"} <=> pc[q] \in Early \cup {"done"}
        /\ pc'[q] \in Leased <=> pc[q] \in Leased \/ q = r
  BY Zenon, <1>1, <1>2 DEF Leased, Selection, Ended, Early
<1>8. Naming' /\ Quiet' /\ Mutual'
  BY Zenon, <1>3, <1>7, NamingFrame, QuietFrame, MutualFrame DEF IInv
<1>9. Spread'
  <2> SUFFICES ASSUME NEW M \in SUBSET Backends, DecidedOn(M)'
               PROVE  Even(M)'
    BY Zenon DEF Spread
  <2> PICK b \in Ids : b = pick[r]
    BY Zenon DEF IInv, TypeOK
  <2>1. Even(M)
    BY Zenon, <1>3, <1>7, Backward DEF IInv, Spread
  <2>2. \A q \in Requests : pc'[q] \notin Selection
    BY Zenon, <1>2, <1>7 DEF IInv, Mutual, Selection
  <2>3. LeasesOn(b)' = LeasesOn(b) + 1
    <3>1. r \notin OnLease(b) /\ OnLease(b)' = OnLease(b) \cup {r}
      BY Zenon, <1>2, <1>3, <1>7 DEF OnLease, Leased
    <3>2. QED
      BY <3>1, OnLeaseFinite, FS_AddElement DEF LeasesOn
  <2>4. \A a : a # b => LeasesOn(a)' = LeasesOn(a)
    <3>1. \A a : a # b => OnLease(a)' = OnLease(a)
      BY Zenon, <1>2, <1>3, <1>7 DEF OnLease
    <3>2. QED
      BY Zenon, <3>1 DEF LeasesOn
  <2>5. Avoided' = Avoided /\ \A a \in M \ Avoided : b \in M /\ LeasesOn(b) <= LeasesOn(a)
    BY Zenon, <1>2, <1>3, <2>1 DEF Even, Selection, Avoided
  <2>6. ASSUME NEW a \in M, NEW d \in M \ Avoided PROVE LeasesOn(a)' <= LeasesOn(d)' + 1
    <3>1. LeasesOn(a) \in Nat /\ LeasesOn(b) \in Nat /\ LeasesOn(d) \in Nat
      BY Zenon, OnLeaseFinite
    <3>2. LeasesOn(a) <= LeasesOn(d) + 1 /\ LeasesOn(b) <= LeasesOn(d)
      BY Zenon, <2>1, <2>5 DEF Even
    <3>3. CASE a # b /\ d # b
      BY <2>4, <3>2, <3>3
    <3>4. CASE a # b /\ d = b
      <4>1. LeasesOn(a)' = LeasesOn(a) /\ LeasesOn(d)' = LeasesOn(b) + 1
        BY Zenon, <2>3, <2>4, <3>4
      <4>2. QED
        BY <3>1, <3>2, <3>4, <4>1
    <3>5. CASE a = b /\ d # b
      <4>1. LeasesOn(d)' = LeasesOn(d) /\ LeasesOn(a)' = LeasesOn(b) + 1
        BY Zenon, <2>3, <2>4, <3>5
      <4>2. QED
        BY <3>1, <3>2, <4>1
    <3>6. CASE a = b /\ d = b
      <4>1. LeasesOn(d)' = LeasesOn(b) + 1 /\ LeasesOn(a)' = LeasesOn(b) + 1
        BY Zenon, <2>3, <3>6
      <4>2. QED
        BY <3>1, <4>1
    <3>7. QED
      BY Zenon, <3>3, <3>4, <3>5, <3>6
  <2>7. QED
    BY Zenon, <2>2, <2>5, <2>6 DEF Even
<1>10. QED
  BY Zenon, <1>5, <1>6, <1>8, <1>9 DEF IInv

\* The decision, on a snapshot no other request decides on.
LEMMA SelectDecisionStep == ASSUME IInv, NEW r \in Requests, SelectDecision(r) PROVE IInv'
<1>1. r \in Procs /\ Requests \subseteq Procs
  BY Zenon DEF Procs
<1>2. pc'[r] = "counter" /\ pc[r] = "select" /\ \A q \in Procs : q # r => pc'[q] = pc[q]
  BY Zenon, <1>1, Moves DEF IInv, TypeOK, SelectDecision, Places
<1>3. UNCHANGED <<leastInflight, counters, val, cnt, snap>>
  BY Zenon DEF SelectDecision, disco
<1>4. PICK expired \in SUBSET {b \in snap[r] : circuit[b] = "open"}, reported \in SUBSET snap[r] :
        LET now      == [b \in Backends |-> IF b \in expired THEN "closed" ELSE circuit[b]]
            eligible == {b \in snap[r] : now[b] # "open"}
            among    == loadBalancedBackends(eligible, HardOverloaded(reported))
        IN  /\ circuit' = now
            /\ hard' = [hard EXCEPT ![r] = @ \cup reported]
            /\ \E b \in eligible \cup {Svc} :
                 /\ b = Svc => eligible = {} \/ ~leastInflight
                 /\ b # Svc /\ leastInflight =>
                      b \in among /\ \A c \in among : Inflight(b) <= Inflight(c)
                 /\ pick' = [pick EXCEPT ![r] = b]
  BY Zenon DEF SelectDecision
<1> DEFINE eligible == {b \in snap[r] : circuit'[b] # "open"}
           among    == loadBalancedBackends(eligible, HardOverloaded(reported))
<1>5. PICK b \in eligible \cup {Svc} :
        /\ b = Svc => eligible = {} \/ ~leastInflight
        /\ b # Svc /\ leastInflight => b \in among /\ \A c \in among : Inflight(b) <= Inflight(c)
        /\ pick' = [pick EXCEPT ![r] = b]
  BY Zenon, <1>4
<1>6. circuit' = [d \in Backends |-> IF d \in expired THEN "closed" ELSE circuit[d]]
  BY Zenon, <1>4
<1>7. snap[r] \subseteq Backends /\ b \in Ids
  BY Zenon, <1>1, <1>5 DEF IInv, TypeOK, Ids
<1>8. pick'[r] = b /\ \A q \in Requests : q # r => pick'[q] = pick[q]
  BY Zenon, <1>5 DEF IInv, TypeOK
<1>9. TypeOK'
  <2>1. circuit' \in [Backends -> {"none", "closed", "open"}] /\ pick' \in [Requests -> Ids]
    BY Zenon, <1>5, <1>6, <1>7 DEF IInv, TypeOK
  <2>2. hard' \in [Requests -> SUBSET Backends]
    BY Zenon, <1>4, <1>7 DEF IInv, TypeOK
  <2>3. QED
    BY Zenon, <1>1, <2>1, <2>2 DEF IInv, TypeOK, SelectDecision, Goto, Places, disco
<1>10. \A q \in Requests :
        /\ pc'[q] \in Selection <=> q = r
        /\ pc'[q] \in Ended <=> pc[q] \in Ended
        /\ pc'[q] \in Early <=> pc[q] \in Early
        /\ pc'[q] \in Early \cup {"done"} <=> pc[q] \in Early \cup {"done"}
        /\ pc'[q] \in Leased <=> pc[q] \in Leased
  BY <1>1, <1>2 DEF Leased, Selection, Ended, Early, SelectDecision, SelectionFree
<1>11. Counting'
  BY Zenon, <1>3, <1>10, CountingFrame DEF IInv
<1>12. Naming'
  <2>1. cnt[r] = NoCounter
    BY Zenon, <1>2 DEF IInv, Naming, Early
  <2>2. QED
    BY <1>3, <1>8, <1>10, <2>1 DEF IInv, Naming
<1>13. Quiet'
  BY Zenon, <1>6, <1>7, <1>10, QuietFrame DEF IInv
<1>14. Mutual'
  BY Zenon, <1>10 DEF Mutual
<1>15. Spread'
  <2> SUFFICES ASSUME NEW M \in SUBSET Backends, DecidedOn(M)'
               PROVE  Even(M)'
    BY Zenon DEF Spread
  <2>1. r \notin OnLease(b) /\ \A q \in Requests : pc[q] \in Leased => q # r
    BY Zenon, <1>2 DEF OnLease, Leased
  <2>2. DecidedOn(M)
    BY Zenon, <1>3, <1>8, <1>10, <2>1, Backward DEF SelectDecision, SelectionFree
  <2>3. snap[r] = M /\ leastInflight
    BY Zenon, <1>3, <1>10, <2>2 DEF DecidedOn
  <2>4. \A a : LeasesOn(a)' = LeasesOn(a)
    <3>1. \A a : OnLease(a)' = OnLease(a)
      BY <1>8, <1>10, <2>1 DEF OnLease
    <3>2. QED
      BY Zenon, <3>1 DEF LeasesOn
  <2>5. eligible = M
    <3>1. \A d \in Backends : circuit'[d] = "none"
      BY Zenon, <1>9, <1>10, <1>13, <2>2 DEF DecidedOn, Quiet, TypeOK
    <3>2. QED
      BY Zenon, <1>7, <2>3, <3>1
  <2>6. Avoided \subseteq Avoided' /\ reported \subseteq Avoided'
    <3>1. hard'[r] = hard[r] \cup reported /\ \A q \in Requests : q # r => hard'[q] = hard[q]
      BY Zenon, <1>4 DEF IInv, TypeOK
    <3>2. QED
      BY <3>1 DEF Avoided
  <2>7. ASSUME NEW a \in M \ Avoided' PROVE b \in M /\ LeasesOn(b) <= LeasesOn(a)
    <3>1. a \in eligible /\ a \notin reported /\ a \in Backends
      BY Zenon, <2>5, <2>6
    <3>2. b \in among /\ b \in eligible /\ \A c \in among : Inflight(b) <= Inflight(c)
      BY Zenon, <1>5, <2>3, <3>1
    <3>3. \A c \in Ids : Inflight(c) = LeasesOn(c) /\ LeasesOn(c) \in Nat
      BY Zenon, <2>2, InflightIsLeases, OnLeaseFinite DEF DecidedOn, IInv
    <3>4. a \in Ids /\ b \in Ids /\ b \in Backends
      BY Zenon, <1>7, <3>1, <3>2 DEF Ids
    <3>5. CASE a \in among
      BY Zenon, <2>5, <3>2, <3>3, <3>4, <3>5
    <3>6. CASE a \notin among
      <4>1. a \in HardOverloaded(reported) /\ b \notin HardOverloaded(reported)
        BY Zenon, <3>1, <3>2, <3>6 DEF loadBalancedBackends
      <4>2. /\ HardLocalInflight > 0 /\ Inflight(a) >= HardLocalInflight
            /\ ~(Inflight(b) >= HardLocalInflight)
        BY Zenon, <3>1, <3>4, <4>1 DEF HardOverloaded
      <4>3. QED
        BY <2>5, <3>2, <3>3, <3>4, <4>2, PathConstants DEF PathConstants
    <3>7. QED
      BY Zenon, <3>5, <3>6
  <2>8. \A a \in M, d \in M \ Avoided' : LeasesOn(a) <= LeasesOn(d) + 1
    BY Zenon, <2>2, <2>6 DEF IInv, Spread, Even
  <2>9. QED
    BY Zenon, <1>8, <1>10, <2>4, <2>7, <2>8 DEF Even
<1>16. QED
  BY Zenon, <1>9, <1>11, <1>12, <1>13, <1>14, <1>15 DEF IInv

LEMMA NextIInv == IInv /\ [Next]_vars => IInv'
<1> SUFFICES ASSUME IInv, [Next]_vars PROVE IInv'
  BY Zenon
<1>1. CASE Discover
  BY Zenon, <1>1, DiscoverStep
<1>2. CASE \E p \in Procs : Reconcile(p)
  BY Zenon, <1>2, ResolveStep, ReconcileCircuitsStep, SwapActiveStep DEF Reconcile
<1>3. CASE \E r \in Requests : Request(r)
  <2>1. PICK r \in Requests : Request(r)
    BY Zenon, <1>3
  <2>2. CASE BuildKVAwareInput(r) \/ SelectDecision(r) \/ InflightCounter(r) \/ Reserve(r)
    BY Zenon, <2>2, BuildKVAwareInputStep, SelectDecisionStep, InflightCounterStep, ReserveStep
  <2>3. CASE Record(r) \/ Release(r) \/ Reap(r) \/ ForgetCircuit(r)
    BY Zenon, <2>3, RecordStep, ReleaseStep, ReapStep, ForgetCircuitStep
  <2>4. QED
    BY Zenon, <2>1, <2>2, <2>3 DEF Request
<1>4. CASE UNCHANGED vars
  <2>1. TypeOK'
    BY Zenon, <1>4 DEF IInv, TypeOK, vars, disco, lease
  <2>2. Counting' /\ Naming' /\ Quiet' /\ Mutual' /\ Spread'
    BY Zenon, <1>4, CountingFrame, NamingFrame, QuietFrame, MutualFrame, SpreadFrame
    DEF IInv, vars, disco, lease
  <2>3. QED
    BY Zenon, <2>1, <2>2 DEF IInv
<1>5. QED
  BY Zenon, <1>1, <1>2, <1>3, <1>4 DEF Next

\* Complete gives back exactly what Select took: every counter shows the leases
\* that hold it and belongs to one backend, whatever the membership does.
THEOREM LeasesAreCounted == Spec => []CountsLeases
<1>1. IInv => CountsLeases
  BY Zenon DEF IInv, CountsLeases, Counting, Naming
<1>2. QED
  BY <1>1, InitIInv, NextIInv, PTL DEF Spec

\* service.selection makes least-inflight decisions spread requests evenly over the
\* part of the membership they share that is never reported overloaded, for any
\* number of requests and backends and any local overload limit.
THEOREM LeasesAreSpread == Spec => []Balanced
<1>1. IInv => Balanced
  BY Zenon DEF IInv, Balanced, Spread, Even
<1>2. QED
  BY <1>1, InitIInv, NextIInv, PTL DEF Spec
=============================================================================
