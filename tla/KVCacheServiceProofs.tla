------------------------ MODULE KVCacheServiceProofs ------------------------
(***************************************************************************)
(* Reconcile, Lookup and Close for any number of callers and any finite    *)
(* set of instances: locality never crosses incarnations of a Pod, and     *)
(* nothing the service started is ever without an owner.                   *)
(***************************************************************************)
EXTENDS KVCacheService, FiniteSetTheorems, TLAPS

Busy == {"retire", "clear", "start"}
Waiting == {c \in Callers : pc[c] = "lock"}
StreamsOf(m) == {m[b] : b \in Backends} \ {None}
NextOf(c) == IF c = Closer THEN {} ELSE StreamsOf(next[c])

\* The types of what TypeOK leaves out.
Types ==
  /\ TypeOK /\ made \in 0..MaxStreams /\ calls \in 0..MaxCalls
  /\ seen \in [Callers -> SUBSET Instances]
  /\ next \in [Callers -> [Backends -> 0..MaxStreams]]
  /\ todo \in [Procs -> SUBSET Ids] /\ at \in [Procs -> 0..MaxStreams]
  /\ look \in {"idle", "read", "check", "confirm"}
  /\ sel \in [Backends -> 0..MaxStreams] /\ found \in [Backends -> SUBSET Ids]

\* reconcileMu is held by the one call that is past the lock; a Reconcile is
\* not past it once the service is closed.
Exclusion ==
  /\ \A c \in Procs : pc[c] \in Busy <=> mutex = c
  /\ pc[Closer] # "start" /\ (closed => mutex \in {Free, Closer})
  /\ pc[Closer] \in {"retire", "clear", "done"} => closed

\* A call makes at most MaxInstances streams, when it gets the lock.
Budget ==
  /\ Cardinality(Waiting) <= calls /\ made <= (calls - Cardinality(Waiting)) * MaxInstances
  /\ \A c \in Waiting : seen[c] \in Memberships /\ Validated(seen[c])
  /\ \A s \in Ids : s > made => life[s] = "none"

\* A map that Reconcile publishes.
WellFormed(m) ==
  /\ StreamsOf(m) \subseteq 1..made /\ Cardinality(StreamsOf(m)) <= MaxInstances
  /\ \A b \in Backends : m[b] # None => inst[m[b]].backend = b
  /\ \A s, t \in StreamsOf(m) : inst[s].pod = inst[t].pod => s = t

\* The call that holds the lock: what it keeps, retires and has retired are
\* disjoint parts of the published streams, and what it adds is unstarted.
Retiring(c) ==
  /\ todo[c] \subseteq Current \ NextOf(c)
  /\ c # Closer => /\ WellFormed(next[c])
                   /\ \A s \in NextOf(c) : s \in Current \/ life[s] = "none"
  /\ pc[c] = "clear" => /\ at[c] \in Current \ (NextOf(c) \cup todo[c])
                        /\ life[at[c]] = "closed"
  /\ \A s \in Current \ (NextOf(c) \cup todo[c]) :
       /\ life[s] = "closed"
       /\ c # Closer => (pc[c] = "clear" /\ at[c] = s) \/ \A p \in Pods : s \notin index[p]

Plan ==
  /\ WellFormed(streams)
  /\ \A c \in Procs : pc[c] \in {"retire", "clear"} => Retiring(c)

\* Who may write, who runs and whose blocks the index holds.
Ownership ==
  /\ Running \subseteq Current
  /\ \A s \in writing : s \in Running \/ \E c \in Procs : pc[c] = "clear" /\ at[c] = s
  /\ \A p \in Pods : \A s \in index[p] : s \in Current /\ inst[s].pod = p /\ life[s] # "none"
  /\ pc[Closer] = "done" => Running = {}

\* What the Lookup found belongs to the stream it selected, as long as that runs.
Found ==
  /\ \A b \in Backends : sel[b] # None => life[sel[b]] # "none"
  /\ look \in {"check", "confirm"} =>
       \A b \in Backends : sel[b] # None /\ life[sel[b]] = "started" => found[b] \subseteq {sel[b]}

IInv == Types /\ Exclusion /\ Budget /\ Plan /\ Ownership /\ Found
-----------------------------------------------------------------------------
LEMMA Constants ==
  /\ MaxStreams \in Nat /\ MaxInstances \in Nat /\ MaxCalls \in Nat
  /\ None \notin Ids /\ None \in 0..MaxStreams /\ Ids \subseteq 0..MaxStreams
  /\ \A n \in 0..MaxStreams : n # None => n \in Ids
  /\ Closer \notin Callers /\ Free \notin Procs
  /\ \A i \in Instances : i.backend \in Backends /\ i.pod \in Pods
<1>1. MaxStreams \in Nat /\ MaxInstances \in Nat /\ MaxCalls \in Nat
  BY ServiceConstants DEF ServiceConstants, MaxStreams
<1>2. /\ None \notin Ids /\ None \in 0..MaxStreams /\ Ids \subseteq 0..MaxStreams
      /\ \A n \in 0..MaxStreams : n # None => n \in Ids
  BY <1>1 DEF Ids, None
<1>3. Closer \notin Callers /\ Free \notin Procs
  BY Zenon, ServiceConstants DEF ServiceConstants, Closer, Free, Procs
<1>4. QED
  BY Zenon, <1>1, <1>2, <1>3 DEF Backends, Pods

LEMMA StreamsOfType ==
  ASSUME NEW m \in [Backends -> 0..MaxStreams]
  PROVE  StreamsOf(m) \subseteq Ids /\ IsFiniteSet(StreamsOf(m))
<1>1. StreamsOf(m) \in SUBSET Ids
  BY Zenon, Constants DEF StreamsOf
<1>2. IsFiniteSet(Ids)
  BY Constants, FS_Interval DEF Ids
<1>3. QED
  BY Zenon, <1>1, <1>2, FS_Subset

LEMMA InitIInv == Init => IInv
<1> SUFFICES ASSUME Init PROVE IInv
  BY Zenon
<1> USE Constants
<1>1. NoMap \in [Backends -> 0..MaxStreams] /\ StreamsOf(NoMap) = {}
  BY Zenon DEF NoMap, StreamsOf
<1>2. Running = {} /\ Current = {} /\ Waiting = {}
  BY Zenon DEF Init, Running, Current, NoMap, Waiting, Procs
<1>3. Types
  <2>1. closed \in BOOLEAN /\ mutex \in Procs \cup {Free}
    BY Zenon DEF Init
  <2>2. inst \in [Ids -> Instances]
    <3>1. (CHOOSE i \in Instances : TRUE) \in Instances
      BY Zenon, ServiceConstants DEF ServiceConstants
    <3>2. QED
      BY Zenon, <3>1 DEF Init
  <2>3. /\ life \in [Ids -> {"none", "started", "closed"}] /\ index \in [Pods -> SUBSET Ids]
        /\ pc \in [Procs -> {"idle", "lock", "retire", "clear", "start", "done"}]
        /\ valid = {} /\ writing = {} /\ streams \in [Backends -> 0..MaxStreams]
    BY Zenon, <1>1 DEF Init
  <2>4. TypeOK
    BY Zenon, <2>1, <2>2, <2>3 DEF TypeOK
  <2>5. made \in 0..MaxStreams /\ calls \in 0..MaxCalls
    BY DEF Init
  <2>6. /\ seen \in [Callers -> SUBSET Instances] /\ todo \in [Procs -> SUBSET Ids]
        /\ next \in [Callers -> [Backends -> 0..MaxStreams]] /\ at \in [Procs -> 0..MaxStreams]
        /\ sel \in [Backends -> 0..MaxStreams] /\ found \in [Backends -> SUBSET Ids]
        /\ look = "idle"
    BY Zenon, <1>1 DEF Init
  <2>7. QED
    BY Zenon, <2>4, <2>5, <2>6 DEF Types
<1>4. Exclusion
  <2>1. \A c \in Procs : pc[c] = "idle" /\ mutex # c
    BY Zenon DEF Init
  <2>2. Closer \in Procs /\ closed = FALSE
    BY Zenon DEF Init, Procs
  <2>3. QED
    BY Zenon, <2>1, <2>2 DEF Exclusion, Busy
<1>5. Budget
  <2>1. Cardinality(Waiting) = 0
    BY Zenon, <1>2, FS_EmptySet
  <2>2. made = 0 /\ calls = 0 /\ \A s \in Ids : life[s] = "none"
    BY Zenon DEF Init
  <2>3. QED
    BY <1>2, <2>1, <2>2 DEF Budget
<1>6. Plan
  <2>1. WellFormed(streams)
    <3>1. \A b \in Backends : streams[b] = None
      BY Zenon DEF Init, NoMap
    <3>2. StreamsOf(streams) = {} /\ Cardinality({}) = 0
      BY Zenon, <3>1, FS_EmptySet DEF StreamsOf
    <3>3. QED
      BY <3>1, <3>2 DEF WellFormed
  <2>2. \A c \in Procs : pc[c] = "idle"
    BY Zenon DEF Init
  <2>3. QED
    BY Zenon, <2>1, <2>2 DEF Plan
<1>7. Ownership
  BY Zenon, <1>2 DEF Init, Ownership
<1>8. Found
  BY Zenon DEF Init, Found, NoMap
<1>9. QED
  BY Zenon, <1>3, <1>4, <1>5, <1>6, <1>7, <1>8 DEF IInv
-----------------------------------------------------------------------------
(* The parts of the invariant that a step leaves alone.                    *)

LEMMA ExclusionFrame == ASSUME Exclusion, UNCHANGED <<pc, mutex, closed>> PROVE Exclusion'
BY Zenon DEF Exclusion

LEMMA BudgetFrame ==
  ASSUME Types, Budget, UNCHANGED <<calls, made, seen, pc>>,
         \A s \in Ids : life[s] = "none" => life'[s] = "none"
  PROVE  Budget'
<1>1. Waiting' = Waiting
  BY Zenon DEF Waiting
<1>2. QED
  BY <1>1 DEF Budget, Validated, Memberships

LEMMA PlanFrame ==
  ASSUME Plan, UNCHANGED <<streams, inst, made, life, index, pc, todo, at, next>> PROVE Plan'
<1>1. Current' = Current /\ (\A c : NextOf(c)' = NextOf(c)) /\ WellFormed(streams)'
      /\ \A c : WellFormed(next[c])' = WellFormed(next[c])
  BY DEF Current, NextOf, StreamsOf, WellFormed, Plan
<1>2. \A c : Retiring(c)' = Retiring(c)
  BY <1>1 DEF Retiring
<1>3. QED
  BY Zenon, <1>1, <1>2 DEF Plan

LEMMA StreamsFrame ==
  ASSUME WellFormed(streams), UNCHANGED <<streams, inst, made>>
  PROVE  WellFormed(streams)'
BY DEF WellFormed, StreamsOf

LEMMA NextFrame ==
  ASSUME NEW c \in Procs, UNCHANGED <<next, inst, made>>
  PROVE  NextOf(c)' = NextOf(c) /\ (WellFormed(next[c]) => WellFormed(next[c])')
BY DEF WellFormed, StreamsOf, NextOf

LEMMA OwnershipFrame ==
  ASSUME Ownership, UNCHANGED <<streams, inst, life, writing, index, pc, at>> PROVE Ownership'
<1>1. Current' = Current /\ Running' = Running
  BY Zenon DEF Current, Running
<1>2. QED
  BY <1>1 DEF Ownership

LEMMA FoundFrame == ASSUME Found, UNCHANGED <<life, look, sel, found>> PROVE Found'
BY Zenon DEF Found

\* The blocks under the Pod of a published stream are its own.
LEMMA IndexIsOwn ==
  ASSUME IInv, NEW s \in Current
  PROVE  s \in Ids /\ inst[s].pod \in Pods /\ index[inst[s].pod] \subseteq {s}
<1>1. streams \in [Backends -> 0..MaxStreams] /\ Current = StreamsOf(streams)
  BY Zenon DEF IInv, Types, TypeOK, Current, StreamsOf
<1>2. s \in Ids /\ inst[s] \in Instances
  BY Zenon, <1>1, StreamsOfType DEF IInv, Types, TypeOK
<1>3. inst[s].pod \in Pods
  BY Zenon, <1>2, Constants
<1>4. QED
  BY <1>1, <1>2, <1>3 DEF IInv, Ownership, Plan, WellFormed

-----------------------------------------------------------------------------
(* One lemma per action: the goroutines of a stream.                       *)

LEMMA BeginApplyIInv == ASSUME IInv, NEW s \in Ids, BeginApply(s) PROVE IInv'
<1>0. /\ s \in Running /\ writing' = writing \cup {s}
      /\ UNCHANGED <<streams, closed, mutex, inst, life, valid, index, made, calls>>
      /\ UNCHANGED <<pc, seen, next, todo, at, look, sel, found>>
  BY Zenon DEF BeginApply, rec, lookup
<1>1. Running' = Running /\ Current' = Current
  BY Zenon, <1>0 DEF Running, Current
<1>2. Types'
  BY Zenon, <1>0, <1>1 DEF IInv, Types, TypeOK
<1>3. Exclusion' /\ Plan' /\ Found'
  BY Zenon, <1>0, ExclusionFrame, PlanFrame, FoundFrame DEF IInv
<1>4. Budget'
  BY Zenon, <1>0, BudgetFrame DEF IInv
<1>5. Ownership'
  BY <1>0, <1>1 DEF IInv, Ownership
<1>6. QED
  BY Zenon, <1>2, <1>3, <1>4, <1>5 DEF IInv

LEMMA TurnIInv == ASSUME IInv, NEW s \in Ids, Turn(s) PROVE IInv'
<1>0. /\ s \in Running /\ valid' \subseteq valid \cup {s}
      /\ UNCHANGED <<streams, closed, mutex, inst, life, writing, index, made, calls>>
      /\ UNCHANGED <<pc, seen, next, todo, at, look, sel, found>>
  BY Zenon DEF Turn, rec, lookup
<1>1. Running' = Running
  BY Zenon, <1>0 DEF Running
<1>2. Types'
  BY Zenon, <1>0, <1>1 DEF IInv, Types, TypeOK
<1>3. Exclusion' /\ Plan' /\ Ownership' /\ Found'
  BY Zenon, <1>0, ExclusionFrame, PlanFrame, OwnershipFrame, FoundFrame DEF IInv
<1>4. Budget'
  BY Zenon, <1>0, BudgetFrame DEF IInv
<1>5. QED
  BY Zenon, <1>2, <1>3, <1>4 DEF IInv

LEMMA EndApplyIInv == ASSUME IInv, NEW s \in Ids, EndApply(s) PROVE IInv'
<1> DEFINE pod == inst[s].pod
<1>0. /\ s \in writing /\ writing' = writing \ {s} /\ valid' \subseteq valid
      /\ index' = [index EXCEPT ![pod] = @ \cup {s}] \/ index' = [index EXCEPT ![pod] = {}]
      /\ UNCHANGED <<streams, closed, mutex, inst, life, made, calls>>
      /\ UNCHANGED <<pc, seen, next, todo, at, look, sel, found>>
  BY Zenon DEF EndApply, rec, lookup
<1>1. Running' = Running /\ Current' = Current
  BY <1>0 DEF Running, Current
<1>2. s \in Current /\ life[s] # "none"
      /\ (life[s] # "started" => \E c \in Procs : pc[c] = "clear" /\ at[c] = s)
  <2>1. CASE s \in Running
    BY Zenon, <2>1 DEF IInv, Ownership, Running
  <2>2. CASE \E c \in Procs : pc[c] = "clear" /\ at[c] = s
    BY <2>2 DEF IInv, Plan, Retiring
  <2>3. QED
    BY Zenon, <1>0, <2>1, <2>2 DEF IInv, Ownership
<1>3. index \in [Pods -> SUBSET Ids] /\ pod \in Pods
  BY Zenon, <1>2, IndexIsOwn DEF IInv, Types, TypeOK
<1>4. /\ index' \in [Pods -> SUBSET Ids]
      /\ \A p \in Pods : index'[p] \subseteq index[p] \cup (IF p = pod THEN {s} ELSE {})
  BY <1>0, <1>3
<1>5. Types'
  BY Zenon, <1>0, <1>1, <1>4 DEF IInv, Types, TypeOK
<1>6. Exclusion' /\ Found'
  BY Zenon, <1>0, ExclusionFrame, FoundFrame DEF IInv
<1>7. Budget'
  BY Zenon, <1>0, BudgetFrame DEF IInv
<1>8. Ownership'
  <2>1. \A p \in Pods : \A t \in index'[p] : t \in Current /\ inst[t].pod = p /\ life[t] # "none"
    BY <1>2, <1>4 DEF IInv, Ownership
  <2>2. QED
    BY Zenon, <1>0, <1>1, <2>1 DEF IInv, Ownership
<1>9. Plan'
  <2>1. (\A c : NextOf(c)' = NextOf(c)) /\ WellFormed(streams)'
        /\ \A c : WellFormed(next[c])' = WellFormed(next[c])
    BY <1>0 DEF NextOf, StreamsOf, WellFormed, IInv, Plan
  <2>2. ASSUME NEW c \in Procs, pc[c] \in {"retire", "clear"} PROVE Retiring(c)'
    <3>1. Retiring(c) /\ mutex = c
      BY Zenon, <2>2 DEF IInv, Plan, Exclusion, Busy
    <3>2. ASSUME NEW t \in Current \ (NextOf(c) \cup todo[c])
          PROVE  /\ life[t] = "closed"
                 /\ c # Closer => (pc[c] = "clear" /\ at[c] = t) \/ \A p \in Pods : t \notin index'[p]
      <4>1. life[t] = "closed"
        BY Zenon, <3>1, <3>2 DEF Retiring
      <4>2. CASE t # s
        BY Zenon, <1>4, <3>1, <3>2, <4>2 DEF Retiring
      <4>3. CASE t = s
        <5>1. PICK d \in Procs : pc[d] = "clear" /\ at[d] = s
          BY Zenon, <1>2, <4>1, <4>3
        <5>2. d = c
          BY Zenon, <3>1, <5>1 DEF IInv, Exclusion, Busy
        <5>3. QED
          BY Zenon, <4>1, <4>3, <5>1, <5>2
      <4>4. QED
        BY Zenon, <4>2, <4>3
    <3>3. QED
      BY Zenon, <1>0, <1>1, <2>1, <3>1, <3>2 DEF Retiring
  <2>3. QED
    BY Zenon, <1>0, <2>1, <2>2 DEF Plan
<1>10. QED
  BY Zenon, <1>5, <1>6, <1>7, <1>8, <1>9 DEF IInv
-----------------------------------------------------------------------------
(* Lookup.                                                                 *)

\* A Lookup changes only its own variables.
LEMMA LookupFrame ==
  ASSUME IInv, UNCHANGED <<streams, closed, mutex, obj, index, made, calls, rec>>,
         look' \in {"idle", "read", "check", "confirm"},
         sel' \in [Backends -> 0..MaxStreams], found' \in [Backends -> SUBSET Ids], Found'
  PROVE  IInv'
<1>0. UNCHANGED <<streams, closed, mutex, inst, life, valid, writing, index, made, calls>>
      /\ UNCHANGED <<pc, seen, next, todo, at>>
  BY Zenon DEF obj, rec
<1>1. Running' = Running
  BY Zenon, <1>0 DEF Running
<1>2. Types'
  BY Zenon, <1>0, <1>1 DEF IInv, Types, TypeOK
<1>3. Exclusion' /\ Plan' /\ Ownership'
  BY Zenon, <1>0, ExclusionFrame, PlanFrame, OwnershipFrame DEF IInv
<1>4. Budget'
  BY Zenon, <1>0, BudgetFrame DEF IInv
<1>5. QED
  BY Zenon, <1>2, <1>3, <1>4 DEF IInv

LEMMA LookupIInv ==
  ASSUME IInv, LookupInputs \/ LookupStore \/ LookupCurrent \/ LookupReturn PROVE IInv'
<1> USE Constants
<1>0. /\ streams \in [Backends -> 0..MaxStreams] /\ sel \in [Backends -> 0..MaxStreams]
      /\ found \in [Backends -> SUBSET Ids] /\ Running \subseteq Current /\ valid \subseteq Running
      /\ inst \in [Ids -> Instances] /\ index \in [Pods -> SUBSET Ids] /\ None \notin Running
  BY Zenon DEF IInv, Types, TypeOK, Ownership, Running
<1>1. CASE LookupInputs
  <2>1. /\ look' = "read" /\ found' = found /\ life' = life
        /\ sel' = [b \in Backends |-> IF streams[b] \in valid THEN streams[b] ELSE None]
        /\ UNCHANGED <<streams, closed, mutex, obj, index, made, calls, rec>>
    BY Zenon, <1>1 DEF LookupInputs, obj
  <2>2. sel' \in [Backends -> 0..MaxStreams]
    BY Zenon, <1>0, <2>1
  <2>3. \A b \in Backends : sel'[b] # None => life[sel'[b]] # "none"
    BY Zenon, <1>0, <2>1 DEF Running
  <2>4. Found'
    BY Zenon, <2>1, <2>3 DEF Found
  <2>5. QED
    BY Zenon, <1>0, <2>1, <2>2, <2>4, LookupFrame
<1>2. CASE LookupStore
  <2>1. /\ look' = "check" /\ sel' = sel /\ life' = life
        /\ found' = [b \in Backends |-> IF sel[b] = None THEN {} ELSE index[inst[sel[b]].pod]]
        /\ UNCHANGED <<streams, closed, mutex, obj, index, made, calls, rec>>
    BY Zenon, <1>2 DEF LookupStore, obj
  <2>2. found' \in [Backends -> SUBSET Ids]
    BY Zenon, <1>0, <2>1
  <2>3. ASSUME NEW b \in Backends, sel[b] # None, life[sel[b]] = "started"
        PROVE  found'[b] \subseteq {sel[b]}
    <3>1. sel[b] \in Current
      BY Zenon, <1>0, <2>3 DEF Running
    <3>2. QED
      BY Zenon, <2>1, <2>3, <3>1, IndexIsOwn
  <2>4. Found'
    BY Zenon, <2>1, <2>3 DEF IInv, Found
  <2>5. QED
    BY Zenon, <1>0, <2>1, <2>2, <2>4, LookupFrame
<1>3. CASE LookupCurrent
  <2>1. /\ look = "check" /\ look' = "confirm" /\ found' = found /\ life' = life
        /\ sel' = [b \in Backends |-> IF StillCurrent(b) THEN streams[b] ELSE None]
        /\ UNCHANGED <<streams, closed, mutex, obj, index, made, calls, rec>>
    BY Zenon, <1>3 DEF LookupCurrent, obj
  <2>2. sel' \in [Backends -> 0..MaxStreams] /\ \A b \in Backends : sel'[b] \in {sel[b], None}
    BY Zenon, <1>0, <2>1 DEF StillCurrent
  <2>3. Found'
    BY Zenon, <2>1, <2>2 DEF IInv, Found
  <2>4. QED
    BY Zenon, <1>0, <2>1, <2>2, <2>3, LookupFrame
<1>4. CASE LookupReturn
  <2>1. /\ look' = "idle" /\ sel' = NoMap /\ found' = [b \in Backends |-> {}]
        /\ UNCHANGED <<streams, closed, mutex, obj, index, made, calls, rec>>
    BY Zenon, <1>4 DEF LookupReturn
  <2>2. sel' \in [Backends -> 0..MaxStreams] /\ \A b \in Backends : sel'[b] = None
    BY Zenon, <2>1 DEF NoMap
  <2>3. Found'
    BY Zenon, <2>1, <2>2 DEF Found
  <2>4. found' \in [Backends -> SUBSET Ids]
    BY Zenon, <2>1
  <2>5. QED
    BY Zenon, <2>1, <2>2, <2>3, <2>4, LookupFrame
<1>5. QED
  BY Zenon, <1>1, <1>2, <1>3, <1>4
-----------------------------------------------------------------------------
(* Calls of Reconcile and Close.                                           *)

Points == {"idle", "lock", "retire", "clear", "start", "done"}

LEMMA GotoType ==
  ASSUME Types, NEW c \in Procs, NEW place \in Points, Goto(c, place)
  PROVE  /\ pc \in [Procs -> Points] /\ pc' \in [Procs -> Points] /\ pc'[c] = place
         /\ \A d \in Procs \ {c} : pc'[d] = pc[d]
BY Zenon DEF Types, TypeOK, Points, Goto

\* A plan is not disturbed by another call's steps.
LEMMA PlanOfOthers ==
  ASSUME Types, Plan, NEW c \in Procs, NEW place \in Points, Goto(c, place),
         UNCHANGED <<streams, inst, made, life, index>>,
         \A d \in Procs \ {c} : todo'[d] = todo[d] /\ at'[d] = at[d],
         \A d \in Callers \ {c} : next'[d] = next[d],
         place \in {"retire", "clear"} => Retiring(c)'
  PROVE  Plan'
<1>1. Current' = Current /\ WellFormed(streams)'
  BY DEF Current, StreamsOf, WellFormed, Plan
<1>2. ASSUME NEW d \in Procs, pc'[d] \in {"retire", "clear"} PROVE Retiring(d)'
  <2>1. CASE d = c
    BY Zenon, <1>2, <2>1, GotoType
  <2>2. CASE d # c
    <3>1. pc'[d] = pc[d] /\ Retiring(d)
      BY <1>2, <2>2, GotoType DEF Plan
    <3>2. d # Closer => next'[d] = next[d]
      BY Zenon, <2>2 DEF Procs
    <3>3. NextOf(d)' = NextOf(d) /\ (d # Closer => StreamsOf(next[d])' = StreamsOf(next[d]))
      BY <3>2 DEF NextOf, StreamsOf
    <3>4. d # Closer => WellFormed(next[d])'
      BY <3>1, <3>2, <3>3 DEF Retiring, WellFormed
    <3>5. QED
      BY <1>1, <2>2, <3>1, <3>3, <3>4 DEF Retiring
  <2>3. QED
    BY Zenon, <2>1, <2>2
<1>3. QED
  BY Zenon, <1>1, <1>2 DEF Plan

\* Waiting calls, when one call moves.
LEMMA WaitingMoves ==
  ASSUME Types, NEW c \in Procs, NEW place \in Points, Goto(c, place)
  PROVE  /\ IsFiniteSet(Waiting) /\ Cardinality(Waiting) \in Nat
         /\ c \notin Callers \/ (pc[c] # "lock" /\ place # "lock") => Waiting' = Waiting
         /\ c \in Callers /\ pc[c] # "lock" /\ place = "lock" =>
              Waiting' = Waiting \cup {c} /\ Cardinality(Waiting') = Cardinality(Waiting) + 1
         /\ c \in Callers /\ pc[c] = "lock" /\ place # "lock" =>
              Waiting' = Waiting \ {c} /\ Cardinality(Waiting') = Cardinality(Waiting) - 1
<1>1. IsFiniteSet(Waiting) /\ Cardinality(Waiting) \in Nat
  <2>1. Waiting \in SUBSET Callers /\ IsFiniteSet(Callers)
    BY Zenon, ServiceConstants DEF Waiting, ServiceConstants
  <2>2. QED
    BY Zenon, <2>1, FS_Subset, FS_CardinalityType
<1>2. c \notin Callers \/ (pc[c] # "lock" /\ place # "lock") => Waiting' = Waiting
  BY Zenon, GotoType DEF Waiting, Procs
<1>3. c \in Callers /\ pc[c] # "lock" /\ place = "lock" => Waiting' = Waiting \cup {c} /\ c \notin Waiting
  BY Zenon, GotoType DEF Waiting, Procs
<1>4. c \in Callers /\ pc[c] = "lock" /\ place # "lock" => Waiting' = Waiting \ {c} /\ c \in Waiting
  BY Zenon, GotoType DEF Waiting, Procs
<1>5. c \notin Waiting => Cardinality(Waiting \cup {c}) = Cardinality(Waiting) + 1
  BY Zenon, <1>1, FS_AddElement
<1>6. c \in Waiting => Cardinality(Waiting \ {c}) = Cardinality(Waiting) - 1
  BY Zenon, <1>1, FS_RemoveElement
<1>7. QED
  BY Zenon, <1>1, <1>2, <1>3, <1>4, <1>5, <1>6

\* Budgets are products, which are easier to add to one factor at a time.
LEMMA OneMore ==
  ASSUME NEW k \in Nat, NEW m \in Nat
  PROVE  k * m \in Nat /\ (k + 1) * m = k * m + m /\ k * m <= (k + 1) * m
<1>1. k * m \in Nat /\ (k + 1) * m = k * m + m
  OBVIOUS
<1>2. QED
  BY <1>1

LEMMA CallIInv == ASSUME IInv, NEW c \in Callers, Call(c) PROVE IInv'
<1> USE Constants
<1>0. /\ pc[c] = "idle" /\ calls < MaxCalls /\ calls' = calls + 1 /\ Types /\ c \in Procs /\ c # Closer
      /\ UNCHANGED <<streams, closed, mutex, inst, life, valid, writing, index, made, next, todo, at>>
      /\ UNCHANGED <<look, sel, found>>
  BY Zenon DEF IInv, Call, obj, lookup, Procs
<1>1. \/ UNCHANGED <<seen, pc>>
      \/ \E D \in Memberships : Validated(D) /\ seen' = [seen EXCEPT ![c] = D] /\ Goto(c, "lock")
  BY Zenon DEF Call
<1>2. /\ Cardinality(Waiting) <= calls /\ made <= (calls - Cardinality(Waiting)) * MaxInstances
      /\ calls \in Nat /\ made \in Nat /\ Cardinality(Waiting) \in Nat /\ calls' \in 0..MaxCalls
  <2>1. Waiting \in SUBSET Callers /\ IsFiniteSet(Callers)
    BY Zenon, ServiceConstants DEF Waiting, ServiceConstants
  <2>2. Cardinality(Waiting) \in Nat
    BY Zenon, <2>1, FS_Subset, FS_CardinalityType
  <2>3. QED
    BY <1>0, <2>2 DEF IInv, Types, Budget
<1>3. Running' = Running /\ Found'
  BY Zenon, <1>0, FoundFrame DEF Running, IInv
<1>4. CASE UNCHANGED <<seen, pc>>
  <2>1. Types'
    BY Zenon, <1>0, <1>2, <1>3, <1>4 DEF Types, TypeOK
  <2>2. Exclusion' /\ Plan' /\ Ownership'
    BY Zenon, <1>0, <1>4, ExclusionFrame, PlanFrame, OwnershipFrame DEF IInv
  <2>3. Waiting' = Waiting
    BY Zenon, <1>4 DEF Waiting
  <2>4. made <= (calls' - Cardinality(Waiting)) * MaxInstances
    <3>1. PICK k \in Nat : k = calls - Cardinality(Waiting)
      BY <1>2
    <3>2. calls' - Cardinality(Waiting) = k + 1
      BY <1>0, <1>2, <3>1
    <3>3. made <= k * MaxInstances
      BY Zenon, <1>2, <3>1
    <3>4. QED
      BY <1>2, <3>2, <3>3, OneMore
  <2>5. Budget'
    BY <1>0, <1>2, <1>4, <2>3, <2>4 DEF IInv, Budget, Validated, Memberships
  <2>6. QED
    BY Zenon, <1>3, <2>1, <2>2, <2>5 DEF IInv
<1>5. ASSUME NEW D \in Memberships, Validated(D), seen' = [seen EXCEPT ![c] = D], Goto(c, "lock")
      PROVE  IInv'
  <2>1. pc' \in [Procs -> Points] /\ pc'[c] = "lock" /\ \A d \in Procs \ {c} : pc'[d] = pc[d]
    BY Zenon, <1>0, <1>5, GotoType DEF Points
  <2>2. Types'
    <3>1. seen' \in [Callers -> SUBSET Instances]
      BY Zenon, <1>0, <1>5 DEF Types, Memberships
    <3>2. QED
      BY Zenon, <1>0, <1>2, <1>3, <2>1, <3>1 DEF Types, TypeOK, Points
  <2>3. Exclusion'
    BY Zenon, <1>0, <2>1 DEF IInv, Exclusion, Busy, Procs
  <2>4. Plan'
    BY Zenon, <1>0, <1>5, PlanOfOthers DEF IInv, Points
  <2>5. Ownership'
    BY <1>0, <1>3, <2>1 DEF IInv, Ownership, Current, Procs
  <2>6. Waiting' = Waiting \cup {c} /\ Cardinality(Waiting') = Cardinality(Waiting) + 1
    BY Zenon, <1>0, <1>5, WaitingMoves DEF Points
  <2>7. calls' - Cardinality(Waiting') = calls - Cardinality(Waiting) /\ Cardinality(Waiting') <= calls'
    BY <1>0, <1>2, <2>6
  <2>8. \A d \in Waiting' : seen'[d] \in Memberships /\ Validated(seen'[d])
    BY Zenon, <1>0, <1>5, <2>6 DEF IInv, Types, Budget, Waiting
  <2>9. Budget'
    BY Zenon, <1>0, <1>2, <2>7, <2>8 DEF IInv, Budget, Validated, Memberships
  <2>10. QED
    BY Zenon, <1>3, <2>2, <2>3, <2>4, <2>5, <2>9 DEF IInv
<1>6. QED
  BY Zenon, <1>1, <1>4, <1>5
-----------------------------------------------------------------------------
(* Steps of the call that holds, takes or returns the lock.                *)

LEMMA HolderStep ==
  ASSUME Types, Exclusion, NEW c \in Procs, NEW place \in Points, Goto(c, place), mutex \in {Free, c},
         mutex' = IF place \in Busy THEN c ELSE Free
  PROVE  /\ \A d \in Procs : pc'[d] \in Busy <=> mutex' = d
         /\ \A d \in Procs \ {c} : pc'[d] = pc[d] /\ pc[d] \notin Busy
         /\ mutex' \in Procs \cup {Free}
<1>1. \A d \in Procs \ {c} : pc'[d] = pc[d] /\ pc[d] \notin Busy
  BY Constants, GotoType DEF Exclusion
<1>2. QED
  BY <1>1, Constants, GotoType

LEMMA HolderPlan ==
  ASSUME Types, Exclusion, NEW c \in Procs, NEW place \in Points, Goto(c, place), mutex \in {Free, c},
         WellFormed(streams)', place \in {"retire", "clear"} => Retiring(c)'
  PROVE  Plan'
<1>1. \A d \in Procs \ {c} : pc'[d] = pc[d] /\ pc[d] \notin Busy
  BY Constants, GotoType DEF Exclusion
<1>2. pc'[c] = place
  BY Zenon, GotoType
<1>3. QED
  BY Zenon, <1>1, <1>2 DEF Plan, Busy

LEMMA HolderBudget ==
  ASSUME Types, Budget, NEW c \in Procs, NEW place \in Points, Goto(c, place),
         c = Closer \/ (pc[c] # "lock" /\ place # "lock"),
         UNCHANGED <<calls, made, seen>>,
         \A s \in Ids : s > made => life'[s] = "none"
  PROVE  Budget'
<1>1. Waiting' = Waiting
  BY Zenon, Constants, WaitingMoves
<1>2. QED
  BY <1>1 DEF Budget, Validated, Memberships

-----------------------------------------------------------------------------
(* Close.                                                                  *)

LEMMA CloseCallIInv == ASSUME IInv, CloseCall PROVE IInv'
<1>0. /\ pc[Closer] = "idle" /\ ~closed /\ Goto(Closer, "lock") /\ Types /\ Closer \in Procs
      /\ UNCHANGED <<streams, closed, mutex, inst, life, valid, writing, index, made, calls>>
      /\ UNCHANGED <<seen, next, todo, at, look, sel, found>>
  BY Zenon DEF IInv, CloseCall, obj, lookup, Procs
<1>1. /\ pc' \in [Procs -> Points] /\ pc'[Closer] = "lock"
      /\ \A d \in Procs \ {Closer} : pc'[d] = pc[d]
  BY Zenon, <1>0, GotoType DEF Points
<1>2. Running' = Running /\ Current' = Current /\ Found'
  BY Zenon, <1>0, FoundFrame DEF Running, Current, IInv
<1>3. Types'
  BY Zenon, <1>0, <1>1, <1>2 DEF Types, TypeOK, Points
<1>4. Exclusion'
  BY Zenon, <1>0, <1>1 DEF IInv, Exclusion, Busy
<1>5. Plan'
  BY Zenon, <1>0, PlanOfOthers DEF IInv, Points
<1>6. Budget'
  BY Zenon, <1>0, HolderBudget DEF IInv, Budget, Points
<1>7. Ownership'
  BY <1>0, <1>1, <1>2 DEF IInv, Ownership
<1>8. QED
  BY Zenon, <1>2, <1>3, <1>4, <1>5, <1>6, <1>7 DEF IInv

LEMMA CloseLockIInv == ASSUME IInv, CloseLock PROVE IInv'
<1>0. /\ pc[Closer] = "lock" /\ mutex = Free /\ mutex' = Closer /\ closed' = TRUE
      /\ Goto(Closer, "retire") /\ todo' = [todo EXCEPT ![Closer] = Current]
      /\ Types /\ Closer \in Procs
      /\ UNCHANGED <<streams, inst, life, valid, writing, index, made, calls>>
      /\ UNCHANGED <<seen, next, at, look, sel, found>>
  BY Zenon DEF IInv, CloseLock, obj, lookup, Procs
<1>1. /\ pc' \in [Procs -> Points] /\ pc'[Closer] = "retire"
      /\ \A d \in Procs \ {Closer} : pc'[d] = pc[d]
  BY Zenon, <1>0, GotoType DEF Points
<1>2. Running' = Running /\ Current' = Current /\ Found'
  BY Zenon, <1>0, FoundFrame DEF Running, Current, IInv
<1>3. Current \subseteq Ids /\ todo'[Closer] = Current /\ todo' \in [Procs -> SUBSET Ids]
  <2>1. Current \subseteq Ids
    BY Zenon, <1>0, StreamsOfType DEF Types, TypeOK, Current, StreamsOf
  <2>2. QED
    BY Zenon, <1>0, <2>1 DEF Types
<1>4. Types'
  <2>1. closed' \in BOOLEAN /\ mutex' \in Procs \cup {Free}
    BY Zenon, <1>0
  <2>2. QED
    BY Zenon, <1>0, <1>1, <1>2, <1>3, <2>1 DEF Types, TypeOK, Points
<1>5. Exclusion'
  <2>1. \A d \in Procs : pc'[d] \in Busy <=> mutex' = d
    BY Zenon, <1>0, HolderStep DEF IInv, Points, Busy
  <2>2. QED
    BY Zenon, <1>0, <1>1, <2>1 DEF Exclusion
<1>6. Plan'
  <2>1. WellFormed(streams)'
    BY <1>0 DEF IInv, Plan, WellFormed, StreamsOf
  <2>2. Retiring(Closer)'
    BY Zenon, <1>0, <1>1, <1>2, <1>3 DEF Retiring, NextOf
  <2>3. QED
    BY Zenon, <1>0, <2>1, <2>2, HolderPlan DEF IInv, Points
<1>7. Budget'
  BY Zenon, <1>0, HolderBudget DEF IInv, Budget, Points
<1>8. Ownership'
  BY <1>0, <1>1, <1>2 DEF IInv, Ownership
<1>9. QED
  BY Zenon, <1>2, <1>4, <1>5, <1>6, <1>7, <1>8 DEF IInv

LEMMA CloseReturnIInv == ASSUME IInv, CloseReturn PROVE IInv'
<1>0. /\ pc[Closer] = "retire" /\ todo[Closer] = {} /\ mutex' = Free /\ Goto(Closer, "done")
      /\ Types /\ Closer \in Procs /\ mutex = Closer /\ closed
      /\ UNCHANGED <<streams, closed, inst, life, valid, writing, index, made, calls>>
      /\ UNCHANGED <<seen, next, todo, at, look, sel, found>>
  BY Zenon DEF IInv, CloseReturn, obj, lookup, Procs, Exclusion, Busy
<1>1. /\ pc' \in [Procs -> Points] /\ pc'[Closer] = "done"
      /\ \A d \in Procs \ {Closer} : pc'[d] = pc[d]
  BY Zenon, <1>0, GotoType DEF Points
<1>2. Running' = Running /\ Current' = Current /\ Found'
  BY Zenon, <1>0, FoundFrame DEF Running, Current, IInv
<1>3. Types'
  BY Zenon, <1>0, <1>1, <1>2 DEF Types, TypeOK, Points
<1>4. Exclusion'
  <2>1. \A d \in Procs : pc'[d] \in Busy <=> mutex' = d
    BY Zenon, <1>0, HolderStep DEF IInv, Points, Busy
  <2>2. QED
    BY Zenon, <1>0, <1>1, <2>1 DEF Exclusion
<1>5. Plan'
  <2>1. WellFormed(streams)'
    BY <1>0 DEF IInv, Plan, WellFormed, StreamsOf
  <2>2. QED
    BY Zenon, <1>0, <2>1, HolderPlan DEF IInv, Points
<1>6. Budget'
  BY Zenon, <1>0, HolderBudget DEF IInv, Budget, Points
<1>7. Running = {}
  <2>1. \A s \in Current : life[s] = "closed"
    BY Zenon, <1>0 DEF IInv, Plan, Retiring, NextOf
  <2>2. QED
    BY Zenon, <2>1 DEF IInv, Ownership, Running
<1>8. Ownership'
  BY <1>0, <1>1, <1>2, <1>7 DEF IInv, Ownership
<1>9. QED
  BY Zenon, <1>2, <1>3, <1>4, <1>5, <1>6, <1>8 DEF IInv
-----------------------------------------------------------------------------
(* Retiring, clearing, publishing and starting.                            *)

\* The holder of the lock, and the published streams.
LEMMA HolderFacts ==
  ASSUME IInv, NEW c \in Procs, pc[c] \in Busy
  PROVE  /\ Types /\ mutex = c /\ Current \subseteq Ids /\ WellFormed(streams)
         /\ Current = StreamsOf(streams) /\ (\A s \in Ids : s > made => s \notin Current)
         /\ \A d \in Procs : d # c => pc[d] \notin Busy
         /\ c # Closer => c \in Callers /\ ~closed /\ pc[Closer] # "done"
<1>1. Types /\ mutex = c /\ WellFormed(streams) /\ \A d \in Procs : d # c => pc[d] \notin Busy
  BY Zenon DEF IInv, Exclusion, Plan
<1>2. Current = StreamsOf(streams) /\ Current \subseteq Ids
  BY Zenon, <1>1, StreamsOfType DEF Types, TypeOK, Current, StreamsOf
<1>3. \A s \in Ids : s > made => s \notin Current
  <2>1. made \in Nat /\ Current \subseteq 1..made
    BY <1>1, <1>2, Constants DEF Types, WellFormed
  <2>2. QED
    BY <2>1, Constants DEF Ids
<1>4. c # Closer => c \in Callers /\ ~closed /\ pc[Closer] # "done"
  BY Zenon, <1>1, Constants DEF IInv, Exclusion, Procs
<1>5. QED
  BY Zenon, <1>1, <1>2, <1>3, <1>4

LEMMA RetireIInv == ASSUME IInv, NEW c \in Procs, Retire(c) PROVE IInv'
<1>0. PICK s \in todo[c] :
        /\ pc[c] = "retire" /\ Goto(c, "clear") /\ life' = [life EXCEPT ![s] = "closed"]
        /\ valid' = valid \ {s} /\ at' = [at EXCEPT ![c] = s] /\ todo' = [todo EXCEPT ![c] = @ \ {s}]
        /\ UNCHANGED <<streams, closed, mutex, inst, writing, index, made, calls>>
        /\ UNCHANGED <<seen, next, look, sel, found>>
  BY Zenon DEF Retire, Shut, lookup
<1>1. /\ Types /\ mutex = c /\ Current \subseteq Ids /\ Retiring(c)
      /\ \A d \in Procs : d # c => pc[d] \notin Busy
      /\ \A t \in Ids : t > made => t \notin Current
  BY Zenon, <1>0, HolderFacts DEF IInv, Plan, Busy
<1>2. s \in Current /\ s \in Ids /\ s \notin NextOf(c) /\ Current' = Current
  BY <1>0, <1>1 DEF Retiring, Current
<1>3. /\ pc' \in [Procs -> Points] /\ pc'[c] = "clear" /\ \A d \in Procs \ {c} : pc'[d] = pc[d]
  BY Zenon, <1>0, <1>1, GotoType DEF Points
<1>4. /\ life' \in [Ids -> {"none", "started", "closed"}] /\ life'[s] = "closed"
      /\ \A t \in Ids : t # s => life'[t] = life[t]
  BY Zenon, <1>0, <1>1, <1>2 DEF Types, TypeOK
<1>5. Running' = Running \ {s}
  BY Zenon, <1>2, <1>4 DEF Running
<1>6. /\ todo' \in [Procs -> SUBSET Ids] /\ todo'[c] = todo[c] \ {s}
      /\ at' \in [Procs -> 0..MaxStreams] /\ at'[c] = s
  BY Zenon, <1>0, <1>1, <1>2, Constants DEF Types
<1>7. Types'
  BY Zenon, <1>0, <1>1, <1>3, <1>4, <1>5, <1>6 DEF Types, TypeOK, Points
<1>8. Exclusion'
  <2>1. \A d \in Procs : pc'[d] \in Busy <=> mutex' = d
    BY Zenon, <1>0, <1>1, HolderStep DEF IInv, Points, Busy
  <2>2. pc'[Closer] # "start" /\ (pc'[Closer] \in {"retire", "clear", "done"} => closed)
    BY Zenon, <1>0, <1>3 DEF IInv, Exclusion, Procs
  <2>3. QED
    BY Zenon, <1>0, <2>1, <2>2 DEF IInv, Exclusion
<1>9. Plan'
  <2>1. WellFormed(streams)' /\ NextOf(c)' = NextOf(c)
    BY Zenon, <1>0, StreamsFrame, NextFrame DEF IInv, Plan
  <2>2. c # Closer => WellFormed(next[c])'
    BY Zenon, <1>0, <1>1, NextFrame DEF Retiring
  <2>3. \A t \in NextOf(c) : t \in Current \/ (t # s /\ life[t] = "none")
    BY Zenon, <1>1, <1>2 DEF Retiring, NextOf
  <2>4. NextOf(c) \subseteq Ids
    BY Zenon, <1>1, StreamsOfType DEF NextOf, Types, Procs
  <2>5. Retiring(c)'
    <3>1. Current' = Current /\ NextOf(c)' = NextOf(c) /\ todo'[c] = todo[c] \ {s} /\ at'[c] = s /\ index' = index
      BY Zenon, <1>0, <1>2, <1>6, <2>1
    <3>2. /\ todo[c] \subseteq Current \ NextOf(c) /\ s \in Current \ (NextOf(c) \cup (todo[c] \ {s}))
          /\ \A t \in Current \ (NextOf(c) \cup todo[c]) :
               t # s => life'[t] = "closed" /\ (c # Closer => \A p \in Pods : t \notin index[p])
      BY Zenon, <1>0, <1>1, <1>2, <1>4 DEF Retiring
    <3>3. c # Closer => \A t \in NextOf(c) : t \in Current \/ life'[t] = "none"
      BY Zenon, <1>4, <2>3, <2>4
    <3>4. \A t \in Current \ (NextOf(c) \cup (todo[c] \ {s})) :
            life'[t] = "closed" /\ (c # Closer => t = s \/ \A p \in Pods : t \notin index[p])
      BY Zenon, <1>4, <3>2
    <3>5. QED
      BY Zenon, <1>3, <1>4, <2>2, <3>1, <3>2, <3>3, <3>4 DEF Retiring
  <2>6. QED
    BY Zenon, <1>0, <1>1, <2>1, <2>5, HolderPlan DEF IInv, Points
<1>10. Budget'
  <2>1. \A t \in Ids : t > made => life'[t] = "none"
    BY Zenon, <1>1, <1>2, <1>4 DEF IInv, Budget
  <2>2. QED
    BY Zenon, <1>0, <1>1, <2>1, HolderBudget DEF IInv, Points
<1>11. Ownership'
  <2>1. \A t \in writing : t \in Running
    BY Zenon, <1>0, <1>1 DEF IInv, Ownership, Busy
  <2>2. \A t \in writing : t \in Running' \/ (pc'[c] = "clear" /\ at'[c] = t)
    BY Zenon, <1>3, <1>5, <1>6, <2>1
  <2>3. \A p \in Pods : \A t \in index[p] : t \in Current /\ inst[t].pod = p /\ life'[t] # "none"
    BY Zenon, <1>1, <1>4 DEF IInv, Ownership
  <2>4. pc'[Closer] = "done" => Running' = {}
    BY Zenon, <1>3, <1>5 DEF IInv, Ownership, Procs
  <2>5. QED
    BY <1>0, <1>2, <1>5, <2>2, <2>3, <2>4 DEF IInv, Ownership
<1>12. Found'
  <2>1. \A b \in Backends : sel[b] # None => sel[b] \in Ids
    BY Zenon, <1>1, Constants DEF Types
  <2>2. QED
    BY Zenon, <1>0, <1>4, <2>1 DEF IInv, Found
<1>13. QED
  BY Zenon, <1>7, <1>8, <1>9, <1>10, <1>11, <1>12 DEF IInv
\* The step after wg.Wait: the Pod of the retired stream is cleared, or not.
LEMMA ClearingFacts ==
  ASSUME IInv, NEW c \in Procs, pc[c] = "clear", Drained(at[c]),
         index' \in {index, [index EXCEPT ![inst[at[c]].pod] = {}]},
         UNCHANGED <<streams, inst, life, writing>>
  PROVE  /\ index' \in [Pods -> SUBSET Ids] /\ (\A p \in Pods : index'[p] \subseteq index[p])
         /\ writing \subseteq Running /\ Running' = Running /\ Current' = Current
         /\ at[c] \in Ids /\ at[c] \in Current
         /\ index' = [index EXCEPT ![inst[at[c]].pod] = {}] => \A p \in Pods : at[c] \notin index'[p]
<1>1. Types /\ at[c] \in Current /\ \A d \in Procs : d # c => pc[d] # "clear"
  BY Zenon, HolderFacts DEF IInv, Plan, Retiring, Busy
<1>2. at[c] \in Ids /\ inst[at[c]].pod \in Pods /\ index \in [Pods -> SUBSET Ids]
  BY Zenon, <1>1, IndexIsOwn DEF Types, TypeOK
<1>3. index' \in [Pods -> SUBSET Ids] /\ \A p \in Pods : index'[p] \subseteq index[p]
  BY Zenon, <1>2
<1>4. writing \subseteq Running
  BY <1>1 DEF IInv, Ownership, Drained
<1>5. Running' = Running /\ Current' = Current
  BY DEF Running, Current
<1>6. index' = [index EXCEPT ![inst[at[c]].pod] = {}] => \A p \in Pods : at[c] \notin index'[p]
  BY <1>2 DEF IInv, Ownership
<1>7. QED
  BY Zenon, <1>1, <1>2, <1>3, <1>4, <1>5, <1>6

\* What a call keeps of its plan once the stream it waited for is cleared.
LEMMA ClearedPlan ==
  ASSUME IInv, NEW c \in Procs, pc[c] = "clear", Drained(at[c]), Goto(c, "retire"),
         index' \in {index, [index EXCEPT ![inst[at[c]].pod] = {}]},
         c # Closer => \A p \in Pods : at[c] \notin index'[p],
         at' = [at EXCEPT ![c] = None],
         UNCHANGED <<streams, closed, mutex, obj, made, calls, seen, next, todo, lookup>>
  PROVE  IInv'
<1>0. UNCHANGED <<streams, closed, mutex, inst, life, valid, writing, made, calls>>
      /\ UNCHANGED <<seen, next, todo, look, sel, found>>
  BY Zenon DEF obj, lookup
<1>1. /\ Types /\ mutex = c /\ Retiring(c) /\ WellFormed(streams)
      /\ \A d \in Procs : d # c => pc[d] \notin Busy
  BY Zenon, HolderFacts DEF IInv, Plan, Busy
<1>2. /\ index' \in [Pods -> SUBSET Ids] /\ (\A p \in Pods : index'[p] \subseteq index[p])
      /\ writing \subseteq Running /\ Running' = Running /\ Current' = Current
  BY Zenon, <1>0, ClearingFacts
<1>3. pc' \in [Procs -> Points] /\ pc'[c] = "retire" /\ \A d \in Procs \ {c} : pc'[d] = pc[d]
  BY Zenon, <1>1, GotoType DEF Points
<1>4. Types'
  <2>1. at' \in [Procs -> 0..MaxStreams]
    BY Zenon, <1>1, Constants DEF Types
  <2>2. QED
    BY Zenon, <1>0, <1>1, <1>2, <1>3, <2>1 DEF Types, TypeOK, Points
<1>5. Exclusion'
  <2>1. \A d \in Procs : pc'[d] \in Busy <=> mutex' = d
    BY Zenon, <1>0, <1>1, HolderStep DEF IInv, Points, Busy
  <2>2. pc'[Closer] # "start" /\ (pc'[Closer] \in {"retire", "clear", "done"} => closed)
    BY Zenon, <1>3 DEF IInv, Exclusion, Procs
  <2>3. QED
    BY <1>0, <2>1, <2>2 DEF IInv, Exclusion
<1>6. Plan'
  <2>1. WellFormed(streams)' /\ NextOf(c)' = NextOf(c) /\ (c # Closer => WellFormed(next[c])')
    BY Zenon, <1>0, <1>1, StreamsFrame, NextFrame DEF Retiring
  <2>2. ASSUME NEW s \in Current \ (NextOf(c) \cup todo[c])
        PROVE  life[s] = "closed" /\ (c # Closer => \A p \in Pods : s \notin index'[p])
    <3>1. life[s] = "closed" /\ (c # Closer => at[c] = s \/ \A p \in Pods : s \notin index[p])
      BY Zenon, <1>1 DEF Retiring
    <3>2. QED
      BY Zenon, <1>2, <3>1
  <2>3. Retiring(c)'
    <3>1. /\ todo'[c] = todo[c] /\ life' = life /\ Current' = Current
          /\ NextOf(c)' = NextOf(c) /\ pc'[c] # "clear"
      BY Zenon, <1>0, <1>2, <1>3, <2>1
    <3>2. /\ todo[c] \subseteq Current \ NextOf(c)
          /\ c # Closer => \A s \in NextOf(c) : s \in Current \/ life[s] = "none"
      BY Zenon, <1>1 DEF Retiring
    <3>3. QED
      BY Zenon, <2>1, <2>2, <3>1, <3>2 DEF Retiring
  <2>4. QED
    BY Zenon, <1>1, <2>1, <2>3, HolderPlan DEF IInv, Points
<1>7. Budget'
  BY Zenon, <1>0, <1>1, HolderBudget DEF IInv, Budget, Points
<1>8. Ownership'
  BY <1>0, <1>2, <1>3 DEF IInv, Ownership, Procs
<1>9. Found'
  BY Zenon, <1>0, FoundFrame DEF IInv
<1>10. QED
  BY Zenon, <1>4, <1>5, <1>6, <1>7, <1>8, <1>9 DEF IInv

LEMMA CloseClearIInv == ASSUME IInv, CloseClear PROVE IInv'
<1>1. Closer \in Procs /\ pc[Closer] = "clear"
  BY Zenon DEF Procs, CloseClear
<1>2. index' \in {index, [index EXCEPT ![inst[at[Closer]].pod] = {}]}
  BY Zenon DEF CloseClear
<1>3. QED
  BY Zenon, <1>1, <1>2, ClearedPlan DEF CloseClear
\* The end of a Reconcile: the lock is given back and its plan forgotten.
LEMMA FinishFacts ==
  ASSUME IInv, NEW c \in Callers, pc[c] \in Busy, Finish(c), closed' = closed
  PROVE  /\ pc' \in [Procs -> Points] /\ pc'[c] = "idle" /\ (\A d \in Procs \ {c} : pc'[d] = pc[d])
         /\ next' \in [Callers -> [Backends -> 0..MaxStreams]] /\ mutex' \in Procs \cup {Free}
         /\ Exclusion' /\ pc'[Closer] # "done"
<1>0. /\ c \in Procs /\ c # Closer /\ mutex' = Free /\ Goto(c, "idle") /\ Types
      /\ next' = [next EXCEPT ![c] = NoMap] /\ mutex = c /\ pc[Closer] # "done" /\ ~closed
  BY Zenon, HolderFacts, Constants DEF Finish, Procs
<1>1. pc' \in [Procs -> Points] /\ pc'[c] = "idle" /\ \A d \in Procs \ {c} : pc'[d] = pc[d]
  BY Zenon, <1>0, GotoType DEF Points
<1>2. next' \in [Callers -> [Backends -> 0..MaxStreams]]
  <2>1. NoMap \in [Backends -> 0..MaxStreams]
    BY Zenon, Constants DEF NoMap
  <2>2. QED
    BY Zenon, <1>0, <2>1 DEF Types
<1>3. \A d \in Procs : pc'[d] \in Busy <=> mutex' = d
  BY Zenon, <1>0, HolderStep DEF IInv, Points, Busy
<1>4. pc'[Closer] = pc[Closer] /\ Closer \in Procs
  BY Zenon, <1>0, <1>1 DEF Procs
<1>5. Exclusion'
  BY Zenon, <1>0, <1>3, <1>4 DEF IInv, Exclusion
<1>6. QED
  BY Zenon, <1>0, <1>1, <1>2, <1>4, <1>5

LEMMA ClearIInv == ASSUME IInv, NEW c \in Callers, Clear(c) PROVE IInv'
<1>0. /\ c \in Procs /\ c # Closer /\ pc[c] = "clear" /\ Drained(at[c]) /\ at' = [at EXCEPT ![c] = None]
      /\ UNCHANGED <<streams, closed, obj, made, calls, seen, lookup>>
  BY Zenon DEF Clear, Procs
<1>1. CASE /\ index' = [index EXCEPT ![inst[at[c]].pod] = {}] /\ Goto(c, "retire")
           /\ UNCHANGED <<mutex, next, todo>>
  <2>1. \A p \in Pods : at[c] \notin index'[p]
    BY Zenon, <1>0, <1>1, ClearingFacts DEF obj
  <2>2. QED
    BY Zenon, <1>0, <1>1, <2>1, ClearedPlan
<1>2. CASE ClearFailed(c) /\ UNCHANGED index
  <2>0. /\ Finish(c) /\ todo' = [todo EXCEPT ![c] = {}] /\ mutex' = Free /\ Goto(c, "idle")
        /\ UNCHANGED <<streams, closed, inst, life, valid, writing, made, calls>>
        /\ UNCHANGED <<index, seen, look, sel, found>>
    BY Zenon, <1>0, <1>2 DEF ClearFailed, Finish, obj, lookup
  <2>1. Types /\ mutex = c /\ WellFormed(streams) /\ \A d \in Procs : d # c => pc[d] \notin Busy
    BY Zenon, <1>0, HolderFacts DEF Busy
  <2>2. writing \subseteq Running /\ Running' = Running /\ Current' = Current
    BY Zenon, <1>0, <2>0, ClearingFacts
  <2>3. /\ pc' \in [Procs -> Points] /\ pc'[c] = "idle" /\ (\A d \in Procs \ {c} : pc'[d] = pc[d])
        /\ next' \in [Callers -> [Backends -> 0..MaxStreams]] /\ mutex' \in Procs \cup {Free}
        /\ Exclusion' /\ pc'[Closer] # "done"
    BY Zenon, <1>0, <2>0, FinishFacts DEF Busy
  <2>4. Types'
    <3>1. todo' \in [Procs -> SUBSET Ids] /\ at' \in [Procs -> 0..MaxStreams]
      BY Zenon, <1>0, <2>0, <2>1, Constants DEF Types
    <3>2. QED
      BY Zenon, <2>0, <2>1, <2>2, <2>3, <3>1 DEF Types, TypeOK, Points
  <2>5. Plan'
    <3>1. WellFormed(streams)'
      BY Zenon, <2>0, <2>1, StreamsFrame
    <3>2. QED
      BY Zenon, <1>0, <2>0, <2>1, <3>1, HolderPlan DEF IInv, Points
  <2>6. Budget'
    BY Zenon, <1>0, <2>0, <2>1, HolderBudget DEF IInv, Budget, Points
  <2>7. Ownership'
    BY <2>0, <2>2, <2>3 DEF IInv, Ownership
  <2>8. Found'
    BY Zenon, <2>0, FoundFrame DEF IInv
  <2>9. QED
    BY Zenon, <2>3, <2>4, <2>5, <2>6, <2>7, <2>8 DEF IInv
<1>3. QED
  BY Zenon, <1>1, <1>2 DEF Clear

LEMMA PublishIInv == ASSUME IInv, NEW c \in Callers, Publish(c) PROVE IInv'
<1>0. /\ c \in Procs /\ c # Closer /\ pc[c] = "retire" /\ todo[c] = {} /\ Goto(c, "start") /\ streams' = next[c]
      /\ UNCHANGED <<closed, mutex, inst, life, valid, writing, index, made, calls>>
      /\ UNCHANGED <<seen, next, todo, at, look, sel, found>>
  BY Zenon DEF Publish, Procs, obj, lookup
<1>1. /\ Types /\ mutex = c /\ Retiring(c) /\ NextOf(c) = StreamsOf(next[c])
      /\ (\A d \in Procs : d # c => pc[d] \notin Busy) /\ pc[Closer] # "done"
  BY Zenon, <1>0, HolderFacts DEF IInv, Plan, Busy, NextOf
<1>2. pc' \in [Procs -> Points] /\ pc'[c] = "start" /\ \A d \in Procs \ {c} : pc'[d] = pc[d]
  BY Zenon, <1>0, <1>1, GotoType DEF Points
<1>3. Running' = Running /\ Current' = NextOf(c)
  BY Zenon, <1>0, <1>1 DEF Running, Current, StreamsOf
<1>4. Types'
  <2>1. streams' \in [Backends -> 0..MaxStreams]
    BY Zenon, <1>0, <1>1 DEF Types
  <2>2. QED
    BY Zenon, <1>0, <1>1, <1>2, <1>3, <2>1 DEF Types, TypeOK, Points
<1>5. pc'[Closer] = pc[Closer] /\ Closer \in Procs
  BY Zenon, <1>0, <1>2 DEF Procs
<1>6. Exclusion'
  <2>1. \A d \in Procs : pc'[d] \in Busy <=> mutex' = d
    BY Zenon, <1>0, <1>1, HolderStep DEF IInv, Points, Busy
  <2>2. QED
    BY Zenon, <1>0, <1>5, <2>1 DEF IInv, Exclusion
<1>7. Plan'
  <2>1. WellFormed(streams)'
    BY <1>0, <1>1 DEF Retiring, WellFormed, StreamsOf
  <2>2. QED
    BY Zenon, <1>0, <1>1, <2>1, HolderPlan DEF IInv, Points
<1>8. Budget'
  BY Zenon, <1>0, <1>1, HolderBudget DEF IInv, Budget, Points
<1>9. Ownership'
  <2>1. \A s \in Current : s \in NextOf(c) \/ (life[s] = "closed" /\ \A p \in Pods : s \notin index[p])
    BY Zenon, <1>0, <1>1 DEF Retiring
  <2>2. Running \subseteq NextOf(c)
    BY Zenon, <2>1 DEF IInv, Ownership, Running
  <2>3. writing \subseteq Running
    BY Zenon, <1>0, <1>1 DEF IInv, Ownership, Busy
  <2>4. \A p \in Pods : \A s \in index[p] : s \in NextOf(c) /\ inst[s].pod = p /\ life[s] # "none"
    BY Zenon, <2>1 DEF IInv, Ownership
  <2>5. QED
    BY <1>0, <1>1, <1>3, <1>5, <2>2, <2>3, <2>4 DEF Ownership
<1>10. Found'
  BY Zenon, <1>0, FoundFrame DEF IInv
<1>11. QED
  BY Zenon, <1>4, <1>6, <1>7, <1>8, <1>9, <1>10 DEF IInv

LEMMA StartIInv == ASSUME IInv, NEW c \in Callers, Start(c) PROVE IInv'
<1>0. /\ c \in Procs /\ pc[c] = "start" /\ Finish(c) /\ mutex' = Free /\ Goto(c, "idle")
      /\ life' = [s \in Ids |-> IF s \in Current /\ life[s] = "none" THEN "started" ELSE life[s]]
      /\ UNCHANGED <<streams, closed, inst, valid, writing, index, made, calls>>
      /\ UNCHANGED <<seen, todo, at, look, sel, found>>
  BY Zenon DEF Start, Procs, Finish, lookup
<1>1. /\ Types /\ mutex = c /\ WellFormed(streams) /\ Current \subseteq Ids
      /\ (\A s \in Ids : s > made => s \notin Current)
      /\ \A d \in Procs : pc[d] # "clear"
  BY Zenon, <1>0, HolderFacts DEF Busy
<1>2. /\ pc' \in [Procs -> Points] /\ pc'[c] = "idle" /\ (\A d \in Procs \ {c} : pc'[d] = pc[d])
      /\ next' \in [Callers -> [Backends -> 0..MaxStreams]] /\ mutex' \in Procs \cup {Free}
      /\ Exclusion' /\ pc'[Closer] # "done"
  BY Zenon, <1>0, FinishFacts DEF Busy
<1>3. /\ life \in [Ids -> {"none", "started", "closed"}] /\ life' \in [Ids -> {"none", "started", "closed"}]
      /\ \A s \in Ids : life'[s] # life[s] => life[s] = "none" /\ life'[s] = "started" /\ s \in Current
  BY Zenon, <1>0, <1>1 DEF Types, TypeOK
<1>4. Running \subseteq Running' /\ Running' \subseteq Current /\ Current' = Current
  BY <1>0, <1>3 DEF Running, Current, IInv, Ownership
<1>5. Types'
  BY Zenon, <1>0, <1>1, <1>2, <1>3, <1>4 DEF Types, TypeOK, Points
<1>6. Plan'
  <2>1. WellFormed(streams)'
    BY Zenon, <1>0, <1>1, StreamsFrame
  <2>2. QED
    BY Zenon, <1>0, <1>1, <2>1, HolderPlan DEF IInv, Points
<1>7. Budget'
  <2>1. \A s \in Ids : s > made => life'[s] = "none"
    BY Zenon, <1>1, <1>3 DEF IInv, Budget
  <2>2. QED
    BY Zenon, <1>0, <1>1, <2>1, HolderBudget DEF IInv, Points
<1>8. Ownership'
  <2>1. writing \subseteq Running
    BY Zenon, <1>1 DEF IInv, Ownership
  <2>2. \A p \in Pods : \A s \in index[p] : s \in Current /\ inst[s].pod = p /\ life'[s] # "none"
    BY <1>1, <1>3 DEF IInv, Ownership
  <2>3. QED
    BY Zenon, <1>0, <1>2, <1>4, <2>1, <2>2 DEF Ownership
<1>9. Found'
  <2>1. \A b \in Backends : sel[b] # None => sel[b] \in Ids /\ life'[sel[b]] = life[sel[b]]
    BY Zenon, <1>1, <1>3, Constants DEF Types, IInv, Found
  <2>2. QED
    BY Zenon, <1>0, <2>1 DEF IInv, Found
<1>10. QED
  BY Zenon, <1>2, <1>5, <1>6, <1>7, <1>8, <1>9 DEF IInv

-----------------------------------------------------------------------------
(* Lock: streamSnapshot and reconcileChanges.                              *)

\* newEventStream gives every added instance a stream of its own.
LEMMA NewStreamsFacts ==
  ASSUME made \in Nat, NEW A, IsFiniteSet(A)
  PROVE  /\ Cardinality(A) \in Nat /\ NewStreams(A) \in [A -> (made + 1)..(made + Cardinality(A))]
         /\ \A i, j \in A : NewStreams(A)[i] = NewStreams(A)[j] => i = j
<1> DEFINE T == (made + 1)..(made + Cardinality(A))
<1>1. Cardinality(A) \in Nat
  BY Zenon, FS_CardinalityType
<1>2. IsFiniteSet(T) /\ Cardinality(T) = Cardinality(A)
  <2>1. ASSUME NEW k \in Nat, NEW n \in Nat
        PROVE  IsFiniteSet((k + 1)..(k + n)) /\ Cardinality((k + 1)..(k + n)) = n
    <3>1. k + 1 \in Int /\ k + n \in Int
      OBVIOUS
    <3>2. /\ IsFiniteSet((k + 1)..(k + n))
          /\ Cardinality((k + 1)..(k + n)) = IF k + 1 > k + n THEN 0 ELSE (k + n) - (k + 1) + 1
      BY Zenon, <3>1, FS_Interval
    <3>3. QED
      BY <3>2
  <2>2. QED
    BY Zenon, <1>1, <2>1
<1>3. ExistsBijection(A, T)
  BY Zenon, <1>2, FS_SameCardinalityBij
<1>4. \E f \in [A -> T] : \A i, j \in A : f[i] = f[j] => i = j
  BY Zenon, <1>3 DEF ExistsBijection, Bijection, Injection, IsInjective
<1>5. QED
  BY Zenon, <1>1, <1>4 DEF NewStreams

\* Products are monotonic.
LEMMA Monotone == ASSUME NEW j \in Nat, NEW k \in Nat, NEW m \in Nat, j <= k PROVE j * m <= k * m
<1>1. PICK d \in Nat : k = j + d
  <2>1. k - j \in Nat /\ k = j + (k - j)
    OBVIOUS
  <2>2. QED
    BY Zenon, <2>1
<1>2. k * m = j * m + d * m /\ d * m \in Nat /\ j * m \in Nat
  BY <1>1
<1>3. QED
  BY <1>2

\* The budget when a waiting call gets the lock.
LEMMA LockBudget ==
  ASSUME IInv, NEW c \in Callers, pc[c] = "lock", NEW place \in Points \ {"lock"}, Goto(c, place),
         NEW n \in 0..MaxInstances
  PROVE  /\ Waiting' = Waiting \ {c} /\ Cardinality(Waiting') <= calls
         /\ made + n <= (calls - Cardinality(Waiting')) * MaxInstances
         /\ made + n \in 0..MaxStreams /\ made \in Nat
         /\ seen[c] \in Memberships /\ Validated(seen[c])
<1>1. c \in Waiting /\ c \in Procs /\ Types /\ Budget
  BY Zenon DEF Waiting, Procs, IInv
<1>2. /\ Cardinality(Waiting) \in Nat /\ Cardinality(Waiting') = Cardinality(Waiting) - 1
      /\ Waiting' = Waiting \ {c}
  BY Zenon, <1>1, WaitingMoves
<1>3. calls \in Nat /\ made \in Nat /\ MaxInstances \in Nat /\ MaxCalls \in Nat /\ calls <= MaxCalls /\ n \in Nat
      /\ n <= MaxInstances
  BY <1>1, Constants DEF Types
<1>4. Waiting # {} /\ IsFiniteSet(Waiting)
  BY Zenon, <1>1, WaitingMoves
<1>5. Cardinality(Waiting) # 0
  BY Zenon, <1>4, FS_EmptySet
<1>6. PICK k \in Nat : k = calls - Cardinality(Waiting)
  BY <1>1, <1>2, <1>3 DEF Budget
<1>7. calls - Cardinality(Waiting') = k + 1 /\ k + 1 <= MaxCalls /\ Cardinality(Waiting') <= calls
  BY <1>2, <1>3, <1>5, <1>6
<1>8. made <= k * MaxInstances
  BY Zenon, <1>1, <1>6 DEF Budget
<1>9. made + n <= (k + 1) * MaxInstances /\ (k + 1) * MaxInstances \in Nat
  BY <1>3, <1>8, OneMore
<1>10. (k + 1) * MaxInstances <= MaxStreams
  BY <1>3, <1>7, Monotone DEF MaxStreams
<1>11. made + n \in 0..MaxStreams
  BY <1>3, <1>9, <1>10, Constants
<1>12. QED
  BY Zenon, <1>1, <1>2, <1>3, <1>7, <1>9, <1>11 DEF Budget
LEMMA LockIInv == ASSUME IInv, NEW c \in Callers, Lock(c) PROVE IInv'
<1>0. /\ c \in Procs /\ c # Closer /\ pc[c] = "lock" /\ mutex = Free /\ seen' = [seen EXCEPT ![c] = {}]
      /\ Types /\ UNCHANGED <<streams, closed, life, valid, writing, index, calls, at, look, sel, found>>
  BY Zenon, Constants DEF Lock, Procs, lookup, IInv
<1>1. seen' \in [Callers -> SUBSET Instances] /\ \A d \in Callers \ {c} : seen'[d] = seen[d]
  BY Zenon, <1>0 DEF Types
<1>2. Running' = Running /\ Current' = Current /\ Found'
  BY Zenon, <1>0, FoundFrame DEF Running, Current, IInv
<1>3. Current \subseteq Ids /\ Current = StreamsOf(streams) /\ WellFormed(streams)
  BY Zenon, <1>0, StreamsOfType DEF Types, TypeOK, Current, StreamsOf, IInv, Plan
<1>4. \A d \in Procs : pc[d] \notin Busy
  BY Zenon, <1>0, Constants DEF IInv, Exclusion
<1>5. CASE closed
  <2>0. Goto(c, "idle") /\ UNCHANGED <<mutex, made, inst, next, todo>>
    BY Zenon, <1>5 DEF Lock
  <2>1. pc' \in [Procs -> Points] /\ pc'[c] = "idle" /\ \A d \in Procs \ {c} : pc'[d] = pc[d]
    BY Zenon, <1>0, <2>0, GotoType DEF Points
  <2>2. Types'
    BY Zenon, <1>0, <1>1, <1>2, <2>0, <2>1 DEF Types, TypeOK, Points
  <2>3. pc'[Closer] = pc[Closer] /\ Closer \in Procs
    BY Zenon, <1>0, <2>1 DEF Procs
  <2>4. Exclusion'
    <3>1. \A d \in Procs : pc'[d] \in Busy <=> mutex' = d
      BY Zenon, <1>0, <2>0, HolderStep DEF IInv, Points, Busy
    <3>2. QED
      BY Zenon, <1>0, <2>0, <2>3, <3>1 DEF IInv, Exclusion
  <2>5. Plan'
    <3>1. WellFormed(streams)'
      BY <1>0, <1>3, <2>0 DEF WellFormed, StreamsOf
    <3>2. QED
      BY Zenon, <1>0, <2>0, <3>1, HolderPlan DEF IInv, Points
  <2>6. Budget'
    <3>1. /\ Waiting' = Waiting \ {c} /\ Cardinality(Waiting') <= calls
          /\ made + 0 <= (calls - Cardinality(Waiting')) * MaxInstances /\ made \in Nat
      BY <1>0, <2>0, LockBudget, Constants DEF Points
    <3>2. \A d \in Waiting' : seen'[d] \in Memberships /\ Validated(seen'[d])
      BY Zenon, <1>1, <3>1 DEF IInv, Budget, Waiting
    <3>3. QED
      BY <1>0, <2>0, <3>1, <3>2 DEF IInv, Budget, Validated, Memberships
  <2>7. Ownership'
    BY <1>0, <1>2, <1>4, <2>0, <2>1, <2>3 DEF IInv, Ownership, Busy
  <2>8. QED
    BY Zenon, <1>2, <2>2, <2>4, <2>5, <2>6, <2>7 DEF IInv
<1>6. CASE ~closed
  <2> DEFINE D == seen[c]
             A == Added(D)
             n == Cardinality(A)
             new == NewStreams(A)
             kept == {streams[i.backend] : i \in Kept(D)}
             map == next'[c]
  <2>0. mutex' = c /\ Goto(c, "retire") /\ made' = made + n
    BY Zenon, <1>6 DEF Lock
  <2>a. /\ todo' = [todo EXCEPT ![c] = Current \ kept]
        /\ next' = [next EXCEPT ![c] = [b \in Backends |->
             IF \E i \in D : i.backend = b
             THEN LET i == CHOOSE i \in D : i.backend = b
                  IN  IF i \in A THEN new[i] ELSE streams[b]
             ELSE None]]
        /\ inst' = [s \in Ids |-> IF \E i \in A : new[i] = s
                                   THEN CHOOSE i \in A : new[i] = s ELSE inst[s]]
    BY Zenon, <1>6 DEF Lock
  <2>1. pc' \in [Procs -> Points] /\ pc'[c] = "retire" /\ \A d \in Procs \ {c} : pc'[d] = pc[d]
    BY Zenon, <1>0, <2>0, GotoType DEF Points
  <2>2. D \in Memberships /\ Validated(D) /\ D \subseteq Instances /\ IsFiniteSet(D) /\ made \in Nat
    <3>1. D \in Memberships /\ Validated(D) /\ D \in SUBSET Instances /\ made \in Nat
      BY <1>0, <2>0, LockBudget, Constants DEF Points, Memberships
    <3>2. IsFiniteSet(D)
      BY Zenon, <3>1, FS_Subset, ServiceConstants DEF ServiceConstants
    <3>3. QED
      BY Zenon, <3>1, <3>2
  <2>3. IsFiniteSet(A) /\ A \subseteq D /\ n \in 0..MaxInstances /\ Cardinality(D) \in Nat
    <3>1. A \in SUBSET D
      BY Zenon DEF Added
    <3>2. IsFiniteSet(A) /\ n <= Cardinality(D) /\ n \in Nat /\ Cardinality(D) \in Nat
      BY Zenon, <2>2, <3>1, FS_Subset, FS_CardinalityType
    <3>3. Cardinality(D) <= MaxInstances
      BY Zenon, <2>2 DEF Validated
    <3>4. QED
      BY <3>1, <3>2, <3>3, Constants
  <2>4. new \in [A -> (made + 1)..(made + n)] /\ \A i, j \in A : new[i] = new[j] => i = j
    BY Zenon, <2>2, <2>3, NewStreamsFacts
  <2>5. /\ Waiting' = Waiting \ {c} /\ Cardinality(Waiting') <= calls
        /\ made' <= (calls - Cardinality(Waiting')) * MaxInstances /\ made' \in 0..MaxStreams
    BY Zenon, <1>0, <2>0, <2>3, LockBudget DEF Points
  <2>6. \A i \in A : new[i] \in Ids /\ new[i] > made /\ new[i] <= made' /\ new[i] \notin Current
                   /\ life[new[i]] = "none"
    <3>1. \A i \in A : new[i] \in Ids /\ new[i] > made /\ new[i] <= made'
      BY <2>0, <2>2, <2>3, <2>4, <2>5, Constants DEF Ids
    <3>2. Current \subseteq 1..made
      BY Zenon, <1>3 DEF WellFormed
    <3>3. \A k \in 1..made : ~(k > made)
      BY <2>2
    <3>4. \A i \in A : new[i] \notin Current
      BY Zenon, <3>1, <3>2, <3>3
    <3>5. \A i \in A : life[new[i]] = "none"
      BY Zenon, <3>1 DEF IInv, Budget
    <3>6. QED
      BY Zenon, <3>1, <3>4, <3>5
  <2>7. /\ inst' \in [Ids -> Instances] /\ (\A i \in A : inst'[new[i]] = i)
        /\ \A s \in Current : inst'[s] = inst[s]
    <3>1. \A s \in Ids : (\E i \in A : new[i] = s) =>
            /\ (CHOOSE i \in A : new[i] = s) \in A
            /\ new[CHOOSE i \in A : new[i] = s] = s
      BY Zenon
    <3>2. inst \in [Ids -> Instances] /\ A \subseteq Instances
      BY Zenon, <1>0, <2>2, <2>3 DEF Types, TypeOK
    <3>3. inst' \in [Ids -> Instances]
      BY Zenon, <2>a, <3>1, <3>2
    <3>4. ASSUME NEW i \in A PROVE inst'[new[i]] = i
      BY Zenon, <2>a, <2>4, <2>6, <3>1
    <3>5. ASSUME NEW s \in Current PROVE inst'[s] = inst[s]
      <4>1. s \in Ids /\ ~\E i \in A : new[i] = s
        BY Zenon, <1>3, <2>6
      <4>2. QED
        BY Zenon, <2>a, <4>1
    <3>6. QED
      BY Zenon, <3>3, <3>4, <3>5
  <2>8. /\ \A i \in D \ A : /\ streams[i.backend] \in Current /\ inst[streams[i.backend]] = i
                            /\ streams[i.backend] \in kept
        /\ \A i \in D : i.backend \in Backends
        /\ \A i \in Kept(D) : i \in D \ A
    <3>1. D \ A = Kept(D)
      BY Zenon DEF Added, Kept
    <3>2. \A i \in D : i.backend \in Backends
      BY Zenon, <2>2, Constants
    <3>3. QED
      BY Zenon, <3>1, <3>2 DEF Kept, Current
  <2>9. /\ \A i \in D : map[i.backend] = IF i \in A THEN new[i] ELSE streams[i.backend]
        /\ \A b \in Backends : (~\E i \in D : i.backend = b) => map[b] = None
        /\ \A d \in Callers \ {c} : next'[d] = next[d]
    <3>1. map = [b \in Backends |->
             IF \E i \in D : i.backend = b
             THEN LET i == CHOOSE i \in D : i.backend = b
                  IN  IF i \in A THEN new[i] ELSE streams[b]
             ELSE None]
      BY Zenon, <1>0, <2>a DEF Types
    <3>2. ASSUME NEW i \in D PROVE map[i.backend] = IF i \in A THEN new[i] ELSE streams[i.backend]
      <4>1. (CHOOSE j \in D : j.backend = i.backend) = i
        BY Zenon, <2>2 DEF Memberships
      <4>2. QED
        BY <2>8, <3>1, <4>1
    <3>3. QED
      BY Zenon, <1>0, <2>a, <3>1, <3>2 DEF Types
  <2>10. \A i \in D : map[i.backend] \in Ids /\ inst'[map[i.backend]] = i /\ map[i.backend] # None
                    /\ map[i.backend] \in 1..made'
    <3>1. \A i \in D \ A : streams[i.backend] \in Ids /\ streams[i.backend] \in 1..made
      BY Zenon, <1>3, <2>8 DEF WellFormed
    <3>2. 1..made \subseteq 1..made'
      BY <2>0, <2>2, <2>3
    <3>3. \A i \in D \ A : map[i.backend] \in Ids /\ inst'[map[i.backend]] = i /\ map[i.backend] \in 1..made'
      BY Zenon, <2>7, <2>8, <2>9, <3>1, <3>2
    <3>4. \A k \in Ids : k <= made' => k \in 1..made'
      BY <2>5 DEF Ids
    <3>5. \A i \in A : map[i.backend] \in Ids /\ inst'[map[i.backend]] = i /\ map[i.backend] \in 1..made'
      BY Zenon, <2>3, <2>6, <2>7, <2>9, <3>4
    <3>6. QED
      BY Zenon, <3>3, <3>5, Constants
  <2>11. /\ next' \in [Callers -> [Backends -> 0..MaxStreams]]
         /\ \A s \in StreamsOf(map) : \E i \in D : s = map[i.backend]
    <3>1. \A b \in Backends : map[b] \in 0..MaxStreams /\ (map[b] # None => \E i \in D : i.backend = b)
      BY Zenon, <2>9, <2>10, Constants
    <3>2. \A s \in StreamsOf(map) : \E i \in D : s = map[i.backend]
      BY Zenon, <3>1 DEF StreamsOf
    <3>3. map \in [Backends -> 0..MaxStreams]
      <4>1. next \in [Callers -> [Backends -> 0..MaxStreams]]
        BY Zenon, <1>0 DEF Types
      <4>2. map = [b \in Backends |-> map[b]]
        BY Zenon, <2>a, <4>1
      <4>3. QED
        BY Zenon, <3>1, <4>2
    <3>4. QED
      BY Zenon, <1>0, <2>a, <3>2, <3>3 DEF Types
  <2>12. WellFormed(next[c])'
    <3>1. StreamsOf(map) \subseteq 1..made'
      BY Zenon, <2>10, <2>11
    <3>2. ASSUME NEW b \in Backends, map[b] # None PROVE inst'[map[b]].backend = b
      <4>1. PICK i \in D : i.backend = b
        BY Zenon, <2>9, <3>2
      <4>2. QED
        BY Zenon, <2>10, <4>1
    <3>3. ASSUME NEW s \in StreamsOf(map), NEW t \in StreamsOf(map), inst'[s].pod = inst'[t].pod
          PROVE  s = t
      <4>1. PICK i \in D : s = map[i.backend]
        BY Zenon, <2>11
      <4>2. PICK j \in D : t = map[j.backend]
        BY Zenon, <2>11
      <4>3. i.pod = j.pod
        BY Zenon, <2>10, <3>3, <4>1, <4>2
      <4>4. QED
        BY Zenon, <2>2, <4>1, <4>2, <4>3 DEF Validated
    <3>4. Cardinality(StreamsOf(map)) <= MaxInstances
      <4> DEFINE f == [i \in D |-> map[i.backend]]
      <4>1. f \in [D -> StreamsOf(map)]
        BY Zenon, <2>8, <2>10 DEF StreamsOf
      <4>2. f \in Surjection(D, StreamsOf(map))
        BY Zenon, <2>11, <4>1 DEF Surjection
      <4>3. IsFiniteSet(StreamsOf(map)) /\ Cardinality(StreamsOf(map)) <= Cardinality(D)
        BY Zenon, <2>2, <4>2, FS_Surjection
      <4>4. Cardinality(StreamsOf(map)) \in Nat /\ Cardinality(D) <= MaxInstances
        BY Zenon, <2>2, <4>3, FS_CardinalityType DEF Validated
      <4>5. QED
        BY <2>3, <4>3, <4>4, Constants
    <3>5. StreamsOf(next[c])' = StreamsOf(map)
      BY Zenon DEF StreamsOf
    <3>6. QED
      BY Zenon, <3>1, <3>2, <3>3, <3>4, <3>5 DEF WellFormed
  <2>13. Retiring(c)'
    <3>1. todo'[c] = Current \ kept
      BY Zenon, <1>0, <2>a DEF Types
    <3>2. NextOf(c)' = StreamsOf(map)
      BY Zenon, <1>0 DEF NextOf, StreamsOf
    <3>3. ASSUME NEW s \in StreamsOf(map)
          PROVE  s \in kept \/ (s \notin Current /\ life[s] = "none")
      <4>1. PICK i \in D : s = map[i.backend]
        BY Zenon, <2>11
      <4>2. i \in A => s = new[i] /\ s \notin Current /\ life[s] = "none"
        BY Zenon, <2>6, <2>9, <4>1
      <4>3. i \notin A => s \in kept
        BY Zenon, <2>8, <2>9, <4>1
      <4>4. QED
        BY Zenon, <4>2, <4>3
    <3>4. kept \subseteq StreamsOf(map) /\ kept \subseteq Current
      <4>1. ASSUME NEW i \in Kept(D) PROVE streams[i.backend] \in StreamsOf(map) /\ streams[i.backend] \in Current
        <5>1. i \in D /\ i \notin A /\ map[i.backend] = streams[i.backend] /\ map[i.backend] # None
          BY Zenon, <2>8, <2>9, <2>10
        <5>2. QED
          BY Zenon, <2>8, <5>1 DEF StreamsOf
      <4>2. QED
        BY Zenon, <4>1
    <3>5. QED
      BY <1>0, <1>2, <2>1, <2>12, <3>1, <3>2, <3>3, <3>4 DEF Retiring
  <2>14. Plan'
    <3>1. WellFormed(streams)'
      <4>1. StreamsOf(streams)' = Current /\ \A b \in Backends : streams[b] # None => streams[b] \in Current
        BY Zenon, <1>0, <1>3 DEF StreamsOf
      <4>2. 1..made \subseteq 1..made'
        BY <2>0, <2>2, <2>3
      <4>3. QED
        BY <1>0, <1>3, <2>7, <4>1, <4>2 DEF WellFormed
    <3>2. QED
      BY Zenon, <1>0, <2>0, <2>13, <3>1, HolderPlan DEF IInv, Points
  <2>15. Types'
    <3>1. todo' \in [Procs -> SUBSET Ids]
      BY Zenon, <1>0, <1>3, <2>a DEF Types
    <3>2. mutex' \in Procs \cup {Free}
      BY Zenon, <1>0, <2>0
    <3>3. QED
      BY Zenon, <1>0, <1>1, <1>2, <2>1, <2>5, <2>7, <2>11, <3>1, <3>2 DEF Types, TypeOK, Points
  <2>16. pc'[Closer] = pc[Closer] /\ Closer \in Procs
    BY Zenon, <1>0, <2>1 DEF Procs
  <2>17. Exclusion'
    <3>1. \A d \in Procs : pc'[d] \in Busy <=> mutex' = d
      BY Zenon, <1>0, <2>0, HolderStep DEF IInv, Points, Busy
    <3>2. QED
      BY Zenon, <1>0, <1>6, <2>16, <3>1 DEF IInv, Exclusion
  <2>18. Budget'
    <3>1. \A d \in Waiting' : seen'[d] \in Memberships /\ Validated(seen'[d])
      BY Zenon, <1>1, <2>5 DEF IInv, Budget, Waiting
    <3>2. \A s \in Ids : s > made' => life'[s] = "none"
      <4>1. \A s \in Ids : s > made' => s > made
        BY <2>0, <2>2, <2>3, Constants DEF Ids
      <4>2. QED
        BY Zenon, <1>0, <4>1 DEF IInv, Budget
    <3>3. QED
      BY Zenon, <1>0, <2>5, <3>1, <3>2 DEF Budget, Validated, Memberships
  <2>19. Ownership'
    <3>1. writing \subseteq Running
      BY Zenon, <1>4 DEF IInv, Ownership, Busy
    <3>2. \A p \in Pods : \A s \in index[p] : s \in Current /\ inst'[s].pod = p /\ life[s] # "none"
      BY <2>7 DEF IInv, Ownership
    <3>3. QED
      BY <1>0, <1>2, <2>16, <3>1, <3>2 DEF IInv, Ownership
  <2>20. QED
    BY Zenon, <1>2, <2>14, <2>15, <2>17, <2>18, <2>19 DEF IInv
<1>7. QED
  BY Zenon, <1>5, <1>6
-----------------------------------------------------------------------------
LEMMA NextIInv == IInv /\ [Next]_vars => IInv'
<1> SUFFICES ASSUME IInv, [Next]_vars PROVE IInv'
  BY Zenon
<1>1. CASE UNCHANGED vars
  <2>1. UNCHANGED <<streams, closed, mutex, inst, life, valid, writing, index, made, calls>>
        /\ UNCHANGED <<pc, seen, next, todo, at, look, sel, found>>
    BY Zenon, <1>1 DEF vars, obj, rec, lookup
  <2>2. Running' = Running
    BY Zenon, <2>1 DEF Running
  <2>3. Types'
    BY Zenon, <2>1, <2>2 DEF IInv, Types, TypeOK
  <2>4. Exclusion' /\ Plan' /\ Ownership' /\ Found'
    BY Zenon, <2>1, ExclusionFrame, PlanFrame, OwnershipFrame, FoundFrame DEF IInv
  <2>5. Budget'
    BY Zenon, <2>1, BudgetFrame DEF IInv
  <2>6. QED
    BY Zenon, <2>3, <2>4, <2>5 DEF IInv
<1>2. CASE CloseCall \/ CloseStep
  BY Zenon, <1>2, CloseCallIInv, CloseLockIInv, RetireIInv, CloseClearIInv, CloseReturnIInv DEF
     CloseStep, Procs
<1>3. ASSUME NEW c \in Callers, Call(c) \/ Reconcile(c) PROVE IInv'
  BY Zenon, <1>3, CallIInv, LockIInv, RetireIInv, ClearIInv, PublishIInv, StartIInv DEF
     Reconcile, Procs
<1>4. ASSUME NEW s \in Ids, BeginApply(s) \/ EndApply(s) \/ Turn(s) PROVE IInv'
  BY Zenon, <1>4, BeginApplyIInv, EndApplyIInv, TurnIInv
<1>5. CASE LookupInputs \/ LookupStore \/ LookupCurrent \/ LookupReturn
  BY Zenon, <1>5, LookupIInv
<1>6. QED
  BY Zenon, <1>1, <1>2, <1>3, <1>4, <1>5 DEF Next

\* At every moment of any number of concurrent Reconciles, a Close and failing
\* Clears, every running stream and every block of the index belongs to a
\* published stream, at most MaxInstances streams run, and none after Close.
THEOREM StreamsAreOwned == Spec => []NothingOrphaned
<1>1. IInv => NothingOrphaned
  <2> SUFFICES ASSUME IInv PROVE NothingOrphaned
    BY Zenon
  <2>1. /\ TypeOK /\ Running \subseteq Current /\ (\A p \in Pods : index[p] \subseteq Current)
        /\ pc[Closer] = "done" => Running = {}
    BY Zenon DEF IInv, Types, Ownership
  <2>2. /\ Current = StreamsOf(streams) /\ IsFiniteSet(Current)
        /\ Cardinality(Current) <= MaxInstances
    BY Zenon, <2>1, StreamsOfType DEF TypeOK, Current, StreamsOf, IInv, Plan, WellFormed
  <2>3. /\ IsFiniteSet(Running) /\ Cardinality(Running) <= Cardinality(Current)
    BY Zenon, <2>1, <2>2, FS_Subset
  <2>4. Cardinality(Running) <= MaxInstances
    BY <2>2, <2>3, FS_CardinalityType, Constants
  <2>5. QED
    BY Zenon, <2>1, <2>4 DEF NothingOrphaned
<1>2. QED
  BY <1>1, InitIInv, NextIInv, PTL DEF Spec

\* Reconcile stops and clears a stream before its successor under the same Pod
\* identifier starts, so the index never holds blocks of two incarnations.
THEOREM IncarnationsNeverMix == Spec => []OneWriterPerPod
<1>1. IInv => OneWriterPerPod
  <2> SUFFICES ASSUME IInv, NEW p \in Pods PROVE Cardinality(index[p]) <= 1
    BY Zenon DEF OneWriterPerPod
  <2>1. CASE index[p] = {}
    BY <2>1, FS_EmptySet
  <2>2. CASE index[p] # {}
    <3>1. PICK s \in index[p] : s \in Current /\ inst[s].pod = p
      BY Zenon, <2>2 DEF IInv, Ownership
    <3>2. index[p] = {s}
      BY <3>1, IndexIsOwn
    <3>3. Cardinality({s}) = 1
      BY Zenon, FS_Singleton
    <3>4. QED
      BY <3>2, <3>3
  <2>3. QED
    BY Zenon, <2>1, <2>2
<1>2. QED
  BY <1>1, InitIInv, NextIInv, PTL DEF Spec

\* A match that Lookup reports as valid for a backend holds only blocks of the
\* incarnation its second check confirmed, however many Reconciles ran between
\* the selection, the read of the index and that check.
THEOREM LookupIsCurrent == Spec => []NoOldInstanceHit
<1>1. IInv => NoOldInstanceHit
  <2> SUFFICES ASSUME IInv, NEW b \in Backends, Matched(b) PROVE found[b] \subseteq {sel[b]}
    BY Zenon DEF NoOldInstanceHit
  <2>1. sel[b] \in Ids /\ life[sel[b]] = "started" /\ look = "confirm"
    BY Zenon DEF Matched, IInv, Types, TypeOK, Running
  <2>2. QED
    BY Zenon, <2>1, Constants DEF IInv, Found
<1>2. QED
  BY <1>1, InitIInv, NextIInv, PTL DEF Spec
=============================================================================
