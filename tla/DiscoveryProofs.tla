-------------------------- MODULE DiscoveryProofs --------------------------
(***************************************************************************)
(* The staleness of the Pods that requests are routed to, for any slices,  *)
(* Pods, delays and number of changes at the API server.                   *)
(***************************************************************************)
EXTENDS Discovery, FiniteSetTheorems, TLAPS

States == [Slices -> SUBSET Pods]
Events == [slice : Slices \cup {""}, state : States]
Calls == [at : {"idle", "asked", "served"}, slices : States \cup {<<>>},
          version : Nat, time : 0..ListTimeout]
Watches == [at : {"down", "open", "wait", "refresh"}, cursor : Nat, time : Nat]
Reqs == [at : {"idle", "read"}, pod : Pods \cup {""}, age : 0..Cap,
         renewed : BOOLEAN, behind : BOOLEAN]

Types ==
  /\ api \in States /\ hist \in Seq(Events) /\ gone \in [Pods -> 0..Cap]
  /\ slices \in States /\ backends = ReadyPods(slices)
  /\ status \in {"ok", "degraded"} /\ ready \in 0..Cardinality(Pods) /\ age \in 0..Cap
  /\ call \in [Loops -> Calls] /\ watch \in Watches /\ req \in Reqs

\* A list in flight: when it was served, its Pods were Ready.
Lists ==
  \A l \in Loops : call[l].at = "served" =>
    /\ call[l].slices \in States /\ call[l].version \in 1..Len(hist)
    /\ \A p \in ReadyPods(call[l].slices) : gone[p] <= call[l].time

Versions == version \in 1..Len(hist) /\ (watch.at = "open" => watch.cursor \in 1..Len(hist))

\* The API server's history: it ends in the present, an event changes one slice,
\* and a Pod that was Ready is Ready still or was removed since.
History ==
  /\ Len(hist) > 0 /\ hist[Len(hist)].state = api
  /\ \A v \in 2..Len(hist) :
       /\ hist[v].slice \in Slices
       /\ \A n \in Slices : n # hist[v].slice => hist[v].state[n] = hist[v - 1].state[n]
  /\ \A p \in ReadyPods(api) : gone[p] = 0
  /\ \A v \in 1..Len(hist) : \A p \in ReadyPods(hist[v].state) :
       p \in ReadyPods(api) \/ RemovedAfter(p, v)

\* Where the watch stands, or will start.
Position == IF watch.at = "open" THEN watch.cursor ELSE version

\* Every Pod that is kept came with the last list, or its slice is the one at the
\* position of the watch.
Listed(p) == gone[p] <= age + ListTimeout
Provenance ==
  /\ \A n \in Slices : \A p \in slices[n] : Listed(p) \/ slices[n] = hist[Position].state[n]
  /\ version # Position => \A p \in backends : Listed(p)

\* The Pod that a request read, and the list it came with.
Membership ==
  req.at = "read" =>
    /\ req.pod \in Pods /\ (req.behind \/ gone[req.pod] <= req.age + ListTimeout)
    /\ req.renewed \/ req.age = age

IInv == Types /\ Lists /\ Versions /\ History /\ Provenance /\ Membership
-----------------------------------------------------------------------------
LEMMA Constants ==
  /\ IsFiniteSet(Pods) /\ Placed \in [Slices -> SUBSET Pods]
  /\ DiscoveryMaxAge \in Nat /\ ListTimeout \in Nat /\ StaleBound \in Nat
  /\ Cap \in Nat /\ Cap > StaleBound /\ StaleBound = DiscoveryMaxAge + ListTimeout
  BY DiscoveryConstants DEF DiscoveryConstants, StaleBound, Cap

LEMMA InReady ==
  ASSUME NEW s, NEW p
  PROVE  p \in ReadyPods(s) <=> \E n \in Slices : p \in s[n]
  BY Zenon DEF ReadyPods

LEMMA ReadyType ==
  ASSUME NEW s \in States
  PROVE  ReadyPods(s) \subseteq Pods /\ Cardinality(ReadyPods(s)) \in 0..Cardinality(Pods)
<1>1. ReadyPods(s) \subseteq Pods
  BY Zenon, InReady DEF States
<1>2. QED
  BY <1>1, Constants, FS_Subset, FS_CardinalityType

LEMMA PositionType == Types /\ Versions => Position \in 1..Len(hist) /\ Position \in Nat
  BY DEF Types, Versions, Position

LEMMA InitIInv == Init => IInv
<1> SUFFICES ASSUME Init PROVE IInv
  BY Zenon
<1>1. api \in States /\ slices = api /\ backends = ReadyPods(api)
  BY Zenon DEF Init, States
<1>2. hist \in Seq(Events) /\ Len(hist) = 1 /\ hist[1].state = api
  <2> DEFINE e == [slice |-> "", state |-> api]
  <2>1. e \in Events /\ hist = <<e>> /\ e.state = api
    BY Zenon, <1>1 DEF Init, Events
  <2> HIDE DEF e
  <2>2. QED
    BY <2>1
<1>3. gone \in [Pods -> 0..Cap] /\ \A p \in ReadyPods(api) : gone[p] = 0
  <2>1. Cap \in Nat /\ ReadyPods(api) \subseteq Pods
    BY <1>1, ReadyType, Constants
  <2>2. gone = [p \in Pods |-> IF p \in ReadyPods(api) THEN 0 ELSE Cap]
    BY Zenon DEF Init
  <2>3. QED
    BY <2>1, <2>2
<1>4. call \in [Loops -> Calls] /\ \A l \in Loops : call[l].at = "idle"
  <2>1. Idle \in Calls /\ Idle.at = "idle"
    BY Constants DEF Idle, Calls
  <2>2. call = [l \in Loops |-> Idle]
    BY Zenon DEF Init
  <2>3. QED
    BY Zenon, <2>1, <2>2
<1>5. watch \in Watches /\ watch.at = "down" /\ version = 1
  BY Zenon DEF Init, Watches
<1>6. ready \in 0..Cardinality(Pods) /\ age = 0 /\ age \in 0..Cap /\ status = "ok"
  <2>1. ready \in 0..Cardinality(Pods)
    BY Zenon, <1>1, ReadyType DEF Init
  <2>2. age = 0 /\ status = "ok"
    BY Zenon DEF Init
  <2>3. Cap \in Nat
    BY Constants
  <2>4. QED
    BY <2>1, <2>2, <2>3
<1>7. req \in Reqs /\ req.at = "idle"
  <2>1. req = NoRequest
    BY Zenon DEF Init
  <2>2. 0 \in 0..Cap
    BY Constants
  <2>3. QED
    BY Zenon, <2>1, <2>2 DEF NoRequest, Reqs
<1>8. Types /\ Membership
  BY Zenon, <1>1, <1>2, <1>3, <1>4, <1>5, <1>6, <1>7 DEF Types, Membership
<1>9. Lists /\ Versions
  BY <1>2, <1>4, <1>5 DEF Lists, Versions
<1>10. History
  BY <1>2, <1>3 DEF History
<1>11. Provenance
  BY Zenon, <1>1, <1>2, <1>5 DEF Provenance, Position
<1>12. QED
  BY Zenon, <1>8, <1>9, <1>10, <1>11 DEF IInv

-----------------------------------------------------------------------------
(* What a step that leaves a part of the state alone preserves.            *)

LEMMA HistoryFrame == ASSUME History, UNCHANGED <<api, hist, gone>> PROVE History'
  BY DEF History, RemovedAfter

LEMMA ListsFrame ==
  ASSUME Lists, UNCHANGED <<hist, gone>>,
         \A l \in Loops : call'[l].at = "served" => call'[l] = call[l]
  PROVE  Lists'
  BY Zenon DEF Lists

LEMMA MembershipFrame == ASSUME Membership, UNCHANGED <<gone, age, req>> PROVE Membership'
  BY Zenon DEF Membership

LEMMA ProvenanceFrame ==
  ASSUME Types, Provenance, UNCHANGED <<hist, gone, slices, version, backends, age>>,
         Position' \in {Position, version}
  PROVE  Provenance'
<1>1. \A p : Listed(p)' <=> Listed(p)
  BY Zenon DEF Listed
<1>2. CASE version = Position
  BY Zenon, <1>1, <1>2 DEF Provenance
<1>3. CASE version # Position
  <2>1. \A n \in Slices : \A p \in slices[n] : Listed(p)
    BY Zenon, <1>3, InReady DEF Provenance, Types
  <2>2. QED
    BY Zenon, <1>1, <1>3, <2>1 DEF Provenance
<1>4. QED
  BY Zenon, <1>2, <1>3

-----------------------------------------------------------------------------
LEMMA ApiChangeStep == IInv /\ ApiChange => IInv'
<1> SUFFICES ASSUME IInv, ApiChange PROVE IInv'
  BY Zenon
<1>1. PICK n \in Slices : \E c \in SUBSET Placed[n] :
        api' = [api EXCEPT ![n] = c] /\ hist' = Append(hist, [slice |-> n, state |-> api'])
  BY Zenon DEF ApiChange
<1>2. /\ UNCHANGED <<slices, version, backends, status, ready, age, call, watch, req>>
      /\ gone' = [p \in Pods |-> IF p \in ReadyPods(api) \cup ReadyPods(api') THEN 0 ELSE gone[p]]
  BY Zenon DEF ApiChange, resolver
<1>3. api' \in States /\ \A m \in Slices : m # n => api'[m] = api[m]
  <2>1. PICK c \in SUBSET Placed[n] : api' = [api EXCEPT ![n] = c]
    BY Zenon, <1>1
  <2>2. c \subseteq Pods /\ api \in [Slices -> SUBSET Pods]
    BY Zenon, Constants DEF IInv, Types, States
  <2>3. QED
    BY Zenon, <2>1, <2>2 DEF States
<1> DEFINE e == [slice |-> n, state |-> api']
<1>4. e \in Events /\ e.slice = n /\ e.state = api'
  BY Zenon, <1>3 DEF Events
<1>5. hist' = Append(hist, e) /\ hist \in Seq(Events)
  BY Zenon, <1>1 DEF IInv, Types
<1> HIDE DEF e
<1>6. /\ hist' \in Seq(Events) /\ Len(hist') = Len(hist) + 1 /\ hist'[Len(hist) + 1] = e
      /\ \A v \in 1..Len(hist) : hist'[v] = hist[v]
  BY <1>4, <1>5
<1>7. Len(hist) \in Nat /\ Len(hist) > 0 /\ hist[Len(hist)].state = api
  BY <1>5 DEF IInv, History
<1>8. \A p \in Pods : gone'[p] \in 0..Cap /\ gone'[p] <= gone[p]
  BY <1>2, Constants DEF IInv, Types
<1>9. gone' \in [Pods -> 0..Cap] /\ \A p \in ReadyPods(api') : p \in Pods /\ gone'[p] = 0
  BY Zenon, <1>2, <1>3, <1>8, ReadyType
<1>10. Types'
  BY Zenon, <1>2, <1>3, <1>6, <1>9 DEF IInv, Types
<1>11. Lists'
  <2>1. \A l \in Loops : call[l].at = "served" =>
          \A p \in ReadyPods(call[l].slices) : p \in Pods /\ gone'[p] <= call[l].time
    <3>1. \A l \in Loops : call[l].time \in Nat
      BY Constants DEF IInv, Types, Calls
    <3>2. \A p \in Pods : gone[p] \in Nat
      BY Constants DEF IInv, Types
    <3>3. QED
      BY <1>8, <3>1, <3>2, ReadyType DEF IInv, Lists
  <2>2. QED
    BY SMTT(30), <1>2, <1>6, <1>7, <2>1 DEF IInv, Lists
<1>12. Versions'
  BY <1>2, <1>6, <1>7 DEF IInv, Versions
<1>13. \A p, v : RemovedAfter(p, v) /\ v \in 1..Len(hist) => RemovedAfter(p, v)'
  <2> SUFFICES ASSUME NEW p, NEW v \in 1..Len(hist), RemovedAfter(p, v) PROVE RemovedAfter(p, v)'
    BY Zenon
  <2>1. PICK u \in v + 1..Len(hist) : p \in ReadyPods(hist[u - 1].state) \ ReadyPods(hist[u].state)
    BY Zenon DEF RemovedAfter
  <2>2. u \in 1..Len(hist) /\ u - 1 \in 1..Len(hist) /\ u \in v + 1..Len(hist')
    BY <1>6, <1>7
  <2>3. hist'[u] = hist[u] /\ hist'[u - 1] = hist[u - 1]
    BY Zenon, <1>6, <2>2
  <2>4. QED
    BY <2>1, <2>2, <2>3 DEF RemovedAfter, ReadyPods
<1>14. History'
  <2>1. Len(hist') > 0 /\ hist'[Len(hist')].state = api'
    BY <1>4, <1>6, <1>7
  <2>2. ASSUME NEW v \in 2..Len(hist')
        PROVE  /\ hist'[v].slice \in Slices
               /\ \A m \in Slices : m # hist'[v].slice => hist'[v].state[m] = hist'[v - 1].state[m]
    <3>1. CASE v \in 2..Len(hist)
      <4>1. v - 1 \in 1..Len(hist) /\ v \in 1..Len(hist)
        BY <1>7, <3>1
      <4>2. QED
        BY <1>6, <3>1, <4>1 DEF IInv, History
    <3>2. CASE v = Len(hist) + 1
      <4>1. hist'[v] = e /\ hist'[v - 1].state = api
        BY <1>6, <1>7, <3>2
      <4>2. QED
        BY Zenon, <1>3, <1>4, <4>1
    <3>3. QED
      BY <1>6, <1>7, <3>1, <3>2
  <2>3. ASSUME NEW v \in 1..Len(hist'), NEW p \in ReadyPods(hist'[v].state)
        PROVE  p \in ReadyPods(api') \/ RemovedAfter(p, v)'
    <3>1. CASE v = Len(hist) + 1
      BY Zenon, <1>4, <1>6, <2>3, <3>1
    <3>2. CASE v \in 1..Len(hist)
      <4>1. p \in ReadyPods(hist[v].state)
        BY Zenon, <1>6, <2>3, <3>2
      <4>2. CASE RemovedAfter(p, v)
        BY Zenon, <1>13, <3>2, <4>2
      <4>3. CASE p \in ReadyPods(api) /\ p \notin ReadyPods(api')
        <5>1. Len(hist) + 1 \in v + 1..Len(hist')
          BY <1>6, <1>7, <3>2
        <5>2. hist'[(Len(hist) + 1) - 1].state = api /\ hist'[Len(hist) + 1].state = api'
          BY <1>4, <1>6, <1>7
        <5>3. QED
          BY <4>3, <5>1, <5>2 DEF RemovedAfter, ReadyPods
      <4>4. QED
        BY Zenon, <3>2, <4>1, <4>2, <4>3 DEF IInv, History
    <3>3. QED
      BY <1>6, <1>7, <3>1, <3>2
  <2>4. QED
    BY Zenon, <1>9, <2>1, <2>2, <2>3 DEF History, ReadyPods
<1>15. Provenance'
  <2>1. Position' = Position /\ Position \in 1..Len(hist)
    BY Zenon, <1>2, PositionType DEF Position, IInv
  <2>2. hist'[Position] = hist[Position]
    BY Zenon, <1>6, <2>1
  <2>3. \A p \in Pods : Listed(p) => Listed(p)'
    <3>1. age \in Nat /\ ListTimeout \in Nat /\ \A p \in Pods : gone[p] \in Nat
      BY Constants DEF IInv, Types
    <3>2. QED
      BY <1>2, <1>8, <3>1 DEF Listed
  <2>4. (\A m \in Slices : slices[m] \subseteq Pods) /\ backends \subseteq Pods
    BY Zenon, ReadyType DEF IInv, Types, States
  <2>5. QED
    BY Zenon, <1>2, <2>1, <2>2, <2>3, <2>4 DEF IInv, Provenance
<1>16. Membership'
  <2>1. gone \in [Pods -> 0..Cap] /\ req.age \in 0..Cap
    BY Zenon DEF IInv, Types, Reqs
  <2>2. req.age \in Nat
    BY <2>1, Constants
  <2>3. QED
    BY <1>2, <1>8, <2>1, <2>2, Constants DEF IInv, Membership
<1>17. QED
  BY Zenon, <1>10, <1>11, <1>12, <1>14, <1>15, <1>16 DEF IInv

\* A step that touches neither the API server, nor time, nor what the resolver
\* keeps, and hands over no list.
LEMMA Control ==
  ASSUME IInv, call' \in [Loops -> Calls], watch' \in Watches,
         UNCHANGED <<api, hist, gone, slices, version, backends, age, req>>,
         status' \in {"ok", "degraded"}, ready' \in {ready, Cardinality(backends)},
         \A l \in Loops : call'[l].at = "served" => call'[l] = call[l],
         watch'.at = "open" => watch' = watch \/ watch'.cursor = version
  PROVE  IInv'
<1>1. Types'
  <2>1. ready' \in 0..Cardinality(Pods)
    BY Zenon, ReadyType DEF IInv, Types
  <2>2. QED
    BY Zenon, <2>1 DEF IInv, Types
<1>2. Lists' /\ History'
  BY Zenon, ListsFrame, HistoryFrame DEF IInv
<1>3. Versions'
  BY Zenon DEF IInv, Versions
<1>4. Provenance' /\ Membership'
  BY Zenon, ProvenanceFrame, MembershipFrame DEF IInv, Position
<1>5. QED
  BY Zenon, <1>1, <1>2, <1>3, <1>4 DEF IInv

\* A list is asked for.
LEMMA AskedFor ==
  ASSUME Types, NEW k \in Loops, call' = [call EXCEPT ![k].at = "asked", ![k].time = 0]
  PROVE  /\ call' \in [Loops -> Calls]
         /\ \A l \in Loops : call'[l].at = "served" => call'[l] = call[l]
<1> DEFINE c == [at |-> "asked", slices |-> call[k].slices, version |-> call[k].version, time |-> 0]
<1>1. call[k] \in Calls /\ 0 \in 0..ListTimeout
  BY Constants DEF Types
<1>2. c \in Calls /\ c.at = "asked"
  BY Zenon, <1>1 DEF Calls
<1>3. call'[k] = c
  BY Zenon, <1>1 DEF Calls, Types
<1>4. \A l \in Loops : l # k => call'[l] = call[l]
  BY Zenon DEF Types
<1>5. call' = [l \in Loops |-> call'[l]]
  BY Zenon DEF Types
<1> HIDE DEF c
<1>6. \A l \in Loops : call'[l] \in Calls
  BY Zenon, <1>2, <1>3, <1>4 DEF Types
<1>7. call' \in [Loops -> Calls]
  BY Zenon, <1>5, <1>6
<1>8. QED
  BY Zenon, <1>2, <1>3, <1>4, <1>7

LEMMA RefreshTickStep == IInv /\ RefreshTick => IInv'
<1> SUFFICES ASSUME IInv, RefreshTick PROVE IInv'
  BY Zenon
<1>1. call' \in [Loops -> Calls] /\ \A l \in Loops : call'[l].at = "served" => call'[l] = call[l]
  BY Zenon, AskedFor DEF IInv, RefreshTick, Loops
<1>2. watch' \in Watches /\ UNCHANGED <<api, hist, gone, slices, version, backends, age, watch, req>>
  BY Zenon DEF IInv, Types, RefreshTick, resolver
<1>3. status' \in {"ok", "degraded"} /\ ready' = ready
  BY Zenon DEF IInv, Types, RefreshTick, resolver
<1>4. QED
  BY Zenon, <1>1, <1>2, <1>3, Control

LEMMA ListFailsStep == ASSUME IInv, NEW l \in Loops, ListFails(l) PROVE IInv'
<1>1. call' \in [Loops -> Calls] /\ \A k \in Loops : call'[k].at = "served" => call'[k] = call[k]
  <2>1. Idle \in Calls /\ Idle.at = "idle"
    BY Constants DEF Idle, Calls
  <2>2. QED
    BY Zenon, <2>1 DEF IInv, Types, ListFails, Returned
<1>2. watch' \in Watches /\ (watch'.at = "open" => watch' = watch)
  BY Zenon DEF IInv, Types, ListFails, Returned, Watches
<1>3. /\ UNCHANGED <<api, hist, gone, slices, version, backends, age, req>>
      /\ status' \in {"ok", "degraded"} /\ ready' = Cardinality(backends)
  BY Zenon DEF ListFails, recordError
<1>4. QED
  BY Zenon, <1>1, <1>2, <1>3, Control

LEMMA WatchOpenStep == IInv /\ WatchOpen => IInv'
<1> SUFFICES ASSUME IInv, WatchOpen PROVE IInv'
  BY Zenon
<1>1. watch' \in Watches /\ watch'.cursor = version
  BY DEF IInv, Types, Versions, WatchOpen, Watches
<1>2. /\ UNCHANGED <<api, hist, gone, slices, version, backends, age, call, req>>
      /\ status' \in {"ok", "degraded"} /\ ready' = ready
  BY Zenon DEF IInv, Types, WatchOpen, resolver
<1>3. QED
  BY Zenon, <1>1, <1>2, Control DEF IInv, Types

LEMMA WatchClosedStep == IInv /\ WatchClosed => IInv'
<1> SUFFICES ASSUME IInv, WatchClosed PROVE IInv'
  BY Zenon
<1>1. watch' \in Watches /\ watch'.at = "wait"
  BY Zenon DEF WatchClosed, Watches
<1>2. /\ UNCHANGED <<api, hist, gone, slices, version, backends, age, call, req>>
      /\ status' \in {"ok", "degraded"} /\ ready' = Cardinality(backends)
  BY Zenon DEF WatchClosed, recordError
<1>3. QED
  BY Zenon, <1>1, <1>2, Control DEF IInv, Types

LEMMA WatchErrorStep == IInv /\ WatchError => IInv'
<1> SUFFICES ASSUME IInv, WatchError PROVE IInv'
  BY Zenon
<1>1. call' \in [Loops -> Calls] /\ \A l \in Loops : call'[l].at = "served" => call'[l] = call[l]
  BY Zenon, AskedFor DEF IInv, WatchError, Loops
<1>2. watch' \in Watches /\ watch'.at = "refresh"
  BY Zenon DEF WatchError, Watches
<1>3. /\ UNCHANGED <<api, hist, gone, slices, version, backends, age, req>>
      /\ status' \in {"ok", "degraded"} /\ ready' = Cardinality(backends)
  BY Zenon DEF WatchError, recordError
<1>4. QED
  BY Zenon, <1>1, <1>2, <1>3, Control

LEMMA WatchRetryStep == IInv /\ WatchRetry => IInv'
<1> SUFFICES ASSUME IInv, WatchRetry PROVE IInv'
  BY Zenon
<1>1. watch' \in Watches /\ watch'.at = "down"
  BY Zenon DEF WatchRetry, Watches
<1>2. /\ UNCHANGED <<api, hist, gone, slices, version, backends, age, call, req>>
      /\ status' \in {"ok", "degraded"} /\ ready' = ready
  BY Zenon DEF IInv, Types, WatchRetry, resolver
<1>3. QED
  BY Zenon, <1>1, <1>2, Control DEF IInv, Types

\* A list is answered with Pods that are Ready now.
LEMMA ServeStep == ASSUME IInv, NEW l \in Loops, Serve(l) PROVE IInv'
<1>1. UNCHANGED <<api, hist, gone, slices, version, backends, status, ready, age, watch, req>>
  BY Zenon DEF Serve, resolver
<1>2. /\ call'[l].slices = api /\ call'[l].version = Len(hist) /\ call'[l].time = call[l].time
      /\ \A k \in Loops : k # l => call'[k] = call[k]
  BY Zenon DEF Serve, IInv, Types, Calls
<1>3. /\ api \in States /\ Len(hist) \in Nat /\ Len(hist) > 0 /\ call[l].time \in Nat
      /\ \A p \in ReadyPods(api) : gone[p] = 0
  BY DEF IInv, Types, History, Calls
<1>4. Types'
  <2>1. call' \in [Loops -> Calls]
    BY Zenon, <1>3 DEF IInv, Types, Serve, Calls
  <2>2. QED
    BY Zenon, <1>1, <2>1 DEF IInv, Types
<1>5. Lists'
  BY <1>1, <1>2, <1>3 DEF IInv, Lists
<1>6. Versions' /\ History'
  BY Zenon, <1>1, HistoryFrame DEF IInv, Versions
<1>7. Provenance' /\ Membership'
  BY Zenon, <1>1, ProvenanceFrame, MembershipFrame DEF IInv, Position
<1>8. QED
  BY Zenon, <1>4, <1>5, <1>6, <1>7 DEF IInv

\* refresh applies a list: every Pod it keeps was Ready when the list was served.
LEMMA ReceiveStep == ASSUME IInv, NEW l \in Loops, Receive(l) PROVE IInv'
<1>1. call' \in [Loops -> Calls] /\ \A k \in Loops : call'[k].at = "served" => call'[k] = call[k]
  <2>1. Idle \in Calls /\ Idle.at = "idle"
    BY Constants DEF Idle, Calls
  <2>2. QED
    BY Zenon, <2>1 DEF IInv, Types, Receive, Returned
<1>2. watch' \in Watches /\ (watch'.at = "open" => watch' = watch)
  BY Zenon DEF IInv, Types, Receive, Returned, Watches
<1>3. UNCHANGED <<api, hist, gone>>
  BY Zenon DEF Receive
<1>4. CASE ReadyPods(call[l].slices) = {}
  <2>1. /\ UNCHANGED <<slices, version, backends, age, req>>
        /\ status' \in {"ok", "degraded"} /\ ready' = Cardinality(backends)
    BY Zenon, <1>4 DEF Receive, NoReadyAddress, recordError
  <2>2. QED
    BY Zenon, <1>1, <1>2, <1>3, <2>1, Control
<1>5. CASE ReadyPods(call[l].slices) # {}
  <2>1. /\ slices' = call[l].slices /\ version' = call[l].version
        /\ backends' = ReadyPods(slices') /\ status' = "ok" /\ age' = 0
        /\ ready' = Cardinality(backends')
        /\ req' = [req EXCEPT !.renewed = req.renewed \/ req.at = "read"]
    BY Zenon, <1>5 DEF Receive, Replace
  <2>2. /\ slices' \in States /\ version' \in 1..Len(hist)
        /\ \A p \in backends' : gone[p] <= call[l].time
    BY Zenon, <2>1 DEF IInv, Lists, Receive
  <2>3. Types'
    <3>1. ready' \in 0..Cardinality(Pods)
      BY Zenon, <2>1, <2>2, ReadyType
    <3>2. age' \in 0..Cap
      BY <2>1, Constants
    <3>3. req' \in Reqs
      BY Zenon, <2>1 DEF IInv, Types, Reqs
    <3>4. QED
      BY Zenon, <1>1, <1>2, <1>3, <2>1, <2>2, <3>1, <3>2, <3>3 DEF IInv, Types
  <2>4. Lists' /\ History'
    BY Zenon, <1>1, <1>3, ListsFrame, HistoryFrame DEF IInv
  <2>5. Versions'
    BY Zenon, <1>2, <1>3, <2>2 DEF IInv, Versions
  <2>6. Provenance'
    <3>1. \A p \in backends' : p \in Pods /\ gone[p] \in Nat
      BY <2>1, <2>2, ReadyType, Constants DEF IInv, Types
    <3>2. call[l].time \in Nat /\ call[l].time <= ListTimeout
      BY Constants DEF IInv, Types, Calls
    <3>3. \A p \in backends' : Listed(p)'
      <4>1. age' = 0 /\ gone' = gone
        BY Zenon, <1>3, <2>1
      <4>2. QED
        BY <2>2, <3>1, <3>2, <4>1, Constants DEF Listed
    <3>4. \A n \in Slices : \A p \in slices'[n] : Listed(p)'
      BY Zenon, <2>1, <3>3, InReady
    <3>5. QED
      BY Zenon, <3>3, <3>4 DEF Provenance
  <2>7. Membership'
    <3>1. /\ req'.at = req.at /\ req'.pod = req.pod /\ req'.age = req.age
          /\ req'.behind = req.behind /\ (req.at = "read" => req'.renewed)
      BY Zenon, <2>1 DEF IInv, Types, Reqs
    <3>2. QED
      BY Zenon, <1>3, <3>1 DEF IInv, Membership
  <2>8. QED
    BY Zenon, <2>3, <2>4, <2>5, <2>6, <2>7 DEF IInv
<1>6. QED
  BY Zenon, <1>4, <1>5

\* An event of the watch: the slice it changes becomes the one at its version, and
\* the others were already the same there.
LEMMA WatchEventStep == IInv /\ WatchEvent => IInv'
<1> SUFFICES ASSUME IInv, WatchEvent PROVE IInv'
  BY Zenon
<1>1. PICK c \in 1..Len(hist) : c = watch.cursor
  BY Zenon DEF WatchEvent, IInv, Versions
<1>2. PICK v \in 2..Len(hist) : v = c + 1
  BY <1>1 DEF WatchEvent, IInv, Types
<1>3. PICK s \in Slices : s = hist[v].slice
  BY Zenon, <1>2 DEF IInv, History
<1>4. /\ slices' = [slices EXCEPT ![s] = hist[v].state[s]] /\ backends' = ReadyPods(slices')
      /\ version' = v /\ watch' = [watch EXCEPT !.cursor = v]
      /\ UNCHANGED <<api, hist, gone, status, ready, age, call, req>>
  BY Zenon, <1>1, <1>2, <1>3 DEF WatchEvent, Rebuilt
<1>5. v \in 1..Len(hist) /\ v \in Nat /\ c = v - 1 /\ Len(hist) \in Nat
  BY <1>1, <1>2 DEF IInv, Types
<1>6. slices' \in States
  <2>1. hist[v].state \in States /\ slices \in States
    <3>1. hist[v] \in Events
      BY <1>5 DEF IInv, Types
    <3>2. QED
      BY Zenon, <3>1 DEF Events, IInv, Types
  <2>2. hist[v].state[s] \subseteq Pods
    BY Zenon, <2>1 DEF States
  <2>3. QED
    BY Zenon, <1>4, <2>1, <2>2 DEF States
<1>7. watch' \in Watches /\ watch'.at = "open" /\ watch'.cursor = v
  BY Zenon, <1>4, <1>5 DEF IInv, Types, Watches, WatchEvent
<1>8. Types'
  BY Zenon, <1>4, <1>6, <1>7 DEF IInv, Types
<1>9. Lists' /\ History' /\ Membership'
  BY Zenon, <1>4, ListsFrame, HistoryFrame, MembershipFrame DEF IInv
<1>10. Versions'
  BY Zenon, <1>4, <1>5, <1>7 DEF Versions
<1>11. Provenance'
  <2>1. Position' = v /\ version' = v /\ Position = c
    BY Zenon, <1>1, <1>4, <1>7 DEF Position, WatchEvent
  <2>2. \A n \in Slices : n # s => slices'[n] = slices[n] /\ hist[v].state[n] = hist[c].state[n]
    BY <1>2, <1>3, <1>4, <1>5 DEF IInv, Types, States, History
  <2>3. slices'[s] = hist[v].state[s]
    BY Zenon, <1>4 DEF IInv, Types, States
  <2>4. \A p : Listed(p)' <=> Listed(p)
    BY Zenon, <1>4 DEF Listed
  <2>5. \A n \in Slices : \A p \in slices'[n] : Listed(p)' \/ slices'[n] = hist'[v].state[n]
    BY <1>4, <2>1, <2>2, <2>3, <2>4 DEF IInv, Provenance
  <2>6. QED
    BY Zenon, <2>1, <2>5 DEF Provenance
<1>12. QED
  BY Zenon, <1>8, <1>9, <1>10, <1>11 DEF IInv

\* Time passes for the Pods, the lists in flight and the resolver alike.
LEMMA TickStep == IInv /\ Tick => IInv'
<1> SUFFICES ASSUME IInv, Tick PROVE IInv'
  BY Zenon
<1>1. /\ gone' = [p \in Pods |-> IF p \in ReadyPods(api) THEN 0 ELSE Older(gone[p])]
      /\ age' = Older(age) /\ UNCHANGED <<api, hist, slices, version, backends, status, ready>>
  BY Zenon DEF Tick
<1>2. Cap \in Nat /\ ListTimeout \in Nat
  BY Constants
<1>3. \A t \in 0..Cap : Older(t) \in 0..Cap /\ Older(t) <= t + 1 /\ (t < Cap => Older(t) = t + 1)
                        /\ (t = Cap => Older(t) = Cap)
  BY <1>2 DEF Older
<1>4. \A p \in Pods : gone[p] \in 0..Cap /\ gone'[p] \in 0..Cap /\ gone'[p] <= gone[p] + 1
  <2> SUFFICES ASSUME NEW p \in Pods
               PROVE  gone[p] \in 0..Cap /\ gone'[p] \in 0..Cap /\ gone'[p] <= gone[p] + 1
    BY Zenon
  <2>1. gone[p] \in 0..Cap
    BY Zenon DEF IInv, Types
  <2>2. gone'[p] = 0 \/ gone'[p] = Older(gone[p])
    BY Zenon, <1>1
  <2>3. QED
    BY <1>2, <1>3, <2>1, <2>2
<1>5. /\ age \in 0..Cap /\ age' \in 0..Cap /\ gone' \in [Pods -> 0..Cap]
      /\ \A p \in ReadyPods(api) : p \in Pods /\ gone'[p] = 0
  <2>1. age \in 0..Cap /\ age' \in 0..Cap
    BY Zenon, <1>1, <1>3 DEF IInv, Types
  <2>2. gone' \in [Pods -> 0..Cap]
    BY Zenon, <1>1, <1>4
  <2>3. \A p \in ReadyPods(api) : p \in Pods /\ gone'[p] = 0
    BY Zenon, <1>1, ReadyType DEF IInv, Types
  <2>4. QED
    BY Zenon, <2>1, <2>2, <2>3
<1>6. ASSUME NEW l \in Loops
      PROVE  /\ call'[l] \in Calls /\ call'[l].at = call[l].at
             /\ call'[l].slices = call[l].slices /\ call'[l].version = call[l].version
             /\ call[l].time \in Nat /\ (call[l].at # "idle" => call'[l].time = call[l].time + 1)
  <2>1. call[l] \in Calls
    BY Zenon DEF IInv, Types
  <2>2. CASE call[l].at = "idle"
    <3>1. call'[l] = call[l]
      BY Zenon, <2>2 DEF Tick
    <3>2. QED
      BY <1>2, <2>1, <2>2, <3>1 DEF Calls
  <2>3. CASE call[l].at # "idle"
    <3>1. call'[l] = [call[l] EXCEPT !.time = call[l].time + 1] /\ call[l].time < ListTimeout
      BY Zenon, <2>3 DEF Tick
    <3>2. call[l].time + 1 \in 0..ListTimeout
      BY <1>2, <2>1, <3>1 DEF Calls
    <3>3. QED
      BY <1>2, <2>1, <2>3, <3>1, <3>2 DEF Calls
  <2>4. QED
    BY Zenon, <2>2, <2>3
<1>7. call' \in [Loops -> Calls]
  BY Zenon, <1>6 DEF Tick
<1>8. watch' \in Watches /\ watch'.at = watch.at /\ watch'.cursor = watch.cursor
  <2>1. watch \in Watches
    BY Zenon DEF IInv, Types
  <2>2. CASE watch.at \in {"open", "wait"}
    <3>1. watch' = [watch EXCEPT !.time = watch.time + 1]
      BY Zenon, <2>2 DEF Tick
    <3>2. QED
      BY <2>1, <3>1 DEF Watches
  <2>3. CASE watch.at \notin {"open", "wait"}
    BY Zenon, <2>1, <2>3 DEF Tick
  <2>4. QED
    BY Zenon, <2>2, <2>3
<1>9. /\ req' \in Reqs /\ req'.at = req.at /\ req'.pod = req.pod /\ req'.renewed = req.renewed
      /\ req'.behind = req.behind /\ (req.at = "read" => req'.age = Older(req.age))
  <2>1. req \in Reqs /\ Older(req.age) \in 0..Cap
    BY Zenon, <1>3 DEF IInv, Types, Reqs
  <2>2. req' = [req EXCEPT !.age = Older(req.age)] \/ (req' = req /\ req.at # "read")
    BY Zenon DEF Tick
  <2>3. QED
    BY Zenon, <2>1, <2>2 DEF Reqs
<1>10. Types'
  BY Zenon, <1>1, <1>5, <1>7, <1>8, <1>9 DEF IInv, Types
<1>11. Lists'
  <2> SUFFICES ASSUME NEW l \in Loops, call'[l].at = "served"
               PROVE  /\ call'[l].slices \in States /\ call'[l].version \in 1..Len(hist')
                      /\ \A p \in ReadyPods(call'[l].slices) : gone'[p] <= call'[l].time
    BY Zenon, <1>1 DEF Lists, ReadyPods
  <2>1. /\ call[l].slices \in States /\ call[l].version \in 1..Len(hist)
        /\ \A p \in ReadyPods(call[l].slices) : p \in Pods /\ gone[p] <= call[l].time
    BY Zenon, <1>6, ReadyType DEF IInv, Lists
  <2>2. call[l].time \in Nat /\ call'[l].time = call[l].time + 1
    BY Zenon, <1>6
  <2>3. \A p \in ReadyPods(call[l].slices) : gone'[p] <= call[l].time + 1
    BY <1>2, <1>4, <2>1, <2>2
  <2>4. QED
    BY Zenon, <1>1, <1>6, <2>1, <2>2, <2>3
<1>12. Versions'
  BY Zenon, <1>1, <1>8 DEF IInv, Versions
<1>13. History'
  <2>1. \A p, v : RemovedAfter(p, v)' <=> RemovedAfter(p, v)
    BY Zenon, <1>1 DEF RemovedAfter
  <2>2. QED
    BY Zenon, <1>1, <1>5, <2>1 DEF IInv, History
<1>14. Provenance'
  <2>1. Position' = Position
    BY Zenon, <1>1, <1>8 DEF Position
  <2>2. ASSUME NEW p \in Pods, Listed(p) PROVE Listed(p)'
    <3>1. /\ gone[p] \in 0..Cap /\ gone'[p] \in 0..Cap /\ gone'[p] <= gone[p] + 1
          /\ gone[p] <= age + ListTimeout
      BY Zenon, <1>4, <2>2 DEF Listed
    <3>2. age' = age + 1 \/ age' = Cap
      BY <1>1, <1>2, <1>3, <1>5
    <3>3. gone'[p] <= age' + ListTimeout
      BY <1>2, <1>5, <3>1, <3>2
    <3>4. QED
      BY Zenon, <3>3 DEF Listed
  <2>3. (\A n \in Slices : slices[n] \subseteq Pods) /\ backends \subseteq Pods
    BY Zenon, ReadyType DEF IInv, Types, States
  <2>4. QED
    BY Zenon, <1>1, <2>1, <2>2, <2>3 DEF IInv, Provenance
<1>15. Membership'
  <2> SUFFICES ASSUME req.at = "read" PROVE Membership'
    BY Zenon, <1>9 DEF Membership
  <2>1. req.age \in 0..Cap /\ req.pod \in Pods /\ req'.age = Older(req.age)
    BY Zenon, <1>9 DEF IInv, Types, Reqs, Membership
  <2>2. req.behind \/ gone'[req.pod] <= req'.age + ListTimeout
    <3>1. CASE req.behind
      BY Zenon, <3>1
    <3>2. CASE ~req.behind
      <4>1. gone[req.pod] <= req.age + ListTimeout
        BY Zenon, <3>2 DEF IInv, Membership
      <4>2. gone[req.pod] \in 0..Cap /\ gone'[req.pod] \in 0..Cap /\ gone'[req.pod] <= gone[req.pod] + 1
        BY Zenon, <1>4, <2>1
      <4>3. req'.age = req.age + 1 \/ req'.age = Cap
        BY <1>2, <1>3, <2>1
      <4>4. gone'[req.pod] <= req'.age + ListTimeout
        BY <1>2, <2>1, <4>1, <4>2, <4>3
      <4>5. QED
        BY Zenon, <4>4
    <3>3. QED
      BY Zenon, <3>1, <3>2
  <2>3. req.renewed \/ req'.age = age'
    BY Zenon, <1>1, <2>1 DEF IInv, Membership
  <2>4. QED
    BY Zenon, <1>9, <2>1, <2>2, <2>3 DEF Membership
<1>16. QED
  BY Zenon, <1>10, <1>11, <1>12, <1>13, <1>14, <1>15 DEF IInv

-----------------------------------------------------------------------------
\* A kept Pod came with the last list, which is as old as the status says, or is in
\* the version of the API server's history that the resolver names.
LEMMA KeptPodsAreRecent ==
  ASSUME IInv, NEW p \in backends
  PROVE  p \in Pods /\ (gone[p] <= age + ListTimeout \/ RemovedAfter(p, version))
<1>1. p \in Pods /\ age \in Nat /\ ListTimeout \in Nat
  BY ReadyType, Constants DEF IInv, Types
<1>2. CASE Listed(p)
  BY Zenon, <1>1, <1>2 DEF Listed
<1>3. CASE ~Listed(p)
  <2>1. PICK n \in Slices : p \in slices[n]
    BY Zenon, InReady DEF IInv, Types
  <2>2. version = Position /\ slices[n] = hist[Position].state[n]
    BY Zenon, <1>3, <2>1 DEF IInv, Provenance
  <2>3. version \in 1..Len(hist) /\ p \in ReadyPods(hist[version].state)
    BY Zenon, <2>1, <2>2, InReady DEF IInv, Versions
  <2>4. CASE p \in ReadyPods(api)
    <3>1. gone[p] = 0
      BY Zenon, <2>4 DEF IInv, History
    <3>2. QED
      BY <1>1, <3>1
  <2>5. QED
    BY Zenon, <1>1, <2>3, <2>4 DEF IInv, History
<1>4. QED
  BY Zenon, <1>2, <1>3

\* Steps of a request change nothing else.
LEMMA RequestStep ==
  ASSUME IInv, req' \in Reqs, Membership',
         UNCHANGED <<api, hist, gone, slices, version, backends, status, ready, age, call, watch>>
  PROVE  IInv'
<1>1. Types'
  BY Zenon DEF IInv, Types
<1>2. Lists' /\ History' /\ Versions'
  BY Zenon, ListsFrame, HistoryFrame DEF IInv, Versions
<1>3. Provenance'
  BY Zenon, ProvenanceFrame DEF IInv, Position
<1>4. QED
  BY Zenon, <1>1, <1>2, <1>3 DEF IInv

LEMMA ReadMembershipStep == IInv /\ ReadMembership => IInv'
<1> SUFFICES ASSUME IInv, ReadMembership PROVE IInv'
  BY Zenon
<1>1. UNCHANGED <<api, hist, gone, slices, version, backends, status, ready, age, call, watch>>
  BY Zenon DEF ReadMembership, resolver
<1>2. PICK p \in backends :
        req' = [at |-> "read", pod |-> p, age |-> age, renewed |-> FALSE,
                behind |-> RemovedAfter(p, version)]
  BY Zenon DEF ReadMembership
<1>3. p \in Pods /\ age \in 0..Cap
  BY Zenon, KeptPodsAreRecent DEF IInv, Types
<1>4. req'.pod = p /\ req'.age = age /\ (req'.behind <=> RemovedAfter(p, version))
  BY Zenon, <1>2
<1>5. req' \in Reqs
  <2>1. RemovedAfter(p, version) \in BOOLEAN
    BY Zenon DEF RemovedAfter
  <2>2. QED
    BY Zenon, <1>2, <1>3, <2>1 DEF Reqs
<1>6. Membership'
  BY Zenon, <1>1, <1>3, <1>4, KeptPodsAreRecent DEF Membership
<1>7. QED
  BY Zenon, <1>1, <1>5, <1>6, RequestStep

LEMMA DecideStep == IInv /\ Decide => IInv'
<1> SUFFICES ASSUME IInv, Decide PROVE IInv'
  BY Zenon
<1>1. UNCHANGED <<api, hist, gone, slices, version, backends, status, ready, age, call, watch>>
  BY Zenon DEF Decide, resolver
<1>2. req' = NoRequest /\ 0 \in 0..Cap
  BY Constants DEF Decide
<1>3. req' \in Reqs /\ req'.at = "idle"
  BY Zenon, <1>2 DEF NoRequest, Reqs
<1>4. QED
  BY Zenon, <1>1, <1>3, RequestStep DEF Membership

LEMMA Stuttering == IInv /\ UNCHANGED vars => IInv'
<1> SUFFICES ASSUME IInv, UNCHANGED vars PROVE IInv'
  BY Zenon
<1>1. UNCHANGED <<api, hist, gone, slices, version, backends, status, ready, age, call, watch, req>>
  BY Zenon DEF vars
<1>2. QED
  BY Zenon, <1>1, RequestStep, MembershipFrame DEF IInv, Types

LEMMA NextIInv == IInv /\ [Next]_vars => IInv'
<1> SUFFICES ASSUME IInv, [Next]_vars PROVE IInv'
  BY Zenon
<1>1. CASE ApiChange
  BY Zenon, <1>1, ApiChangeStep
<1>2. CASE RefreshTick
  BY Zenon, <1>2, RefreshTickStep
<1>3. CASE WatchOpen
  BY Zenon, <1>3, WatchOpenStep
<1>4. CASE WatchEvent
  BY Zenon, <1>4, WatchEventStep
<1>5. CASE WatchClosed
  BY Zenon, <1>5, WatchClosedStep
<1>6. CASE WatchError
  BY Zenon, <1>6, WatchErrorStep
<1>7. CASE WatchRetry
  BY Zenon, <1>7, WatchRetryStep
<1>8. CASE Tick
  BY Zenon, <1>8, TickStep
<1>9. CASE \E l \in Loops : Serve(l)
  BY Zenon, <1>9, ServeStep
<1>10. CASE \E l \in Loops : Receive(l)
  BY Zenon, <1>10, ReceiveStep
<1>11. CASE \E l \in Loops : ListFails(l)
  BY Zenon, <1>11, ListFailsStep
<1>12. CASE UNCHANGED vars
  BY Zenon, <1>12, Stuttering
<1>13. CASE ReadMembership
  BY Zenon, <1>13, ReadMembershipStep
<1>14. CASE Decide
  BY Zenon, <1>14, DecideStep
<1>15. QED
  BY Zenon, <1>1, <1>2, <1>3, <1>4, <1>5, <1>6, <1>7, <1>8, <1>9, <1>10, <1>11, <1>12, <1>13, <1>14
  DEF Next

LEMMA ChosenPodsAreRecent == IInv => BoundedStaleness
<1> SUFFICES ASSUME IInv PROVE BoundedStaleness
  BY Zenon
<1>1. TypeOK
  <2>1. \A l \in Loops : call[l].time \in 0..ListTimeout
    BY Zenon DEF IInv, Types, Calls
  <2>2. QED
    BY Zenon, <2>1 DEF IInv, Types, Versions, States, TypeOK
<1>2. ASSUME RoutedDirectly, ~req.behind
      PROVE  gone[req.pod] <= (IF req.renewed THEN req.age ELSE DiscoveryMaxAge) + ListTimeout
  <2>1. /\ req.pod \in Pods /\ gone[req.pod] <= req.age + ListTimeout
        /\ req.renewed \/ req.age = age
    BY Zenon, <1>2 DEF IInv, Membership, RoutedDirectly
  <2>2. gone[req.pod] \in Nat /\ age \in Nat
    BY <2>1, Constants DEF IInv, Types
  <2>3. age <= DiscoveryMaxAge
    BY Zenon, <1>2 DEF RoutedDirectly, directRoutingEligible
  <2>4. CASE req.renewed
    BY Zenon, <2>1, <2>4
  <2>5. CASE ~req.renewed
    <3>1. req.age = age
      BY Zenon, <2>1, <2>5
    <3>2. gone[req.pod] <= DiscoveryMaxAge + ListTimeout
      BY <2>1, <2>2, <2>3, <3>1, Constants
    <3>3. QED
      BY Zenon, <2>5, <3>2
  <2>6. QED
    BY Zenon, <2>4, <2>5
<1>3. QED
  BY Zenon, <1>1, <1>2 DEF BoundedStaleness

\* However the answers of refreshLoop's and watchLoop's lists, watch events, errors
\* and timeouts interleave with a request between Snapshot and its decision, a Pod
\* that the request is routed to directly was Ready at the API server at most
\* DiscoveryMaxAge plus the list timeout before, unless the resolver was behind the
\* Pod's removal at the Snapshot; after a refresh in between, at most the list
\* timeout plus the age of the list that the Snapshot came from.
THEOREM BackendsAreRecent == Spec => []BoundedStaleness
<1>1. Spec => []IInv
  BY InitIInv, NextIInv, PTL DEF Spec
<1>2. QED
  BY <1>1, ChosenPodsAreRecent, PTL
=============================================================================
