--------------------------- MODULE RuntimeProofs ---------------------------
(***************************************************************************)
(* The order of closing, the shared DNS lookup and the training data of    *)
(* the gateway process, for any number of requests, backends and samples.  *)
(***************************************************************************)
EXTENDS Runtime, FiniteSetTheorems, SequenceTheorems, TLAPS

Controls == {"none", "render", "select", "flight", "stream"}
Owners == {"resolver", "observations", "transport", "tuner", "renderClient", "kvCache", "requestPath"}

\* The Render client: a request is in it only while it renders.
Dialing ==
  /\ address \in Addresses \cup {NoAddress} /\ target \in [Callers -> Addresses \cup {NoAddress}]
  /\ at \in [Callers -> Points] /\ resolving \in BOOLEAN
  /\ \A c \in Callers : pc[c] # "render" => at[c] = "out"
  /\ OneLookup

\* The owners are closed in their order, and only once run is over; the observation
\* loop runs only while its owner is open.
Closed ==
  /\ proc \in Procs /\ stage \in 1..8 /\ owned \subseteq Owners /\ closed \subseteq owned
  /\ \A i, j \in 1..7 : i < j /\ CloseOrder[i] \in owned \ closed => CloseOrder[j] \notin closed
  /\ closed # {} => proc \in {"closing", "exited"}
  /\ obs.phase \in {"idle", "refresh"} => "observations" \in owned \ closed
  /\ proc = "exited" => closed = owned

\* Requests are met only between start-up and a shutdown that waited for them.
Waited ==
  /\ pc \in [Callers -> Controls] /\ timedOut \in BOOLEAN
  /\ proc = "building" \/ (proc \in {"closing", "exited"} /\ ~timedOut) =>
       \A c \in Callers : pc[c] = "none"

Samples == [valid : BOOLEAN, at : Int, read : Int]
Readings == [load : Samples, overload : Samples]
Maps == UNION {[D -> Readings] : D \in SUBSET Backends}

\* A valid load carries the time it was read at.
Stamped(map) == \A b \in DOMAIN map : map[b].load.valid => map[b].load.at = map[b].load.read

Observing ==
  /\ now \in 0..MaxTime /\ members \subseteq Backends
  /\ obs \in [phase : Phases, cancelled : BOOLEAN, list : SUBSET Backends, began : 0..MaxTime,
              next : Maps, states : Maps]
  /\ Stamped(obs.next) /\ Stamped(obs.states)

\* A window of samples: bounded, in the order of time, none of them in the future.
InOrder(w) ==
  /\ w \in Seq(0..MaxTime) /\ \A i \in 1..Len(w) : w[i] <= now
  /\ \A i \in 1..Len(w) - 1 : w[i] <= w[i + 1]
Windows ==
  /\ samples \in [Backends -> Seq(0..MaxTime)] /\ models \in [Backends -> 0..MaxSamples]
  /\ \A b \in Backends : /\ InOrder(samples[b]) /\ Len(samples[b]) <= MaxSamples
                         /\ models[b] # 0 => samples[b] # <<>>

TicketRecords == [to : Backends \cup {Svc}, age : Int]
Tickets ==
  /\ snap \in [Callers -> SUBSET Backends] /\ ticket \in [Callers -> TicketRecords]
  /\ \A c \in Callers : ticket[c].age <= MaxAge /\ (ticket[c] = NoTicket \/ ticket[c].to \in Backends)

IInv == Dialing /\ Closed /\ Waited /\ Observing /\ Windows /\ Tickets
-----------------------------------------------------------------------------
(* The Render client.                                                      *)

\* One caller's step inside the client.
LEMMA RenderStepDialing ==
  ASSUME Dialing, NEW c \in Callers, RenderStep(c), pc[c] = "render", UNCHANGED pc
  PROVE  Dialing'
<1>1. /\ at \in [Callers -> Points] /\ resolving \in BOOLEAN
      /\ target \in [Callers -> Addresses \cup {NoAddress}] /\ address \in Addresses \cup {NoAddress}
      /\ \A d \in Callers : pc[d] # "render" => at[d] = "out"
  BY Zenon DEF Dialing
<1>2. CASE CachedAddress(c) /\ address # NoAddress
  <2>1. /\ at' = [at EXCEPT ![c] = "connect"] /\ target' = [target EXCEPT ![c] = address]
        /\ UNCHANGED <<address, resolving>> /\ at[c] = "dial"
    BY Zenon, <1>2 DEF CachedAddress
  <2>2. at' \in [Callers -> Points] /\ target' \in [Callers -> Addresses \cup {NoAddress}]
    BY Zenon, <1>1, <2>1 DEF Points
  <2>3. OneLookup'
    BY <1>1, <2>1 DEF OneLookup, Dialing
  <2>4. QED
    BY Zenon, <1>1, <2>1, <2>2, <2>3 DEF Dialing
<1>3. CASE CachedAddress(c) /\ address = NoAddress
  <2>1. /\ at' = [at EXCEPT ![c] = IF resolving THEN "wait" ELSE "lookup"]
        /\ resolving' = TRUE /\ UNCHANGED <<target, address>> /\ at[c] = "dial"
    BY Zenon, <1>3 DEF CachedAddress
  <2>2. at' \in [Callers -> Points]
    BY Zenon, <1>1, <2>1 DEF Points
  <2>3. OneLookup'
    <3>1. CASE resolving
      BY <1>1, <2>1, <3>1 DEF OneLookup, Dialing
    <3>2. CASE ~resolving
      BY Zenon, <1>1, <2>1, <3>2 DEF OneLookup, Dialing
    <3>3. QED
      BY Zenon, <3>1, <3>2
  <2>4. QED
    BY Zenon, <1>1, <2>1, <2>2, <2>3 DEF Dialing
<1>4. CASE LookupReturns(c)
  <2>1. PICK v \in {"connect"} \cup Failures : at' = [Wake(c) EXCEPT ![c] = v]
    BY Zenon, <1>4 DEF LookupReturns
  <2>2. /\ at[c] = "lookup" /\ resolving' = FALSE /\ address' \in Addresses \cup {NoAddress}
        /\ target' \in [Callers -> Addresses \cup {NoAddress}]
    BY <1>1, <1>4 DEF LookupReturns
  <2>3. v \in Points /\ v # "lookup" /\ v # "wait"
    BY Zenon DEF Failures, Verdicts, Points
  <2>4. /\ at'[c] = v /\ at' = [x \in Callers |-> at'[x]]
        /\ \A x \in Callers : x # c => at'[x] = IF at[x] = "wait" THEN "dial" ELSE at[x]
    BY Zenon, <2>1 DEF Wake
  <2>5. \A x \in Callers : at'[x] \in Points
    BY Zenon, <1>1, <2>3, <2>4 DEF Points
  <2>6. at' \in [Callers -> Points]
    BY Zenon, <2>4, <2>5
  <2>7. \A x \in Callers : at'[x] # "lookup" /\ at'[x] # "wait"
    BY <2>2, <2>3, <2>4 DEF Dialing, OneLookup
  <2>8. OneLookup'
    BY Zenon, <2>2, <2>7 DEF OneLookup
  <2>9. \A x \in Callers : pc[x] # "render" => at'[x] = "out"
    BY Zenon, <1>1, <2>4
  <2>10. QED
    BY Zenon, <2>2, <2>6, <2>8, <2>9 DEF Dialing
<1>5. CASE Connect(c)
  <2>1. PICK v \in {"post"} \cup Failures : at' = [at EXCEPT ![c] = v]
    BY Zenon, <1>5 DEF Connect
  <2>2. /\ at[c] = "connect" /\ UNCHANGED resolving /\ address' \in Addresses \cup {NoAddress}
        /\ target' \in [Callers -> Addresses \cup {NoAddress}]
    BY Zenon, <1>1, <1>5 DEF Connect, invalidate
  <2>3. v \in Points /\ v # "lookup" /\ v # "wait"
    BY Zenon DEF Failures, Verdicts, Points
  <2>4. at' \in [Callers -> Points]
    BY Zenon, <1>1, <2>1, <2>3
  <2>5. OneLookup'
    BY <1>1, <2>1, <2>2, <2>3 DEF OneLookup, Dialing
  <2>6. QED
    BY Zenon, <1>1, <2>1, <2>2, <2>4, <2>5 DEF Dialing
<1>6. CASE Post(c)
  <2>1. PICK v \in Verdicts : at' = [at EXCEPT ![c] = v]
    BY Zenon, <1>6 DEF Post
  <2>2. at[c] = "post" /\ UNCHANGED <<resolving, address, target>>
    BY Zenon, <1>6 DEF Post
  <2>3. v \in Points /\ v # "lookup" /\ v # "wait"
    BY Zenon DEF Failures, Verdicts, Points
  <2>4. at' \in [Callers -> Points]
    BY Zenon, <1>1, <2>1, <2>3
  <2>5. OneLookup'
    BY <1>1, <2>1, <2>2, <2>3 DEF OneLookup, Dialing
  <2>6. QED
    BY Zenon, <1>1, <2>1, <2>2, <2>4, <2>5 DEF Dialing
<1>7. QED
  BY Zenon, <1>2, <1>3, <1>4, <1>5, <1>6 DEF RenderStep

\* A caller that neither looks the host up nor stops waiting moves, and the rest of
\* the client stays as it is.
LEMMA MoveDialing ==
  ASSUME Dialing, NEW c \in Callers, NEW v \in Points \ {"lookup", "wait"},
         at' = [at EXCEPT ![c] = v], at[c] # "lookup", pc'[c] # "render" => v = "out",
         \A d \in Callers : d # c => pc'[d] = pc[d],
         UNCHANGED <<address, resolving, target>>
  PROVE  Dialing'
<1>1. at \in [Callers -> Points] /\ resolving \in BOOLEAN
  BY Zenon DEF Dialing
<1>2. at' \in [Callers -> Points] /\ at'[c] = v /\ \A d \in Callers : d # c => at'[d] = at[d]
  BY Zenon, <1>1
<1>3. OneLookup'
  BY <1>1, <1>2 DEF OneLookup, Dialing
<1>4. QED
  BY Zenon, <1>2, <1>3 DEF Dialing

LEMMA DialingFrame ==
  ASSUME Dialing, UNCHANGED <<address, resolving, at, target>>,
         \A d \in Callers : pc'[d] = pc[d] \/ at[d] = "out"
  PROVE  Dialing'
<1>1. OneLookup'
  BY Zenon DEF OneLookup, Dialing
<1>2. QED
  BY Zenon, <1>1 DEF Dialing

LEMMA DialingStep == IInv /\ [Next]_vars => Dialing'
<1> SUFFICES ASSUME IInv, [Next]_vars PROVE Dialing'
  BY Zenon
<1>1. Dialing /\ pc \in [Callers -> Controls]
  BY Zenon DEF IInv, Waited
<1>2. CASE \/ Tick \/ Discover \/ Lifecycle \/ BuildFails \/ Shutdown \/ LoopReconcile
           \/ Observe \/ ObserveStops \/ Exited \/ UNCHANGED vars
  <2>1. UNCHANGED <<address, resolving, at, target, pc>>
    BY Zenon, <1>2 DEF Tick, Discover, Lifecycle, Build, CloseOwner, Exit, Drained, BuildFails, Shutdown,
                LoopReconcile, Observe, ObserveStops, Exited, vars, render, path
  <2>2. QED
    BY Zenon, <1>1, <2>1, DialingFrame
<1>3. CASE RenderMoves
  <2>1. UNCHANGED <<resolving, at, target, pc>> /\ address' \in {address, NoAddress}
    BY Zenon, <1>3 DEF RenderMoves, Move, Expire, path
  <2>2. OneLookup'
    BY Zenon, <1>1, <2>1 DEF Dialing, OneLookup
  <2>3. QED
    BY Zenon, <1>1, <2>1, <2>2 DEF Dialing
<1>4. ASSUME NEW c \in Callers, Accept(c) PROVE Dialing'
  <2>1. pc[c] = "none" /\ at[c] = "out"
    BY Zenon, <1>1, <1>4 DEF Accept, Dialing
  <2>2. CASE kvAware
    <3>1. PICK v \in {"reject", "dial", "post"} : at' = [at EXCEPT ![c] = v]
      BY Zenon, <1>4, <2>2 DEF Accept, Tokenize
    <3>2. UNCHANGED <<address, resolving, target>> /\ pc' = [pc EXCEPT ![c] = "render"]
      BY Zenon, <1>4, <2>2 DEF Accept, Tokenize
    <3>3. v \in Points \ {"lookup", "wait"}
      BY Zenon DEF Points, Verdicts, Failures
    <3>4. pc'[c] = "render" /\ \A d \in Callers : d # c => pc'[d] = pc[d]
      BY Zenon, <1>1, <3>2
    <3>5. QED
      BY Zenon, <1>1, <2>1, <3>1, <3>2, <3>3, <3>4, MoveDialing
  <2>3. CASE ~kvAware
    <3>1. UNCHANGED <<address, resolving, at, target>> /\ pc' = [pc EXCEPT ![c] = "select"]
      BY Zenon, <1>4, <2>3 DEF Accept, render
    <3>2. \A d \in Callers : pc'[d] = pc[d] \/ at[d] = "out"
      BY Zenon, <1>1, <2>1, <3>1
    <3>3. QED
      BY Zenon, <1>1, <3>1, <3>2, DialingFrame
  <2>4. QED
    BY Zenon, <2>2, <2>3
<1>5. ASSUME NEW c \in Callers, Renders(c) PROVE Dialing'
  BY Zenon, <1>1, <1>5, RenderStepDialing DEF Renders, path
<1>6. ASSUME NEW c \in Callers, Rejected(c) \/ Decide(c) PROVE Dialing'
  <2>1. /\ at' = [at EXCEPT ![c] = "out"] /\ at[c] # "lookup"
        /\ UNCHANGED <<address, resolving, target>>
        /\ pc' = [pc EXCEPT ![c] = "none"] \/ pc' = [pc EXCEPT ![c] = "flight"]
    BY Zenon, <1>1, <1>6 DEF Rejected, Decide, Dialing
  <2>2. \A d \in Callers : d # c => pc'[d] = pc[d]
    BY Zenon, <1>1, <2>1
  <2>3. "out" \in Points \ {"lookup", "wait"}
    BY Zenon DEF Points
  <2>4. QED
    BY Zenon, <1>1, <2>1, <2>2, <2>3, MoveDialing
<1>7. ASSUME NEW c \in Callers, RenderGivesUp(c) PROVE Dialing'
  <2>1. PICK v \in Failures : at' = [at EXCEPT ![c] = v]
    BY Zenon, <1>7 DEF RenderGivesUp, GiveUp
  <2>2. /\ UNCHANGED <<address, resolving, target, pc>>
        /\ at[c] = "wait" /\ pc[c] = "render"
    BY Zenon, <1>7 DEF RenderGivesUp, GiveUp, path
  <2>3. v \in Points \ {"lookup", "wait"}
    BY Zenon DEF Points, Verdicts, Failures
  <2>4. QED
    BY Zenon, <1>1, <2>1, <2>2, <2>3, MoveDialing
<1>8. ASSUME NEW c \in Callers, FirstEvent(c) \/ Complete(c) PROVE Dialing'
  <2>1. /\ UNCHANGED <<address, resolving, at, target>> /\ pc[c] \in {"flight", "stream"}
        /\ pc' = [pc EXCEPT ![c] = "stream"] \/ pc' = [pc EXCEPT ![c] = "none"]
    BY Zenon, <1>8 DEF FirstEvent, Complete, render
  <2>2. \A d \in Callers : pc'[d] = pc[d] \/ at[d] = "out"
    BY Zenon, <1>1, <2>1 DEF Dialing
  <2>3. QED
    BY Zenon, <1>1, <2>1, <2>2, DialingFrame
<1>9. QED
  BY Zenon, <1>2, <1>3, <1>4, <1>5, <1>6, <1>7, <1>8 DEF Next, Handler

-----------------------------------------------------------------------------
(* Start-up, shutdown and Close.                                           *)

LEMMA CloseOrderFacts ==
  /\ Len(CloseOrder) = 7
  /\ \A i, j \in 1..7 : CloseOrder[i] = CloseOrder[j] => i = j
  /\ \A o \in Owners : \E i \in 1..7 : CloseOrder[i] = o
<1>1. Len(CloseOrder) = 7
  BY Zenon DEF CloseOrder
<1>2. /\ CloseOrder[1] = "tuner" /\ CloseOrder[2] = "requestPath" /\ CloseOrder[3] = "kvCache"
      /\ CloseOrder[4] = "observations" /\ CloseOrder[5] = "resolver"
      /\ CloseOrder[6] = "renderClient" /\ CloseOrder[7] = "transport"
  BY Zenon DEF CloseOrder
<1>3. \A i \in 1..7 : i \in {1, 2, 3, 4, 5, 6, 7}
  OBVIOUS
<1>4. \A i, j \in 1..7 : CloseOrder[i] = CloseOrder[j] => i = j
  BY <1>2, <1>3
<1>5. \A o \in Owners : \E i \in 1..7 : CloseOrder[i] = o
  BY <1>2 DEF Owners
<1>6. QED
  BY Zenon, <1>1, <1>4, <1>5

LEMMA StagesFacts == Len(Stages) = 8 /\ \A k \in 1..8 : Stages[k] \subseteq Owners
<1>1. Len(Stages) = 8
  BY Zenon DEF Stages
<1>2. \A k \in 1..8 : k \in {1, 2, 3, 4, 5, 6, 7, 8}
  OBVIOUS
<1>3. QED
  BY <1>1, <1>2 DEF Stages, Owners

\* The observation loop ends, or goes on between the same two phases.
LEMMA ClosedFrame ==
  ASSUME Closed, UNCHANGED <<stage, owned, closed>>, proc' \in Procs,
         obs'.phase \in {"idle", "refresh"} => obs.phase \in {"idle", "refresh"},
         closed # {} => proc' \in {"closing", "exited"},
         proc' = "exited" => closed = owned
  PROVE  Closed'
  BY Zenon DEF Closed

LEMMA ClosedStep == IInv /\ [Next]_vars => Closed'
<1> SUFFICES ASSUME IInv, [Next]_vars PROVE Closed'
  BY Zenon
<1>1. /\ Closed
      /\ obs \in [phase : Phases, cancelled : BOOLEAN, list : SUBSET Backends, began : 0..MaxTime,
                  next : Maps, states : Maps]
  BY Zenon DEF IInv, Observing
<1>2. CASE \/ Tick \/ Discover \/ LoopReconcile \/ RenderMoves \/ Exited \/ UNCHANGED vars
           \/ \E c \in Callers : \/ Accept(c) \/ Handler(c) \/ RenderGivesUp(c) \/ FirstEvent(c)
                                 \/ Complete(c)
  <2>1. UNCHANGED <<stage, owned, closed, proc, obs>>
    <3>1. CASE Tick \/ Discover \/ LoopReconcile \/ RenderMoves \/ Exited \/ UNCHANGED vars
      BY <3>1 DEF Tick, Discover, LoopReconcile, RenderMoves, Exited, vars, process
    <3>2. ASSUME NEW c \in Callers, Accept(c) \/ RenderGivesUp(c) \/ FirstEvent(c) \/ Complete(c)
          PROVE  UNCHANGED <<stage, owned, closed, proc, obs>>
      BY <3>2 DEF Accept, RenderGivesUp, FirstEvent, Complete, process
    <3>3. ASSUME NEW c \in Callers, Handler(c)
          PROVE  UNCHANGED <<stage, owned, closed, proc, obs>>
      BY <3>3 DEF Handler, Renders, Rejected, Decide, process
    <3>4. QED
      BY Zenon, <1>2, <3>1, <3>2, <3>3
  <2>2. QED
    BY Zenon, <1>1, <2>1, ClosedFrame DEF Closed
<1>3. CASE Observe \/ ObserveStops
  <2>1. UNCHANGED <<stage, owned, closed, proc>>
    BY Zenon, <1>3 DEF Observe, ObserveStops, process
  <2>2. obs'.phase \in {"idle", "refresh"} => obs.phase \in {"idle", "refresh"}
    BY Zenon, <1>1, <1>3 DEF Observe, ObserveStops, BeginRefresh, EndRefresh, EndCollect, StopLoop
  <2>3. QED
    BY Zenon, <1>1, <2>1, <2>2, ClosedFrame DEF Closed
<1>4. CASE BuildFails \/ Shutdown \/ Drained
  <2>1. /\ UNCHANGED <<stage, owned, closed, obs>> /\ proc' \in {"closing", "draining"}
        /\ proc \in {"building", "serving", "draining"}
    BY Zenon, <1>4 DEF BuildFails, Shutdown, Drained
  <2>2. QED
    BY Zenon, <1>1, <2>1, ClosedFrame DEF Closed, Procs
<1>5. CASE Build
  <2>1. closed = {} /\ closed' = {} /\ proc' \in {"building", "serving"}
    BY Zenon, <1>1, <1>5 DEF Build, Closed
  <2>2. stage' \in 1..8
    BY <1>1, <1>5, StagesFacts DEF Build, Closed
  <2>3. owned \subseteq owned' /\ owned' \subseteq Owners
    BY Zenon, <1>1, <1>5, StagesFacts DEF Build, Closed
  <2>4. obs'.phase \in {"idle", "refresh"} => "observations" \in owned'
    <3>1. CASE "observations" \in owned'
      BY Zenon, <3>1
    <3>2. CASE "observations" \notin owned'
      BY Zenon, <1>1, <1>5, <2>3, <3>2 DEF Build, Closed
    <3>3. QED
      BY Zenon, <3>1, <3>2
  <2>5. QED
    BY Zenon, <2>1, <2>2, <2>3, <2>4 DEF Closed, Procs
<1>6. CASE Exit
  <2>1. /\ UNCHANGED <<stage, owned, closed, obs>> /\ proc' = "exited" /\ Open = {}
    BY Zenon, <1>6 DEF Exit
  <2>2. owned = closed
    BY <1>1, <2>1, CloseOrderFacts DEF Open, Closed
  <2>3. QED
    BY Zenon, <1>1, <2>1, <2>2, ClosedFrame DEF Procs
<1>7. CASE CloseOwner
  <2>1. PICK i \in Open :
          /\ \A j \in Open : i <= j
          /\ IF CloseOrder[i] = "observations" /\ obs.phase # "stopped"
             THEN ~obs.cancelled /\ CancelLoop /\ UNCHANGED closed
             ELSE closed' = closed \cup {CloseOrder[i]} /\ UNCHANGED obs
    BY Zenon, <1>7 DEF CloseOwner
  <2>2. proc = "closing" /\ UNCHANGED <<stage, owned, proc>>
    BY Zenon, <1>7 DEF CloseOwner
  <2>3. i \in 1..7 /\ CloseOrder[i] \in owned \ closed
    BY Zenon, CloseOrderFacts DEF Open
  <2>4. CASE CloseOrder[i] = "observations" /\ obs.phase # "stopped"
    <3>1. UNCHANGED closed /\ obs'.phase = obs.phase
      BY Zenon, <1>1, <2>1, <2>4 DEF CancelLoop
    <3>2. QED
      BY Zenon, <1>1, <2>2, <3>1, ClosedFrame DEF Closed
  <2>5. CASE ~(CloseOrder[i] = "observations" /\ obs.phase # "stopped")
    <3>1. closed' = closed \cup {CloseOrder[i]} /\ UNCHANGED obs
      BY Zenon, <2>1, <2>5
    <3>2. closed' \subseteq owned
      BY Zenon, <1>1, <2>3, <3>1 DEF Closed
    <3>3. ASSUME NEW k \in 1..7, NEW j \in 1..7, k < j, CloseOrder[k] \in owned \ closed'
          PROVE  CloseOrder[j] \notin closed'
      <4>1. CloseOrder[k] \in owned \ closed /\ k \in Open
        BY Zenon, <3>1, <3>3, CloseOrderFacts DEF Open
      <4>2. i <= k
        BY Zenon, <2>1, <4>1
      <4>3. i # j
        BY <2>3, <3>3, <4>2
      <4>4. CloseOrder[j] # CloseOrder[i] /\ CloseOrder[j] \notin closed
        BY Zenon, <1>1, <2>3, <3>3, <4>1, <4>3, CloseOrderFacts DEF Closed
      <4>5. QED
        BY Zenon, <3>1, <4>4
    <3>4. obs'.phase \in {"idle", "refresh"} => "observations" \in owned \ closed'
      BY Zenon, <1>1, <2>5, <3>1 DEF Closed
    <3>5. QED
      BY Zenon, <1>1, <2>2, <3>2, <3>3, <3>4 DEF Closed
  <2>6. QED
    BY Zenon, <2>4, <2>5
<1>8. QED
  BY Zenon, <1>2, <1>3, <1>4, <1>5, <1>6, <1>7 DEF Next, Lifecycle

-----------------------------------------------------------------------------
LEMMA WaitedFrame ==
  ASSUME Waited, UNCHANGED <<pc, timedOut>>,
         proc' = proc \/ proc' \in {"serving", "draining"} \/ (proc = "closing" /\ proc' = "exited")
         \/ (proc = "building" /\ proc' = "closing")
  PROVE  Waited'
  BY Zenon DEF Waited

\* A request moves: it is one that was in flight, or the process serves.
LEMMA RequestWaited ==
  ASSUME Waited, NEW c \in Callers, NEW p \in Controls, pc' = [pc EXCEPT ![c] = p],
         UNCHANGED <<proc, timedOut>>, pc[c] # "none" \/ proc = "serving"
  PROVE  Waited'
<1>1. pc' \in [Callers -> Controls]
  BY Zenon DEF Waited
<1>2. QED
  BY Zenon, <1>1 DEF Waited

LEMMA WaitedStep == IInv /\ [Next]_vars => Waited'
<1> SUFFICES ASSUME IInv, [Next]_vars PROVE Waited'
  BY Zenon
<1>1. Waited
  BY Zenon DEF IInv
<1>2. CASE \/ Tick \/ Discover \/ LoopReconcile \/ RenderMoves \/ Observe \/ ObserveStops \/ Exited
           \/ UNCHANGED vars \/ \E c \in Callers : Renders(c) \/ RenderGivesUp(c)
  <2>1. UNCHANGED <<pc, timedOut, proc>>
    BY Zenon, <1>2 DEF Tick, Discover, LoopReconcile, RenderMoves, Observe, ObserveStops,
       Exited, vars,
                Renders, RenderGivesUp, process, path
  <2>2. QED
    BY Zenon, <1>1, <2>1, WaitedFrame
<1>3. CASE Build \/ BuildFails \/ Shutdown \/ CloseOwner \/ Exit
  <2>1. UNCHANGED <<pc, timedOut>>
    BY Zenon, <1>3 DEF Build, BuildFails, Shutdown, CloseOwner, Exit, path
  <2>2. \/ proc' = proc \/ proc' \in {"serving", "draining"} \/ (proc = "closing" /\ proc' = "exited")
        \/ (proc = "building" /\ proc' = "closing")
    BY Zenon, <1>3 DEF Build, BuildFails, Shutdown, CloseOwner, Exit
  <2>3. QED
    BY Zenon, <1>1, <2>1, <2>2, WaitedFrame
<1>4. CASE Drained
  <2>1. UNCHANGED pc /\ proc' = "closing" /\ timedOut' \in BOOLEAN
        /\ (~timedOut' => \A c \in Callers : pc[c] = "none")
    BY Zenon, <1>4 DEF Drained, path
  <2>2. QED
    BY Zenon, <1>1, <2>1 DEF Waited
<1>5. ASSUME NEW c \in Callers, Accept(c) \/ Rejected(c) \/ Decide(c) \/ FirstEvent(c) \/ Complete(c)
      PROVE  Waited'
  <2>1. UNCHANGED <<proc, timedOut>> /\ (pc[c] # "none" \/ proc = "serving")
    BY Zenon, <1>5 DEF Accept, Rejected, Decide, FirstEvent, Complete, process
  <2>2. \E p \in Controls : pc' = [pc EXCEPT ![c] = p]
    <3>1. \E p \in {"none", "render", "select", "flight", "stream"} : pc' = [pc EXCEPT ![c] = p]
      <4>1. CASE Accept(c)
        BY Zenon, <4>1 DEF Accept
      <4>2. CASE Rejected(c) \/ Complete(c)
        BY Zenon, <4>2 DEF Rejected, Complete
      <4>3. CASE Decide(c) \/ FirstEvent(c)
        BY Zenon, <4>3 DEF Decide, FirstEvent
      <4>4. QED
        BY Zenon, <1>5, <4>1, <4>2, <4>3
    <3>2. QED
      BY Zenon, <3>1 DEF Controls
  <2>3. QED
    BY Zenon, <1>1, <2>1, <2>2, RequestWaited
<1>6. QED
  BY Zenon, <1>2, <1>3, <1>4, <1>5 DEF Next, Lifecycle, Handler

-----------------------------------------------------------------------------
(* The observation loop.                                                   *)

ObsRecords ==
  [phase : Phases, cancelled : BOOLEAN, list : SUBSET Backends, began : 0..MaxTime,
   next : Maps, states : Maps]

LEMMA EmptyMap == <<>> \in Maps /\ Stamped(<<>>)
<1>1. <<>> \in [{} -> Readings]
  OBVIOUS
<1>2. QED
  BY Zenon, <1>1 DEF Maps, Stamped

LEMMA CollectedMap ==
  ASSUME NEW m \in Maps, Stamped(m), NEW b \in Backends, NEW r \in Readings,
         r.load.valid => r.load.at = r.load.read,
         NEW n, n = [x \in DOMAIN m \cup {b} |-> IF x = b THEN r ELSE m[x]]
  PROVE  n \in Maps /\ Stamped(n)
<1>1. PICK D \in SUBSET Backends : m \in [D -> Readings]
  BY Zenon DEF Maps
<1>2. n \in [D \cup {b} -> Readings]
  BY Zenon, <1>1
<1>3. D \cup {b} \in SUBSET Backends
  BY Zenon
<1>4. n \in Maps
  BY Zenon, <1>2, <1>3 DEF Maps
<1>5. Stamped(n)
  BY Zenon, <1>1 DEF Stamped
<1>6. QED
  BY Zenon, <1>4, <1>5

\* What one collector may bring home.
LEMMA CollectedReading ==
  ASSUME NEW t \in Int, NEW u \in Int, NEW pod, NEW l \in Collect(t), NEW o \in CollectRuntime(pod, u)
  PROVE  /\ [load |-> l, overload |-> o] \in Readings
         /\ l.valid => l.at = l.read
<1>1. NoSample \in Samples /\ Sample(t, t) \in Samples /\ Sample(u, u) \in Samples
  BY DEF NoSample, Sample, Samples
<1>2. l \in Samples /\ o \in Samples
  BY Zenon, <1>1 DEF Collect, CollectRuntime
<1>3. l.valid => l.at = l.read
  BY DEF Collect, NoSample, Sample
<1>4. QED
  BY Zenon, <1>2, <1>3 DEF Readings

LEMMA ObservingStep == IInv /\ [Next]_vars => Observing'
<1> SUFFICES ASSUME IInv, [Next]_vars PROVE Observing'
  BY Zenon
<1>1. Observing /\ obs \in ObsRecords
  BY Zenon DEF IInv, Observing, ObsRecords
<1>2. now \in 0..MaxTime /\ now \in Int /\ MaxTime \in Nat /\ members \subseteq Backends
  BY RuntimeConstants DEF IInv, Observing
<1>3. ASSUME UNCHANGED <<now, members>>, obs' \in ObsRecords, Stamped(obs'.next), Stamped(obs'.states)
      PROVE  Observing'
  BY Zenon, <1>1, <1>3 DEF Observing, ObsRecords, Stamped
<1>4. CASE UNCHANGED obs /\ now' \in 0..MaxTime /\ members' \subseteq Backends
  BY Zenon, <1>1, <1>4 DEF Observing, Stamped
<1>5. CASE Tick \/ Discover
  <2>1. UNCHANGED obs /\ now' \in 0..MaxTime /\ members' \subseteq Backends
    BY <1>2, <1>5 DEF Tick, Discover
  <2>2. QED
    BY Zenon, <1>4, <2>1
<1>6. CASE \/ BuildFails \/ Shutdown \/ Drained \/ Exit \/ LoopReconcile \/ RenderMoves \/ Exited
           \/ UNCHANGED vars
           \/ \E c \in Callers : \/ Accept(c) \/ Handler(c) \/ RenderGivesUp(c) \/ FirstEvent(c)
                                 \/ Complete(c)
  <2>1. UNCHANGED <<obs, now, members>>
    BY Zenon, <1>6 DEF BuildFails, Shutdown, Drained, Exit, LoopReconcile, RenderMoves, Exited, vars, world,
                Accept, Handler, Renders, Rejected, Decide, RenderGivesUp, FirstEvent, Complete
  <2>2. QED
    BY Zenon, <1>2, <1>4, <2>1
<1>7. CASE Build \/ CloseOwner \/ ObserveStops
  <2>1. UNCHANGED <<now, members>>
    BY Zenon, <1>7 DEF Build, CloseOwner, ObserveStops, world
  <2>2. \/ UNCHANGED obs \/ obs' = [obs EXCEPT !.phase = "idle"]
        \/ obs' = [obs EXCEPT !.phase = "stopped"] \/ obs' = [obs EXCEPT !.cancelled = TRUE]
    BY Zenon, <1>7 DEF Build, CloseOwner, ObserveStops, StartLoop, CancelLoop, StopLoop
  <2>3. obs' \in ObsRecords /\ obs'.next = obs.next /\ obs'.states = obs.states
    BY Zenon, <1>1, <2>2 DEF ObsRecords, Phases
  <2>4. QED
    BY Zenon, <1>1, <1>3, <2>1, <2>3 DEF Observing
<1>8. CASE Observe
  <2>1. UNCHANGED <<now, members>>
    BY Zenon, <1>8 DEF Observe, world
  <2>2. CASE BeginRefresh
    <3>1. obs' = [obs EXCEPT !.phase = "refresh", !.list = members, !.began = now, !.next = <<>>]
      BY Zenon, <2>2 DEF BeginRefresh
    <3>2. obs' \in ObsRecords /\ obs'.next = <<>> /\ obs'.states = obs.states
      BY Zenon, <1>1, <1>2, <3>1, EmptyMap DEF ObsRecords, Phases
    <3>3. QED
      BY Zenon, <1>1, <1>3, <2>1, <3>2, EmptyMap DEF Observing
  <2>3. CASE EndRefresh
    <3>1. obs' = [obs EXCEPT !.phase = "idle", !.states = obs.next, !.next = <<>>,
                             !.list = {}, !.began = 0]
      BY Zenon, <2>3 DEF EndRefresh
    <3>2. /\ obs' = [phase |-> "idle", cancelled |-> obs.cancelled, list |-> {}, began |-> 0,
                      next |-> <<>>, states |-> obs.next]
          /\ obs.cancelled \in BOOLEAN /\ obs.next \in Maps /\ 0 \in 0..MaxTime
      <4>1. obs.cancelled \in BOOLEAN /\ obs.next \in Maps
        BY Zenon, <1>1 DEF ObsRecords
      <4>2. obs' = [phase |-> "idle", cancelled |-> obs.cancelled, list |-> {}, began |-> 0,
                    next |-> <<>>, states |-> obs.next]
        BY Zenon, <1>1, <3>1 DEF ObsRecords
      <4>3. QED
        BY <1>2, <4>1, <4>2
    <3>3. obs' \in ObsRecords /\ obs'.next = <<>> /\ obs'.states = obs.next
      BY Zenon, <3>2, EmptyMap DEF ObsRecords, Phases
    <3>4. QED
      BY Zenon, <1>1, <1>3, <2>1, <3>3, EmptyMap DEF Observing
  <2>4. ASSUME NEW b \in Backends, EndCollect(b) PROVE Observing'
    <3>1. PICK pod \in Identities, t \in obs.began..now : \E u \in t..now :
          \E l \in Collect(t), o \in CollectRuntime(pod, u) :
            obs' = [obs EXCEPT !.next = [x \in DOMAIN @ \cup {b} |->
                     IF x = b THEN [load |-> l, overload |-> o] ELSE @[x]]]
      BY Zenon, <2>4 DEF EndCollect
    <3>2. PICK u \in t..now : \E l \in Collect(t), o \in CollectRuntime(pod, u) :
            obs' = [obs EXCEPT !.next = [x \in DOMAIN @ \cup {b} |->
                     IF x = b THEN [load |-> l, overload |-> o] ELSE @[x]]]
      BY Zenon, <3>1
    <3>0. PICK l \in Collect(t), o \in CollectRuntime(pod, u) :
            obs' = [obs EXCEPT !.next = [x \in DOMAIN obs.next \cup {b} |->
                     IF x = b THEN [load |-> l, overload |-> o] ELSE obs.next[x]]]
      BY Zenon, <3>2
    <3>3. t \in Int /\ u \in Int
      BY <1>1, <1>2 DEF ObsRecords
    <3> DEFINE r == [load |-> l, overload |-> o]
               n == [x \in DOMAIN obs.next \cup {b} |-> IF x = b THEN r ELSE obs.next[x]]
    <3>4. r \in Readings /\ (r.load.valid => r.load.at = r.load.read)
      BY <3>3, CollectedReading
    <3>5. obs' = [obs EXCEPT !.next = n]
      BY Zenon, <3>0
    <3> HIDE DEF r
    <3>6. obs.next \in Maps /\ Stamped(obs.next)
      BY Zenon, <1>1 DEF ObsRecords, Observing
    <3>7. n \in Maps /\ Stamped(n)
      BY Zenon, <3>4, <3>6, CollectedMap
    <3> HIDE DEF n
    <3>8. obs' \in ObsRecords /\ obs'.next = n /\ obs'.states = obs.states
      BY Zenon, <1>1, <3>5, <3>7 DEF ObsRecords
    <3>9. QED
      BY Zenon, <1>1, <1>3, <2>1, <3>7, <3>8 DEF Observing
  <2>5. QED
    BY Zenon, <1>8, <2>2, <2>3, <2>4 DEF Observe
<1>9. QED
  BY Zenon, <1>5, <1>6, <1>7, <1>8 DEF Next, Lifecycle

-----------------------------------------------------------------------------
(* The predictor's windows.                                                *)

\* Every set of natural numbers with an element has a least one: below it lies an
\* interval of as many numbers as it has elements.
LEMMA LeastNat ==
  ASSUME NEW T \in SUBSET Nat, NEW n \in T
  PROVE  \E l \in T : \A m \in T : l <= m
<1> DEFINE A == {m \in 0..n : \A k \in 0..m : k \notin T}
<1>1. IsFiniteSet(A) /\ Cardinality(A) \in Nat
  <2>1. IsFiniteSet(0..n)
    BY FS_Interval
  <2>2. QED
    BY Zenon, <2>1, FS_Subset, FS_CardinalityType
<1>2. PICK c \in Nat : c = Cardinality(A)
  BY Zenon, <1>1
<1>3. /\ \A m \in A : m \in 0..n /\ m \notin T /\ 0..m \subseteq A
      /\ \A m \in 0..n : m \notin A => \E k \in 0..m : k \in T
  OBVIOUS
<1> HIDE DEF A
<1>4. c \notin A
  <2> SUFFICES ASSUME c \in A PROVE FALSE
    BY Zenon
  <2>1. Cardinality(0..c) = c + 1
    BY FS_Interval
  <2>2. 0..c \in SUBSET A
    BY Zenon, <1>3
  <2>3. Cardinality(0..c) <= c
    BY Zenon, <1>1, <1>2, <2>2, FS_Subset
  <2>4. QED
    BY <2>1, <2>3
<1>5. A \subseteq 0..(c - 1)
  <2> SUFFICES ASSUME NEW a \in A PROVE a \in 0..(c - 1)
    BY Zenon
  <2>1. a \in Nat /\ 0..a \subseteq A
    BY <1>3
  <2>2. ~(c <= a)
    BY <1>4, <2>1
  <2>3. QED
    BY <2>1, <2>2
<1>6. A = 0..(c - 1)
  <2>1. c - 1 \in Int /\ 0 \in Int
    OBVIOUS
  <2>2. IsFiniteSet(0..(c - 1)) /\ Cardinality(0..(c - 1)) = IF 0 > c - 1 THEN 0 ELSE (c - 1) - 0 + 1
    BY Zenon, <2>1, FS_Interval
  <2>3. Cardinality(0..(c - 1)) = c
    BY <2>2
  <2>4. A \in SUBSET (0..(c - 1))
    BY Zenon, <1>5
  <2>5. QED
    BY Zenon, <1>2, <2>2, <2>3, <2>4, FS_Subset
<1>7. \A m \in T : c <= m
  <2> SUFFICES ASSUME NEW m \in T, ~(c <= m) PROVE FALSE
    BY Zenon
  <2>1. m \in 0..(c - 1)
    OBVIOUS
  <2>2. QED
    BY Zenon, <1>3, <1>6, <2>1
<1>8. c \in T
  <2>1. c <= n
    BY Zenon, <1>7
  <2>2. PICK k \in 0..c : k \in T
    BY <1>3, <1>4, <2>1
  <2>3. k = c
    BY <1>7, <2>2
  <2>4. QED
    BY Zenon, <2>2, <2>3
<1>9. QED
  BY Zenon, <1>7, <1>8

LEMMA PredictorFacts ==
  /\ MaxSamples \in Nat /\ MinimumSamples \in Nat /\ MaxSampleAge \in Nat /\ RefitEvery \in Nat
  /\ MaxSamples > 0 /\ MinimumSamples > 0 /\ MaxTime \in Nat /\ MaxAge \in Nat
  BY PredictorConstants, RuntimeConstants, ObservationConstants

LEMMA FirstType ==
  ASSUME NEW w \in Seq(0..MaxTime), now \in 0..MaxTime
  PROVE  First(w) \in 1..Len(w) + 1
<1> DEFINE old(i) == w[i] < now - MaxSampleAge
           T == {i \in 1..Len(w) + 1 : i <= Len(w) => ~old(i)}
<1>1. Len(w) \in Nat /\ Len(w) + 1 \in T /\ T \in SUBSET Nat
  OBVIOUS
<1>2. PICK l \in T : \A m \in T : l <= m
  BY Zenon, <1>1, LeastNat
<1>3. \A i \in 1..Len(w) : w[i] \in Int /\ now - MaxSampleAge \in Int
  BY PredictorFacts
<1>4. \A j \in 1..l - 1 : old(j)
  <2> SUFFICES ASSUME NEW j \in 1..l - 1, ~old(j) PROVE FALSE
    BY Zenon
  <2>1. j \in T /\ j < l
    BY <1>1
  <2>2. QED
    BY <1>1, <1>2, <2>1
<1>5. l \in 1..Len(w) + 1 /\ (l <= Len(w) => w[l] >= now - MaxSampleAge)
  BY <1>3
<1>6. QED
  BY Zenon, <1>4, <1>5 DEF First

\* What is left of a window when its oldest samples are dropped.
LEMMA SuffixIndex ==
  ASSUME NEW a \in Nat, NEW k \in 1..a + 1, NEW i \in 1..(a - k + 1) - 1
  PROVE  i \in 1..a - k + 1 /\ i + 1 \in 1..a - k + 1 /\ k + i - 1 \in 1..a - 1
OBVIOUS

LEMMA Suffix ==
  ASSUME NEW w, InOrder(w), now \in Int, NEW k \in 1..Len(w) + 1, NEW n, n = SubSeq(w, k, Len(w))
  PROVE  InOrder(n) /\ Len(n) = Len(w) - k + 1
<1>1. w \in Seq(0..MaxTime) /\ Len(w) \in Nat
  BY DEF InOrder
<1>2. /\ n \in Seq(0..MaxTime) /\ Len(n) = Len(w) - k + 1
      /\ \A i \in 1..Len(n) : n[i] = w[k + i - 1] /\ k + i - 1 \in 1..Len(w)
  <2>1. n \in Seq(0..MaxTime)
    <3>1. \A i \in k..Len(w) : i \in 1..Len(w)
      BY <1>1
    <3>2. \A i \in k..Len(w) : w[i] \in 0..MaxTime
      BY Zenon, <1>1, <3>1, ElementOfSeq
    <3>3. QED
      BY <1>1, <3>2, SubSeqProperties
  <2>2. Len(n) = Len(w) - k + 1
    BY <1>1
  <2>3. \A i \in 1..Len(n) : k + i - 1 \in 1..Len(w)
    BY <1>1, <2>2
  <2>4. \A i \in 1..Len(n) : n[i] = w[k + i - 1]
    BY <1>1, <2>2
  <2>5. QED
    BY Zenon, <2>1, <2>2, <2>3, <2>4
<1>3. \A i \in 1..Len(n) : n[i] <= now
  BY Zenon, <1>2 DEF InOrder
<1>4. ASSUME NEW i \in 1..Len(n) - 1 PROVE n[i] <= n[i + 1]
  <2>1. i \in 1..Len(n) /\ i + 1 \in 1..Len(n) /\ k + i - 1 \in 1..Len(w) - 1
    BY Zenon, <1>1, <1>2, SuffixIndex
  <2>2. n[i] = w[k + i - 1] /\ n[i + 1] = w[k + (i + 1) - 1]
    BY Zenon, <1>2, <2>1
  <2>3. k + (i + 1) - 1 = (k + i - 1) + 1
    BY <1>1
  <2>4. QED
    BY Zenon, <2>1, <2>2, <2>3 DEF InOrder
<1>5. QED
  BY Zenon, <1>2, <1>3, <1>4 DEF InOrder

LEMMA PrunedWindows ==
  ASSUME Windows, now \in 0..MaxTime
  PROVE  /\ Pruned \in [Backends -> Seq(0..MaxTime)]
         /\ \A b \in Backends : InOrder(Pruned[b]) /\ Len(Pruned[b]) <= MaxSamples
<1> SUFFICES ASSUME NEW b \in Backends
             PROVE  /\ Young(samples[b]) \in Seq(0..MaxTime) /\ InOrder(Young(samples[b]))
                    /\ Len(Young(samples[b])) <= MaxSamples
  BY Zenon DEF Pruned
<1>1. /\ samples[b] \in Seq(0..MaxTime) /\ InOrder(samples[b]) /\ Len(samples[b]) <= MaxSamples
      /\ Len(samples[b]) \in Nat /\ now \in Int
  BY PredictorFacts DEF Windows
<1>2. First(samples[b]) \in 1..Len(samples[b]) + 1
  BY Zenon, <1>1, FirstType
<1>3. /\ InOrder(Young(samples[b]))
      /\ Len(Young(samples[b])) = Len(samples[b]) - First(samples[b]) + 1
  BY Zenon, <1>1, <1>2, Suffix DEF Young
<1>4. QED
  BY <1>1, <1>2, <1>3, PredictorFacts DEF InOrder

LEMMA PrunedModels ==
  ASSUME Windows, NEW b \in Backends
  PROVE  /\ Without(Expired)[b] \in 0..MaxSamples
         /\ Without(Expired)[b] # 0 => Pruned[b] # <<>>
  BY PredictorFacts DEF Windows, Without, Expired

LEMMA ReconcileWindows ==
  ASSUME Windows, NEW list, Reconcile(list), UNCHANGED now
  PROVE  Windows'
<1>1. ASSUME NEW b \in Backends
      PROVE  \/ samples'[b] = samples[b] /\ models'[b] = models[b]
             \/ samples'[b] = <<>> /\ models'[b] = 0
  BY Zenon DEF Reconcile, Without, Windows
<1>2. DOMAIN samples' = Backends /\ DOMAIN models' = Backends
  BY Zenon DEF Reconcile, Without
<1>3. InOrder(<<>>) /\ <<>> \in Seq(0..MaxTime) /\ Len(<<>>) = 0
  BY DEF InOrder
<1>4. samples' \in [Backends -> Seq(0..MaxTime)]
  BY Zenon, <1>1, <1>3 DEF Reconcile, Windows
<1>5. models' \in [Backends -> 0..MaxSamples]
  BY <1>1, PredictorFacts DEF Reconcile, Without, Windows
<1>6. \A w : InOrder(w)' <=> InOrder(w)
  BY Zenon DEF InOrder
<1>7. QED
  BY <1>1, <1>3, <1>4, <1>5, <1>6, PredictorFacts DEF Windows

\* Begin prunes, and fits a model only to a window of at least MinimumSamples.
LEMMA BeginWindows ==
  ASSUME Windows, now \in 0..MaxTime, NEW among, NEW loads, Begin(among, loads), UNCHANGED now
  PROVE  Windows'
<1>1. PICK fitted \in SUBSET Shadow(among, loads) :
        models' = [b \in Backends |-> IF b \in fitted
                                      THEN Refit(Len(Pruned[b]), Without(Expired)[b])
                                      ELSE Without(Expired)[b]]
  BY Zenon DEF Begin
<1>2. samples' = Pruned
  BY Zenon DEF Begin
<1>3. ASSUME NEW b \in Backends
      PROVE  models'[b] \in 0..MaxSamples /\ (models'[b] # 0 => Pruned[b] # <<>>)
  <2>1. CASE b \notin fitted
    BY Zenon, <1>1, <2>1, PrunedModels
  <2>2. CASE b \in fitted
    <3>1. Len(Pruned[b]) >= MinimumSamples
      BY Zenon, <2>2 DEF Shadow
    <3>2. Pruned[b] \in Seq(0..MaxTime) /\ Len(Pruned[b]) \in 0..MaxSamples
      BY PrunedWindows, PredictorFacts
    <3>3. Pruned[b] # <<>>
      BY <3>1, <3>2, PredictorFacts
    <3>4. Refit(Len(Pruned[b]), Without(Expired)[b]) \in 0..MaxSamples
      BY Zenon, <3>2, PrunedModels DEF Refit
    <3>5. QED
      BY Zenon, <1>1, <2>2, <3>3, <3>4
  <2>3. QED
    BY Zenon, <2>1, <2>2
<1>4. \A w : InOrder(w)' <=> InOrder(w)
  BY Zenon DEF InOrder
<1>5. models' \in [Backends -> 0..MaxSamples]
  BY Zenon, <1>1, <1>3
<1>6. samples' \in [Backends -> Seq(0..MaxTime)]
  BY Zenon, <1>2, PrunedWindows
<1>7. QED
  BY Zenon, <1>2, <1>3, <1>4, <1>5, <1>6, PrunedWindows DEF Windows

\* record appends the newest sample and keeps the last MaxSamples.
LEMMA RecordWindows ==
  ASSUME Windows, now \in 0..MaxTime, NEW b \in Backends, Record(b), UNCHANGED now
  PROVE  Windows'
<1> DEFINE w == Pruned[b]
           grown == Append(w, now)
           k == IF Len(grown) > MaxSamples THEN Len(grown) - MaxSamples + 1 ELSE 1
<1>1. w \in Seq(0..MaxTime) /\ InOrder(w) /\ Len(w) \in Nat /\ Len(w) <= MaxSamples
  BY PrunedWindows
<1>2. now \in Int /\ Recorded(b) = SubSeq(grown, k, Len(grown))
  BY DEF Recorded
<1> HIDE DEF w
<1>3. /\ grown \in Seq(0..MaxTime) /\ Len(grown) = Len(w) + 1 /\ grown[Len(w) + 1] = now
      /\ \A i \in 1..Len(w) : grown[i] = w[i]
  BY <1>1
<1> HIDE DEF grown
<1>4. InOrder(grown)
  <2>1. \A i \in 1..Len(grown) : grown[i] <= now
    <3>1. \A i \in 1..Len(grown) : i \in 1..Len(w) \/ i = Len(w) + 1
      BY <1>1, <1>3
    <3>2. QED
      BY <1>1, <1>2, <1>3, <3>1 DEF InOrder
  <2>2. ASSUME NEW i \in 1..Len(grown) - 1 PROVE grown[i] <= grown[i + 1]
    <3>1. CASE i = Len(w)
      <4>1. i \in 1..Len(w) /\ grown[i] = w[i] /\ grown[i + 1] = now
        BY <1>1, <1>3, <3>1
      <4>2. QED
        BY Zenon, <1>1, <4>1 DEF InOrder
    <3>2. CASE i # Len(w)
      <4>1. i \in 1..Len(w) - 1 /\ i \in 1..Len(w) /\ i + 1 \in 1..Len(w)
        BY <1>1, <1>3, <3>2
      <4>2. grown[i] = w[i] /\ grown[i + 1] = w[i + 1]
        BY Zenon, <1>3, <4>1
      <4>3. QED
        BY Zenon, <1>1, <4>1, <4>2 DEF InOrder
    <3>3. QED
      BY Zenon, <3>1, <3>2
  <2>3. QED
    BY Zenon, <1>3, <2>1, <2>2 DEF InOrder
<1>5. k \in 1..Len(grown) + 1 /\ Len(grown) - k + 1 \in 1..MaxSamples
  BY <1>1, <1>3, PredictorFacts
<1> HIDE DEF k
<1>6. InOrder(Recorded(b)) /\ Len(Recorded(b)) = Len(grown) - k + 1
  BY Zenon, <1>2, <1>4, <1>5, Suffix
<1>7. /\ Recorded(b) \in Seq(0..MaxTime) /\ Len(Recorded(b)) \in 1..MaxSamples
      /\ Recorded(b) # <<>>
  BY <1>5, <1>6 DEF InOrder
<1>8. samples' = [Pruned EXCEPT ![b] = Recorded(b)] /\ models' = Without(Expired)
  BY Zenon DEF Record
<1>9. samples' \in [Backends -> Seq(0..MaxTime)]
  BY Zenon, <1>7, <1>8, PrunedWindows
<1>10. models' \in [Backends -> 0..MaxSamples]
  BY Zenon, <1>8, PrunedModels DEF Without
<1>11. ASSUME NEW x \in Backends
       PROVE  /\ InOrder(samples'[x]) /\ Len(samples'[x]) <= MaxSamples
              /\ models'[x] # 0 => samples'[x] # <<>>
  <2>1. CASE x = b
    BY <1>6, <1>7, <1>8, <2>1, PrunedWindows, PredictorFacts
  <2>2. CASE x # b
    BY Zenon, <1>8, <2>2, PrunedWindows, PrunedModels
  <2>3. QED
    BY Zenon, <2>1, <2>2
<1>12. \A v : InOrder(v)' <=> InOrder(v)
  BY Zenon DEF InOrder
<1>13. QED
  BY Zenon, <1>9, <1>10, <1>11, <1>12 DEF Windows

LEMMA WindowsStep == IInv /\ [Next]_vars => Windows'
<1> SUFFICES ASSUME IInv, [Next]_vars PROVE Windows'
  BY Zenon
<1>1. Windows /\ now \in 0..MaxTime
  BY Zenon DEF IInv, Observing
<1>2. CASE UNCHANGED <<now, predictor>>
  BY Zenon, <1>1, <1>2 DEF predictor, Windows, InOrder
<1>3. CASE Tick
  <2>1. now' = now + 1 /\ UNCHANGED <<samples, models>>
    BY Zenon, <1>3 DEF Tick, predictor
  <2>2. ASSUME NEW b \in Backends PROVE InOrder(samples[b])'
    <3>1. samples[b] \in Seq(0..MaxTime) /\ \A i \in 1..Len(samples[b]) : samples[b][i] <= now
      BY Zenon, <1>1 DEF Windows, InOrder
    <3>2. \A i \in 1..Len(samples[b]) : samples[b][i] \in Int
      BY <3>1, PredictorFacts
    <3>3. \A i \in 1..Len(samples[b]) : samples[b][i] <= now'
      BY <1>1, <2>1, <3>1, <3>2
    <3>4. QED
      BY Zenon, <1>1, <2>1, <3>3 DEF Windows, InOrder
  <2>3. QED
    BY Zenon, <1>1, <2>1, <2>2 DEF Windows
<1>4. CASE \/ Discover \/ Lifecycle \/ BuildFails \/ Shutdown \/ RenderMoves \/ Observe
           \/ ObserveStops \/ Exited \/ UNCHANGED vars
           \/ \E c \in Callers : Renders(c) \/ Rejected(c) \/ RenderGivesUp(c) \/ Complete(c)
  <2>1. UNCHANGED <<now, predictor>>
    BY Zenon, <1>4 DEF Discover, Lifecycle, Build, CloseOwner, Exit, Drained, BuildFails, Shutdown,
                RenderMoves, Observe, ObserveStops, Exited, vars, world, Renders, Rejected,
                RenderGivesUp, Complete
  <2>2. QED
    BY Zenon, <1>2, <2>1
<1>5. CASE LoopReconcile
  BY Zenon, <1>1, <1>5, ReconcileWindows DEF LoopReconcile, world
<1>6. ASSUME NEW c \in Callers, Accept(c) PROVE Windows'
  <2>1. UNCHANGED now /\ (Reconcile(members) \/ UNCHANGED predictor)
    BY Zenon, <1>6 DEF Accept
  <2>2. QED
    BY Zenon, <1>1, <1>2, <2>1, ReconcileWindows
<1>7. ASSUME NEW c \in Callers, Decide(c) PROVE Windows'
  <2>1. UNCHANGED now
    BY Zenon, <1>7 DEF Decide, world
  <2>2. UNCHANGED predictor \/ \E among, loads : Begin(among, loads)
    BY Zenon, <1>7 DEF Decide
  <2>3. QED
    BY Zenon, <1>1, <1>2, <2>1, <2>2, BeginWindows
<1>8. ASSUME NEW c \in Callers, FirstEvent(c) PROVE Windows'
  <2>1. UNCHANGED now /\ (UNCHANGED predictor \/ \E b \in Backends : Record(b))
    BY Zenon, <1>8 DEF FirstEvent, world, IInv, Tickets
  <2>2. QED
    BY Zenon, <1>1, <1>2, <2>1, RecordWindows
<1>9. QED
  BY Zenon, <1>3, <1>4, <1>5, <1>6, <1>7, <1>8 DEF Next, Handler

-----------------------------------------------------------------------------
(* Tickets.                                                                *)

\* A load that a reader finds valid was read from the engine at most MaxAge ago.
LEMMA SeenLoad ==
  ASSUME Observing, NEW list, NEW b, Seen(list, b).load.valid
  PROVE  now - Seen(list, b).load.read \in Int /\ now - Seen(list, b).load.read <= MaxAge
<1>1. b \in DOMAIN Snapshot(list)
  BY Zenon DEF Seen, Unseen, NoSample
<1>2. b \in DOMAIN obs.states /\ Seen(list, b).load = freshSample(obs.states[b].load)
  BY Zenon, <1>1 DEF Seen, Snapshot
<1> DEFINE s == obs.states[b].load
<1>3. s \in Samples /\ (s.valid => s.at = s.read)
  <2>1. PICK D \in SUBSET Backends : obs.states \in [D -> Readings]
    BY Zenon DEF Observing, Maps
  <2>2. obs.states[b] \in Readings
    BY Zenon, <1>2, <2>1
  <2>3. QED
    BY Zenon, <1>2, <2>2 DEF Readings, Observing, Stamped
<1> HIDE DEF s
<1>4. /\ freshSample(s).read = s.read
      /\ freshSample(s).valid = (s.valid /\ now - s.at <= MaxAge)
  <2>1. "valid" \in DOMAIN s /\ "read" \in DOMAIN s
    BY Zenon, <1>3 DEF Samples
  <2>2. freshSample(s).read = s.read
    BY Zenon, <2>1 DEF freshSample
  <2>3. freshSample(s).valid = (s.valid /\ now - s.at <= MaxAge)
    BY <2>1, Zenon DEF freshSample
  <2>4. QED
    BY Zenon, <2>2, <2>3
<1>5. freshSample(s).valid
  BY Zenon, <1>2 DEF s
<1>6. s.valid /\ now - s.at <= MaxAge
  BY <1>4, <1>5, Zenon
<1>7. s.at \in Int /\ s.read \in Int /\ now \in Int
  BY <1>3 DEF Samples, Observing
<1>8. QED
  BY <1>2, <1>3, <1>4, <1>6, <1>7 DEF s

LEMMA NoTicketType == NoTicket \in TicketRecords /\ NoTicket.age <= MaxAge
  BY PredictorFacts DEF NoTicket, TicketRecords

LEMMA TicketsFrame ==
  ASSUME Tickets, NEW c \in Callers, NEW S \in SUBSET Backends,
         snap' \in {snap, [snap EXCEPT ![c] = S]},
         ticket' \in {ticket, [ticket EXCEPT ![c] = NoTicket]}
  PROVE  Tickets'
<1>1. snap' \in [Callers -> SUBSET Backends]
  BY Zenon DEF Tickets
<1>2. ticket' \in [Callers -> TicketRecords]
  BY Zenon, NoTicketType DEF Tickets
<1>3. \A d \in Callers : ticket'[d] = ticket[d] \/ ticket'[d] = NoTicket
  BY Zenon DEF Tickets
<1>4. QED
  BY Zenon, <1>1, <1>2, <1>3, NoTicketType DEF Tickets

LEMMA TicketsStep == IInv /\ [Next]_vars => Tickets'
<1> SUFFICES ASSUME IInv, [Next]_vars PROVE Tickets'
  BY Zenon
<1>1. Tickets /\ Observing /\ members \subseteq Backends
  BY Zenon DEF IInv, Observing
<1>2. CASE \/ Tick \/ Discover \/ Lifecycle \/ BuildFails \/ Shutdown \/ LoopReconcile \/ RenderMoves
           \/ Observe \/ ObserveStops \/ Exited \/ UNCHANGED vars
           \/ \E c \in Callers : Renders(c) \/ RenderGivesUp(c)
  <2>1. UNCHANGED <<snap, ticket>>
    BY Zenon, <1>2 DEF Tick, Discover, Lifecycle, Build, CloseOwner, Exit, Drained, BuildFails, Shutdown,
                LoopReconcile, RenderMoves, Observe, ObserveStops, Exited, vars, Renders,
                RenderGivesUp, path
  <2>2. QED
    BY Zenon, <1>1, <2>1 DEF Tickets
<1>3. ASSUME NEW c \in Callers, Accept(c) PROVE Tickets'
  <2>1. UNCHANGED ticket /\ snap' \in {snap, [snap EXCEPT ![c] = members]}
    BY Zenon, <1>3 DEF Accept
  <2>2. QED
    BY Zenon, <1>1, <2>1, TicketsFrame
<1>4. ASSUME NEW c \in Callers, Rejected(c) \/ FirstEvent(c) \/ Complete(c) PROVE Tickets'
  <2>1. /\ snap' \in {snap, [snap EXCEPT ![c] = {}]}
        /\ ticket' \in {ticket, [ticket EXCEPT ![c] = NoTicket]}
    BY Zenon, <1>4 DEF Rejected, FirstEvent, Complete
  <2>2. QED
    BY Zenon, <1>1, <2>1, TicketsFrame
<1>5. ASSUME NEW c \in Callers, Decide(c) PROVE Tickets'
  <2>1. snap' = [snap EXCEPT ![c] = {}]
    BY Zenon, <1>5 DEF Decide
  <2>2. CASE UNCHANGED ticket
    BY Zenon, <1>1, <2>1, <2>2, TicketsFrame
  <2>3. CASE ~UNCHANGED ticket
    <3>1. PICK eligible \in SUBSET snap[c] : \E b :
            LET among == Candidates(snap[c], eligible)
                loads == [x \in among |-> Seen(snap[c], x).load]
            IN  /\ b \in among /\ loads[b].valid
                /\ ticket' = [ticket EXCEPT ![c] = [to |-> b, age |-> now - loads[b].read]]
      BY <1>5, <2>3 DEF Decide
    <3>2. PICK b : LET l == Seen(snap[c], b).load
                   IN  /\ b \in Candidates(snap[c], eligible) /\ l.valid
                       /\ ticket' = [ticket EXCEPT ![c] = [to |-> b, age |-> now - l.read]]
      BY Zenon, <3>1
    <3>3. b \in Backends
      BY Zenon, <1>1, <3>2 DEF Candidates, Tickets
    <3>4. PICK age \in Int : age = now - Seen(snap[c], b).load.read /\ age <= MaxAge
      BY Zenon, <1>1, <3>2, SeenLoad
    <3>5. ticket' = [ticket EXCEPT ![c] = [to |-> b, age |-> age]]
      BY Zenon, <3>2, <3>4
    <3>6. [to |-> b, age |-> age] \in TicketRecords
      BY Zenon, <3>3 DEF TicketRecords
    <3>7. ticket' \in [Callers -> TicketRecords]
      BY Zenon, <1>1, <3>5, <3>6 DEF Tickets
    <3>8. \A d \in Callers : ticket'[d] = ticket[d] \/ ticket'[d] = [to |-> b, age |-> age]
      BY Zenon, <1>1, <3>5 DEF Tickets
    <3>9. snap' \in [Callers -> SUBSET Backends]
      BY Zenon, <1>1, <2>1 DEF Tickets
    <3>10. QED
      BY <1>1, <3>3, <3>4, <3>7, <3>8, <3>9 DEF Tickets
  <2>4. QED
    BY Zenon, <2>2, <2>3
<1>6. QED
  BY Zenon, <1>2, <1>3, <1>4, <1>5 DEF Next, Handler

-----------------------------------------------------------------------------
LEMMA InitIInv == Init => IInv
<1> SUFFICES ASSUME Init PROVE IInv
  BY Zenon
<1>1. Dialing
  <2>1. /\ address = NoAddress /\ resolving = FALSE /\ at = [c \in Callers |-> "out"]
        /\ target = [c \in Callers |-> NoAddress]
    BY Zenon DEF Init, InitRender
  <2>2. OneLookup
    BY Zenon, <2>1 DEF OneLookup
  <2>3. QED
    BY Zenon, <2>1, <2>2 DEF Dialing, Points
<1>2. Closed
  BY DEF Init, InitObservation, Closed, Procs
<1>3. Waited
  BY Zenon DEF Init, Waited, Controls
<1>4. Observing
  <2>1. now = 0 /\ members = Backends /\ now \in 0..MaxTime
    BY PredictorFacts DEF Init
  <2>2. obs = [phase |-> "off", cancelled |-> FALSE, list |-> {}, began |-> 0,
               next |-> <<>>, states |-> <<>>]
    BY Zenon DEF Init, InitObservation
  <2>3. obs \in ObsRecords
    BY Zenon, <2>1, <2>2, EmptyMap DEF ObsRecords, Phases
  <2>4. QED
    BY Zenon, <2>1, <2>2, <2>3, EmptyMap DEF Observing, ObsRecords
<1>5. Windows
  <2>1. samples = [b \in Backends |-> <<>>] /\ models = [b \in Backends |-> 0]
    BY Zenon DEF Init, InitPredictor
  <2>2. InOrder(<<>>) /\ <<>> \in Seq(0..MaxTime) /\ Len(<<>>) = 0
    BY DEF InOrder
  <2>3. QED
    BY <2>1, <2>2, PredictorFacts DEF Windows
<1>6. Tickets
  BY Zenon, NoTicketType DEF Init, Tickets
<1>7. QED
  BY Zenon, <1>1, <1>2, <1>3, <1>4, <1>5, <1>6 DEF IInv

LEMMA Invariance == Spec => []IInv
<1>1. IInv /\ [Next]_vars => IInv'
  BY Zenon, DialingStep, ClosedStep, WaitedStep, ObservingStep, WindowsStep, TicketsStep DEF IInv
<1>2. QED
  BY <1>1, InitIInv, PTL DEF Spec

\* renderAddressResolver: however many dials share the cache, whichever of them fail,
\* expire or give up, one lookup runs at a time, resolving says so, and a dial waits
\* only while it runs.
THEOREM LookupIsShared == Spec => []OneLookup
<1>1. IInv => OneLookup
  BY Zenon DEF IInv, Dialing
<1>2. QED
  BY <1>1, Invariance, PTL

\* runtime.Close, from any stage of buildRuntime and after any shutdown: every owner
\* is closed before what it depends on, and run returns with none left open.
THEOREM OwnersCloseInOrder == Spec => []ClosesInOrder
<1>1. IInv => ClosesInOrder
  <2> SUFFICES ASSUME IInv PROVE ClosesInOrder
    BY Zenon
  <2>1. /\ CloseOrder[2] = "requestPath" /\ CloseOrder[3] = "kvCache"
        /\ CloseOrder[4] = "observations" /\ CloseOrder[5] = "resolver"
        /\ CloseOrder[7] = "transport"
    BY Zenon DEF CloseOrder
  <2>2. \A i, j \in 1..7 : i < j /\ CloseOrder[i] \in owned \ closed => CloseOrder[j] \notin closed
    BY Zenon DEF IInv, Closed
  <2>3. "requestPath" \in owned \ closed => closed \cap {"kvCache", "resolver", "transport"} = {}
    BY <2>1, <2>2
  <2>4. obs.phase \in {"idle", "refresh"} => "resolver" \notin closed
    BY <2>1, <2>2 DEF IInv, Closed
  <2>5. closed # {} /\ ~timedOut => \A c \in Callers : pc[c] = "none"
    BY Zenon DEF IInv, Closed, Waited
  <2>6. proc = "exited" => closed = owned /\ obs.phase \in {"off", "stopped"}
    BY Zenon DEF IInv, Closed, Observing, Phases
  <2>7. QED
    BY Zenon, <2>3, <2>4, <2>5, <2>6 DEF ClosesInOrder
<1>2. QED
  BY <1>1, Invariance, PTL

\* The tracker's windows and models, and the tickets that fill them, whatever the
\* scrapes, requests, reconciliations and departures do: fresh loads, bounded windows
\* in the order of time, and no model without samples.
THEOREM SamplesAreSound == Spec => []TrainingIsSound
<1>1. IInv => TrainingIsSound
  <2> SUFFICES ASSUME IInv PROVE TrainingIsSound
    BY Zenon
  <2>1. obs.phase \in Phases /\ DOMAIN obs.states \subseteq Backends
    BY Zenon DEF IInv, Observing, Maps
  <2>2. TypeOK
    BY Zenon, <2>1 DEF IInv, Observing, Windows, Dialing, Closed, TypeOK
  <2>3. QED
    BY Zenon, <2>2 DEF IInv, Windows, InOrder, Tickets, TrainingIsSound
<1>2. QED
  BY <1>1, Invariance, PTL
=============================================================================
