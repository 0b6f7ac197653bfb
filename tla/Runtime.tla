------------------------------ MODULE Runtime ------------------------------
(***************************************************************************)
(* The gateway process of cmd/fishmesh-gateway: start-up stage by stage,   *)
(* serving, graceful shutdown, and Close in reverse order of dependency;   *)
(* composed with the observation loop, the shadow predictor and the Render *)
(* client, which its requests and its background loops share.              *)
(*                                                                         *)
(* The process is seen at the granularity of its owners: a request's       *)
(* decision is one step (service.selection), so is a reconcile; module     *)
(* RequestPath takes both apart.                                           *)
(***************************************************************************)
EXTENDS Predictor, Render

CONSTANTS
  Svc,                       \* config.Service.ID
  InFlight,                  \* bound: the callers of each scene
  MaxTime, MaxRequests, MaxChanges    \* bounds: clock, requests, memberships

ASSUME RuntimeConstants ==
  /\ Svc \notin Backends /\ {MaxTime, MaxRequests, MaxChanges} \subseteq Nat
  /\ InFlight \in [{"dial", "train", "stop"} -> SUBSET Callers]

VARIABLES
  scene,               \* bound: which of the three loads the process meets
  kvAware, observing,  \* configuration: routing mode, observation mode
  proc, stage,         \* run(): where it is, stage of buildRuntime
  owned, closed,       \* owners assembled, owners closed
  timedOut,            \* Shutdown gave up on requests in flight
  changes, served,     \* counters of the bounds
  pc, snap,            \* per request: control point, membership read
  ticket               \* per request: prediction ticket

config  == <<scene, kvAware, observing>>
process == <<config, proc, stage, owned, closed, timedOut>>
world   == <<now, members, changes, served>>
path    == <<pc, snap, ticket>>
vars    == <<world, obs, predictor, render, process, path>>

NoTicket == [to |-> Svc, age |-> 0]
Procs    == {"building", "serving", "draining", "closing", "exited"}

\* "dial": Render restarts and its address expires while requests dial it.
\* "train": the clock runs, the membership changes, Render and the engines' metrics
\* endpoints answer and KV lookups may succeed.
\* "stop": signals and listen errors, in every configuration; the world stands still.
\* What one of them moves leaves the others' properties alone.
Scenes ==
  {<<"dial", TRUE, FALSE, "none">>, <<"train", TRUE, TRUE, "plenty">>}
    \cup {<<"stop", k, o, "plenty">> : k, o \in BOOLEAN}

Init ==
  /\ now = 0 /\ members = Backends /\ changes = 0 /\ served = 0
  /\ InitObservation /\ InitPredictor /\ InitRender
  /\ scene \in {"dial", "train", "stop"} /\ kvAware \in BOOLEAN /\ observing \in BOOLEAN
  /\ <<scene, kvAware, observing, idle>> \in Scenes
  /\ proc = "building" /\ stage = 1 /\ owned = {} /\ closed = {} /\ timedOut = FALSE
  /\ pc = [c \in Callers |-> "none"] /\ snap = [c \in Callers |-> {}]
  /\ ticket = [c \in Callers |-> NoTicket]

Tick ==
  /\ scene = "train" /\ proc = "serving" /\ now < MaxTime /\ now' = now + 1
  /\ UNCHANGED <<members, changes, served, obs, predictor, render, process, path>>

Discover ==
  /\ scene = "train" /\ proc = "serving" /\ changes < MaxChanges /\ changes' = changes + 1
  /\ \E S \in SUBSET Backends : S # members /\ members' = S
  /\ UNCHANGED <<now, served, obs, predictor, render, process, path>>

-----------------------------------------------------------------------------
(* buildRuntime and Close.                                                 *)

Stages ==
  <<{"resolver"}, {"observations"}, {"transport", "tuner"}, {"renderClient"}, {"kvCache"},
    {}, {"requestPath"}, {}>>        \* 6: predictor, 8: the gateway's handler

Disabled ==
  (IF kvAware THEN {} ELSE {"renderClient", "kvCache"})
    \cup (IF observing THEN {} ELSE {"observations"})

\* One stage succeeds; the observation loop starts in its constructor.
Build ==
  /\ proc = "building" /\ owned' = owned \cup (Stages[stage] \ Disabled)
  /\ IF stage = Len(Stages) THEN proc' = "serving" /\ UNCHANGED stage
                            ELSE stage' = stage + 1 /\ UNCHANGED proc
  /\ IF "observations" \in owned' \ owned THEN StartLoop ELSE UNCHANGED obs
  /\ UNCHANGED <<world, predictor, render, config, closed, timedOut, path>>

\* One stage fails: what was assembled is closed, and run returns the error.
BuildFails ==
  /\ proc = "building" /\ proc' = "closing"
  /\ UNCHANGED <<world, obs, predictor, render, config, stage, owned, closed, timedOut, path>>

Bug_CloseOrder ==
  <<"tuner", "requestPath", "resolver", "kvCache", "observations", "renderClient", "transport">>
CloseOrder ==
  <<"tuner", "requestPath", "kvCache", "observations", "resolver", "renderClient", "transport">>

\* The owners still to be closed, by their place in the order.
Open == {i \in 1..Len(CloseOrder) : CloseOrder[i] \in owned \ closed}

\* One owner's Close; that of the observations waits for its loop.
CloseOwner ==
  /\ proc = "closing"
  /\ \E i \in Open :
       /\ \A j \in Open : i <= j
       /\ IF CloseOrder[i] = "observations" /\ obs.phase # "stopped"
          THEN ~obs.cancelled /\ CancelLoop /\ UNCHANGED closed
          ELSE closed' = closed \cup {CloseOrder[i]} /\ UNCHANGED obs
  /\ idle' = IF "renderClient" \in closed' THEN "none" ELSE idle
  /\ UNCHANGED <<world, predictor, service, moves, address, resolving, at, target, config,
                 proc, stage, owned, timedOut, path>>

\* run returns and main exits.
Exit ==
  /\ proc = "closing" /\ Open = {} /\ proc' = "exited"
  /\ UNCHANGED <<world, obs, predictor, render, config, stage, owned, closed, timedOut, path>>

\* A signal, or ListenAndServe fails: no new requests.
Shutdown ==
  /\ scene = "stop" /\ proc = "serving" /\ proc' = "draining"
  /\ UNCHANGED <<world, obs, predictor, render, config, stage, owned, closed, timedOut, path>>

Bug_Drained ==
  /\ proc = "draining" /\ proc' = "closing"
  /\ \A c \in Callers : pc[c] = "none"
  /\ UNCHANGED <<world, obs, predictor, render, config, stage, owned, closed, timedOut, path>>

\* Shutdown returns when no request is left, or when its timeout ends.
Drained ==
  /\ proc = "draining" /\ proc' = "closing"
  /\ timedOut' = (\E c \in Callers : pc[c] # "none")
  /\ UNCHANGED <<world, obs, predictor, render, config, stage, owned, closed, path>>

-----------------------------------------------------------------------------
(* Requests and background loops, while the process lives.                 *)

Alive == proc # "exited"

\* A tick of the reconcile loop: reconcileBackends, as far as the predictor.
LoopReconcile ==
  /\ Alive /\ "requestPath" \in owned \ closed
  /\ Reconcile(members)
  /\ UNCHANGED <<world, obs, render, process, path>>

\* A request is accepted and reconciles with the membership it reads; without one
\* it goes on with no candidates.
Accept(c) ==
  /\ proc = "serving" /\ c \in InFlight[scene] /\ pc[c] = "none" /\ served < MaxRequests /\ served' = served + 1
  /\ \/ snap' = [snap EXCEPT ![c] = members] /\ Reconcile(members)
     \/ UNCHANGED <<snap, predictor>>
  /\ IF kvAware THEN Tokenize(c) /\ pc' = [pc EXCEPT ![c] = "render"]
                     /\ (scene = "train" => at'[c] \notin Failures)
                ELSE UNCHANGED render /\ pc' = [pc EXCEPT ![c] = "select"]
  /\ UNCHANGED <<now, members, changes, obs, process, ticket>>

\* The Render call of a KV-aware request.
Renders(c) ==
  /\ Alive /\ pc[c] = "render" /\ RenderStep(c)
  /\ scene = "train" => at'[c] \notin Failures
  /\ UNCHANGED <<world, obs, predictor, process, path>>

RenderGivesUp(c) ==
  /\ Alive /\ pc[c] = "render" /\ GiveUp(c)
  /\ UNCHANGED <<world, obs, predictor, process, path>>

RenderMoves ==
  /\ scene = "dial" /\ proc = "serving" /\ (Move \/ Expire)
  /\ UNCHANGED <<world, obs, predictor, process, path>>

\* Select returns an error: the handler answers it, without a lease.
Rejected(c) ==
  /\ Alive /\ pc[c] = "render" /\ at[c] = "reject"
  /\ pc' = [pc EXCEPT ![c] = "none"] /\ at' = [at EXCEPT ![c] = "out"]
  /\ snap' = [snap EXCEPT ![c] = {}]
  /\ UNCHANGED <<world, obs, predictor, service, moves, address, resolving, idle, target,
                 process, ticket>>

\* predictionInput: candidates that are eligible and not overloaded.
Candidates(list, eligible) == {b \in eligible : ~Seen(list, b).overload.valid}

\* The decision, under service.selection.  Which backend the strategy takes is
\* Selection's subject; a ticket needs a KV-aware decision and a valid load.
Decide(c) ==
  /\ Alive /\ (pc[c] = "select" \/ (pc[c] = "render" /\ at[c] \in {"ok", "degrade"}))
  /\ \E eligible \in SUBSET snap[c], lookup \in BOOLEAN :
       \E b \in IF eligible = {} THEN {Svc} ELSE eligible :
         LET among == Candidates(snap[c], eligible)
             loads == [x \in among |-> Seen(snap[c], x).load]
         IN  /\ lookup => scene = "train" /\ at[c] = "ok"
             /\ IF lookup /\ b \in among /\ loads[b].valid
                THEN /\ Begin(among, loads)
                     /\ ticket' = [ticket EXCEPT ![c] = [to |-> b, age |-> now - loads[b].read]]
                ELSE UNCHANGED <<predictor, ticket>>
  /\ pc' = [pc EXCEPT ![c] = "flight"] /\ snap' = [snap EXCEPT ![c] = {}]
  /\ at' = [at EXCEPT ![c] = "out"]
  /\ UNCHANGED <<world, obs, service, moves, address, resolving, idle, target, process>>

\* The first SSE event: the ticket records its sample, once.
FirstEvent(c) ==
  /\ Alive /\ pc[c] = "flight" /\ pc' = [pc EXCEPT ![c] = "stream"]
  /\ IF ticket[c] = NoTicket THEN UNCHANGED predictor
     ELSE Record(ticket[c].to)
  /\ ticket' = [ticket EXCEPT ![c] = NoTicket]
  /\ UNCHANGED <<world, obs, render, process, snap>>

\* Lease.Complete.
Complete(c) ==
  /\ Alive /\ pc[c] \in {"flight", "stream"} /\ pc' = [pc EXCEPT ![c] = "none"]
  /\ ticket' = [ticket EXCEPT ![c] = NoTicket]
  /\ UNCHANGED <<world, obs, predictor, render, process, snap>>

\* The observation loop.
Observe ==
  /\ Alive /\ (BeginRefresh \/ EndRefresh \/ \E b \in Backends : EndCollect(b))
  /\ scene = "train" \/ \A b \in DOMAIN obs'.next : obs'.next[b] = Unseen
  /\ UNCHANGED <<world, predictor, render, process, path>>

ObserveStops == Alive /\ StopLoop /\ UNCHANGED <<world, predictor, render, process, path>>

-----------------------------------------------------------------------------
Handler(c) ==
  Renders(c) \/ Rejected(c) \/ Decide(c)

Lifecycle == Build \/ CloseOwner \/ Exit \/ Drained

Exited == proc = "exited" /\ UNCHANGED vars

Next ==
  \/ Tick \/ Discover \/ Lifecycle \/ BuildFails \/ Shutdown \/ LoopReconcile \/ RenderMoves
  \/ Observe \/ ObserveStops
  \/ \E c \in Callers : \/ Accept(c) \/ Handler(c) \/ RenderGivesUp(c) \/ FirstEvent(c) \/ Complete(c)
  \/ Exited

(* The main goroutine and the loops run, a scrape has a timeout, and the   *)
(* loop's select takes ctx.Done in the end.  Nothing is assumed of the     *)
(* requests: an upstream may stream for ever.                              *)
Spec ==
  /\ Init /\ [][Next]_vars
  /\ WF_vars(Lifecycle) /\ WF_vars(LoopReconcile)
  /\ WF_vars(Observe) /\ SF_vars(ObserveStops)

-----------------------------------------------------------------------------
\* Types; only what was built is closed.
TypeOK ==
  /\ now \in 0..MaxTime /\ members \subseteq Backends
  /\ obs.phase \in Phases /\ DOMAIN obs.states \subseteq Backends
  /\ samples \in [Backends -> Seq(0..MaxTime)] /\ models \in [Backends -> 0..MaxSamples]
  /\ address \in Addresses \cup {NoAddress} /\ at \in [Callers -> Points]
  /\ proc \in Procs /\ closed \subseteq owned

\* What the predictor learns from is sound however long a scrape or a request takes
\* and whoever leaves meanwhile: a ticket's load was read from the engine at most
\* MaxAge before the decision; a window is bounded and in the order of time, which
\* pruneLocked's binary search needs; and no model outlives the samples of its
\* backend.
TrainingIsSound ==
  /\ TypeOK
  /\ \A c \in Callers : ticket[c].age <= MaxAge
  /\ \A b \in Backends :
       /\ Len(samples[b]) <= MaxSamples
       /\ \A i \in 1..Len(samples[b]) - 1 : samples[b][i] <= samples[b][i + 1]
       /\ models[b] # 0 => samples[b] # <<>>

\* cachedAddress: resolving is set exactly while one dial is looking the host up, so
\* no dial waits for a lookup that nobody performs and lookups never pile up.
OneLookup ==
  /\ \A c, d \in Callers : at[c] = "lookup" /\ at[d] = "lookup" => c = d
  /\ resolving <=> \E c \in Callers : at[c] = "lookup"
  /\ \A c \in Callers : at[c] = "wait" => resolving

\* Comments of main.run and runtime.Close: no background loop runs on a closed
\* dependency, a request in flight meets one only after a Shutdown that timed out,
\* and run never returns, from a failed start-up either, with an owner still open.
ClosesInOrder ==
  /\ "requestPath" \in owned \ closed => closed \cap {"kvCache", "resolver", "transport"} = {}
  /\ obs.phase \in {"idle", "refresh"} => "resolver" \notin closed
  /\ closed # {} /\ ~timedOut => \A c \in Callers : pc[c] = "none"
  /\ proc = "exited" => closed = owned /\ obs.phase \in {"off", "stopped"}

\* Once shutdown or a failed start-up begins, the process ends, though a stream never
\* does and a refresh is under way.
ProcessEnds == proc \in {"draining", "closing"} ~> proc = "exited"

\* A sample recorded late, after its backend left, does not stay: the next
\* reconcile drops it.
DepartedIsForgotten ==
  []<>(proc # "serving" \/ \A b \in Backends \ members : samples[b] = <<>>)
=============================================================================
