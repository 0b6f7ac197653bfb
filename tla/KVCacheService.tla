--------------------------- MODULE KVCacheService ---------------------------
(***************************************************************************)
(* The service of internal/serving/kvcache above its event streams:        *)
(* Reconcile, Lookup and Close, called concurrently by requests, by the    *)
(* reconcile loop and at shutdown (cmd/fishmesh-gateway/composition.go).   *)
(*                                                                         *)
(* An event stream (module KVEventStream) is here an incarnation s of an   *)
(* instance that writes blocks into the index under the instance's Pod     *)
(* identifier; the index remembers which incarnation wrote them.           *)
(***************************************************************************)
EXTENDS Naturals, FiniteSets

CONSTANTS
  Instances,      \* [backend, uid, pod]: what kvInstance may build
  Callers,        \* goroutines that call Reconcile
  MaxInstances,   \* Config.MaxInstances
  MaxCalls        \* bound: Reconcile calls

ASSUME ServiceConstants ==
  /\ Instances \subseteq [backend : STRING, uid : STRING, pod : STRING]
  /\ IsFiniteSet(Instances) /\ Instances # {}
  /\ IsFiniteSet(Callers) /\ Callers \cap {"free", "close"} = {}
  /\ MaxInstances \in Nat \ {0} /\ MaxCalls \in Nat \ {0}

VARIABLES
  streams, closed, mutex,      \* service.streams, .closed, .reconcileMu
  inst, life, valid,           \* per stream: instance, "none".."closed", Snapshot().Valid
  writing,                     \* streams inside store.Apply
  index,                       \* Pod identifier -> incarnations whose blocks it holds
  made, calls,                 \* stream objects and calls so far
  pc, seen, next, todo,        \* per caller: control point, what it wants, ...
  at,                          \* ... and the stream it is retiring
  look, sel, found             \* the Lookup: control point, selected streams, blocks read

obj    == <<inst, life, valid, writing>>
rec    == <<pc, seen, next, todo, at>>
lookup == <<look, sel, found>>
vars   == <<streams, closed, mutex, obj, index, made, calls, rec, lookup>>

Backends == {i.backend : i \in Instances}
Pods     == {i.pod : i \in Instances}
MaxStreams == MaxCalls * MaxInstances
Ids      == 1..MaxStreams
None     == 0
Free     == "free"
Closer   == "close"
Procs    == Callers \cup {Closer}
NoMap    == [b \in Backends |-> None]
Running  == {s \in Ids : life[s] = "started"}

Init ==
  /\ streams = NoMap /\ closed = FALSE /\ mutex = Free
  /\ inst = [s \in Ids |-> CHOOSE i \in Instances : TRUE]
  /\ life = [s \in Ids |-> "none"] /\ valid = {} /\ writing = {}
  /\ index = [p \in Pods |-> {}] /\ made = 0 /\ calls = 0
  /\ pc = [c \in Procs |-> "idle"]
  /\ seen = [c \in Callers |-> {}]
  /\ next = [c \in Callers |-> NoMap] /\ todo = [c \in Procs |-> {}]
  /\ at = [c \in Procs |-> None]
  /\ look = "idle" /\ sel = NoMap /\ found = [b \in Backends |-> {}]

Goto(c, place) == pc' = [pc EXCEPT ![c] = place]

-----------------------------------------------------------------------------
(* Reconcile.                                                              *)

\* validateInstances: at most MaxInstances, no duplicate backend, UID or Pod.
Validated(D) ==
  /\ Cardinality(D) <= MaxInstances
  /\ \A i, j \in D : i # j =>
       i.backend # j.backend /\ i.uid # j.uid /\ i.pod # j.pod

\* What discovery may publish: one instance per backend.
Memberships == {V \in SUBSET Instances : \A i, j \in V : i.backend = j.backend => i = j}

\* kvAwareReconcile: reconcileBackends passes the whole membership it read; a
\* KV-aware request passes the candidates whose circuit is not open
\* (EligibleBackends), again a set of Memberships.  An invalid set changes nothing.
Call(c) ==
  /\ pc[c] = "idle" /\ calls < MaxCalls /\ calls' = calls + 1
  /\ \E D \in Memberships :
       IF Validated(D)
       THEN seen' = [seen EXCEPT ![c] = D] /\ Goto(c, "lock")
       ELSE UNCHANGED <<seen, pc>>
  /\ UNCHANGED <<streams, closed, mutex, obj, index, made, next, todo, at, lookup>>

Finish(c) == mutex' = Free /\ Goto(c, "idle") /\ next' = [next EXCEPT ![c] = NoMap]

\* Existing streams of exactly the wanted instance that are not closed.
Kept(D) == {i \in D : /\ streams[i.backend] # None /\ inst[streams[i.backend]] = i
                      /\ life[streams[i.backend]] # "closed"}
Added(D) == D \ Kept(D)
Current == {streams[b] : b \in Backends} \ {None}

\* The stream objects newEventStream makes for the instances of A.
NewStreams(A) ==
  CHOOSE f \in [A -> (made + 1)..(made + Cardinality(A))] : \A i, j \in A : f[i] = f[j] => i = j

\* reconcileMu, isClosed, streamSnapshot and reconcileChanges.
Lock(c) ==
  /\ pc[c] = "lock" /\ mutex = Free /\ seen' = [seen EXCEPT ![c] = {}]
  /\ IF closed THEN Goto(c, "idle") /\ UNCHANGED <<mutex, made, inst, next, todo>>
     ELSE LET D     == seen[c]
              kept  == {streams[i.backend] : i \in Kept(D)}
              added == Added(D)
              new   == NewStreams(added)
          IN  /\ next' = [next EXCEPT ![c] = [b \in Backends |->
                   IF \E i \in D : i.backend = b
                   THEN LET i == CHOOSE i \in D : i.backend = b
                        IN  IF i \in added THEN new[i] ELSE streams[b]
                   ELSE None]]
              /\ inst' = [s \in Ids |-> IF \E i \in added : new[i] = s
                                        THEN CHOOSE i \in added : new[i] = s ELSE inst[s]]
              /\ made' = made + Cardinality(added)
              /\ todo' = [todo EXCEPT ![c] = Current \ kept]
              /\ mutex' = c /\ Goto(c, "retire")
  /\ UNCHANGED <<streams, closed, life, valid, writing, index, calls, at, lookup>>

\* Invalidate, then Close up to wg.Wait.
Shut(s) == life' = [life EXCEPT ![s] = "closed"] /\ valid' = valid \ {s}

Retire(c) ==
  /\ pc[c] = "retire" /\ todo[c] # {} /\ Goto(c, "clear")
  /\ \E s \in todo[c] : /\ Shut(s) /\ at' = [at EXCEPT ![c] = s]
                        /\ todo' = [todo EXCEPT ![c] = @ \ {s}]
  /\ UNCHANGED <<streams, closed, mutex, inst, writing, index, made, calls,
                 seen, next, lookup>>

Bug_Drained(s) == TRUE
Drained(s) == s \notin writing

Bug_ClearFailed(c) ==
  /\ todo' = [todo EXCEPT ![c] = {}] /\ next' = [next EXCEPT ![c] = NoMap]
  /\ Goto(c, "idle") /\ UNCHANGED mutex
\* An error of store.Clear ends the call; the closed streams stay published.
ClearFailed(c) == todo' = [todo EXCEPT ![c] = {}] /\ Finish(c)

\* After wg.Wait: store.Clear.
Clear(c) ==
  /\ pc[c] = "clear" /\ c # Closer /\ Drained(at[c])
  /\ \/ /\ index' = [index EXCEPT ![inst[at[c]].pod] = {}] /\ Goto(c, "retire")
        /\ UNCHANGED <<mutex, next, todo>>
     \/ ClearFailed(c) /\ UNCHANGED index
  /\ at' = [at EXCEPT ![c] = None]
  /\ UNCHANGED <<streams, closed, obj, made, calls, seen, lookup>>

Publish(c) ==
  /\ pc[c] = "retire" /\ c # Closer /\ todo[c] = {} /\ Goto(c, "start")
  /\ streams' = next[c]
  /\ UNCHANGED <<closed, mutex, obj, index, made, calls, seen, next, todo, at, lookup>>

Start(c) ==
  /\ pc[c] = "start" /\ Finish(c)
  /\ life' = [s \in Ids |-> IF s \in Current /\ life[s] = "none" THEN "started" ELSE life[s]]
  /\ UNCHANGED <<streams, closed, inst, valid, writing, index, made, calls, seen, todo, at, lookup>>

-----------------------------------------------------------------------------
(* Close.                                                                  *)

CloseCall ==
  /\ pc[Closer] = "idle" /\ ~closed /\ Goto(Closer, "lock")
  /\ UNCHANGED <<streams, closed, mutex, obj, index, made, calls, seen, next, todo, at, lookup>>

Bug_CloseLock ==
  /\ pc[Closer] = "lock"
  /\ mutex' = Closer /\ closed' = TRUE /\ Goto(Closer, "retire")
  /\ todo' = [todo EXCEPT ![Closer] = Current]
  /\ UNCHANGED <<streams, obj, index, made, calls, seen, next, at, lookup>>
CloseLock ==
  /\ pc[Closer] = "lock" /\ mutex = Free
  /\ mutex' = Closer /\ closed' = TRUE /\ Goto(Closer, "retire")
  /\ todo' = [todo EXCEPT ![Closer] = Current]
  /\ UNCHANGED <<streams, obj, index, made, calls, seen, next, at, lookup>>

\* Unlike Reconcile, a failed Clear is only collected.
CloseClear ==
  /\ pc[Closer] = "clear" /\ Drained(at[Closer])
  /\ \E cleared \in BOOLEAN :
       index' = IF cleared THEN [index EXCEPT ![inst[at[Closer]].pod] = {}] ELSE index
  /\ at' = [at EXCEPT ![Closer] = None] /\ Goto(Closer, "retire")
  /\ UNCHANGED <<streams, closed, mutex, obj, made, calls, seen, next, todo, lookup>>

CloseReturn ==
  /\ pc[Closer] = "retire" /\ todo[Closer] = {}
  /\ mutex' = Free /\ Goto(Closer, "done")
  /\ UNCHANGED <<streams, closed, obj, index, made, calls, seen, next, todo, at, lookup>>

-----------------------------------------------------------------------------
(* The goroutines of a stream.                                             *)

\* A goroutine enters accept.
BeginApply(s) ==
  /\ s \in Running \ writing /\ writing' = writing \cup {s}
  /\ UNCHANGED <<streams, closed, mutex, inst, life, valid, index, made, calls, rec, lookup>>

\* The batch is applied, or fails and the Pod is cleared.
EndApply(s) ==
  /\ s \in writing /\ writing' = writing \ {s}
  /\ \/ index' = [index EXCEPT ![inst[s].pod] = @ \cup {s}] /\ UNCHANGED valid
     \/ index' = [index EXCEPT ![inst[s].pod] = {}] /\ valid' = valid \ {s}
  /\ UNCHANGED <<streams, closed, mutex, inst, life, made, calls, rec, lookup>>

\* A replay END makes the stream valid; staleness or a gap makes it invalid.
Turn(s) ==
  /\ s \in Running
  /\ \/ s \notin valid /\ valid' = valid \cup {s}
     \/ s \in valid /\ valid' = valid \ {s}
  /\ UNCHANGED <<streams, closed, mutex, inst, life, writing, index, made, calls, rec, lookup>>

-----------------------------------------------------------------------------
(* Lookup.                                                                 *)

\* Without a valid stream the Lookup reads no index and returns no match.
LookupInputs ==
  /\ look = "idle" /\ ~closed /\ \E b \in Backends : streams[b] \in valid
  /\ sel' = [b \in Backends |-> IF streams[b] \in valid THEN streams[b] ELSE None]
  /\ look' = "read"
  /\ UNCHANGED <<streams, closed, mutex, obj, index, made, calls, rec, found>>

LookupStore ==
  /\ look = "read" /\ look' = "check"
  /\ found' = [b \in Backends |-> IF sel[b] = None THEN {} ELSE index[inst[sel[b]].pod]]
  /\ UNCHANGED <<streams, closed, mutex, obj, index, made, calls, rec, sel>>

Bug_StillCurrent(b) == sel[b] # None /\ streams[b] # None
\* currentState: the published stream is still the selected one.
StillCurrent(b) == sel[b] # None /\ streams[b] = sel[b]

LookupCurrent ==
  /\ look = "check" /\ look' = "confirm"
  /\ sel' = [b \in Backends |-> IF StillCurrent(b) THEN streams[b] ELSE None]
  /\ UNCHANGED <<streams, closed, mutex, obj, index, made, calls, rec, found>>

\* Its Snapshot: the match of backend b is valid, with the blocks found[b].
Matched(b) == look = "confirm" /\ sel[b] \in valid

\* The matches are returned.
LookupReturn ==
  /\ look = "confirm" /\ look' = "idle"
  /\ sel' = NoMap /\ found' = [b \in Backends |-> {}]
  /\ UNCHANGED <<streams, closed, mutex, obj, index, made, calls, rec>>

-----------------------------------------------------------------------------
Reconcile(c) == Lock(c) \/ Retire(c) \/ Clear(c) \/ Publish(c) \/ Start(c)
CloseStep    == CloseLock \/ Retire(Closer) \/ CloseClear \/ CloseReturn

Next ==
  \/ CloseCall \/ CloseStep
  \/ \E c \in Callers : Call(c) \/ Reconcile(c)
  \/ \E s \in Ids : BeginApply(s) \/ EndApply(s) \/ Turn(s)
  \/ LookupInputs \/ LookupStore \/ LookupCurrent \/ LookupReturn

Spec == Init /\ [][Next]_vars

\* Calls that entered Reconcile or Close run on (which of them gets the mutex is
\* left open: there are finitely many), and a goroutine of a canceled stream comes
\* out of store.Apply, an in-memory index.  Nobody has to call, and a running
\* stream need not receive anything.
FairSpec ==
  /\ Spec /\ WF_vars(CloseStep \/ \E c \in Callers : Reconcile(c))
  /\ WF_vars(\E s \in Ids : life[s] = "closed" /\ EndApply(s))

-----------------------------------------------------------------------------
\* Types; only a running stream is valid.
TypeOK ==
  /\ streams \in [Backends -> 0..MaxStreams]
  /\ closed \in BOOLEAN /\ mutex \in Procs \cup {Free}
  /\ inst \in [Ids -> Instances] /\ life \in [Ids -> {"none", "started", "closed"}]
  /\ valid \subseteq Running /\ writing \subseteq Ids /\ index \in [Pods -> SUBSET Ids]
  /\ pc \in [Procs -> {"idle", "lock", "retire", "clear", "start", "done"}]

\* Two incarnations never mix in the index under one Pod identifier, although an
\* IP is reused by a new Pod: a stream is stopped and cleared before its
\* successor starts (Reconcile's order).
OneWriterPerPod == \A p \in Pods : Cardinality(index[p]) <= 1

\* Lookup never returns, as valid, blocks of an incarnation other than the one
\* published when it returned (its second check).
NoOldInstanceHit == \A b \in Backends : Matched(b) => found[b] \subseteq {sel[b]}

\* With the types: nothing is without an owner that a later Reconcile or Close
\* retires, in the middle of a Reconcile included: every running stream is published,
\* at most MaxInstances run, none after Close, and the blocks of a Pod belong to a
\* published stream (a Reconcile whose Clear failed keeps the closed stream published).
NothingOrphaned ==
  /\ TypeOK
  /\ Running \subseteq Current /\ \A p \in Pods : index[p] \subseteq Current
  /\ Cardinality(Running) <= MaxInstances
  /\ pc[Closer] = "done" => Running = {}

\* Nobody waits for ever: of the calls of Reconcile and Close that were made every
\* one returns, although it waits for reconcileMu behind other calls and, holding it,
\* for the goroutines of the streams it retires (eventStream.Close's wg.Wait).
CallsReturn == <>[](\A c \in Procs : pc[c] \in {"idle", "done"})
===========================================================================
