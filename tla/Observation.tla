---------------------------- MODULE Observation ----------------------------
(***************************************************************************)
(* internal/serving/observation: the loop that scrapes every discovered    *)
(* backend and publishes what it saw, and the freshness rules of the       *)
(* readers.  The Pod identities of internal/serving/identity decide        *)
(* whether resource metrics can be queried at all.  A sample keeps the     *)
(* time it is stamped with and, as a history field, the earliest time the  *)
(* engine can have read the value.  Statuses and error texts, which        *)
(* nothing but a dashboard reads, are left out.                            *)
(***************************************************************************)
EXTENDS Integers

CONSTANTS
  Backends,      \* backend.IDs discovery may publish
  MaxAge         \* Config.MaxAge

ASSUME ObservationConstants == MaxAge \in Nat \ {0}

VARIABLES
  now,           \* the clock
  members,       \* what resolver.Snapshot returns
  obs            \* the observation service

\* phase: not built, between refreshes, in refresh, loop returned.  list and began
\* describe the refresh under way; next and states are the two maps.
Phases == {"off", "idle", "refresh", "stopped"}

\* A load is the pair queue and running; overload a resource sample at its limit.
NoSample == [valid |-> FALSE, at |-> 0, read |-> 0]
Sample(at, read) == [valid |-> TRUE, at |-> at, read |-> read]
Unseen == [load |-> NoSample, overload |-> NoSample]

InitObservation ==
  obs = [phase |-> "off", cancelled |-> FALSE, list |-> {}, began |-> 0,
         next |-> <<>>, states |-> <<>>]

\* New: the loop starts and refreshes at once.
StartLoop == obs' = [obs EXCEPT !.phase = "idle"]

\* refresh up to the collectors.  When discovery fails the old states stay.
BeginRefresh ==
  /\ obs.phase = "idle"
  /\ obs' = [obs EXCEPT !.phase = "refresh", !.list = members, !.began = now, !.next = <<>>]

\* What the vLLM endpoint yields: nothing recognised (or no answer), or a load
\* stamped with the time t before the fetch, which Enrich may have delayed.
Bug_Collect(t) == {NoSample, Sample(now, t)}
Collect(t) == {NoSample, Sample(t, t)}

\* The Pod name of the backend's EndpointSlice entry, as Enrich passes it on: empty
\* without a targetRef, or when the list of Pods cannot be read.
Identities == {"pod", ""}

\* The resource queries follow the fetch and need the name of the Pod; their samples
\* are stamped with the time t before the first of them.
CollectRuntime(pod, t) == {NoSample} \cup (IF pod # "" THEN {Sample(t, t)} ELSE {})

\* One collector goroutine ends.
EndCollect(b) ==
  /\ obs.phase = "refresh" /\ b \in obs.list \ DOMAIN obs.next
  /\ \E pod \in Identities, t \in obs.began..now : \E u \in t..now :
     \E l \in Collect(t), r \in CollectRuntime(pod, u) :
       obs' = [obs EXCEPT !.next = [x \in DOMAIN @ \cup {b} |->
                 IF x = b THEN [load |-> l, overload |-> r] ELSE @[x]]]

\* wait.Wait, and the new states replace the old ones.
EndRefresh ==
  /\ obs.phase = "refresh" /\ DOMAIN obs.next = obs.list
  /\ obs' = [obs EXCEPT !.phase = "idle", !.states = obs.next, !.next = <<>>,
                        !.list = {}, !.began = 0]

\* The loop sees ctx.Done between two refreshes.
StopLoop ==
  /\ obs.phase = "idle" /\ obs.cancelled
  /\ obs' = [obs EXCEPT !.phase = "stopped"]

CancelLoop == obs' = [obs EXCEPT !.cancelled = TRUE]

freshSample(sample) == [sample EXCEPT !.valid = @ /\ now - sample.at <= MaxAge]

\* Snapshot, restricted to a list of backends (activeObservations).
Snapshot(list) ==
  [b \in DOMAIN obs.states \cap list |->
     [load |-> freshSample(obs.states[b].load),
      overload |-> freshSample(obs.states[b].overload)]]

\* What the request path makes of one backend.
Seen(list, b) == IF b \in DOMAIN Snapshot(list) THEN Snapshot(list)[b] ELSE Unseen
=============================================================================
