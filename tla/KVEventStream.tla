--------------------------- MODULE KVEventStream ---------------------------
(***************************************************************************)
(* One eventStream of internal/serving/kvcache: the live and the replay    *)
(* goroutine of one vLLM Pod, the published stream state they share, the   *)
(* Pod's part of the index, and the Pod itself.                            *)
(*                                                                         *)
(* A batch is its engine generation, its sequence number and what is wrong *)
(* with it, if anything.  The index is the set of batches applied since    *)
(* the last Clear.  processMu is held by the goroutine whose program       *)
(* counter is in Critical; every step is one critical section of s.mu, one *)
(* call of the store, or one message.                                      *)
(***************************************************************************)
EXTENDS Integers, Sequences

CONSTANTS
  MaxSeq,            \* bound: highest sequence number a generation publishes
  MaxSeqRestarted,   \* bound: the same after a restart
  MaxGen,            \* bound: engine generations (1 = the engine never restarts)
  BadAt,             \* bound: sequence numbers whose batch may not be "ok"
  WireCap,           \* SUB receive queue: messages beyond it are dropped
  Retention,         \* replay buffer of the engine, in batches
  MaxReplayEvents,   \* Config.MaxReplayEvents
  ClearOutcomes,     \* subset of BOOLEAN: may index.Clear fail
  MayRetire          \* whether Reconcile may retire this stream

ASSUME StreamConstants ==
  /\ MaxSeq \in Nat /\ MaxGen \in Nat \ {0} /\ BadAt \subseteq Nat
  /\ MaxSeqRestarted \in 0..MaxSeq
  /\ WireCap \in Nat /\ Retention \in Nat \ {0} /\ MaxReplayEvents \in Nat \ {0}
  /\ ClearOutcomes \in SUBSET BOOLEAN /\ TRUE \in ClearOutcomes
  /\ MayRetire \in BOOLEAN

VARIABLES
  gen, log,                    \* the engine: its generation, kinds published
  wire,                        \* batches in the SUB socket, oldest first
  pc,                          \* control point of each goroutine
  ev,                          \* the batch in accept, under processMu
  requested, resp, count,      \* replay: first sequence, replies to come, handled
  hasSeq, lastSeq, gapUntil,   \* eventStream fields guarded by s.mu
  reason, heartbeat, life,     \* life: where Reconcile's retirement has got to
  index,                       \* the Pod's batches in the store
  servedHead, confirmed,       \* history: head of the log when the pending / the
                               \* last confirmed replay was answered
  base, resets, faulted        \* history: first sequence since the last Clear,
                               \* causes of the resets so far, fatal reason seen

engine  == <<gen, log>>
replay  == <<requested, resp, count, servedHead>>
state   == <<hasSeq, lastSeq, gapUntil, reason, heartbeat, life>>
history == <<confirmed, base, resets, faulted>>
vars    == <<engine, wire, pc, ev, replay, state, index, history>>

Threads  == {"live", "replay"}
Kinds    == {"ok", "too_large", "foreign_topic", "unsupported"}
Batch    == [gen : 1..MaxGen, seq : 0..MaxSeq, kind : Kinds]
NoBatch  == [gen |-> 1, seq |-> 0, kind |-> "ok"]
Critical == {"clear", "apply", "commit"}
Places   == {"down", "open", "idle", "asked", "recv", "check", "stopped"} \cup Critical

NonFatal == {"none", "replay_not_confirmed", "sequence_gap", "sequence_reset"}
Fatal    == {"event_too_large", "event_decode_failed", "unsupported_event",
             "event_apply_failed", "engine_request_key_mismatch",
             "unrecoverable_sequence_gap", "replay_capacity_exceeded",
             "lifecycle_changing", "closed"}
Reasons  == NonFatal \cup Fatal

ResetMaxNearZero == 1
ResetMinPrevious == 4

isSequenceReset(sequence, previous) ==
  /\ sequence <= ResetMaxNearZero
  /\ previous >= ResetMinPrevious
  /\ sequence < previous \div 2

nextSequence == IF hasSeq THEN lastSeq + 1 ELSE 0
Bug_hasFatalReason == reason \in Fatal \cup {"sequence_gap"}
hasFatalReason == reason \in Fatal

closed == life \in {"closed", "cleared"}

\* eventStream.Snapshot: the Valid flag that Lookup and State publish.
Valid == ~closed /\ reason = "none" /\ heartbeat = "fresh"

\* processMu is free.
Unlocked == \A t \in Threads : pc[t] \notin Critical
Goto(t, place) == pc' = [pc EXCEPT ![t] = place]
Home(t) == IF t = "live" THEN "open" ELSE "recv"

\* What a goroutine held for one Follow or one replayOnce is dropped.
Forget(t) ==
  IF t = "live" THEN wire' = <<>> /\ UNCHANGED replay
  ELSE /\ requested' = 0 /\ resp' = <<>> /\ count' = 0 /\ servedHead' = 0
       /\ UNCHANGED wire

Init ==
  /\ gen = 1 /\ log = <<>> /\ wire = <<>>
  /\ pc = [t \in Threads |-> IF t = "live" THEN "down" ELSE "idle"]
  /\ ev = NoBatch
  /\ requested = 0 /\ resp = <<>> /\ count = 0 /\ servedHead = 0
  /\ hasSeq = FALSE /\ lastSeq = 0 /\ gapUntil = 0
  /\ reason = "replay_not_confirmed" /\ heartbeat = "zero" /\ life = "active"
  /\ index = {}
  /\ confirmed = 0 /\ base = 0 /\ resets = {} /\ faulted = FALSE

-----------------------------------------------------------------------------
(* The engine and its sockets (external).                                  *)

Connected == pc["live"] \in {"open"} \cup Critical
\* decodeReplayMessage: a replayed batch always carries the instance's topic.
BatchAt(i) ==
  [gen |-> gen, seq |-> i - 1, kind |-> IF log[i] = "foreign_topic" THEN "ok" ELSE log[i]]

\* PUB sends the batch; the subscriber's queue takes it or drops it.
Publish(kind) ==
  /\ Len(log) <= IF gen = 1 THEN MaxSeq ELSE MaxSeqRestarted
  /\ kind # "ok" => Len(log) \in BadAt
  /\ log' = Append(log, kind)
  /\ \/ wire' = wire
     \/ /\ Connected /\ Len(wire) < WireCap
        /\ wire' = Append(wire, [gen |-> gen, seq |-> Len(log), kind |-> kind])
  /\ UNCHANGED <<gen, pc, ev, replay, state, index, history>>

\* The process restarts inside the same Pod: an empty cache, sequences from 0.
\* Messages already in the subscriber's queue stay there.
Restart ==
  /\ gen < MaxGen /\ log # <<>>
  /\ gen' = gen + 1 /\ log' = <<>>
  /\ UNCHANGED <<wire, pc, ev, replay, state, index, history>>

-----------------------------------------------------------------------------
(* accept: live and replay batches, serialised by processMu.               *)

Bug_invalidateAndClear(t, why) ==
  /\ UNCHANGED <<reason, faulted>>
  /\ index' = {} /\ Goto(t, "check") /\ ev' = NoBatch

\* Invalidate, then Clear; the handler returns an error.
invalidateAndClear(t, why) ==
  /\ reason' = why /\ faulted' = TRUE
  /\ \E cleared \in ClearOutcomes : index' = IF cleared THEN {} ELSE index
  /\ Goto(t, "check") /\ ev' = NoBatch

WellFormed(e) == e.kind \in {"ok", "unsupported"}

AcceptMalformed(t, e) ==
  /\ \/ e.kind = "too_large" /\ invalidateAndClear(t, "event_too_large")
     \/ e.kind = "foreign_topic" /\ invalidateAndClear(t, "event_decode_failed")
  /\ UNCHANGED <<hasSeq, lastSeq, gapUntil, heartbeat, base, resets>>

\* classifySequence, reset branch: forget the generation, then clear.
AcceptReset(t, e) ==
  /\ WellFormed(e) /\ hasSeq /\ isSequenceReset(e.seq, lastSeq)
  /\ hasSeq' = FALSE /\ lastSeq' = 0 /\ gapUntil' = 0
  /\ heartbeat' = "zero" /\ reason' = "sequence_reset"
  /\ ev' = e /\ Goto(t, "clear")
  /\ resets' = resets \cup
       {IF \E b \in index : b[1] = e.gen THEN "delayed" ELSE "restart"}
  /\ UNCHANGED <<index, base, faulted>>

Ordinary(e) == WellFormed(e) /\ ~(hasSeq /\ isSequenceReset(e.seq, lastSeq))

AcceptDuplicate(t, e) ==
  /\ Ordinary(e) /\ e.seq < nextSequence
  /\ UNCHANGED <<pc, ev, hasSeq, lastSeq, gapUntil, reason, heartbeat, index,
                 base, resets, faulted>>

IsExpected(e) == e.seq = nextSequence

AcceptNext(t, e) ==
  /\ Ordinary(e) /\ IsExpected(e)
  /\ ev' = e /\ Goto(t, "apply")
  /\ UNCHANGED <<hasSeq, lastSeq, gapUntil, reason, heartbeat, index, base,
                 resets, faulted>>

\* A live batch too far ahead waits for replay; a replayed one is fatal.
AcceptGap(t, e) ==
  /\ Ordinary(e) /\ e.seq > nextSequence
  /\ \/ /\ t = "live" /\ reason' = "sequence_gap"
        /\ gapUntil' = IF e.seq > gapUntil THEN e.seq ELSE gapUntil
        /\ Goto(t, "check") /\ UNCHANGED <<ev, index, faulted>>
     \/ /\ t = "replay" /\ invalidateAndClear(t, "unrecoverable_sequence_gap")
        /\ UNCHANGED gapUntil
  /\ UNCHANGED <<hasSeq, lastSeq, heartbeat, base, resets>>

accept(t, e) ==
  /\ Unlocked
  /\ \/ AcceptMalformed(t, e) \/ AcceptReset(t, e) \/ AcceptDuplicate(t, e)
     \/ AcceptNext(t, e) \/ AcceptGap(t, e)
  /\ UNCHANGED <<life, confirmed>>

Bug_ClearAfterReset(t) ==
  /\ pc[t] = "clear" /\ base' = ev.seq /\ Goto(t, "apply")
  /\ UNCHANGED <<engine, wire, ev, replay, state, index, confirmed, resets, faulted>>

\* store.Clear after a reset.
ClearAfterReset(t) ==
  /\ pc[t] = "clear"
  /\ \E cleared \in ClearOutcomes :
       IF cleared
       THEN /\ index' = {} /\ base' = ev.seq /\ Goto(t, "apply")
            /\ UNCHANGED <<ev, reason, faulted>>
       ELSE /\ reason' = "event_apply_failed" /\ faulted' = TRUE
            /\ Goto(t, "check") /\ ev' = NoBatch /\ UNCHANGED <<index, base>>
  /\ UNCHANGED <<engine, wire, replay, hasSeq, lastSeq, gapUntil, heartbeat,
                 life, confirmed, resets>>

\* The parents a stored block may name: the earlier batches of its generation.
ParentMissing(e) == \E s \in 0..(e.seq - 1) : <<e.gen, s>> \notin index
\* Blocks of another generation may hold the engine key with other tokens.
KeyMismatch(e) == \E b \in index : b[1] # e.gen

Apply(t) ==
  /\ pc[t] = "apply"
  /\ \/ /\ ev.kind = "ok"
        /\ index' = index \cup {<<ev.gen, ev.seq>>} /\ Goto(t, "commit")
        /\ UNCHANGED <<ev, reason, faulted>>
     \/ /\ ev.kind = "unsupported"
        /\ invalidateAndClear(t, "unsupported_event")
     \/ /\ ev.kind = "ok" /\ ParentMissing(ev)
        /\ invalidateAndClear(t, "event_apply_failed")
     \/ /\ ev.kind = "ok" /\ KeyMismatch(ev)
        /\ invalidateAndClear(t, "engine_request_key_mismatch")
  /\ UNCHANGED <<engine, wire, replay, hasSeq, lastSeq, gapUntil, heartbeat,
                 life, confirmed, base, resets>>

Commit(t) ==
  /\ pc[t] = "commit"
  /\ hasSeq' = TRUE /\ lastSeq' = ev.seq /\ Goto(t, Home(t)) /\ ev' = NoBatch
  /\ UNCHANGED <<engine, wire, replay, gapUntil, reason, heartbeat, life,
                 index, history>>

-----------------------------------------------------------------------------
(* runLive.                                                                *)

\* Follow opens a new socket: what was sent meanwhile is gone.
LiveConnect ==
  /\ pc["live"] = "down" /\ ~closed
  /\ Goto("live", "open")
  /\ UNCHANGED <<engine, wire, ev, replay, state, index, history>>

LiveReceive ==
  /\ pc["live"] = "open" /\ wire # <<>>
  /\ accept("live", Head(wire)) /\ wire' = Tail(wire)
  /\ UNCHANGED <<engine, replay>>

\* Follow returns a transport error.
LiveDisconnect ==
  /\ pc["live"] = "open" /\ Goto("live", "check")
  /\ UNCHANGED <<engine, wire, ev, replay, state, index, history>>

-----------------------------------------------------------------------------
(* runReplay and replayOnce.                                               *)

ReplayAsk ==
  /\ pc["replay"] = "idle" /\ ~closed
  /\ IF hasFatalReason
     THEN Goto("replay", "check") /\ UNCHANGED replay
     ELSE /\ Goto("replay", "asked")
          /\ requested' = nextSequence /\ count' = 0
          /\ UNCHANGED <<resp, servedHead>>
  /\ UNCHANGED <<engine, wire, ev, state, index, history>>

\* The engine answers with what its buffer still holds from requested on.
ReplayServe ==
  /\ pc["replay"] = "asked" /\ Goto("replay", "recv")
  /\ LET oldest == IF Len(log) > Retention THEN Len(log) - Retention ELSE 0
         first  == IF requested > oldest THEN requested ELSE oldest
     IN  resp' = [i \in 1..(IF Len(log) > first THEN Len(log) - first ELSE 0) |->
                     BatchAt(first + i)]
  /\ servedHead' = Len(log) /\ requested' = 0
  /\ UNCHANGED <<engine, wire, ev, count, state, index, history>>

AtCapacity == count >= MaxReplayEvents

ReplayReceive ==
  /\ pc["replay"] = "recv" /\ resp # <<>>
  /\ resp' = Tail(resp)
  /\ \/ /\ AtCapacity /\ Unlocked
        /\ invalidateAndClear("replay", "replay_capacity_exceeded")
        /\ UNCHANGED <<count, hasSeq, lastSeq, gapUntil, heartbeat, life,
                       confirmed, base, resets>>
     \/ /\ ~AtCapacity /\ count' = count + 1
        /\ accept("replay", Head(resp))
  /\ UNCHANGED <<engine, wire, requested, servedHead>>

\* The reply was cut short: timeout, transport or decoding error.
ReplayFail ==
  /\ pc["replay"] \in {"asked", "recv"}
  /\ Goto("replay", "check") /\ resp' = <<>>
  /\ UNCHANGED <<engine, wire, ev, requested, count, servedHead, state, index, history>>

Bug_EndReceived == pc["replay"] = "recv"
EndReceived == pc["replay"] = "recv" /\ resp = <<>>

\* The replay has reached the furthest live batch seen ahead of the sequence.
Bug_Healed == reason = "sequence_gap" /\ hasSeq /\ lastSeq > gapUntil
Healed == reason = "sequence_gap" /\ hasSeq /\ lastSeq >= gapUntil

\* END received: only now freshness is renewed and a gap may close.
ReplayEnd ==
  /\ EndReceived
  /\ heartbeat' = "fresh" /\ confirmed' = servedHead
  /\ reason' = IF reason \in {"replay_not_confirmed", "sequence_reset"} \/ Healed
               THEN "none" ELSE reason
  /\ gapUntil' = IF Healed THEN 0 ELSE gapUntil
  /\ Goto("replay", "check")
  /\ UNCHANGED <<engine, wire, ev, replay, hasSeq, lastSeq, life, index, base,
                 resets, faulted>>

\* hasFatalReason after Follow (whose socket is closed) and after replayOnce.
Check(t) ==
  /\ pc[t] = "check"
  /\ Goto(t, IF hasFatalReason THEN "stopped" ELSE IF t = "live" THEN "down" ELSE "idle")
  /\ Forget(t)
  /\ UNCHANGED <<engine, ev, state, index, history>>

\* More than FreshnessTTL passes without an END.
Age ==
  /\ heartbeat = "fresh" /\ heartbeat' = "stale"
  /\ UNCHANGED <<engine, wire, pc, ev, replay, hasSeq, lastSeq, gapUntil, reason,
                 life, index, history>>

-----------------------------------------------------------------------------
(* Retirement by Reconcile: Invalidate, Close (cancel and wait), Clear.    *)

Invalidate ==
  /\ MayRetire /\ life = "active" /\ life' = "invalidated"
  /\ reason' = "lifecycle_changing" /\ faulted' = TRUE
  /\ UNCHANGED <<engine, wire, pc, ev, replay, hasSeq, lastSeq, gapUntil, heartbeat,
                 index, confirmed, base, resets>>

Close ==
  /\ life = "invalidated" /\ life' = "closed"
  /\ reason' = IF reason \in {"none", "replay_not_confirmed"} THEN "closed" ELSE reason
  /\ UNCHANGED <<engine, wire, pc, ev, replay, hasSeq, lastSeq, gapUntil, heartbeat,
                 index, history>>

\* A goroutine sees the cancelled context between two handler calls.
Exit(t) ==
  /\ closed /\ pc[t] \notin Critical \cup {"stopped"}
  /\ Goto(t, "stopped") /\ Forget(t)
  /\ UNCHANGED <<engine, ev, state, index, history>>

Bug_Drained == TRUE

\* s.wg.Wait() has returned.
Drained == \A t \in Threads : pc[t] = "stopped"

\* A failed Clear leaves the closed stream to the next Reconcile.
RetireClear ==
  /\ life = "closed" /\ Drained
  /\ index' = {} /\ life' = "cleared"
  /\ UNCHANGED <<engine, wire, pc, ev, replay, hasSeq, lastSeq, gapUntil, reason,
                 heartbeat, history>>

-----------------------------------------------------------------------------
Next ==
  \/ \E kind \in Kinds : Publish(kind)
  \/ Restart
  \/ \E t \in Threads : ClearAfterReset(t) \/ Apply(t) \/ Commit(t) \/ Check(t) \/ Exit(t)
  \/ LiveConnect \/ LiveReceive \/ LiveDisconnect
  \/ ReplayAsk \/ ReplayServe \/ ReplayReceive \/ ReplayFail \/ ReplayEnd
  \/ Age \/ Invalidate \/ Close \/ RetireClear

Spec == Init /\ [][Next]_vars

(* The goroutines run, the ticker fires and the engine answers; a replay   *)
(* may fail any number of times but not always.  Nothing is assumed of     *)
(* publishing, dropping, restarting or retiring.                           *)
FairSpec ==
  /\ Spec
  /\ WF_vars(LiveConnect) /\ SF_vars(LiveReceive)
  /\ \A t \in Threads : /\ WF_vars(ClearAfterReset(t)) /\ WF_vars(Apply(t))
                        /\ WF_vars(Commit(t)) /\ WF_vars(Check(t))
  /\ WF_vars(ReplayAsk) /\ SF_vars(ReplayServe)
  /\ SF_vars(ReplayReceive) /\ SF_vars(ReplayEnd)

-----------------------------------------------------------------------------
\* Types; a replay never handles more than MaxReplayEvents batches (replayOnce).
TypeOK ==
  /\ gen \in 1..MaxGen /\ log \in Seq(Kinds) /\ Len(log) <= MaxSeq + 1
  /\ wire \in Seq(Batch) /\ resp \in Seq(Batch)
  /\ pc \in [Threads -> Places]
  /\ ev \in Batch
  /\ requested \in 0..(MaxSeq + 1) /\ count \in 0..MaxReplayEvents
  /\ servedHead \in 0..(MaxSeq + 1) /\ confirmed \in 0..(MaxSeq + 1)
  /\ hasSeq \in BOOLEAN /\ lastSeq \in 0..MaxSeq /\ gapUntil \in 0..MaxSeq
  /\ reason \in Reasons /\ heartbeat \in {"zero", "fresh", "stale"}
  /\ life \in {"active", "invalidated", "closed", "cleared"}
  /\ index \subseteq (1..MaxGen) \X (0..MaxSeq)
  /\ base \in 0..MaxSeq
  /\ resets \subseteq {"delayed", "restart"} /\ faulted \in BOOLEAN

Sequences_ == {b[2] : b \in index}

\* last_sequence = N means that Lookup can observe batch N (accept commits the
\* sequence only after Apply), whenever the stream is published as valid.
CommittedIsObservable ==
  Valid /\ hasSeq => lastSeq \in Sequences_

\* As long as no fatal reason was set, the index holds exactly the sequences
\* from the last (re)build up to lastSeq: loss, delay, reconnects, replays and
\* resets never leave a hole, whenever processMu is free (classifySequence, accept).
NoHoles ==
  ~faulted /\ Unlocked => Sequences_ = IF hasSeq THEN base..lastSeq ELSE {}

\* A valid stream of an engine that never reset holds every batch the engine
\* had published when it answered the replay that confirmed freshness.
FreshIsComplete ==
  Valid /\ ~faulted /\ resets = {} /\ gen = 1 =>
    \A s \in 0..(confirmed - 1) : <<1, s>> \in index

\* After Reconcile has closed the stream and cleared the Pod, no late event of
\* the old goroutines reaches the index again (Close waits for both).
NoWriteAfterRetire == life = "cleared" => index = {}

\* sequence_gap "awaiting replay" ends as long as runReplay has not left its loop:
\* the next replay closes the gap or gives the stream the fatal reason why it cannot
\* (the buffer starts later, too many events).  A gap seen by live after that stays:
\* classifySequence puts sequence_gap over the fatal reason, and nothing replays.
GapIsResolved ==
  (reason = "sequence_gap" /\ pc["replay"] # "stopped" /\ ~closed)
    ~> (reason # "sequence_gap" \/ closed)

\* A stream that meets no fatal reason becomes complete: every batch the engine
\* published is in the index, lost live messages included.
IndexCatchesUp ==
  <>[](faulted \/ \A s \in 0..(Len(log) - 1) : <<gen, s>> \in index)

-----------------------------------------------------------------------------
(* What the comments and stage notes of the repository say of the stream   *)
(* and its code does not guarantee.                                        *)

\* Stage 69: after an engine restart inside the Pod, the old sequence having
\* advanced far enough for a reset to be recognised, the stream does not go on
\* showing Valid with the old generation's index.
RestartIsNoticed ==
  (gen = 2 /\ log # <<>> /\ lastSeq >= ResetMinPrevious /\ index = {1} \X (0..lastSeq))
    ~> ~(Valid /\ \E b \in index : b[1] = 1)
=============================================================================
