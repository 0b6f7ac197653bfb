------------------------ MODULE KVEventStreamProofs ------------------------
(***************************************************************************)
(* Proofs about KVEventStream, for every number of batches, generations,   *)
(* queue capacity, retention and replay capacity.                          *)
(***************************************************************************)
EXTENDS KVEventStream, TLAPS

\* A batch is its three fields.
LEMMA BatchFields ==
  ASSUME NEW e \in Batch
  PROVE  /\ e.gen \in 1..MaxGen /\ e.seq \in 0..MaxSeq /\ e.kind \in Kinds
BY Zenon DEF Batch

\* The local state a goroutine drops has its type afterwards.
LEMMA ForgetType ==
  ASSUME TypeOK, NEW t \in Threads, Forget(t)
  PROVE  /\ wire' \in Seq(Batch) /\ resp' \in Seq(Batch)
         /\ requested' \in 0..(MaxSeq + 1) /\ count' \in 0..MaxReplayEvents
         /\ servedHead' \in 0..(MaxSeq + 1)
<1>1. CASE t = "live"
  <2>1. wire' = <<>> /\ requested' = requested /\ resp' = resp /\ count' = count
        /\ servedHead' = servedHead
    BY Zenon, <1>1 DEF Forget, replay
  <2>2. QED
    BY <2>1 DEF TypeOK
<1>2. CASE t # "live"
  <2>1. wire' = wire /\ requested' = 0 /\ resp' = <<>> /\ count' = 0 /\ servedHead' = 0
    BY Zenon, <1>2 DEF Forget
  <2>2. QED
    BY <2>1, StreamConstants DEF TypeOK, StreamConstants
<1>3. QED
  BY Zenon, <1>1, <1>2

\* Entering a control point keeps pc a function into Places.
LEMMA GotoType ==
  ASSUME TypeOK, NEW t \in Threads, NEW place \in Places, Goto(t, place)
  PROVE  pc' \in [Threads -> Places]
BY Zenon DEF TypeOK, Goto

LEMMA InvalidateType ==
  ASSUME TypeOK, NEW t \in Threads, NEW why \in Reasons, invalidateAndClear(t, why)
  PROVE  /\ reason' \in Reasons /\ faulted' \in BOOLEAN
         /\ index' \subseteq (1..MaxGen) \X (0..MaxSeq)
         /\ pc' \in [Threads -> Places] /\ ev' \in Batch
BY StreamConstants, GotoType DEF StreamConstants, TypeOK, invalidateAndClear, Places, NoBatch, Batch, Kinds

\* accept keeps the types of everything it may write.
LEMMA AcceptType ==
  ASSUME TypeOK, NEW t \in Threads, NEW e \in Batch, accept(t, e)
  PROVE  /\ pc' \in [Threads -> Places] /\ ev' \in Batch
         /\ hasSeq' \in BOOLEAN /\ lastSeq' \in 0..MaxSeq /\ gapUntil' \in 0..MaxSeq
         /\ reason' \in Reasons /\ heartbeat' \in {"zero", "fresh", "stale"}
         /\ life' \in {"active", "invalidated", "closed", "cleared"}
         /\ index' \subseteq (1..MaxGen) \X (0..MaxSeq)
         /\ confirmed' \in 0..(MaxSeq + 1) /\ base' \in 0..MaxSeq
         /\ resets' \subseteq {"delayed", "restart"} /\ faulted' \in BOOLEAN
<1> USE StreamConstants, BatchFields DEF StreamConstants, Places, Critical
<1>0. "event_too_large" \in Reasons /\ "event_decode_failed" \in Reasons
      /\ "unrecoverable_sequence_gap" \in Reasons
  BY Zenon DEF Reasons, Fatal
<1>1. CASE AcceptMalformed(t, e)
  BY <1>0, <1>1, InvalidateType DEF AcceptMalformed, accept, TypeOK
<1>2. CASE AcceptReset(t, e)
  <2>1. resets' \subseteq {"delayed", "restart"}
    BY Zenon, <1>2 DEF AcceptReset, TypeOK
  <2>2. pc' \in [Threads -> Places]
    BY Zenon, <1>2, GotoType DEF AcceptReset
  <2>3. /\ hasSeq' = FALSE /\ lastSeq' = 0 /\ gapUntil' = 0 /\ heartbeat' = "zero"
        /\ reason' = "sequence_reset" /\ ev' = e /\ index' = index /\ base' = base
        /\ faulted' = faulted /\ life' = life /\ confirmed' = confirmed
    BY Zenon, <1>2 DEF AcceptReset, accept
  <2>4. hasSeq' \in BOOLEAN /\ faulted' \in BOOLEAN
    BY Zenon, <2>3 DEF TypeOK
  <2>5. reason' \in Reasons /\ heartbeat' \in {"zero", "fresh", "stale"}
    BY Zenon, <2>3 DEF Reasons, NonFatal
  <2>6. lastSeq' \in 0..MaxSeq /\ gapUntil' \in 0..MaxSeq
    BY <2>3
  <2>7. QED
    BY Zenon, <2>1, <2>2, <2>3, <2>4, <2>5, <2>6 DEF TypeOK
<1>3. CASE AcceptDuplicate(t, e)
  BY Zenon, <1>3 DEF AcceptDuplicate, accept, TypeOK
<1>4. CASE AcceptNext(t, e)
  BY <1>4, GotoType DEF AcceptNext, accept, TypeOK
<1>5. CASE AcceptGap(t, e)
  <2>1. CASE t = "live"
    BY <1>5, <2>1, GotoType DEF AcceptGap, accept, TypeOK, Reasons, NonFatal
  <2>2. CASE t = "replay"
    BY <1>0, <1>5, <2>2, InvalidateType DEF AcceptGap, accept, TypeOK
  <2>3. QED
    BY Zenon, <2>1, <2>2 DEF Threads
<1>6. QED
  BY Zenon, <1>1, <1>2, <1>3, <1>4, <1>5 DEF accept

-----------------------------------------------------------------------------
LEMMA TypeInit == Init => TypeOK
<1> SUFFICES ASSUME Init PROVE TypeOK
  BY Zenon
<1> USE StreamConstants DEF StreamConstants, Init
<1>1. pc \in [Threads -> Places]
  BY Zenon DEF Places
<1>2. ev \in Batch
  BY DEF NoBatch, Batch, Kinds
<1>3. reason \in Reasons
  BY Zenon DEF Reasons, NonFatal
<1>4. hasSeq \in BOOLEAN /\ faulted \in BOOLEAN
  BY Zenon
<1>5. log \in Seq(Kinds) /\ wire \in Seq(Batch) /\ resp \in Seq(Batch)
  OBVIOUS
<1>6. QED
  BY <1>1, <1>2, <1>3, <1>4, <1>5 DEF TypeOK

LEMMA TypeNext == TypeOK /\ [Next]_vars => TypeOK'
<1> SUFFICES ASSUME TypeOK, [Next]_vars PROVE TypeOK'
  BY Zenon
<1> USE StreamConstants DEF StreamConstants
<1>1. ASSUME NEW kind \in Kinds, Publish(kind) PROVE TypeOK'
  <2>1. [gen |-> gen, seq |-> Len(log), kind |-> kind] \in Batch
    <3>1. gen \in 1..MaxGen /\ log \in Seq(Kinds)
      BY Zenon DEF TypeOK
    <3>2. Len(log) <= MaxSeq \/ Len(log) <= MaxSeqRestarted
      BY Zenon, <1>1 DEF Publish
    <3>3. Len(log) \in 0..MaxSeq
      BY <3>1, <3>2
    <3>4. QED
      BY Zenon, <1>1, <3>1, <3>3 DEF Batch
  <2>2. log' \in Seq(Kinds) /\ Len(log') <= MaxSeq + 1
    BY <1>1 DEF Publish, TypeOK
  <2>3. wire' \in Seq(Batch)
    <3> DEFINE b == [gen |-> gen, seq |-> Len(log), kind |-> kind]
    <3>1. wire' = wire \/ wire' = Append(wire, b)
      BY Zenon, <1>1 DEF Publish
    <3>2. b \in Batch
      BY Zenon, <2>1
    <3> HIDE DEF b
    <3>3. wire \in Seq(Batch)
      BY Zenon DEF TypeOK
    <3>4. Append(wire, b) \in Seq(Batch)
      BY <3>2, <3>3
    <3>5. QED
      BY Zenon, <3>1, <3>3, <3>4
  <2>4. QED
    BY <1>1, <2>2, <2>3 DEF Publish, TypeOK, replay, state, history
<1>2. CASE Restart
  BY <1>2 DEF Restart, TypeOK, replay, state, history
<1>3. ASSUME NEW t \in Threads, ClearAfterReset(t) PROVE TypeOK'
  <2>1. PICK cleared \in ClearOutcomes :
          IF cleared
          THEN /\ index' = {} /\ base' = ev.seq /\ Goto(t, "apply")
               /\ UNCHANGED <<ev, reason, faulted>>
          ELSE /\ reason' = "event_apply_failed" /\ faulted' = TRUE
               /\ Goto(t, "check") /\ ev' = NoBatch /\ UNCHANGED <<index, base>>
    BY Zenon, <1>3 DEF ClearAfterReset
  <2>2. pc' \in [Threads -> Places]
    BY Zenon, <2>1, GotoType DEF Places, Critical
  <2>3. ev' \in Batch /\ base' \in 0..MaxSeq
    BY <2>1, BatchFields DEF TypeOK, NoBatch, Batch, Kinds
  <2>4. reason' \in Reasons /\ faulted' \in BOOLEAN
    BY Zenon, <2>1 DEF TypeOK, Reasons, Fatal
  <2>5. index' \subseteq (1..MaxGen) \X (0..MaxSeq)
    BY Zenon, <2>1 DEF TypeOK
  <2>6. QED
    BY Zenon, <1>3, <2>2, <2>3, <2>4, <2>5 DEF ClearAfterReset, TypeOK, engine, replay
<1>4. ASSUME NEW t \in Threads, Apply(t) PROVE TypeOK'
  <2>1. /\ reason' \in Reasons /\ faulted' \in BOOLEAN
        /\ index' \subseteq (1..MaxGen) \X (0..MaxSeq)
        /\ pc' \in [Threads -> Places] /\ ev' \in Batch
    <3>1. CASE /\ index' = index \cup {<<ev.gen, ev.seq>>} /\ Goto(t, "commit")
               /\ UNCHANGED <<ev, reason, faulted>>
      BY <3>1, GotoType, BatchFields DEF TypeOK, Places, Critical
    <3>2. CASE \E why \in {"unsupported_event", "event_apply_failed",
                           "engine_request_key_mismatch"} : invalidateAndClear(t, why)
      BY Zenon, <3>2, InvalidateType DEF Reasons, Fatal
    <3>3. QED
      BY Zenon, <1>4, <3>1, <3>2 DEF Apply
  <2>2. QED
    BY Zenon, <1>4, <2>1 DEF Apply, TypeOK, engine, replay
<1>5. ASSUME NEW t \in Threads, Commit(t) PROVE TypeOK'
  <2>1. pc' \in [Threads -> Places]
    BY Zenon, <1>5, GotoType DEF Commit, Home, Places
  <2>2. ev' \in Batch /\ lastSeq' \in 0..MaxSeq
    BY <1>5, BatchFields DEF Commit, TypeOK, NoBatch, Batch, Kinds
  <2>3. hasSeq' \in BOOLEAN
    BY Zenon, <1>5 DEF Commit
  <2>4. QED
    BY Zenon, <1>5, <2>1, <2>2, <2>3 DEF Commit, TypeOK, engine, replay, history
<1>6. ASSUME NEW t \in Threads, Check(t) PROVE TypeOK'
  <2>1. pc' \in [Threads -> Places]
    BY Zenon, <1>6, GotoType DEF Check, Places
  <2>2. QED
    BY SMTT(30), <1>6, <2>1, ForgetType DEF Check, TypeOK, engine, state, history
<1>7. ASSUME NEW t \in Threads, Exit(t) PROVE TypeOK'
  <2>1. pc' \in [Threads -> Places]
    BY Zenon, <1>7, GotoType DEF Exit, Places
  <2>2. QED
    BY <1>7, <2>1, ForgetType DEF Exit, TypeOK, engine, state, history
<1>8. CASE LiveConnect \/ LiveDisconnect
  <2>1. pc' \in [Threads -> Places]
    BY Zenon, <1>8, GotoType DEF LiveConnect, LiveDisconnect, Places, Threads
  <2>2. QED
    BY Zenon, <1>8, <2>1 DEF LiveConnect, LiveDisconnect, TypeOK, engine, replay, state, history
<1>9. CASE LiveReceive
  <2>1. Head(wire) \in Batch /\ wire' \in Seq(Batch)
    BY <1>9 DEF LiveReceive, TypeOK
  <2>2. QED
    BY Zenon, <1>9, <2>1, AcceptType DEF LiveReceive, TypeOK, engine, replay, Threads
<1>10. CASE ReplayAsk
  <2>1. pc' \in [Threads -> Places]
    BY Zenon, <1>10, GotoType DEF ReplayAsk, Places, Threads
  <2>2. /\ requested' \in 0..(MaxSeq + 1) /\ count' \in 0..MaxReplayEvents
        /\ resp' = resp /\ servedHead' = servedHead
    BY <1>10 DEF ReplayAsk, TypeOK, nextSequence, replay
  <2>3. QED
    BY <1>10, <2>1, <2>2 DEF ReplayAsk, TypeOK, engine, state, history
<1>11. CASE ReplayServe
  <2>1. pc' \in [Threads -> Places]
    BY Zenon, <1>11, GotoType DEF ReplayServe, Places, Threads
  <2>2. resp' \in Seq(Batch)
    <3> DEFINE oldest == IF Len(log) > Retention THEN Len(log) - Retention ELSE 0
               first  == IF requested > oldest THEN requested ELSE oldest
               n      == IF Len(log) > first THEN Len(log) - first ELSE 0
    <3>1. resp' = [i \in 1..n |-> BatchAt(first + i)]
      BY Zenon, <1>11 DEF ReplayServe
    <3>2. first \in Nat /\ n \in Nat /\ Len(log) \in Nat
      BY DEF TypeOK
    <3>3. ASSUME NEW i \in 1..n PROVE BatchAt(first + i) \in Batch
      <4>1. first + i \in 1..Len(log)
        BY <3>2
      <4>2. log[first + i] \in Kinds
        BY <4>1 DEF TypeOK
      <4>3. first + i - 1 \in 0..MaxSeq
        BY <4>1 DEF TypeOK
      <4>4. QED
        BY <4>2, <4>3 DEF BatchAt, Batch, TypeOK, Kinds
    <3> HIDE DEF n, first
    <3>4. resp' \in [1..n -> Batch]
      BY Zenon, <3>1, <3>3
    <3>5. QED
      BY <3>2, <3>4
  <2>3. servedHead' \in 0..(MaxSeq + 1) /\ requested' \in 0..(MaxSeq + 1)
    BY <1>11 DEF ReplayServe, TypeOK
  <2>4. QED
    BY <1>11, <2>1, <2>2, <2>3 DEF ReplayServe, TypeOK, engine, state, history
<1>12. CASE ReplayReceive
  <2>1. Head(resp) \in Batch /\ resp' \in Seq(Batch)
    BY <1>12 DEF ReplayReceive, TypeOK
  <2>2. CASE AtCapacity /\ invalidateAndClear("replay", "replay_capacity_exceeded")
             /\ UNCHANGED <<count, hasSeq, lastSeq, gapUntil, heartbeat, life,
                            confirmed, base, resets>>
    BY <1>12, <2>1, <2>2, InvalidateType
       DEF ReplayReceive, TypeOK, engine, Threads, Reasons, Fatal
  <2>3. CASE ~AtCapacity /\ count' = count + 1 /\ accept("replay", Head(resp))
    <3>1. count' \in 0..MaxReplayEvents
      BY <2>3 DEF AtCapacity, TypeOK
    <3>2. QED
      BY Zenon, <1>12, <2>1, <2>3, <3>1, AcceptType DEF ReplayReceive, TypeOK, engine, Threads
  <2>4. QED
    BY Zenon, <1>12, <2>2, <2>3 DEF ReplayReceive
<1>13. CASE ReplayFail
  <2>1. pc' \in [Threads -> Places]
    BY Zenon, <1>13, GotoType DEF ReplayFail, Places, Threads
  <2>2. QED
    BY <1>13, <2>1 DEF ReplayFail, TypeOK, engine, state, history
<1>14. CASE ReplayEnd
  <2>1. pc' \in [Threads -> Places]
    BY Zenon, <1>14, GotoType DEF ReplayEnd, Places, Threads
  <2>2. reason' \in Reasons /\ gapUntil' \in 0..MaxSeq
    BY <1>14 DEF ReplayEnd, TypeOK, Reasons, NonFatal
  <2>3. QED
    BY Zenon, <1>14, <2>1, <2>2 DEF ReplayEnd, TypeOK, engine, replay
<1>15. CASE Age
  BY Zenon, <1>15 DEF Age, TypeOK, engine, replay, history
<1>16. CASE Invalidate
  <2>1. reason' \in Reasons /\ faulted' \in BOOLEAN
    BY Zenon, <1>16 DEF Invalidate, Reasons, Fatal
  <2>2. QED
    BY Zenon, <1>16, <2>1 DEF Invalidate, TypeOK, engine, replay
<1>17. CASE Close
  <2>1. reason' \in Reasons
    BY Zenon, <1>17 DEF Close, TypeOK, Reasons, Fatal
  <2>2. QED
    BY Zenon, <1>17, <2>1 DEF Close, TypeOK, engine, replay, history
<1>18. CASE RetireClear
  BY Zenon, <1>18 DEF RetireClear, TypeOK, engine, replay, history
<1>19. CASE UNCHANGED vars
  BY <1>19 DEF TypeOK, vars, engine, replay, state, history
<1>20. QED
  BY Zenon, <1>1, <1>2, <1>3, <1>4, <1>5, <1>6, <1>7, <1>8, <1>9, <1>10, <1>11, <1>12,
     <1>13, <1>14, <1>15, <1>16, <1>17, <1>18, <1>19 DEF Next

\* Every variable of the stream keeps its type: the sequence bookkeeping never
\* leaves the published range and a replay never handles more batches than
\* Config.MaxReplayEvents.
THEOREM TypeCorrect == Spec => []TypeOK
<1>1. QED
  BY TypeInit, TypeNext, PTL DEF Spec

-----------------------------------------------------------------------------
(* The inductive invariant.  Between a classification and its commit the   *)
(* bookkeeping and the index disagree, by one batch at most; the invariant *)
(* says by which, for each place a goroutine can hold processMu.           *)

Expected == IF hasSeq THEN base..lastSeq ELSE {}

\* processMu is held by one goroutine, and a reset forgets the sequence first.
Mutex ==
  /\ \A t, u \in Threads : pc[t] \in Critical /\ pc[u] \in Critical => t = u
  /\ \A t \in Threads : pc[t] = "clear" => ~hasSeq

\* Once Clear has followed Close nothing is left that could write.
Retired ==
  /\ life = "cleared" => Drained /\ index = {}
  /\ life # "active" => faulted

Contiguous ==
  ~faulted =>
    /\ hasSeq => base <= lastSeq
    /\ Unlocked => Sequences_ = Expected /\ (hasSeq \/ base = 0)
    /\ \A t \in Threads :
         /\ pc[t] = "apply" => /\ Sequences_ = Expected
                              /\ ev.seq = IF hasSeq THEN lastSeq + 1 ELSE base
         /\ pc[t] = "commit" => Sequences_ = base..ev.seq /\ base <= ev.seq

\* A live gap may hide a fatal reason; then its end lies beyond the cleared
\* sequence, so that only a newly committed batch can make the stream valid.
Observable ==
  /\ ~closed /\ hasSeq /\ reason \in NonFatal =>
       lastSeq \in Sequences_ \/ (reason = "sequence_gap" /\ gapUntil > lastSeq)
  /\ \A t \in Threads : pc[t] = "commit" => ev.seq \in Sequences_

IInv == TypeOK /\ Mutex /\ Retired /\ Contiguous /\ Observable

\* The integers of the bookkeeping.
LEMMA Numbers ==
  ASSUME IInv
  PROVE  /\ lastSeq \in Int /\ gapUntil \in Int /\ base \in Int /\ ev.seq \in Int
         /\ ev \in Batch /\ wire \in Seq(Batch) /\ resp \in Seq(Batch)
<1>1. TypeOK
  BY Zenon DEF IInv
<1>2. ev.seq \in Int
  BY <1>1, BatchFields DEF TypeOK
<1>3. QED
  BY <1>1, <1>2, StreamConstants DEF TypeOK, StreamConstants

LEMMA InvInit == Init => IInv
<1> SUFFICES ASSUME Init PROVE IInv
  BY Zenon
<1>1. TypeOK
  BY Zenon, TypeInit
<1>2. \A t \in Threads : pc[t] \notin Critical
  BY Zenon DEF Init, Critical, Threads
<1>3. Mutex /\ Retired
  BY Zenon, <1>2 DEF Mutex, Retired, Init, Critical
<1>4. Sequences_ = {}
  BY Zenon DEF Init, Sequences_
<1>5. Contiguous
  BY Zenon, <1>2, <1>4 DEF Contiguous, Init, Critical, Expected
<1>6. Observable
  BY Zenon, <1>2 DEF Observable, Init, Critical
<1>7. QED
  BY Zenon, <1>1, <1>3, <1>5, <1>6 DEF IInv

\* A step that touches neither the bookkeeping nor the index and moves at most
\* one goroutine, outside accept, keeps the invariant.
LEMMA Quiet ==
  ASSUME IInv, TypeOK',
         UNCHANGED <<ev, hasSeq, lastSeq, gapUntil, reason, life, index, base, faulted>>,
         \/ pc' = pc
         \/ \E t \in Threads, p \in Places \ Critical :
              pc[t] \notin Critical \cup {"stopped"} /\ Goto(t, p)
  PROVE  IInv'
<1>1. \A u \in Threads : /\ pc'[u] \in Critical <=> pc[u] \in Critical
                         /\ pc[u] \in Critical => pc'[u] = pc[u]
                         /\ pc[u] = "stopped" => pc'[u] = "stopped"
  BY Zenon DEF IInv, TypeOK, Goto
<1>2. Sequences_' = Sequences_ /\ Expected' = Expected /\ closed' = closed
  BY Zenon DEF Sequences_, Expected, closed
<1>3. Mutex'
  BY Zenon, <1>1 DEF IInv, Mutex, Critical
<1>4. Retired'
  BY Zenon, <1>1 DEF IInv, Retired, Drained
<1>5. Contiguous'
  BY Zenon, <1>1, <1>2 DEF IInv, Contiguous, Unlocked, Critical
<1>6. Observable'
  BY Zenon, <1>1, <1>2 DEF IInv, Observable, Critical
<1>7. QED
  BY Zenon, <1>3, <1>4, <1>5, <1>6 DEF IInv

\* A fault ends the critical section with the stream invalid: what the index
\* holds no longer matters.
LEMMA FaultStep ==
  ASSUME IInv, TypeOK', NEW t \in Threads, NEW why \in Fatal,
         invalidateAndClear(t, why), pc[t] # "stopped",
         Unlocked \/ pc[t] \in Critical,
         UNCHANGED <<hasSeq, life>>
  PROVE  IInv'
<1>1. /\ pc' = [pc EXCEPT ![t] = "check"] /\ reason' = why /\ faulted' = TRUE
  BY Zenon DEF invalidateAndClear, Goto
<1>2. \A u \in Threads : pc'[u] \notin Critical
  BY Zenon, <1>1 DEF IInv, TypeOK, Mutex, Unlocked, Critical
<1>3. Mutex'
  BY Zenon, <1>2 DEF Mutex, Critical
<1>4. life # "cleared"
  BY Zenon DEF IInv, Retired, Drained
<1>5. Retired'
  BY Zenon, <1>1, <1>4 DEF Retired
<1>6. Contiguous'
  BY Zenon, <1>1 DEF Contiguous
<1>7. Observable'
  BY Zenon, <1>1, <1>2 DEF Observable, Critical, NonFatal, Fatal
<1>8. QED
  BY Zenon, <1>3, <1>5, <1>6, <1>7 DEF IInv

\* The parts of accept up to the release of s.mu.
LEMMA AcceptStep ==
  ASSUME IInv, TypeOK', NEW t \in Threads, NEW e \in Batch, accept(t, e),
         pc[t] \in {"open", "recv"}
  PROVE  IInv'
<1> USE BatchFields
<1>1. Unlocked /\ life' = life /\ closed' = closed
  BY Zenon DEF accept, closed
<1>2. \A u \in Threads : pc[u] \notin Critical
  BY Zenon, <1>1 DEF Unlocked
<1>3. pc[t] # "stopped" /\ life # "cleared"
  BY Zenon DEF IInv, Retired, Drained
<1>4. CASE AcceptMalformed(t, e)
  BY Zenon, <1>1, <1>3, <1>4, FaultStep DEF AcceptMalformed, Fatal
<1>5. CASE AcceptReset(t, e)
  <2>1. /\ pc' = [pc EXCEPT ![t] = "clear"] /\ hasSeq' = FALSE /\ faulted' = faulted
    BY Zenon, <1>5 DEF AcceptReset, Goto
  <2>2. pc'[t] = "clear" /\ \A u \in Threads \ {t} : pc'[u] \notin Critical
    BY Zenon, <1>2, <2>1 DEF IInv, TypeOK
  <2>3. Mutex'
    BY Zenon, <2>1, <2>2 DEF Mutex, Critical
  <2>4. Retired'
    BY Zenon, <1>1, <1>3, <2>1 DEF IInv, Retired
  <2>5. Contiguous'
    BY Zenon, <2>1, <2>2 DEF Contiguous, Unlocked, Critical
  <2>6. Observable'
    BY Zenon, <2>1, <2>2 DEF Observable, Critical
  <2>7. QED
    BY Zenon, <2>3, <2>4, <2>5, <2>6 DEF IInv
<1>6. CASE AcceptDuplicate(t, e)
  BY Zenon, <1>1, <1>6, Quiet DEF AcceptDuplicate
<1>7. CASE AcceptNext(t, e)
  <2>1. /\ pc' = [pc EXCEPT ![t] = "apply"] /\ ev' = e /\ e.seq = nextSequence
        /\ UNCHANGED <<hasSeq, lastSeq, gapUntil, reason, index, base, faulted>>
    BY SMTT(30), <1>7 DEF AcceptNext, Goto, IsExpected
  <2>2. pc'[t] = "apply" /\ \A u \in Threads \ {t} : pc'[u] \notin Critical
    BY SMTT(30), <1>2, <2>1 DEF IInv, TypeOK
  <2>3. Sequences_' = Sequences_ /\ Expected' = Expected
    BY Zenon, <2>1 DEF Sequences_, Expected
  <2>4. Mutex'
    BY Zenon, <2>2 DEF Mutex, Critical
  <2>5. Retired'
    BY Zenon, <1>1, <1>3, <2>1 DEF IInv, Retired
  <2>6. Contiguous'
    BY Zenon, <1>1, <2>1, <2>2, <2>3 DEF IInv, Contiguous, Unlocked, Critical, nextSequence
  <2>7. Observable'
    BY Zenon, <1>1, <2>1, <2>2, <2>3 DEF IInv, Observable, Critical
  <2>8. QED
    BY Zenon, <2>4, <2>5, <2>6, <2>7 DEF IInv
<1>8. CASE AcceptGap(t, e)
  <2>1. CASE t = "live" /\ reason' = "sequence_gap" /\ Goto(t, "check")
             /\ gapUntil' = (IF e.seq > gapUntil THEN e.seq ELSE gapUntil)
             /\ UNCHANGED <<ev, index, faulted, hasSeq, lastSeq, base>>
    <3>1. pc' = [pc EXCEPT ![t] = "check"]
      BY Zenon, <2>1 DEF Goto
    <3>2. \A u \in Threads : pc'[u] \notin Critical
      BY Zenon, <1>2, <3>1 DEF IInv, TypeOK, Critical
    <3>3. Sequences_' = Sequences_ /\ Expected' = Expected
      BY Zenon, <2>1 DEF Sequences_, Expected
    <3>4. Mutex'
      BY Zenon, <3>2 DEF Mutex, Critical
    <3>5. Retired'
      BY Zenon, <1>1, <1>3, <2>1 DEF IInv, Retired
    <3>6. Contiguous'
      BY Zenon, <1>1, <2>1, <3>2, <3>3 DEF IInv, Contiguous, Unlocked, Critical
    <3>7. hasSeq => gapUntil' > lastSeq'
      <4>1. e.seq > nextSequence
        BY Zenon, <1>8 DEF AcceptGap
      <4>2. lastSeq \in Int /\ gapUntil \in Int /\ e.seq \in Int
        BY Numbers, BatchFields
      <4>3. QED
        BY <2>1, <4>1, <4>2 DEF nextSequence
    <3>8. Observable'
      BY Zenon, <2>1, <3>2, <3>7 DEF Observable, Critical
    <3>9. QED
      BY Zenon, <3>4, <3>5, <3>6, <3>8 DEF IInv
  <2>2. CASE invalidateAndClear(t, "unrecoverable_sequence_gap") /\ hasSeq' = hasSeq
    BY Zenon, <1>1, <1>3, <2>2, FaultStep DEF Fatal
  <2>3. QED
    BY Zenon, <1>8, <2>1, <2>2 DEF AcceptGap
<1>9. QED
  BY Zenon, <1>4, <1>5, <1>6, <1>7, <1>8 DEF accept

LEMMA ClearStep ==
  ASSUME IInv, TypeOK', NEW t \in Threads, ClearAfterReset(t)
  PROVE  IInv'
<1>1. /\ pc[t] = "clear" /\ life' = life /\ closed' = closed
      /\ hasSeq' = hasSeq /\ ~hasSeq
  BY Zenon DEF ClearAfterReset, IInv, Mutex, closed
<1>2. \A u \in Threads \ {t} : pc[u] \notin Critical
  BY Zenon, <1>1 DEF IInv, Mutex, Critical
<1>3. life # "cleared"
  BY Zenon, <1>1 DEF IInv, Retired, Drained
<1>4. PICK place \in {"apply", "check"} :
        /\ pc' = [pc EXCEPT ![t] = place]
        /\ place = "apply" => index' = {} /\ base' = ev.seq /\ UNCHANGED <<ev, faulted>>
        /\ place = "check" => faulted' = TRUE
  BY Zenon DEF ClearAfterReset, Goto
<1>5. pc'[t] = place /\ \A u \in Threads \ {t} : pc'[u] \notin Critical
  BY Zenon, <1>2, <1>4 DEF IInv, TypeOK
<1>6. Mutex'
  BY Zenon, <1>1, <1>5 DEF Mutex, Critical
<1>7. Retired'
  BY <1>1, <1>3, <1>4 DEF IInv, Retired
<1>8. Contiguous'
  <2>1. CASE place = "apply"
    <3>1. Sequences_' = {} /\ Expected' = {}
      BY Zenon, <1>1, <1>4, <2>1 DEF Sequences_, Expected
    <3>2. QED
      BY Zenon, <1>1, <1>4, <1>5, <2>1, <3>1 DEF Contiguous, Unlocked, Critical
  <2>2. CASE place = "check"
    BY Zenon, <1>4, <2>2 DEF Contiguous
  <2>3. QED
    BY Zenon, <2>1, <2>2
<1>9. Observable'
  BY Zenon, <1>1, <1>5 DEF Observable, Critical
<1>10. QED
  BY Zenon, <1>6, <1>7, <1>8, <1>9 DEF IInv

LEMMA ApplyStep ==
  ASSUME IInv, TypeOK', NEW t \in Threads, Apply(t)
  PROVE  IInv'
<1>1. /\ pc[t] = "apply" /\ UNCHANGED <<hasSeq, lastSeq, gapUntil, life, base>>
      /\ closed' = closed
  BY Zenon DEF Apply, closed
<1>2. CASE \E why \in {"unsupported_event", "event_apply_failed",
                       "engine_request_key_mismatch"} : invalidateAndClear(t, why)
  BY Zenon, <1>1, <1>2, FaultStep DEF Fatal, Critical
<1>3. CASE /\ index' = index \cup {<<ev.gen, ev.seq>>} /\ Goto(t, "commit")
           /\ UNCHANGED <<ev, reason, faulted>>
  <2>1. \A u \in Threads \ {t} : pc[u] \notin Critical
    BY Zenon, <1>1 DEF IInv, Mutex, Critical
  <2>2. pc'[t] = "commit" /\ \A u \in Threads \ {t} : pc'[u] \notin Critical
    BY Zenon, <1>3, <2>1 DEF IInv, TypeOK, Goto
  <2>3. Sequences_' = Sequences_ \cup {ev.seq}
    <3> DEFINE b == <<ev.gen, ev.seq>>
    <3>1. b[2] = ev.seq /\ index' = index \cup {b}
      BY Zenon, <1>3
    <3> HIDE DEF b
    <3>2. QED
      BY Zenon, <3>1 DEF Sequences_
  <2>4. Mutex'
    BY Zenon, <2>2 DEF Mutex, Critical
  <2>5. Retired'
    BY SMTT(30), <1>1, <1>3 DEF IInv, Retired, Drained
  <2>6. Contiguous'
    <3>1. SUFFICES ASSUME ~faulted PROVE Contiguous'
      BY Zenon, <1>3 DEF Contiguous
    <3>2. /\ Sequences_ = Expected /\ ev.seq = (IF hasSeq THEN lastSeq + 1 ELSE base)
          /\ hasSeq => base <= lastSeq
      BY Zenon, <1>1, <3>1 DEF IInv, Contiguous
    <3>3. Sequences_' = base..ev.seq /\ base <= ev.seq
      <4>1. base \in Int /\ lastSeq \in Int /\ ev.seq \in Int
        BY SMTT(30), Numbers
      <4>2. QED
        BY <2>3, <3>2, <4>1 DEF Expected
    <3>4. QED
      BY Zenon, <1>1, <1>3, <2>2, <3>2, <3>3 DEF Contiguous, Unlocked, Critical
  <2>7. Observable'
    BY Zenon, <1>1, <1>3, <2>2, <2>3 DEF IInv, Observable, Critical
  <2>8. QED
    BY Zenon, <2>4, <2>5, <2>6, <2>7 DEF IInv
<1>4. QED
  BY Zenon, <1>2, <1>3 DEF Apply

LEMMA CommitStep ==
  ASSUME IInv, TypeOK', NEW t \in Threads, Commit(t)
  PROVE  IInv'
<1>1. /\ pc[t] = "commit" /\ UNCHANGED <<gapUntil, life, base, index, faulted, reason>>
      /\ closed' = closed /\ hasSeq' = TRUE /\ lastSeq' = ev.seq
      /\ pc' = [pc EXCEPT ![t] = Home(t)] /\ Home(t) \notin Critical
  BY Zenon DEF Commit, closed, history, Goto, Home, Critical
<1>2. \A u \in Threads : pc'[u] \notin Critical
  BY Zenon, <1>1 DEF IInv, Mutex, Critical, TypeOK
<1>3. Sequences_' = Sequences_ /\ Expected' = base..ev.seq
  BY Zenon, <1>1 DEF Sequences_, Expected
<1>4. Mutex'
  BY Zenon, <1>2 DEF Mutex, Critical
<1>5. Retired'
  BY Zenon, <1>1 DEF IInv, Retired, Drained
<1>6. Contiguous'
  BY Zenon, <1>1, <1>2, <1>3 DEF IInv, Contiguous, Critical
<1>7. Observable'
  BY Zenon, <1>1, <1>2, <1>3 DEF IInv, Observable, Critical
<1>8. QED
  BY Zenon, <1>4, <1>5, <1>6, <1>7 DEF IInv

LEMMA ReplayEndStep ==
  ASSUME IInv, TypeOK', ReplayEnd
  PROVE  IInv'
<1>1. /\ pc["replay"] = "recv" /\ pc' = [pc EXCEPT !["replay"] = "check"]
      /\ UNCHANGED <<ev, hasSeq, lastSeq, life, index, base, faulted>>
      /\ reason' = (IF reason \in {"replay_not_confirmed", "sequence_reset"} \/ Healed
                    THEN "none" ELSE reason)
      /\ gapUntil' = (IF Healed THEN 0 ELSE gapUntil)
  BY Zenon DEF ReplayEnd, EndReceived, Goto
<1>2. \A u \in Threads : /\ pc'[u] \in Critical <=> pc[u] \in Critical
                         /\ pc[u] \in Critical => pc'[u] = pc[u]
  BY Zenon, <1>1 DEF IInv, TypeOK, Critical
<1>3. Sequences_' = Sequences_ /\ Expected' = Expected /\ closed' = closed
  BY Zenon, <1>1 DEF Sequences_, Expected, closed
<1>4. Mutex'
  BY Zenon, <1>1, <1>2 DEF IInv, Mutex, Critical
<1>5. Retired'
  BY Zenon, <1>1 DEF IInv, Retired, Drained, Threads
<1>6. Contiguous'
  BY Zenon, <1>1, <1>2, <1>3 DEF IInv, Contiguous, Unlocked, Critical
<1>7. Observable'
  <2>1. lastSeq \in Int /\ gapUntil \in Int
    BY Zenon, Numbers
  <2>2. reason' \in NonFatal <=> reason \in NonFatal
    BY Zenon, <1>1 DEF Healed, NonFatal
  <2>3. ASSUME ~closed, hasSeq, reason' \in NonFatal
        PROVE  \/ lastSeq \in Sequences_
               \/ reason' = "sequence_gap" /\ gapUntil' > lastSeq
    <3>1. lastSeq \in Sequences_ \/ (reason = "sequence_gap" /\ gapUntil > lastSeq)
      BY Zenon, <2>2, <2>3 DEF IInv, Observable
    <3>2. QED
      BY <1>1, <2>1, <3>1 DEF Healed
  <2>4. QED
    BY Zenon, <1>1, <1>2, <1>3, <2>3 DEF IInv, Observable, Critical
<1>8. QED
  BY Zenon, <1>4, <1>5, <1>6, <1>7 DEF IInv

LEMMA RetireSteps ==
  ASSUME IInv, TypeOK', Invalidate \/ Close \/ RetireClear
  PROVE  IInv'
<1>1. UNCHANGED <<pc, ev, hasSeq, lastSeq, gapUntil, base>> /\ Mutex'
  BY DEF Invalidate, Close, RetireClear, IInv, Mutex, history
<1>2. faulted' = TRUE /\ life' # "active"
  BY Zenon DEF Invalidate, Close, RetireClear, IInv, Retired, history
<1>3. Contiguous'
  BY Zenon, <1>2 DEF Contiguous
<1>4. CASE Invalidate \/ Close
  <2>1. Sequences_' = Sequences_
    BY Zenon, <1>4 DEF Invalidate, Close, Sequences_
  <2>2. reason' \in Fatal \/ closed'
    BY Zenon, <1>4 DEF Invalidate, Close, Fatal, closed
  <2>3. Observable'
    BY Zenon, <1>1, <2>1, <2>2 DEF IInv, Observable, NonFatal, Fatal
  <2>4. Retired'
    BY Zenon, <1>2, <1>4 DEF Retired, Invalidate, Close
  <2>5. QED
    BY Zenon, <1>1, <1>3, <2>3, <2>4 DEF IInv
<1>5. CASE RetireClear
  <2>1. Drained /\ index' = {} /\ life' = "cleared"
    BY Zenon, <1>5 DEF RetireClear
  <2>2. Drained' /\ closed'
    BY Zenon, <1>1, <2>1 DEF Drained, closed
  <2>3. Observable'
    BY Zenon, <1>1, <2>1, <2>2 DEF Observable, Drained
  <2>4. Retired'
    BY Zenon, <1>2, <2>1, <2>2 DEF Retired
  <2>5. QED
    BY Zenon, <1>1, <1>3, <2>3, <2>4 DEF IInv
<1>6. QED
  BY Zenon, <1>4, <1>5

LEMMA InvNext == IInv /\ [Next]_vars => IInv'
<1> SUFFICES ASSUME IInv, [Next]_vars PROVE IInv'
  BY Zenon
<1>0. TypeOK'
  BY Zenon, TypeNext DEF IInv
<1> USE <1>0
<1>1. CASE \/ \E kind \in Kinds : Publish(kind)
           \/ Restart \/ Age
  BY Zenon, <1>1, Quiet DEF Publish, Restart, Age, state, history
<1>2. CASE LiveConnect \/ LiveDisconnect \/ ReplayAsk \/ ReplayServe \/ ReplayFail
  <2>1. \E t \in Threads, p \in Places \ Critical :
          pc[t] \notin Critical \cup {"stopped"} /\ Goto(t, p)
    BY Zenon, <1>2 DEF LiveConnect, LiveDisconnect, ReplayAsk, ReplayServe, ReplayFail,
                Threads, Places, Critical
  <2>2. UNCHANGED <<ev, hasSeq, lastSeq, gapUntil, reason, life, index, base, faulted>>
    BY Zenon, <1>2 DEF LiveConnect, LiveDisconnect, ReplayAsk, ReplayServe, ReplayFail,
                state, history
  <2>3. QED
    BY Zenon, <2>1, <2>2, Quiet
<1>3. ASSUME NEW t \in Threads, Check(t) \/ Exit(t) PROVE IInv'
  <2>1. \E p \in Places \ Critical :
          pc[t] \notin Critical \cup {"stopped"} /\ Goto(t, p)
    BY Zenon, <1>3 DEF Check, Exit, Places, Critical
  <2>2. UNCHANGED <<ev, hasSeq, lastSeq, gapUntil, reason, life, index, base, faulted>>
    BY Zenon, <1>3 DEF Check, Exit, state, history
  <2>3. QED
    BY Zenon, <2>1, <2>2, Quiet
<1>4. ASSUME NEW t \in Threads, ClearAfterReset(t) \/ Apply(t) \/ Commit(t) PROVE IInv'
  BY Zenon, <1>4, ClearStep, ApplyStep, CommitStep
<1>5. CASE LiveReceive
  <2>1. Head(wire) \in Batch
    BY <1>5, Numbers DEF LiveReceive
  <2>2. QED
    BY Zenon, <1>5, <2>1, AcceptStep DEF LiveReceive, Threads
<1>6. CASE ReplayReceive
  <2>1. Head(resp) \in Batch /\ pc["replay"] = "recv"
    BY <1>6, Numbers DEF ReplayReceive
  <2>2. CASE accept("replay", Head(resp))
    BY Zenon, <2>1, <2>2, AcceptStep DEF Threads
  <2>3. CASE Unlocked /\ invalidateAndClear("replay", "replay_capacity_exceeded")
             /\ UNCHANGED <<hasSeq, life>>
    BY Zenon, <2>1, <2>3, FaultStep DEF Threads, Fatal
  <2>4. QED
    BY Zenon, <1>6, <2>2, <2>3 DEF ReplayReceive
<1>7. CASE ReplayEnd
  BY Zenon, <1>7, ReplayEndStep
<1>8. CASE Invalidate \/ Close \/ RetireClear
  BY Zenon, <1>8, RetireSteps
<1>9. CASE UNCHANGED vars
  BY Zenon, <1>9, Quiet DEF vars, state, history
<1>10. QED
  BY Zenon, <1>1, <1>2, <1>3, <1>4, <1>5, <1>6, <1>7, <1>8, <1>9 DEF Next

LEMMA Invariance == Spec => []IInv
<1>1. QED
  BY InvInit, InvNext, PTL DEF Spec

\* As long as no fatal reason was set, the index holds exactly the sequences from
\* the last (re)build up to lastSeq, whatever was lost, delayed or replayed.
THEOREM ContiguousIndex == Spec => []NoHoles
<1>1. IInv => NoHoles
  BY Zenon DEF IInv, Contiguous, NoHoles, Expected
<1>2. QED
  BY <1>1, Invariance, PTL

\* A published last_sequence of a valid stream is in the index: accept commits a
\* sequence only after Apply, and a cleared stream is not valid again before it
\* has committed a new batch.
THEOREM LastSequenceObservable == Spec => []CommittedIsObservable
<1>1. IInv => CommittedIsObservable
  BY Zenon DEF IInv, Observable, CommittedIsObservable, Valid, NonFatal
<1>2. QED
  BY <1>1, Invariance, PTL

\* After Reconcile has closed a stream and cleared its Pod, no late event reaches
\* the index: Close waits for both goroutines before Clear.
THEOREM RetiredStaysClear == Spec => []NoWriteAfterRetire
<1>1. IInv => NoWriteAfterRetire
  BY Zenon DEF IInv, Retired, NoWriteAfterRetire
<1>2. QED
  BY <1>1, Invariance, PTL

-----------------------------------------------------------------------------
(* Completeness of a confirmed replay.  The invariant carries the head of  *)
(* the engine's log from the moment the replay is served: through the      *)
(* replies still to come, the batch in accept and the sequence committed.  *)

Clean == ~faulted /\ resets = {} /\ gen = 1
Replaying == pc["replay"] \in {"recv"} \cup Critical

\* Nothing on its way to the index is of a generation the engine has not reached.
Generations ==
  /\ \A i \in 1..Len(wire) : wire[i].gen <= gen
  /\ \A i \in 1..Len(resp) : resp[i].gen <= gen
  /\ ev.gen <= gen
  /\ \A b \in index : b[1] <= gen

\* The replies to come end at the head of the log.
Answered ==
  Replaying /\ resp # <<>> => resp[Len(resp)].seq = servedHead - 1

\* Without faults and resets the committed sequence never falls back, so that
\* what a replay asked for, or has confirmed, stays below it.
Complete ==
  Clean =>
    /\ base = 0 /\ confirmed <= nextSequence
    /\ \A t \in Threads : /\ pc[t] # "clear"
                          /\ pc[t] \in Critical => ev.seq = nextSequence
    /\ pc["replay"] = "asked" => requested <= nextSequence
    /\ Replaying /\ resp = <<>> =>
         servedHead <= IF pc["replay"] = "recv" THEN nextSequence ELSE nextSequence + 1

FInv == IInv /\ Generations /\ Answered /\ Complete

\* The integers of the replay.
LEMMA Heads ==
  ASSUME IInv
  PROVE  /\ nextSequence \in Int /\ servedHead \in Int /\ requested \in Int
         /\ confirmed \in Int /\ gen \in Int
BY Numbers, StreamConstants DEF IInv, TypeOK, StreamConstants, nextSequence

\* What is left of a queue whose batches are all of a reached generation.
LEMMA QueueRest ==
  ASSUME NEW s \in Seq(Batch), s # <<>>, NEW g \in Int,
         \A i \in 1..Len(s) : s[i].gen <= g
  PROVE  /\ Head(s) \in Batch /\ Head(s).gen <= g /\ Head(s) = s[1]
         /\ \A i \in 1..Len(Tail(s)) : Tail(s)[i].gen <= g
         /\ Tail(s) # <<>> => Tail(s)[Len(Tail(s))] = s[Len(s)]
         /\ Tail(s) = <<>> => Head(s) = s[Len(s)]
<1>1. Len(s) \in Nat /\ Len(s) >= 1 /\ Head(s) = s[1] /\ Head(s) \in Batch
  OBVIOUS
<1>2. /\ Tail(s) \in Seq(Batch) /\ Len(Tail(s)) = Len(s) - 1
      /\ \A i \in 1..(Len(s) - 1) : Tail(s)[i] = s[i + 1]
  OBVIOUS
<1>3. \A i \in 1..Len(Tail(s)) : Tail(s)[i].gen <= g
  BY <1>1, <1>2
<1>4. Tail(s) # <<>> => Len(Tail(s)) >= 1
  BY <1>2
<1>5. Tail(s) # <<>> => Tail(s)[Len(Tail(s))] = s[Len(s)]
  BY <1>1, <1>2, <1>4
<1>6. ASSUME Tail(s) = <<>> PROVE Len(s) = 1
  <2> DEFINE rest == Tail(s)
  <2>1. rest = <<>> /\ rest \in Seq(Batch) /\ Len(rest) = Len(s) - 1
    BY Zenon, <1>2, <1>6
  <2> HIDE DEF rest
  <2>2. Len(rest) = 0
    BY Zenon, <2>1
  <2>3. QED
    BY <1>1, <2>1, <2>2
<1>7. QED
  BY <1>1, <1>3, <1>5, <1>6

\* What an answer to a replay holds: batches of this generation, up to the head.
LEMMA ServedQueue ==
  ASSUME IInv, ReplayServe
  PROVE  /\ \A i \in 1..Len(resp') : resp'[i].gen = gen
         /\ resp' # <<>> => resp'[Len(resp')].seq = Len(log) - 1
         /\ resp' = <<>> => Len(log) <= requested
<1> DEFINE oldest == IF Len(log) > Retention THEN Len(log) - Retention ELSE 0
           first == IF requested > oldest THEN requested ELSE oldest
           n == IF Len(log) > first THEN Len(log) - first ELSE 0
<1>1. resp' = [i \in 1..n |-> BatchAt(first + i)]
  BY Zenon DEF ReplayServe
<1>2. /\ Len(log) \in Nat /\ requested \in Nat /\ Retention \in Nat /\ Retention > 0
  BY StreamConstants DEF IInv, TypeOK, StreamConstants
<1>3. oldest \in Nat /\ (oldest < Len(log) \/ Len(log) = 0)
  BY <1>2
<1> HIDE DEF oldest
<1>4. first \in Nat /\ (first = requested \/ first = oldest) /\ first >= requested
  BY <1>2, <1>3
<1> HIDE DEF first
<1>5. /\ n \in Nat
      /\ n > 0 => first + n = Len(log)
      /\ n = 0 => Len(log) <= first
  BY <1>2, <1>4
<1>6. n = 0 => Len(log) <= requested
  BY <1>2, <1>3, <1>4, <1>5
<1> HIDE DEF n
<1>7. Len(resp') = n /\ (resp' = <<>> <=> n = 0)
  BY <1>1, <1>5
<1>8. \A i \in 1..n : resp'[i].gen = gen /\ resp'[i].seq = first + i - 1
  BY <1>1, <1>4, <1>5 DEF BatchAt
<1>9. QED
  BY <1>2, <1>4, <1>5, <1>6, <1>7, <1>8

\* accept takes its batch, or drops the one it had; it adds nothing to the index.
LEMMA AcceptWrites ==
  ASSUME IInv, NEW t \in Threads, NEW e \in Batch, accept(t, e)
  PROVE  ev' \in {ev, NoBatch, e} /\ index' \subseteq index
<1>1. ASSUME NEW why, invalidateAndClear(t, why)
      PROVE  ev' = NoBatch /\ index' \subseteq index
  BY Zenon, <1>1 DEF invalidateAndClear
<1>2. CASE AcceptMalformed(t, e)
  BY Zenon, <1>1, <1>2 DEF AcceptMalformed
<1>3. CASE AcceptReset(t, e) \/ AcceptDuplicate(t, e) \/ AcceptNext(t, e)
  BY Zenon, <1>3 DEF AcceptReset, AcceptDuplicate, AcceptNext
<1>4. CASE AcceptGap(t, e)
  BY Zenon, <1>1, <1>4 DEF AcceptGap
<1>5. QED
  BY Zenon, <1>2, <1>3, <1>4 DEF accept

LEMMA GenerationsNext ==
  ASSUME FInv, [Next]_vars
  PROVE  Generations'
<1>0. /\ IInv /\ TypeOK /\ Generations /\ gen \in Int /\ gen >= 1
      /\ wire \in Seq(Batch) /\ resp \in Seq(Batch) /\ ev \in Batch
  BY Numbers, StreamConstants DEF FInv, IInv, TypeOK, StreamConstants
<1> DEFINE Reached(q) == \A i \in 1..Len(q) : q[i].gen <= gen
<1>1. Reached(wire) /\ Reached(resp) /\ ev.gen <= gen /\ NoBatch.gen <= gen
      /\ \A b \in index : b[1] <= gen
  BY Zenon, <1>0 DEF Generations, NoBatch
<1>2. ASSUME gen' = gen, Reached(wire'), Reached(resp'), ev'.gen <= gen,
             \A b \in index' : b[1] <= gen
      PROVE  Generations'
  BY Zenon, <1>2 DEF Generations
<1>3. Reached(<<>>)
  OBVIOUS
<1> HIDE DEF Reached
<1>4. CASE \E kind \in Kinds : Publish(kind)
  <2>1. PICK kind \in Kinds : Publish(kind)
    BY Zenon, <1>4
  <2>2. gen' = gen /\ resp' = resp /\ ev' = ev /\ index' = index
    BY Zenon, <2>1 DEF Publish, replay
  <2>3. Reached(wire')
    <3>1. CASE wire' = wire
      BY Zenon, <1>1, <3>1
    <3>2. CASE wire' = Append(wire, [gen |-> gen, seq |-> Len(log), kind |-> kind])
      <4> DEFINE m == [gen |-> gen, seq |-> Len(log), kind |-> kind]
      <4>1. m.gen = gen /\ wire' = Append(wire, m)
        BY Zenon, <3>2
      <4> HIDE DEF m
      <4>2. Len(wire') = Len(wire) + 1
            /\ \A i \in 1..Len(wire') :
                 wire'[i] = IF i = Len(wire) + 1 THEN m ELSE wire[i]
        BY <1>0, <4>1
      <4>3. QED
        BY <1>0, <1>1, <4>1, <4>2 DEF Reached
    <3>3. QED
      BY Zenon, <2>1, <3>1, <3>2 DEF Publish
  <2>4. QED
    BY Zenon, <1>1, <1>2, <2>2, <2>3
<1>5. CASE Restart
  <2>1. gen' = gen + 1 /\ UNCHANGED <<wire, resp, ev, index>>
    BY Zenon, <1>5 DEF Restart, replay
  <2>2. /\ \A i \in 1..Len(wire) : wire[i].gen \in Int
        /\ \A i \in 1..Len(resp) : resp[i].gen \in Int
        /\ ev.gen \in Int /\ \A b \in index : b[1] \in Int
    <3>1. \A e \in Batch : e.gen \in Int
      BY BatchFields
    <3>2. \A b \in index : b[1] \in Int
      BY <1>0 DEF TypeOK
    <3>3. QED
      BY <1>0, <3>1, <3>2
  <2>3. QED
    BY <1>0, <1>1, <2>1, <2>2 DEF Generations, Reached
<1>6. CASE LiveConnect \/ LiveDisconnect \/ ReplayAsk \/ ReplayEnd \/ Age \/ Invalidate
           \/ Close \/ UNCHANGED vars
  <2>1. UNCHANGED <<gen, wire, resp, ev, index>>
    BY Zenon, <1>6 DEF LiveConnect, LiveDisconnect, ReplayAsk, ReplayEnd, Age, Invalidate,
                Close, vars, engine, replay
  <2>2. QED
    BY Zenon, <1>1, <1>2, <2>1
<1>7. CASE ReplayServe
  <2>1. UNCHANGED <<gen, wire, ev, index>>
    BY Zenon, <1>7 DEF ReplayServe, engine
  <2>2. Reached(resp')
    BY <1>0, <1>7, ServedQueue DEF Reached
  <2>3. QED
    BY Zenon, <1>1, <1>2, <2>1, <2>2
<1>8. CASE ReplayFail \/ RetireClear
  <2>1. /\ UNCHANGED <<gen, wire, ev>> /\ index' \subseteq index
        /\ resp' = resp \/ resp' = <<>>
    BY Zenon, <1>8 DEF ReplayFail, RetireClear, engine, replay
  <2>2. QED
    BY Zenon, <1>1, <1>2, <1>3, <2>1
<1>9. ASSUME NEW t \in Threads, Check(t) \/ Exit(t) PROVE Generations'
  <2>1. /\ UNCHANGED <<gen, ev, index>>
        /\ wire' = wire \/ wire' = <<>>
        /\ resp' = resp \/ resp' = <<>>
    BY Zenon, <1>9 DEF Check, Exit, Forget, engine, replay
  <2>2. QED
    BY Zenon, <1>1, <1>2, <1>3, <2>1
<1>10. ASSUME NEW t \in Threads, ClearAfterReset(t) \/ Apply(t) \/ Commit(t)
       PROVE  Generations'
  <2>1. /\ UNCHANGED <<gen, wire, resp>> /\ ev' \in {ev, NoBatch}
        /\ index' \subseteq index \cup {<<ev.gen, ev.seq>>}
    BY Zenon, <1>10 DEF ClearAfterReset, Apply, Commit, invalidateAndClear, engine, replay
  <2>2. \A b \in index' : b[1] <= gen
    BY <1>1, <2>1
  <2>3. QED
    BY Zenon, <1>1, <1>2, <2>1, <2>2
<1>11. CASE LiveReceive
  <2>1. /\ wire # <<>> /\ accept("live", Head(wire)) /\ wire' = Tail(wire)
        /\ gen' = gen /\ resp' = resp
    BY Zenon, <1>11 DEF LiveReceive, engine, replay
  <2>2. Head(wire) \in Batch /\ Head(wire).gen <= gen /\ Reached(Tail(wire))
    BY Zenon, <1>0, <1>1, <2>1, QueueRest DEF Reached
  <2>3. ev' \in {ev, NoBatch, Head(wire)} /\ index' \subseteq index
    BY Zenon, <1>0, <2>1, <2>2, AcceptWrites DEF Threads
  <2>4. QED
    BY Zenon, <1>1, <1>2, <2>1, <2>2, <2>3
<1>12. CASE ReplayReceive
  <2>1. resp # <<>> /\ resp' = Tail(resp) /\ gen' = gen /\ wire' = wire
    BY Zenon, <1>12 DEF ReplayReceive, engine
  <2>2. Head(resp) \in Batch /\ Head(resp).gen <= gen /\ Reached(Tail(resp))
    BY Zenon, <1>0, <1>1, <2>1, QueueRest DEF Reached
  <2>3. ev' \in {ev, NoBatch, Head(resp)} /\ index' \subseteq index
    <3>1. CASE accept("replay", Head(resp))
      BY Zenon, <1>0, <2>2, <3>1, AcceptWrites DEF Threads
    <3>2. CASE invalidateAndClear("replay", "replay_capacity_exceeded")
      BY Zenon, <3>2 DEF invalidateAndClear
    <3>3. QED
      BY Zenon, <1>12, <3>1, <3>2 DEF ReplayReceive
  <2>4. QED
    BY Zenon, <1>1, <1>2, <2>1, <2>2, <2>3
<1>13. QED
  BY Zenon, <1>4, <1>5, <1>6, <1>7, <1>8, <1>9, <1>10, <1>11, <1>12 DEF Next

LEMMA AnsweredNext ==
  ASSUME FInv, [Next]_vars
  PROVE  Answered'
<1>0. /\ IInv /\ Answered /\ Generations /\ pc \in [Threads -> Places]
      /\ resp \in Seq(Batch) /\ gen \in Int
  BY Zenon, Numbers, Heads DEF FInv, IInv, TypeOK
<1>1. ASSUME resp' = <<>> PROVE Answered'
  BY Zenon, <1>1 DEF Answered
<1>2. ASSUME UNCHANGED <<resp, servedHead>>, Replaying' => Replaying PROVE Answered'
  BY Zenon, <1>0, <1>2 DEF Answered
<1>3. CASE \/ \E kind \in Kinds : Publish(kind)
           \/ Restart \/ Age \/ Invalidate \/ Close \/ RetireClear \/ UNCHANGED vars
  <2>1. UNCHANGED <<resp, servedHead, pc>>
    BY Zenon, <1>3 DEF Publish, Restart, Age, Invalidate, Close, RetireClear, vars, replay
  <2>2. QED
    BY Zenon, <1>2, <2>1 DEF Replaying
<1>4. CASE LiveConnect \/ LiveDisconnect \/ ReplayAsk \/ ReplayEnd
  <2>1. /\ UNCHANGED <<resp, servedHead>>
        /\ \E t \in Threads, place \in {"open", "check", "asked"} :
             Goto(t, place) /\ (t = "replay" => place # "open")
    BY Zenon, <1>4 DEF LiveConnect, LiveDisconnect, ReplayAsk, ReplayEnd, replay, Threads
  <2>2. Replaying' => Replaying
    BY Zenon, <1>0, <2>1 DEF Goto, Replaying, Critical, Threads
  <2>3. QED
    BY Zenon, <1>2, <2>1, <2>2
<1>5. CASE ReplayServe
  <2>1. servedHead' = Len(log)
    BY Zenon, <1>5 DEF ReplayServe
  <2>2. QED
    BY Zenon, <1>0, <1>5, <2>1, ServedQueue DEF Answered
<1>6. CASE ReplayFail
  BY Zenon, <1>1, <1>6 DEF ReplayFail
<1>7. ASSUME NEW t \in Threads, Check(t) \/ Exit(t) PROVE Answered'
  <2>1. CASE t = "live"
    <3>1. /\ UNCHANGED <<resp, servedHead>>
          /\ \E place \in Places : pc' = [pc EXCEPT !["live"] = place]
      BY Zenon, <1>7, <2>1 DEF Check, Exit, Forget, replay, Goto, Places
    <3>2. Replaying' => Replaying
      BY Zenon, <1>0, <3>1 DEF Replaying, Threads
    <3>3. QED
      BY Zenon, <1>2, <3>1, <3>2
  <2>2. CASE t # "live"
    BY Zenon, <1>1, <1>7, <2>2 DEF Check, Exit, Forget
  <2>3. QED
    BY Zenon, <2>1, <2>2
<1>8. ASSUME NEW t \in Threads, ClearAfterReset(t) \/ Apply(t) \/ Commit(t)
      PROVE  Answered'
  <2>1. /\ UNCHANGED <<resp, servedHead>> /\ pc[t] \in Critical
        /\ \E place \in Places : pc' = [pc EXCEPT ![t] = place]
    BY Zenon, <1>8 DEF ClearAfterReset, Apply, Commit, invalidateAndClear, replay, Goto,
                Critical, Places, Home
  <2>2. Replaying' => Replaying
    BY Zenon, <1>0, <2>1 DEF Replaying, Threads
  <2>3. QED
    BY Zenon, <1>2, <2>1, <2>2
<1>9. CASE LiveReceive
  <2>1. UNCHANGED <<resp, servedHead>> /\ accept("live", Head(wire))
    BY Zenon, <1>9 DEF LiveReceive, replay
  <2>2. pc'["replay"] = pc["replay"]
    BY Zenon, <1>0, <2>1 DEF accept, AcceptMalformed, AcceptReset, AcceptDuplicate, AcceptNext,
                      AcceptGap, invalidateAndClear, Goto, Threads
  <2>3. QED
    BY Zenon, <1>2, <2>1, <2>2 DEF Replaying
<1>10. CASE ReplayReceive
  <2>1. /\ pc["replay"] = "recv" /\ resp # <<>> /\ resp' = Tail(resp)
        /\ servedHead' = servedHead
    BY Zenon, <1>10 DEF ReplayReceive
  <2>2. resp[Len(resp)].seq = servedHead - 1
    BY Zenon, <1>0, <2>1 DEF Answered, Replaying
  <2>3. Tail(resp) # <<>> => Tail(resp)[Len(Tail(resp))] = resp[Len(resp)]
    BY Zenon, <1>0, <2>1, QueueRest DEF Generations
  <2>4. QED
    BY Zenon, <2>1, <2>2, <2>3 DEF Answered
<1>11. QED
  BY Zenon, <1>3, <1>4, <1>5, <1>6, <1>7, <1>8, <1>9, <1>10 DEF Next

\* accept without a fault and without a reset: the batch is old, or the next one,
\* or a live one that must wait for replay.
LEMMA AcceptOutcomes ==
  ASSUME IInv, NEW t \in Threads, NEW e \in Batch, accept(t, e), ~faulted', resets' = {}
  PROVE  /\ Unlocked /\ ~faulted /\ resets = {}
         /\ UNCHANGED <<hasSeq, lastSeq, base, confirmed>>
         /\ \/ pc' = pc /\ e.seq < nextSequence
            \/ pc' = [pc EXCEPT ![t] = "apply"] /\ ev' = e /\ e.seq = nextSequence
            \/ t = "live" /\ pc' = [pc EXCEPT ![t] = "check"]
<1>1. Unlocked /\ confirmed' = confirmed
  BY Zenon DEF accept
<1>2. ~AcceptMalformed(t, e) /\ ~AcceptReset(t, e)
  BY Zenon DEF AcceptMalformed, AcceptReset, invalidateAndClear
<1>3. CASE AcceptDuplicate(t, e)
  BY Zenon, <1>1, <1>3 DEF AcceptDuplicate
<1>4. CASE AcceptNext(t, e)
  BY Zenon, <1>1, <1>4 DEF AcceptNext, IsExpected, Goto
<1>5. CASE AcceptGap(t, e)
  BY <1>1, <1>5 DEF AcceptGap, invalidateAndClear, Goto
<1>6. QED
  BY Zenon, <1>2, <1>3, <1>4, <1>5 DEF accept

LEMMA CompleteNext ==
  ASSUME FInv, [Next]_vars
  PROVE  Complete'
<1>0. /\ IInv /\ TypeOK' /\ Complete /\ pc \in [Threads -> Places]
      /\ nextSequence \in Int /\ servedHead \in Int /\ requested \in Int
      /\ confirmed \in Int /\ gen \in Int /\ gen >= 1
  <2>1. IInv /\ Complete /\ TypeOK
    BY Zenon DEF FInv, IInv
  <2>2. TypeOK'
    BY Zenon, <2>1, TypeNext
  <2>3. pc \in [Threads -> Places] /\ gen >= 1
    BY <2>1, StreamConstants DEF TypeOK, StreamConstants
  <2>4. QED
    BY Zenon, <2>1, <2>2, <2>3, Heads
<1> SUFFICES ASSUME Clean' PROVE Complete'
  BY Zenon DEF Complete
<1> USE DEF Threads
<1>1. ASSUME UNCHANGED <<base, confirmed, ev, hasSeq, lastSeq, servedHead>>, Clean,
             \A u \in Threads : pc'[u] \in Critical => pc'[u] = pc[u],
             pc'["replay"] = "asked" => requested' <= nextSequence,
             pc'["replay"] = "recv" => pc["replay"] = "recv" /\ resp' = resp,
             pc'["replay"] \in Critical => resp' = resp
      PROVE  Complete'
  <2>1. /\ base = 0 /\ confirmed <= nextSequence
        /\ \A u \in Threads : /\ pc[u] # "clear"
                              /\ pc[u] \in Critical => ev.seq = nextSequence
        /\ Replaying /\ resp = <<>> =>
             servedHead <= IF pc["replay"] = "recv" THEN nextSequence ELSE nextSequence + 1
    BY Zenon, <1>0, <1>1 DEF Complete
  <2>2. nextSequence' = nextSequence
    BY Zenon, <1>1 DEF nextSequence
  <2>3. \A u \in Threads : /\ pc'[u] # "clear"
                           /\ pc'[u] \in Critical => ev'.seq = nextSequence'
    BY Zenon, <1>1, <2>1, <2>2 DEF Critical
  <2>4. Replaying' /\ resp' = <<>> =>
          servedHead' <= IF pc'["replay"] = "recv" THEN nextSequence' ELSE nextSequence' + 1
    BY Zenon, <1>1, <2>1, <2>2 DEF Replaying
  <2>5. QED
    BY Zenon, <1>1, <2>1, <2>2, <2>3, <2>4 DEF Complete
<1>2. CASE \/ \E kind \in Kinds : Publish(kind)
           \/ Restart \/ Age \/ UNCHANGED vars
  <2>1. /\ UNCHANGED <<pc, base, confirmed, ev, hasSeq, lastSeq, servedHead, requested,
                       resp, faulted, resets>>
        /\ gen' = gen \/ gen' = gen + 1
    BY Zenon, <1>2 DEF Publish, Restart, Age, vars, engine, replay, state, history
  <2>2. Clean
    BY <1>0, <2>1 DEF Clean
  <2>3. pc["replay"] = "asked" => requested <= nextSequence
    BY Zenon, <1>0, <2>2 DEF Complete
  <2>4. QED
    BY Zenon, <1>1, <2>1, <2>2, <2>3
<1>3. CASE LiveConnect \/ LiveDisconnect
  <2>1. /\ UNCHANGED <<base, confirmed, ev, hasSeq, lastSeq, servedHead, requested,
                       resp, faulted, resets, gen>>
        /\ \E place \in {"open", "check"} : pc' = [pc EXCEPT !["live"] = place]
    BY Zenon, <1>3 DEF LiveConnect, LiveDisconnect, engine, replay, state, history, Goto
  <2>2. Clean /\ (pc["replay"] = "asked" => requested <= nextSequence)
    BY Zenon, <1>0, <2>1 DEF Clean, Complete
  <2>3. QED
    BY Zenon, <1>0, <1>1, <2>1, <2>2 DEF Critical
<1>4. CASE ReplayAsk
  <2>1. /\ UNCHANGED <<base, confirmed, ev, hasSeq, lastSeq, servedHead,
                       resp, faulted, resets, gen>>
        /\ \/ pc' = [pc EXCEPT !["replay"] = "check"]
           \/ pc' = [pc EXCEPT !["replay"] = "asked"] /\ requested' = nextSequence
    BY Zenon, <1>4 DEF ReplayAsk, engine, replay, state, history, Goto
  <2>2. Clean
    BY Zenon, <2>1 DEF Clean
  <2>3. QED
    BY <1>0, <1>1, <2>1, <2>2 DEF Critical
<1>5. CASE ReplayFail
  <2>1. /\ UNCHANGED <<base, confirmed, ev, hasSeq, lastSeq, servedHead, faulted, resets, gen>>
        /\ pc' = [pc EXCEPT !["replay"] = "check"]
    BY Zenon, <1>5 DEF ReplayFail, engine, state, history, Goto
  <2>2. Clean
    BY Zenon, <2>1 DEF Clean
  <2>3. QED
    BY Zenon, <1>0, <1>1, <2>1, <2>2 DEF Critical
<1>6. CASE ReplayServe
  <2>1. /\ UNCHANGED <<base, confirmed, ev, hasSeq, lastSeq, faulted, resets, gen>>
        /\ pc["replay"] = "asked" /\ pc' = [pc EXCEPT !["replay"] = "recv"]
        /\ servedHead' = Len(log) /\ Len(log) \in Int
    BY <1>0, <1>6 DEF ReplayServe, engine, state, history, Goto, IInv, TypeOK
  <2>2. Clean /\ nextSequence' = nextSequence
    BY Zenon, <2>1 DEF Clean, nextSequence
  <2>3. requested <= nextSequence
    BY Zenon, <1>0, <2>1, <2>2 DEF Complete
  <2>4. resp' = <<>> => servedHead' <= nextSequence'
    BY <1>0, <1>6, <2>1, <2>2, <2>3, ServedQueue
  <2>5. QED
    BY Zenon, <1>0, <2>1, <2>2, <2>4 DEF Complete, Critical
<1>7. CASE ReplayEnd
  <2>1. /\ UNCHANGED <<base, ev, hasSeq, lastSeq, faulted, resets, gen, resp, servedHead>>
        /\ pc["replay"] = "recv" /\ pc' = [pc EXCEPT !["replay"] = "check"]
        /\ confirmed' = servedHead /\ resp = <<>>
    BY Zenon, <1>7 DEF ReplayEnd, EndReceived, engine, replay, Goto
  <2>2. Clean /\ nextSequence' = nextSequence
    BY Zenon, <2>1 DEF Clean, nextSequence
  <2>3. servedHead <= nextSequence
    BY Zenon, <1>0, <2>1, <2>2 DEF Complete, Replaying
  <2>4. QED
    BY Zenon, <1>0, <2>1, <2>2, <2>3 DEF Complete, Critical, Replaying
<1>8. ASSUME NEW t \in Threads, Check(t) \/ Exit(t) PROVE Complete'
  <2>1. /\ UNCHANGED <<base, confirmed, ev, hasSeq, lastSeq, faulted, resets, gen>>
        /\ \E place \in {"stopped", "down", "idle"} : pc' = [pc EXCEPT ![t] = place]
        /\ t = "live" => UNCHANGED <<requested, resp, servedHead>>
    BY Zenon, <1>8 DEF Check, Exit, Forget, engine, replay, state, history, Goto
  <2>2. Clean /\ nextSequence' = nextSequence
    BY Zenon, <2>1 DEF Clean, nextSequence
  <2>3. CASE t = "live"
    <3>1. pc["replay"] = "asked" => requested <= nextSequence
      BY Zenon, <1>0, <2>2 DEF Complete
    <3>2. QED
      BY Zenon, <1>0, <1>1, <2>1, <2>2, <2>3, <3>1 DEF Critical
  <2>4. CASE t = "replay"
    BY Zenon, <1>0, <2>1, <2>2, <2>4 DEF Complete, Critical, Replaying
  <2>5. QED
    BY Zenon, <2>3, <2>4
<1>9. ASSUME NEW t \in Threads, ClearAfterReset(t) PROVE Complete'
  <2>1. pc[t] = "clear" /\ ~faulted /\ resets = {} /\ gen = 1
    BY Zenon, <1>9 DEF ClearAfterReset, Clean, engine
  <2>2. QED
    BY Zenon, <1>0, <2>1 DEF Complete, Clean
<1>10. ASSUME NEW t \in Threads, Apply(t) PROVE Complete'
  <2>1. /\ UNCHANGED <<base, confirmed, ev, hasSeq, lastSeq, faulted, resets, gen, requested,
                       resp, servedHead>>
        /\ pc[t] = "apply" /\ pc' = [pc EXCEPT ![t] = "commit"]
    BY Zenon, <1>10 DEF Apply, invalidateAndClear, Clean, engine, replay, Goto
  <2>2. Clean /\ nextSequence' = nextSequence
    BY Zenon, <2>1 DEF Clean, nextSequence
  <2>3. QED
    BY Zenon, <1>0, <2>1, <2>2 DEF Complete, Critical, Replaying
<1>11. ASSUME NEW t \in Threads, Commit(t) PROVE Complete'
  <2>1. /\ UNCHANGED <<base, confirmed, faulted, resets, gen, requested, resp, servedHead>>
        /\ pc[t] = "commit" /\ pc' = [pc EXCEPT ![t] = Home(t)]
        /\ hasSeq' = TRUE /\ lastSeq' = ev.seq
    BY Zenon, <1>11 DEF Commit, engine, replay, history, Goto
  <2>2. Clean
    BY Zenon, <2>1 DEF Clean
  <2>3. ev.seq = nextSequence /\ base = 0 /\ confirmed <= nextSequence
        /\ (pc["replay"] = "asked" => requested <= nextSequence)
    BY Zenon, <1>0, <2>1, <2>2 DEF Complete, Critical
  <2>4. nextSequence' = nextSequence + 1
    BY Zenon, <2>1, <2>3 DEF nextSequence
  <2>5. \A u \in Threads : pc'[u] \notin Critical
    BY Zenon, <1>0, <2>1 DEF IInv, Mutex, Critical, Home
  <2>6. pc'["replay"] = "recv" => Replaying
    BY Zenon, <1>0, <2>1 DEF Replaying, Critical
  <2>7. pc'["replay"] = "asked" => pc["replay"] = "asked"
    BY Zenon, <1>0, <2>1 DEF Home
  <2>8. Replaying /\ resp = <<>> => servedHead <= nextSequence + 1
    BY <1>0, <2>2 DEF Complete
  <2>9. QED
    BY <1>0, <2>1, <2>3, <2>4, <2>5, <2>6, <2>7, <2>8 DEF Complete, Critical, Replaying
<1>12. CASE LiveReceive
  <2> DEFINE e == Head(wire)
  <2>1. /\ accept("live", e) /\ UNCHANGED <<gen, requested, resp, servedHead>>
        /\ pc["live"] = "open" /\ e \in Batch
    BY <1>0, <1>12, Numbers DEF LiveReceive, engine, replay
  <2> HIDE DEF e
  <2>2. /\ Unlocked /\ ~faulted /\ resets = {}
        /\ UNCHANGED <<hasSeq, lastSeq, base, confirmed>>
        /\ \/ pc' = pc
           \/ pc' = [pc EXCEPT !["live"] = "apply"] /\ ev' = e /\ e.seq = nextSequence
           \/ pc' = [pc EXCEPT !["live"] = "check"]
    BY Zenon, <1>0, <2>1, AcceptOutcomes DEF Clean
  <2>3. Clean /\ nextSequence' = nextSequence /\ pc'["replay"] = pc["replay"]
    BY Zenon, <1>0, <2>1, <2>2 DEF Clean, nextSequence
  <2>4. \A u \in Threads : /\ pc'[u] # "clear"
                           /\ pc'[u] \in Critical => ev'.seq = nextSequence'
    BY Zenon, <1>0, <2>2, <2>3 DEF Unlocked, Critical
  <2>5. QED
    BY Zenon, <1>0, <2>1, <2>2, <2>3, <2>4 DEF Complete, Replaying
<1>13. CASE ReplayReceive
  <2> DEFINE e == Head(resp)
  <2>1. /\ accept("replay", e) /\ UNCHANGED <<gen, requested, servedHead>>
        /\ pc["replay"] = "recv" /\ resp # <<>> /\ resp' = Tail(resp)
    BY Zenon, <1>13 DEF ReplayReceive, invalidateAndClear, Clean, engine
  <2>2. resp[Len(resp)].seq = servedHead - 1
    BY Zenon, <2>1 DEF FInv, Answered, Replaying
  <2>3. e \in Batch /\ (resp' = <<>> => e.seq = servedHead - 1)
    BY Zenon, <1>0, <2>1, <2>2, Numbers, QueueRest DEF FInv, Generations
  <2>4. e.seq \in Int
    BY <2>3, BatchFields
  <2> HIDE DEF e
  <2>5. /\ Unlocked /\ ~faulted /\ resets = {}
        /\ UNCHANGED <<hasSeq, lastSeq, base, confirmed>>
        /\ \/ pc' = pc /\ e.seq < nextSequence
           \/ pc' = [pc EXCEPT !["replay"] = "apply"] /\ ev' = e /\ e.seq = nextSequence
    BY Zenon, <1>0, <2>1, <2>3, AcceptOutcomes DEF Clean
  <2>6. Clean /\ nextSequence' = nextSequence
    BY Zenon, <2>1, <2>5 DEF Clean, nextSequence
  <2>7. \A u \in Threads : /\ pc'[u] # "clear"
                           /\ pc'[u] \in Critical => ev'.seq = nextSequence'
    BY Zenon, <1>0, <2>5, <2>6 DEF Unlocked, Critical
  <2>8. CASE pc' = pc /\ e.seq < nextSequence
    BY <1>0, <2>1, <2>3, <2>4, <2>5, <2>6, <2>7, <2>8 DEF Complete, Replaying
  <2>9. CASE pc' = [pc EXCEPT !["replay"] = "apply"] /\ e.seq = nextSequence
    <3>1. pc'["replay"] = "apply"
      BY Zenon, <1>0, <2>9
    <3>2. resp' = <<>> => servedHead' <= nextSequence' + 1
      BY <1>0, <2>1, <2>3, <2>4, <2>6, <2>9
    <3>3. QED
      BY Zenon, <1>0, <2>5, <2>6, <2>7, <3>1, <3>2 DEF Complete, Replaying
  <2>10. QED
    BY Zenon, <2>5, <2>8, <2>9
<1>14. CASE Invalidate \/ Close \/ RetireClear
  <2>1. faulted' = TRUE
    BY Zenon, <1>0, <1>14 DEF Invalidate, Close, RetireClear, IInv, Retired, history
  <2>2. QED
    BY Zenon, <2>1 DEF Clean
<1>15. QED
  BY Zenon, <1>2, <1>3, <1>4, <1>5, <1>6, <1>7, <1>8, <1>9, <1>10, <1>11, <1>12, <1>13, <1>14
     DEF Next

\* A valid stream of an engine that never reset holds every batch the engine had
\* published when it answered the replay that renewed freshness: replayOnce sets
\* the heartbeat only at END, after accept has committed each reply, and the live
\* goroutine between two replies can only have been ahead of them.
THEOREM FreshStreamsAreComplete == Spec => []FreshIsComplete
<1>1. Init => FInv
  <2> SUFFICES ASSUME Init PROVE FInv
    BY Zenon
  <2>1. Generations
    BY DEF Init, Generations, NoBatch
  <2>2. Answered
    BY Zenon DEF Init, Answered
  <2>3. Complete
    BY DEF Init, Complete, Replaying, Critical, nextSequence, Threads
  <2>4. QED
    BY Zenon, <2>1, <2>2, <2>3, InvInit DEF FInv
<1>2. FInv /\ [Next]_vars => FInv'
  BY Zenon, InvNext, GenerationsNext, AnsweredNext, CompleteNext DEF FInv
<1>3. FInv => FreshIsComplete
  <2> SUFFICES ASSUME FInv, Clean, NEW s \in 0..(confirmed - 1)
               PROVE  <<1, s>> \in index
    BY Zenon DEF FreshIsComplete, Clean
  <2>1. /\ IInv /\ lastSeq \in Int /\ base \in Int /\ ev.seq \in Int /\ confirmed \in Int
    BY Zenon, Numbers, Heads DEF FInv
  <2>2. /\ base = 0 /\ confirmed <= nextSequence
        /\ \A t \in Threads : /\ pc[t] # "clear"
                              /\ pc[t] \in Critical => ev.seq = nextSequence
    BY Zenon DEF FInv, Complete
  <2>3. hasSeq /\ s \in 0..lastSeq
    BY <2>1, <2>2 DEF nextSequence
  <2>4. s \in Sequences_
    <3>1. CASE Unlocked
      BY Zenon, <2>1, <2>2, <2>3, <3>1 DEF Clean, IInv, Contiguous, Expected
    <3>2. ASSUME NEW t \in Threads, pc[t] = "apply" PROVE s \in Sequences_
      BY Zenon, <2>1, <2>2, <2>3, <3>2 DEF Clean, IInv, Contiguous, Expected
    <3>3. ASSUME NEW t \in Threads, pc[t] = "commit" PROVE s \in Sequences_
      BY <2>1, <2>2, <2>3, <3>3 DEF Clean, IInv, Contiguous, Critical, nextSequence
    <3>4. QED
      BY Zenon, <2>2, <3>1, <3>2, <3>3 DEF Unlocked, Critical
  <2>5. PICK b \in index : b[2] = s
    BY Zenon, <2>4 DEF Sequences_
  <2>6. b \in (1..MaxGen) \X (0..MaxSeq) /\ b[1] <= 1
    BY Zenon, <2>1, <2>5 DEF IInv, TypeOK, FInv, Generations, Clean
  <2>7. b = <<1, s>>
    BY <2>5, <2>6
  <2>8. QED
    BY Zenon, <2>5, <2>7
<1>4. QED
  BY <1>1, <1>2, <1>3, PTL DEF Spec
=============================================================================
