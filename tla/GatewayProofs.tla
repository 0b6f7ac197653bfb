--------------------------- MODULE GatewayProofs ---------------------------
(***************************************************************************)
(* The proxy handlers, for any finite set of requests, any backends and    *)
(* any circuit configuration: what a request took it gives back, a backend *)
(* is blamed for its own failures only, a circuit opens on evidence, and   *)
(* the first token is observed at the first event, however the stream of   *)
(* any upstream is cut into reads.                                         *)
(***************************************************************************)
EXTENDS Gateway, FiniteSetTheorems, SequenceTheorems, TLAPS

Entries == [num : Nat, den : Nat \ {0}, samples : Nat, openUntil : 0..MaxTime + OpenDuration]

ValidStream(s) == s.body \in Seq(Tokens) /\ s.pos \in 0..Len(s.body)

BreakerTypes ==
    /\ time \in 0..MaxTime
    /\ circuit \in [Backends -> Entries]
    /\ inflight \in [Backends \cup {Service} -> Nat]
    /\ recorded \in [Backends -> Nat] /\ faults \in [Backends -> Nat]

HandlerTypes ==
    /\ pc \in [Requests -> Places] /\ gone \in [Requests -> BOOLEAN]
    /\ lease \in [Requests -> Backends \cup {Service, None}]
    /\ at \in [Requests -> 0..MaxTime]
    /\ answers \in [Requests -> Nat]
    /\ cause \in [Requests -> Causes] /\ outcome \in [Requests -> Outcomes]

StreamTypes ==
    stream = [r \in Requests |-> stream[r]] /\ \A r \in Requests : ValidStream(stream[r])

Types == BreakerTypes /\ HandlerTypes /\ StreamTypes

Holding == {"upstream", "failed", "stream", "copied", "settle", "release"}
Unanswered == {"arrive", "body", "select", "upstream", "failed"}
Answered == {"settle", "release", "done"}

\* What holds of one handler where it is.
Handled(r) ==
    /\ lease[r] # None <=> pc[r] \in Holding
    /\ pc[r] \in Unanswered => answers[r] = 0
    /\ pc[r] \in {"stream", "copied"} => answers[r] = 1
    /\ pc[r] \in Answered => answers[r] <= 1 /\ (~gone[r] => answers[r] = 1)
    /\ pc[r] \in Unanswered \ {"failed"} => cause[r] = None
    /\ pc[r] = "failed" => cause[r] \in Whys /\ (cause[r] = "client" => gone[r])
    /\ pc[r] = "settle" =>
         /\ outcome[r] \in Failures => cause[r] \in {"fault", "timeout"}
         /\ cause[r] \in {"fault", "timeout"} /\ ~gone[r] => outcome[r] \in Failures

Running == {r \in Requests : Inside(r)}
Settled == {r \in Requests : pc[r] \in {"release", "done"}}

\* Permits and leases, counted.
Books ==
    /\ permits = Cardinality(Running) /\ permits <= Limit
    /\ \A b \in Backends \cup {Service} : inflight[b] = Cardinality(Leased(b))

\* What the breaker knows of a backend, against what was recorded.
Evidence ==
    \A b \in Backends :
        /\ recorded[b] <= Cardinality(Settled)
        /\ circuit[b].samples <= recorded[b] /\ faults[b] <= recorded[b]
        /\ faults[b] = 0 => circuit[b].num = 0

IInv == Types /\ (\A r \in Requests : Handled(r)) /\ Books /\ Evidence /\ OpenHasEvidence
-----------------------------------------------------------------------------
LEMMA SubsetsOfRequests ==
  ASSUME NEW S \in SUBSET Requests
  PROVE  /\ IsFiniteSet(S) /\ Cardinality(S) \in Nat
         /\ Cardinality(S) <= Cardinality(Requests)
  BY Zenon, GatewayConstants, FS_Subset, FS_CardinalityType DEF GatewayConstants

LEMMA Joins ==
  ASSUME NEW S \in SUBSET Requests, NEW r \in Requests \ S
  PROVE  Cardinality(S \cup {r}) = Cardinality(S) + 1
  BY Zenon, SubsetsOfRequests, FS_AddElement

LEMMA Leaves ==
  ASSUME NEW S \in SUBSET Requests, NEW r \in S
  PROVE  Cardinality(S \ {r}) = Cardinality(S) - 1 /\ Cardinality(S) > 0
<1>1. r \in Requests \ (S \ {r}) /\ (S \ {r}) \cup {r} = S /\ S \ {r} \in SUBSET Requests
  BY Zenon
<1>2. Cardinality(S) = Cardinality(S \ {r}) + 1
  BY Zenon, <1>1, Joins
<1>3. QED
  BY <1>1, <1>2, SubsetsOfRequests

LEMMA Scales ==
  ASSUME NEW x \in Nat, NEW y \in Nat, NEW d \in Nat \ {0}, x < y
  PROVE  x * d < y * d
<1>1. PICK k \in Nat \ {0} : y = x + k
  <2>1. y - x \in Nat \ {0} /\ y = x + (y - x)
    OBVIOUS
  <2>2. QED
    BY Zenon, <2>1
<1>2. y * d = x * d + k * d /\ k * d > 0
  BY <1>1
<1>3. QED
  BY <1>2

\* circuits.Record: what a result can do to the state of a backend.
LEMMA RecordFacts ==
  ASSUME NEW state \in Entries, NEW failure \in BOOLEAN, NEW now \in 0..MaxTime
  PROVE  LET new == Record(state, failure, now)
         IN  /\ new \in Entries /\ new.samples <= state.samples + 1
             /\ \/ new.openUntil = 0 \/ new.openUntil = state.openUntil
                \/ /\ failure /\ new.openUntil = now + OpenDuration
                   /\ new.samples >= MinimumRequests /\ OverThreshold(new.num, new.den)
             /\ state.num = 0 /\ ~failure => new.num = 0
             /\ /\ state.num = 0 /\ failure /\ new.samples > 1
                /\ AlphaNum * ThresholdDen < ThresholdNum * AlphaDen
                => ~OverThreshold(new.num, new.den)
<1> DEFINE old == IF Expired(state, now) THEN Closed ELSE state
           sample == IF failure THEN 1 ELSE 0
           num == IF old.samples = 0
                  THEN sample
                  ELSE AlphaNum * sample * old.den + (AlphaDen - AlphaNum) * old.num
           den == IF old.samples = 0 THEN 1 ELSE AlphaDen * old.den
           samples == old.samples + 1
           opens == failure /\ samples >= MinimumRequests /\ OverThreshold(num, den)
           new == Record(state, failure, now)
<1>1. /\ AlphaNum \in Nat /\ AlphaDen \in Nat \ {0} /\ AlphaDen - AlphaNum \in Nat
      /\ ThresholdNum \in Nat /\ ThresholdDen \in Nat /\ OpenDuration \in Nat /\ MaxTime \in Nat
      /\ MinimumRequests \in Nat
  BY GatewayConstants DEF GatewayConstants
<1>2. new = [num |-> num, den |-> den, samples |-> samples,
             openUntil |-> IF opens THEN now + OpenDuration ELSE old.openUntil]
  BY Zenon DEF Record, OpenUntil
<1>3. /\ old \in Entries /\ (state.num = 0 => old.num = 0) /\ old.samples <= state.samples
      /\ old.openUntil \in {0, state.openUntil}
  BY <1>1 DEF Entries, Closed, Zero
<1>4. sample \in {0, 1} /\ old.num \in Nat /\ old.den \in Nat \ {0} /\ old.samples \in Nat
  BY Zenon, <1>3 DEF Entries
<1>5. num \in Nat
  <2>1. AlphaNum * sample \in Nat /\ (AlphaDen - AlphaNum) * old.num \in Nat
    BY <1>1, <1>4
  <2>2. (AlphaNum * sample) * old.den \in Nat
    BY <1>4, <2>1
  <2>3. QED
    BY <1>4, <2>1, <2>2
<1>6. den \in Nat \ {0}
  BY <1>1, <1>4
<1>7. new \in Entries
  <2>1. new.openUntil \in 0..MaxTime + OpenDuration
    BY <1>1, <1>2, <1>3 DEF Entries
  <2>2. QED
    BY <1>2, <1>4, <1>5, <1>6, <2>1 DEF Entries
<1>8. new.samples <= state.samples + 1
  BY <1>2, <1>3, <1>4 DEF Entries
<1>9. \/ new.openUntil = 0 \/ new.openUntil = state.openUntil
      \/ /\ failure /\ new.openUntil = now + OpenDuration
         /\ new.samples >= MinimumRequests /\ OverThreshold(new.num, new.den)
  BY <1>2, <1>3
<1>10. state.num = 0 /\ ~failure => new.num = 0
  BY <1>1, <1>2, <1>3, <1>4
<1>11. ASSUME state.num = 0, failure, new.samples > 1,
              AlphaNum * ThresholdDen < ThresholdNum * AlphaDen
       PROVE  ~OverThreshold(new.num, new.den)
  <2>1. old.samples # 0 /\ old.num = 0 /\ sample = 1
    BY <1>2, <1>3, <1>4, <1>11
  <2>2. new.num = AlphaNum * old.den /\ new.den = AlphaDen * old.den
    BY <1>1, <1>2, <1>4, <2>1
  <2>3. (AlphaNum * ThresholdDen) * old.den < (ThresholdNum * AlphaDen) * old.den
    BY <1>1, <1>4, <1>11, Scales
  <2>4. (AlphaNum * old.den) * ThresholdDen < ThresholdNum * (AlphaDen * old.den)
    BY <1>1, <1>4, <2>3
  <2>5. QED
    BY <1>1, <1>4, <2>2, <2>4 DEF OverThreshold
<1>12. QED
  BY Zenon, <1>7, <1>8, <1>9, <1>10, <1>11

\* IsOpen forgets, and adds nothing.
LEMMA CheckedFacts ==
  ASSUME NEW state \in Entries, NEW now \in 0..MaxTime
  PROVE  /\ Checked(state, now) \in Entries
         /\ Checked(state, now).samples <= state.samples
         /\ Checked(state, now).openUntil \in {0, state.openUntil}
         /\ state.num = 0 => Checked(state, now).num = 0
  BY GatewayConstants DEF GatewayConstants, Checked, Closed, Entries, Zero

LEMMA ValidIdle == ValidStream(Idle)
<1>1. <<>> \in Seq(Tokens) /\ Len(<<>>) = 0
  OBVIOUS
<1>2. Idle.body = <<>> /\ Idle.pos = 0
  BY Zenon DEF Idle
<1>3. QED
  BY <1>1, <1>2 DEF ValidStream

LEMMA InitIInv == Init => IInv
<1> SUFFICES ASSUME Init PROVE IInv
  BY Zenon
<1> USE GatewayConstants DEF GatewayConstants
<1>1. Types
  <2>1. circuit \in [Backends -> Entries]
    BY DEF Init, Closed, Entries, Zero
  <2>2. /\ stream = [r \in Requests |-> stream[r]]
        /\ \A r \in Requests : ValidStream(stream[r])
    BY Zenon, ValidIdle DEF Init
  <2>3. QED
    BY <2>1, <2>2
    DEF Init, Types, BreakerTypes, HandlerTypes, StreamTypes, Places, Causes, Outcomes, Whys
<1>2. \A r \in Requests : Handled(r)
  BY Zenon DEF Init, Handled, Holding, Unanswered, Answered
<1>3. Books
  <2>1. Running = {} /\ \A b \in Backends \cup {Service} : Leased(b) = {}
    BY Zenon DEF Init, Running, Inside, Leased
  <2>2. QED
    <3>1. Cardinality({}) = 0
      BY Zenon, FS_EmptySet
    <3>2. permits = 0 /\ permits <= Limit
      BY DEF Init
    <3>3. \A b \in Backends \cup {Service} : inflight[b] = 0
      BY Zenon DEF Init
    <3>4. QED
      BY Zenon, <2>1, <3>1, <3>2, <3>3 DEF Books
<1>4. Evidence /\ OpenHasEvidence
  <2>1. Cardinality(Settled) \in Nat
    BY Zenon, SubsetsOfRequests DEF Settled
  <2>2. QED
    BY <2>1 DEF Init, Evidence, OpenHasEvidence, Closed, Zero
<1>5. QED
  BY Zenon, <1>1, <1>2, <1>3, <1>4 DEF IInv

-----------------------------------------------------------------------------
(* What a step that leaves a part of the state alone preserves.            *)

LEMMA HandledFrame ==
  ASSUME NEW q, Handled(q), pc'[q] = pc[q], gone'[q] = gone[q], lease'[q] = lease[q],
         answers'[q] = answers[q], cause'[q] = cause[q], outcome'[q] = outcome[q]
  PROVE  Handled(q)'
  BY DEF Handled

LEMMA BooksFrame ==
  ASSUME Books, UNCHANGED <<permits, inflight>>,
         \A q \in Requests : lease'[q] = lease[q] /\ (Inside(q)' <=> Inside(q))
  PROVE  Books'
<1>1. Running' = Running
  BY Zenon DEF Running
<1>2. \A b : Leased(b)' = Leased(b)
  BY Zenon DEF Leased
<1>3. QED
  BY Zenon, <1>1, <1>2 DEF Books

LEMMA SettledGrows ==
  ASSUME \A q \in Requests : pc[q] \in {"release", "done"} => pc'[q] \in {"release", "done"}
  PROVE  /\ Cardinality(Settled) \in Nat /\ Cardinality(Settled') \in Nat
         /\ Cardinality(Settled) <= Cardinality(Settled')
<1>1. Settled \subseteq Settled' /\ Settled' \in SUBSET Requests
  BY Zenon DEF Settled
<1>2. QED
  BY Zenon, <1>1, SubsetsOfRequests, FS_Subset

LEMMA EvidenceFrame ==
  ASSUME Types, Types', Evidence, OpenHasEvidence, time <= time', UNCHANGED evidence,
         \A q \in Requests : pc[q] \in {"release", "done"} => pc'[q] \in {"release", "done"},
         \A b \in Backends : /\ circuit'[b].samples <= circuit[b].samples
                             /\ circuit'[b].openUntil \in {0, circuit[b].openUntil}
                             /\ circuit[b].num = 0 => circuit'[b].num = 0
  PROVE  Evidence' /\ OpenHasEvidence'
<1> SUFFICES ASSUME NEW b \in Backends
             PROVE  /\ recorded'[b] <= Cardinality(Settled')
                    /\ circuit'[b].samples <= recorded'[b] /\ faults'[b] <= recorded'[b]
                    /\ faults'[b] = 0 => circuit'[b].num = 0
                    /\ circuit'[b].openUntil # 0 =>
                         /\ recorded'[b] >= MinimumRequests
                         /\ circuit'[b].openUntil <= time' + OpenDuration
                         /\ faults'[b] > 0
                         /\ MinimumRequests > 1 /\ AlphaNum * ThresholdDen < ThresholdNum * AlphaDen
                              => faults'[b] > 1
  BY Zenon DEF Evidence, OpenHasEvidence, Zero
<1>1. /\ recorded'[b] = recorded[b] /\ faults'[b] = faults[b]
      /\ recorded[b] \in Nat /\ faults[b] \in Nat /\ time \in Nat /\ time' \in Nat
      /\ circuit[b] \in Entries /\ circuit'[b] \in Entries
  BY DEF Types, BreakerTypes, evidence
<1>2. /\ recorded[b] <= Cardinality(Settled)
      /\ circuit[b].samples <= recorded[b] /\ faults[b] <= recorded[b]
      /\ faults[b] = 0 => circuit[b].num = 0
  BY Zenon DEF Evidence
<1>3. circuit[b].openUntil # 0 =>
        /\ recorded[b] >= MinimumRequests /\ circuit[b].openUntil <= time + OpenDuration
        /\ faults[b] > 0
        /\ MinimumRequests > 1 /\ AlphaNum * ThresholdDen < ThresholdNum * AlphaDen
             => faults[b] > 1
  BY Zenon DEF OpenHasEvidence, Zero
<1>4. recorded'[b] <= Cardinality(Settled')
  BY <1>1, <1>2, SettledGrows
<1>5. circuit'[b].samples <= recorded'[b] /\ circuit[b].openUntil \in Nat
  BY SMTT(30), <1>1, <1>2, GatewayConstants DEF Entries, GatewayConstants
<1>6. circuit'[b].openUntil # 0 => circuit'[b].openUntil <= time' + OpenDuration
  BY <1>1, <1>3, <1>5, GatewayConstants DEF GatewayConstants
<1>7. QED
  BY Zenon, <1>1, <1>2, <1>3, <1>4, <1>5, <1>6

LEMMA StillEvidence ==
  ASSUME IInv, Types', UNCHANGED <<time, circuit, evidence>>,
         \A q \in Requests : pc[q] \in {"release", "done"} => pc'[q] \in {"release", "done"}
  PROVE  Evidence' /\ OpenHasEvidence'
<1>1. time <= time' /\ UNCHANGED evidence
  BY DEF IInv, Types, BreakerTypes
<1>2. \A b \in Backends : circuit'[b] = circuit[b] /\ circuit[b].samples \in Nat
  BY Zenon DEF IInv, Types, BreakerTypes, Entries
<1>3. QED
  BY <1>1, <1>2, EvidenceFrame DEF IInv

\* The deferred permit.Release.
LEMMA PermitReturned ==
  ASSUME Books, NEW r \in Requests, Inside(r), pc'[r] = "done", permits' = permits - 1,
         \A q \in Requests \ {r} : pc'[q] = pc[q]
  PROVE  permits' = Cardinality(Running') /\ permits' <= Limit
<1>1. r \in Running /\ Running \in SUBSET Requests /\ Running' = Running \ {r}
  BY Zenon DEF Running, Inside
<1>2. permits' = Cardinality(Running') /\ permits \in Nat
  BY Zenon, <1>1, Leaves, SubsetsOfRequests DEF Books
<1>3. QED
  BY <1>2, GatewayConstants DEF Books, GatewayConstants

\* A step inside one handler, between the permit and the settlement.
LEMMA Inner ==
  ASSUME IInv, HandlerTypes', StreamTypes', NEW r \in Requests, Handled(r)',
         UNCHANGED <<time, permits, circuit, inflight, lease, evidence>>,
         pc[r] \in Places \ {"arrive", "release", "done"}, pc'[r] \notin {"arrive", "done"},
         \A q \in Requests \ {r} : /\ pc'[q] = pc[q] /\ gone'[q] = gone[q]
                                   /\ answers'[q] = answers[q] /\ cause'[q] = cause[q]
                                   /\ outcome'[q] = outcome[q]
  PROVE  IInv'
<1>0. Types'
  BY Zenon DEF IInv, Types, BreakerTypes, evidence
<1>1. \A q \in Requests : Handled(q)'
  BY Zenon, HandledFrame DEF IInv
<1>2. Books'
  BY Zenon, BooksFrame DEF IInv, Inside
<1>3. Evidence' /\ OpenHasEvidence'
  <2>1. \A q \in Requests : pc[q] \in {"release", "done"} => pc'[q] \in {"release", "done"}
    BY Zenon
  <2>2. QED
    BY Zenon, <1>0, <2>1, StillEvidence
<1>4. QED
  BY Zenon, <1>0, <1>1, <1>2, <1>3 DEF IInv

-----------------------------------------------------------------------------
(* Steps inside one handler.                                               *)

LEMMA StreamUpdate ==
  ASSUME StreamTypes, NEW r \in Requests, NEW new, ValidStream(new), stream' = [stream EXCEPT ![r] = new]
  PROVE  StreamTypes'
<1>1. stream' = [q \in Requests |-> IF q = r THEN new ELSE stream[q]]
  BY Zenon DEF StreamTypes
<1>2. QED
  BY Zenon, <1>1 DEF StreamTypes

LEMMA Now == IInv => time \in 0..MaxTime
  BY Zenon DEF IInv, Types, BreakerTypes

LEMMA StreamFrame == IInv /\ UNCHANGED stream => StreamTypes'
  BY Zenon DEF IInv, Types, StreamTypes

LEMMA ReadBodyStep == ASSUME IInv, NEW r \in Requests, ReadBody(r) PROVE IInv'
<1>1. HandlerTypes' /\ StreamTypes'
  <2>1. StreamTypes'
    BY Zenon, StreamFrame DEF ReadBody
  <2>2. HandlerTypes'
    BY Zenon, Now DEF IInv, Types, HandlerTypes, ReadBody, Goto, Places
  <2>3. QED
    BY Zenon, <2>1, <2>2
<1>2. pc[r] = "body" /\ pc'[r] = "select" /\ \A q \in Requests \ {r} : pc'[q] = pc[q]
  BY Zenon DEF IInv, Types, HandlerTypes, ReadBody, Goto
<1>3. Handled(r)'
  BY Zenon, <1>2 DEF IInv, Handled, ReadBody, Holding, Unanswered, Answered
<1>4. QED
  BY Zenon, <1>1, <1>2, <1>3, Inner DEF ReadBody, Places

LEMMA UpstreamErrorStep ==
  ASSUME IInv, NEW r \in Requests, NEW why \in Whys, UpstreamError(r, why) PROVE IInv'
<1>1. HandlerTypes' /\ StreamTypes'
  <2>1. StreamTypes'
    BY Zenon, StreamFrame DEF UpstreamError
  <2>2. HandlerTypes'
    BY Zenon DEF IInv, Types, HandlerTypes, UpstreamError, Goto, Places, evidence, Causes
  <2>3. QED
    BY Zenon, <2>1, <2>2
<1>2. pc[r] = "upstream" /\ pc'[r] = "failed" /\ \A q \in Requests \ {r} : pc'[q] = pc[q]
  BY Zenon DEF IInv, Types, HandlerTypes, UpstreamError, Goto
<1>3. cause'[r] = why /\ \A q \in Requests \ {r} : cause'[q] = cause[q]
  BY Zenon DEF IInv, Types, HandlerTypes, UpstreamError
<1>4. Handled(r)'
  <2>1. why = "client" => gone'[r]
    BY Zenon DEF UpstreamError, Interrupted
  <2>2. QED
    BY Zenon, <1>2, <1>3, <2>1 DEF IInv, Handled, UpstreamError, Holding, Unanswered, Answered
<1>5. QED
  BY Zenon, <1>1, <1>2, <1>3, <1>4, Inner DEF UpstreamError, Places

LEMMA UpstreamHeadersStep == ASSUME IInv, NEW r \in Requests, UpstreamHeaders(r) PROVE IInv'
<1>1. pc[r] = "upstream" /\ pc'[r] = "stream" /\ \A q \in Requests \ {r} : pc'[q] = pc[q]
  BY Zenon DEF IInv, Types, HandlerTypes, UpstreamHeaders, Goto
<1>2. answers'[r] = answers[r] + 1 /\ \A q \in Requests \ {r} : answers'[q] = answers[q]
  BY Zenon DEF IInv, Types, HandlerTypes, UpstreamHeaders, Answer
<1>3. HandlerTypes' /\ StreamTypes'
  <2>1. PICK body \in Bodies[r] : stream' = [stream EXCEPT ![r] = [Idle EXCEPT !.body = body]]
    BY Zenon DEF UpstreamHeaders
  <2>2. body \in Seq(Tokens) /\ Len(body) \in Nat
    BY <2>1, GatewayConstants DEF GatewayConstants
  <2> DEFINE new == [Idle EXCEPT !.body = body]
  <2>3. ValidStream(new)
    <3>1. new.body = body /\ new.pos = 0
      BY Zenon DEF Idle
    <3>2. QED
      BY <2>2, <3>1 DEF ValidStream
  <2>4. StreamTypes'
    BY Zenon, <2>1, <2>3, StreamUpdate DEF IInv, Types
  <2>5. QED
    BY <2>4 DEF IInv, Types, HandlerTypes, UpstreamHeaders, Goto, Answer, Places
<1>4. Handled(r)'
  BY <1>1, <1>2 DEF IInv, Handled, UpstreamHeaders, Holding, Unanswered, Answered
<1>5. QED
  BY Zenon, <1>1, <1>2, <1>3, <1>4, Inner DEF UpstreamHeaders, Places

LEMMA InvalidUpstreamStep == ASSUME IInv, NEW r \in Requests, InvalidUpstream(r) PROVE IInv'
<1>1. pc[r] = "upstream" /\ pc'[r] = "settle" /\ \A q \in Requests \ {r} : pc'[q] = pc[q]
  BY Zenon DEF IInv, Types, HandlerTypes, InvalidUpstream, Goto
<1>2. answers'[r] = answers[r] + 1 /\ \A q \in Requests \ {r} : answers'[q] = answers[q]
  BY Zenon DEF IInv, Types, HandlerTypes, InvalidUpstream, Answer
<1>3. outcome'[r] = "invalid" /\ \A q \in Requests \ {r} : outcome'[q] = outcome[q]
  BY Zenon DEF IInv, Types, HandlerTypes, InvalidUpstream
<1>4. HandlerTypes' /\ StreamTypes'
  <2>1. StreamTypes'
    BY Zenon, StreamFrame DEF InvalidUpstream
  <2>2. HandlerTypes'
    BY Now DEF IInv, Types, HandlerTypes, InvalidUpstream, Goto, Answer, Places, Outcomes
  <2>3. QED
    BY Zenon, <2>1, <2>2
<1>5. Handled(r)'
  <2>1. /\ lease'[r] # None /\ cause'[r] = None /\ answers'[r] = 1
        /\ outcome'[r] \notin Failures
    BY <1>1, <1>2, <1>3 DEF IInv, Handled, InvalidUpstream, Holding, Unanswered, Failures
  <2>2. QED
    BY <1>1, <2>1 DEF Handled, Holding, Unanswered, Answered, None
<1>6. QED
  BY Zenon, <1>1, <1>2, <1>3, <1>4, <1>5, Inner DEF InvalidUpstream, Places

LEMMA CopyChunkStep ==
  ASSUME IInv, NEW r \in Requests, NEW n \in Nat, NEW why \in Causes, CopyChunk(r, n, why)
  PROVE  IInv'
<1> DEFINE place == IF why = None THEN "stream" ELSE "copied"
<1>1. pc[r] = "stream" /\ pc'[r] = place /\ \A q \in Requests \ {r} : pc'[q] = pc[q]
  BY Zenon DEF IInv, Types, HandlerTypes, CopyChunk, Goto
<1>2. \A q \in Requests \ {r} : cause'[q] = cause[q]
  BY Zenon DEF IInv, Types, HandlerTypes, CopyChunk
<1>3. HandlerTypes' /\ StreamTypes'
  <2> DEFINE old  == stream[r]
             next == Feed([line |-> old.line, emitted |-> old.emitted],
                          SubSeq(old.body, old.pos + 1, old.pos + n))
             new  == [body |-> old.body, pos |-> old.pos + n,
                      line |-> next.line, emitted |-> next.emitted,
                      ttft |-> old.ttft + (IF next.emitted /\ ~old.emitted THEN 1 ELSE 0)]
  <2>1. stream' = [stream EXCEPT ![r] = new]
    BY Zenon DEF CopyChunk
  <2>2. new.body = old.body /\ new.pos = old.pos + n
    BY Zenon
  <2>3. /\ old.pos + n <= Len(old.body) /\ old.pos \in Nat
        /\ old.body \in Seq(Tokens) /\ Len(old.body) \in Nat
    BY DEF CopyChunk, IInv, Types, StreamTypes, ValidStream
  <2> HIDE DEF new
  <2>4. ValidStream(new)
    BY <2>2, <2>3 DEF ValidStream
  <2>5. StreamTypes'
    BY Zenon, <2>1, <2>4, StreamUpdate DEF IInv, Types
  <2>6. QED
    BY Zenon, <2>5 DEF IInv, Types, HandlerTypes, CopyChunk, Goto, Places
<1>4. Handled(r)'
  BY Zenon, <1>1 DEF IInv, Handled, CopyChunk, Holding, Unanswered, Answered
<1>5. QED
  BY Zenon, <1>1, <1>2, <1>3, <1>4, Inner DEF CopyChunk, Places

\* handleUpstreamError looks at the client first, and answers one that waits.
LEMMA ClassifyErrorStep == ASSUME IInv, NEW r \in Requests, ClassifyError(r) PROVE IInv'
<1>1. pc[r] = "failed" /\ pc'[r] = "settle" /\ \A q \in Requests \ {r} : pc'[q] = pc[q]
  BY Zenon DEF IInv, Types, HandlerTypes, ClassifyError, Goto
<1>2. \A q \in Requests \ {r} : answers'[q] = answers[q] /\ outcome'[q] = outcome[q]
  BY Zenon DEF IInv, Types, HandlerTypes, ClassifyError, Answer
<1>3. outcome'[r] = handleUpstreamError(r)
  BY Zenon DEF IInv, Types, HandlerTypes, ClassifyError
<1>4. answers'[r] <= 1 /\ (~gone[r] => answers'[r] = 1)
  BY <1>1 DEF IInv, Types, HandlerTypes, ClassifyError, Replies, Answer, Handled, Unanswered
<1>5. HandlerTypes' /\ StreamTypes'
  <2>1. handleUpstreamError(r) \in Outcomes
    BY Zenon DEF handleUpstreamError, Outcomes, Transport, Failures
  <2>2. answers' \in [Requests -> Nat]
    <3>1. CASE Replies(r)
      BY <3>1 DEF IInv, Types, HandlerTypes, ClassifyError, Answer
    <3>2. CASE ~Replies(r)
      BY Zenon, <3>2 DEF IInv, Types, HandlerTypes, ClassifyError
    <3>3. QED
      BY Zenon, <3>1, <3>2
  <2>3. StreamTypes'
    BY Zenon, StreamFrame DEF ClassifyError
  <2>4. pc' \in [Requests -> Places] /\ at' \in [Requests -> 0..MaxTime]
    BY Zenon, Now DEF IInv, Types, HandlerTypes, ClassifyError, Goto, Places
  <2>5. outcome' \in [Requests -> Outcomes]
    BY Zenon, <2>1 DEF IInv, Types, HandlerTypes, ClassifyError
  <2>6. UNCHANGED <<gone, lease, cause>>
    BY Zenon DEF ClassifyError
  <2>7. QED
    BY Zenon, <2>2, <2>3, <2>4, <2>5, <2>6 DEF IInv, Types, HandlerTypes
<1>6. Handled(r)'
  <2>1. cause'[r] = cause[r] /\ gone'[r] = gone[r] /\ lease'[r] = lease[r]
    BY Zenon DEF ClassifyError
  <2>2. cause[r] \in Whys /\ (cause[r] = "client" => gone[r]) /\ lease[r] # None
    BY Zenon, <1>1 DEF IInv, Handled, Holding
  <2>3. /\ outcome'[r] \in Failures => cause[r] \in {"fault", "timeout"}
        /\ cause[r] \in {"fault", "timeout"} /\ ~gone[r] => outcome'[r] \in Failures
    BY Zenon, <1>3, <2>2 DEF handleUpstreamError, Failures, Whys
  <2>4. QED
    BY Zenon, <1>1, <1>4, <2>1, <2>2, <2>3 DEF Handled, Holding, Unanswered, Answered
<1>7. QED
  BY Zenon, <1>1, <1>2, <1>5, <1>6, Inner DEF ClassifyError, Places

\* classifyStreamResult likewise.
LEMMA ClassifyStreamStep == ASSUME IInv, NEW r \in Requests, ClassifyStream(r) PROVE IInv'
<1>1. pc[r] = "copied" /\ pc'[r] = "settle" /\ \A q \in Requests \ {r} : pc'[q] = pc[q]
  BY Zenon DEF IInv, Types, HandlerTypes, ClassifyStream, Goto
<1>2. /\ outcome'[r] = classifyStreamResult(r)
      /\ \A q \in Requests \ {r} : outcome'[q] = outcome[q]
  BY Zenon DEF IInv, Types, HandlerTypes, ClassifyStream
<1>3. HandlerTypes' /\ StreamTypes'
  <2>1. classifyStreamResult(r) \in Outcomes
    BY Zenon DEF classifyStreamResult, Outcomes, Transport, Failures
  <2>2. StreamTypes'
    BY Zenon, ValidIdle, StreamUpdate DEF IInv, Types, ClassifyStream
  <2>3. QED
    BY Zenon, <2>1, <2>2, Now DEF IInv, Types, HandlerTypes, ClassifyStream, Goto, Places
<1>4. Handled(r)'
  <2>1. /\ outcome'[r] \in Failures => cause[r] \in {"fault", "timeout"}
        /\ cause[r] \in {"fault", "timeout"} /\ ~gone[r] => outcome'[r] \in Failures
    BY Zenon, <1>2 DEF classifyStreamResult, Failures
  <2>2. QED
    BY <1>1, <2>1 DEF IInv, Handled, ClassifyStream, Holding, Unanswered, Answered
<1>5. QED
  BY Zenon, <1>1, <1>2, <1>3, <1>4, Inner DEF ClassifyStream, Places

LEMMA ClientLeavesStep == ASSUME IInv, NEW r \in Requests, ClientLeaves(r) PROVE IInv'
<1>1. gone'[r] = TRUE /\ \A q \in Requests \ {r} : gone'[q] = gone[q]
  BY Zenon DEF IInv, Types, HandlerTypes, ClientLeaves
<1>2. HandlerTypes' /\ StreamTypes'
  <2>1. StreamTypes'
    BY Zenon, StreamFrame DEF ClientLeaves
  <2>2. HandlerTypes'
    BY Zenon DEF IInv, Types, HandlerTypes, ClientLeaves
  <2>3. QED
    BY Zenon, <2>1, <2>2
<1>3. Handled(r)'
  BY Zenon, <1>1 DEF IInv, Handled, ClientLeaves, Answered
<1>4. QED
  BY Zenon, <1>1, <1>2, <1>3, Inner DEF ClientLeaves, IInv, Types, HandlerTypes

-----------------------------------------------------------------------------
(* Steps that take or give back a permit or a lease.                       *)

LEMMA TryAcquireStep == ASSUME IInv, NEW r \in Requests, TryAcquire(r) PROVE IInv'
<1>1. pc[r] = "arrive" /\ pc'[r] = "body" /\ \A q \in Requests \ {r} : pc'[q] = pc[q]
  BY Zenon DEF IInv, Types, HandlerTypes, TryAcquire, Goto
<1>2. Types'
  <2>1. StreamTypes' /\ BreakerTypes'
    BY Zenon, StreamFrame DEF IInv, Types, BreakerTypes, TryAcquire, evidence
  <2>2. HandlerTypes'
    BY Zenon DEF IInv, Types, HandlerTypes, TryAcquire, Goto, Places
  <2>3. QED
    BY Zenon, <2>1, <2>2 DEF Types
<1>3. \A q \in Requests : Handled(q)'
  <2>1. Handled(r)'
    BY Zenon, <1>1 DEF IInv, Handled, TryAcquire, Holding, Unanswered, Answered
  <2>2. QED
    BY Zenon, <1>1, <2>1, HandledFrame DEF IInv, TryAcquire
<1>4. Books'
  <2>1. Running' = Running \cup {r} /\ r \notin Running /\ Running \in SUBSET Requests
    BY Zenon, <1>1 DEF Running, Inside
  <2>2. permits' = Cardinality(Running')
    BY Zenon, <2>1, Joins DEF IInv, Books, TryAcquire
  <2>3. permits' <= Limit
    <3>1. permits \in Nat /\ permits < Limit /\ permits' = permits + 1
      BY Zenon, <2>1, SubsetsOfRequests DEF IInv, Books, TryAcquire, HasCapacity
    <3>2. QED
      BY <3>1, GatewayConstants DEF GatewayConstants
  <2>4. \A b : Leased(b)' = Leased(b)
    BY Zenon DEF Leased, TryAcquire
  <2>5. QED
    BY Zenon, <2>2, <2>3, <2>4 DEF IInv, Books, TryAcquire
<1>5. Evidence' /\ OpenHasEvidence'
  BY Zenon, <1>1, <1>2, StillEvidence DEF TryAcquire
<1>6. QED
  BY Zenon, <1>2, <1>3, <1>4, <1>5 DEF IInv

LEMMA RejectAdmissionStep == ASSUME IInv, NEW r \in Requests, RejectAdmission(r) PROVE IInv'
<1>1. pc[r] = "arrive" /\ pc'[r] = "done" /\ \A q \in Requests \ {r} : pc'[q] = pc[q]
  BY Zenon DEF IInv, Types, HandlerTypes, RejectAdmission, Goto
<1>2. answers'[r] = answers[r] + 1 /\ \A q \in Requests \ {r} : answers'[q] = answers[q]
  BY Zenon DEF IInv, Types, HandlerTypes, RejectAdmission, Answer
<1>3. Types'
  <2>1. StreamTypes' /\ BreakerTypes'
    BY Zenon, StreamFrame DEF IInv, Types, BreakerTypes, RejectAdmission, evidence
  <2>2. HandlerTypes'
    BY DEF IInv, Types, HandlerTypes, RejectAdmission, Goto, Answer, Places
  <2>3. QED
    BY Zenon, <2>1, <2>2 DEF Types
<1>4. \A q \in Requests : Handled(q)'
  <2>1. Handled(r)'
    BY <1>1, <1>2 DEF IInv, Handled, RejectAdmission, Holding, Unanswered, Answered
  <2>2. QED
    BY Zenon, <1>1, <1>2, <2>1, HandledFrame DEF IInv, RejectAdmission
<1>5. Books'
  BY Zenon, <1>1, BooksFrame DEF IInv, RejectAdmission, Inside
<1>6. Evidence' /\ OpenHasEvidence'
  BY Zenon, <1>1, <1>3, StillEvidence DEF RejectAdmission
<1>7. QED
  BY Zenon, <1>3, <1>4, <1>5, <1>6 DEF IInv

\* A handler that returns before it has a lease.
LEMMA Refused ==
  ASSUME IInv, HandlerTypes', StreamTypes', NEW r \in Requests, Answer(r), Return(r),
         pc[r] \in {"body", "select"},
         UNCHANGED <<time, circuit, inflight, gone, lease, cause, outcome, evidence>>
  PROVE  IInv'
<1>1. pc'[r] = "done" /\ \A q \in Requests \ {r} : pc'[q] = pc[q]
  BY Zenon DEF IInv, Types, HandlerTypes, Return, Goto
<1>2. answers'[r] = answers[r] + 1 /\ \A q \in Requests \ {r} : answers'[q] = answers[q]
  BY DEF IInv, Types, HandlerTypes, Answer
<1>3. Types'
  BY Zenon DEF IInv, Types, BreakerTypes, evidence
<1>4. \A q \in Requests : Handled(q)'
  <2>1. Handled(r)'
    BY <1>1, <1>2 DEF IInv, Handled, Holding, Unanswered, Answered
  <2>2. QED
    BY Zenon, <1>1, <1>2, <2>1, HandledFrame DEF IInv
<1>5. Books'
  <2>1. \A b : Leased(b)' = Leased(b)
    BY Zenon DEF Leased
  <2>2. QED
    BY Zenon, <1>1, <2>1, PermitReturned DEF IInv, Books, Inside, Return
<1>6. Evidence' /\ OpenHasEvidence'
  BY Zenon, <1>1, <1>3, StillEvidence
<1>7. QED
  BY Zenon, <1>3, <1>4, <1>5, <1>6 DEF IInv

LEMMA RejectRequestBodyStep == ASSUME IInv, NEW r \in Requests, RejectRequestBody(r) PROVE IInv'
<1>1. StreamTypes'
  BY Zenon, StreamFrame DEF RejectRequestBody
<1>2. HandlerTypes'
  BY DEF IInv, Types, HandlerTypes, RejectRequestBody, Goto, Answer, Return, Places
<1>3. QED
  BY Zenon, <1>1, <1>2, Refused DEF RejectRequestBody

LEMMA SelectFailsStep == ASSUME IInv, NEW r \in Requests, SelectFails(r) PROVE IInv'
<1>1. StreamTypes'
  BY Zenon, StreamFrame DEF SelectFails
<1>2. HandlerTypes'
  BY GatewayConstants
  DEF GatewayConstants, IInv, Types, HandlerTypes, SelectFails, Goto, Answer, Return, Places
<1>3. QED
  BY Zenon, <1>1, <1>2, Refused DEF SelectFails

LEMMA TickStep == IInv /\ Tick => IInv'
<1> SUFFICES ASSUME IInv, Tick PROVE IInv'
  BY Zenon
<1>1. Types'
  <2>1. BreakerTypes'
    BY GatewayConstants DEF GatewayConstants, IInv, Types, BreakerTypes, Tick, evidence
  <2>2. HandlerTypes' /\ StreamTypes'
    BY Zenon, StreamFrame DEF IInv, Types, HandlerTypes, Tick
  <2>3. QED
    BY Zenon, <2>1, <2>2 DEF Types
<1>2. \A q \in Requests : Handled(q)'
  BY Zenon, HandledFrame DEF IInv, Tick
<1>3. Books'
  BY Zenon, BooksFrame DEF IInv, Tick, Inside
<1>4. Evidence' /\ OpenHasEvidence'
  <2>1. time <= time' /\ UNCHANGED evidence /\ UNCHANGED <<pc, circuit>>
    BY Now DEF Tick
  <2>2. \A b \in Backends : circuit[b].samples \in Nat
    BY Zenon DEF IInv, Types, BreakerTypes, Entries
  <2>3. QED
    BY <1>1, <2>1, <2>2, EvidenceFrame DEF IInv
<1>5. QED
  BY Zenon, <1>1, <1>2, <1>3, <1>4 DEF IInv

\* A lease on a backend or on the Service, counted before anything can fail.
LEMMA SelectStep == ASSUME IInv, NEW r \in Requests, Select(r) PROVE IInv'
<1>1. pc[r] = "select" /\ pc'[r] = "upstream" /\ \A q \in Requests \ {r} : pc'[q] = pc[q]
  BY Zenon DEF IInv, Types, HandlerTypes, Select, Goto
<1>2. PICK now \in at[r]..time :
        /\ circuit' = [b \in Backends |-> Checked(circuit[b], now)]
        /\ \E b \in {b \in Backends : ~IsOpen(circuit[b], now)} \cup {Service} :
             lease' = [lease EXCEPT ![r] = b] /\ inflight' = [inflight EXCEPT ![b] = @ + 1]
  BY Zenon DEF Select
<1>3. PICK b \in Backends \cup {Service} :
        lease' = [lease EXCEPT ![r] = b] /\ inflight' = [inflight EXCEPT ![b] = @ + 1]
  BY Zenon, <1>2
<1>4. now \in 0..MaxTime
  BY <1>2, Now, GatewayConstants DEF GatewayConstants, IInv, Types, HandlerTypes
<1>5. b # None /\ lease[r] = None
  BY Zenon, <1>1, <1>3, GatewayConstants DEF GatewayConstants, IInv, Handled, Holding
<1>6. lease'[r] = b /\ \A q \in Requests \ {r} : lease'[q] = lease[q]
  BY Zenon, <1>3 DEF IInv, Types, HandlerTypes
<1>7. \A c \in Backends : circuit[c] \in Entries /\ circuit'[c] = Checked(circuit[c], now)
  BY Zenon, <1>2 DEF IInv, Types, BreakerTypes
<1>8. Types'
  <2>1. BreakerTypes'
    <3>1. circuit' \in [Backends -> Entries]
      BY Zenon, <1>2, <1>4, <1>7, CheckedFacts
    <3>2. inflight' \in [Backends \cup {Service} -> Nat]
      BY <1>3 DEF IInv, Types, BreakerTypes
    <3>3. QED
      BY Zenon, <3>1, <3>2 DEF IInv, Types, BreakerTypes, Select, evidence
  <2>2. StreamTypes'
    BY Zenon, StreamFrame DEF Select
  <2>3. HandlerTypes'
    <3>1. lease' \in [Requests -> Backends \cup {Service, None}]
      BY Zenon, <1>3 DEF IInv, Types, HandlerTypes
    <3>2. pc' \in [Requests -> Places] /\ at' \in [Requests -> 0..MaxTime]
      BY GatewayConstants
      DEF GatewayConstants, IInv, Types, HandlerTypes, Select, Goto, Places
    <3>3. QED
      BY Zenon, <3>1, <3>2 DEF IInv, Types, HandlerTypes, Select
  <2>4. QED
    BY Zenon, <2>1, <2>2, <2>3 DEF Types
<1>9. \A q \in Requests : Handled(q)'
  <2>1. Handled(r)'
    BY Zenon, <1>1, <1>5, <1>6 DEF IInv, Handled, Select, Holding, Unanswered, Answered
  <2>2. QED
    BY Zenon, <1>1, <1>6, <2>1, HandledFrame DEF IInv, Select
<1>10. Books'
  <2>1. Running' = Running
    BY Zenon, <1>1 DEF Running, Inside
  <2>2. /\ Leased(b)' = Leased(b) \cup {r} /\ r \notin Leased(b) /\ Leased(b) \in SUBSET Requests
        /\ \A c : c # b => c = None \/ Leased(c)' = Leased(c)
    BY Zenon, <1>5, <1>6 DEF Leased
  <2>3. inflight'[b] = Cardinality(Leased(b)')
    <3>1. inflight'[b] = inflight[b] + 1 /\ inflight[b] = Cardinality(Leased(b))
      BY Zenon, <1>3 DEF IInv, Types, BreakerTypes, Books
    <3>2. QED
      BY Zenon, <2>2, <3>1, Joins
  <2>4. \A c \in Backends \cup {Service} : c # b => inflight'[c] = Cardinality(Leased(c)')
    <3>1. \A c \in Backends \cup {Service} : c # b => inflight'[c] = inflight[c] /\ c # None
      BY Zenon, <1>3, GatewayConstants DEF GatewayConstants, IInv, Types, BreakerTypes
    <3>2. QED
      BY Zenon, <2>2, <3>1 DEF IInv, Books
  <2>5. \A c \in Backends \cup {Service} : inflight'[c] = Cardinality(Leased(c)')
    BY Zenon, <2>3, <2>4
  <2>6. QED
    BY Zenon, <2>1, <2>5 DEF IInv, Books, Select
<1>11. Evidence' /\ OpenHasEvidence'
  <2>1. time <= time' /\ UNCHANGED evidence
    BY Now DEF Select
  <2>2. \A c \in Backends : /\ circuit'[c].samples <= circuit[c].samples
                            /\ circuit'[c].openUntil \in {0, circuit[c].openUntil}
                            /\ circuit[c].num = 0 => circuit'[c].num = 0
    BY <1>4, <1>7, CheckedFacts
  <2>3. QED
    BY Zenon, <1>1, <1>8, <2>1, <2>2, EvidenceFrame DEF IInv
<1>12. QED
  BY Zenon, <1>8, <1>9, <1>10, <1>11 DEF IInv

\* releaseBackend and the deferred permit.Release.
LEMMA ReleaseStep == ASSUME IInv, NEW r \in Requests, Release(r) PROVE IInv'
<1>1. pc[r] = "release" /\ pc'[r] = "done" /\ \A q \in Requests \ {r} : pc'[q] = pc[q]
  BY Zenon DEF IInv, Types, HandlerTypes, Release, Return, Goto
<1>2. PICK b \in Backends \cup {Service} : b = lease[r]
  BY <1>1 DEF IInv, Handled, Holding, Types, HandlerTypes
<1>3. PICK now \in at[r]..time :
        circuit' = [c \in Backends |-> IF c = lease[r] THEN Checked(circuit[c], now) ELSE circuit[c]]
  BY Zenon DEF Release
<1>4. now \in 0..MaxTime
  BY <1>3, Now, GatewayConstants DEF GatewayConstants, IInv, Types, HandlerTypes
<1>5. lease'[r] = None /\ outcome'[r] = None /\ \A q \in Requests \ {r} :
        lease'[q] = lease[q] /\ outcome'[q] = outcome[q]
  BY DEF IInv, Types, HandlerTypes, Release
<1>6. \A c \in Backends : /\ circuit[c] \in Entries
                          /\ circuit'[c] \in {circuit[c], Checked(circuit[c], now)}
  BY Zenon, <1>3 DEF IInv, Types, BreakerTypes
<1>7. r \in Leased(b) /\ Leased(b) \in SUBSET Requests /\ Leased(b)' = Leased(b) \ {r}
  BY Zenon, <1>2, <1>5, GatewayConstants DEF Leased, GatewayConstants
<1>8. inflight[b] = Cardinality(Leased(b)) /\ inflight' = [inflight EXCEPT ![b] = @ - 1]
  BY Zenon, <1>2 DEF IInv, Books, Release, Released
<1>9. inflight'[b] = Cardinality(Leased(b)') /\ inflight'[b] \in Nat
  <2>1. inflight'[b] = inflight[b] - 1 /\ inflight[b] \in Nat
    BY Zenon, <1>8 DEF IInv, Types, BreakerTypes
  <2>2. QED
    BY <1>7, <1>8, <2>1, Leaves, SubsetsOfRequests
<1>10. Types'
  <2>1. BreakerTypes'
    <3>1. circuit' \in [Backends -> Entries]
      BY Zenon, <1>3, <1>4, <1>6, CheckedFacts
    <3>2. inflight' \in [Backends \cup {Service} -> Nat]
      BY Zenon, <1>8, <1>9 DEF IInv, Types, BreakerTypes
    <3>3. QED
      BY Zenon, <3>1, <3>2 DEF IInv, Types, BreakerTypes, Release, evidence
  <2>2. StreamTypes'
    BY Zenon, StreamFrame DEF Release
  <2>3. HandlerTypes'
    <3>1. lease' \in [Requests -> Backends \cup {Service, None}]
      BY Zenon DEF IInv, Types, HandlerTypes, Release
    <3>2. pc' \in [Requests -> Places] /\ at' \in [Requests -> 0..MaxTime]
      BY GatewayConstants
      DEF GatewayConstants, IInv, Types, HandlerTypes, Release, Return, Goto, Places
    <3>3. outcome' \in [Requests -> Outcomes]
      BY Zenon DEF IInv, Types, HandlerTypes, Release, Outcomes
    <3>4. QED
      BY Zenon, <3>1, <3>2, <3>3 DEF IInv, Types, HandlerTypes, Release
  <2>4. QED
    BY Zenon, <2>1, <2>2, <2>3 DEF Types
<1>11. \A q \in Requests : Handled(q)'
  <2>1. Handled(r)'
    BY Zenon, <1>1, <1>5 DEF IInv, Handled, Release, Holding, Unanswered, Answered
  <2>2. QED
    BY Zenon, <1>1, <1>5, <2>1, HandledFrame DEF IInv, Release
<1>12. Books'
  <2>1. \A c \in Backends \cup {Service} : c # b => Leased(c)' = Leased(c)
    BY Zenon, <1>2, <1>5, GatewayConstants DEF Leased, GatewayConstants
  <2>2. \A c \in Backends \cup {Service} : c # b => inflight'[c] = inflight[c]
    BY Zenon, <1>8 DEF IInv, Types, BreakerTypes
  <2>3. \A c \in Backends \cup {Service} : c # b => inflight'[c] = Cardinality(Leased(c)')
    BY Zenon, <2>1, <2>2 DEF IInv, Books
  <2>4. \A c \in Backends \cup {Service} : inflight'[c] = Cardinality(Leased(c)')
    BY Zenon, <1>9, <2>3
  <2>5. permits' = Cardinality(Running') /\ permits' <= Limit
    BY Zenon, <1>1, PermitReturned DEF IInv, Inside, Release, Return
  <2>6. QED
    BY Zenon, <2>4, <2>5 DEF Books
<1>13. Evidence' /\ OpenHasEvidence'
  <2>1. time <= time' /\ UNCHANGED evidence
    BY Now DEF Release
  <2>2. \A c \in Backends : /\ circuit'[c].samples <= circuit[c].samples
                            /\ circuit'[c].openUntil \in {0, circuit[c].openUntil}
                            /\ circuit[c].num = 0 => circuit'[c].num = 0
    <3> SUFFICES ASSUME NEW c \in Backends
                 PROVE  /\ circuit'[c].samples <= circuit[c].samples
                        /\ circuit'[c].openUntil \in {0, circuit[c].openUntil}
                        /\ circuit[c].num = 0 => circuit'[c].num = 0
      BY Zenon
    <3>1. circuit[c] \in Entries /\ circuit[c].samples \in Nat
      BY Zenon, <1>6 DEF Entries
    <3>2. CASE circuit'[c] = circuit[c]
      BY <3>1, <3>2
    <3>3. CASE circuit'[c] = Checked(circuit[c], now)
      BY <1>4, <3>1, <3>3, CheckedFacts
    <3>4. QED
      BY Zenon, <1>6, <3>2, <3>3
  <2>3. QED
    BY Zenon, <1>1, <1>10, <2>1, <2>2, EvidenceFrame DEF IInv
<1>14. QED
  BY Zenon, <1>10, <1>11, <1>12, <1>13 DEF IInv

\* One result recorded for one backend: the evidence grows with it, and an
\* interval that opens rests on it.
LEMMA Recorded ==
  ASSUME IInv, NEW b \in Backends, NEW failure \in BOOLEAN, NEW now \in 0..time,
         time' = time, circuit'[b] = Record(circuit[b], failure, now),
         recorded'[b] = recorded[b] + 1,
         faults'[b] = faults[b] + (IF failure THEN 1 ELSE 0)
  PROVE  /\ circuit'[b] \in Entries /\ recorded'[b] \in Nat /\ faults'[b] \in Nat
         /\ circuit'[b].samples <= recorded'[b] /\ faults'[b] <= recorded'[b]
         /\ faults'[b] = 0 => circuit'[b].num = 0
         /\ circuit'[b].openUntil # 0 =>
              /\ recorded'[b] >= MinimumRequests /\ circuit'[b].openUntil <= time' + OpenDuration
              /\ faults'[b] > 0
              /\ MinimumRequests > 1 /\ AlphaNum * ThresholdDen < ThresholdNum * AlphaDen
                   => faults'[b] > 1
<1> DEFINE old == circuit[b]
           new == circuit'[b]
           Weak == AlphaNum * ThresholdDen < ThresholdNum * AlphaDen
<1>1. /\ old \in Entries /\ recorded[b] \in Nat /\ faults[b] \in Nat
      /\ time \in 0..MaxTime /\ now \in 0..MaxTime /\ MinimumRequests \in Nat /\ OpenDuration \in Nat
  BY GatewayConstants DEF GatewayConstants, IInv, Types, BreakerTypes
<1>2. old.samples <= recorded[b] /\ faults[b] <= recorded[b] /\ (faults[b] = 0 => old.num = 0)
  BY Zenon DEF IInv, Evidence
<1>3. old.openUntil # 0 =>
        /\ recorded[b] >= MinimumRequests /\ old.openUntil <= time + OpenDuration
        /\ faults[b] > 0 /\ (MinimumRequests > 1 /\ Weak => faults[b] > 1)
  BY Zenon DEF IInv, OpenHasEvidence, Zero
<1>4. /\ new \in Entries /\ new.samples <= old.samples + 1
      /\ \/ new.openUntil = 0 \/ new.openUntil = old.openUntil
         \/ /\ failure /\ new.openUntil = now + OpenDuration
            /\ new.samples >= MinimumRequests /\ OverThreshold(new.num, new.den)
      /\ old.num = 0 /\ ~failure => new.num = 0
      /\ old.num = 0 /\ failure /\ new.samples > 1 /\ Weak => ~OverThreshold(new.num, new.den)
  BY <1>1, RecordFacts
<1>5. old.samples \in Nat /\ new.samples \in Nat
  BY Zenon, <1>1, <1>4 DEF Entries
<1> HIDE DEF old, new, Weak
<1>6. /\ recorded'[b] \in Nat /\ faults'[b] \in Nat
      /\ new.samples <= recorded'[b] /\ faults'[b] <= recorded'[b]
  BY <1>1, <1>2, <1>4, <1>5
<1>7. faults'[b] = 0 => new.num = 0
  BY <1>1, <1>2, <1>4
<1>8. CASE new.openUntil = old.openUntil
  <2>1. new.openUntil # 0 =>
          /\ recorded'[b] >= MinimumRequests /\ new.openUntil <= time' + OpenDuration
          /\ faults'[b] > 0 /\ (MinimumRequests > 1 /\ Weak => faults'[b] > 1)
    BY <1>1, <1>3, <1>8
  <2>2. QED
    BY Zenon, <1>4, <1>6, <1>7, <2>1 DEF new, Weak
<1>9. CASE new.openUntil = 0
  BY Zenon, <1>4, <1>6, <1>7, <1>9 DEF new, Weak
<1>10. CASE /\ failure /\ new.openUntil = now + OpenDuration
            /\ new.samples >= MinimumRequests /\ OverThreshold(new.num, new.den)
  <2>1. recorded'[b] >= MinimumRequests /\ new.openUntil <= time' + OpenDuration
    BY <1>1, <1>5, <1>6, <1>10
  <2>2. faults'[b] > 0
    BY <1>1, <1>10
  <2>3. MinimumRequests > 1 /\ Weak => faults[b] # 0
    BY <1>1, <1>2, <1>4, <1>5, <1>10
  <2>4. MinimumRequests > 1 /\ Weak => faults'[b] > 1
    BY <1>1, <1>10, <2>3
  <2>5. QED
    BY Zenon, <1>4, <1>6, <1>7, <2>1, <2>2, <2>4 DEF new, Weak
<1>11. QED
  BY Zenon, <1>4, <1>8, <1>9, <1>10

\* Lease.Complete: the outcome goes to the circuit of the backend that served.
LEMMA CompleteStep == ASSUME IInv, NEW r \in Requests, Complete(r) PROVE IInv'
<1>1. pc[r] = "settle" /\ pc'[r] = "release" /\ \A q \in Requests \ {r} : pc'[q] = pc[q]
  BY Zenon DEF IInv, Types, HandlerTypes, Complete, Goto
<1>2. lease[r] \in Backends \cup {Service}
  BY <1>1 DEF IInv, Handled, Holding, Types, HandlerTypes
<1>3. cause'[r] = None /\ \A q \in Requests \ {r} : cause'[q] = cause[q]
  BY Zenon DEF IInv, Types, HandlerTypes, Complete
<1>4. \A b \in Backends :
        /\ recorded'[b] = recorded[b] + (IF b = lease[r] /\ outcome[r] \in Transport THEN 1 ELSE 0)
        /\ faults'[b] = faults[b] + (IF b = lease[r] /\ outcome[r] \in Failures THEN 1 ELSE 0)
  BY Zenon DEF Complete
<1>5. time' = time /\ Failures \subseteq Transport /\ Service \notin Backends
  BY Zenon, GatewayConstants DEF Complete, Transport, GatewayConstants
<1>6. Cardinality(Settled') = Cardinality(Settled) + 1 /\ Cardinality(Settled) \in Nat
  <2>1. Settled \in SUBSET Requests /\ r \notin Settled /\ Settled' = Settled \cup {r}
    BY Zenon, <1>1 DEF Settled
  <2>2. QED
    BY Zenon, <2>1, Joins, SubsetsOfRequests
<1> DEFINE Good(b) ==
      /\ circuit'[b] \in Entries /\ recorded'[b] \in Nat /\ faults'[b] \in Nat
      /\ circuit'[b].samples <= recorded'[b] /\ faults'[b] <= recorded'[b]
      /\ faults'[b] = 0 => circuit'[b].num = 0
      /\ circuit'[b].openUntil # 0 =>
           /\ recorded'[b] >= MinimumRequests /\ circuit'[b].openUntil <= time' + OpenDuration
           /\ faults'[b] > 0
           /\ MinimumRequests > 1 /\ AlphaNum * ThresholdDen < ThresholdNum * AlphaDen
                => faults'[b] > 1
<1>7. ASSUME NEW b \in Backends, circuit'[b] = circuit[b], recorded'[b] = recorded[b],
             faults'[b] = faults[b]
      PROVE  Good(b)
  <2>1. circuit[b] \in Entries /\ recorded[b] \in Nat /\ faults[b] \in Nat
    BY Zenon DEF IInv, Types, BreakerTypes
  <2>2. QED
    BY Zenon, <1>5, <1>7, <2>1 DEF IInv, Evidence, OpenHasEvidence, Zero
<1>8. circuit' = [b \in Backends |-> circuit'[b]] /\ \A b \in Backends : Good(b)
  <2>1. CASE Counts(r)
    <3>1. PICK now \in at[r]..time :
            circuit' = [circuit EXCEPT ![lease[r]] = Record(@, outcome[r] \in Failures, now)]
      BY Zenon, <2>1 DEF Complete
    <3>2. lease[r] \in Backends /\ outcome[r] \in Transport
      BY Zenon, <1>2, <2>1 DEF Counts
    <3>3. now \in 0..time
      BY <3>1, Now DEF IInv, Types, HandlerTypes
    <3>4. /\ circuit' = [b \in Backends |-> circuit'[b]]
          /\ circuit'[lease[r]] = Record(circuit[lease[r]], outcome[r] \in Failures, now)
          /\ \A b \in Backends : b # lease[r] => circuit'[b] = circuit[b]
      BY Zenon, <3>1, <3>2 DEF IInv, Types, BreakerTypes
    <3>5. Good(lease[r])
      <4>1. /\ recorded'[lease[r]] = recorded[lease[r]] + 1
            /\ faults'[lease[r]] = faults[lease[r]] + (IF outcome[r] \in Failures THEN 1 ELSE 0)
        BY Zenon, <1>4, <3>2
      <4>2. (outcome[r] \in Failures) \in BOOLEAN
        OBVIOUS
      <4>3. QED
        BY Zenon, <1>5, <3>2, <3>3, <3>4, <4>1, <4>2, Recorded
    <3>6. ASSUME NEW b \in Backends, b # lease[r] PROVE Good(b)
      <4>1. recorded[b] \in Nat /\ faults[b] \in Nat
        BY Zenon DEF IInv, Types, BreakerTypes
      <4>2. recorded'[b] = recorded[b] /\ faults'[b] = faults[b]
        BY <1>4, <3>6, <4>1
      <4>3. QED
        BY Zenon, <1>7, <3>4, <3>6, <4>2
    <3>7. QED
      BY <3>4, <3>5, <3>6
  <2>2. CASE ~Counts(r)
    <3>1. circuit' = circuit /\ circuit = [b \in Backends |-> circuit[b]]
      BY Zenon, <2>2 DEF Complete, IInv, Types, BreakerTypes
    <3>2. \A b \in Backends : ~(b = lease[r] /\ outcome[r] \in Transport)
      BY Zenon, <1>5, <2>2 DEF Counts
    <3>3. \A b \in Backends : recorded[b] \in Nat /\ faults[b] \in Nat
      BY Zenon DEF IInv, Types, BreakerTypes
    <3>4. \A b \in Backends : recorded'[b] = recorded[b] /\ faults'[b] = faults[b]
      BY <1>4, <1>5, <3>2, <3>3
    <3>5. QED
      BY Zenon, <1>7, <3>1, <3>4
  <2>3. QED
    BY Zenon, <2>1, <2>2
<1>9. \A b \in Backends : recorded'[b] <= Cardinality(Settled')
  <2>1. \A b \in Backends : recorded[b] \in Nat /\ recorded[b] <= Cardinality(Settled)
    BY Zenon DEF IInv, Types, BreakerTypes, Evidence
  <2>2. QED
    BY <1>4, <1>6, <2>1
<1>10. Types'
  <2>1. BreakerTypes'
    <3>1. recorded' = [b \in Backends |-> recorded'[b]] /\ faults' = [b \in Backends |-> faults'[b]]
      BY Zenon DEF Complete
    <3>2. circuit' \in [Backends -> Entries]
      BY Zenon, <1>8
    <3>3. recorded' \in [Backends -> Nat] /\ faults' \in [Backends -> Nat]
      BY Zenon, <1>8, <3>1
    <3>4. QED
      BY Zenon, <3>2, <3>3 DEF IInv, Types, BreakerTypes, Complete
  <2>2. StreamTypes'
    BY Zenon, StreamFrame DEF Complete
  <2>3. HandlerTypes'
    BY Zenon DEF IInv, Types, HandlerTypes, Complete, Goto, Places, Causes
  <2>4. QED
    BY Zenon, <2>1, <2>2, <2>3 DEF Types
<1>11. \A q \in Requests : Handled(q)'
  <2>1. Handled(r)'
    BY Zenon, <1>1, <1>3 DEF IInv, Handled, Complete, Holding, Unanswered, Answered
  <2>2. QED
    BY Zenon, <1>1, <1>3, <2>1, HandledFrame DEF IInv, Complete
<1>12. Books'
  BY Zenon, <1>1, BooksFrame DEF IInv, Complete, Inside
<1>13. Evidence' /\ OpenHasEvidence'
  BY Zenon, <1>8, <1>9 DEF Evidence, OpenHasEvidence, Zero
<1>14. QED
  BY Zenon, <1>10, <1>11, <1>12, <1>13 DEF IInv

-----------------------------------------------------------------------------
LEMMA NextIInv == IInv /\ [Next]_vars => IInv'
<1> SUFFICES ASSUME IInv, [Next]_vars PROVE IInv'
  BY Zenon
<1>1. ASSUME NEW r \in Requests, Handler(r) PROVE IInv'
  <2>1. CASE TryAcquire(r) \/ RejectAdmission(r) \/ ReadBody(r) \/ RejectRequestBody(r)
    BY Zenon, <2>1, TryAcquireStep, RejectAdmissionStep, ReadBodyStep, RejectRequestBodyStep
  <2>2. CASE SelectFails(r) \/ Select(r)
    BY Zenon, <2>2, SelectFailsStep, SelectStep
  <2>3. CASE ClassifyError(r) \/ ClassifyStream(r) \/ Complete(r) \/ Release(r)
    BY Zenon, <2>3, ClassifyErrorStep, ClassifyStreamStep, CompleteStep, ReleaseStep
  <2>4. QED
    BY Zenon, <1>1, <2>1, <2>2, <2>3 DEF Handler
<1>2. ASSUME NEW r \in Requests, Exchange(r) PROVE IInv'
  <2>1. CASE UpstreamHeaders(r) \/ InvalidUpstream(r)
    BY Zenon, <2>1, UpstreamHeadersStep, InvalidUpstreamStep
  <2>2. CASE \E why \in Whys : UpstreamError(r, why)
    BY Zenon, <2>2, UpstreamErrorStep
  <2>3. CASE \E n \in 0..Len(stream[r].body), why \in Whys \cup {None, "eof", "write"} :
               CopyChunk(r, n, why)
    <3>1. PICK n \in 0..Len(stream[r].body), why \in Causes : CopyChunk(r, n, why)
      BY Zenon, <2>3 DEF Causes
    <3>2. n \in Nat
      OBVIOUS
    <3>3. QED
      BY Zenon, <3>1, <3>2, CopyChunkStep
  <2>4. QED
    BY Zenon, <1>2, <2>1, <2>2, <2>3 DEF Exchange
<1>3. ASSUME NEW r \in Requests, ClientLeaves(r) PROVE IInv'
  BY Zenon, <1>3, ClientLeavesStep
<1>4. CASE Tick
  BY Zenon, <1>4, TickStep
<1>5. CASE UNCHANGED vars
  <2>1. Types'
    BY Zenon, <1>5, StreamFrame DEF IInv, Types, BreakerTypes, HandlerTypes, vars, evidence
  <2>2. \A q \in Requests : Handled(q)'
    BY Zenon, <1>5, HandledFrame DEF IInv, vars
  <2>3. Books'
    BY Zenon, <1>5, BooksFrame DEF IInv, vars, Inside
  <2>4. Evidence' /\ OpenHasEvidence'
    <3>1. UNCHANGED <<time, circuit, evidence>> /\ UNCHANGED pc
      BY Zenon, <1>5 DEF vars, evidence
    <3>2. QED
      BY Zenon, <2>1, <3>1, StillEvidence
  <2>5. QED
    BY Zenon, <2>1, <2>2, <2>3, <2>4 DEF IInv
<1>6. QED
  BY Zenon, <1>1, <1>2, <1>3, <1>4, <1>5 DEF Next

LEMMA TypesAreOK == IInv => TypeOK
<1> SUFFICES ASSUME IInv PROVE TypeOK
  BY Zenon
<1>1. permits \in 0..Limit
  <2>1. Running \in SUBSET Requests
    BY Zenon DEF Running
  <2>2. QED
    BY <2>1, SubsetsOfRequests, GatewayConstants DEF IInv, Books, GatewayConstants
<1>2. ASSUME NEW b \in Backends
      PROVE  circuit[b] \in [num : Nat, den : Nat \ {0}, samples : 0..Cardinality(Requests),
                             openUntil : 0..MaxTime + OpenDuration]
  <2>1. circuit[b] \in Entries /\ recorded[b] \in Nat
    BY Zenon DEF IInv, Types, BreakerTypes
  <2>2. Cardinality(Settled) \in Nat /\ Cardinality(Settled) <= Cardinality(Requests)
    BY Zenon, SubsetsOfRequests DEF Settled
  <2>3. Cardinality(Requests) \in Nat
    BY Zenon, GatewayConstants, FS_CardinalityType DEF GatewayConstants
  <2>4. circuit[b].samples \in 0..Cardinality(Requests)
    BY <2>1, <2>2, <2>3 DEF IInv, Evidence, Entries
  <2>5. QED
    BY Zenon, <2>1, <2>4 DEF Entries
<1>3. inflight \in [Backends \cup {Service} -> 0..Cardinality(Requests)]
  <2>1. ASSUME NEW b \in Backends \cup {Service} PROVE inflight[b] \in 0..Cardinality(Requests)
    <3>1. Leased(b) \in SUBSET Requests /\ inflight[b] = Cardinality(Leased(b))
      BY Zenon DEF Leased, IInv, Books
    <3>2. Cardinality(Requests) \in Nat
      BY Zenon, GatewayConstants, FS_CardinalityType DEF GatewayConstants
    <3>3. QED
      BY <3>1, <3>2, SubsetsOfRequests
  <2>2. QED
    BY Zenon, <2>1 DEF IInv, Types, BreakerTypes
<1>4. answers \in [Requests -> 0..1]
  <2>1. ASSUME NEW r \in Requests PROVE answers[r] \in 0..1
    BY DEF IInv, Handled, Types, HandlerTypes, Places, Unanswered, Answered
  <2>2. QED
    BY Zenon, <2>1 DEF IInv, Types, HandlerTypes
<1>5. \A r \in Requests : stream[r].pos \in 0..Len(stream[r].body)
  BY Zenon DEF IInv, Types, StreamTypes, ValidStream
<1>6. \A b \in Backends : faults[b] <= recorded[b]
  BY Zenon DEF IInv, Evidence
<1>7. QED
  BY Zenon, <1>1, <1>2, <1>3, <1>4, <1>5, <1>6 DEF TypeOK, IInv, Types, BreakerTypes, HandlerTypes

\* proxy gives back its permit and its lease on every path, and a client that
\* waits gets exactly one response: for any number of handlers and backends.
THEOREM HandlersReturnAll == Spec => []NothingLeaks
<1>1. ASSUME IInv PROVE NothingLeaks
  <2>1. permits = Cardinality({r \in Requests : Inside(r)})
    BY Zenon, <1>1 DEF IInv, Books, Running
  <2>2. \A b \in Backends \cup {Service} : inflight[b] = Cardinality(Leased(b))
    BY Zenon, <1>1 DEF IInv, Books
  <2>3. \A r \in Requests :
          pc[r] = "stream" \/ (pc[r] = "done" /\ ~gone[r]) => answers[r] = 1
    BY Zenon, <1>1 DEF IInv, Handled, Answered
  <2>4. QED
    BY Zenon, <1>1, <2>1, <2>2, <2>3, TypesAreOK DEF NothingLeaks
<1>2. QED
  BY <1>1, InitIInv, NextIInv, PTL DEF Spec

\* handleUpstreamError and classifyStreamResult charge a backend with its own
\* failures and the timeout, never with a client that left.
THEOREM BackendsAreBlamedFairly == Spec => []BlameIsFair
<1>1. IInv => BlameIsFair
  BY Zenon DEF IInv, Handled, BlameIsFair
<1>2. QED
  BY <1>1, InitIInv, NextIInv, PTL DEF Spec

\* The breaker opens on enough results, with a failure among them (two, when the
\* threshold is above alpha), and for OpenDuration at most: for any alpha,
\* threshold and minimum that Validate accepts.
THEOREM OpenCircuitsHaveEvidence == Spec => []OpenHasEvidence
<1>1. IInv => OpenHasEvidence
  BY Zenon DEF IInv
<1>2. QED
  BY <1>1, InitIInv, NextIInv, PTL DEF Spec

-----------------------------------------------------------------------------
(* What the SSE detector must know of the body.                           *)

\* A set of numbers has a least member.
LEMMA LeastNat ==
  ASSUME NEW T \in SUBSET Nat, NEW n \in T
  PROVE  \E l \in T : \A m \in T : l <= m
<1> DEFINE A == {m \in 0..n : \A k \in 0..m : k \notin T}
<1>1. IsFiniteSet(A) /\ Cardinality(A) \in Nat
  <2>1. IsFiniteSet(0..n)
    BY FS_Interval
  <2>2. QED
    BY Zenon, <2>1, FS_Subset, FS_CardinalityType
<1>2. PICK c \in Nat : c = Cardinality(A)
  BY Zenon, <1>1
<1>3. /\ \A m \in A : m \in 0..n /\ m \notin T /\ 0..m \subseteq A
      /\ \A m \in 0..n : m \notin A => \E k \in 0..m : k \in T
  OBVIOUS
<1> HIDE DEF A
<1>4. c \notin A
  <2> SUFFICES ASSUME c \in A PROVE FALSE
    BY Zenon
  <2>1. Cardinality(0..c) = c + 1
    BY FS_Interval
  <2>2. 0..c \in SUBSET A
    BY Zenon, <1>3
  <2>3. Cardinality(0..c) <= c
    BY Zenon, <1>1, <1>2, <2>2, FS_Subset
  <2>4. QED
    BY <2>1, <2>3
<1>5. A \subseteq 0..(c - 1)
  <2> SUFFICES ASSUME NEW a \in A PROVE a \in 0..(c - 1)
    BY Zenon
  <2>1. a \in Nat /\ 0..a \subseteq A
    BY <1>3
  <2>2. ~(c <= a)
    BY <1>4, <2>1
  <2>3. QED
    BY <2>1, <2>2
<1>6. A = 0..(c - 1)
  <2>1. c - 1 \in Int /\ 0 \in Int
    OBVIOUS
  <2>2. IsFiniteSet(0..(c - 1)) /\ Cardinality(0..(c - 1)) = IF 0 > c - 1 THEN 0 ELSE (c - 1) - 0 + 1
    BY Zenon, <2>1, FS_Interval
  <2>3. Cardinality(0..(c - 1)) = c
    BY <2>2
  <2>4. A \in SUBSET (0..(c - 1))
    BY Zenon, <1>5
  <2>5. QED
    BY Zenon, <1>2, <2>2, <2>3, <2>4, FS_Subset
<1>7. \A m \in T : c <= m
  <2> SUFFICES ASSUME NEW m \in T, ~(c <= m) PROVE FALSE
    BY Zenon
  <2>1. m \in 0..(c - 1)
    OBVIOUS
  <2>2. QED
    BY Zenon, <1>3, <1>6, <2>1
<1>8. c \in T
  <2>1. c <= n
    BY Zenon, <1>7
  <2>2. PICK k \in 0..c : k \in T
    BY <1>3, <1>4, <2>1
  <2>3. k = c
    BY <1>7, <2>2
  <2>4. QED
    BY Zenon, <2>2, <2>3
<1>9. QED
  BY Zenon, <1>7, <1>8

\* The line of the body from i (exclusive) to the newline at j carries an event.
EventLine(body, i, j) ==
    /\ i < j /\ body[j] = Newline
    /\ i = 0 \/ body[i] = Newline
    /\ \A k \in i + 1..j - 1 : body[k] # Newline
    /\ IsFirstEvent(SubSeq(body, i + 1, j - 1))
Found(body, m) == \E i \in 0..m, j \in 1..m : EventLine(body, i, j)

\* The line that begins after k is not finished at m.
Unfinished(body, k, m) ==
    k \in 0..m /\ (k = 0 \/ body[k] = Newline) /\ \A i \in k + 1..m : body[i] # Newline

Detector == [line : Seq(Tokens), emitted : BOOLEAN]

\* What the detector d knows after the first m tokens of the body.
Reads(d, body, m) ==
    /\ d \in Detector /\ (d.emitted <=> Found(body, m))
    /\ ~d.emitted => \E k \in Nat : Unfinished(body, k, m) /\ d.line = SubSeq(body, k + 1, m)

LEMMA Slices ==
  ASSUME NEW body \in Seq(Tokens), NEW l \in Nat, NEW m \in Nat, l > 0, m <= Len(body)
  PROVE  /\ SubSeq(body, l, m) \in Seq(Tokens)
         /\ Len(SubSeq(body, l, m)) = IF l <= m THEN m - l + 1 ELSE 0
         /\ \A i \in 1..(m - l + 1) : SubSeq(body, l, m)[i] = body[l + i - 1]
<1>1. \A i \in l..m : body[i] \in Tokens
  OBVIOUS
<1>2. l \in Int /\ m \in Int
  OBVIOUS
<1>3. SubSeq(body, l, m) \in Seq(Tokens)
  BY Zenon, <1>1, <1>2, SubSeqProperties
<1>4. Len(SubSeq(body, l, m)) = IF l <= m THEN m - l + 1 ELSE 0
  BY <1>1, <1>2, SubSeqProperties
<1>5. \A i \in 1..(m - l + 1) : SubSeq(body, l, m)[i] = body[l + i - 1]
  BY SMT, <1>1, <1>2, SubSeqProperties
<1>6. QED
  BY Zenon, <1>3, <1>4, <1>5

LEMMA SameSequence ==
  ASSUME NEW s \in Seq(Tokens), NEW t \in Seq(Tokens), Len(s) = Len(t),
         \A i \in 1..Len(s) : s[i] = t[i]
  PROVE  s = t
  OBVIOUS

LEMMA SliceOfPrefix ==
  ASSUME NEW body \in Seq(Tokens), NEW p \in 0..Len(body), NEW l \in Nat, NEW m \in Nat, l > 0, m <= p
  PROVE  SubSeq(SubSeq(body, 1, p), l, m) = SubSeq(body, l, m)
<1> DEFINE t == SubSeq(body, 1, p)
           x == SubSeq(t, l, m)
           y == SubSeq(body, l, m)
<1>1. p \in Nat /\ p <= Len(body) /\ m <= Len(body) /\ 1 \in Nat /\ 1 > 0 /\ p - 1 + 1 = p
  OBVIOUS
<1>2. /\ t \in Seq(Tokens) /\ Len(t) = IF 1 <= p THEN p - 1 + 1 ELSE 0
      /\ \A i \in 1..(p - 1 + 1) : t[i] = body[1 + i - 1]
  BY Zenon, <1>1, Slices
<1>3. Len(t) = p /\ \A i \in 1..p : t[i] = body[i]
  BY <1>1, <1>2
<1>4. /\ y \in Seq(Tokens) /\ Len(y) = IF l <= m THEN m - l + 1 ELSE 0
      /\ \A i \in 1..(m - l + 1) : y[i] = body[l + i - 1]
  BY Zenon, <1>1, Slices
<1> HIDE DEF t
<1>5. /\ x \in Seq(Tokens) /\ Len(x) = IF l <= m THEN m - l + 1 ELSE 0
      /\ \A i \in 1..(m - l + 1) : x[i] = t[l + i - 1]
  BY Zenon, <1>2, <1>3, Slices
<1> HIDE DEF x, y
<1>6. \A i \in 1..(m - l + 1) : l + i - 1 \in 1..p
  BY <1>1
<1>7. Len(x) = Len(y) /\ 1..Len(x) \subseteq 1..(m - l + 1)
  BY <1>4, <1>5
<1>8. \A i \in 1..Len(x) : x[i] = y[i]
  BY Zenon, <1>3, <1>4, <1>5, <1>6, <1>7
<1>9. x = y
  BY Zenon, <1>4, <1>5, <1>7, <1>8, SameSequence
<1>10. QED
  BY Zenon, <1>9 DEF x, y, t

\* HasEvent of what was read, said of the body.
LEMMA FoundIsHasEvent ==
  ASSUME NEW body \in Seq(Tokens), NEW m \in 0..Len(body)
  PROVE  HasEvent(SubSeq(body, 1, m)) <=> Found(body, m)
<1> DEFINE t == SubSeq(body, 1, m)
<1>1. m \in Nat /\ m <= Len(body) /\ 1 \in Nat /\ 1 > 0 /\ m - 1 + 1 = m
  OBVIOUS
<1>2. /\ Len(t) = IF 1 <= m THEN m - 1 + 1 ELSE 0
      /\ \A i \in 1..(m - 1 + 1) : t[i] = body[1 + i - 1]
  BY Zenon, <1>1, Slices
<1>3. Len(t) = m /\ \A i \in 1..m : t[i] = body[i]
  BY <1>1, <1>2
<1> HIDE DEF t
<1>4. ASSUME NEW i \in 0..m, NEW j \in 1..m, i < j
      PROVE  EventLine(t, i, j) <=> EventLine(body, i, j)
  <2>1. t[j] = body[j] /\ (i = 0 \/ t[i] = body[i])
    BY <1>1, <1>3
  <2>2. \A k \in i + 1..j - 1 : k \in 1..m
    BY <1>1
  <2>3. i + 1 \in Nat /\ j - 1 \in Nat /\ i + 1 > 0 /\ j - 1 <= m
    BY <1>1
  <2>4. SubSeq(t, i + 1, j - 1) = SubSeq(body, i + 1, j - 1)
    BY Zenon, <2>3, SliceOfPrefix DEF t
  <2>5. \A k \in i + 1..j - 1 : t[k] = body[k]
    BY Zenon, <1>3, <2>2
  <2>6. QED
    BY Zenon, <2>1, <2>4, <2>5 DEF EventLine
<1>5. HasEvent(t) <=> \E i \in 0..m, j \in 1..m : EventLine(t, i, j)
  BY Zenon, <1>3 DEF HasEvent, EventLine
<1>6. \A i, j : EventLine(t, i, j) \/ EventLine(body, i, j) => i < j
  BY Zenon DEF EventLine
<1>7. QED
  BY Zenon, <1>4, <1>5, <1>6 DEF Found, t

-----------------------------------------------------------------------------
(* One more token.                                                         *)

LEMMA FoundStep ==
  ASSUME NEW body, NEW m \in Nat
  PROVE  Found(body, m + 1) <=> Found(body, m) \/ \E i \in 0..m : EventLine(body, i, m + 1)
<1>1. 0..m \subseteq 0..(m + 1) /\ 1..m \subseteq 1..(m + 1) /\ m + 1 \in 1..(m + 1)
  OBVIOUS
<1>2. \A i \in 0..(m + 1), j \in 1..(m + 1) : i < j => i \in 0..m /\ (j \in 1..m \/ j = m + 1)
  OBVIOUS
<1>3. \A i, j : EventLine(body, i, j) => i < j
  BY Zenon DEF EventLine
<1>4. \A i \in 0..m, j \in 1..m : i \in 0..(m + 1) /\ j \in 1..(m + 1)
  BY Zenon, <1>1
<1>5. ASSUME Found(body, m + 1) PROVE Found(body, m) \/ \E i \in 0..m : EventLine(body, i, m + 1)
  <2>1. PICK i \in 0..(m + 1), j \in 1..(m + 1) : EventLine(body, i, j)
    BY Zenon, <1>5 DEF Found
  <2>2. i \in 0..m /\ (j \in 1..m \/ j = m + 1)
    BY Zenon, <1>2, <1>3, <2>1
  <2>3. QED
    BY Zenon, <2>1, <2>2 DEF Found
<1>6. QED
  BY Zenon, <1>1, <1>4, <1>5 DEF Found

\* sseDetector.Feed of one more token.
LEMMA FeedOneReads ==
  ASSUME NEW body \in Seq(Tokens), NEW m \in Nat, m + 1 <= Len(body), NEW d, Reads(d, body, m)
  PROVE  Reads(FeedOne(d, body[m + 1]), body, m + 1)
<1> DEFINE token == body[m + 1]
           e == FeedOne(d, token)
<1>0. d \in Detector /\ (d.emitted <=> Found(body, m)) /\ token \in Tokens
  <2>1. token \in Tokens
    OBVIOUS
  <2>2. QED
    BY Zenon, <2>1 DEF Reads
<1> HIDE DEF token
<1>1. CASE d.emitted
  <2>1. e = d
    BY Zenon, <1>1 DEF FeedOne
  <2>2. Found(body, m + 1)
    BY Zenon, <1>0, <1>1, FoundStep
  <2>3. QED
    BY Zenon, <1>0, <1>1, <2>1, <2>2 DEF Reads, token
<1>2. CASE ~d.emitted
  <2>1. PICK k \in Nat : Unfinished(body, k, m) /\ d.line = SubSeq(body, k + 1, m)
    BY Zenon, <1>2 DEF Reads
  <2>2. k \in 0..m /\ (k = 0 \/ body[k] = Newline) /\ \A i \in k + 1..m : body[i] # Newline
    BY Zenon, <2>1 DEF Unfinished
  <2>3. d = [line |-> d.line, emitted |-> FALSE] /\ d.line \in Seq(Tokens)
    BY <1>0, <1>2 DEF Detector
  <2>4. CASE token # Newline
    <3>1. e = [d EXCEPT !.line = Append(@, token)]
      BY Zenon, <1>2, <2>4 DEF FeedOne
    <3>2. e = [line |-> Append(d.line, token), emitted |-> FALSE]
      <4>1. ASSUME NEW l, NEW x, x = [line |-> l, emitted |-> FALSE],
                   NEW y, y = [x EXCEPT !.line = Append(@, token)]
            PROVE  y = [line |-> Append(l, token), emitted |-> FALSE]
        BY Zenon, <4>1
      <4>2. QED
        BY Zenon, <2>3, <3>1, <4>1
    <3>3. Append(d.line, token) = SubSeq(body, k + 1, m + 1) /\ Append(d.line, token) \in Seq(Tokens)
      <4> DEFINE x == SubSeq(body, k + 1, m)
                 y == SubSeq(body, k + 1, m + 1)
                 a == Append(x, token)
      <4>1. k + 1 \in Nat /\ k + 1 > 0 /\ m <= Len(body) /\ m + 1 \in Nat
        BY <2>2
      <4>2. /\ x \in Seq(Tokens) /\ Len(x) = IF k + 1 <= m THEN m - (k + 1) + 1 ELSE 0
            /\ \A i \in 1..(m - (k + 1) + 1) : x[i] = body[(k + 1) + i - 1]
        BY Zenon, <4>1, Slices
      <4>3. /\ y \in Seq(Tokens) /\ Len(y) = IF k + 1 <= m + 1 THEN (m + 1) - (k + 1) + 1 ELSE 0
            /\ \A i \in 1..((m + 1) - (k + 1) + 1) : y[i] = body[(k + 1) + i - 1]
        BY Zenon, <4>1, Slices
      <4> HIDE DEF x, y
      <4>4. /\ a \in Seq(Tokens) /\ Len(a) = Len(x) + 1 /\ \A i \in 1..Len(x) : a[i] = x[i]
            /\ a[Len(x) + 1] = token
        BY <1>0, <4>2
      <4> HIDE DEF a
      <4>5. Len(x) = m - k /\ Len(y) = m - k + 1
        BY <2>2, <4>2, <4>3
      <4>6. ASSUME NEW i \in 1..Len(a) PROVE a[i] = y[i]
        <5>1. y[i] = body[k + i]
          <6>1. i \in 1..((m + 1) - (k + 1) + 1) /\ (k + 1) + i - 1 = k + i
            BY <2>2, <4>4, <4>5
          <6>2. QED
            BY Zenon, <4>3, <6>1
        <5>2. CASE i = Len(x) + 1
          <6>1. k + i = m + 1
            BY <2>2, <4>5, <5>2
          <6>2. QED
            BY Zenon, <4>4, <5>1, <5>2, <6>1 DEF token
        <5>3. CASE i # Len(x) + 1
          <6>1. i \in 1..Len(x) /\ x[i] = body[k + i]
            BY <2>2, <4>2, <4>4, <4>5, <5>3
          <6>2. QED
            BY Zenon, <4>4, <5>1, <6>1
        <5>4. QED
          BY Zenon, <5>2, <5>3
      <4>7. Len(a) = Len(y)
        BY <2>2, <4>4, <4>5
      <4>8. a = y
        BY Zenon, <4>3, <4>4, <4>6, <4>7, SameSequence
      <4>9. QED
        BY Zenon, <2>1, <4>4, <4>8 DEF a, x, y
    <3>4. Unfinished(body, k, m + 1)
      <4>1. k \in 0..(m + 1) /\ \A i \in k + 1..(m + 1) : i \in k + 1..m \/ i = m + 1
        BY <2>2
      <4>2. QED
        BY Zenon, <2>2, <2>4, <4>1 DEF Unfinished, token
    <3>5. ~Found(body, m + 1)
      BY Zenon, <1>0, <1>2, <2>4, FoundStep DEF EventLine, token
    <3>6. e \in Detector /\ ~e.emitted /\ e.line = SubSeq(body, k + 1, m + 1)
      <4> DEFINE a == Append(d.line, token)
      <4>1. a \in Seq(Tokens) /\ e = [line |-> a, emitted |-> FALSE]
        BY Zenon, <3>2, <3>3
      <4> HIDE DEF a
      <4>2. e \in Detector /\ ~e.emitted /\ e.line = a
        BY <4>1 DEF Detector
      <4>3. QED
        BY Zenon, <3>3, <4>2 DEF a
    <3>7. QED
      BY Zenon, <3>4, <3>5, <3>6 DEF Reads, token
  <2>5. CASE token = Newline
    <3>1. e = [d EXCEPT !.line = <<>>, !.emitted = IsFirstEvent(d.line)]
      BY Zenon, <1>2, <2>5 DEF FeedOne
    <3>2. PICK ev \in BOOLEAN : ev = IsFirstEvent(d.line)
      BY Zenon DEF IsFirstEvent
    <3>3. e = [line |-> <<>>, emitted |-> ev]
      BY <2>3, <3>1, <3>2
    <3>4. e \in Detector /\ e.emitted = ev /\ e.line = <<>>
      BY <3>3 DEF Detector
    <3>5. (m + 1) - 1 = m
      OBVIOUS
    <3>6. ev <=> EventLine(body, k, m + 1)
      <4>1. k < m + 1 /\ body[m + 1] = Newline
        BY <2>2, <2>5 DEF token
      <4>2. QED
        BY Zenon, <2>1, <2>2, <3>2, <3>5, <4>1 DEF EventLine
    <3>7. ASSUME NEW i \in 0..m, EventLine(body, i, m + 1) PROVE i = k
      <4>1. (i = 0 \/ body[i] = Newline) /\ \A l \in i + 1..m : body[l] # Newline
        BY Zenon, <3>5, <3>7 DEF EventLine
      <4>2. ~(k \in i + 1..m)
        BY <2>2, <4>1
      <4>3. ~(i \in k + 1..m)
        BY <2>2, <4>1
      <4>4. QED
        BY <2>2, <4>2, <4>3
    <3>8. ev <=> Found(body, m + 1)
      BY Zenon, <1>0, <1>2, <2>2, <3>6, <3>7, FoundStep
    <3>9. Unfinished(body, m + 1, m + 1)
      <4>1. m + 1 \in 0..(m + 1) /\ \A i \in (m + 1) + 1..(m + 1) : FALSE
        OBVIOUS
      <4>2. QED
        BY Zenon, <2>5, <4>1 DEF Unfinished, token
    <3>10. <<>> = SubSeq(body, (m + 1) + 1, m + 1) /\ m + 1 \in Nat
      <4>1. (m + 1) + 1 \in Int /\ m + 1 \in Int /\ m + 1 < (m + 1) + 1 /\ m + 1 \in Nat
        OBVIOUS
      <4>2. QED
        BY Zenon, <4>1, SubSeqEmpty
    <3>11. QED
      BY Zenon, <3>4, <3>8, <3>9, <3>10 DEF Reads, token
  <2>6. QED
    BY Zenon, <2>4, <2>5
<1>3. QED
  BY Zenon, <1>1, <1>2

-----------------------------------------------------------------------------
(* A chunk: the recursive function of Feed, and where it ends.             *)

\* The detector after each token of a chunk.
Fed(d, chunk, n, f) == f[0] = d /\ \A i \in 1..n : f[i] = FeedOne(f[i - 1], chunk[i])

LEMMA FeedOneType == ASSUME NEW d \in Detector, NEW token \in Tokens PROVE FeedOne(d, token) \in Detector
<1>1. CASE d.emitted
  BY Zenon, <1>1 DEF FeedOne
<1>2. CASE ~d.emitted /\ token # Newline
  <2>1. FeedOne(d, token) = [d EXCEPT !.line = Append(d.line, token)]
    BY Zenon, <1>2 DEF FeedOne
  <2>2. d.line \in Seq(Tokens)
    BY Zenon DEF Detector
  <2>3. Append(d.line, token) \in Seq(Tokens)
    BY <2>2
  <2>4. QED
    BY Zenon, <2>1, <2>3 DEF Detector
<1>3. CASE ~d.emitted /\ token = Newline
  <2>1. FeedOne(d, token) = [d EXCEPT !.line = <<>>, !.emitted = IsFirstEvent(d.line)]
    BY Zenon, <1>3 DEF FeedOne
  <2>2. IsFirstEvent(d.line) \in BOOLEAN
    BY Zenon DEF IsFirstEvent
  <2>3. <<>> \in Seq(Tokens)
    OBVIOUS
  <2>4. QED
    BY Zenon, <2>1, <2>2, <2>3 DEF Detector
<1>4. QED
  BY Zenon, <1>1, <1>2, <1>3

LEMMA FedStep ==
  ASSUME NEW d, NEW chunk, NEW n \in Nat, NEW f \in [0..n -> Detector], Fed(d, chunk, n, f),
         chunk[n + 1] \in Tokens
  PROVE  \E g \in [0..(n + 1) -> Detector] : Fed(d, chunk, n + 1, g)
<1> DEFINE x == FeedOne(f[n], chunk[n + 1])
           g == [i \in 0..(n + 1) |-> IF i = n + 1 THEN x ELSE f[i]]
<1>1. n \in 0..n
  OBVIOUS
<1>2. x \in Detector
  BY Zenon, <1>1, FeedOneType
<1> HIDE DEF x
<1>3. g \in [0..(n + 1) -> Detector]
  BY <1>2
<1>4. g[0] = f[0] /\ \A i \in 1..(n + 1) : g[i - 1] = f[i - 1] /\ g[i] = IF i = n + 1 THEN x ELSE f[i]
  OBVIOUS
<1> HIDE DEF g
<1>5. ASSUME NEW i \in 1..(n + 1) PROVE g[i] = FeedOne(g[i - 1], chunk[i])
  <2>1. CASE i = n + 1
    <3>1. i - 1 = n
      BY <2>1
    <3>2. QED
      BY Zenon, <1>4, <2>1, <3>1 DEF x
  <2>2. CASE i # n + 1
    <3>1. i \in 1..n
      BY <2>2
    <3>2. QED
      BY Zenon, <1>4, <2>2, <3>1 DEF Fed
  <2>3. QED
    BY Zenon, <2>1, <2>2
<1>6. QED
  BY Zenon, <1>3, <1>4, <1>5 DEF Fed

LEMMA FedExists ==
  ASSUME NEW d \in Detector, NEW chunk \in Seq(Tokens)
  PROVE  \E f \in [0..Len(chunk) -> Detector] : Fed(d, chunk, Len(chunk), f)
<1> DEFINE Goes(n) == \E f \in [0..n -> Detector] : Fed(d, chunk, n, f)
           T == {n \in Nat : n <= Len(chunk) /\ ~Goes(n)}
<1>0. Len(chunk) \in Nat /\ \A n \in Nat : n + 1 <= Len(chunk) => chunk[n + 1] \in Tokens
  OBVIOUS
<1>1. Goes(0)
  <2> DEFINE f == [i \in 0..0 |-> d]
  <2>1. f \in [0..0 -> Detector] /\ f[0] = d /\ \A i \in 1..0 : FALSE
    OBVIOUS
  <2>2. QED
    BY Zenon, <2>1 DEF Fed
<1>2. ASSUME NEW n \in Nat, n + 1 <= Len(chunk), Goes(n) PROVE Goes(n + 1)
  <2>1. PICK f \in [0..n -> Detector] : Fed(d, chunk, n, f)
    BY Zenon, <1>2
  <2>2. chunk[n + 1] \in Tokens
    BY Zenon, <1>0, <1>2
  <2>3. QED
    BY Zenon, <2>1, <2>2, FedStep
<1> HIDE DEF Goes
<1>3. T = {}
  <2> SUFFICES ASSUME NEW x \in T PROVE FALSE
    BY Zenon
  <2>1. T \in SUBSET Nat
    OBVIOUS
  <2>2. PICK l \in T : \A m \in T : l <= m
    BY Zenon, <2>1, LeastNat
  <2>3. l \in Nat /\ l <= Len(chunk) /\ ~Goes(l)
    OBVIOUS
  <2>4. l # 0
    BY Zenon, <1>1, <2>3
  <2>5. l - 1 \in Nat /\ l - 1 <= Len(chunk) /\ (l - 1) + 1 = l /\ ~(l <= l - 1)
    BY <1>0, <2>3, <2>4
  <2>6. Goes(l - 1)
    BY Zenon, <2>2, <2>5
  <2>7. QED
    BY Zenon, <1>2, <2>3, <2>5, <2>6
<1>4. Goes(Len(chunk))
  BY <1>0, <1>3
<1>5. QED
  BY Zenon, <1>4 DEF Goes

\* Feed is what such a function ends in.
LEMMA FeedIsFed ==
  ASSUME NEW d \in Detector, NEW chunk \in Seq(Tokens)
  PROVE  \E f : Fed(d, chunk, Len(chunk), f) /\ Feed(d, chunk) = f[Len(chunk)]
<1> DEFINE n == Len(chunk)
           after == CHOOSE f : f = [i \in 0..n |-> IF i = 0 THEN d ELSE FeedOne(f[i - 1], chunk[i])]
<1>1. Feed(d, chunk) = after[n]
  BY DEF Feed
<1>2. n \in Nat
  OBVIOUS
<1>3. PICK f \in [0..n -> Detector] : Fed(d, chunk, n, f)
  BY Zenon, FedExists
<1> HIDE DEF n
<1>4. \A i \in 0..n : i = 0 \/ i \in 1..n
  BY <1>2
<1>5. \A i \in 0..n : f[i] = IF i = 0 THEN d ELSE FeedOne(f[i - 1], chunk[i])
  BY Zenon, <1>3, <1>4 DEF Fed
<1>6. f = [i \in 0..n |-> IF i = 0 THEN d ELSE FeedOne(f[i - 1], chunk[i])]
  BY Zenon, <1>5
<1>7. after = [i \in 0..n |-> IF i = 0 THEN d ELSE FeedOne(after[i - 1], chunk[i])]
  BY Zenon, <1>6
<1> HIDE DEF after
<1>8. 0 \in 0..n /\ \A i \in 1..n : i \in 0..n /\ i # 0
  BY <1>2
<1>9. Fed(d, chunk, n, after)
  BY Zenon, <1>7, <1>8 DEF Fed
<1>10. QED
  BY Zenon, <1>1, <1>9 DEF n

\* However the body is cut into chunks, the detector knows what was read.
LEMMA FeedReads ==
  ASSUME NEW body \in Seq(Tokens), NEW pos \in Nat, NEW n \in Nat, pos + n <= Len(body),
         NEW d, Reads(d, body, pos)
  PROVE  Reads(Feed(d, SubSeq(body, pos + 1, pos + n)), body, pos + n)
<1> DEFINE chunk == SubSeq(body, pos + 1, pos + n)
<1>1. pos + 1 \in Nat /\ pos + n \in Nat /\ pos + 1 > 0
  OBVIOUS
<1>2. /\ chunk \in Seq(Tokens)
      /\ Len(chunk) = IF pos + 1 <= pos + n THEN (pos + n) - (pos + 1) + 1 ELSE 0
      /\ \A i \in 1..((pos + n) - (pos + 1) + 1) : chunk[i] = body[(pos + 1) + i - 1]
  BY Zenon, <1>1, Slices
<1> HIDE DEF chunk
<1>3. Len(chunk) = n /\ \A i \in 1..n : chunk[i] = body[pos + i]
  <2>1. Len(chunk) = n
    BY <1>2
  <2>2. \A i \in 1..n : i \in 1..((pos + n) - (pos + 1) + 1) /\ (pos + 1) + i - 1 = pos + i
    OBVIOUS
  <2>3. QED
    BY Zenon, <1>2, <2>1, <2>2
<1>4. d \in Detector
  BY Zenon DEF Reads
<1>5. PICK f : Fed(d, chunk, n, f) /\ Feed(d, chunk) = f[n]
  BY Zenon, <1>2, <1>3, <1>4, FeedIsFed
<1> DEFINE T == {i \in Nat : i <= n /\ ~Reads(f[i], body, pos + i)}
<1>6. T = {}
  <2> SUFFICES ASSUME NEW x \in T PROVE FALSE
    BY Zenon
  <2>1. T \in SUBSET Nat
    OBVIOUS
  <2>2. PICK l \in T : \A m \in T : l <= m
    BY Zenon, <2>1, LeastNat
  <2>3. l \in Nat /\ l <= n /\ ~Reads(f[l], body, pos + l)
    OBVIOUS
  <2>4. pos + 0 = pos
    OBVIOUS
  <2>5. l # 0
    BY Zenon, <1>5, <2>3, <2>4 DEF Fed
  <2>6. PICK k \in Nat : k = l - 1 /\ k <= n /\ ~(l <= k) /\ l \in 1..n
    BY <2>3, <2>5
  <2>7. Reads(f[k], body, pos + k)
    BY Zenon, <2>2, <2>6
  <2>8. f[l] = FeedOne(f[k], body[pos + l])
    BY Zenon, <1>3, <1>5, <2>6 DEF Fed
  <2>9. pos + k \in Nat /\ (pos + k) + 1 = pos + l /\ (pos + k) + 1 <= Len(body)
    BY <2>3, <2>6
  <2>10. Reads(FeedOne(f[k], body[(pos + k) + 1]), body, (pos + k) + 1)
    BY Zenon, <2>7, <2>9, FeedOneReads
  <2>11. QED
    BY Zenon, <2>3, <2>8, <2>9, <2>10
<1>7. Reads(f[n], body, pos + n)
  <2>1. n \in Nat /\ n <= n
    OBVIOUS
  <2>2. QED
    BY Zenon, <1>6, <2>1
<1>8. QED
  BY Zenon, <1>5, <1>7 DEF chunk

-----------------------------------------------------------------------------
(* The stream of every request.                                            *)

Watching == {"stream", "copied"}
Observed(s) ==
    /\ Reads([line |-> s.line, emitted |-> s.emitted], s.body, s.pos)
    /\ s.ttft = IF s.emitted THEN 1 ELSE 0
SInv == \A r \in Requests : pc[r] \in Watching => Observed(stream[r])

LEMMA FoundGrows ==
  ASSUME NEW body, NEW m \in Nat, NEW n \in Nat, Found(body, m) PROVE Found(body, m + n)
<1>1. 0..m \subseteq 0..(m + n) /\ 1..m \subseteq 1..(m + n)
  OBVIOUS
<1>2. QED
  BY Zenon, <1>1 DEF Found

LEMMA FreshReads ==
  ASSUME NEW body \in Seq(Tokens) PROVE Reads([line |-> <<>>, emitted |-> FALSE], body, 0)
<1> DEFINE d == [line |-> <<>>, emitted |-> FALSE]
<1>1. d.line = <<>> /\ ~d.emitted
  BY Zenon
<1>2. <<>> \in Seq(Tokens) /\ \A j \in 1..0 : FALSE
  OBVIOUS
<1>3. d \in Detector
  BY Zenon, <1>2 DEF Detector
<1> HIDE DEF d
<1>4. ~Found(body, 0)
  BY Zenon, <1>2 DEF Found
<1>5. 0 \in Nat /\ 0 \in 0..0 /\ \A i \in 0 + 1..0 : FALSE
  OBVIOUS
<1>6. Unfinished(body, 0, 0)
  BY Zenon, <1>5 DEF Unfinished
<1>7. SubSeq(body, 0 + 1, 0) = <<>>
  <2>1. 0 + 1 \in Int /\ 0 \in Int /\ 0 < 0 + 1
    OBVIOUS
  <2>2. QED
    BY Zenon, <2>1, SubSeqEmpty
<1>8. QED
  BY Zenon, <1>1, <1>3, <1>4, <1>5, <1>6, <1>7 DEF Reads, d

\* A chunk read in copyResponseBody.
LEMMA ChunkObserved ==
  ASSUME NEW old, ValidStream(old), Observed(old), NEW n \in Nat, old.pos + n <= Len(old.body),
         NEW next, next = Feed([line |-> old.line, emitted |-> old.emitted],
                               SubSeq(old.body, old.pos + 1, old.pos + n)),
         NEW new, new = [body |-> old.body, pos |-> old.pos + n,
                         line |-> next.line, emitted |-> next.emitted,
                         ttft |-> old.ttft + (IF next.emitted /\ ~old.emitted THEN 1 ELSE 0)]
  PROVE  Observed(new)
<1> DEFINE d == [line |-> old.line, emitted |-> old.emitted]
<1>1. Reads(d, old.body, old.pos) /\ old.ttft = IF old.emitted THEN 1 ELSE 0
  BY Zenon DEF Observed
<1>2. old.body \in Seq(Tokens) /\ old.pos \in 0..Len(old.body) /\ Len(old.body) \in Nat
  <2>1. old.body \in Seq(Tokens) /\ old.pos \in 0..Len(old.body)
    BY Zenon DEF ValidStream
  <2>2. QED
    BY <2>1
<1>3. old.pos \in Nat /\ old.pos + n \in Nat
  BY <1>2
<1>4. Reads(next, old.body, old.pos + n)
  BY Zenon, <1>1, <1>2, <1>3, FeedReads
<1>5. d.emitted = old.emitted
  BY Zenon
<1>6. /\ old.emitted \in BOOLEAN /\ next.emitted \in BOOLEAN
      /\ old.emitted <=> Found(old.body, old.pos)
      /\ next.emitted <=> Found(old.body, old.pos + n)
  BY Zenon, <1>1, <1>4, <1>5 DEF Reads, Detector
<1>7. old.emitted => next.emitted
  BY Zenon, <1>3, <1>6, FoundGrows
<1>8. next = [line |-> next.line, emitted |-> next.emitted]
  <2>1. next \in Detector
    BY Zenon, <1>4 DEF Reads
  <2>2. QED
    BY Zenon, <2>1 DEF Detector
<1>9. /\ new.body = old.body /\ new.pos = old.pos + n /\ new.line = next.line
      /\ new.emitted = next.emitted
      /\ new.ttft = old.ttft + (IF next.emitted /\ ~old.emitted THEN 1 ELSE 0)
  BY Zenon
<1>10. new.ttft = IF new.emitted THEN 1 ELSE 0
  <2>1. CASE old.emitted
    <3>1. new.ttft = 1 + 0 /\ new.emitted
      BY Zenon, <1>1, <1>7, <1>9, <2>1
    <3>2. QED
      BY <3>1
  <2>2. CASE ~old.emitted /\ next.emitted
    <3>1. new.ttft = 0 + 1 /\ new.emitted
      BY Zenon, <1>1, <1>9, <2>2
    <3>2. QED
      BY <3>1
  <2>3. CASE ~old.emitted /\ ~next.emitted
    <3>1. new.ttft = 0 + 0 /\ ~new.emitted
      BY Zenon, <1>1, <1>9, <2>3
    <3>2. QED
      BY <3>1
  <2>4. QED
    BY Zenon, <2>1, <2>2, <2>3
<1>11. QED
  BY Zenon, <1>4, <1>8, <1>9, <1>10 DEF Observed

LEMMA SameStreams ==
  ASSUME SInv, UNCHANGED stream, \A q \in Requests : pc'[q] \in Watching => pc[q] \in Watching
  PROVE  SInv'
  BY Zenon DEF SInv, Watching

\* One stream changes.
LEMMA OneStream ==
  ASSUME SInv, StreamTypes, NEW r \in Requests, NEW new, stream' = [stream EXCEPT ![r] = new],
         \A q \in Requests \ {r} : pc'[q] = pc[q], pc'[r] \in Watching => Observed(new)
  PROVE  SInv'
<1>1. stream' = [q \in Requests |-> IF q = r THEN new ELSE stream[q]]
  BY Zenon DEF StreamTypes
<1>2. stream'[r] = new /\ \A q \in Requests \ {r} : stream'[q] = stream[q]
  BY Zenon, <1>1
<1>3. QED
  BY Zenon, <1>2 DEF SInv, Watching

LEMMA HandlerSInv == ASSUME IInv, SInv, NEW r \in Requests, Handler(r) PROVE SInv'
<1>0. pc \in [Requests -> Places] /\ StreamTypes
  BY Zenon DEF IInv, Types, HandlerTypes
<1>1. CASE ClassifyStream(r)
  <2>1. pc'[r] = "settle" /\ \A q \in Requests \ {r} : pc'[q] = pc[q]
    BY Zenon, <1>0, <1>1 DEF ClassifyStream, Goto
  <2>2. stream' = [stream EXCEPT ![r] = Idle]
    BY Zenon, <1>1 DEF ClassifyStream
  <2>3. pc'[r] \notin Watching
    BY Zenon, <2>1 DEF Watching
  <2>4. QED
    BY Zenon, <1>0, <2>1, <2>2, <2>3, OneStream
<1>2. CASE ~ClassifyStream(r)
  <2>1. PICK place \in {"body", "done", "select", "upstream", "settle", "release"} :
          pc' = [pc EXCEPT ![r] = place]
    BY Zenon, <1>2 DEF Handler, TryAcquire, RejectAdmission, ReadBody, RejectRequestBody, SelectFails,
                       Select, ClassifyError, Complete, Release, Return, Goto
  <2>2. place \notin Watching
    BY Zenon DEF Watching
  <2>3. UNCHANGED stream
    BY Zenon, <1>2 DEF Handler, TryAcquire, RejectAdmission, ReadBody, RejectRequestBody, SelectFails,
                       Select, ClassifyError, Complete, Release
  <2>4. \A q \in Requests : pc'[q] \in Watching => pc[q] \in Watching
    BY Zenon, <1>0, <2>1, <2>2
  <2>5. QED
    BY Zenon, <2>3, <2>4, SameStreams
<1>3. QED
  BY Zenon, <1>1, <1>2

LEMMA ExchangeSInv == ASSUME IInv, SInv, NEW r \in Requests, Exchange(r) PROVE SInv'
<1>0. pc \in [Requests -> Places] /\ StreamTypes /\ ValidStream(stream[r])
  BY Zenon DEF IInv, Types, HandlerTypes, StreamTypes
<1>1. CASE UpstreamHeaders(r)
  <2>1. PICK body \in Bodies[r] : stream' = [stream EXCEPT ![r] = [Idle EXCEPT !.body = body]]
    BY Zenon, <1>1 DEF UpstreamHeaders
  <2>2. body \in Seq(Tokens)
    BY Zenon, GatewayConstants DEF GatewayConstants
  <2>3. PICK new : new = [Idle EXCEPT !.body = body]
    BY Zenon
  <2>4. /\ new.body = body /\ new.pos = 0 /\ new.line = <<>> /\ new.emitted = FALSE /\ new.ttft = 0
    BY Zenon, <2>3 DEF Idle
  <2>5. Observed(new)
    BY Zenon, <2>2, <2>4, FreshReads DEF Observed
  <2>6. \A q \in Requests \ {r} : pc'[q] = pc[q]
    BY Zenon, <1>0, <1>1 DEF UpstreamHeaders, Goto
  <2>7. QED
    BY Zenon, <1>0, <2>1, <2>3, <2>5, <2>6, OneStream
<1>2. CASE InvalidUpstream(r) \/ \E why \in Whys : UpstreamError(r, why)
  <2>1. PICK place \in {"settle", "failed"} : pc' = [pc EXCEPT ![r] = place]
    BY Zenon, <1>2 DEF InvalidUpstream, UpstreamError, Goto
  <2>2. place \notin Watching
    BY Zenon DEF Watching
  <2>3. UNCHANGED stream
    BY Zenon, <1>2 DEF InvalidUpstream, UpstreamError
  <2>4. \A q \in Requests : pc'[q] \in Watching => pc[q] \in Watching
    BY Zenon, <1>0, <2>1, <2>2
  <2>5. QED
    BY Zenon, <2>3, <2>4, SameStreams
<1>3. CASE \E n \in 0..Len(stream[r].body), why \in Whys \cup {None, "eof", "write"} : CopyChunk(r, n, why)
  <2>1. PICK n \in 0..Len(stream[r].body), why \in Whys \cup {None, "eof", "write"} : CopyChunk(r, n, why)
    BY Zenon, <1>3
  <2>2. PICK old : old = stream[r]
    BY Zenon
  <2>3. PICK next : next = Feed([line |-> old.line, emitted |-> old.emitted],
                                SubSeq(old.body, old.pos + 1, old.pos + n))
    BY Zenon
  <2>4. PICK new : new = [body |-> old.body, pos |-> old.pos + n,
                          line |-> next.line, emitted |-> next.emitted,
                          ttft |-> old.ttft + (IF next.emitted /\ ~old.emitted THEN 1 ELSE 0)]
    BY Zenon
  <2>5. stream' = [stream EXCEPT ![r] = new] /\ pc[r] = "stream" /\ old.pos + n <= Len(old.body)
    BY Zenon, <2>1, <2>2, <2>3, <2>4 DEF CopyChunk
  <2>6. n \in Nat
    <3>1. ASSUME NEW b \in Seq(Tokens), NEW i \in 0..Len(b) PROVE i \in Nat
      OBVIOUS
    <3>2. QED
      BY Zenon, <1>0, <3>1 DEF ValidStream
  <2>7. Observed(old) /\ ValidStream(old)
    BY Zenon, <1>0, <2>2, <2>5 DEF SInv, Watching
  <2>8. Observed(new)
    BY ZenonT(60), <2>3, <2>4, <2>5, <2>6, <2>7, ChunkObserved
  <2>9. \A q \in Requests \ {r} : pc'[q] = pc[q]
    BY Zenon, <1>0, <2>1 DEF CopyChunk, Goto
  <2>10. QED
    BY Zenon, <1>0, <2>5, <2>8, <2>9, OneStream
<1>4. QED
  BY Zenon, <1>1, <1>2, <1>3 DEF Exchange

LEMMA SInvNext == IInv /\ SInv /\ [Next]_vars => SInv'
<1> SUFFICES ASSUME IInv, SInv, [Next]_vars PROVE SInv'
  BY Zenon
<1>1. ASSUME NEW r \in Requests, Handler(r) \/ Exchange(r) PROVE SInv'
  BY Zenon, <1>1, HandlerSInv, ExchangeSInv
<1>2. ASSUME NEW r \in Requests, ClientLeaves(r) PROVE SInv'
  BY Zenon, <1>2, SameStreams DEF ClientLeaves
<1>3. CASE Tick \/ UNCHANGED vars
  BY Zenon, <1>3, SameStreams DEF Tick, vars
<1>4. QED
  BY Zenon, <1>1, <1>2, <1>3 DEF Next

\* The time to first token is observed once, at the first finished data line that
\* is not [DONE]: for every body an upstream may send and every way the transport
\* may cut it into reads.
THEOREM FirstTokenIsExact == Spec => []TTFTIsExact
<1>1. Init => SInv
  BY Zenon DEF Init, SInv, Watching
<1>2. IInv /\ SInv => TTFTIsExact
  <2> SUFFICES ASSUME IInv, SInv, NEW r \in Requests, pc[r] \in Watching
               PROVE  stream[r].ttft = IF HasEvent(SubSeq(stream[r].body, 1, stream[r].pos)) THEN 1 ELSE 0
    BY Zenon DEF TTFTIsExact, Watching
  <2>1. PICK s : s = stream[r]
    BY Zenon
  <2> DEFINE d == [line |-> s.line, emitted |-> s.emitted]
  <2>2. ValidStream(s) /\ Reads(d, s.body, s.pos) /\ s.ttft = IF s.emitted THEN 1 ELSE 0
    BY Zenon, <2>1 DEF IInv, Types, StreamTypes, SInv, Observed
  <2>3. d.emitted = s.emitted
    BY Zenon
  <2>4. s.emitted <=> Found(s.body, s.pos)
    BY Zenon, <2>2, <2>3 DEF Reads
  <2>5. HasEvent(SubSeq(s.body, 1, s.pos)) <=> Found(s.body, s.pos)
    BY Zenon, <2>2, FoundIsHasEvent DEF ValidStream
  <2>6. QED
    BY Zenon, <2>1, <2>2, <2>4, <2>5
<1>3. QED
  BY <1>1, <1>2, InitIInv, NextIInv, SInvNext, PTL DEF Spec
=============================================================================
