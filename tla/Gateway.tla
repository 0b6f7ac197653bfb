------------------------------ MODULE Gateway ------------------------------
(* The HTTP handler of internal/serving/gateway (proxy_impl.go) together     *)
(* with what it settles when a request ends: the admission permit, the lease *)
(* of the request path, the circuit breaker of the backend that served it    *)
(* (circuit/circuit_impl.go) and the time-to-first-token observation that    *)
(* the SSE detector triggers.                                                *)
(*                                                                           *)
(* Handlers of several requests interleave.  The client of a request may     *)
(* disconnect at any moment, which cancels request.Context(); the upstream   *)
(* answers, breaks, or stays silent until the per-request timeout.  Which    *)
(* healthy backend is chosen is the business of Selection; here any of them  *)
(* may be.                                                                   *)
EXTENDS Integers, Sequences, FiniteSets

CONSTANTS
    Requests,          \* one client request each
    Backends,          \* backends that discovery knows
    Service,           \* the Kubernetes Service, the last resort
    Limit,             \* admission capacity
    Bodies,            \* SSE bodies an upstream may send to each request, as
                       \* token sequences
    AlphaNum, AlphaDen,           \* circuit EWMA alpha
    ThresholdNum, ThresholdDen,   \* circuit error threshold
    MinimumRequests, OpenDuration,
    MaxTime            \* bound of the clock

None == "none"
Newline == "nl"
\* What the detector tells apart; "json" is any other text.
Tokens == {"data:", "done", "json", Newline}

ASSUME GatewayConstants ==
    /\ IsFiniteSet(Requests)
    /\ Service \notin Backends /\ None \notin Backends \cup {Service}
    /\ Bodies \in [Requests -> SUBSET Seq(Tokens)] /\ MaxTime \in Nat
    /\ Limit \in Nat \ {0}
    /\ AlphaDen \in Nat \ {0} /\ AlphaNum \in 1..AlphaDen
    /\ ThresholdDen \in Nat \ {0} /\ ThresholdNum \in 1..ThresholdDen
    /\ MinimumRequests \in Nat \ {0}
    /\ OpenDuration \in Nat \ {0}

VARIABLES
    time,
    permits,   \* admission permits taken
    circuit,   \* breaker.states, per backend
    inflight,  \* local in-flight counter, per backend
    pc,        \* where the handler of each request is
    gone,      \* has the client left: request.Context().Err() # nil
    lease,     \* the backend leased, or None
    at,        \* the earliest moment the handler may read the clock next
    stream,    \* the response being copied: body, position, sseDetector,
               \* and first-token observations made
    answers,   \* response headers written to the client
    cause,     \* what really ended the exchange with the upstream
    outcome,   \* requestpath.Outcome handed to Complete
    recorded,  \* transport results recorded so far, per backend (history)
    faults     \* failures among them (history)

vars == <<time, permits, circuit, inflight, pc, gone, lease, at, stream, 
          answers, cause, outcome, recorded, faults>>
evidence == <<recorded, faults>>

Zero == 0                  \* time.Time{}: the circuit never opened
DataPrefix == "data:"
Done == <<"done">>

\* Outcomes that complete() records as a failure of the backend.
Failures == {"transport", "deadline", "stream"}
Transport == Failures \cup {"completed"}

Closed == [num |-> 0, den |-> 1, samples |-> 0, openUntil |-> Zero]
Idle == [body |-> <<>>, pos |-> 0, line |-> <<>>, emitted |-> FALSE, ttft |-> 0]

Init ==
    /\ time = 0
    /\ permits = 0
    /\ circuit = [b \in Backends |-> Closed]
    /\ inflight = [b \in Backends \cup {Service} |-> 0]
    /\ pc = [r \in Requests |-> "arrive"]
    /\ gone = [r \in Requests |-> FALSE]
    /\ lease = [r \in Requests |-> None]
    /\ at = [r \in Requests |-> 0]
    /\ stream = [r \in Requests |-> Idle]
    /\ answers = [r \in Requests |-> 0]
    /\ cause = [r \in Requests |-> None]
    /\ outcome = [r \in Requests |-> None]
    /\ recorded = [b \in Backends |-> 0]
    /\ faults = [b \in Backends |-> 0]

-----------------------------------------------------------------------------
(* The breaker.  errorEWMA is the exact rational num / den.                  *)

Expired(state, now) == state.openUntil # Zero /\ now >= state.openUntil

\* errorEWMA >= ErrorThreshold
OverThreshold(num, den) == num * ThresholdDen >= ThresholdNum * den

\* The end of the interval that a failure opens.
Bug_OpenUntil(old, now) == IF old > now THEN old + OpenDuration ELSE now + OpenDuration
OpenUntil(old, now) == now + OpenDuration

Record(state, failure, now) ==
    LET old == IF Expired(state, now) THEN Closed ELSE state
        sample == IF failure THEN 1 ELSE 0
        num == IF old.samples = 0
               THEN sample
               ELSE AlphaNum * sample * old.den + (AlphaDen - AlphaNum) * old.num
        den == IF old.samples = 0 THEN 1 ELSE AlphaDen * old.den
        samples == old.samples + 1
        opens == failure /\ samples >= MinimumRequests /\ OverThreshold(num, den)
    IN  [num |-> num, den |-> den, samples |-> samples,
         openUntil |-> IF opens THEN OpenUntil(old.openUntil, now) ELSE old.openUntil]

\* IsOpen forgets the state of an interval that is over.
IsOpen(state, now) == state.openUntil # Zero /\ now < state.openUntil
Checked(state, now) == IF Expired(state, now) THEN Closed ELSE state

-----------------------------------------------------------------------------
(* The SSE detector reads an arbitrary slice of the body.                    *)

IsFirstEvent(line) == line # <<>> /\ Head(line) = DataPrefix /\ Tail(line) # Done

FeedOne(d, token) ==
    IF d.emitted THEN d
    ELSE IF token # Newline THEN [d EXCEPT !.line = Append(@, token)]
    ELSE [d EXCEPT !.line = <<>>, !.emitted = IsFirstEvent(d.line)]

\* A detector that forgets the unfinished line between two reads.
Bug_Feed(d, chunk) ==
    LET after[i \in 0..Len(chunk)] ==
            IF i = 0 THEN [d EXCEPT !.line = <<>>] ELSE FeedOne(after[i - 1], chunk[i])
    IN  after[Len(chunk)]
Feed(d, chunk) ==
    LET after[i \in 0..Len(chunk)] == IF i = 0 THEN d ELSE FeedOne(after[i - 1], chunk[i])
    IN  after[Len(chunk)]

-----------------------------------------------------------------------------
(* The handler, one action per stretch between two shared steps.            *)

Goto(r, place) == pc' = [pc EXCEPT ![r] = place]
Answer(r) == answers' = [answers EXCEPT ![r] = @ + 1]
Return(r) == Goto(r, "done") /\ permits' = permits - 1

HasCapacity(n) == n < Limit

TryAcquire(r) ==
    /\ pc[r] = "arrive" /\ HasCapacity(permits) /\ Goto(r, "body")
    /\ permits' = permits + 1
    /\ UNCHANGED <<time, circuit, inflight, gone, lease, at, stream, answers, cause, outcome, evidence>>

\* 429 and no permit.
RejectAdmission(r) ==
    /\ pc[r] = "arrive" /\ ~HasCapacity(permits) /\ Goto(r, "done")
    /\ Answer(r)
    /\ UNCHANGED <<time, permits, circuit, inflight, gone, lease, at, stream, cause, outcome, evidence>>

\* readBoundedBody.
ReadBody(r) ==
    /\ pc[r] = "body" /\ Goto(r, "select")
    /\ at' = [at EXCEPT ![r] = time]
    /\ UNCHANGED <<time, permits, circuit, inflight, gone, lease, stream, answers, cause, outcome, evidence>>

\* The body is too large or cannot be read: 413 or 400.
RejectRequestBody(r) ==
    /\ pc[r] = "body" /\ Answer(r) /\ Return(r)
    /\ UNCHANGED <<time, circuit, inflight, gone, lease, at, stream, cause, outcome, evidence>>

\* requestPath.Select refuses the request: 503 before there is a lease.
SelectFails(r) ==
    /\ pc[r] = "select"
    /\ Answer(r) /\ Return(r) /\ at' = [at EXCEPT ![r] = 0]
    /\ UNCHANGED <<time, circuit, inflight, gone, lease, stream, cause, outcome, evidence>>

\* Select: IsOpen on every backend with a clock read before the lock, then a
\* lease on a backend whose circuit is closed, or on the Service.
Select(r) ==
    /\ pc[r] = "select" /\ Goto(r, "upstream")
    /\ \E now \in at[r]..time :
          /\ circuit' = [b \in Backends |-> Checked(circuit[b], now)]
          /\ \E b \in {b \in Backends : ~IsOpen(circuit[b], now)} \cup {Service} :
                /\ lease' = [lease EXCEPT ![r] = b]
                /\ inflight' = [inflight EXCEPT ![b] = @ + 1]
    /\ at' = [at EXCEPT ![r] = 0]
    /\ UNCHANGED <<time, permits, gone, stream, answers, cause, outcome, evidence>>

\* What may end the exchange with the upstream: a fault of its own, the
\* timeout of newUpstreamRequest, or the cancellation it inherits.
Bug_Interrupted(r, why) == why = "fault" \/ (why = "client" /\ gone[r])
Interrupted(r, why) == why \in {"fault", "timeout"} \/ (why = "client" /\ gone[r])

\* ClientFor(...).Do returns an error before any response header.
UpstreamError(r, why) ==
    /\ pc[r] = "upstream" /\ Interrupted(r, why) /\ Goto(r, "failed")
    /\ cause' = [cause EXCEPT ![r] = why]
    /\ UNCHANGED <<time, permits, circuit, inflight, gone, lease, at, stream, answers, outcome, evidence>>

\* Do returns a response: its headers go out and are never taken back.
UpstreamHeaders(r) ==
    /\ pc[r] = "upstream" /\ Goto(r, "stream")
    /\ Answer(r)
    /\ \E body \in Bodies[r] : stream' = [stream EXCEPT ![r] = [Idle EXCEPT !.body = body]]
    /\ UNCHANGED <<time, permits, circuit, inflight, gone, lease, at, cause, outcome, evidence>>

\* The URL of the backend does not parse: 400, and the lease is still settled.
InvalidUpstream(r) ==
    /\ pc[r] = "upstream" /\ Goto(r, "settle")
    /\ Answer(r)
    /\ outcome' = [outcome EXCEPT ![r] = "invalid"]
    /\ at' = [at EXCEPT ![r] = time]
    /\ UNCHANGED <<time, permits, circuit, inflight, gone, lease, stream, cause, evidence>>

\* One Read of copyResponseBody: a slice of the body, perhaps with the error
\* that ends it; the slice reaches the detector before the client.
CopyChunk(r, n, why) ==
    LET old  == stream[r]
        next == Feed([line |-> old.line, emitted |-> old.emitted],
                     SubSeq(old.body, old.pos + 1, old.pos + n))
    IN  /\ pc[r] = "stream" /\ old.pos + n <= Len(old.body)
        /\ n = 0 => why \notin {None, "write"}
        /\ why = "eof" => old.pos + n = Len(old.body)
        /\ why \in {"fault", "timeout", "client"} => Interrupted(r, why)
        /\ stream' = [stream EXCEPT ![r] = 
              [body |-> old.body, pos |-> old.pos + n,
               line |-> next.line, emitted |-> next.emitted,
               ttft |-> old.ttft + (IF next.emitted /\ ~old.emitted THEN 1 ELSE 0)]]
        /\ cause' = [cause EXCEPT ![r] = why]
        /\ Goto(r, IF why = None THEN "stream" ELSE "copied")
        /\ UNCHANGED <<time, permits, circuit, inflight, gone, lease, at, answers, outcome, evidence>>

\* handleUpstreamError: the client's context is looked at first.
Bug_handleUpstreamError(r) ==
    IF cause[r] = "timeout" THEN "deadline" ELSE "transport"
handleUpstreamError(r) ==
    IF gone[r] THEN "canceled"
    ELSE IF cause[r] = "timeout" THEN "deadline" ELSE "transport"

\* classifyStreamResult: likewise, then read errors before write errors.
classifyStreamResult(r) ==
    IF gone[r] THEN "canceled"
    ELSE IF cause[r] \in {"fault", "timeout"} THEN "stream"
    ELSE IF cause[r] = "write" THEN "downstream" ELSE "completed"

\* The headers of an error reply are written unless the client is gone.
Replies(r) == ~gone[r]

ClassifyError(r) ==
    /\ pc[r] = "failed" /\ Goto(r, "settle")
    /\ outcome' = [outcome EXCEPT ![r] = handleUpstreamError(r)]
    /\ at' = [at EXCEPT ![r] = time]
    /\ IF Replies(r) THEN Answer(r) ELSE UNCHANGED answers
    /\ UNCHANGED <<time, permits, circuit, inflight, gone, lease, stream, cause, evidence>>

ClassifyStream(r) ==
    /\ pc[r] = "copied" /\ Goto(r, "settle")
    /\ outcome' = [outcome EXCEPT ![r] = classifyStreamResult(r)]
    /\ at' = [at EXCEPT ![r] = time]
    /\ stream' = [stream EXCEPT ![r] = Idle]
    /\ UNCHANGED <<time, permits, circuit, inflight, gone, lease, answers, cause, evidence>>

\* complete: the Service has no circuit; cancellations and downstream
\* failures say nothing about the backend.
Counts(r) == lease[r] # Service /\ outcome[r] \in Transport

\* Lease.Complete, first half: circuits.Record, whose clock is read before
\* its lock.
Complete(r) ==
    /\ pc[r] = "settle" /\ Goto(r, "release")
    /\ IF Counts(r)
       THEN \E now \in at[r]..time :
               circuit' = [circuit EXCEPT ![lease[r]] =
                              Record(@, outcome[r] \in Failures, now)]
       ELSE UNCHANGED circuit
    /\ recorded' = [b \in Backends |->
                      recorded[b] + (IF b = lease[r] /\ outcome[r] \in Transport THEN 1 ELSE 0)]
    /\ faults' = [b \in Backends |->
                      faults[b] + (IF b = lease[r] /\ outcome[r] \in Failures THEN 1 ELSE 0)]
    /\ cause' = [cause EXCEPT ![r] = None]
    /\ UNCHANGED <<time, permits, inflight, gone, lease, at, stream, answers, outcome>>

\* The counter a released lease gives back.
Bug_Released(r) == IF outcome[r] = "canceled" THEN 0 ELSE 1
Released(r) == 1

\* Second half: circuits.IsOpen, releaseBackend and the deferred
\* permit.Release of proxy.
Release(r) ==
    /\ pc[r] = "release" /\ Return(r)
    /\ \E now \in at[r]..time :
          circuit' = [b \in Backends |-> IF b = lease[r] THEN Checked(circuit[b], now)
                                         ELSE circuit[b]]
    /\ inflight' = [inflight EXCEPT ![lease[r]] = @ - Released(r)]
    /\ at' = [at EXCEPT ![r] = 0]
    /\ lease' = [lease EXCEPT ![r] = None] /\ outcome' = [outcome EXCEPT ![r] = None]
    /\ UNCHANGED <<time, gone, stream, answers, cause, evidence>>

\* The client disconnects while its request is being handled; once the outcome
\* is known nobody looks.
ClientLeaves(r) ==
    /\ pc[r] \notin {"arrive", "settle", "release", "done"} /\ ~gone[r]
    /\ gone' = [gone EXCEPT ![r] = TRUE]
    /\ UNCHANGED <<time, permits, circuit, inflight, pc, lease, at, stream, answers, cause, outcome, evidence>>

Tick ==
    /\ time < MaxTime /\ time' = time + 1
    /\ UNCHANGED <<permits, circuit, inflight, pc, gone, lease, at, stream, answers, cause, outcome, evidence>>

Whys == {"fault", "timeout", "client"}

\* Steps the handler takes by itself once it is scheduled.
Handler(r) ==
    \/ TryAcquire(r) \/ RejectAdmission(r) \/ ReadBody(r) \/ RejectRequestBody(r)
    \/ SelectFails(r) \/ Select(r)
    \/ ClassifyError(r) \/ ClassifyStream(r) \/ Complete(r) \/ Release(r)

\* Steps that wait for the upstream or for the client.
Exchange(r) ==
    \/ UpstreamHeaders(r) \/ InvalidUpstream(r)
    \/ \E why \in Whys : UpstreamError(r, why)
    \/ \E n \in 0..Len(stream[r].body), why \in Whys \cup {None, "eof", "write"} :
          CopyChunk(r, n, why)

\* The context of newUpstreamRequest expires.
Timeout(r) == UpstreamError(r, "timeout") \/ CopyChunk(r, 0, "timeout")

Next ==
    \/ \E r \in Requests : Handler(r) \/ Exchange(r) \/ ClientLeaves(r)
    \/ Tick

Spec == Init /\ [][Next]_vars

\* Go schedules the handlers, and every upstream request carries a timeout.
\* Nothing is assumed of upstreams.  Of a client: it goes on sending its request
\* body and reading its stream, or leaves (the server sets only a header timeout,
\* so reading the body and writing a chunk are steps of the handler itself).
FairSpec ==
    /\ Spec
    /\ WF_vars(\E r \in Requests : Handler(r))
    /\ WF_vars(\E r \in Requests : Timeout(r))

-----------------------------------------------------------------------------
Places == {"arrive", "body", "select", "upstream", "failed", "stream", "copied",
           "settle", "release", "done"}
Outcomes == Transport \cup {None, "canceled", "downstream", "invalid"}
Causes == Whys \cup {None, "eof", "write"}

\* Every variable of the handlers and of the breaker stays in its range; the
\* admission counter stays between zero and the capacity.
TypeOK ==
    /\ time \in 0..MaxTime
    /\ permits \in 0..Limit
    /\ \A b \in Backends :
          circuit[b] \in [num : Nat, den : Nat \ {0}, samples : 0..Cardinality(Requests),
                          openUntil : 0..MaxTime + OpenDuration]
    /\ inflight \in [Backends \cup {Service} -> 0..Cardinality(Requests)]
    /\ pc \in [Requests -> Places]
    /\ gone \in [Requests -> BOOLEAN]
    /\ lease \in [Requests -> Backends \cup {Service, None}]
    /\ at \in [Requests -> 0..MaxTime]
    /\ \A r \in Requests : stream[r].pos \in 0..Len(stream[r].body)
    /\ answers \in [Requests -> 0..1]
    /\ cause \in [Requests -> Causes]
    /\ outcome \in [Requests -> Outcomes]
    /\ \A b \in Backends : faults[b] <= recorded[b]

Inside(r) == pc[r] \notin {"arrive", "done"}
Leased(b) == {r \in Requests : lease[r] = b}

\* However a request ends - rejected, unreadable, unroutable, canceled, failed
\* or served - proxy has given back its permit and settled its lease: the
\* admission counter counts the handlers that run, and every in-flight counter
\* the leases not yet completed.  A client that waits gets exactly one response,
\* and an error after the upstream's headers (a stream that breaks, a timeout)
\* never starts a second one.
NothingLeaks ==
    /\ TypeOK
    /\ permits = Cardinality({r \in Requests : Inside(r)})
    /\ \A b \in Backends \cup {Service} : inflight[b] = Cardinality(Leased(b))
    /\ \A r \in Requests : pc[r] = "stream" \/ (pc[r] = "done" /\ ~gone[r]) => answers[r] = 1

\* handleUpstreamError and classifyStreamResult blame the backend exactly when
\* the exchange ended by its fault or by the timeout and the client had not left
\* first: a cancellation never looks like a backend failure, whatever error the
\* transport reports, and a failure is never lost on a client that stayed.
BlameIsFair ==
    \A r \in Requests : pc[r] = "settle" =>
        /\ outcome[r] \in Failures => cause[r] \in {"fault", "timeout"}
        /\ cause[r] \in {"fault", "timeout"} /\ ~gone[r] => outcome[r] \in Failures

\* An open interval of the breaker rests on MinimumRequests completed transport
\* results with a failure among them, on more than one failure when the threshold
\* lies above the EWMA weight of one sample, and it ends at most OpenDuration from
\* now: neither late completions nor clocks read before the lock stretch it.
OpenHasEvidence ==
    \A b \in Backends : circuit[b].openUntil # Zero =>
        /\ recorded[b] >= MinimumRequests
        /\ circuit[b].openUntil <= time + OpenDuration
        /\ faults[b] > 0
        /\ MinimumRequests > 1 /\ AlphaNum * ThresholdDen < ThresholdNum * AlphaDen
             => faults[b] > 1

\* Does a complete line of these tokens carry a data event other than [DONE]?
HasEvent(tokens) ==
    \E i \in 0..Len(tokens), j \in 1..Len(tokens) :
        /\ i < j /\ tokens[j] = Newline
        /\ i = 0 \/ tokens[i] = Newline
        /\ \A k \in i + 1..j - 1 : tokens[k] # Newline
        /\ IsFirstEvent(SubSeq(tokens, i + 1, j - 1))

\* The time to first token is observed once, as soon as the bytes read so far
\* hold a finished data line that is not [DONE], however the transport cut the
\* stream into reads (sseDetector.Feed keeps the unfinished line between them).
TTFTIsExact ==
    \A r \in Requests : pc[r] \in {"stream", "copied"} =>
        stream[r].ttft = IF HasEvent(SubSeq(stream[r].body, 1, stream[r].pos)) THEN 1 ELSE 0

\* Every request returns, and with it its permit and its lease, even when the
\* upstream never answers: the timeout of newUpstreamRequest ends the wait.
EveryRequestReturns == <>(\A r \in Requests : pc[r] = "done")
=============================================================================
