------------------------------- MODULE Bench -------------------------------
(***************************************************************************)
(* internal/workload/client: RunPlan.  The runner goes through the         *)
(* scenarios of a plan; each batch (or conversation turn) is a producer    *)
(* and a pool of workers that Send requests to the gateway, while a        *)
(* sampler polls the gateway's counters for the batch's metrics window.    *)
(* Nobody else sends requests to that gateway.                             *)
(*                                                                         *)
(* Prompts, texts, times and sha256 digests are left out: a salt is the    *)
(* tuple that is hashed.  Of the gateway's metrics the admitted counter is *)
(* kept: rejections are counted like it, completions some time after the   *)
(* client has moved on, and memory and in-flight averages decide nothing.  *)
(***************************************************************************)
EXTENDS Integers, Sequences, FiniteSets, SequencesExt

CONSTANTS
  Plans,          \* BenchmarkPlans the run may be given, invalid ones included;
                  \* sampling: with a GatewayMetricsReader
  Workers,        \* worker goroutines: 1..N
  Backends,       \* values of the backend header of a warmup; "" is none
  Streams,        \* SSE bodies, as sequences of kinds of lines
  Evidence,       \* what the prompt-token header may show for a targeted scenario
  MaxFaults       \* bound: failed writes, failed samples, gateway restarts and
                  \* requests that time out on their way to the gateway

VARIABLES
  plan, order,                 \* the plan; per scenario: benchmarkRequestOrder
  pc, pos, batch, warm,        \* runPlan: control point and loop indices
  pinned, cancelled, err,      \* warmupBackends, ctx, the error finish is given
  records, written, attempts,  \* JSONL lines; how many of them the output got, known
                               \* once the writer fails or is flushed; attempts of the report
  sent, open, taken, work, results,  \* a batch: producer, jobs channel, workers, results
  sampler, windows,            \* gatewayMetricsRun or nil; metricsWindows, each with its batch
  report,                      \* the returned BenchmarkReport, Nil until then
  gateway, served,             \* the gateway's counter; what it admitted while the client waited
  late, faults                 \* requests the client gave up on that may still arrive; faults so far

runner == <<plan, order, pc, pos, batch, warm, pinned, err>>
pool   == <<sent, open, taken, work, results>>
output == <<records, written, attempts, report>>
remote == <<gateway, served, late>>
vars   == <<runner, cancelled, output, pool, sampler, windows, remote, faults>>

Nil == [at |-> "nil"]
Fault == faults < MaxFaults /\ faults' = faults + 1

-----------------------------------------------------------------------------
(* The plan.                                                               *)

\* BenchmarkScenario.validate.
ValidScenario(s, p) ==
  /\ s.groups > 0 /\ s.batches > 0 /\ s.size > 0 /\ s.workers > 0
  /\ s.pattern \in {"same", "different", "mixed"}
  /\ s.workers > 4 => p.highConcurrency
  /\ s.pattern = "mixed" => s.hot >= 0 /\ s.unique >= 0 /\ s.hot + s.unique <= 100
  /\ s.ladder => s.pattern = "same" /\ s.groups = s.size
  /\ s.warmups \in 0..64
  /\ p.mode = "cold" => s.warmups = 0
  /\ p.mode = "controlled-warm" => s.warmups > 0
  /\ s.target >= 0 /\ IF s.target = 0 THEN s.tolerance = 0 ELSE s.tolerance \in 1..(s.target - 1)

\* Every scenario exactly once.
ValidOrder(p) ==
  /\ Len(p.order) = Len(p.scenarios) /\ \A i \in DOMAIN p.order : p.order[i] \in DOMAIN p.scenarios
  /\ \A i, j \in DOMAIN p.order : p.order[i] = p.order[j] => i = j

\* BenchmarkPlan.Validate; scenarios are named by their position.
ValidPlan(p) ==
  /\ p.scenarios # <<>> /\ ValidOrder(p)
  /\ p.mode \in {"", "cold", "controlled-warm", "steady-warm"}
  /\ p.mode # "" => p.seed # 0 /\ p.isolated
  /\ p.formal => ~p.skipEvidence /\ p.mode # "" /\ p.provenance
  /\ \A i \in DOMAIN p.scenarios : ValidScenario(p.scenarios[i], p)

\* PrepareBenchmarkPlan: scenarios in plan order, shuffled under a seed.
Prepared(p) ==
  IF p.order # <<>> THEN {p}
  ELSE {[p EXCEPT !.order = o] : o \in
         IF p.seed = 0 THEN {[i \in DOMAIN p.scenarios |-> i]} ELSE SetToSeqs(DOMAIN p.scenarios)}

Total(s) == s.batches * s.size
Planned(p) == [i \in DOMAIN p.scenarios |-> Total(p.scenarios[i])]

\* benchmarkRequestOrder: the input of each send position (a ladder asks for none).
RequestOrders(p, s) ==
  LET n == Total(s)
  IN  IF ~p.randomize \/ p.seed = 0 \/ n < 2 \/ s.ladder THEN {[i \in 0..(n - 1) |-> i]}
      ELSE {f \in [0..(n - 1) -> 0..(n - 1)] : \A i, j \in 0..(n - 1) : f[i] = f[j] => i = j}

\* benchmarkPrefixGroupForScenario.
PrefixGroup(s, input) ==
  LET hot      == IF s.hot = 0 /\ s.unique = 0 THEN 60 ELSE s.hot
      unique   == IF s.hot = 0 /\ s.unique = 0 THEN 20 ELSE s.unique
      position == input % Total(s)
  IN  CASE s.pattern = "different" -> <<"unique", input>>
        [] s.pattern = "same" -> <<"shared", input % s.groups>>
        [] s.pattern = "mixed" /\ position * 100 < hot * Total(s) -> <<"shared", 0>>
        [] s.pattern = "mixed" /\ position * 100 >= hot * Total(s)
             /\ position * 100 < (hot + unique) * Total(s) -> <<"unique", input>>
        [] OTHER -> IF s.groups <= 1 THEN <<"shared", 0>>
                    ELSE <<"shared", 1 + (input % (s.groups - 1))>>

Bug_CacheSalt(p, i, b, input, group) ==
  CASE p.mode = "cold" -> <<"request", i, input>>
    [] p.mode \in {"controlled-warm", "steady-warm"} -> <<"prefix-group", i, group>>
    [] OTHER -> <<>>
\* benchmarkCacheSalt.
CacheSalt(p, i, b, input, group) ==
  CASE p.mode = "cold" -> <<"request", i, b, input>>
    [] p.mode \in {"controlled-warm", "steady-warm"} -> <<"prefix-group", i, group>>
    [] OTHER -> <<>>

-----------------------------------------------------------------------------
(* One request.                                                            *)

\* consumeStream: an event and then [DONE], every event before it decodable.
Consumed(lines) ==
  LET data == SelectSeq(lines, LAMBDA l : l # "other")
      done == {k \in DOMAIN data : data[k] = "done"}
      end  == CHOOSE k \in done : \A j \in done : k <= j
  IN  done # {} /\ end > 1 /\ \A k \in 1..(end - 1) : data[k] # "bad"

HasText(lines) == \E k \in DOMAIN lines : lines[k] = "text"

scen == plan.order[pos]
Scenario == plan.scenarios[scen]

\* The BenchmarkAttempt of a request; lines is <<>> when Send had no body.
Attempt(kind, b, req, input, lines, evidence) ==
  LET group == PrefixGroup(Scenario, input)
  IN  [kind |-> kind, scen |-> scen, batch |-> b, req |-> req, input |-> input, group |-> group,
       salt |-> CacheSalt(plan, scen, b, input, group), ok |-> Consumed(lines),
       evidence |-> IF Scenario.target > 0 THEN evidence ELSE "none"]

\* One turn of a conversation: it needs assistant text and has no token target.
LadderAttempt(turn, user, lines) ==
  LET group == <<"user", user>>
  IN  [kind |-> "request", scen |-> scen, batch |-> turn, req |-> turn * Scenario.size + user,
       input |-> user, group |-> group, salt |-> CacheSalt(plan, scen, turn, user, group),
       ok |-> Consumed(lines) /\ HasText(lines), evidence |-> "none"]

\* benchmarkTokenEvidenceError.
EvidenceFails == \E k \in DOMAIN attempts : attempts[k].evidence \in {"missing", "outside"}

-----------------------------------------------------------------------------
(* The gateway and the sampler (bench_metrics.go).                         *)

\* The gateway admits a request of kind, batch b and number req, or it is
\* turned away or never arrives.
Served(kind, b, req, verdict) ==
  IF verdict = "admitted"
  THEN gateway' = gateway + 1 /\ served' = served \union {<<kind, scen, b, req>>}
  ELSE UNCHANGED <<gateway, served>>

\* The open window, if any, counts what was not admitted in it.
Disturbed == IF sampler = Nil THEN Nil ELSE [sampler EXCEPT !.disturbed = TRUE]

\* The gateway restarts: its counter starts again and open streams break.
Restart ==
  /\ plan.sampling /\ pc # "done" /\ gateway > 0 /\ Fault
  /\ gateway' = 0
  /\ work' = [w \in Workers |-> IF work[w].at = "sent" THEN [work[w] EXCEPT !.at = "lost"] ELSE work[w]]
  /\ sampler' = Disturbed
  /\ UNCHANGED <<runner, cancelled, output, sent, open, taken, results, windows, served, late>>

\* The gateway admits a request its client no longer waits for.
Arrive ==
  /\ pc # "done" /\ late > 0 /\ late' = late - 1
  /\ gateway' = gateway + 1 /\ sampler' = Disturbed
  /\ UNCHANGED <<runner, cancelled, output, pool, windows, served, faults>>

\* Reader.Snapshot fails under a cancelled context, or by itself.
SampleFails == \/ cancelled /\ UNCHANGED faults
               \/ ~cancelled /\ Fault
SampleOK == ~cancelled /\ UNCHANGED faults

\* poll: a tick whose sample fails; the samples in between change no delta.
PollFails ==
  /\ sampler.at = "polling" /\ ~cancelled /\ ~sampler.err /\ Fault
  /\ sampler' = [sampler EXCEPT !.err = TRUE]
  /\ UNCHANGED <<runner, cancelled, output, pool, windows, remote>>

Bug_PollReturns ==
  /\ sampler.at \in {"polling", "cancelled"} /\ cancelled
  /\ sampler' = [sampler EXCEPT !.at = "done"]
  /\ UNCHANGED <<runner, cancelled, output, pool, windows, remote, faults>>
\* poll returns once its context, a child of ctx, is cancelled.
PollReturns ==
  /\ sampler.at \in {"polling", "cancelled"} /\ (sampler.at = "polling" => cancelled)
  /\ sampler' = [sampler EXCEPT !.at = "done"]
  /\ UNCHANGED <<runner, cancelled, output, pool, windows, remote, faults>>

\* gatewayMetricsWindow.
Window(first, last) ==
  IF last < first THEN [valid |-> FALSE] ELSE [valid |-> TRUE, admitted |-> last - first]

Bug_Combined(ws) ==
  [valid |-> TRUE, admitted |-> FoldSeq(LAMBDA w, n : IF w.valid THEN n + w.admitted ELSE n, 0, ws)]
\* combineGatewayMetricsWindows.
Combined(ws) ==
  IF ws = <<>> \/ \E k \in DOMAIN ws : ~ws[k].valid THEN [valid |-> FALSE]
  ELSE [valid |-> TRUE, admitted |-> FoldSeq(LAMBDA w, n : n + w.admitted, 0, ws)]

-----------------------------------------------------------------------------
(* The pool of one batch (runBenchmarkBatch, runConversationLadderBatch).  *)

NWorkers == IF Scenario.workers > Scenario.size THEN Scenario.size ELSE Scenario.workers

StartBatch ==
  /\ sent' = 0 /\ taken' = 0 /\ open' = TRUE /\ results' = {}
  /\ work' = [w \in Workers |-> [at |-> IF w <= NWorkers THEN "idle" ELSE "exited"]]

\* The producer: a paced request but the first waits for its timer, and a
\* cancelled context ends the wait (or not, when both are ready).
Produce ==
  /\ pc = "batch" /\ open /\ sent < Scenario.size
  /\ sent' = sent + 1
  /\ open' = (sent' < Scenario.size)
  /\ UNCHANGED <<runner, cancelled, output, taken, work, results, sampler, windows, remote, faults>>

StopProducing ==
  /\ pc = "batch" /\ open /\ cancelled /\ Scenario.paced /\ ~Scenario.ladder /\ sent \in 1..(Scenario.size - 1)
  /\ open' = FALSE
  /\ UNCHANGED <<runner, cancelled, output, sent, taken, work, results, sampler, windows, remote, faults>>

\* A worker takes the next job, or leaves when the channel is closed and empty.
Take(w) ==
  /\ pc = "batch" /\ work[w].at = "idle"
  /\ \/ taken < sent /\ taken' = taken + 1
        /\ work' = [work EXCEPT ![w] = [at |-> "taken", n |-> taken]]
     \/ taken = sent /\ ~open /\ taken' = taken
        /\ work' = [work EXCEPT ![w] = [at |-> "exited"]]
  /\ UNCHANGED <<runner, cancelled, output, sent, open, results, sampler, windows, remote, faults>>

RequestNumber(n) == batch * Scenario.size + n

\* The worker puts the attempt on the results channel.
Answered(w, lines, evidence) ==
  LET n == work[w].n
  IN  /\ results' = results \union
           {IF Scenario.ladder THEN LadderAttempt(batch, n, lines)
            ELSE Attempt("request", batch, RequestNumber(n), order[scen][RequestNumber(n)], lines, evidence)}
      /\ work' = [work EXCEPT ![w] = [at |-> "idle"]]

\* Send: the gateway admits the request, or turns it away or is not reached.
Send(w) ==
  /\ work[w].at = "taken"
  /\ \E verdict \in {"admitted", "refused"} :
       /\ cancelled => verdict = "refused"
       /\ Served("request", batch, RequestNumber(work[w].n), verdict)
       /\ IF verdict = "admitted"
          THEN work' = [work EXCEPT ![w].at = "sent"] /\ UNCHANGED results
          ELSE Answered(w, <<>>, "missing")
  /\ UNCHANGED <<runner, cancelled, output, sent, open, taken, sampler, windows, late, faults>>

\* The client's timeout ends a Send that the gateway has not admitted yet.
TimeOut(w) ==
  /\ work[w].at = "taken" /\ Fault
  /\ late' = late + 1 /\ Answered(w, <<>>, "missing")
  /\ UNCHANGED <<runner, cancelled, output, sent, open, taken, sampler, windows, gateway, served>>

\* The stream ends: read by consumeStream, or broken by the restart.
Receive(w) ==
  /\ work[w].at \in {"sent", "lost"}
  /\ \E lines \in IF work[w].at = "lost" THEN {<<>>} ELSE Streams, e \in Evidence :
       Answered(w, lines, e)
  /\ UNCHANGED <<runner, cancelled, output, sent, open, taken, sampler, windows, remote, faults>>

-----------------------------------------------------------------------------
(* The runner (runPlan, runConversationLadder).                            *)

Init ==
  /\ plan \in Plans /\ order = <<>> /\ pc = "prepare" /\ pos = 1 /\ batch = 0 /\ warm = 0
  /\ pinned = <<>> /\ cancelled = FALSE /\ err = "none"
  /\ records = <<>> /\ written = 0 /\ attempts = <<>> /\ report = Nil
  /\ sent = 0 /\ open = FALSE /\ taken = 0 /\ results = {}
  /\ work = [w \in Workers |-> [at |-> "exited"]]
  /\ sampler = Nil /\ windows = <<>>
  /\ gateway = 0 /\ served = {} /\ late = 0 /\ faults = 0

\* writeJSONL into a bufio.Writer, which passes lines on when its buffer is full:
\* when that fails, any number of them are out.
Write(lines) == records' = records \o lines /\ UNCHANGED <<written, faults>>
WriteFails(lines) == Fault /\ records' = records \o lines /\ written' \in 0..Len(records')

\* The caller cancels ctx.
Cancel ==
  /\ pc # "done" /\ ~cancelled /\ cancelled' = TRUE
  /\ UNCHANGED <<runner, output, pool, sampler, windows, remote, faults>>

\* A rejected plan, and metadata that cannot be written, end the run at once.
Prepare ==
  /\ pc = "prepare"
  /\ \E p \in Prepared(plan) :
       /\ plan' = p
       /\ \/ ~ValidPlan(p) /\ pc' = "done" /\ err' = "plan" /\ UNCHANGED <<order, faults>>
          \/ ValidPlan(p) /\ pc' = "done" /\ err' = "write" /\ Fault /\ UNCHANGED order
          \/ /\ ValidPlan(p) /\ pc' = "scenario" /\ UNCHANGED <<err, faults>>
             /\ \E f \in [DOMAIN p.scenarios -> UNION {RequestOrders(p, p.scenarios[i]) : i \in DOMAIN p.scenarios}] :
                  /\ \A i \in DOMAIN p.scenarios : f[i] \in RequestOrders(p, p.scenarios[i])
                  /\ order' = f
  /\ UNCHANGED <<pos, batch, warm, pinned, cancelled, output, pool, sampler, windows, remote>>

EnterScenario ==
  /\ pc = "scenario"
  /\ IF pos > Len(plan.order)
     THEN /\ pc' = "finish" /\ UNCHANGED <<batch, warm, pinned>>
          /\ err' = IF ~plan.skipEvidence /\ EvidenceFails THEN "evidence" ELSE "none"
     ELSE /\ pc' = IF Scenario.ladder \/ Scenario.warmups = 0 THEN "begin" ELSE "warm"
          /\ batch' = 0 /\ warm' = 0 /\ pinned' = <<>> /\ err' = err
  /\ UNCHANGED <<plan, order, pos, cancelled, output, pool, sampler, windows, remote, faults>>

\* What the warmup loop makes of an attempt that came from backend b.
WarmupError(a, b) ==
  CASE ~a.ok -> "warmup"
    [] a.ok /\ plan.mode = "controlled-warm"
         /\ (b = "" \/ \E k \in DOMAIN pinned : pinned[k][1] = a.group /\ pinned[k][2] # b) -> "warmup"
    [] OTHER -> "none"

\* One warmup request, sent and awaited by the runner itself.
Warmup ==
  /\ pc = "warm"
  /\ \E verdict \in IF cancelled THEN {"refused"} ELSE {"admitted", "refused"} :
     \E lines \in IF verdict = "admitted" THEN Streams ELSE {<<>>}, b \in Backends :
       LET a == Attempt("warmup", -1, warm, warm, lines, "none")
           e == WarmupError(a, b)
       IN  /\ Served("warmup", -1, warm, verdict)
           /\ \/ WriteFails(<<>>) /\ pc' = "finish" /\ err' = "write" /\ UNCHANGED <<warm, pinned>>
              \/ /\ Write(<<a>>) /\ err' = e
                 /\ warm' = IF e = "none" THEN warm + 1 ELSE warm
                 /\ pinned' = IF e = "none" /\ plan.mode = "controlled-warm"
                              THEN Append(pinned, <<a.group, b>>) ELSE pinned
                 /\ pc' = IF e # "none" THEN "finish"
                          ELSE IF warm + 1 < Scenario.warmups THEN "warm" ELSE "begin"
  /\ UNCHANGED <<plan, order, pos, batch, cancelled, attempts, report, pool, sampler, windows, late>>

\* A batch begins: the first sample of its metrics window is asked for ...
BeginBatch ==
  /\ pc = "begin"
  /\ IF plan.sampling
     THEN /\ pc' = "sample" /\ UNCHANGED pool
          /\ sampler' = [at |-> "first", first |-> 0, err |-> FALSE, disturbed |-> FALSE]
     ELSE pc' = "batch" /\ sampler' = Nil /\ StartBatch
  /\ UNCHANGED <<plan, order, pos, batch, warm, pinned, err, cancelled, output, windows, remote, faults>>

\* ... and beginGatewayMetricsRun returns when it is there or has failed; then
\* the pool starts.
FirstSample ==
  /\ pc = "sample" /\ pc' = "batch" /\ StartBatch
  /\ \/ SampleOK /\ sampler' = [sampler EXCEPT !.at = "polling", !.first = gateway]
     \/ SampleFails /\ sampler' = [sampler EXCEPT !.at = "done", !.err = TRUE]
  /\ UNCHANGED <<plan, order, pos, batch, warm, pinned, err, cancelled, output, windows, remote>>

\* All workers are gone: attempts are written in order of their number.  A
\* ladder ends at its first failed attempt; a write may fail at any of them.
Collect ==
  /\ pc = "batch" /\ \A w \in Workers : work[w].at = "exited"
  /\ LET all    == SetToSortSeq(results, LAMBDA a, b : a.req < b.req)
         failed == {k \in DOMAIN all : Scenario.ladder /\ ~all[k].ok}
         last   == IF failed = {} THEN Len(all) ELSE CHOOSE k \in failed : \A j \in failed : k <= j
     IN  \/ /\ Write(SubSeq(all, 1, last)) /\ attempts' = attempts \o SubSeq(all, 1, last)
            /\ err' = IF failed = {} THEN err ELSE "attempt"
         \/ \E k \in 0..(last - 1) :
              WriteFails(SubSeq(all, 1, k)) /\ attempts' = attempts \o SubSeq(all, 1, k) /\ err' = "write"
  /\ pc' = "stop" /\ results' = {}
  /\ UNCHANGED <<plan, order, pos, batch, warm, pinned, cancelled, report, sent, open, taken, work,
                 sampler, windows, remote>>

\* stopMetrics: cancel the sampler, ...
CancelSampler ==
  /\ pc = "stop" /\ sampler.at = "polling"
  /\ sampler' = [sampler EXCEPT !.at = "cancelled"]
  /\ UNCHANGED <<runner, cancelled, output, pool, windows, remote, faults>>

\* ... wait for it and for the last sample, and file the window under its batch.
EndBatch ==
  /\ pc = "stop" /\ sampler.at \in {"nil", "done"}
  /\ \/ sampler = Nil /\ UNCHANGED <<windows, faults>>
     \/ /\ sampler # Nil
        /\ \E ok \in BOOLEAN :
             /\ IF ok THEN SampleOK ELSE SampleFails
             /\ LET w == IF ok /\ ~sampler.err THEN Window(sampler.first, gateway) ELSE [valid |-> FALSE]
                IN  windows' = Append(windows, [w |-> w, scen |-> scen, batch |-> batch, disturbed |-> sampler.disturbed])
  /\ sampler' = Nil
  /\ CASE err # "none" -> pc' = "finish" /\ UNCHANGED <<pos, batch>>
       [] err = "none" /\ batch + 1 < Scenario.batches -> pc' = "pause" /\ UNCHANGED <<pos, batch>>
       [] OTHER -> pc' = "scenario" /\ pos' = pos + 1 /\ UNCHANGED batch
  /\ UNCHANGED <<plan, order, warm, pinned, err, cancelled, output, pool, remote>>

\* waitBetweenBatches.
Pause ==
  /\ pc = "pause"
  /\ \/ cancelled /\ pc' = "finish" /\ err' = "cancelled" /\ UNCHANGED batch
     \/ pc' = "begin" /\ batch' = batch + 1 /\ UNCHANGED err
  /\ UNCHANGED <<plan, order, pos, warm, pinned, cancelled, output, pool, sampler, windows, remote, faults>>

\* summarizeAttempts, without the percentiles and histograms.
Summary(as) ==
  [completed |-> Len(as), succeeded |-> Len(SelectSeq(as, LAMBDA a : a.ok)),
   missing    |-> Len(SelectSeq(as, LAMBDA a : a.evidence = "missing")),
   violations |-> Len(SelectSeq(as, LAMBDA a : a.evidence = "outside"))]

AttemptsOf(i) == SelectSeq(attempts, LAMBDA a : a.scen = i)

\* applyGatewayMetricsToReport: a scenario's windows, combined.
ScenarioMetrics(i) ==
  LET es == SelectSeq(windows, LAMBDA e : e.scen = i)
  IN  Combined([k \in DOMAIN es |-> es[k].w])

\* finalizeBenchmarkReport.
Report ==
  [at |-> "made", requested |-> FoldSeq(LAMBDA n, m : n + m, 0, Planned(plan)), total |-> Summary(attempts),
   scenarios |-> [i \in DOMAIN plan.scenarios |-> [summary |-> Summary(AttemptsOf(i)), metrics |-> ScenarioMetrics(i)]],
   metrics |-> Combined([k \in DOMAIN windows |-> windows[k].w])]

Bug_Finish ==
  /\ pc = "finish" /\ pc' = "done" /\ report' = Report
  /\ LET last == [kind |-> "report", total |-> Report.total]
     IN  \/ /\ err = "none" /\ records' = Append(records, last) /\ written' = Len(records')
            /\ UNCHANGED <<err, faults>>
         \/ /\ err \notin {"none", "write"} /\ records' = Append(records, last) /\ written' \in 0..Len(records')
            /\ UNCHANGED <<err, faults>>
         \/ err # "write" /\ \E n \in {<<>>, <<last>>} : WriteFails(n) /\ err' = "write"
         \/ err = "write" /\ UNCHANGED <<err, faults, records, written>>
  /\ UNCHANGED <<plan, order, pos, batch, warm, pinned, cancelled, attempts, pool, sampler, windows, remote>>
\* finish: the report is the last line, then Flush; either may fail, and a
\* writer that failed once fails again.
Finish ==
  /\ pc = "finish" /\ pc' = "done" /\ report' = Report
  /\ LET last == [kind |-> "report", total |-> Report.total]
     IN  \/ /\ err # "write" /\ records' = Append(records, last) /\ written' = Len(records')
            /\ UNCHANGED <<err, faults>>
         \/ err # "write" /\ \E n \in {<<>>, <<last>>} : WriteFails(n) /\ err' = "write"
         \/ err = "write" /\ UNCHANGED <<err, faults, records, written>>
  /\ UNCHANGED <<plan, order, pos, batch, warm, pinned, cancelled, attempts, pool, sampler, windows, remote>>

Ended == pc = "done" /\ UNCHANGED vars

\* Snapshot has no timeout of its own: the runner may wait for it for ever,
\* unless ctx is cancelled.
Unanswered == ~cancelled /\ (pc = "sample" \/ (pc = "stop" /\ sampler.at = "done"))

Progress ==
  \/ Prepare \/ EnterScenario \/ Warmup \/ BeginBatch \/ Produce
  \/ \E w \in Workers : Take(w) \/ Send(w) \/ Receive(w)
  \/ Collect \/ CancelSampler \/ PollReturns \/ Pause \/ Finish

Samples == FirstSample \/ EndBatch

Next == \/ Progress \/ Samples \/ \E w \in Workers : TimeOut(w)
        \/ Cancel \/ StopProducing \/ PollFails \/ Restart \/ Arrive \/ Ended

\* The runner and its goroutines keep running, timers fire and every Send
\* returns (its HTTP client has a timeout); no sample need ever be answered.
Spec == Init /\ [][Next]_vars /\ WF_vars(Progress \/ (~Unanswered /\ Samples))

-----------------------------------------------------------------------------
\* Types of the runner's control state.
TypeOK ==
  /\ pc \in {"prepare", "scenario", "warm", "begin", "sample", "batch", "stop", "pause", "finish", "done"}
  /\ taken \in 0..sent /\ open \in BOOLEAN /\ cancelled \in BOOLEAN
  /\ sampler.at \in {"nil", "first", "polling", "cancelled", "done"} /\ faults \in 0..MaxFaults
  /\ err \in {"none", "plan", "write", "warmup", "attempt", "evidence", "cancelled"}

\* What RunPlan reports is what its output holds and what the plan asked for.
\* Once it has returned, the request lines that reached the output begin the
\* list of attempts the report is made of; they are all of it, followed by the
\* report itself, when no write error is returned (writeJSONL buffers, so a
\* line counts as written long before an error shows; finishBenchmarkReport).
\* Without any error, each batch of each scenario has the attempts of its first
\* k requests, and k is the batch size unless ctx was cancelled while the
\* batch was paced; a whole scenario used every input once.
ReportIsComplete ==
  LET Lines == SubSeq(records, 1, written)
      Requests == SelectSeq(Lines, LAMBDA a : a.kind = "request")
      Sent(i, b) == {a.req - b * plan.scenarios[i].size : a \in {x \in Range(AttemptsOf(i)) : x.batch = b}}
  IN  /\ TypeOK
      /\ pc = "done" =>
           /\ IsPrefix(Requests, attempts)
           /\ err \notin {"plan", "write"} =>
                /\ Requests = attempts
                /\ Lines # <<>> /\ Last(Lines) = [kind |-> "report", total |-> Summary(attempts)]
      /\ pc = "done" /\ err = "none" =>
           \A i \in DOMAIN plan.scenarios :
             LET s == plan.scenarios[i]
             IN  /\ \A b \in 0..(s.batches - 1) : \E k \in 1..s.size :
                      Sent(i, b) = 0..(k - 1) /\ (k < s.size => cancelled /\ s.paced /\ ~s.ladder)
                 /\ Len(AttemptsOf(i)) = Total(s) /\ ~s.ladder =>
                      {a.input : a \in Range(AttemptsOf(i))} = 0..(Total(s) - 1)

\* A metrics window that is called valid counts exactly the requests of its
\* own batch that the gateway admitted: no warmup, none of another batch, none
\* missed because the last sample came early.  So do the sums in the report.
\* Windows in which the gateway restarted or admitted a request after its
\* client had timed out are set aside: such a window may be valid and wrong
\* (stopMetrics, combineGatewayMetricsWindows; the report says WarmupExcluded).
WindowIsExact ==
  /\ \A k \in DOMAIN windows :
       LET e == windows[k]
       IN  e.w.valid /\ ~e.disturbed =>
             e.w.admitted = Cardinality({r \in served : r[1] = "request" /\ r[2] = e.scen /\ r[3] = e.batch})
  /\ report # Nil /\ (\A k \in DOMAIN windows : ~windows[k].disturbed) =>
       /\ report.metrics.valid => report.metrics.admitted = Cardinality({r \in served : r[1] = "request"})
       /\ \A i \in DOMAIN report.scenarios : report.scenarios[i].metrics.valid =>
            report.scenarios[i].metrics.admitted = Cardinality({r \in served : r[1] = "request" /\ r[2] = i})

\* Which requests of an isolated run may find each other's KV blocks, stated
\* by the inputs of the plan: two requests with one salt are of one scenario
\* and never of a cold run, though a ladder sends each user again in each turn.
\* In the warm modes a salt is shared, by warmups and requests alike, between
\* equal inputs, between inputs that agree modulo the groups of a "same"
\* scenario (the turns of one user, not two users) and within the hot share of
\* a "mixed" one; no request of a "different" scenario, and none of the unique
\* share, has the salt of another input (benchmarkCacheSalt with
\* benchmarkPrefixGroupForScenario and benchmarkRequestOrder).
SaltsIsolate ==
  LET Hot(s, n)  == (n % Total(s)) * 100 < s.hot * Total(s)
      Rest(s, n) == (n % Total(s)) * 100 >= (s.hot + s.unique) * Total(s)
      Together(s, m, n) ==
        \/ m = n
        \/ s.pattern = "same" /\ (m - n) % s.groups = 0
        \/ s.pattern = "mixed" /\ Hot(s, m) /\ Hot(s, n)
      Apart(s, m, n) ==
        /\ m # n
        /\ \/ s.pattern = "different"
           \/ s.pattern = "same" /\ (m - n) % s.groups # 0
           \/ s.pattern = "mixed" /\ ~(Hot(s, m) /\ Hot(s, n)) /\ ~(Rest(s, m) /\ Rest(s, n))
                /\ s.groups > 1
  IN  plan.mode # "" =>
        \A j, k \in {n \in DOMAIN records : records[n].kind # "report"} : j < k =>
          LET a == records[j]
              b == records[k]
              s == plan.scenarios[a.scen]
          IN  /\ a.salt = b.salt => plan.mode # "cold" /\ a.scen = b.scen /\ ~Apart(s, a.input, b.input)
              /\ plan.mode # "cold" /\ a.scen = b.scen /\ Together(s, a.input, b.input) => a.salt = b.salt

\* RunPlan returns, also when ctx is cancelled, a sample or a write fails or
\* the gateway restarts, and leaves neither a worker nor a sampler behind; only
\* a /metrics request that is never answered, on a context nobody cancels,
\* keeps it waiting (beginGatewayMetricsRun and stop call Snapshot without a
\* timeout; poll, which has a context of its own, never keeps it).
RunEnds == []<>~Unanswered => <>[](pc = "done" /\ sampler = Nil /\ \A w \in Workers : work[w].at = "exited")
=============================================================================
