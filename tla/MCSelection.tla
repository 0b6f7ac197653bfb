---------------------------- MODULE MCSelection ----------------------------
(* Values for Selection: costs that reach Top, a fractional, a negative, a *)
(* missing, an overflowing and an overloaded observation, a profile.       *)
EXTENDS Selection, TLC

Sample(h) == [valid |-> TRUE, half |-> h]
Obs(q, r, hot) == [seen |-> TRUE, queue |-> q, running |-> r, runtime |-> hot]

MCModes == {<<"kv-aware", "v1">>, <<"kv-aware", "static">>, <<"load-aware", "">>,
            <<"load-balanced", "">>, <<"round-robin", "">>, <<"session-key", "">>}
MCObsCases == {[Obs(Unknown, Unknown, Unknown) EXCEPT !.seen = FALSE],
               Obs(Sample(0), Sample(2), Unknown), Obs(Sample(3), Sample(0), Unknown),
               Obs(Sample(8), Sample(2), Unknown), Obs(Sample(-2), Sample(0), Unknown),
               Obs(Sample(1), Sample(31), Sample(9))}
MCScore == "k1" :> <<2, 1>> @@ "k2" :> <<1, 2>>
MCProfile == [prompts |-> <<2, 4, 8>>, ratios |-> <<0, 10000>>,
              prefill |-> <<<<3, 1>>, <<6, 1>>, <<9, 2>>>>,
              margin |-> 0, queueWait |-> 4, runningDelay |-> 2, deltaDelay |-> 1, localDelay |-> 3,
              bounds |-> [queue |-> 3, running |-> 3, delta |-> 9, inflight |-> 5], calibrated |-> TRUE]
\* float64 holds these two ties exactly.
MCTiesUp == {<<6, 9, 4, 8, 6>>, <<1, 2, 4, 8, 6>>}
=============================================================================
