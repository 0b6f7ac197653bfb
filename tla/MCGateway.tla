----------------------------- MODULE MCGateway -----------------------------
(* Small instance of Gateway for TLC.                                        *)
EXTENDS Gateway

\* One request may get a stream worth cutting into reads, with two events or
\* with nothing but [DONE]; one may get an empty response; one meets an
\* upstream that never answers.
MCBodies ==
    [r \in Requests |->
        CASE r = "r1" -> {<<"data:", "json", "nl", "data:", "json", "nl">>, <<"data:", "done", "nl">>}
          [] r = "r2" -> {<<>>}
          [] OTHER -> {}]
=============================================================================
