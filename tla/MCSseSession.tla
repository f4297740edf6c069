---------------------------- MODULE MCSseSession ----------------------------
(* Small instances of SseSession for TLC. *)
EXTENDS SseSessionProps

CONSTANTS total, errors, s1, s2, text

MCWord == Stage \cup {"p", "web", ""}

\* A selector with a text in it might select the logs of any project.
MCTextSelects(selector, value) == TRUE

\* Projects of one and two words; no application, one, one with a name of two
\* words, and a text that is no name.
MCInput ==
    [project : {<<"p">>, <<"p", "web">>}, app : {<<>>, <<"web">>, <<"web", "p">>, text},
     stage : {NoStage, "beta"}, since : {NoSince, 30, 50000}, filters : {{"level"}}]

MCValue ==
    UNION {[1..n -> MCWord] : n \in 1..3} \cup {<<"p">> \o v : v \in [1..3 -> MCWord]}
=============================================================================
