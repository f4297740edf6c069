----------------------------- MODULE LogQueries -----------------------------
(***************************************************************************)
(* What the tools ask Loki for: the LogQL of loki/query-builder.ts, as the *)
(* tools fill it in, and the builds that scope/resolver.ts and log-stats   *)
(* read from Loki's labels (src/mcp/src).                                  *)
(*                                                                         *)
(* A value of the label compose_project is the sequence of the words that  *)
(* '_' separates in it: <project..., application..., stage>.  The names of *)
(* projects and applications may have several words, and a word may be     *)
(* empty.  A query is its selector, the values that its regular expression *)
(* allows, and the filters after it, of whose text only the kind is kept.  *)
(* The tools take any string for an application, and a selector contains   *)
(* it as it is: what Loki makes of one that is no name is left open.       *)
(***************************************************************************)
EXTENDS Naturals, Sequences

CONSTANTS
    Word,       \* the words of label values: letters, digits and '-'
    NoWord,     \* the empty one
    Text,       \* applications given with other characters than those of names
    TextSelects(_, _),  \* the values that a selector with such a text in it selects
    NoStage,    \* no stage was given
    NoSince,    \* no period was given
    MaxPeriod   \* MAX_SINCE_MS, in minutes

Stage == {"alpha", "beta", "release"}

ASSUME LogQueriesAssumption ==
    /\ Stage \cup {NoWord} \subseteq Word
    /\ NoStage \notin Word
    /\ \A t \in Text : t \notin Seq(Word)
    /\ MaxPeriod \in Nat

Last(s) == s[Len(s)]

-----------------------------------------------------------------------------
(* The tools *)

Tool == {"query_logs", "tail_logs", "search_errors", "log_stats"}

\* An application that was given; "" is as good as none.
Given(app) == app \notin {<<>>, <<NoWord>>}

\* tail_logs looks at releases unless told otherwise, log_stats at all stages.
StageOf(tool, input) ==
    CASE tool = "tail_logs" /\ input.stage = NoStage -> "release"
      [] tool = "log_stats" -> NoStage
      [] OTHER -> input.stage

\* Minutes; parseSince takes a text that it does not understand for 60.
Period(tool, input) ==
    IF tool = "tail_logs" THEN 60
    ELSE IF input.since # NoSince THEN input.since
    ELSE IF tool = "query_logs" THEN 60 ELSE 24 * 60

\* parseSince throws.
TooLong(period) == period > MaxPeriod

\* calculateRangeInterval: max(1, Math.round(minutes / 60))
RangeInterval(period) ==
    LET rounded == (period + 30) \div 60
    IN  IF rounded = 0 THEN 1 ELSE rounded

\* Fault: the stage is left out when an application is given.
Selector_AnyStage(project, app, stage) ==
    [project |-> project,
     apps    |-> IF Given(app) THEN {app} ELSE {<<w>> : w \in Word \ {NoWord}},
     stages  |-> IF stage = NoStage \/ Given(app) THEN Stage ELSE {stage}]

\* buildSelector: an application that was given, or [a-zA-Z0-9-]+.
Selector(project, app, stage) ==
    [project |-> project,
     apps    |-> IF Given(app) THEN {app} ELSE {<<w>> : w \in Word \ {NoWord}},
     stages  |-> IF stage = NoStage THEN Stage ELSE {stage}]

\* The values that the selector's regular expression matches as a whole.
Selects(selector, value) ==
    \E app \in selector.apps, stage \in selector.stages :
        IF app \in Text THEN TextSelects(selector, value)
        ELSE value = selector.project \o app \o <<stage>>

\* buildLogQL, buildErrorLogQL; buildStatsLogQL and buildErrorRateLogQL count
\* lines over a range.
Filters(tool, input) ==
    CASE tool = "query_logs" -> {input.filters}
      [] tool = "tail_logs" -> {{}}
      [] tool = "search_errors" -> {{"errors"} \cup (input.filters \ {"level"})}
      [] tool = "log_stats" -> {{}, {"errors"}}

QueriesOf(tool, input) ==
    {[selector |-> Selector(input.project, input.app, StageOf(tool, input)),
      filters  |-> f,
      range    |-> IF tool = "log_stats" THEN RangeInterval(Period(tool, input)) ELSE 0] :
        f \in Filters(tool, input)}

-----------------------------------------------------------------------------
(* What is read from labels *)

\* resolveLokiBuilds: the builds of a project among the label's values.
Builds(project, values) ==
    LET n == Len(project)
    IN  {[app |-> SubSeq(v, n + 1, Len(v) - 1), stage |-> Last(v)] :
            v \in {v \in values : /\ Len(v) > n + 1
                                  /\ SubSeq(v, 1, n) = project
                                  /\ Last(v) \in Stage}}

\* The stage that log_stats counts a series under, after the last '_'.
CountedUnder(value) ==
    IF Len(value) > 1 /\ Last(value) \in Stage THEN Last(value) ELSE NoStage
=============================================================================
