-------------------------- MODULE SseSessionProps --------------------------
(***************************************************************************)
(* What a client of the legacy SSE transport may expect of its session and *)
(* of a tool call, stated over SseSession.                                 *)
(***************************************************************************)
EXTENDS SseSession, LokiClientProps

CONSTANT Value   \* values that the label compose_project may have

ASSUME ValueAssumption == Value \subseteq Seq(Word)

\* mcp/server.ts:194: a POST is accepted exactly while there is a response that
\* its answer can be written to; an accepted call loses its answer only when
\* the client has gone or has cancelled it.
AnswersHaveAStream ==
    /\ sseSessions = {s \in Session : sse[s] = "open"}
    /\ call.phase = "dropped" => call.aborted \/ sse[call.session] = "closed"

\* The builds that list_builds shows for what a tool was asked for.
Wanted(value) ==
    \E b \in Builds(call.input.project, {value}) :
        /\ Given(call.input.app) => b.app = call.input.app
        /\ StageOf(call.tool, call.input) \in {NoStage, b.stage}

\* The name of the application in v has '_' in it, or is empty.
ManyWords(project, v) == Len(v) > Len(project) + 2 \/ v[Len(project) + 1] = NoWord

\* query-builder.ts:79-91 and resolver.ts:162-178: for an application that is
\* named, or none, a query selects the logs of builds that list_builds shows, and
\* of all of them that were asked for, but for applications with '_' in their name
\* when none was given; log_stats counts each under a stage.  The tools take any
\* string for an application (query-logs.ts:35), which query-builder.ts:80 and :83
\* insert as it is: of what a text that is no name selects nothing is said.  Over
\* whatever it selects, log_stats counts in ranges no longer than the period.
QueryFindsItsBuilds ==
    call.phase = "scope" => \A q \in QueriesOf(call.tool, call.input) :
        /\ call.input.app \notin Text => \A v \in Value :
            /\ Selects(q.selector, v) => Wanted(v) /\ CountedUnder(v) # NoStage
            /\ Wanted(v) => Selects(q.selector, v)
                            \/ (~Given(call.input.app) /\ ManyWords(call.input.project, v))
        /\ q.range > 1 => q.range <= Period(call.tool, call.input)

\* Every call that is accepted is answered, dropped, or cut off by the end of
\* the process, whatever Loki does, provided it finishes the bodies it begins.
CallEnds == Accepted ~> ~Accepted \/ process = "exited"
=============================================================================
