\* A tool call over one of two SSE sessions and its queries, until every timer
\* has expired, with cancellation, broken connections and SIGTERM.
CONSTANTS
    total = total  errors = errors  s1 = s1  s2 = s2  text = text
    Query = {total, errors}
    RequestTimeout = 3
    RetryDelay = 2
    MaxTime = 10
    Session = {s1, s2}
    NoWord = ""
    NoStage = NoStage
    NoSince = NoSince
    MaxPeriod = 43200
    Text = {text}
    TextSelects <- MCTextSelects
    Word <- MCWord
    Input <- MCInput
    Value <- MCValue
SPECIFICATION FairSseSpec
INVARIANTS HeadersInTime CallReflectsQueries AnswersHaveAStream QueryFindsItsBuilds
PROPERTY CallEnds
CHECK_DEADLOCK FALSE
