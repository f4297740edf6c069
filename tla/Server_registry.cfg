\* Two tools, one of them a task tool, and a template with a completer, while
\* clients come and go.
CONSTANTS
    n1 = n1  n2 = n2  n3 = n3  NoName = NoName
    export = export  report = report  logs = logs
    Handle = {export, report, logs}
    Name = {n1, n2, n3}
    NamesOf <- MCNamesOf
    KindOf <- MCKindOf
    TaskSupport <- MCTaskSupport
    Completes = {logs}
    Debounced = {"tools"}
    Escape <- MCEscape
    Sample <- MCSample
SYMMETRY Symmetry
SPECIFICATION Spec
INVARIANTS ClientCanCatchUp OwnedIsAdvertised AnswerFits
CHECK_DEADLOCK FALSE
