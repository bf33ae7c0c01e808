CONSTANTS
    v1 = v1
    v2 = v2
    Values = {v1, v2}
    None = None
    Rows <- activeRows
    MaxAsks = 2
    MaxConfirms = 3
    MaxClicks = 4
SYMMETRY symmetry
SPECIFICATION Spec
INVARIANTS
    QuoteIsOfItsInput
    RepeatsMakeOneJob
    AcceptedHasJob
PROPERTY ImplementsQuotedJobs
