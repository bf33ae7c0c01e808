CONSTANTS
    v1 = v1
    v2 = v2
    Rows <- PortalRows
    Values = {v1, v2}
    MaxClicks = 3
    MaxElsewhere = 1
SPECIFICATION Spec
INVARIANTS
    TypeOK
    RepeatsAreRecognized
    AnswersAreOwn
PROPERTIES
    AnswersAreTrue
