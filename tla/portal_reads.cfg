SPECIFICATION Spec
CONSTANTS
    View <- PortalView
    Page <- PortalPage
    Links <- PortalLinks
    Handoffs <- PortalHandoffs
    Home <- PortalHome
    Hidden <- PortalHidden
    Opened <- PortalOpened
    MaxMoves <- PortalMoves
INVARIANTS SessionFresh PagesSettle
PROPERTY LatestWins
CHECK_DEADLOCK FALSE
