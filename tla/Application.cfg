SPECIFICATION AppSpec
CONSTANTS
    h1 = h1
    h2 = h2
    URLs = {u1, u2}
    NoRow = NoRow
    Handles = {h1, h2}
    Leads <- MCLeads
    Launches = 2
CHECK_DEADLOCK FALSE
INVARIANTS
    AppTypeOK
    RowHandlesAccepted
    MarkedRowsHaveReason
    MarkIsOfText
    LeadsMatchRows
    SuccessExportsAll
    FailureKeepsFile
PROPERTY RowsSurvive
