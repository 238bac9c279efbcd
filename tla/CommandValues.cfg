SPECIFICATION Spec
CONSTANTS
    Requests <- AllRequests
    Reports <- AllReports
INVARIANTS
    TypeOK
    DriveGetsLegalValues
    DriveGetsWhatWasAsked
    StaleErrnoMovesNothing
    ReportIsWhole
