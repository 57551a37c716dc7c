SPECIFICATION Spec
CONSTANTS
    Rows <- MCRows
    Inputs <- MCInputs
    Reports <- MCReports
    ReportIds <- MCReportIds
    MaxRuns = 2
    MaxLines = 4
CHECK_DEADLOCK FALSE
INVARIANTS
    OncePerPartition
    WrittenIsStored
    RunStoresAll
    SealedIsPrefix
    DailyBacked
