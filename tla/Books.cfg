SPECIFICATION MCSpec
CONSTANTS
    Cycles = {"c1", "c2"}
    Evaluations <- MCEvaluations
    Lines <- MCLines
    Datasets <- MCDatasets
    Answers <- MCAnswers
    Malformed = Malformed
    Missing = Missing
    Ppm = 1000
    PpmPerBp = 1
    WinPpm = 500
    TipQuantum = 2
    MaxRecords = 2
    MaxLines = 2
    Dexes = {"Orca"}
    Sizes = {"Small"}
    Hours = {"Normal"}
    Outs <- MCOuts
    Ledgers <- MCLedgers
    MinSamples = 2
    Folds = 2
    ProbOne = 1000
    YoungSlots = 1
    MatureSlots = 2
    Tips = {0, 4}
    FirstSeens = {1}
    Torn = Torn
    Newline = Newline
    MaxCaptures = 2
    MaxFaults = 1
    MaxReports = 2
CHECK_DEADLOCK FALSE
INVARIANTS
    CleanMeansAgree
    MissingWasMissing
    CapturesSurvive
    ConclusionsEarned
