SPECIFICATION FairSpec
CONSTANTS
    Rows = {a, b}
    Crons = {cron}
    Manuals = {manual}
    None = None
    Days <- MCDays
    BatchSize = 2
    MaxBatches = 2
    MaxMishaps = 1
INVARIANTS TypeOK BodiesSurvive
PROPERTIES KeysNeverMove BacklogDrains
CHECK_DEADLOCK FALSE
