SPECIFICATION Spec
CONSTANTS
    Tasks = {t1, t2}
    Records = {r1}
    MaxEntries = 2
    MaxTime = 2
INVARIANT RecordMatchesTask
PROPERTIES ActiveNeverDropped ConversionEnds
CHECK_DEADLOCK FALSE
