SPECIFICATION FairRecSpec
CONSTANTS
    Links = {l1}
    Ticks = {s1}
    Periods = 1
    Totals = {0, 1}
    Ends = {0, 2}
    ListingWorks = FALSE
    MaxPays = 1
    MaxNow = 1
PROPERTY FirstPeriodIsEnqueued
CHECK_DEADLOCK FALSE
