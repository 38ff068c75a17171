SPECIFICATION Spec
CONSTANTS
    Periods <- MCPeriods
    RembTimeout = 500
    Wrap = 1000
    MaxReports = 1
    Ratios = {1, 2}
    Bandwidths = {1, 3}
    DefaultBw = 4
    Nacks = {n1}
    Garbage = {0, 100000}
    Step = 500
    MaxTime = 1000
    MaxSr = 2
    MaxFeedback = 2
INVARIANTS ReportsAreFaithful RttIsReal
PROPERTIES FeedbackIsSent
