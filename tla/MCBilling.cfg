CONSTANTS
    Lead = 7200
    Latest = 36000
    Step = 100
SPECIFICATION StaySpec
INVARIANT MatchesTariff
CHECK_DEADLOCK FALSE
