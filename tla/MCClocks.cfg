\* The low half wraps at 8: reads and sleeps before, over and after the wrap.
CONSTANTS
    HALF = 8
    StartTicks = {0, 5}
    MaxTicks = 14
    Delays = {0, 1, 3}
    PERIOD = 21
    LEAD = 8
    UPDATE = 2
    HANDLER = 1
    Rollovers <- MCRollovers
    Modes <- MCModes
SPECIFICATION ClockSpec
INVARIANTS
    CounterTellsTime
    TimeOfOneSecond
PROPERTIES
    ClockCallsReturn
