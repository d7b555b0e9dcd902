\* A divide error, an overflow, a use of the missing coprocessor and a page
\* fault; at most three programs that wait for each other;
\* a game of two levels whose player presses up, right or nothing.
CONSTANTS
    FREQ_MAX = 16
    FREQ_MIN = 2
    Requests <- SomeRequests
    MaxBacklog = 12
    Exceptions = {0, 4, 7, 14}
    MaxPrograms = 3
    MaxTicks = 2
    MAX_LEVEL = 2
    Reads = {239, 127, 255}
SPECIFICATION MCSpec
INVARIANTS CounterBounded HandedOver
PROPERTIES SteadyRate AllWake
