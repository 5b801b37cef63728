CONSTANTS
    led = led
    ident = ident
    steer = steer
    Clients = {led, ident, steer}
    Tracked = {led, ident}
    TIMER_EVENT_NUM = 3
    Timeouts = {1, 2}
    TicksPerMs = 1
    TickMod = 3
    MaxLag = 1
    AgeCap = 0
SPECIFICATION Spec
INVARIANTS TypeOK PoolAccounting ListIntact HandleExact BusyIsRunning NoDueSkipped NearestRight
SYMMETRY Symmetry
PROPERTY ImplementsService
