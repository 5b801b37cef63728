CONSTANTS
    led = led
    ident = ident
    steer = steer
    Clients = {steer}
    Tracked = {}
    TIMER_EVENT_NUM = 2
    Timeouts = {2}
    TicksPerMs = 2
    TickMod = 5
    MaxLag = 2
    AgeCap = 7
SPECIFICATION FairSpec
INVARIANTS NotEarly NotLate
PROPERTY Serviced
