\* Two fetches of one origin whose robots.txt expires now and then.
SPECIFICATION Spec
CONSTANTS
    t1 = t1
    t2 = t2
    https = https
    Tasks = {t1, t2}
    NoTask = NoTask
    Origins = {https}
    OriginOf <- OneOrigin
    Permits = 2
    Budget = 1
    MaxHops = 2
    MaxExpiries = 2
SYMMETRY Alike
INVARIANTS SingleFlight
PROPERTIES NewestRobotsObeyed UsesGate
