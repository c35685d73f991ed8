\* Two fetches of one origin, one expiry while a fetch is queued.
SPECIFICATION FairSpec
CONSTANTS
    t1 = t1
    t2 = t2
    https = https
    Tasks = {t1, t2}
    NoTask = NoTask
    Origins = {https}
    OriginOf <- OneOrigin
    Permits = 2
    Budget = 1
    MaxHops = 1
    MaxExpiries = 1
PROPERTIES FetchesEnd
