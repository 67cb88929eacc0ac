\* A predecessor of the older release, a parked successor and two hosts of
\* other boots.
CONSTANTS
    Hosts = {p, g, h}
    Parked = {p}
    MaxFiles = 3
    None = None
SPECIFICATION FairSpec
INVARIANTS
    TypeOK
    OneHost
PROPERTIES
    ParkedServes
