SPECIFICATION Spec
CONSTANTS
    None = None
    iss = iss
    meteor3 = meteor3
    meteor4 = meteor4
    Satellites <- ThreeSatellites
    EventBased = {iss}
    Family <- FamilyOf
    maxAge = 0
    Skies <- SomeSkies
    Step = 4
    MinDuration = 8
    MaxDuration = 20
    Horizon = 48
    Fine = 2
    High = 3
    Long = 20
INVARIANT TypeOK
INVARIANT WindowCovered
INVARIANT PassIsReal
INVARIANT OwnPassesDisjoint
INVARIANT ServesSomething
