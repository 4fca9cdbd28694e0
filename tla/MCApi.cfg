SPECIFICATION ApiSpec
CONSTANTS
    Renamed <- MCRenamed
    Documents <- MCUniquePaths
    Methods <- MCMethods
    OtherKeys <- MCOtherKeys
    Values <- MCValues
    Targets <- MCTargets
INVARIANTS
    TypeOK
    EndpointsComplete
    OwnParamsKept
    MatchPathIsSegmentwise
    RoutedRight
    RoundTrip
CHECK_DEADLOCK FALSE
