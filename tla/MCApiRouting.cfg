SPECIFICATION ApiSpec
CONSTANTS
    Renamed <- MCRenamed
    Documents <- MCUniquePaths
    Methods <- MCMethods
    OtherKeys <- MCOtherKeys
    Values <- MCValues
    Targets <- MCTargets
INVARIANT
    RoutedByPathAndVerb
CHECK_DEADLOCK FALSE
