SPECIFICATION ApiSpec
CONSTANTS
    Renamed <- MCRenamed
    Documents <- MCUniquePaths
    Methods <- MCMethods
    OtherKeys <- MCOtherKeys
    Values <- MCValues
    Targets <- MCTargets
INVARIANT
    ArgumentsAreParameters
CHECK_DEADLOCK FALSE
