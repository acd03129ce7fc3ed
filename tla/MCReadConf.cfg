CONSTANTS
    NoArg = NoArg
    EmptyArg = EmptyArg
    NULL = NULL
    Default = Default
    Args <- MCArgs
    Yes = {"yes"}
    No = {"no"}
    Positive = {"5"}
    ConfigFiles <- MCConfigFiles
SPECIFICATION FairSpec
INVARIANTS
    IInv
    AllOrNothing
    FirstWins
    UsableOptions
    AuthTypeFromFile
PROPERTIES
    Advances
    Terminates
