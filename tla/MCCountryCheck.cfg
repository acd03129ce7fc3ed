CONSTANTS
    NUL = NUL
    NoCode = NoCode
    Blank = " "
    Codes <- MCCodes
    Upper <- MCUpper
    Lists <- MCLists
    Addresses <- MCAddresses
SPECIFICATION FairSpec
INVARIANTS
    IInv
    ListDecides
PROPERTIES
    Advances
    Terminates
