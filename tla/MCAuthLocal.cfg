CONSTANTS
    bob = bob
    bobby = bobby
    web = web
    webdev = webdev
    NoName = NoName
    LineCap = 2
    Names <- MCNames
    Begins <- MCBegins
    UsersFiles <- MCUsersFiles
    Requests <- MCRequests
SPECIFICATION FairSpec
INVARIANTS
    IInv
    ScanDecides
    AgreesWithManual
PROPERTIES
    AnswersOnce
    Advances
    Terminates
