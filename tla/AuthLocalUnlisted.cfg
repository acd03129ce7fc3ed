CONSTANTS
    bob = bob
    bobby = bobby
    web = web
    webdev = webdev
    NoName = NoName
    LineCap = 2
    Names <- MCNames
    Begins <- MCBegins
    UsersFiles <- MCUsersFiles
    Requests <- MCRequests
SPECIFICATION Spec
INVARIANT UnlistedUserDenied
