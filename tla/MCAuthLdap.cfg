CONSTANTS
    bob = bob
    eve = eve
    web = web
    db = db
    proxy = proxy
    NoName = NoName
    Star = Star
    NoTag = NoTag
    EmptyTag = EmptyTag
    NULL = NULL
    Uninit = Uninit
    Tags = {proxy}
    Names <- MCNames
    Begins <- MCBegins
    Requests <- MCRequests
    Directories <- MCDirectories
SPECIFICATION FairSpec
INVARIANT IInv
PROPERTIES
    YesIsTheDirectorys
    OnlyTheServerHolds
