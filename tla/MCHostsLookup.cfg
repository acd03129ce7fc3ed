CONSTANTS
    web = web
    webdev = webdev
    us = us
    NoName = NoName
    NoPort = NoPort
    BlankPort = BlankPort
    NoEntry = NoEntry
    Countries = {us}
    Names <- MCNames
    Begins <- MCBegins
    Ports <- MCPorts
    HostsFiles <- MCHostsFiles
SPECIFICATION Spec
INVARIANTS
    IInv
    LookupDecides
PROPERTY AnswersOnce
