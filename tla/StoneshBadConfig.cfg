CONSTANTS
    here = here
    us = us
    xx = xx
    NoName = NoName
    Star = Star
    NoTag = NoTag
    ssh = ssh
    Tags = {ssh}
    NoPort = NoPort
    BlankPort = BlankPort
    NoAddress = NoAddress
    Unset = Unset
    Loopback = Loopback
    NoCountry = NoCountry
    None = None
    Refused = Refused
    BadConfig = BadConfig
    Uninit = Uninit
    LineCap = 2
    Users <- MCUsers
    Addresses = {here, us, xx}
    Countries = {"US"}
    Answers <- MCAnswers
    Names <- MCNames
    Begins <- MCBegins
    Chars <- MCChars
    Dot = "."
    Ports <- MCPorts
    CountryOf <- MCCountryOf
    Configs <- MCConfigs
    UsersFiles <- MCUsersFiles
    HostsFiles <- MCHostsFiles
    Directories <- MCDirectories
    Requests <- MCRequests
SPECIFICATION Spec
INVARIANT RefusedConfigExits
