---------------------------- MODULE MCHostsLookup ----------------------------
(* HostsLookup on every hosts.lst of at most three lines over two host names, *)
(* one of which begins the other.                                             *)
EXTENDS HostsLookup

CONSTANTS web, webdev, us

MCNames == {web, webdev}
MCBegins == {<<n, n>> : n \in MCNames} \cup {<<web, webdev>>}
MCPorts == {"22", "2222"}
MCLines == [host : MCNames \cup {NoName}, port : {"2222", NoPort},
            countries : {{}, {us}}]
             \cup [host : MCNames, port : {BlankPort}, countries : {{}}]
MCHostsFiles == UNION {[1..n -> MCLines] : n \in 0..3}
=============================================================================
