------------------------------ MODULE MCStonesh ------------------------------
(* Stonesh with one user, five hosts (one has a '.', one begins with the      *)
(* proxy keyword, one is what a leading '.' makes of another), and versions    *)
(* of each file and of the directory to swap.                                  *)
EXTENDS Stonesh, TLC

CONSTANTS here, us, xx, ssh

MCChars == {"a", "b", "c", "d", "e", "i", "l", "n", "o", "p", "r", "t", "u", "w", "."}
bob == <<"b", "o", "b">>
direct == <<"d", "i", "r", "e", "c", "t">>
director == direct \o <<"o", "r">>
web == <<"w", "e", "b">>
weblan == web \o <<".", "l", "a", "n">>
dotweb == <<".">> \o web
webb == web \o <<"b">>
dots == <<".", ".">>
uptime == <<"u", "p">>

MCUsers == {bob}
MCAnswers == {web, dots}
MCNames == {bob, direct, director, web, weblan, dotweb, webb, dots, uptime}
MCBegins == {<<a, b>> \in MCNames \X MCNames : Starts(a, b)}
MCPorts == {"22", "2222"}
MCCountryOf == (here :> Loopback) @@ (us :> "US") @@ (xx :> NoCountry)

Conf(type, enable, fqdn, disable) ==
    [auth_type |-> type, enable_proxy |-> enable, allowfqdn |-> fqdn,
     authorized_service_tag |-> ssh,
     disable_proxy_authorization |-> disable, proxy_keyword |-> direct]
MCConfigs == {BadConfig, Conf(0, 0, 0, 0), Conf(1, 1, 0, 0), Conf(1, 1, 1, 1),
              Conf(2, 1, 0, 0)}

User(hosts_) == [user |-> bob, hosts |-> hosts_]
E(name, plus) == [name |-> name, plus |-> plus]
MCUsersFiles == {<<User(<<E(web, FALSE), E(director, FALSE)>>)>>,
                 <<User(<<E(web, TRUE)>>)>>}

\* bob on one host, not as a proxy; bob everywhere, either way.
D(hosts_, services_) == [uid |-> bob, hosts |-> hosts_, services |-> services_]
MCDirectories == {{D({web}, {})}, {D({Star}, {<<ssh, Star>>})}}

H(name, port, codes) ==
    [host |-> name, port |-> port, countries |-> codes]
MCHostsFiles ==
    {<<H(web, NoPort, {}), H(director, "2222", {"US"})>>,
     <<H(web, "2222", {"US"}), H(weblan, NoPort, {}),
       H(webb, NoPort, {}), H(direct, NoPort, {})>>}

\* One blank between the words, and none elsewhere.
C(words_) == [words |-> words_, lead |-> FALSE, rest |-> Len(words_) > 1]
MCCommands ==
    {None} \cup {C(w) : w \in {<<>>, <<direct>>, <<direct, web>>, <<direct, director>>,
                             <<weblan>>, <<dotweb>>, <<web, uptime>>, <<dots>>}}
           \cup {[C(<<web, uptime>>) EXCEPT !.lead = TRUE],
                 [C(<<web>>) EXCEPT !.rest = TRUE]}

R(c, command, tty, info) == [user |-> bob, client |-> c, info |-> info,
                             command |-> command, tty |-> tty]
MCRequests ==
    {R(c, k, t, FALSE) : c \in {us, NoAddress}, k \in MCCommands, t \in BOOLEAN}
      \cup {R(c, k, TRUE, FALSE) : c \in {xx, here, Unset},
              k \in {None, C(<<direct, director>>)}}
      \cup {R(us, None, TRUE, TRUE)}
=============================================================================
