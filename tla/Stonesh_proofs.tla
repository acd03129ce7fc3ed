---------------------------- MODULE Stonesh_proofs ----------------------------
(***************************************************************************)
(* For every set of names, hosts, files and requests: what main has        *)
(* settled at each point, that it dials the host asked for, and that it    *)
(* implements Bastion.                                                     *)
(***************************************************************************)
EXTENDS Stonesh, TLAPS

LEMMA OptionsType ==
    ASSUME NEW o \in Options
    PROVE  /\ o.auth_type \in {0, 1, 2} /\ o.enable_proxy \in {0, 1}
           /\ o.allowfqdn \in {0, 1} /\ o.proxy_keyword \in Names
           /\ o.disable_proxy_authorization \in {0, 1}
           /\ o.authorized_service_tag \in Tags
BY DEF Options

\* The words of a command are names.
LEMMA CommandType ==
    ASSUME TypeOK, req.command # None
    PROVE  /\ Words \in Seq(Names)
           /\ \A i \in 1..Len(Words) : Words[i] \in Names
           /\ req.command.rest \in BOOLEAN
<1>1. req.command \in Command
  BY StoneshAssumption DEF TypeOK, Request
<1> QED BY <1>1 DEF Command, Words

\* What is copied out of the line found is a host entry for the host.
LEMMA EntryFound ==
    ASSUME TypeOK, host \in Names, NEW n, IsEntry(host, hosts, n)
    PROVE  EntryOf(hosts[n]) \in HostEntry /\ EntryOf(hosts[n]).host = host
<1>1. hosts \in Seq(HostLine) /\ n \in 1..Len(hosts) /\ hosts[n].host = host
  BY StoneshAssumption DEF TypeOK, IsEntry
<1>2. hosts[n] \in HostLine
  BY <1>1
<1> QED BY <1>1, <1>2, PortsAssumption DEF EntryOf, PortOf, HostLine, HostEntry

\* A name that is more than dots is cut to a name.
LEMMA ShortType ==
    ASSUME NEW name \in Names, options.allowfqdn = 0 => Tokens(name) # {}
    PROVE  ShortName(name) \in Names
BY StoneshAssumption DEF ShortName

\* What is left of a name begins with its hostname, and is that and no more
\* exactly where no dot comes first.
LEMMA CutBeginsWithHostname ==
    ASSUME NEW name \in Seq(Chars), Tokens(name) # {}
    PROVE  \E n \in 1..Len(Cut(name)) :
             /\ IsHostname(SubSeq(Cut(name), 1, n), name)
             /\ n = Len(Cut(name)) <=> name[1] # Dot
<1> USE DEF IsToken
<1>1. Token(name) \in Tokens(name)
  BY DEF Token
<1>2. PICK k \in 0..Len(name), end \in 1..Len(name) :
        Token(name)[1] = k /\ Token(name)[2] = end /\ IsToken(name, k, end)
  BY <1>1 DEF Tokens
<1> DEFINE n == end - k
           label == SubSeq(Cut(name), 1, n)
<1>3. /\ Cut(name) \in Seq(Chars) /\ Len(Cut(name)) = end
      /\ \A i \in 1..n : Cut(name)[i] = name[k + i]
  <2>1. Cut(name) = [i \in 1..end |-> IF i <= end - k THEN name[k + i] ELSE name[i]]
    BY <1>2 DEF Cut, CopiedToFront
  <2>2. \A i \in 1..end : Cut(name)[i] \in Chars
    BY <1>2, <2>1
  <2> QED BY <1>2, <2>1, <2>2
<1>4. n \in 1..Len(Cut(name)) /\ Len(label) = n /\ \A i \in 1..n : label[i] = name[k + i]
  <2>1. n \in 1..Len(Cut(name))
    BY <1>2, <1>3
  <2>2. Len(label) = n /\ \A i \in 1..n : label[i] = Cut(name)[i]
    BY <1>3, <2>1
  <2> QED BY <1>3, <2>1, <2>2
<1>5. IsHostname(label, name)
  <2>1. label # <<>> /\ \A i \in 1..Len(label) : label[i] # Dot
    <3>1. Len(label) # 0
      BY <1>4
    <3>2. \A i \in 1..n : name[k + i] # Dot
      <4> SUFFICES ASSUME NEW i \in 1..n PROVE name[k + i] # Dot
        OBVIOUS
      <4>1. k + i \in (k + 1)..end
        OBVIOUS
      <4> QED BY <1>2, <4>1
    <3>3. \A i \in 1..Len(label) : label[i] # Dot
      BY <1>4, <3>2
    <3>4. \A text : text = <<>> => Len(text) = 0
      OBVIOUS
    <3> HIDE DEF label
    <3> QED BY <3>1, <3>3, <3>4
  <2>2. k \in 0..(Len(name) - Len(label)) /\ k + Len(label) = end
    BY <1>2, <1>4
  <2>3. /\ \A i \in 1..k : name[i] = Dot
        /\ \A i \in 1..Len(label) : name[k + i] = label[i]
        /\ k + Len(label) = Len(name) \/ name[k + Len(label) + 1] = Dot
    BY <1>2, <1>4, <2>2
  <2> QED BY <2>1, <2>2, <2>3 DEF IsHostname
<1>6. n = Len(Cut(name)) <=> name[1] # Dot
  BY <1>2, <1>3
<1> QED BY <1>4, <1>5, <1>6

\* auth_user answers 0 or 1: its error value needs a type no file selects.
LEMMA AuthType ==
    ASSUME options \in Options, NEW m
    PROVE  auth_user(m) \subseteq {0, 1}
<1>1. options.auth_type \in {0, 1, 2}
  BY OptionsType
<1> QED BY <1>1 DEF auth_user, by_auth_type, FileAnswers, DirectoryAnswers

LEMMA InitIInv == Init => IInv
BY StoneshAssumption DEF Init, IInv, TypeOK, Progress, HostIsAsked,
   LaunchIsTheEntry, AfterLookup, Ends

\* The derived values move only with what they are derived from.
LEMMA FrameReq ==
    ASSUME UNCHANGED <<req, options, proxy>>
    PROVE  /\ Words' = Words /\ AsksForProxy' = AsksForProxy /\ Asked' = Asked
           /\ ShortName(Asked)' = ShortName(Asked)
BY DEF Words, AsksForProxy, Asked, ShortName

LEMMA FrameHost ==
    ASSUME UNCHANGED <<req, host, hostent, proxy>>
    PROVE  JudgedMode' = JudgedMode /\ NewArgv' = NewArgv
BY DEF Words, JudgedMode, NewArgv

\* A step that moves no variable of main, or only to an end, keeps all this.
LEMMA FrameIInv ==
    ASSUME IInv, UNCHANGED <<req, options, proxy, args, host, eof, hostent, mode, auth, argv>>,
           config' \in Configs, hosts' \in HostsFiles, users' \in UsersFiles,
           directory' \in Directories,
           status' \in {0, 1},
           pc' = pc \/ pc' \in {"exited", "crashed", "clean"}
    PROVE  IInv'
<1> USE DEF AfterLookup, Ends
<1>1. TypeOK'
  BY DEF IInv, TypeOK
<1>2. Progress'
  BY FrameHost DEF IInv, Progress
<1>3. HostIsAsked'
  BY FrameReq DEF IInv, HostIsAsked
<1>4. LaunchIsTheEntry'
  BY FrameHost DEF IInv, LaunchIsTheEntry
<1> QED BY <1>1, <1>2, <1>3, <1>4 DEF IInv

\* The invariant is inductive.
LEMMA NextIInv == IInv /\ [Next]_vars => IInv'
<1> SUFFICES ASSUME IInv, [Next]_vars PROVE IInv'
  OBVIOUS
<1> USE DEF Go, Fail, files, locals, AfterLookup, Ends
<1>1. CASE Edit
  BY <1>1, FrameIInv DEF Edit, IInv, TypeOK
<1>2. CASE Login
  <2>1. TypeOK'
    BY <1>2 DEF Login, IInv, TypeOK
  <2>2. Progress'
    BY <1>2, FrameHost DEF Login, IInv, TypeOK, Progress
  <2>3. HostIsAsked'
    BY <1>2, FrameReq DEF Login, IInv, TypeOK, Progress, HostIsAsked
  <2>4. LaunchIsTheEntry'
    BY <1>2 DEF Login, LaunchIsTheEntry
  <2> QED BY <2>1, <2>2, <2>3, <2>4 DEF IInv
<1>3. CASE LoginNoClient
  <2>1. TypeOK'
    BY <1>3 DEF LoginNoClient, IInv, TypeOK
  <2>2. Progress'
    BY <1>3, FrameHost DEF LoginNoClient, IInv, TypeOK, Progress
  <2>3. HostIsAsked'
    BY <1>3, FrameReq DEF LoginNoClient, IInv, TypeOK, Progress, HostIsAsked
  <2>4. LaunchIsTheEntry'
    BY <1>3 DEF LoginNoClient, LaunchIsTheEntry
  <2> QED BY <2>1, <2>2, <2>3, <2>4 DEF IInv
<1>4. CASE NoPasswd
  BY <1>4, FrameIInv DEF NoPasswd, IInv, TypeOK
<1>5. CASE ReadConfig
  <2>0. config \in Options
    BY <1>5, StoneshAssumption DEF ReadConfig, IInv, TypeOK
  <2>1. TypeOK'
    BY <1>5, <2>0 DEF ReadConfig, IInv, TypeOK
  <2>2. Progress'
    BY <1>5, <2>0 DEF ReadConfig, IInv, Progress
  <2>3. HostIsAsked'
    BY <1>5, FrameReq DEF ReadConfig, IInv, TypeOK, Progress, HostIsAsked
  <2>4. LaunchIsTheEntry'
    BY <1>5 DEF ReadConfig, LaunchIsTheEntry
  <2> QED BY <2>1, <2>2, <2>3, <2>4 DEF IInv
<1>6. CASE ReadConfigFails
  BY <1>6, FrameIInv DEF ReadConfigFails, IInv, TypeOK
<1>7. CASE OutOfMemory
  BY <1>7, FrameIInv DEF OutOfMemory, IInv, TypeOK
<1>8. CASE NoCommand
  <2>1. TypeOK'
    BY <1>8 DEF NoCommand, IInv, TypeOK
  <2>2. Progress'
    BY <1>8, FrameHost DEF NoCommand, IInv, TypeOK, Progress
  <2>3. HostIsAsked'
    BY <1>8, FrameReq DEF NoCommand, IInv, TypeOK, Progress, HostIsAsked
  <2>4. LaunchIsTheEntry'
    BY <1>8 DEF NoCommand, LaunchIsTheEntry
  <2> QED BY <2>1, <2>2, <2>3, <2>4 DEF IInv
<1>9. CASE BlankCommand
  BY <1>9, FrameIInv DEF BlankCommand, IInv, TypeOK
<1>10. CASE ProxyCommand
  <2>0. /\ Words # <<>> /\ host' = Words[2] /\ Words[2] \in Names /\ proxy = 0
        /\ Words' = Words /\ AsksForProxy' = AsksForProxy
    BY <1>10, CommandType DEF ProxyCommand, ProxyHost, IInv, Progress, Words, AsksForProxy
  <2>1. TypeOK'
    BY <1>10, <2>0 DEF ProxyCommand, IInv, TypeOK
  <2>2. Progress'
    BY <1>10, <2>0 DEF ProxyCommand, IInv, Progress
  <2>3. HostIsAsked'
    BY <1>10, <2>0 DEF ProxyCommand, HostIsAsked, Asked
  <2>4. LaunchIsTheEntry'
    BY <1>10 DEF ProxyCommand, LaunchIsTheEntry
  <2> QED BY <2>1, <2>2, <2>3, <2>4 DEF IInv
<1>11. CASE ProxyNoHost
  BY <1>11, FrameIInv DEF ProxyNoHost, IInv, TypeOK
<1>12. CASE BastionCommand
  <2>0. /\ Words # <<>> /\ host' = Words[1] /\ Words[1] \in Names /\ proxy = 0
        /\ Words' = Words /\ AsksForProxy' = AsksForProxy
    BY <1>12, CommandType DEF BastionCommand, IInv, Progress, Words, AsksForProxy
  <2>1. TypeOK'
    <3>1. args' \in BOOLEAN
      BY <1>12, CommandType DEF BastionCommand, IInv
    <3> QED BY <1>12, <2>0, <3>1 DEF BastionCommand, IInv, TypeOK
  <2>2. Progress'
    BY <1>12, <2>0 DEF BastionCommand, IInv, Progress
  <2>3. HostIsAsked'
    BY <1>12, <2>0 DEF BastionCommand, HostIsAsked, Asked
  <2>4. LaunchIsTheEntry'
    BY <1>12 DEF BastionCommand, LaunchIsTheEntry
  <2> QED BY <2>1, <2>2, <2>3, <2>4 DEF IInv
<1>13. CASE Answer
  <2>1. TypeOK'
    BY <1>13, StoneshAssumption DEF Answer, IInv, TypeOK
  <2>2. Progress'
    BY <1>13, StoneshAssumption DEF Answer, IInv, Progress
  <2>3. HostIsAsked'
    BY <1>13 DEF Answer, IInv, Progress, HostIsAsked
  <2>4. LaunchIsTheEntry'
    BY <1>13 DEF Answer, LaunchIsTheEntry
  <2> QED BY <2>1, <2>2, <2>3, <2>4 DEF IInv
<1>14. CASE EndOfInput
  <2>1. TypeOK'
    BY <1>14 DEF EndOfInput, IInv, TypeOK
  <2>2. Progress'
    BY <1>14, FrameHost DEF EndOfInput, IInv, TypeOK, Progress
  <2>3. HostIsAsked'
    BY <1>14, FrameReq DEF EndOfInput, IInv, TypeOK, Progress, HostIsAsked
  <2>4. LaunchIsTheEntry'
    BY <1>14 DEF EndOfInput, LaunchIsTheEntry
  <2> QED BY <2>1, <2>2, <2>3, <2>4 DEF IInv
<1>15. CASE PromptAgain
  BY <1>15, FrameIInv DEF PromptAgain, IInv, TypeOK
<1>16. CASE CutName
  <2>0. host' \in Names
    BY <1>16, ShortType DEF CutName, IInv, Progress
  <2>1. TypeOK'
    BY <1>16, <2>0 DEF CutName, IInv, TypeOK
  <2>2. Progress'
    BY <1>16, <2>0 DEF CutName, IInv, Progress
  <2>3. HostIsAsked'
    BY <1>16, FrameReq DEF CutName, IInv, TypeOK, Progress, HostIsAsked
  <2>4. LaunchIsTheEntry'
    BY <1>16 DEF CutName, LaunchIsTheEntry
  <2> QED BY <2>1, <2>2, <2>3, <2>4 DEF IInv
<1>17. CASE OnlyDots
  BY <1>17, FrameIInv DEF OnlyDots, IInv, TypeOK
<1>18. CASE FindEntry
  <2>0. hostent' \in HostEntry /\ hostent'.host = host
    BY <1>18, EntryFound DEF FindEntry, EntriesFor, IInv, Progress
  <2>1. TypeOK'
    BY <1>18, <2>0 DEF FindEntry, IInv, TypeOK
  <2>2. Progress'
    BY <1>18, <2>0 DEF FindEntry, IInv, Progress
  <2>3. HostIsAsked'
    BY <1>18, FrameReq DEF FindEntry, IInv, TypeOK, Progress, HostIsAsked
  <2>4. LaunchIsTheEntry'
    BY <1>18 DEF FindEntry, LaunchIsTheEntry
  <2> QED BY <2>1, <2>2, <2>3, <2>4 DEF IInv
<1>19. CASE NoHostEntry
  <2>1. TypeOK'
    BY <1>19 DEF NoHostEntry, IInv, TypeOK
  <2>2. Progress'
    BY <1>19, FrameHost DEF NoHostEntry, IInv, TypeOK, Progress
  <2>3. HostIsAsked'
    BY <1>19, FrameReq DEF NoHostEntry, IInv, TypeOK, Progress, HostIsAsked
  <2>4. LaunchIsTheEntry'
    BY <1>19 DEF NoHostEntry, LaunchIsTheEntry
  <2> QED BY <2>1, <2>2, <2>3, <2>4 DEF IInv
<1>20. CASE Authorized
  <2>0. auth' \in {0, 1} /\ mode' \in {AUTH_BASTION, AUTH_PROXY}
    BY <1>20, AuthType DEF Authorized, JudgedMode, IInv, Progress
  <2>1. TypeOK'
    BY <1>20, <2>0 DEF Authorized, IInv, TypeOK
  <2>2. Progress'
    BY <1>20, FrameHost DEF Authorized, IInv, TypeOK, Progress
  <2>3. HostIsAsked'
    BY <1>20, FrameReq DEF Authorized, IInv, TypeOK, Progress, HostIsAsked
  <2>4. LaunchIsTheEntry'
    BY <1>20 DEF Authorized, LaunchIsTheEntry
  <2> QED BY <2>1, <2>2, <2>3, <2>4 DEF IInv
<1>21. CASE CheckCountry
  <2>0. auth' \in {0, 1}
    BY <1>21 DEF CheckCountry, is_from_valid_country, IInv, TypeOK
  <2>1. TypeOK'
    BY <1>21, <2>0 DEF CheckCountry, IInv, TypeOK
  <2>2. Progress'
    BY <1>21, <2>0, FrameHost DEF CheckCountry, IInv, TypeOK, Progress
  <2>3. HostIsAsked'
    BY <1>21, FrameReq DEF CheckCountry, IInv, TypeOK, Progress, HostIsAsked
  <2>4. LaunchIsTheEntry'
    BY <1>21 DEF CheckCountry, LaunchIsTheEntry
  <2> QED BY <2>1, <2>2, <2>3, <2>4 DEF IInv
<1>22. CASE Connect
  <2>0. NewArgv \in Launch /\ NewArgv' = NewArgv
    BY <1>22, FrameHost DEF Connect, IInv, Progress, NewArgv, Launch, HostEntry
  <2>1. TypeOK'
    BY <1>22, <2>0 DEF Connect, IInv, TypeOK
  <2>2. Progress'
    BY <1>22, FrameHost DEF Connect, IInv, TypeOK, Progress
  <2>3. HostIsAsked'
    BY <1>22, FrameReq DEF Connect, IInv, TypeOK, Progress, HostIsAsked
  <2>4. LaunchIsTheEntry'
    BY <1>22, <2>0 DEF Connect, LaunchIsTheEntry
  <2> QED BY <2>1, <2>2, <2>3, <2>4 DEF IInv
<1>23. CASE NoTTY
  BY <1>23, FrameIInv DEF NoTTY, IInv, TypeOK
<1>24. CASE CleanExit
  BY <1>24, FrameIInv DEF CleanExit, IInv, TypeOK
<1>25. CASE CleanExitUninit
  BY <1>25, FrameIInv DEF CleanExitUninit, IInv, TypeOK
<1>26. CASE catch_signal
  BY <1>26, FrameIInv DEF catch_signal, IInv, TypeOK
<1>27. CASE UNCHANGED vars
  BY <1>27, FrameIInv DEF vars, IInv, TypeOK
<1>28. CASE LDAPFaults
  <2>0. mode' \in {AUTH_BASTION, AUTH_PROXY}
    BY <1>28 DEF LDAPFaults, JudgedMode
  <2>1. TypeOK'
    BY <1>28, <2>0 DEF LDAPFaults, IInv, TypeOK
  <2>2. Progress'
    BY <1>28, FrameHost DEF LDAPFaults, IInv, TypeOK, Progress
  <2>3. HostIsAsked'
    BY <1>28, FrameReq DEF LDAPFaults, IInv, TypeOK, Progress, HostIsAsked
  <2>4. LaunchIsTheEntry'
    BY <1>28 DEF LDAPFaults, LaunchIsTheEntry
  <2> QED BY <2>1, <2>2, <2>3, <2>4 DEF IInv
<1> QED BY <1>1, <1>2, <1>3, <1>4, <1>5, <1>6, <1>7, <1>8, <1>9, <1>10, <1>11, <1>12,
   <1>13, <1>14, <1>15, <1>16, <1>17, <1>18, <1>19, <1>20, <1>21, <1>22, <1>23, <1>24,
   <1>25, <1>26, <1>27, <1>28
   DEF Next, Main, Environment, Ended, Authorize, AuthorizeLDAP

-----------------------------------------------------------------------------

\* What main has settled at each point holds for every file and request.
THEOREM MainInvariant == Spec => []IInv
<1>1. Init => IInv
  BY InitIInv
<1>2. IInv /\ [Next]_vars => IInv'
  BY NextIInv
<1> QED BY <1>1, <1>2, PTL DEF Spec

\* nc is run exactly for the proxy keyword.  The host dialled is the one the
\* command names; with allowFQDN off it is the hostname of that for every name
\* without a leading dot, and for every other the hostname and more.
THEOREM DialsTheHost == Spec => []DialsWhatWasAsked
<1>1. IInv => DialsWhatWasAsked
  <2> SUFFICES ASSUME IInv, pc = "running", req.command # None
               PROVE  DialsWhatWasAsked
    BY DEF DialsWhatWasAsked
  <2>1. /\ argv.host = ShortName(Asked) /\ proxy \in {0, 1}
        /\ argv.program = "nc" <=> proxy = 1
    BY DEF IInv, TypeOK, Progress, HostIsAsked, LaunchIsTheEntry, NewArgv, AfterLookup
  <2>2. Asked = (IF AsksForProxy THEN Words[2] ELSE Words[1]) /\ (proxy = 1 <=> AsksForProxy)
    BY DEF IInv, HostIsAsked, AfterLookup, Asked
  <2>3. CASE options.allowfqdn = 1
    BY <2>1, <2>2, <2>3 DEF DialsWhatWasAsked, ShortName
  <2>4. CASE options.allowfqdn = 0
    <3>1. Asked \in Seq(Chars) /\ Tokens(Asked) # {}
      BY <2>4, StoneshAssumption DEF IInv, HostIsAsked, AfterLookup
    <3>2. argv.host = Cut(Asked)
      BY <2>1, <2>4 DEF ShortName
    <3> DEFINE asked == IF AsksForProxy THEN Words[2] ELSE Words[1]
    <3>3. \E n \in 1..Len(argv.host) :
            /\ IsHostname(SubSeq(argv.host, 1, n), Asked)
            /\ n = Len(argv.host) <=> Asked[1] # Dot
      BY <3>1, <3>2, CutBeginsWithHostname
    <3>4. asked = Asked
      BY <2>2
    <3>5. options.allowfqdn # 1
      BY <2>4
    <3>6. argv.program = "nc" <=> AsksForProxy
      BY <2>1, <2>2
    <3> HIDE DEF asked
    <3>7. \E n \in 1..Len(argv.host) :
            /\ IsHostname(SubSeq(argv.host, 1, n), asked)
            /\ n = Len(argv.host) <=> asked[1] # Dot
      BY <3>3, <3>4
    <3> QED BY <3>5, <3>6, <3>7 DEF DialsWhatWasAsked, asked
  <2>5. options.allowfqdn \in {0, 1}
    BY OptionsType DEF IInv, Progress, AfterLookup
  <2> QED BY <2>3, <2>4, <2>5
<1> QED BY <1>1, MainInvariant, PTL

\* On ordinary requests the mode authorized is the mode used.
THEOREM ModesAgree == Spec => []ModeAgrees
<1>1. IInv => ModeAgrees
  <2> SUFFICES ASSUME IInv, pc = "running", Ordinary
               PROVE  argv.program = "nc" <=> mode = AUTH_PROXY
    BY DEF ModeAgrees
  <2>1. argv.program = "nc" <=> proxy = 1
    BY DEF IInv, TypeOK, LaunchIsTheEntry, NewArgv
  <2>2. mode = JudgedMode /\ host \in Names
    BY DEF IInv, Progress, AfterLookup
  <2>3. CASE req.command = None
    BY <2>1, <2>2, <2>3 DEF JudgedMode, AUTH_BASTION, AUTH_PROXY, IInv, Progress
  <2>4. CASE req.command # None
    <3>1. Words[1] \in Names /\ (proxy = 1 <=> AsksForProxy)
      BY <2>4, CommandType DEF IInv, HostIsAsked, AfterLookup
    <3>2. Starts(Words[1], Words[1])
      BY DEF Starts
    <3> QED BY <2>1, <2>2, <2>4, <3>1, <3>2
            DEF Ordinary, JudgedMode, AUTH_BASTION, AUTH_PROXY
  <2> QED BY <2>3, <2>4
<1> QED BY <1>1, MainInvariant, PTL

-----------------------------------------------------------------------------
(* Stonesh implements Bastion.                                             *)

\* The client as Bastion counts it.
Client == IF req.client \in Addresses THEN req.client ELSE NoAddress
Target == IF hostent = Uninit THEN None ELSE hostent

LEMMA InitMaps == Init => B!BInit
<1> SUFFICES ASSUME Init PROVE B!BInit
  OBVIOUS
<1>1. req \in Request
  BY StoneshAssumption DEF Init
<1>2. req.user \in Users
  BY <1>1 DEF Request
<1> QED BY <1>2 DEF Init, B!BInit, Clearances, Link

\* Nothing Bastion looks at moves while main is on its way.
OnTheWay == {"start", "config", "parse", "prompt", "fqdn", "lookup", "auth"}

LEMMA Wanders ==
    ASSUME pc \in OnTheWay, pc' \in OnTheWay,
           UNCHANGED <<users, hosts, directory, req, options, hostent>>
    PROVE  UNCHANGED B!bvars
BY DEF B!bvars, B!rules, OnTheWay, Clearances, Link

\* Every way out before the connection is a refusal, and every step after
\* that is none of Bastion's.
LEMMA GivesUp ==
    ASSUME IInv, pc \notin Ends, pc' \in {"clean", "exited", "crashed"},
           UNCHANGED <<users, hosts, directory, req, options>>,
           hostent' = hostent \/ (hostent = Uninit /\ hostent' = None)
    PROVE  B!BRefuse \/ UNCHANGED B!bvars
<1>1. Clearances' = {} /\ Link' = Refused
  BY DEF Clearances, Link
<1>2. UNCHANGED <<users, hosts, directory, req.user, Client, options, Target>>
  BY StoneshAssumption DEF Client, Target
<1>3. CASE pc = "clean"
  <2>1. Clearances = {} /\ Link = Refused
    BY <1>3 DEF Clearances, Link
  <2> QED BY <1>1, <1>2, <2>1 DEF B!bvars, B!rules, Client, Target
<1>4. CASE pc # "clean"
  <2>1. Link = None
    BY <1>4 DEF Link, Ends
  <2> QED BY <1>1, <1>2, <2>1 DEF B!BRefuse, B!rules, Client, Target
<1> QED BY <1>3, <1>4

\* Bastion reads the files and the directory by the same definitions.
LEMMA SameFiles ==
    /\ \A user_, host_, proxied, file :
         B!FileGrants(user_, host_, proxied, file)
           <=> FileGrants(user_, host_, proxied, file)
    /\ \A name, file, n : B!IsEntry(name, file, n) <=> IsEntry(name, file, n)
    /\ \A line : B!EntryOf(line) = EntryOf(line)
    /\ \A user_, host_, tag, dir :
         B!DirectoryGrants(user_, host_, tag, dir)
           <=> DirectoryGrants(user_, host_, tag, dir)
BY DEF B!FileGrants, FileGrants, B!LineGrants, LineGrants, B!Visible, Visible,
   B!Matches, Matches, B!DecidingEntry, DecidingEntry, B!IsEntry, IsEntry,
   B!EntryOf, EntryOf, B!PortOf, PortOf, B!DirectoryGrants, DirectoryGrants,
   B!Satisfies, Satisfies

\* A step that finds the entry of the name asked for.
LEMMA FindMaps == ASSUME IInv, FindEntry PROVE B!BFind
<1> USE DEF FindEntry, Go, files
<1>1. options # None /\ hostent = Uninit
  BY StoneshAssumption DEF IInv, Progress, AfterLookup, Ends
<1>2. PICK n \in 1..Len(hosts) : IsEntry(host, hosts, n) /\ hostent' = EntryOf(hosts[n])
  BY DEF EntriesFor
<1>3. hosts[n].host = host /\ hostent' # Uninit
  BY <1>2, EntryFound, StoneshAssumption DEF IInv, Progress, IsEntry
<1>4. Clearances = {} /\ Clearances' = {} /\ Link = None /\ Link' = None
  BY DEF Clearances, Link
<1>5. B!IsEntry(hosts[n].host, hosts, n) /\ hostent' = B!EntryOf(hosts[n])
  BY <1>2, <1>3, SameFiles
<1> QED BY <1>1, <1>3, <1>4, <1>5 DEF B!BFind, B!rules

\* auth_user says yes only where the policy clears the user.
LEMMA YesIsClearance ==
    ASSUME IInv, pc = "auth", NEW m, 1 \in auth_user(m)
    PROVE  B!PolicyClears(options, req.user, hostent.host, m, users, directory)
<1>1. options \in Options
  BY DEF IInv, Progress, AfterLookup
<1>2. ~(options.enable_proxy = 0 /\ m = AUTH_PROXY) /\ 1 \in by_auth_type(m)
  BY DEF auth_user
<1>3. options.auth_type \in {0, 1, 2} /\ options.enable_proxy \in {0, 1}
  BY <1>1, OptionsType
<1>4. \A proxied : B!FileGrants(req.user, hostent.host, proxied, users)
                     <=> FileGrants(req.user, hostent.host, proxied, users)
  BY SameFiles
<1>5. CASE options.auth_type = 1
  <2>1. FileGrants(req.user, hostent.host, proxy_flag(m), users)
    BY <1>2, <1>5 DEF by_auth_type, FileAnswers
  <2> QED BY <1>2, <1>3, <1>4, <1>5, <2>1
          DEF proxy_flag, AUTH_PROXY, B!PolicyClears, B!Proxied, B!AUTH_PROXY
<1>6. CASE options.auth_type = 2
  <2>1. DirectoryGrants(req.user, hostent.host, ServiceTag(m), directory)
    BY <1>2, <1>6 DEF by_auth_type, DirectoryAnswers
  <2> QED BY <1>2, <1>3, <1>6, <2>1, SameFiles
          DEF ServiceTag, proxy_flag, AUTH_PROXY, B!PolicyClears, B!Proxied, B!AUTH_PROXY
<1>7. CASE options.auth_type = 0
  BY <1>2, <1>3, <1>7 DEF AUTH_PROXY, B!PolicyClears, B!AUTH_PROXY
<1> QED BY <1>3, <1>5, <1>6, <1>7

LEMMA AuthorizedMaps == ASSUME IInv, Authorized PROVE B!BAuthorize \/ UNCHANGED B!bvars
<1> USE DEF Authorized, Go, files
<1>1. hostent # Uninit /\ hostent # None /\ options \in Options
  BY StoneshAssumption DEF IInv, Progress, AfterLookup
<1>2. mode' \in {AUTH_BASTION, AUTH_PROXY} /\ auth' \in {0, 1}
  BY <1>1, AuthType DEF JudgedMode
<1>3. Link = None /\ Link' = None /\ Clearances = {}
  BY DEF Link, Clearances
<1>4. CASE auth' = 0
  BY <1>3, <1>4 DEF Clearances, B!bvars, B!rules
<1>5. CASE auth' = 1
  <2>1. Clearances' = {"user"}
    BY <1>5 DEF Clearances
  <2>2. B!PolicyClears(options, req.user, hostent.host, mode', users, directory)
    BY <1>5, YesIsClearance
  <2> QED BY <1>1, <1>2, <1>3, <2>1, <2>2
          DEF B!BAuthorize, B!rules, AUTH_BASTION, AUTH_PROXY, B!AUTH_BASTION, B!AUTH_PROXY
<1> QED BY <1>2, <1>4, <1>5

LEMMA CountryMaps ==
    ASSUME IInv, CheckCountry
    PROVE  B!BCountry \/ B!BRefuse \/ UNCHANGED B!bvars
<1> USE DEF CheckCountry, Go, files
<1>1. CASE auth' = 0
  BY <1>1, GivesUp DEF Ends
<1>2. CASE auth' # 0
  <2>1. auth # 0 /\ pc' = "connect" /\ hostent # Uninit
    BY <1>2, StoneshAssumption DEF NeedsCountry, IInv, Progress, AfterLookup
  <2>2. Client # NoAddress => B!CountryClears(Client, hostent.countries)
    BY <1>2, <2>1 DEF Client, NeedsCountry, is_from_valid_country, B!CountryClears
  <2>3. /\ Link = None /\ Link' = None
        /\ Clearances = {"user"} /\ Clearances' = {"user", "country"}
    BY <2>1 DEF Link, Clearances
  <2> QED BY <2>1, <2>2, <2>3 DEF B!BCountry, B!rules, Client
<1> QED BY <1>1, <1>2

LEMMA ConnectMaps == ASSUME IInv, Connect PROVE B!BConnect \/ B!BRefuse \/ UNCHANGED B!bvars
<1> USE DEF Connect, Go, Fail, files
<1>1. CASE pc' = "clean"
  BY <1>1, GivesUp DEF Ends
<1>2. CASE pc' = "running"
  <2>1. hostent # Uninit
    BY StoneshAssumption DEF IInv, Progress, AfterLookup
  <2>2. /\ Link = None /\ Clearances = {"user", "country"}
        /\ Clearances' = {"user", "country"}
        /\ Link' = [host |-> hostent.host, port |-> hostent.port]
    BY <1>2 DEF Link, Clearances, NewArgv
  <2> QED BY <1>2, <2>1, <2>2 DEF B!BConnect, B!rules
<1> QED BY <1>1, <1>2

\* Every step of main maps to a step of Bastion, or to none.
LEMMA StepMaps == IInv /\ [Next]_vars => [B!BNext]_B!bvars
<1> SUFFICES ASSUME IInv, [Next]_vars PROVE B!BNext \/ UNCHANGED B!bvars
  OBVIOUS
<1> USE DEF Go, Fail, files, locals, B!BNext
<1>1. CASE Edit
  <2>1. Clearances' = Clearances /\ Link' = Link
    BY <1>1 DEF Edit, Clearances, Link
  <2> QED BY <1>1, <2>1 DEF Edit, B!BEdit
<1>2. CASE NoCommand
  BY <1>2, Wanders DEF NoCommand, OnTheWay
<1>3. CASE ProxyCommand
  BY <1>3, Wanders DEF ProxyCommand, OnTheWay
<1>4. CASE BastionCommand
  BY <1>4, Wanders DEF BastionCommand, OnTheWay
<1>5. CASE Answer
  BY <1>5, Wanders DEF Answer, OnTheWay
<1>6. CASE EndOfInput
  BY <1>6, Wanders DEF EndOfInput, OnTheWay
<1>7. CASE PromptAgain
  BY <1>7, Wanders DEF PromptAgain, OnTheWay
<1>8. CASE CutName
  BY <1>8, Wanders DEF CutName, OnTheWay
<1>9. CASE NoPasswd
  BY <1>9, GivesUp DEF NoPasswd, Ends
<1>10. CASE ReadConfigFails
  BY <1>10, GivesUp DEF ReadConfigFails, Ends
<1>11. CASE OutOfMemory
  BY <1>11, GivesUp DEF OutOfMemory, Ends
<1>12. CASE BlankCommand
  BY <1>12, GivesUp DEF BlankCommand, Ends
<1>13. CASE ProxyNoHost
  BY <1>13, GivesUp DEF ProxyNoHost, Ends
<1>14. CASE OnlyDots
  BY <1>14, GivesUp DEF OnlyDots, Ends
<1>15. CASE NoHostEntry
  BY <1>15, GivesUp DEF NoHostEntry, Ends, IInv, Progress, AfterLookup
<1>16. CASE NoTTY
  BY <1>16, GivesUp DEF NoTTY, Ends
<1>17. CASE catch_signal
  BY <1>17, GivesUp DEF catch_signal, Ends
<1>18. CASE Login
  BY <1>18, GivesUp, Wanders DEF Login, Ends, OnTheWay
<1>19. CASE LoginNoClient
  BY <1>19, GivesUp, Wanders DEF LoginNoClient, Ends, OnTheWay
<1>20. CASE ReadConfig
  <2>1. options = None /\ options' # None /\ hostent = Uninit
    BY <1>20, StoneshAssumption DEF ReadConfig, IInv, TypeOK, Progress, AfterLookup, Ends
  <2>2. Link = None /\ Link' = None /\ Clearances = {} /\ Clearances' = {}
    BY <1>20 DEF ReadConfig, Link, Clearances
  <2> QED BY <1>20, <2>1, <2>2 DEF ReadConfig, B!BAdopt, B!rules
<1>21. CASE FindEntry
  BY <1>21, FindMaps
<1>22. CASE Authorized
  BY <1>22, AuthorizedMaps
<1>23. CASE CheckCountry
  BY <1>23, CountryMaps
<1>24. CASE Connect
  BY <1>24, ConnectMaps
<1>25. CASE CleanExit
  BY <1>25, GivesUp DEF CleanExit, Ends
<1>26. CASE CleanExitUninit
  BY <1>26, GivesUp DEF CleanExitUninit, Ends
<1>27. CASE UNCHANGED vars
  BY <1>27 DEF vars, B!bvars, B!rules, Clearances, Link
<1>28. CASE LDAPFaults
  BY <1>28, GivesUp DEF LDAPFaults, Ends
<1> QED BY <1>1, <1>2, <1>3, <1>4, <1>5, <1>6, <1>7, <1>8, <1>9, <1>10, <1>11, <1>12,
   <1>13, <1>14, <1>15, <1>16, <1>17, <1>18, <1>19, <1>20, <1>21, <1>22, <1>23, <1>24,
   <1>25, <1>26, <1>27, <1>28
   DEF Next, Main, Environment, Ended, Authorize, AuthorizeLDAP

\* There is no path around a check, and no check is made of one host and spent
\* on another: one run of main implements Bastion, whatever is in the files and
\* however often they are replaced.
THEOREM Refinement == Spec => RefinesBastion
<1>1. Init => B!BInit
  BY InitMaps
<1>2. IInv /\ [Next]_vars => [B!BNext]_B!bvars
  BY StepMaps
<1> QED BY <1>1, <1>2, MainInvariant, PTL DEF Spec, B!BSpec, RefinesBastion

-----------------------------------------------------------------------------
(* Nothing is run without a warrant.                                       *)

\* The clearances a run holds, as facts about versions of the files it read.
FromConfig == options \in Configs

FromHosts ==
    \E h \in HostsFiles : \E n \in 1..Len(h) :
       IsEntry(host, h, n) /\ hostent = EntryOf(h[n])

UserCleared ==
    \E u \in UsersFiles, d \in Directories :
       B!PolicyClears(options, req.user, hostent.host, mode, u, d)

CountryCleared ==
    req.client \in Addresses => B!CountryClears(req.client, hostent.countries)

\* By when it holds them.
Warranted ==
    /\ pc \in {"parse", "prompt", "fqdn", "lookup"} \cup AfterLookup => FromConfig
    /\ pc \in AfterLookup => FromHosts
    /\ pc \in {"country", "connect", "running"} /\ auth = 1 => UserCleared
    /\ pc \in {"connect", "running"} => CountryCleared

\* None of them is lost by what moves nothing they were given for.
LEMMA FrameWarrant ==
    ASSUME UNCHANGED <<req, options, host, hostent, mode>>
    PROVE  /\ FromConfig' = FromConfig /\ FromHosts' = FromHosts
           /\ UserCleared' = UserCleared /\ CountryCleared' = CountryCleared
BY DEF FromConfig, FromHosts, UserCleared, CountryCleared

\* Nor is one needed on the way out, nor by what stays before the lookup.
LEMMA StayWarranted ==
    ASSUME Warranted,
           \/ pc' \in {"start", "config", "clean", "exited", "crashed"}
           \/ /\ UNCHANGED <<req, options, host, hostent, mode, auth>> /\ pc' = pc
           \/ /\ pc \in {"parse", "prompt", "fqdn"} /\ UNCHANGED options
              /\ pc' \in {"prompt", "fqdn", "lookup"}
    PROVE  Warranted'
<1>1. CASE pc' \in {"start", "config", "clean", "exited", "crashed"}
  BY <1>1 DEF Warranted, AfterLookup
<1>2. CASE UNCHANGED <<req, options, host, hostent, mode, auth>> /\ pc' = pc
  BY <1>2, FrameWarrant DEF Warranted, AfterLookup
<1>3. CASE /\ pc \in {"parse", "prompt", "fqdn"} /\ UNCHANGED options
           /\ pc' \in {"prompt", "fqdn", "lookup"}
  BY <1>3 DEF Warranted, AfterLookup, FromConfig
<1> QED BY <1>1, <1>2, <1>3

LEMMA NextWarranted == IInv /\ Warranted /\ [Next]_vars => Warranted'
<1> SUFFICES ASSUME IInv, Warranted, [Next]_vars PROVE Warranted'
  OBVIOUS
<1> USE DEF Go, Fail, files, locals
<1>1. CASE \/ Edit \/ Login \/ LoginNoClient \/ NoPasswd \/ ReadConfigFails
           \/ OutOfMemory \/ NoCommand \/ BlankCommand \/ ProxyCommand
           \/ ProxyNoHost \/ BastionCommand \/ Answer \/ EndOfInput \/ PromptAgain
           \/ CutName \/ OnlyDots
  BY <1>1, StayWarranted
     DEF Edit, Login, LoginNoClient, NoPasswd, ReadConfigFails, OutOfMemory, NoCommand,
         BlankCommand, ProxyCommand, ProxyNoHost, BastionCommand, Answer, EndOfInput,
         PromptAgain, CutName, OnlyDots
<1>2. CASE \/ NoHostEntry \/ LDAPFaults \/ NoTTY \/ CleanExit \/ CleanExitUninit
           \/ catch_signal \/ UNCHANGED vars
  BY <1>2, StayWarranted
     DEF NoHostEntry, LDAPFaults, NoTTY, CleanExit, CleanExitUninit, catch_signal, vars
<1>3. CASE ReadConfig
  BY <1>3 DEF ReadConfig, IInv, TypeOK, Warranted, AfterLookup, FromConfig
<1>4. CASE FindEntry
  <2>1. FromHosts'
    BY <1>4 DEF FindEntry, EntriesFor, IInv, TypeOK, FromHosts
  <2>2. pc' = "auth" /\ FromConfig'
    BY <1>4 DEF FindEntry, Warranted, FromConfig
  <2> QED BY <2>1, <2>2 DEF Warranted
<1>5. CASE Authorized
  <2>1. pc = "auth" /\ pc' = "country" /\ UNCHANGED <<req, options, host, hostent>>
        /\ auth' \in auth_user(mode')
    BY <1>5 DEF Authorized
  <2>2. FromConfig' /\ FromHosts'
    BY <2>1 DEF Warranted, AfterLookup, FromConfig, FromHosts
  <2>3. ASSUME auth' = 1 PROVE UserCleared'
    <3>1. B!PolicyClears(options, req.user, hostent.host, mode', users, directory)
      BY <2>1, <2>3, YesIsClearance
    <3> QED BY <2>1, <3>1 DEF UserCleared, IInv, TypeOK
  <2> QED BY <2>1, <2>2, <2>3 DEF Warranted
<1>6. CASE CheckCountry /\ auth' = 0
  BY <1>6, StayWarranted DEF CheckCountry
<1>7. CASE CheckCountry /\ auth' # 0
  <2>1. /\ pc = "country" /\ pc' = "connect" /\ auth = 1
        /\ UNCHANGED <<req, options, host, hostent, mode>>
    BY <1>7 DEF CheckCountry, NeedsCountry, IInv, TypeOK
  <2>2. FromConfig' /\ FromHosts' /\ UserCleared'
    BY <2>1, FrameWarrant DEF Warranted, AfterLookup
  <2>3. req.client \in Addresses => B!CountryClears(req.client, hostent.countries)
    BY <1>7, <2>1 DEF CheckCountry, NeedsCountry, is_from_valid_country, B!CountryClears
  <2>4. CountryCleared'
    BY <2>1, <2>3 DEF CountryCleared
  <2> QED BY <2>1, <2>2, <2>4 DEF Warranted
<1>8. CASE Connect
  <2>1. pc = "connect" /\ pc' \in {"running", "clean"}
        /\ UNCHANGED <<req, options, host, hostent, mode, auth>>
    BY <1>8 DEF Connect
  <2> QED BY <2>1, FrameWarrant DEF Warranted, AfterLookup
<1> QED BY <1>1, <1>2, <1>3, <1>4, <1>5, <1>6, <1>7, <1>8
   DEF Next, Main, Environment, Ended, Authorize, AuthorizeLDAP

\* Whatever the files say and however often they are replaced, what is run is the
\* host and port of a first line of some hosts.lst, the user was let in for that
\* host by some users.lst or directory, and the client's country by that line.
THEOREM NoLaunchWithoutWarrant == Spec => []LaunchIsWarranted
<1>1. Init => Warranted
  BY DEF Init, Warranted, AfterLookup
<1>2. IInv /\ Warranted /\ [Next]_vars => Warranted'
  BY NextWarranted
<1>3. IInv /\ Warranted => LaunchIsWarranted
  <2> SUFFICES ASSUME IInv, Warranted, pc = "running" PROVE LaunchIsWarranted
    BY DEF LaunchIsWarranted
  <2>1. /\ hostent.host = host /\ auth = 1 /\ argv.host = hostent.host
        /\ argv.port = hostent.port
    BY DEF IInv, Progress, LaunchIsTheEntry, NewArgv, AfterLookup
  <2>2. FromConfig /\ FromHosts /\ UserCleared /\ CountryCleared
    BY <2>1 DEF Warranted, AfterLookup
  <2>h. PICK h \in HostsFiles :
          \E n \in 1..Len(h) : IsEntry(host, h, n) /\ hostent = EntryOf(h[n])
    BY <2>2 DEF FromHosts
  <2>3. PICK n \in 1..Len(h) : IsEntry(host, h, n) /\ hostent = EntryOf(h[n])
    BY <2>h
  <2>4. /\ IsEntry(argv.host, h, n) /\ argv.port = PortOf(h[n].port)
        /\ hostent.countries = h[n].countries
    BY <2>1, <2>3 DEF EntryOf
  <2>5. req.client \in Addresses => B!CountryClears(req.client, h[n].countries)
    BY <2>2, <2>4 DEF CountryCleared
  <2>6. \E u \in UsersFiles, d \in Directories :
          B!PolicyClears(options, req.user, argv.host, mode, u, d)
    BY <2>1, <2>2 DEF UserCleared
  <2> QED BY <2>2, <2>4, <2>5, <2>6 DEF LaunchIsWarranted, FromConfig
<1> QED BY <1>1, <1>2, <1>3, MainInvariant, PTL DEF Spec
=============================================================================
