------------------------------- MODULE Stonesh -------------------------------
(***************************************************************************)
(* One run of stonesh: main of stonesh.c and auth_user of auth.c, from the *)
(* login to the exec of nc or ssh, while an administrator edits the three  *)
(* files it reads, or the directory it asks, one after the other.  Those   *)
(* who read or ask are taken by what they return: ReadConf, HostsLookup,   *)
(* AuthLocal, AuthLdap and CountryCheck model how.                         *)
(***************************************************************************)
EXTENDS Integers, Clients, HostName

CONSTANTS
    None,       \* no value yet, or a NULL pointer
    Refused,    \* see Bastion
    Unset,      \* SSH_CLIENT is not in the environment
    Requests,   \* what a run is started with
    Configs,    \* contents of stonesh.conf: options, or BadConfig
    BadConfig,  \* a file read_config_file does not accept
    UsersFiles, HostsFiles,
    Directories,    \* contents of the LDAP directory
    Answers,    \* names typed at the prompt
    Uninit      \* the value hostent has before it is assigned

\* The options main and auth_user look at.
Options == [auth_type : 0..2, enable_proxy : 0..1, allowfqdn : 0..1,
            disable_proxy_authorization : 0..1, proxy_keyword : Names,
            authorized_service_tag : Tags]

\* The words of a -c argument, whether blanks come before the first, and whether
\* anything, if only a second blank, comes after it and the blank that ends it.
Command ==
    {c \in [words : Seq(Names), lead : BOOLEAN, rest : BOOLEAN] :
       Len(c.words) > 1 => c.rest}

Request == [user : Users, client : Addresses \cup {NoAddress, Unset},
            info : BOOLEAN,     \* -h or -v is given
            command : Command \cup {None},
            tty : BOOLEAN]

ASSUME StoneshAssumption ==
    /\ Unset \notin Addresses /\ Unset # NoAddress
    /\ Names \subseteq Seq(Chars) \ {<<>>}
    /\ \A name \in Names : Tokens(name) # {} => Cut(name) \in Names
    /\ \A a, b \in Names : Starts(a, b) => <<a, b>> \in Begins
    /\ Requests \subseteq Request
    /\ Configs \subseteq Options \cup {BadConfig} /\ BadConfig \notin Options
    /\ UsersFiles \subseteq Seq(UserLine)
    /\ HostsFiles \subseteq Seq(HostLine)
    /\ Directories \subseteq SUBSET DirEntry
    /\ Answers \subseteq Names
    /\ None \notin Options \cup HostEntry \cup Command \cup {Refused}
    /\ Uninit \notin HostEntry /\ Uninit # None

VARIABLES
    config, hosts, users,   \* the files, as they are now
    directory,  \* the LDAP directory's entries, as they are now
    req,        \* what this run was started with
    pc,         \* where main is
    options,    \* the options read; None before
    proxy,      \* 1 when the command asks for a proxied connection
    args,       \* whether a command for the remote host was given
    host,       \* options.host; NoName is NULL
    eof,        \* end of file was met on stdin
    hostent,    \* the entry gethostentry returned; None is NULL
    mode,       \* the mode auth_user was asked about; 0 before
    auth,       \* AUTH_ERROR (-1), AUTH_FAILURE (0), AUTH_SUCCESS (1)
    status,     \* the exit status
    argv        \* [program, host, port] to be executed; None before

files == <<config, hosts, users, directory>>
locals == <<options, proxy, args, host, eof, hostent, mode, auth, status, argv>>
vars == <<files, req, pc, locals>>

Ends == {"running", "exited", "crashed"}

Init ==
    /\ config \in Configs /\ hosts \in HostsFiles /\ users \in UsersFiles
    /\ directory \in Directories
    /\ req \in Requests
    /\ pc = "start"
    /\ options = None /\ proxy = 0 /\ args = FALSE /\ host = NoName
    /\ eof = FALSE /\ hostent = Uninit /\ mode = 0 /\ auth = 0
    /\ status = 0 /\ argv = None

\* The administrator replaces one of the files, or modifies the directory.
Edit ==
    /\ \/ config' \in Configs /\ UNCHANGED <<hosts, users, directory>>
       \/ hosts' \in HostsFiles /\ UNCHANGED <<config, users, directory>>
       \/ users' \in UsersFiles /\ UNCHANGED <<config, hosts, directory>>
       \/ directory' \in Directories /\ UNCHANGED <<config, hosts, users>>
    /\ UNCHANGED <<req, pc, locals>>

-----------------------------------------------------------------------------

Go(from, to) == pc = from /\ pc' = to /\ UNCHANGED <<files, req>>

\* goto clean_exit with status set to EXIT_FAILURE.
Fail(from) == Go(from, "clean") /\ status' = 1

\* SSH_CLIENT, then -h or -v.
Login ==
    /\ req.client # Unset
    /\ Go("start", IF req.info THEN "exited" ELSE "config")
    /\ status' = IF req.info THEN 1 ELSE 0
    /\ UNCHANGED <<options, proxy, args, host, eof, hostent, mode, auth, argv>>

\* strtok( NULL ) on the first call is undefined: it faults, or it returns
\* NULL and the login is taken for a local one.
LoginNoClient ==
    /\ req.client = Unset
    /\ Go("start", "crashed") \/ Go("start", "config")
    /\ UNCHANGED locals

\* No password entry for the effective user: fatal.
NoPasswd ==
    /\ Go("start", "exited") /\ status' = 1
    /\ UNCHANGED <<options, proxy, args, host, eof, hostent, mode, auth, argv>>

ReadConfig ==
    /\ Go("config", "parse")
    /\ config # BadConfig
    /\ options' = config
    /\ UNCHANGED <<proxy, args, host, eof, hostent, mode, auth, status, argv>>

\* The file is refused, or reading it ends the process (see ReadConf).
ReadConfigFails ==
    /\ config = BadConfig
    /\ \/ Fail("config")
       \/ Go("config", "crashed") /\ UNCHANGED status
    /\ UNCHANGED <<options, proxy, args, host, eof, hostent, mode, auth, argv>>

\* Any malloc of main that comes before hostent is assigned.
OutOfMemory ==
    /\ Fail("parse") \/ Fail("prompt")
    /\ UNCHANGED <<options, proxy, args, host, eof, hostent, mode, auth, argv>>

Words == req.command.words
AsksForProxy == Words[1] = options.proxy_keyword

NoCommand ==
    /\ Go("parse", "prompt")
    /\ req.command = None
    /\ UNCHANGED locals

\* strtok finds no word, and the length of NULL is taken.
BlankCommand ==
    /\ Go("parse", "crashed")
    /\ req.command # None /\ Words = <<>>
    /\ UNCHANGED locals

\* Fault variant of ProxyHost: the keyword is taken for the host.
KeywordHost == Words[1]

\* The word after the keyword.
ProxyHost == Words[2]

ProxyCommand ==
    /\ Go("parse", "fqdn")
    /\ req.command # None /\ Len(Words) > 1 /\ AsksForProxy
    /\ host' = ProxyHost /\ proxy' = 1
    /\ UNCHANGED <<options, args, eof, hostent, mode, auth, status, argv>>

ProxyNoHost ==
    /\ Fail("parse")
    /\ req.command # None /\ Len(Words) = 1 /\ AsksForProxy
    /\ UNCHANGED <<options, proxy, args, host, eof, hostent, mode, auth, argv>>

BastionCommand ==
    /\ Go("parse", "fqdn")
    /\ req.command # None /\ Len(Words) > 0 /\ ~AsksForProxy
    /\ host' = Words[1] /\ args' = req.command.rest
    /\ UNCHANGED <<options, proxy, eof, hostent, mode, auth, status, argv>>

\* A name is typed at the prompt.
Answer ==
    /\ Go("prompt", "fqdn")
    /\ ~eof
    /\ host' \in Answers
    /\ UNCHANGED <<options, proxy, args, eof, hostent, mode, auth, status, argv>>

EndOfInput ==
    /\ Go("prompt", "prompt")
    /\ ~eof /\ eof' = TRUE
    /\ UNCHANGED <<options, proxy, args, host, hostent, mode, auth, status, argv>>

\* An empty line, or end of file again: the loop turns once more, and is where
\* it was.
PromptAgain == Go("prompt", "prompt") /\ UNCHANGED locals

\* "We only want the hostname", unless allowFQDN is on.
ShortName(name) == IF options.allowfqdn = 0 THEN Cut(name) ELSE name

CutName ==
    /\ Go("fqdn", "lookup")
    /\ options.allowfqdn = 0 => Tokens(host) # {}
    /\ host' = ShortName(host)
    /\ UNCHANGED <<options, proxy, args, eof, hostent, mode, auth, status, argv>>

\* Nothing but dots: strtok returns NULL and its length is taken.
OnlyDots ==
    /\ Go("fqdn", "crashed")
    /\ options.allowfqdn = 0 /\ Tokens(host) = {}
    /\ UNCHANGED locals

FindEntry ==
    /\ Go("lookup", "auth")
    /\ hostent' \in EntriesFor(host, hosts)
    /\ UNCHANGED <<options, proxy, args, host, eof, mode, auth, status, argv>>

\* Fault variant of NoHostEntry: tries again until the entry is there.
NoHostEntryRetry ==
    /\ Go("lookup", "lookup")
    /\ UNCHANGED locals

\* The host has no entry, or hosts.lst cannot be opened.
NoHostEntry ==
    /\ Fail("lookup")
    /\ hostent' = None
    /\ UNCHANGED <<options, proxy, args, host, eof, mode, auth, argv>>

-----------------------------------------------------------------------------

\* Fault variant of JudgedMode: cval still holds the whole command.
JudgedModeUncut ==
    IF req.command = None
         \/ (~req.command.lead /\ Len(Words) = 1 /\ Starts(Words[1], host))
      THEN AUTH_BASTION ELSE AUTH_PROXY

\* The mode is judged a second time, from what strtok left in cval: leading
\* blanks, then the first word.  It is a bastioned request when that is an
\* initial segment of the host.
JudgedMode ==
    IF req.command = None \/ (~req.command.lead /\ Starts(Words[1], host))
      THEN AUTH_BASTION ELSE AUTH_PROXY

\* Whether the authorization must be one for proxy mode.
proxy_flag(m) == m = AUTH_PROXY /\ options.disable_proxy_authorization = 0

\* The tag the directory is asked about.
ServiceTag(m) == IF proxy_flag(m) THEN options.authorized_service_tag ELSE NoTag

\* The values the mechanism the options select can return.
by_auth_type(m) ==
    CASE options.auth_type = 0 -> {1}
      [] options.auth_type = 1 ->
           FileAnswers(req.user, hostent.host, proxy_flag(m), users)
      [] options.auth_type = 2 ->
           DirectoryAnswers(req.user, hostent.host, ServiceTag(m), directory)
      [] OTHER -> {-1}

\* Fault variant of auth_user: enableProxy is not looked at.
auth_user_any(m) == by_auth_type(m)

\* don't allow proxy mode if it's been disabled
auth_user(m) ==
    IF options.enable_proxy = 0 /\ m = AUTH_PROXY THEN {0} ELSE by_auth_type(m)

\* The question goes to a directory, which may never answer.
AsksDirectory ==
    options.auth_type = 2 /\ ~(options.enable_proxy = 0 /\ JudgedMode = AUTH_PROXY)

Authorized ==
    /\ Go("auth", "country")
    /\ mode' = JudgedMode
    /\ auth' \in auth_user(mode')
    /\ UNCHANGED <<options, proxy, args, host, eof, hostent, status, argv>>

Authorize == pc = "auth" /\ ~AsksDirectory /\ Authorized
AuthorizeLDAP == pc = "auth" /\ AsksDirectory /\ Authorized

\* get_auth_ldap gives up without a connection, or loses it, and faults.
LDAPFaults ==
    /\ Go("auth", "crashed")
    /\ AsksDirectory
    /\ mode' = JudgedMode
    /\ UNCHANGED <<options, proxy, args, host, eof, hostent, auth, status, argv>>

\* The values is_from_valid_country can return: the databases are not opened
\* without a list or for this machine, and may be missing.
is_from_valid_country(address, countries) ==
    IF countries = {} \/ CountryOf[address] = Loopback THEN {1}
    ELSE {0} \cup (IF CountryOf[address] \in countries THEN {1} ELSE {})

\* Fault variant of NeedsCountry: only logins from this machine are checked.
NeedsCountryLocal ==
    auth # 0 /\ req.client \in Addresses /\ CountryOf[req.client] = Loopback

\* A client address is known, and the user is not refused yet.
NeedsCountry == auth # 0 /\ req.client \in Addresses

\* The verdict, and what it does to auth; a refusal leaves status alone.
CheckCountry ==
    /\ pc = "country"
    /\ auth' \in IF ~NeedsCountry THEN {auth}
                 ELSE is_from_valid_country(req.client, hostent.countries)
    /\ Go("country", IF auth' = 0 THEN "clean" ELSE "connect")
    /\ UNCHANGED <<options, proxy, args, host, eof, hostent, mode, status, argv>>

\* newargv for nc or for ssh, whichever was asked for.
NewArgv == [program |-> IF proxy = 1 THEN "nc" ELSE "ssh",
            host |-> hostent.host, port |-> hostent.port]

NoTerminal == proxy = 0 /\ ~req.tty /\ ~args

Connect ==
    /\ pc = "connect" /\ ~NoTerminal
    /\ argv' = NewArgv
    /\ \/ Go("connect", "running") /\ UNCHANGED status
       \/ Fail("connect")       \* execvp failed
    /\ UNCHANGED <<options, proxy, args, host, eof, hostent, mode, auth>>

NoTTY ==
    /\ Fail("connect")
    /\ NoTerminal
    /\ UNCHANGED <<options, proxy, args, host, eof, hostent, mode, auth, argv>>

\* clean_exit frees what hostent points to, assigned or not.
CleanExit ==
    /\ Go("clean", "exited")
    /\ UNCHANGED locals

CleanExitUninit ==
    /\ Go("clean", "crashed")
    /\ hostent = Uninit
    /\ UNCHANGED locals

\* SIGINT or SIGTERM: fatal.
catch_signal ==
    /\ pc \notin Ends
    /\ Go(pc, "exited") /\ status' = 1
    /\ UNCHANGED <<options, proxy, args, host, eof, hostent, mode, auth, argv>>

\* What main does by itself, once it has its input.
Main ==
    \/ Login \/ LoginNoClient \/ ReadConfig \/ ReadConfigFails
    \/ NoCommand \/ BlankCommand \/ ProxyCommand \/ ProxyNoHost \/ BastionCommand
    \/ PromptAgain \/ CutName \/ OnlyDots \/ FindEntry \/ NoHostEntry
    \/ Authorize \/ CheckCountry \/ Connect \/ NoTTY
    \/ CleanExit \/ CleanExitUninit

Environment ==
    \/ Edit \/ NoPasswd \/ OutOfMemory \/ Answer \/ EndOfInput
    \/ AuthorizeLDAP \/ LDAPFaults \/ catch_signal

Ended == pc \in Ends /\ UNCHANGED vars

Next == Main \/ Environment \/ Ended

Spec == Init /\ [][Next]_vars

\* The process is scheduled; nobody has to type, signal, answer or edit.
FairSpec == Spec /\ WF_vars(Main)

-----------------------------------------------------------------------------

Launch == [program : {"nc", "ssh"}, host : Names, port : Ports \cup {""}]

AfterLookup == {"auth", "country", "connect", "running"}

TypeOK ==
    /\ config \in Configs /\ hosts \in HostsFiles /\ users \in UsersFiles
    /\ directory \in Directories
    /\ req \in Requests
    /\ pc \in {"start", "config", "parse", "prompt", "fqdn", "lookup", "auth",
               "country", "connect", "clean"} \cup Ends
    /\ options \in Options \cup {None}
    /\ proxy \in {0, 1} /\ args \in BOOLEAN /\ eof \in BOOLEAN
    /\ host \in Names \cup {NoName}
    /\ hostent \in HostEntry \cup {None, Uninit}
    /\ mode \in {0, AUTH_BASTION, AUTH_PROXY}
    /\ auth \in {0, 1}
    /\ status \in {0, 1}
    /\ argv \in Launch \cup {None}

\* What main has settled by the time it has reached a point.
Progress ==
    /\ pc \in {"start", "config"} => options = None
    /\ pc \in {"parse", "prompt", "fqdn", "lookup"} \cup AfterLookup =>
         options \in Options
    /\ pc \notin AfterLookup \cup {"clean"} \cup Ends => hostent = Uninit
    /\ pc \in AfterLookup => hostent \in HostEntry /\ hostent.host = host
    /\ pc \in {"fqdn", "lookup"} \cup AfterLookup => host \in Names
    /\ pc \in {"start", "config", "parse"} => proxy = 0 /\ host = NoName
    /\ pc = "prompt" => req.command = None
    /\ req.command = None => proxy = 0
    /\ pc \in {"country", "connect", "running"} => mode = JudgedMode
    /\ pc \in {"connect", "running"} => auth = 1

\* The host is the one the command names, whole or cut.
Asked == IF proxy = 1 THEN Words[2] ELSE Words[1]

HostIsAsked ==
    req.command # None =>
      /\ pc = "fqdn" => host = Asked
      /\ pc \in {"lookup"} \cup AfterLookup =>
           /\ host = ShortName(Asked)
           /\ options.allowfqdn = 0 => Tokens(Asked) # {}
      /\ pc \in {"fqdn", "lookup"} \cup AfterLookup =>
           /\ Words # <<>> /\ Asked \in Names
           /\ proxy = 1 <=> AsksForProxy

LaunchIsTheEntry ==
    pc = "running" => argv = NewArgv

IInv == TypeOK /\ Progress /\ HostIsAsked /\ LaunchIsTheEntry

-----------------------------------------------------------------------------

\* What the run has got so far, as Bastion counts it.
Clearances ==
    IF pc = "country" /\ auth # 0 THEN {"user"}
    ELSE IF pc \in {"connect", "running"} THEN {"user", "country"} ELSE {}

Link ==
    IF pc = "running" THEN [host |-> argv.host, port |-> argv.port]
    ELSE IF pc \in {"clean", "exited", "crashed"} THEN Refused ELSE None

B == INSTANCE Bastion WITH
       user    <- req.user,
       client  <- IF req.client \in Addresses THEN req.client ELSE NoAddress,
       policy  <- options,
       mode    <- IF Clearances = {} THEN 0 ELSE mode,
       target  <- IF hostent = Uninit THEN None ELSE hostent,
       cleared <- Clearances,
       link    <- Link

\* However the files are edited meanwhile, the run connects only to an entry
\* of hosts.lst for which auth_user and then the country check said yes, each
\* by the files as they were when it asked: there is no path around a check,
\* and no check is made of one host and spent on another.
RefinesBastion == B!BSpec

\* What is run was warranted, three times over: some version of hosts.lst had
\* this host at this port as its first line for it, open to the country of the
\* client if that is known, and some version of users.lst or of the directory
\* let this user have it in the mode judged.  Where the files stand still it is
\* these files; a refusal, an error or an answer for another host is no warrant.
LaunchIsWarranted ==
    pc = "running" =>
      /\ options \in Configs
      /\ \E h \in HostsFiles : \E n \in 1..Len(h) :
           /\ IsEntry(argv.host, h, n) /\ argv.port = PortOf(h[n].port)
           /\ req.client \in Addresses => B!CountryClears(req.client, h[n].countries)
      /\ \E u \in UsersFiles, d \in Directories :
           B!PolicyClears(options, req.user, argv.host, mode, u, d)

\* Requests for which the two parses of the -c argument cannot disagree: no
\* blanks in front, the keyword does not begin the host's name, and a host
\* asked for directly is not cut.
Ordinary ==
    \/ req.command = None
    \/ /\ ~req.command.lead
       /\ AsksForProxy => ~Starts(Words[1], host)
       /\ ~AsksForProxy => host = Words[1]

\* On those the mode the user was authorized for is the mode used.
ModeAgrees ==
    pc = "running" /\ Ordinary => (argv.program = "nc" <=> mode = AUTH_PROXY)

\* nc is run exactly when the first word is the keyword, and the host dialled is
\* the one asked for.  With allowFQDN off it begins with the hostname of that,
\* and is no more than the hostname exactly when no dot comes first: the copy of
\* the first label has no NUL, and for ".web" it is "webb" that is dialled.
DialsWhatWasAsked ==
    pc = "running" /\ req.command # None =>
      LET asked == IF AsksForProxy THEN Words[2] ELSE Words[1] IN
      /\ argv.program = "nc" <=> AsksForProxy
      /\ options.allowfqdn = 1 => argv.host = asked
      /\ options.allowfqdn = 0 =>
           \E n \in 1..Len(argv.host) :
             /\ IsHostname(SubSeq(argv.host, 1, n), asked)
             /\ n = Len(argv.host) <=> asked[1] # Dot

\* A run never hangs by itself: it ends, or it waits for a line of input or
\* for the directory.
RunEnds ==
    (pc # "prompt") ~> (pc \in Ends \cup {"prompt"} \/ (pc = "auth" /\ AsksDirectory))

-----------------------------------------------------------------------------
(* What the manual and the comments say and the code does not do           *)
(* (violation runs).                                                       *)

\* enableProxy: "When disabled only bastioned connections are permitted."
\* (stonesh.conf.pod:49)
ProxyOnlyWhenEnabled ==
    pc = "running" /\ argv.program = "nc" => options.enable_proxy = 1

\* "After all that, if we still don't have a host ... quit" (stonesh.c:229)
QuitsWithoutHost == (pc = "prompt" /\ eof) ~> (pc = "exited")

\* "throw an error and exit if we have bad configuration options"
\* (readconf.c:105): once the file is refused, the process exits.
RefusedConfigExits == pc = "crashed" /\ options = None => status = 0
=============================================================================
