------------------------------ MODULE ReadConf ------------------------------
(***************************************************************************)
(* read_config_file of readconf.c: one call, from the file it is given to  *)
(* the Options structure it leaves and the value it returns, one action    *)
(* per line.  A "line" is what one fgets returns.  Its text is abstract:   *)
(* what process_config_line tells apart is whether the keyword is known,   *)
(* whether the argument is missing, and what strcmp and atoi make of it.   *)
(***************************************************************************)
EXTENDS Integers, Sequences

CONSTANTS
    Args,       \* arguments a line can carry
    Yes, No,    \* those strcmp accepts as yes/true and as no/false
    Positive,   \* those atoi makes a number above zero of
    NoArg,      \* strdelim returned NULL: nothing follows the keyword
    EmptyArg,   \* strdelim returned "": the line ends at its '='
    NULL,       \* an option string that is not set
    Default,    \* an option string set by fill_default_options
    ConfigFiles \* contents of stonesh.conf that are considered

Flags == {"debug", "log_to_stderr", "use_ldap", "enable_proxy", "allowfqdn",
          "disable_authorization", "disable_proxy_authorization"}

\* The options fill_default_options gives a value when the file does not.
Defaulted == {"authorized_service_tag", "proxy_keyword", "hosts_file",
              "users_file", "ssh_path", "nc_path", "nc_timeout",
              "geoip_dat", "geoip6_dat"}
Strings == Defaulted \cup {"ldap_uri", "ldap_base"}

Missing == {NoArg, EmptyArg}

ConfigLine ==
    [kind : {"blank", "bad_keyword", "open_quote", "option"},
     key : Flags \cup Strings, arg : Args \cup Missing, garbage : BOOLEAN]

ASSUME ArgsAssumption ==
    /\ Yes \subseteq Args /\ No \subseteq Args /\ Positive \subseteq Args
    /\ Yes \cap No = {}
    /\ Args \cap {NoArg, EmptyArg, NULL, Default} = {}
    /\ NULL # Default /\ NULL # EmptyArg /\ NULL # NoArg
    /\ Default # EmptyArg /\ NoArg # EmptyArg /\ Default # NoArg
    /\ ConfigFiles \subseteq Seq(ConfigLine)

VARIABLES
    file,        \* the lines of the file
    pc,          \* "open", "read", "close", "done", "crashed", "exited"
    linenum,     \* lines read so far
    bad_options, \* lines counted as bad
    flag,        \* the int options: -1 (not set), 0 or 1
    str,         \* the char * options
    auth_type,   \* -1, AUTH_TYPE_ANY (0), _LOCAL (1), _LDAP (2)
    result       \* what the call returned; -1 before it has

opts == <<flag, str, auth_type>>
vars == <<file, pc, linenum, bad_options, flag, str, auth_type, result>>

\* The structure is a global: zero before the first call.
Init ==
    /\ file \in ConfigFiles
    /\ pc = "open" /\ linenum = 0 /\ bad_options = 0
    /\ flag = [f \in Flags |-> 0]
    /\ str = [s \in Strings |-> NULL]
    /\ auth_type = 0
    /\ result = -1

free_options == str' = [s \in Strings |-> NULL]

OpenFails ==
    /\ pc = "open"
    /\ pc' = "done" /\ result' = 0
    /\ free_options
    /\ UNCHANGED <<file, linenum, bad_options, flag, auth_type>>

initialize_options ==
    /\ flag' = [f \in Flags |-> -1]
    /\ str' = [s \in Strings |-> NULL]
    /\ auth_type' = -1

Open ==
    /\ pc = "open"
    /\ pc' = "read"
    /\ initialize_options
    /\ UNCHANGED <<file, linenum, bad_options, result>>

-----------------------------------------------------------------------------
(* process_config_line                                                     *)

Line == file[linenum + 1]

\* Fault variant of Reads: the loop looks at the same line again.
Rereads(kind) ==
    /\ pc = "read" /\ linenum < Len(file)
    /\ Line.kind = kind
    /\ UNCHANGED <<file, linenum, auth_type, result>>

\* fgets has returned a line of this kind.
Reads(kind) ==
    /\ pc = "read" /\ linenum < Len(file)
    /\ Line.kind = kind
    /\ linenum' = linenum + 1
    /\ UNCHANGED <<file, auth_type, result>>

\* Fault variant of Counted: a bad line is logged and reading goes on.
Lenient(err) == UNCHANGED bad_options /\ pc' = "read"

\* The caller counts the error, and leaves the loop when told to abort.
Counted(err) ==
    /\ bad_options' = IF err # 0 THEN bad_options + 1 ELSE bad_options
    /\ pc' = IF err = -1 THEN "close" ELSE "read"

Crash == pc' = "crashed" /\ UNCHANGED bad_options

\* More text on the line: arg points into the line buffer, and freeing it is
\* undefined.  The C library aborts, or the error is reported.
EndOfLine(status) ==
    IF status = 0 /\ Line.garbage THEN Crash \/ Counted(-1) ELSE Counted(status)

BlankLine == Reads("blank") /\ Counted(0) /\ UNCHANGED <<flag, str>>

\* strdelim returned NULL, and strdup( NULL ) comes before the NULL check.
OpenQuote == Reads("open_quote") /\ Crash /\ UNCHANGED <<flag, str>>

BadKeyword == Reads("bad_keyword") /\ Counted(1) /\ UNCHANGED <<flag, str>>

FlagStatus(arg) == IF arg \in Yes \cup No THEN 0 ELSE -1

\* An argument that is neither yes nor no leaves the 0 value was given.
FlagValue(arg) == IF arg \in Yes THEN 1 ELSE 0

\* Fault variant of FirstFlag: the last line wins.
LastFlag(key, arg) == [flag EXCEPT ![key] = FlagValue(arg)]

\* if ( *intptr == -1 ) *intptr = value
FirstFlag(key, arg) ==
    IF flag[key] = -1 THEN [flag EXCEPT ![key] = FlagValue(arg)] ELSE flag

FlagLine ==
    /\ Reads("option")
    /\ Line.key \in Flags
    /\ flag' = IF Line.arg \in Missing THEN flag ELSE FirstFlag(Line.key, Line.arg)
    /\ EndOfLine(FlagStatus(Line.arg))
    /\ UNCHANGED str

\* Fault variant of StringStatus: only a NULL argument is an error.
NullStatus(key, arg) == IF arg = NoArg THEN -1 ELSE 0

StringStatus(key, arg) ==
    IF arg \in Missing \/ (key = "nc_timeout" /\ arg \notin Positive)
      THEN -1 ELSE 0

\* if ( *charptr == NULL ) *charptr = strdup( arg )
FirstString(key, arg) ==
    IF str[key] = NULL THEN [str EXCEPT ![key] = arg] ELSE str

StringLine ==
    /\ Reads("option")
    /\ Line.key \in Strings
    /\ ~(Line.arg = NoArg /\ str[Line.key] = NULL)
    /\ str' = FirstString(Line.key, Line.arg)
    /\ EndOfLine(StringStatus(Line.key, Line.arg))
    /\ UNCHANGED flag

\* status is already -1, but the strdup of a NULL argument comes first.
StrdupNull ==
    /\ Reads("option")
    /\ Line.key \in Strings
    /\ Line.arg = NoArg /\ str[Line.key] = NULL
    /\ Crash
    /\ UNCHANGED <<flag, str>>

process_config_line ==
    BlankLine \/ OpenQuote \/ BadKeyword \/ FlagLine \/ StringLine \/ StrdupNull

-----------------------------------------------------------------------------

EndOfFile ==
    /\ pc = "read" /\ linenum = Len(file)
    /\ pc' = "close"
    /\ UNCHANGED <<file, linenum, bad_options, opts, result>>

Reject ==
    /\ pc = "close" /\ bad_options > 0
    /\ pc' = "done" /\ result' = 0
    /\ free_options
    /\ UNCHANGED <<file, linenum, bad_options, flag, auth_type>>

DefaultFlags == [f \in Flags |-> IF flag[f] = -1 THEN 0 ELSE flag[f]]

\* Fault variant of DefaultAuthType: LDAP is looked at first.
LdapFirst(f) ==
    IF f["use_ldap"] = 1 THEN 2 ELSE IF f["disable_authorization"] = 1 THEN 0 ELSE 1

DefaultAuthType(f) ==
    IF f["disable_authorization"] = 1 THEN 0 ELSE IF f["use_ldap"] = 1 THEN 2 ELSE 1

fill_default_options ==
    /\ flag' = DefaultFlags
    /\ str' = [s \in Strings |-> IF s \in Defaulted /\ str[s] = NULL
                                   THEN Default ELSE str[s]]
    /\ auth_type' = DefaultAuthType(DefaultFlags)

Accept ==
    /\ pc = "close" /\ bad_options = 0
    /\ pc' = "done" /\ result' = 1
    /\ fill_default_options
    /\ UNCHANGED <<file, linenum, bad_options>>

\* No memory for a default: the process ends (fatal) before the call returns.
NoMemory ==
    /\ pc = "close" /\ bad_options = 0
    /\ \E s \in Defaulted : str[s] = NULL
    /\ pc' = "exited"
    /\ UNCHANGED <<file, linenum, bad_options, opts, result>>

Step == Open \/ process_config_line \/ EndOfFile \/ Reject \/ Accept

Ended == pc \in {"done", "crashed", "exited"} /\ UNCHANGED vars

Next == OpenFails \/ Step \/ NoMemory \/ Ended

Spec == Init /\ [][Next]_vars

\* The caller's thread of control runs the call to its end.
FairSpec == Spec /\ WF_vars(OpenFails \/ Step \/ NoMemory)

-----------------------------------------------------------------------------

Options(n, key) == file[n].kind = "option" /\ file[n].key = key

\* Line i is the first of the first n to set the option.
FirstSets(key, i, n) ==
    /\ i \in 1..n
    /\ Options(i, key)
    /\ \A j \in 1..(i - 1) : ~Options(j, key)

NeverSet(key, n) == \A i \in 1..n : ~Options(i, key)

\* A line the reader must not accept.
Faulty(line) ==
    \/ line.kind \in {"bad_keyword", "open_quote"}
    \/ /\ line.kind = "option"
       /\ \/ line.garbage
          \/ line.arg \in Missing
          \/ line.key \in Flags /\ line.arg \notin Yes \cup No
          \/ line.key = "nc_timeout" /\ line.arg \notin Positive

TypeOK ==
    /\ file \in Seq(ConfigLine)
    /\ pc \in {"open", "read", "close", "done", "crashed", "exited"}
    /\ linenum \in 0..Len(file)
    /\ bad_options \in 0..linenum
    /\ flag \in [Flags -> {-1, 0, 1}]
    /\ str \in [Strings -> Args \cup {NULL, Default, EmptyArg}]
    /\ auth_type \in {-1, 0, 1, 2}
    /\ result \in {-1, 0, 1}

\* While nothing bad was seen, every line read is sound and every option is
\* either untouched or what the first line to name it says.
Settled ==
    pc \in {"read", "close"} /\ bad_options = 0 =>
      /\ \A n \in 1..linenum : ~Faulty(file[n])
      /\ \A f \in Flags :
           \/ NeverSet(f, linenum) /\ flag[f] = -1
           \/ \E i \in 1..linenum : /\ FirstSets(f, i, linenum)
                                    /\ flag[f] = FlagValue(file[i].arg)
      /\ \A s \in Strings :
           \/ NeverSet(s, linenum) /\ str[s] = NULL
           \/ \E i \in 1..linenum : /\ FirstSets(s, i, linenum)
                                    /\ str[s] = file[i].arg

\* A count above zero has a cause.
CountedIsFaulty ==
    bad_options > 0 => \E n \in 1..linenum : Faulty(file[n])

IInv == TypeOK /\ Settled /\ CountedIsFaulty

-----------------------------------------------------------------------------

\* An accepted file has no faulty line, not even after the one that would
\* have decided; a rejected one leaves no string behind, and was rejected for
\* a faulty line or could not be opened.
AllOrNothing ==
    /\ result = 1 => \A n \in 1..Len(file) : ~Faulty(file[n])
    /\ result = 0 => /\ \A s \in Strings : str[s] = NULL
                     /\ linenum > 0 => \E n \in 1..Len(file) : Faulty(file[n])

\* Each option is what the first line to name it says, and its default when
\* no line does; later lines never change it.
FirstWins ==
    result = 1 =>
      /\ \A f \in Flags :
           /\ NeverSet(f, Len(file)) => flag[f] = 0
           /\ \A i \in 1..Len(file) :
                FirstSets(f, i, Len(file)) => (flag[f] = 1 <=> file[i].arg \in Yes)
      /\ \A s \in Strings :
           /\ NeverSet(s, Len(file)) => str[s] = IF s \in Defaulted THEN Default ELSE NULL
           /\ \A i \in 1..Len(file) :
                FirstSets(s, i, Len(file)) => str[s] = file[i].arg

\* What main and the authorization functions use without looking: strlen of
\* proxy_keyword, the paths given to fopen and execvp, and nc's -w value.
UsableOptions ==
    result = 1 =>
      /\ \A s \in Defaulted : str[s] \in Args \cup {Default}
      /\ str["nc_timeout"] \in Positive \cup {Default}
      /\ \A f \in Flags : flag[f] \in {0, 1}

\* Authorization is skipped exactly when the file asks for it, and LDAP is
\* chosen only with useLDAP on: get_auth_ldap grants everything when it is off
\* (auth_ldap.c:243).
AuthTypeFromFile ==
    result = 1 =>
      /\ auth_type = 0 <=>
           \E i \in 1..Len(file) : /\ FirstSets("disable_authorization", i, Len(file))
                                   /\ file[i].arg \in Yes
      /\ auth_type = 2 => flag["use_ldap"] = 1
      /\ auth_type # -1

\* At most how many steps are left.
StepsLeft ==
    (Len(file) - linenum) +
      CASE pc = "open"  -> 3
        [] pc = "read"  -> 2
        [] pc = "close" -> 1
        [] OTHER        -> 0

\* Every step brings the end nearer: each line is looked at once, whatever it
\* holds and whether it is counted, and nothing sends the loop back.
Advances == [][0 <= StepsLeft' /\ StepsLeft' < StepsLeft]_vars

\* Every call ends, whatever is in the file.
Terminates == <>(pc \in {"done", "crashed", "exited"})
=============================================================================
