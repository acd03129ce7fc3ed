------------------------------ MODULE AuthLocal ------------------------------
(***************************************************************************)
(* get_auth_file of auth_local.c: one call, from its arguments to the      *)
(* value it returns, one action per line read and per host entry tested.   *)
(* The scan carries two flags from entry to entry and from line to line,   *)
(* auth and can_proxy; what matters is that no '+' of one entry is ever    *)
(* spent on another.                                                       *)
(***************************************************************************)
EXTENDS UsersFile

CONSTANTS
    UsersFiles, \* contents of users.lst that are considered
    Requests    \* arguments [user, host, proxy] of a call

ASSUME FilesAssumption ==
    /\ UsersFiles \subseteq Seq(UserLine)
    /\ Requests \subseteq [user : Names \cup {NoName},
                           host : Names \cup {NoName}, proxy : BOOLEAN]

VARIABLES
    args,       \* the call's arguments
    file,       \* the lines of the file being read
    pc,         \* "open", "read" (the fgets loop), "entry" (the strtok loop), "done"
    linenum,    \* lines read so far
    entry,      \* the host entry about to be tested
    can_proxy,  \* 1 when the entry being tested carries a '+'
    auth        \* AUTH_LOCAL_FAILURE (0) or AUTH_LOCAL_SUCCESS (1)

vars == <<args, file, pc, linenum, entry, can_proxy, auth>>

Init ==
    /\ args \in Requests
    /\ file \in UsersFiles
    /\ pc = "open"
    /\ linenum = 0
    /\ entry = 0
    /\ can_proxy = 0
    /\ auth = 0

\* A NULL argument, or a file that cannot be opened: the answer is FAILURE.
OpenFails ==
    /\ pc = "open"
    /\ pc' = "done"
    /\ UNCHANGED <<args, file, linenum, entry, can_proxy, auth>>

Open ==
    /\ pc = "open"
    /\ args.user # NoName /\ args.host # NoName
    /\ pc' = "read"
    /\ UNCHANGED <<args, file, linenum, entry, can_proxy, auth>>

\* The host list of the line last read, cut where the buffer ends.
Hosts == Visible(file[linenum])

\* One turn of the outer loop: read a line; enter its host list only when the
\* user field matches and the list is not empty.
ReadLine ==
    /\ pc = "read" /\ auth = 0 /\ linenum < Len(file)
    /\ linenum' = linenum + 1
    /\ IF Matches(args.user, file[linenum + 1].user)
            /\ Visible(file[linenum + 1]) # <<>>
         THEN pc' = "entry" /\ entry' = 1
         ELSE UNCHANGED <<pc, entry>>
    /\ UNCHANGED <<args, file, can_proxy, auth>>

\* The '+' is stripped from the entry and remembered.
StripPlus == IF Hosts[entry].plus THEN 1 ELSE can_proxy

\* The host matches: this entry decides for the line, and the loop is left
\* without resetting can_proxy.
EntryMatches ==
    /\ pc = "entry"
    /\ Matches(args.host, Hosts[entry].name)
    /\ can_proxy' = StripPlus
    /\ auth' = IF can_proxy' = 0 /\ args.proxy THEN 0 ELSE 1
    /\ pc' = "read"
    /\ UNCHANGED <<args, file, linenum, entry>>

\* can_proxy = 0 at the end of every turn of the inner loop.
ResetPlus == 0

\* Fault variant of NextEntry: the list is never advanced.
SameEntry == entry

\* hostname = strtok( NULL, "," ).
NextEntry == entry + 1

EntryDiffers ==
    /\ pc = "entry"
    /\ ~Matches(args.host, Hosts[entry].name)
    /\ can_proxy' = ResetPlus
    /\ IF entry < Len(Hosts)
         THEN entry' = NextEntry /\ UNCHANGED pc
         ELSE pc' = "read" /\ UNCHANGED entry
    /\ UNCHANGED <<args, file, linenum, auth>>

\* End of the file, or a grant: the file is closed and auth returned.
Return ==
    /\ pc = "read"
    /\ auth = 1 \/ linenum = Len(file)
    /\ pc' = "done"
    /\ UNCHANGED <<args, file, linenum, entry, can_proxy, auth>>

Step == Open \/ ReadLine \/ EntryMatches \/ EntryDiffers \/ Return

\* The call has returned; nothing of it moves any more.
Returned == pc = "done" /\ UNCHANGED vars

Next == OpenFails \/ Step \/ Returned

Spec == Init /\ [][Next]_vars

\* The caller's thread of control runs the call to its end.
FairSpec == Spec /\ WF_vars(OpenFails \/ Step)

-----------------------------------------------------------------------------

TypeOK ==
    /\ args \in Requests
    /\ file \in Seq(UserLine)
    /\ pc \in {"open", "read", "entry", "done"}
    /\ linenum \in 0..Len(file)
    /\ entry \in Nat
    /\ can_proxy \in {0, 1}
    /\ auth \in {0, 1}

\* The inductive invariant behind the properties below.
\* While auth is 0, no line already left behind grants; and a scan that
\* returns 0 has left every line behind.
NothingMissed ==
    /\ pc = "open" => linenum = 0 /\ auth = 0
    /\ auth = 0 =>
         \A n \in 1..(IF pc = "entry" THEN linenum - 1 ELSE linenum) :
            ~LineGrants(args.user, args.host, args.proxy, file[n])
    /\ pc = "done" /\ auth = 0 /\ linenum > 0 => linenum = Len(file)

\* Inside a host list: it is the matching user's, nothing before the entry
\* matches; and no '+' is carried over from an earlier entry or line.
InsideList ==
    /\ auth = 0 => can_proxy = 0
    /\ pc = "entry" =>
         /\ auth = 0
         /\ linenum \in 1..Len(file)
         /\ entry \in 1..Len(Hosts)
         /\ Matches(args.user, file[linenum].user)
         /\ \A j \in 1..(entry - 1) : ~Matches(args.host, Hosts[j].name)

GrantIsReal ==
    auth = 1 => FileGrants(args.user, args.host, args.proxy, file)

IInv == TypeOK /\ NothingMissed /\ InsideList /\ GrantIsReal

-----------------------------------------------------------------------------

\* A scan that reached the end of the file, or a grant, has decided exactly
\* what the file as a whole says, whatever the order of its lines and entries.
\* A '+' carried from one entry to the next would break it.
ScanDecides ==
    pc = "done" /\ linenum > 0 =>
       (auth = 1 <=> FileGrants(args.user, args.host, args.proxy, file))

\* On a plain file (no name begins another, no host listed twice in a line) a
\* yes is the manual's: a line names the user and the host, with a '+' when
\* proxy mode is asked for (users.lst.pod:11-19), however the buffer has cut the
\* lines.  Where it cuts none, a no is the manual's too.
AgreesWithManual ==
    pc = "done" /\ linenum > 0 /\ Plain(args.user, args.host, file) =>
       /\ auth = 1 => ManualGrants(args.user, args.host, args.proxy, file)
       /\ Fits(file) /\ ManualGrants(args.user, args.host, args.proxy, file)
            => auth = 1

\* To the caller the call is one step: one of the answers the file permits, and
\* never another; which line gave it, or how far the scan has got, is not seen.
K == INSTANCE Call WITH
       permitted <- FileAnswers(args.user, args.host, args.proxy, file),
       returned  <- IF pc = "done" THEN {auth} ELSE {}

AnswersOnce == K!CSpec

\* At most how many steps are left: of every line still to be read the buffer
\* holds at most LineCap entries.
StepsLeft ==
    (Len(file) - linenum) * (LineCap + 1) +
      CASE pc = "open"  -> 2
        [] pc = "read"  -> 1
        [] pc = "entry" -> Len(Hosts) - entry + 2
        [] pc = "done"  -> 0

\* Every step of the two nested loops brings the end nearer, so that no call
\* takes more than two steps and LineCap + 1 for every line of the file.
Advances == [][0 <= StepsLeft' /\ StepsLeft' < StepsLeft]_vars

\* The answer comes: no list or file keeps the loops turning forever.
Terminates == <>(pc = "done")

-----------------------------------------------------------------------------
(* What users.lst.pod says and the code does not do (violation runs).      *)

\* "Access is immediately denied if the user is not found." (users.lst.pod:11)
UnlistedUserDenied ==
    pc = "done" /\ ~Listed(args.user, file) => auth = 0
=============================================================================
