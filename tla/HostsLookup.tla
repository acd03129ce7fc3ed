----------------------------- MODULE HostsLookup -----------------------------
(***************************************************************************)
(* gethostentry of hosts.c: one call, line by line.  The entry it returns  *)
(* is a static structure of the process, emptied at the start of the call. *)
(***************************************************************************)
EXTENDS HostsFile

CONSTANTS
    HostsFiles, \* contents of hosts.lst that are considered
    NoEntry     \* the static structure with its three pointers NULL

ASSUME HostsFilesAssumption ==
    HostsFiles \subseteq Seq(HostLine) /\ NoEntry \notin HostEntry

VARIABLES
    hostname,   \* the name asked for; NoName is a NULL pointer
    file,       \* the lines of the file
    pc,         \* "call", "read", "found" (the entry is returned), "null"
    linenum,    \* lines read so far
    he          \* the static structure

vars == <<hostname, file, pc, linenum, he>>

Init ==
    /\ hostname \in Names \cup {NoName}
    /\ file \in HostsFiles
    /\ pc = "call" /\ linenum = 0 /\ he = NoEntry

\* A NULL name, or a file that cannot be opened.
NotOpened ==
    /\ pc = "call"
    /\ pc' = "null" /\ he' = NoEntry
    /\ UNCHANGED <<hostname, file, linenum>>

Open ==
    /\ pc = "call" /\ hostname # NoName
    /\ pc' = "read" /\ he' = NoEntry
    /\ UNCHANGED <<hostname, file, linenum>>

\* Fault variant of SameHost: as many characters as were asked for.
BeginsHost(field) == <<hostname, field>> \in Begins

\* Equal length, and equal over that length.
SameHost(field) == field = hostname

Skip ==
    /\ pc = "read" /\ linenum < Len(file)
    /\ ~SameHost(file[linenum + 1].host)
    /\ linenum' = linenum + 1
    /\ UNCHANGED <<hostname, file, pc, he>>

Found ==
    /\ pc = "read" /\ linenum < Len(file)
    /\ SameHost(file[linenum + 1].host)
    /\ linenum' = linenum + 1
    /\ he' = EntryOf(file[linenum + 1])
    /\ pc' = "found"
    /\ UNCHANGED <<hostname, file>>

NotFound ==
    /\ pc = "read" /\ linenum = Len(file)
    /\ pc' = "null"
    /\ UNCHANGED <<hostname, file, linenum, he>>

Returned == pc \in {"found", "null"} /\ UNCHANGED vars

Next == NotOpened \/ Open \/ Skip \/ Found \/ NotFound \/ Returned

Spec == Init /\ [][Next]_vars

-----------------------------------------------------------------------------

TypeOK ==
    /\ hostname \in Names \cup {NoName}
    /\ file \in Seq(HostLine)
    /\ pc \in {"call", "read", "found", "null"}
    /\ linenum \in 0..Len(file)
    /\ he \in HostEntry \cup {NoEntry}

\* The inductive invariant: no line left behind has the host asked for.
IInv ==
    /\ TypeOK
    /\ pc = "call" => linenum = 0
    /\ pc \in {"read", "found"} => hostname # NoName
    /\ pc \in {"read", "null"} =>
         \A n \in 1..linenum : file[n].host # hostname
    /\ pc = "null" /\ linenum > 0 => linenum = Len(file)
    /\ pc = "found" <=> he # NoEntry
    /\ pc = "found" => /\ IsEntry(hostname, file, linenum)
                       /\ he = EntryOf(file[linenum])

\* The entry returned is that of the first line with exactly the host asked
\* for: with port 22 where the line gives none, and with no port at all, which
\* nc or ssh will refuse, where it gives only blanks (hosts.c:81-88).  NULL is
\* returned only when no line has the host or nothing was read.
LookupDecides ==
    /\ pc = "found" =>
         \A n \in 1..Len(file) :
            IsEntry(hostname, file, n) =>
               /\ he.host = hostname
               /\ he.countries = file[n].countries
               /\ file[n].port \in Ports => he.port = file[n].port
               /\ file[n].port = NoPort => he.port = "22"
               /\ file[n].port = BlankPort => he.port = ""
    /\ pc = "found" => HasEntry(hostname, file)
    /\ pc = "null" /\ linenum > 0 => ~HasEntry(hostname, file)

\* To the caller the call is one step: the entry the file has for the name, or
\* NULL; and the static structure is the caller's from then on.
K == INSTANCE Call WITH
       permitted <- {NoEntry} \cup {e \in EntriesFor(hostname, file) : hostname # NoName},
       returned  <- IF pc \in {"found", "null"} THEN {he} ELSE {}

AnswersOnce == K!CSpec
=============================================================================
