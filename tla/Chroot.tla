-------------------------------- MODULE Chroot --------------------------------
(***************************************************************************)
(* The chroot directory of one user: pam_script_ses_open builds or         *)
(* refreshes it at every login, pam_script_ses_close removes it when it    *)
(* counts no session inside.  The scripts of several sessions interleave,  *)
(* and may be killed.  No command of them is checked for failure: what     *)
(* cannot be made is skipped.  sshd, between the scripts, is external.     *)
(***************************************************************************)
CONSTANT Sessions

\* What the script makes, in this order, in a directory it finds missing, and
\* the configuration files it copies every time.
Built == {"dirs", "apps", "devices", "lib64", "accounts", "links"}
Parts == Built \cup {"config"}

\* What must be there for a part to be made.  The directories of the
\* applications are made with them.
Needs(p) ==
    CASE p = "links" -> {"dirs", "apps"}
      [] p \in {"devices", "accounts", "config"} -> {"dirs"}
      [] OTHER -> {}

\* What lies in the directories and keeps them from going.  Everything else is a
\* file that can be unlinked whatever else is there: a binary, or the link to it.
Contents(p) ==
    IF p = "dirs" THEN {"devices", "accounts", "links", "config"} ELSE {}

VARIABLES
    exists,     \* the directory is there
    parts,      \* what is in it
    pc,         \* where each session is; at a part: about to make it
    todo,       \* what the rm of a session has found and not yet removed
    cut,        \* history: a script or session was killed ...
    raced       \* ... a removal met a login; and it still tells

vars == <<exists, parts, pc, todo, cut, raced>>

Init ==
    /\ exists = FALSE /\ parts = {}
    /\ pc = [s \in Sessions |-> "out"] /\ todo = [s \in Sessions |-> {}]
    /\ cut = FALSE /\ raced = FALSE

\* Between the look at the directory and the entry into it.
Building == Built
Copying == {"refresh", "config"}
Opening == {"mkdir"} \cup Building \cup Copying \cup {"enter"}

Go(s, from, to) == pc[s] = from /\ pc' = [pc EXCEPT ![s] = to]

\* The part is made where it can be.
With(p) == IF exists /\ Needs(p) \subseteq parts THEN parts \cup {p} ELSE parts

Make(s, p, next) ==
    /\ Go(s, p, next)
    /\ parts' = With(p)
    /\ UNCHANGED <<exists, todo>>

-----------------------------------------------------------------------------
(* pam_script_ses_open                                                     *)

Login(s) == Go(s, "out", "check") /\ UNCHANGED <<exists, parts, todo>>

\* A directory that exists is taken for a complete one.
CheckDir(s) ==
    /\ Go(s, "check", IF exists THEN "refresh" ELSE "mkdir")
    /\ UNCHANGED <<exists, parts, todo>>

\* Another login may have been quicker.
MkDir(s) ==
    /\ Go(s, "mkdir", "dirs")
    /\ exists' = TRUE
    /\ UNCHANGED <<parts, todo>>

MakeDirs(s) == Make(s, "dirs", "apps")

\* mkdir -p, which makes the root directory again if it has gone.
CopyApps(s) ==
    /\ Go(s, "apps", "devices")
    /\ exists' = TRUE /\ parts' = parts \cup {"apps"}
    /\ UNCHANGED todo

MakeDevices(s) == Make(s, "devices", "lib64")

\* Where cd fails the link is made, but not here.
LinkLib64(s) == Make(s, "lib64", "accounts")

WriteAccounts(s) == Make(s, "accounts", "links")

\* ssh and nc where the configuration wants them, the log, the shell.
MakeLinks(s) == Make(s, "links", "refresh")

\* cp truncates the file it copies onto.
Refresh(s) ==
    /\ Go(s, "refresh", "config")
    /\ parts' = parts \ {"config"}
    /\ UNCHANGED <<exists, todo>>

CopyConfig(s) == Make(s, "config", "enter")

-----------------------------------------------------------------------------
(* sshd                                                                    *)

\* Changes to the directory, or fails and ends the session.
Enter(s) ==
    /\ Go(s, "enter", IF exists THEN "in" ELSE "count")
    /\ UNCHANGED <<exists, parts, todo>>

Leave(s) == Go(s, "in", "count") /\ UNCHANGED <<exists, parts, todo>>

-----------------------------------------------------------------------------
(* pam_script_ses_close                                                    *)

\* Fault variants of SessionsLeft: the pattern never matches, or matches the
\* user's sessions wherever they are.
NoneLeft == {}
AnyLeft == {s \in Sessions : pc[s] # "out"}

\* lsof lists the sessions whose working directory is the user's.
SessionsLeft == {s \in Sessions : pc[s] = "in"}

\* The count, and what rm -rf finds when it begins.
Count(s) ==
    /\ Go(s, "count", IF SessionsLeft = {} THEN "rm" ELSE "out")
    /\ todo' = [todo EXCEPT ![s] = IF SessionsLeft = {} THEN parts ELSE {}]
    /\ UNCHANGED <<exists, parts>>

\* Contents first, in any order; what is made meanwhile may be met too, or keep
\* the directory it is in from going.
Remove(s, p) ==
    /\ pc[s] = "rm" /\ p \in todo[s] \cup parts
    /\ todo[s] \cap Contents(p) = {}
    /\ todo' = [todo EXCEPT ![s] = @ \ {p}]
    /\ parts' = IF parts \cap Contents(p) = {} THEN parts \ {p} ELSE parts
    /\ UNCHANGED <<exists, pc>>

RemoveRoot(s) ==
    /\ Go(s, "rm", "out") /\ todo[s] = {}
    /\ exists' = (exists /\ parts # {})
    /\ UNCHANGED <<parts, todo>>

-----------------------------------------------------------------------------

\* The connection or the machine goes down: nothing more of the session runs.
Killed(s) ==
    /\ pc[s] # "out"
    /\ pc' = [pc EXCEPT ![s] = "out"] /\ todo' = [todo EXCEPT ![s] = {}]
    /\ UNCHANGED <<exists, parts>>

\* Nothing is left of the past.
Fresh == ~exists /\ \A s \in Sessions : pc[s] = "out"

\* A removal begins, with all that is there in hand; nobody else is at work.
Begins(s) == pc[s] = "count" /\ pc'[s] = "rm"
Alone(s) == \A t \in Sessions \ {s} : pc[t] \notin Opening \cup {"rm"}

\* A removal is under way while a login relies on what it saw.
Race == \E s, t \in Sessions : pc[s] = "rm" /\ pc[t] \in Opening

Script(s) ==
    \/ Login(s) \/ CheckDir(s) \/ MkDir(s) \/ MakeDirs(s) \/ CopyApps(s)
    \/ MakeDevices(s) \/ LinkLib64(s) \/ WriteAccounts(s) \/ MakeLinks(s)
    \/ Refresh(s) \/ CopyConfig(s) \/ Enter(s) \/ Leave(s) \/ Count(s)
    \/ \E p \in Parts : Remove(s, p)
    \/ RemoveRoot(s)

\* The next removal mends what a killing has spoiled; what a race has spoiled,
\* the next removal that is alone.
Next ==
    \E s \in Sessions :
      /\ \/ Script(s) /\ cut' = (cut /\ ~Fresh' /\ ~Begins(s))
         \/ Killed(s) /\ cut' = ~Fresh'
      /\ raced' = (Race' \/ (raced /\ ~Fresh' /\ ~(Begins(s) /\ Alone(s))))

Spec == Init /\ [][Next]_vars

-----------------------------------------------------------------------------

Places == {"out", "check", "in", "count", "rm"} \cup Opening

TypeOK ==
    /\ exists \in BOOLEAN /\ parts \subseteq Parts
    /\ pc \in [Sessions -> Places] /\ todo \in [Sessions -> SUBSET Parts]
    /\ cut \in BOOLEAN /\ raced \in BOOLEAN

\* Nothing hangs in the air.
Rooted ==
    /\ ~exists => parts = {}
    /\ parts \cap Contents("dirs") # {} => "dirs" \in parts

\* A session that has yet to count will see to the directory; so will a removal
\* that has all of it in hand.
SeenTo ==
    exists /\ ~cut =>
      \/ \E s \in Sessions : pc[s] \in Opening \cup {"in", "count"}
      \/ \E s \in Sessions : pc[s] = "rm" /\ parts \subseteq todo[s]

\* The parts made before p.
Before(p) ==
    CASE p = "dirs"     -> {}
      [] p = "apps"     -> {"dirs"}
      [] p = "devices"  -> {"dirs", "apps"}
      [] p = "lib64"    -> {"dirs", "apps", "devices"}
      [] p = "accounts" -> {"dirs", "apps", "devices", "lib64"}
      [] p = "links"    -> Built \ {"links"}

At(places) == \E s \in Sessions : pc[s] \in places

\* With no race, a removal has the directory to itself, and all of it in hand.
Undisturbed ==
    ~raced =>
      /\ At({"rm"}) => ~At(Opening \cup {"in"})
      /\ \A s \in Sessions : pc[s] = "rm" => parts \subseteq todo[s]

\* With no race and no killing a session has what it has made, and a directory
\* nobody works on is complete.
Orderly ==
    ~cut /\ ~raced =>
      /\ \A s \in Sessions :
           /\ pc[s] \in Building => Before(pc[s]) \subseteq parts
           /\ pc[s] \in (Opening \ {"mkdir"}) \cup {"in"} => exists
      /\ exists /\ ~At({"rm"} \cup Building) =>
           /\ Built \subseteq parts
           /\ ~At(Copying) => "config" \in parts

IInv == TypeOK /\ Rooted /\ SeenTo /\ Undisturbed /\ Orderly

\* However logins, logouts and removals interleave, the directory is gone once
\* the last session is, unless a script or a session was killed and no removal
\* has begun since: what a killing leaves behind, the next session to come and
\* go takes with it.
LastOneCleansUp == ~cut /\ (\A s \in Sessions : pc[s] = "out") => ~exists

\* What a login has still to make, or to make again.
ToCome(s) ==
    CASE pc[s] \in Building -> Parts \ Before(pc[s])
      [] pc[s] \in Copying -> {"config"}
      [] OTHER -> {}

\* A session that entered a directory another login is building, or copying
\* into (pam_script_ses_open:80,182), misses at every moment only what such a
\* login is still to make, and everything is there once none is at work: unless
\* a killing or a removal that met a login has spoiled it, which lasts no longer
\* than until a removal begins that meets none.
InsideIsComplete ==
    ~cut /\ ~raced /\ At({"in"}) =>
      exists /\ Parts \subseteq parts \cup UNION {ToCome(t) : t \in Sessions}

-----------------------------------------------------------------------------
(* What the comment of the script says and the scripts do not do (violation *)
(* run).                                                                   *)

\* "clean up the user's chrooted environment when their last session closes"
\* (pam_script_ses_close:6-7): never while another one has it as its root.
RemovedAfterTheLast == \A s \in Sessions : pc[s] = "in" => exists
=============================================================================
