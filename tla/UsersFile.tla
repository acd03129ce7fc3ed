------------------------------ MODULE UsersFile ------------------------------
(***************************************************************************)
(* users.lst as auth_local.c reads it: a sequence of lines, each a user    *)
(* field and a list of host entries with an optional trailing '+'.         *)
(*                                                                         *)
(* get_auth_file compares a name asked for with a field of the file by     *)
(* strncasecmp(name, field, strlen(name)), the relation Begins.  A blank or*)
(* comment line is a line whose user field is NoName, which nothing begins.*)
(***************************************************************************)
EXTENDS Names, Naturals, Sequences

CONSTANT LineCap    \* host entries that fit in the buffer fgets fills

ASSUME LineCapAssumption == LineCap \in Nat

Entry == [name : Names, plus : BOOLEAN]
UserLine == [user : Names \cup {NoName}, hosts : Seq(Entry)]

\* strncasecmp(wanted, field, strlen(wanted)) == 0
Matches(wanted, field) == <<wanted, field>> \in Begins

\* Fault variant of Visible: the buffer is one entry too short.
VisibleShort(line) ==
    IF Len(line.hosts) < LineCap THEN line.hosts
                                 ELSE SubSeq(line.hosts, 1, LineCap - 1)

\* Fault variant of Visible: the whole line, however long.
VisibleWhole(line) == line.hosts

\* The host entries of a line that the first fgets returns.  What is left of
\* a longer line is what the next fgets returns, a line of its own: without a
\* ':' its host list is NULL and it grants nothing, so that it need not be
\* written; with one, out of a further field or a comment, it is read for
\* whatever user its text begins with, and is one more line of the file.
\* The cut is taken to fall between two entries: a shortened entry comes last,
\* matches no more names than the whole one, and carries no '+'.
Visible(line) ==
    IF Len(line.hosts) <= LineCap THEN line.hosts
                                  ELSE SubSeq(line.hosts, 1, LineCap)

\* The entry of the list that the scan of one line stops at, as an index.
DecidingEntry(hosts, host, i) ==
    /\ i \in 1..Len(hosts)
    /\ Matches(host, hosts[i].name)
    /\ \A j \in 1..(i - 1) : ~Matches(host, hosts[j].name)

\* A line grants when its user field matches and the first entry that matches
\* the host carries the '+' a proxy request needs.
LineGrants(user, host, proxy, line) ==
    /\ Matches(user, line.user)
    /\ \E i \in 1..Len(Visible(line)) :
         /\ DecidingEntry(Visible(line), host, i)
         /\ proxy => Visible(line)[i].plus

\* What get_auth_file answers, without the order it reads things in.
FileGrants(user, host, proxy, file) ==
    \E n \in 1..Len(file) : LineGrants(user, host, proxy, file[n])

\* The values a call can return: the file may not open, and a grant needs a line.
FileAnswers(user, host, proxy, file) ==
    {0} \cup {a \in {1} : FileGrants(user, host, proxy, file)}

-----------------------------------------------------------------------------
(* The manual's reading of the same file (users.lst.pod:11-19).            *)

\* The user is named by a line of the file.
Listed(user, file) == \E n \in 1..Len(file) : file[n].user = user

\* The line permits the host, and permits it in proxy mode when asked for it.
Permits(host, proxy, line) ==
    \E i \in 1..Len(line.hosts) :
       /\ line.hosts[i].name = host
       /\ proxy => line.hosts[i].plus

\* "a single line should be present" for the user, permitting the host.
ManualGrants(user, host, proxy, file) ==
    \E n \in 1..Len(file) :
       file[n].user = user /\ Permits(host, proxy, file[n])

\* Every line fits in the buffer.
Fits(file) == \A n \in 1..Len(file) : Len(file[n].hosts) <= LineCap

\* The files on which the code and the manual must agree: no name in the file
\* merely begins with a name asked for, and no line lists a host twice.
Plain(user, host, file) ==
    \A n \in 1..Len(file) :
       /\ Matches(user, file[n].user) => file[n].user = user
       /\ \A i \in 1..Len(file[n].hosts) :
            Matches(host, file[n].hosts[i].name) => file[n].hosts[i].name = host
       /\ \A i, j \in 1..Len(file[n].hosts) :
            file[n].hosts[i].name = file[n].hosts[j].name => i = j
=============================================================================
