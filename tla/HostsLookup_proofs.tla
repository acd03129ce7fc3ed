------------------------- MODULE HostsLookup_proofs -------------------------
(***************************************************************************)
(* gethostentry returns the entry of the first line that has the host      *)
(* asked for, or NULL, on every hosts.lst.                                 *)
(***************************************************************************)
EXTENDS HostsLookup, TLAPS

\* What is copied out of a line with a host is a host entry.
LEMMA EntryType ==
    ASSUME NEW line \in HostLine, line.host # NoName
    PROVE  EntryOf(line) \in HostEntry
  BY PortsAssumption DEF EntryOf, PortOf, HostLine, HostEntry

LEMMA InitInv == Init => IInv
  BY HostsFilesAssumption DEF Init, IInv, TypeOK

LEMMA StepInv == IInv /\ [Next]_vars => IInv'
<1> SUFFICES ASSUME IInv, [Next]_vars PROVE IInv'
  OBVIOUS
<1> USE DEF IInv, TypeOK
<1>1. CASE NotOpened
  BY <1>1 DEF NotOpened
<1>2. CASE Open
  BY <1>2 DEF Open
<1>3. CASE Skip
  <2>1. /\ linenum + 1 \in 1..Len(file) /\ linenum' = linenum + 1
        /\ file[linenum + 1].host # hostname
        /\ pc = "read" /\ UNCHANGED <<hostname, file, pc, he>>
    BY <1>3 DEF Skip, SameHost
  <2>2. \A n \in 1..(linenum + 1) : file[n].host # hostname
    BY <2>1
  <2>3. hostname # NoName
    BY <2>1, <1>3 DEF Skip
  <2> QED BY <2>1, <2>2, <2>3
<1>4. CASE Found
  <2>1. /\ linenum + 1 \in 1..Len(file) /\ linenum' = linenum + 1
        /\ file[linenum + 1].host = hostname
        /\ he' = EntryOf(file[linenum + 1])
        /\ pc = "read" /\ pc' = "found" /\ UNCHANGED <<hostname, file>>
    BY <1>4 DEF Found, SameHost
  <2>2. file[linenum + 1] \in HostLine
    BY <2>1
  <2>3. hostname # NoName
    BY <2>1
  <2>4. he' \in HostEntry
    BY <2>1, <2>2, <2>3, EntryType
  <2>5. he' # NoEntry
    BY <2>4, HostsFilesAssumption
  <2>6. IsEntry(hostname, file, linenum + 1)
    BY <2>1 DEF IsEntry
  <2> QED BY <2>1, <2>3, <2>4, <2>5, <2>6 DEF IsEntry
<1>5. CASE NotFound
  BY <1>5 DEF NotFound
<1>6. CASE Returned
  BY <1>6 DEF Returned, vars
<1>7. CASE UNCHANGED vars
  BY <1>7 DEF vars
<1> QED
  BY <1>1, <1>2, <1>3, <1>4, <1>5, <1>6, <1>7 DEF Next

\* Behind the scan no line has the host asked for, and the entry returned is
\* the one at which it stopped: the invariant of gethostentry's loop.
THEOREM LookupInvariant == Spec => []IInv
<1>1. IInv /\ [Next]_vars => IInv'
  BY StepInv
<1> QED
  BY <1>1, InitInv, PTL DEF Spec

\* Two entries of one name are one line.
LEMMA OneEntry ==
    ASSUME NEW name, NEW f, NEW m, NEW n,
           m \in 1..Len(f), n \in 1..Len(f), Len(f) \in Nat,
           IsEntry(name, f, m), IsEntry(name, f, n)
    PROVE  m = n
<1>1. ~(m < n)
  BY DEF IsEntry
<1>2. ~(n < m)
  BY DEF IsEntry
<1> QED
  BY <1>1, <1>2

LEMMA InvDecides == IInv => LookupDecides
<1> SUFFICES ASSUME IInv PROVE LookupDecides
  OBVIOUS
<1> USE DEF IInv, TypeOK
<1>1. ASSUME pc = "found", NEW n \in 1..Len(file), IsEntry(hostname, file, n)
      PROVE  /\ he.host = hostname
             /\ he.countries = file[n].countries
             /\ file[n].port \in Ports => he.port = file[n].port
             /\ file[n].port = NoPort => he.port = "22"
             /\ file[n].port = BlankPort => he.port = ""
  <2>1. linenum \in 1..Len(file) /\ IsEntry(hostname, file, linenum)
    BY <1>1 DEF IsEntry
  <2>2. n = linenum
    BY <1>1, <2>1, OneEntry
  <2>3. he = EntryOf(file[n]) /\ file[n].host = hostname
    BY <1>1, <2>1, <2>2 DEF IsEntry
  <2> QED
    BY <2>3, PortsAssumption DEF EntryOf, PortOf
<1>2. pc = "found" => HasEntry(hostname, file)
  BY DEF HasEntry, IsEntry
<1>3. pc = "null" /\ linenum > 0 => ~HasEntry(hostname, file)
  BY DEF HasEntry
<1> QED
  BY <1>1, <1>2, <1>3 DEF LookupDecides

\* However long hosts.lst is and whatever its lines hold, gethostentry returns
\* the first line's entry for the host, and NULL after a full scan only when
\* no line has it.
THEOREM LookupIsCorrect == Spec => []LookupDecides
<1> QED
  BY LookupInvariant, InvDecides, PTL

-----------------------------------------------------------------------------

\* What has been returned stays, and so does what it was asked of.
LEMMA ReturnsLast ==
    ASSUME Next
    PROVE  /\ UNCHANGED <<hostname, file>>
           /\ pc \in {"found", "null"} => UNCHANGED <<pc, he>>
BY DEF Next, NotOpened, Open, Skip, Found, NotFound, Returned, vars

\* The structure is the entry the file has for the name, or empty.
LEMMA PermittedEntry ==
    ASSUME IInv, pc \in {"found", "null"}
    PROVE  he \in {NoEntry} \cup {e \in EntriesFor(hostname, file) : hostname # NoName}
<1> USE DEF IInv
<1>1. CASE pc = "found"
  <2>1. linenum \in {m \in 1..Len(file) : IsEntry(hostname, file, m)}
    BY <1>1 DEF IsEntry
  <2>2. he \in EntriesFor(hostname, file) /\ hostname # NoName
    BY <1>1, <2>1 DEF EntriesFor
  <2> QED BY <2>2
<1>2. CASE pc = "null"
  BY <1>2
<1> QED BY <1>1, <1>2

\* For its caller, a lookup is one step: NULL, or the entry of hosts.lst as the
\* file was while it was read.
THEOREM LookupIsOneStep == Spec => AnswersOnce
<1>1. Init => K!CInit
  BY DEF Init, K!CInit
<1> DEFINE Answer == {NoEntry} \cup {e \in EntriesFor(hostname, file) : hostname # NoName}
           Permits == pc \in {"found", "null"} => he \in Answer
<1>2. IInv => Permits
  BY PermittedEntry
<1>3. Permits' /\ [Next]_vars
        => [K!CReturn]_<<{NoEntry} \cup {e \in EntriesFor(hostname, file) : hostname # NoName},
                         IF pc \in {"found", "null"} THEN {he} ELSE {}>>
  <2> DEFINE permitted == Answer
             returned  == IF pc \in {"found", "null"} THEN {he} ELSE {}
  <2> SUFFICES ASSUME Permits', [Next]_vars
               PROVE  K!CReturn \/ UNCHANGED <<permitted, returned>>
    OBVIOUS
  <2>1. UNCHANGED permitted /\ (pc \in {"found", "null"} => UNCHANGED returned)
    BY ReturnsLast DEF vars
  <2>2. CASE pc \in {"found", "null"} \/ pc' \notin {"found", "null"}
    BY <2>1, <2>2
  <2>3. CASE pc \notin {"found", "null"} /\ pc' \in {"found", "null"}
    <3>1. he' \in permitted'
      BY <2>3
    <3> QED BY <2>1, <2>3, <3>1 DEF K!CReturn
  <2> QED BY <2>2, <2>3
<1> QED BY <1>1, <1>2, <1>3, LookupInvariant, PTL DEF Spec, K!CSpec, AnswersOnce
=============================================================================
