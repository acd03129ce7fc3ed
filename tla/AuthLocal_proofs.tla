--------------------------- MODULE AuthLocal_proofs ---------------------------
(***************************************************************************)
(* For every relation Begins, every buffer size and every users.lst: the   *)
(* scan of get_auth_file decides exactly what the file says.               *)
(***************************************************************************)
EXTENDS AuthLocal, TLAPS

\* What fgets returns of a line is a list of entries, never longer than the
\* line's own.
LEMMA VisibleType ==
    ASSUME NEW line \in UserLine
    PROVE  Visible(line) \in Seq(Entry)
<1>1. line.hosts \in Seq(Entry)
  BY DEF UserLine
<1>2. CASE Len(line.hosts) <= LineCap
  BY <1>1, <1>2 DEF Visible
<1>3. CASE ~(Len(line.hosts) <= LineCap)
  <2>1. /\ LineCap \in Nat
        /\ Len(line.hosts) \in Nat
        /\ \A i \in 1..LineCap : line.hosts[i] \in Entry
    BY <1>1, <1>3, LineCapAssumption
  <2>2. SubSeq(line.hosts, 1, LineCap) \in Seq(Entry)
    BY <1>1, <2>1
  <2> QED BY <1>3, <2>2 DEF Visible
<1> QED BY <1>2, <1>3

\* Once the entries before i are known not to match and entry i is known to,
\* entry i alone decides: the line grants when i carries the '+' needed.
LEMMA FirstMatchDecides ==
    ASSUME NEW user, NEW host, NEW proxy \in BOOLEAN, NEW line \in UserLine,
           NEW i \in 1..Len(Visible(line)),
           Matches(user, line.user),
           Matches(host, Visible(line)[i].name),
           \A j \in 1..(i - 1) : ~Matches(host, Visible(line)[j].name)
    PROVE  LineGrants(user, host, proxy, line)
             <=> (proxy => Visible(line)[i].plus)
<1>1. Len(Visible(line)) \in Nat
  BY VisibleType
<1>2. DecidingEntry(Visible(line), host, i)
  BY DEF DecidingEntry
<1>3. ASSUME NEW k \in 1..Len(Visible(line)),
             DecidingEntry(Visible(line), host, k)
      PROVE  k = i
  <2>1. ~(k < i)
    BY <1>1, <1>3 DEF DecidingEntry
  <2>2. ~(i < k)
    BY <1>1, <1>3 DEF DecidingEntry
  <2> QED BY <1>1, <2>1, <2>2
<1>4. LineGrants(user, host, proxy, line)
        => (proxy => Visible(line)[i].plus)
  BY <1>3 DEF LineGrants
<1> QED BY <1>2, <1>4 DEF LineGrants

\* A line with no matching entry, or of another user, grants nothing.
LEMMA NoMatchNoGrant ==
    ASSUME NEW user, NEW host, NEW proxy, NEW line,
           \/ ~Matches(user, line.user)
           \/ \A j \in 1..Len(Visible(line)) :
                 ~Matches(host, Visible(line)[j].name)
    PROVE  ~LineGrants(user, host, proxy, line)
BY DEF LineGrants, DecidingEntry

-----------------------------------------------------------------------------

\* The scan starts in the invariant.
LEMMA InitIInv == Init => IInv
<1> SUFFICES ASSUME Init PROVE IInv
  OBVIOUS
<1>1. TypeOK
  BY FilesAssumption DEF Init, TypeOK
<1>2. NothingMissed
  BY DEF Init, NothingMissed
<1> QED BY <1>1, <1>2 DEF Init, IInv, InsideList, GrantIsReal

\* Reading a line: the line just read is skipped for good only when it has no
\* chance of granting.
LEMMA ReadLineIInv ==
    ASSUME IInv, ReadLine
    PROVE  IInv'
<1> USE DEF IInv, TypeOK
<1>1. file[linenum + 1] \in UserLine /\ linenum + 1 \in 1..Len(file)
  BY DEF ReadLine
<1>2. Visible(file[linenum + 1]) \in Seq(Entry)
  BY <1>1, VisibleType
<1>3. TypeOK'
  BY <1>1 DEF ReadLine
<1>4. CASE /\ Matches(args.user, file[linenum + 1].user)
           /\ Visible(file[linenum + 1]) # <<>>
  <2>1. pc' = "entry" /\ entry' = 1 /\ linenum' = linenum + 1
    BY <1>4 DEF ReadLine
  <2>2. NothingMissed'
    BY <1>1, <2>1 DEF ReadLine, NothingMissed
  <2>3. 1 \in 1..Len(Visible(file[linenum + 1]))
    BY <1>2, <1>4
  <2>4. InsideList'
    BY <1>1, <1>4, <2>1, <2>3 DEF ReadLine, InsideList, Hosts
  <2> QED BY <1>3, <2>2, <2>4 DEF ReadLine, GrantIsReal
<1>5. CASE ~ (/\ Matches(args.user, file[linenum + 1].user)
              /\ Visible(file[linenum + 1]) # <<>>)
  <2>1. pc' = "read" /\ linenum' = linenum + 1
    BY <1>5 DEF ReadLine
  <2>2. ~LineGrants(args.user, args.host, args.proxy, file[linenum + 1])
    BY <1>5, NoMatchNoGrant
  <2>3. NothingMissed'
    BY <1>1, <2>1, <2>2 DEF ReadLine, NothingMissed
  <2>4. InsideList'
    BY <2>1 DEF ReadLine, InsideList
  <2> QED BY <1>3, <2>3, <2>4 DEF ReadLine, GrantIsReal
<1> QED BY <1>4, <1>5

\* The matching entry decides for the line, with or without a grant.
LEMMA EntryMatchesIInv ==
    ASSUME IInv, EntryMatches
    PROVE  IInv'
<1> USE DEF IInv, TypeOK
<1>1. file[linenum] \in UserLine /\ linenum \in 1..Len(file)
  BY DEF EntryMatches, InsideList
<1>2. Hosts \in Seq(Entry) /\ entry \in 1..Len(Hosts)
  BY <1>1, VisibleType DEF EntryMatches, InsideList, Hosts
<1>3. Hosts[entry].plus \in BOOLEAN /\ args.proxy \in BOOLEAN
  <2>1. Hosts[entry] \in Entry
    BY <1>2
  <2>2. args \in [user : Names \cup {NoName},
                  host : Names \cup {NoName}, proxy : BOOLEAN]
    BY FilesAssumption
  <2> QED BY <2>1, <2>2 DEF Entry
<1>4. can_proxy = 0 /\ auth = 0
  BY DEF EntryMatches, InsideList
<1>5. can_proxy' = IF Hosts[entry].plus THEN 1 ELSE 0
  BY <1>4 DEF EntryMatches, StripPlus
<1>6. auth' = IF args.proxy => Hosts[entry].plus THEN 1 ELSE 0
  BY <1>3, <1>5 DEF EntryMatches
<1>7. LineGrants(args.user, args.host, args.proxy, file[linenum])
        <=> (args.proxy => Hosts[entry].plus)
  BY <1>1, <1>2, <1>3, FirstMatchDecides DEF EntryMatches, InsideList, Hosts
<1>8. UNCHANGED <<args, file, linenum, entry>> /\ pc' = "read"
  BY DEF EntryMatches
<1>9. TypeOK'
  BY <1>5, <1>6, <1>8
<1>10. NothingMissed'
  BY <1>1, <1>4, <1>6, <1>7, <1>8 DEF EntryMatches, NothingMissed
<1>11. InsideList'
  BY <1>3, <1>5, <1>6, <1>8 DEF InsideList
<1>12. GrantIsReal'
  BY <1>1, <1>6, <1>7, <1>8 DEF GrantIsReal, FileGrants
<1> QED BY <1>9, <1>10, <1>11, <1>12

\* An entry that does not match is left behind with its '+'.
LEMMA EntryDiffersIInv ==
    ASSUME IInv, EntryDiffers
    PROVE  IInv'
<1> USE DEF IInv, TypeOK
<1>1. file[linenum] \in UserLine /\ linenum \in 1..Len(file)
  BY DEF EntryDiffers, InsideList
<1>2. Hosts \in Seq(Entry) /\ entry \in 1..Len(Hosts) /\ Len(Hosts) \in Nat
  BY <1>1, VisibleType DEF EntryDiffers, InsideList, Hosts
<1>3. \A j \in 1..entry : ~Matches(args.host, Hosts[j].name)
  BY <1>2 DEF EntryDiffers, InsideList
<1>4. can_proxy' = 0 /\ auth = 0 /\ UNCHANGED <<args, file, linenum, auth>>
  BY DEF EntryDiffers, InsideList, ResetPlus
<1>5. Hosts' = Hosts
  BY <1>4 DEF Hosts
<1>6. CASE entry < Len(Hosts)
  <2>1. entry' = entry + 1 /\ pc' = "entry"
    BY <1>6 DEF EntryDiffers, NextEntry
  <2>2. TypeOK'
    BY <1>4, <2>1
  <2>3. NothingMissed'
    BY <1>4, <2>1 DEF EntryDiffers, NothingMissed
  <2>4. InsideList'
    BY <1>1, <1>2, <1>3, <1>4, <1>5, <1>6, <2>1 DEF EntryDiffers, InsideList
  <2> QED BY <1>4, <2>2, <2>3, <2>4 DEF GrantIsReal
<1>7. CASE ~(entry < Len(Hosts))
  <2>1. UNCHANGED entry /\ pc' = "read"
    BY <1>7 DEF EntryDiffers
  <2>2. ~LineGrants(args.user, args.host, args.proxy, file[linenum])
    <3>1. \A j \in 1..Len(Hosts) : ~Matches(args.host, Hosts[j].name)
      BY <1>2, <1>3, <1>7
    <3> QED BY <3>1, NoMatchNoGrant DEF Hosts
  <2>3. TypeOK'
    BY <1>4, <2>1
  <2>4. NothingMissed'
    BY <1>1, <1>4, <2>1, <2>2 DEF EntryDiffers, NothingMissed
  <2>5. InsideList'
    BY <1>4, <2>1 DEF InsideList
  <2> QED BY <1>4, <2>3, <2>4, <2>5 DEF GrantIsReal
<1> QED BY <1>6, <1>7

\* The invariant is inductive.
LEMMA NextIInv == IInv /\ [Next]_vars => IInv'
<1> SUFFICES ASSUME IInv, [Next]_vars PROVE IInv'
  OBVIOUS
<1> USE DEF IInv, TypeOK
<1>1. CASE OpenFails
  BY <1>1 DEF OpenFails, NothingMissed, InsideList, GrantIsReal
<1>2. CASE Open
  BY <1>2 DEF Open, NothingMissed, InsideList, GrantIsReal
<1>3. CASE ReadLine
  BY <1>3, ReadLineIInv
<1>4. CASE EntryMatches
  BY <1>4, EntryMatchesIInv
<1>5. CASE EntryDiffers
  BY <1>5, EntryDiffersIInv
<1>6. CASE Return
  BY <1>6 DEF Return, NothingMissed, InsideList, GrantIsReal
<1>7. CASE UNCHANGED vars
  BY <1>7 DEF vars, NothingMissed, InsideList, GrantIsReal, Hosts
<1> QED BY <1>1, <1>2, <1>3, <1>4, <1>5, <1>6, <1>7 DEF Next, Step, Returned

-----------------------------------------------------------------------------

\* Types, and everything the scan relies on between two entries, hold for
\* every file, every request and every buffer size.
THEOREM ScanInvariant == Spec => []IInv
<1>1. Init => IInv
  BY InitIInv
<1>2. IInv /\ [Next]_vars => IInv'
  BY NextIInv
<1> QED BY <1>1, <1>2, PTL DEF Spec

\* get_auth_file returns exactly what the file says about the request.
THEOREM ScanIsCorrect == Spec => []ScanDecides
<1>1. IInv => ScanDecides
  <2> SUFFICES ASSUME IInv, pc = "done", linenum > 0, auth # 1
               PROVE  ~FileGrants(args.user, args.host, args.proxy, file)
    BY DEF ScanDecides, IInv, GrantIsReal
  <2>1. auth = 0 /\ linenum = Len(file)
    BY DEF IInv, TypeOK, NothingMissed
  <2> QED BY <2>1 DEF IInv, NothingMissed, FileGrants
<1> QED BY <1>1, ScanInvariant, PTL

\* What fgets returns of a list is its beginning.
LEMMA VisibleBegins ==
    ASSUME NEW line \in UserLine
    PROVE  /\ Len(Visible(line)) \in 0..Len(line.hosts)
           /\ \A i \in 1..Len(Visible(line)) : Visible(line)[i] = line.hosts[i]
<1>1. line.hosts \in Seq(Entry) /\ LineCap \in Nat
  BY LineCapAssumption DEF UserLine
<1>2. CASE Len(line.hosts) <= LineCap
  BY <1>1, <1>2 DEF Visible
<1>3. CASE ~(Len(line.hosts) <= LineCap)
  <2>1. Visible(line) = SubSeq(line.hosts, 1, LineCap)
    BY <1>3 DEF Visible
  <2>2. /\ Len(SubSeq(line.hosts, 1, LineCap)) = LineCap
        /\ \A i \in 1..LineCap : SubSeq(line.hosts, 1, LineCap)[i] = line.hosts[i]
    BY <1>1, <1>3
  <2> QED BY <1>1, <1>3, <2>1, <2>2
<1> QED BY <1>2, <1>3

\* On a plain file a line's list entry that matches the host is the host's
\* only one: what decides permits, and what permits decides if it was read.
LEMMA PlainLine ==
    ASSUME NEW user \in Names, NEW host \in Names, NEW proxy \in BOOLEAN,
           NEW f \in Seq(UserLine), Plain(user, host, f), NEW n \in 1..Len(f)
    PROVE  /\ LineGrants(user, host, proxy, f[n]) =>
                f[n].user = user /\ Permits(host, proxy, f[n])
           /\ Fits(f) /\ f[n].user = user /\ Permits(host, proxy, f[n])
                => LineGrants(user, host, proxy, f[n])
<1> DEFINE line == f[n]
<1>1. line.hosts \in Seq(Entry)
  <2>1. f[n] \in UserLine
    OBVIOUS
  <2> QED BY <2>1 DEF UserLine
<1>2. Fits(f) => Visible(line) = line.hosts
  BY DEF Visible, Fits
<1>3. Matches(user, line.user) <=> line.user = user
  <2>1. Matches(user, line.user) => line.user = user
    BY DEF Plain
  <2>2. Matches(user, user)
    BY NamesAssumption DEF Matches
  <2> QED BY <2>1, <2>2
<1>4. \A i \in 1..Len(line.hosts) :
        Matches(host, line.hosts[i].name) <=> line.hosts[i].name = host
  BY NamesAssumption DEF Plain, Matches
<1>5. ASSUME NEW i \in 1..Len(line.hosts), line.hosts[i].name = host
      PROVE  DecidingEntry(line.hosts, host, i)
  <2>1. \A j \in 1..Len(line.hosts) : line.hosts[j].name = host => j = i
    BY <1>5 DEF Plain
  <2>2. Len(line.hosts) \in Nat
    BY <1>1
  <2> QED BY <1>4, <1>5, <2>1, <2>2 DEF DecidingEntry
<1>6. ASSUME NEW i \in 1..Len(Visible(line)), DecidingEntry(Visible(line), host, i)
      PROVE  /\ i \in 1..Len(line.hosts) /\ Visible(line)[i] = line.hosts[i]
             /\ line.hosts[i].name = host
  <2>1. f[n] \in UserLine /\ Len(line.hosts) \in Nat
    BY <1>1
  <2>2. i \in 1..Len(line.hosts) /\ Visible(line)[i] = line.hosts[i]
    BY <2>1, VisibleBegins
  <2> QED BY <1>4, <1>6, <2>2 DEF DecidingEntry
<1> HIDE DEF line
<1>7. LineGrants(user, host, proxy, line) =>
        line.user = user /\ Permits(host, proxy, line)
  BY <1>3, <1>6 DEF LineGrants, Permits
<1>8. Fits(f) /\ line.user = user /\ Permits(host, proxy, line)
        => LineGrants(user, host, proxy, line)
  BY <1>2, <1>3, <1>5 DEF LineGrants, Permits
<1> QED BY <1>7, <1>8 DEF line

\* A scan only starts when both names were given.
ScanNames ==
    /\ pc = "open" => linenum = 0
    /\ linenum > 0 \/ pc \in {"read", "entry"} =>
         args.user # NoName /\ args.host # NoName

LEMMA ScanNamesHolds == Spec => []ScanNames
<1>1. Init => ScanNames
  BY DEF Init, ScanNames
<1>2. ScanNames /\ IInv /\ [Next]_vars => ScanNames'
  BY DEF ScanNames, IInv, TypeOK, Next, Step, Returned, OpenFails, Open, ReadLine,
     EntryMatches, EntryDiffers, Return, vars
<1> QED BY <1>1, <1>2, ScanInvariant, PTL DEF Spec

\* On every plain users.lst get_auth_file answers what the manual says.
THEOREM PlainFilesAsDocumented == Spec => []AgreesWithManual
<1>1. IInv /\ ScanNames /\ ScanDecides => AgreesWithManual
  <2> SUFFICES ASSUME IInv, ScanNames, pc = "done", linenum > 0,
                      Plain(args.user, args.host, file),
                      auth = 1 <=> FileGrants(args.user, args.host, args.proxy, file)
               PROVE  /\ auth = 1 => ManualGrants(args.user, args.host, args.proxy, file)
                      /\ Fits(file) /\ ManualGrants(args.user, args.host, args.proxy, file)
                           => auth = 1
    BY DEF AgreesWithManual, ScanDecides
  <2>1. /\ file \in Seq(UserLine) /\ args.proxy \in BOOLEAN
        /\ args.user \in Names /\ args.host \in Names
    BY FilesAssumption DEF IInv, TypeOK, ScanNames
  <2>2. ASSUME NEW n \in 1..Len(file)
        PROVE  /\ LineGrants(args.user, args.host, args.proxy, file[n]) =>
                    file[n].user = args.user /\ Permits(args.host, args.proxy, file[n])
               /\ Fits(file) /\ file[n].user = args.user
                    /\ Permits(args.host, args.proxy, file[n])
                    => LineGrants(args.user, args.host, args.proxy, file[n])
    BY <2>1, PlainLine
  <2> QED BY <2>2 DEF FileGrants, ManualGrants
<1> QED BY <1>1, ScanNamesHolds, ScanInvariant, ScanIsCorrect, PTL

-----------------------------------------------------------------------------

\* Nothing but the last step returns, and nothing moves after it.
LEMMA ReturnsLast ==
    ASSUME Next
    PROVE  /\ UNCHANGED <<args, file>>
           /\ pc = "done" => UNCHANGED <<pc, auth>>
BY DEF Next, Step, Returned, OpenFails, Open, ReadLine, EntryMatches, EntryDiffers,
   Return, vars

\* For its caller, a scan of users.lst is one step with an answer the file permits.
THEOREM ScanIsOneStep == Spec => AnswersOnce
<1>1. Init => K!CInit
  BY DEF Init, K!CInit
<1>2. IInv /\ IInv' /\ [Next]_vars
        => [K!CReturn]_<<FileAnswers(args.user, args.host, args.proxy, file),
                         IF pc = "done" THEN {auth} ELSE {}>>
  <2> DEFINE permitted == FileAnswers(args.user, args.host, args.proxy, file)
             returned  == IF pc = "done" THEN {auth} ELSE {}
  <2> SUFFICES ASSUME IInv', [Next]_vars
               PROVE  K!CReturn \/ UNCHANGED <<permitted, returned>>
    OBVIOUS
  <2>1. UNCHANGED permitted /\ (pc = "done" => UNCHANGED returned)
    BY ReturnsLast DEF vars
  <2>2. CASE pc = "done" \/ pc' # "done"
    BY <2>1, <2>2
  <2>3. CASE pc # "done" /\ pc' = "done"
    <3>1. auth' \in permitted'
      BY DEF IInv, TypeOK, GrantIsReal, FileAnswers
    <3> QED BY <2>1, <2>3, <3>1 DEF K!CReturn
  <2> QED BY <2>2, <2>3
<1> QED BY <1>1, <1>2, ScanInvariant, PTL DEF Spec, K!CSpec, AnswersOnce

-----------------------------------------------------------------------------

\* A line is at most as long as the buffer.
LEMMA VisibleFits ==
    ASSUME NEW line \in UserLine
    PROVE  Len(Visible(line)) \in 0..LineCap
<1>1. line.hosts \in Seq(Entry) /\ LineCap \in Nat
  BY LineCapAssumption DEF UserLine
<1>2. CASE Len(line.hosts) <= LineCap
  BY <1>1, <1>2 DEF Visible
<1>3. CASE ~(Len(line.hosts) <= LineCap)
  <2>1. Len(SubSeq(line.hosts, 1, LineCap)) = LineCap
    BY <1>1, <1>3
  <2> QED BY <1>1, <1>3, <2>1 DEF Visible
<1> QED BY <1>2, <1>3

\* One line less is LineCap + 1 steps less.
LEMMA LessByALine ==
    ASSUME NEW lines \in Nat
    PROVE  /\ lines * (LineCap + 1) \in Nat
           /\ lines > 0 => /\ lines - 1 \in Nat
                           /\ (lines - 1) * (LineCap + 1)
                                = lines * (LineCap + 1) - (LineCap + 1)
BY LineCapAssumption

\* No list and no file keeps the loops turning: the number of steps of a call is
\* bounded by its file and the buffer.
THEOREM ScanAdvances == Spec => Advances
<1>1. IInv /\ [Next]_vars
        => [0 <= StepsLeft' /\ StepsLeft' < StepsLeft]_vars
  <2> SUFFICES ASSUME IInv, Next, ~UNCHANGED vars
               PROVE  0 <= StepsLeft' /\ StepsLeft' < StepsLeft
    OBVIOUS
  <2> DEFINE lines == Len(file) - linenum
             most  == lines * (LineCap + 1)
  <2>1. /\ lines \in Nat /\ most \in Nat /\ LineCap \in Nat
        /\ linenum \in 0..Len(file) /\ Len(file) \in Nat /\ file \in Seq(UserLine)
    BY LessByALine, LineCapAssumption DEF IInv, TypeOK
  <2>2. pc = "entry" => Len(Hosts) \in 0..LineCap /\ entry \in 1..Len(Hosts)
    BY VisibleFits DEF IInv, TypeOK, InsideList, Hosts
  <2>3. CASE OpenFails \/ Open \/ Return
    <3>1. most' = most
      BY <2>3 DEF OpenFails, Open, Return
    <3> HIDE DEF most
    <3>2. /\ pc \in {"open", "read"} /\ pc' \in {"read", "done"}
          /\ pc' = "read" => pc = "open"
      BY <2>3 DEF OpenFails, Open, Return
    <3> QED BY <2>1, <3>1, <3>2 DEF StepsLeft, most
  <2>4. CASE ReadLine
    <3>1. /\ pc = "read" /\ linenum' = linenum + 1 /\ file' = file
          /\ linenum < Len(file) /\ file[linenum + 1] \in UserLine
          /\ pc' = "read" \/ (pc' = "entry" /\ entry' = 1)
      BY <2>1, <2>4 DEF ReadLine
    <3>2. lines' = lines - 1 /\ lines > 0
      BY <2>1, <3>1
    <3>3. most' = most - (LineCap + 1) /\ most' \in Nat
      BY <2>1, <3>2, LessByALine
    <3>4. Hosts' = Visible(file[linenum + 1])
      BY <3>1 DEF Hosts
    <3>5. Len(Hosts') \in 0..LineCap
      BY <3>1, <3>4, VisibleFits
    <3>6. entry' = 1 /\ pc' = "entry" => Len(Hosts') >= 1
      BY <2>4, <3>1, <3>4, VisibleType DEF ReadLine
    <3>7. StepsLeft = most + 1
      BY <3>1 DEF StepsLeft
    <3>8. CASE pc' = "read"
      <4>1. StepsLeft' = most' + 1
        BY <3>8 DEF StepsLeft
      <4> HIDE DEF most
      <4> QED BY <2>1, <3>3, <3>7, <4>1
    <3>9. CASE pc' = "entry" /\ entry' = 1
      <4>1. StepsLeft' = most' + (Len(Hosts') - 1 + 2)
        BY <3>9 DEF StepsLeft
      <4> HIDE DEF most
      <4> QED BY <2>1, <3>3, <3>5, <3>7, <4>1
    <3> QED BY <3>1, <3>8, <3>9
  <2>5. CASE EntryMatches \/ EntryDiffers
    <3>1. /\ pc = "entry" /\ UNCHANGED <<file, linenum>>
          /\ \/ pc' = "read"
             \/ pc' = "entry" /\ entry < Len(Hosts) /\ entry' = entry + 1
      BY <2>5 DEF EntryMatches, EntryDiffers, NextEntry
    <3>2. most' = most /\ Hosts' = Hosts
      BY <3>1 DEF Hosts
    <3>3. StepsLeft = most + (Len(Hosts) - entry + 2)
      BY <3>1 DEF StepsLeft
    <3>4. StepsLeft' = IF pc' = "read" THEN most' + 1
                                       ELSE most' + (Len(Hosts)' - entry' + 2)
      BY <3>1 DEF StepsLeft
    <3> HIDE DEF most
    <3> QED BY <2>1, <2>2, <3>1, <3>2, <3>3, <3>4
  <2> QED BY <2>3, <2>4, <2>5 DEF Next, Step, Returned
<1> QED BY <1>1, ScanInvariant, PTL DEF Spec, Advances
=============================================================================
