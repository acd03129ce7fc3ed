---------------------------- MODULE Chroot_proofs ----------------------------
(***************************************************************************)
(* For any number of sessions: the directory goes with the last one, and   *)
(* is complete for those inside, whatever the interleaving.                *)
(***************************************************************************)
EXTENDS Chroot, TLAPS

LEMMA InitIInv == Init => IInv
BY DEF Init, IInv, TypeOK, Rooted, SeenTo, Undisturbed, Orderly, At, Places, Parts, Built,
   Opening, Building, Copying

\* One session moves, between two places.
LEMMA Moves ==
    ASSUME TypeOK, NEW s \in Sessions, NEW from, NEW to \in Places, Go(s, from, to)
    PROVE  /\ pc' \in [Sessions -> Places] /\ pc[s] = from /\ pc'[s] = to
           /\ \A t \in Sessions \ {s} : pc'[t] = pc[t]
BY DEF TypeOK, Go

LEMMA ScriptType == ASSUME TypeOK, NEW s \in Sessions, Script(s) \/ Killed(s)
                    PROVE  /\ exists' \in BOOLEAN /\ parts' \subseteq Parts
                           /\ pc' \in [Sessions -> Places]
                           /\ todo' \in [Sessions -> SUBSET Parts]
<1> USE DEF TypeOK, Places, Opening, Building, Copying, Built, Parts, Go
<1>1. CASE Login(s) \/ CheckDir(s) \/ MkDir(s) \/ Enter(s) \/ Leave(s)
  BY <1>1 DEF Login, CheckDir, MkDir, Enter, Leave
<1>2. CASE MakeDirs(s) \/ MakeDevices(s) \/ LinkLib64(s) \/ WriteAccounts(s)
             \/ MakeLinks(s) \/ CopyConfig(s)
  BY <1>2 DEF MakeDirs, MakeDevices, LinkLib64, WriteAccounts, MakeLinks,
     CopyConfig, Make, With
<1>3. CASE CopyApps(s) \/ Refresh(s)
  BY <1>3 DEF CopyApps, Refresh
<1>4. CASE Count(s)
  BY <1>4 DEF Count
<1>5. ASSUME NEW p \in Parts, Remove(s, p)
      PROVE  parts' \subseteq Parts /\ todo' \in [Sessions -> SUBSET Parts]
             /\ UNCHANGED <<exists, pc>>
  BY <1>5 DEF Remove
<1>6. CASE RemoveRoot(s)
  BY <1>6 DEF RemoveRoot
<1>7. CASE Killed(s)
  BY <1>7 DEF Killed
<1> QED BY <1>1, <1>2, <1>3, <1>4, <1>5, <1>6, <1>7 DEF Script

LEMMA ScriptRooted == ASSUME TypeOK, Rooted, NEW s \in Sessions, Script(s) \/ Killed(s)
                      PROVE  Rooted'
<1> USE DEF Rooted, Contents
<1>1. CASE UNCHANGED <<exists, parts>>
  BY <1>1
<1>2. CASE MkDir(s)
  BY <1>2 DEF MkDir
<1>3. CASE MakeDirs(s) \/ MakeDevices(s) \/ LinkLib64(s) \/ WriteAccounts(s)
             \/ MakeLinks(s) \/ CopyConfig(s)
  BY <1>3 DEF MakeDirs, MakeDevices, LinkLib64, WriteAccounts, MakeLinks,
     CopyConfig, Make, With, Needs
<1>4. CASE CopyApps(s)
  BY <1>4 DEF CopyApps
<1>5. CASE Refresh(s)
  BY <1>5 DEF Refresh
<1>6. ASSUME NEW p \in Parts, Remove(s, p)
      PROVE  Rooted'
  BY <1>6 DEF Remove
<1>7. CASE RemoveRoot(s)
  BY <1>7 DEF RemoveRoot
<1> QED BY <1>1, <1>2, <1>3, <1>4, <1>5, <1>6, <1>7
        DEF Script, Login, CheckDir, Enter, Leave, Count, Killed

-----------------------------------------------------------------------------
(* Who sees to the directory.                                              *)

Active == Opening \cup {"in", "count"}

\* A session that is active after its step answers for the directory.
LEMMA StaysActive ==
    ASSUME NEW s \in Sessions, pc'[s] \in Active
    PROVE  SeenTo'
BY DEF SeenTo, Active

\* Contents go first: a removal that has everything in hand fails at nothing.
LEMMA RemoveInHand ==
    ASSUME NEW s \in Sessions, NEW p \in Parts, Remove(s, p), parts \subseteq todo[s],
           TypeOK
    PROVE  parts' \subseteq todo'[s]
BY DEF Remove, TypeOK

LEMMA ScriptSeenTo ==
    ASSUME TypeOK, SeenTo, NEW s \in Sessions, Script(s), Begins(s) \/ cut' = cut
    PROVE  SeenTo'
<1> USE DEF Active, Places, Opening, Building, Copying, Built
<1>1. CASE Login(s)
  <2>1. \A t \in Sessions : pc[t] # "out" => pc'[t] = pc[t]
    BY <1>1, Moves DEF Login
  <2>2. cut' = cut
    BY <1>1 DEF Login, Go, Begins
  <2> QED BY <1>1, <2>1, <2>2 DEF Login, SeenTo
<1>2. CASE CheckDir(s)
  BY <1>2, Moves, StaysActive DEF CheckDir
<1>3. CASE MkDir(s)
  BY <1>3, Moves, StaysActive DEF MkDir
<1>4. CASE MakeDirs(s) \/ MakeDevices(s) \/ LinkLib64(s) \/ WriteAccounts(s)
             \/ MakeLinks(s) \/ CopyConfig(s)
  BY <1>4, Moves, StaysActive DEF MakeDirs, MakeDevices, LinkLib64, WriteAccounts,
     MakeLinks, CopyConfig, Make
<1>5. CASE CopyApps(s) \/ Refresh(s)
  BY <1>5, Moves, StaysActive DEF CopyApps, Refresh
<1>6. CASE Enter(s) \/ Leave(s)
  BY <1>6, Moves, StaysActive DEF Enter, Leave
<1>7. CASE Count(s)
  <2>1. CASE SessionsLeft = {}
    <3>1. pc'[s] = "rm" /\ todo'[s] = parts /\ parts' = parts
      BY <1>7, <2>1, Moves DEF Count, TypeOK
    <3> QED BY <3>1 DEF SeenTo
  <2>2. CASE SessionsLeft # {}
    <3>1. PICK t \in Sessions : pc[t] = "in"
      BY <2>2 DEF SessionsLeft
    <3>2. pc'[t] = "in"
      BY <1>7, <2>2, <3>1, Moves DEF Count
    <3> QED BY <3>2, StaysActive
  <2> QED BY <2>1, <2>2
<1>8. ASSUME NEW p \in Parts, Remove(s, p)
      PROVE  SeenTo'
  <2>1. ASSUME NEW t \in Sessions, pc[t] = "rm", parts \subseteq todo[t]
        PROVE  parts' \subseteq todo'[t]
    <3>1. CASE t = s
      BY <1>8, <2>1, <3>1, RemoveInHand
    <3>2. CASE t # s
      BY <1>8, <2>1, <3>2 DEF Remove, TypeOK
    <3> QED BY <3>1, <3>2
  <2>2. UNCHANGED <<exists, pc, cut>>
    BY <1>8 DEF Remove, Begins
  <2> QED BY <2>1, <2>2 DEF SeenTo
<1>9. CASE RemoveRoot(s)
  <2>0. cut' = cut
    BY <1>9 DEF RemoveRoot, Go, Begins
  <2>1. SUFFICES ASSUME exists', ~cut PROVE SeenTo'
    BY <2>0 DEF SeenTo
  <2>2. exists /\ ~(parts \subseteq todo[s]) /\ parts' = parts /\ todo' = todo
    BY <1>9, <2>1 DEF RemoveRoot, TypeOK
  <2>3. \A t \in Sessions : t # s => pc'[t] = pc[t]
    BY <1>9, Moves DEF RemoveRoot
  <2>4. pc[s] = "rm"
    BY <1>9 DEF RemoveRoot, Go
  <2> QED BY <2>1, <2>2, <2>3, <2>4 DEF SeenTo
<1> QED BY <1>1, <1>2, <1>3, <1>4, <1>5, <1>6, <1>7, <1>8, <1>9 DEF Script

-----------------------------------------------------------------------------
(* What holds with no race.                                                *)

\* Nobody but s moves; s enters where sshd lets it, and adds to the directory
\* only from a login.
LEMMA StepOf ==
    ASSUME TypeOK, NEW s \in Sessions, Script(s) \/ Killed(s)
    PROVE  /\ \A t \in Sessions \ {s} : pc'[t] = pc[t] /\ todo'[t] = todo[t]
           /\ pc'[s] = "in" => pc[s] \in {"enter", "in"}
           /\ pc'[s] = "rm" => pc[s] = "rm" \/ Begins(s)
           /\ pc[s] \notin Opening => parts' \subseteq parts
           /\ pc[s] = "rm" /\ pc'[s] = "rm" => \E p \in Parts : Remove(s, p)
<1> USE DEF Places, Opening, Building, Copying, Built, TypeOK, Go
<1>1. CASE Login(s) \/ CheckDir(s) \/ MkDir(s) \/ Enter(s) \/ Leave(s)
  BY <1>1 DEF Login, CheckDir, MkDir, Enter, Leave
<1>2. CASE MakeDirs(s) \/ MakeDevices(s) \/ LinkLib64(s) \/ WriteAccounts(s)
             \/ MakeLinks(s) \/ CopyConfig(s) \/ CopyApps(s) \/ Refresh(s)
  BY <1>2 DEF MakeDirs, MakeDevices, LinkLib64, WriteAccounts, MakeLinks,
     CopyConfig, CopyApps, Refresh, Make
<1>3. CASE Count(s)
  BY <1>3 DEF Count, Begins
<1>4. ASSUME NEW p \in Parts, Remove(s, p)
      PROVE  /\ UNCHANGED pc /\ parts' \subseteq parts
             /\ \A t \in Sessions \ {s} : todo'[t] = todo[t]
  BY <1>4 DEF Remove
<1>5. CASE RemoveRoot(s)
  BY <1>5 DEF RemoveRoot
<1>6. CASE Killed(s)
  BY <1>6 DEF Killed
<1>7. CASE \E p \in Parts : Remove(s, p)
  BY <1>4, <1>7
<1> QED BY <1>1, <1>2, <1>3, <1>5, <1>6, <1>7 DEF Script

\* A removal begins where nobody is inside, with all of it in hand.
LEMMA BeginsWithAll ==
    ASSUME TypeOK, NEW s \in Sessions, Script(s) \/ Killed(s), Begins(s)
    PROVE  /\ \A t \in Sessions : pc'[t] # "in"
           /\ todo'[s] = parts' /\ parts' = parts
<1>1. Count(s) \/ Killed(s)
  BY DEF Begins, Script, Login, CheckDir, MkDir, MakeDirs, CopyApps, MakeDevices,
     LinkLib64, WriteAccounts, MakeLinks, Refresh, CopyConfig, Enter, Leave, Remove,
     RemoveRoot, Make, Go
<1>2. CASE Killed(s)
  BY <1>2 DEF Killed, Begins, TypeOK
<1>3. CASE Count(s)
  BY <1>3 DEF Count, Begins, Go, SessionsLeft, TypeOK
<1> QED BY <1>1, <1>2, <1>3

\* One that begins alone starts undisturbed, and a login can only race with it.
LEMMA ScriptUndisturbed ==
    ASSUME TypeOK, Undisturbed, NEW s \in Sessions, Script(s) \/ Killed(s),
           raced' \/ ~Race', raced' \/ (raced => Begins(s) /\ Alone(s))
    PROVE  Undisturbed'
<1> SUFFICES ASSUME ~raced', ~Race', raced => Begins(s) /\ Alone(s) PROVE Undisturbed'
  BY DEF Undisturbed
<1> USE DEF At
<1>1. ASSUME NEW t \in Sessions, pc'[t] = "rm", NEW u \in Sessions,
             pc'[u] \in Opening \cup {"in"}
      PROVE  FALSE
  <2>1. pc'[u] = "in"
    BY <1>1 DEF Race
  <2>2. ~Begins(s)
    BY <2>1, BeginsWithAll
  <2>3. pc[t] = "rm" /\ pc[u] \in Opening \cup {"in"}
    BY <1>1, <2>1, <2>2, StepOf DEF Opening
  <2> QED BY <2>2, <2>3 DEF Undisturbed
<1>2. ASSUME NEW t \in Sessions, pc'[t] = "rm"
      PROVE  parts' \subseteq todo'[t]
  <2>1. CASE Begins(s)
    <3>1. CASE t = s
      BY <2>1, <3>1, BeginsWithAll
    <3>2. CASE t # s
      <4>1. ~raced /\ pc[t] = "rm"
        BY <1>2, <2>1, <3>2, StepOf DEF Alone
      <4> QED BY <2>1, <3>2, <4>1, BeginsWithAll, StepOf DEF Undisturbed
    <3> QED BY <3>1, <3>2
  <2>2. CASE ~Begins(s)
    <3>1. ~raced /\ pc[t] = "rm" /\ parts \subseteq todo[t] /\ pc[s] \notin Opening
      <4>1. ~raced /\ pc[t] = "rm"
        BY <1>2, <2>2, StepOf
      <4> QED BY <4>1 DEF Undisturbed
    <3>2. CASE t = s
      <4>1. PICK p \in Parts : Remove(s, p)
        BY <1>2, <3>1, <3>2, StepOf
      <4> QED BY <3>1, <3>2, <4>1, RemoveInHand
    <3>3. CASE t # s
      BY <3>1, <3>3, StepOf
    <3> QED BY <3>2, <3>3
  <2> QED BY <2>1, <2>2
<1> QED BY <1>1, <1>2 DEF Undisturbed

-----------------------------------------------------------------------------
(* What holds with no race and no killing.                                 *)

LEMMA ScriptOrderly ==
    ASSUME TypeOK, Rooted, Undisturbed, Orderly, NEW s \in Sessions, Script(s),
           raced' \/ ~Race', raced' \/ ~raced \/ Begins(s),
           cut' = cut \/ Begins(s)
    PROVE  Orderly'
<1> SUFFICES ASSUME ~cut', ~raced', ~Race' PROVE Orderly'
  BY DEF Orderly
<1>0. CASE Begins(s)
  <2>1. /\ pc'[s] = "rm"
        /\ \A t \in Sessions : pc'[t] \notin Opening \cup {"in"}
    BY <1>0, BeginsWithAll DEF Begins, Race
  <2> QED BY <2>1 DEF Orderly, At, Opening
<1> SUFFICES ASSUME ~cut, ~raced, ~Begins(s) PROVE Orderly'
  BY <1>0
<1> USE DEF Orderly, Undisturbed, At, Race, Places, Opening, Building, Copying, Built
<1>1. CASE Login(s) \/ Leave(s)
  <2>1. /\ UNCHANGED <<exists, parts, todo>>
        /\ pc'[s] \in {"check", "count"} /\ pc[s] \in {"out", "in"}
        /\ \A t \in Sessions \ {s} : pc'[t] = pc[t]
    BY <1>1, Moves DEF Login, Leave
  <2> QED BY <2>1
<1>2. CASE CheckDir(s)
  <2>1. /\ UNCHANGED <<exists, parts, todo>> /\ pc[s] = "check"
        /\ pc'[s] = (IF exists THEN "refresh" ELSE "mkdir")
        /\ \A t \in Sessions \ {s} : pc'[t] = pc[t]
    BY <1>2, Moves DEF CheckDir
  <2>2. ~At({"rm"})
    BY <2>1
  <2> QED BY <2>1, <2>2
<1>3. CASE MkDir(s)
  <2>1. /\ exists' = TRUE /\ UNCHANGED <<parts, todo>>
        /\ pc'[s] = "dirs" /\ pc[s] = "mkdir"
        /\ \A t \in Sessions \ {s} : pc'[t] = pc[t]
    BY <1>3, Moves DEF MkDir
  <2> QED BY <2>1 DEF Before
<1>4. CASE MakeDirs(s) \/ CopyApps(s) \/ MakeDevices(s) \/ LinkLib64(s)
             \/ WriteAccounts(s) \/ MakeLinks(s)
  <2>1. /\ pc[s] \in Built /\ todo' = todo
        /\ exists /\ Before(pc[s]) \subseteq parts
        /\ \A t \in Sessions \ {s} : pc'[t] = pc[t]
    BY <1>4, Moves DEF MakeDirs, CopyApps, MakeDevices, LinkLib64, WriteAccounts,
       MakeLinks, Make
  <2>2. exists' /\ parts' = parts \cup {pc[s]}
    BY <1>4, <2>1 DEF MakeDirs, CopyApps, MakeDevices, LinkLib64, WriteAccounts,
       MakeLinks, Make, Go, With, Needs, Before
  <2>3. IF pc[s] = "links" THEN pc'[s] = "refresh" /\ Built \subseteq parts'
        ELSE pc'[s] \in Built /\ Before(pc'[s]) \subseteq parts'
    <3>1. IF pc[s] = "links" THEN pc'[s] = "refresh"
          ELSE pc'[s] \in Built /\ Before(pc'[s]) = Before(pc[s]) \cup {pc[s]}
      BY <1>4, Moves DEF MakeDirs, CopyApps, MakeDevices, LinkLib64, WriteAccounts,
         MakeLinks, Make, Before
    <3> QED BY <2>1, <2>2, <3>1 DEF Before
  <2>4. ~At({"rm"})
    BY <2>1
  <2> QED BY <2>1, <2>2, <2>3, <2>4 DEF Before
<1>5. CASE Refresh(s)
  <2>1. /\ exists' = exists /\ todo' = todo /\ parts' = parts \ {"config"}
        /\ pc'[s] = "config" /\ pc[s] = "refresh"
        /\ \A t \in Sessions \ {s} : pc'[t] = pc[t]
    BY <1>5, Moves DEF Refresh
  <2> QED BY <2>1 DEF Before
<1>6. CASE CopyConfig(s)
  <2>1. /\ exists' = exists /\ todo' = todo /\ parts' = With("config")
        /\ pc'[s] = "enter" /\ pc[s] = "config"
        /\ \A t \in Sessions \ {s} : pc'[t] = pc[t]
    BY <1>6, Moves DEF CopyConfig, Make
  <2>2. ~At({"rm"}) /\ exists /\ parts \subseteq parts'
    BY <2>1 DEF With
  <2>3. CASE At(Building)
    BY <2>1, <2>2, <2>3
  <2>4. CASE ~At(Building)
    <3>1. Built \subseteq parts
      BY <2>2, <2>4
    <3>2. parts' = parts \cup {"config"}
      BY <2>1, <2>2, <3>1 DEF With, Needs
    <3> QED BY <2>1, <2>2, <3>1, <3>2
  <2> QED BY <2>3, <2>4
<1>7. CASE Enter(s)
  <2>1. /\ UNCHANGED <<exists, parts, todo>> /\ pc[s] = "enter" /\ pc'[s] = "in"
        /\ \A t \in Sessions \ {s} : pc'[t] = pc[t]
    BY <1>7, Moves DEF Enter
  <2>2. ~At({"rm"})
    BY <2>1
  <2> QED BY <2>1, <2>2
<1>8. CASE Count(s)
  <2>1. /\ UNCHANGED <<exists, parts>> /\ pc[s] = "count"
        /\ pc'[s] = (IF SessionsLeft = {} THEN "rm" ELSE "out")
        /\ SessionsLeft = {} => todo'[s] = parts
        /\ \A t \in Sessions \ {s} : pc'[t] = pc[t] /\ todo'[t] = todo[t]
    BY <1>8, Moves DEF Count, TypeOK
  <2>2. SessionsLeft = {} => ~At({"in"})
    BY DEF SessionsLeft
  <2> QED BY <2>1, <2>2
<1>9. ASSUME NEW p \in Parts, Remove(s, p)
      PROVE  Orderly'
  <2>1. UNCHANGED <<exists, pc>> /\ pc[s] = "rm" /\ parts' \subseteq parts
    BY <1>9 DEF Remove
  <2>2. ASSUME NEW t \in Sessions, pc[t] = "rm"
        PROVE  parts' \subseteq todo'[t]
    <3>1. CASE t = s
      BY <1>9, <2>2, <3>1, RemoveInHand
    <3>2. CASE t # s
      BY <1>9, <2>1, <2>2, <3>2 DEF Remove, TypeOK
    <3> QED BY <3>1, <3>2
  <2> QED BY <2>1, <2>2
<1>10. CASE RemoveRoot(s)
  <2>1. /\ UNCHANGED <<parts, todo>> /\ pc[s] = "rm" /\ pc'[s] = "out"
        /\ todo[s] = {} /\ exists' = (exists /\ parts # {})
        /\ \A t \in Sessions \ {s} : pc'[t] = pc[t]
    BY <1>10, Moves DEF RemoveRoot
  <2>2. ~exists'
    BY <2>1
  <2> QED BY <2>1, <2>2
<1> QED BY <1>1, <1>2, <1>3, <1>4, <1>5, <1>6, <1>7, <1>8, <1>9, <1>10 DEF Script

-----------------------------------------------------------------------------

LEMMA NextIInv == IInv /\ [Next]_vars => IInv'
<1>1. CASE UNCHANGED vars
  BY <1>1 DEF vars, IInv, TypeOK, Rooted, SeenTo, Undisturbed, Orderly, At
<1>2. ASSUME IInv, Next PROVE IInv'
  <2> USE DEF IInv
  <2>1. PICK s \in Sessions :
          /\ \/ Script(s) /\ cut' = (cut /\ ~Fresh' /\ ~Begins(s))
             \/ Killed(s) /\ cut' = ~Fresh'
          /\ raced' = (Race' \/ (raced /\ ~Fresh' /\ ~(Begins(s) /\ Alone(s))))
    BY <1>2 DEF Next
  <2> DEFINE mended == Begins(s) /\ Alone(s)
  <2>2. TypeOK'
    <3>1. cut' \in BOOLEAN
      <4>1. CASE cut' = (cut /\ ~Fresh' /\ ~Begins(s))
        BY ONLY <4>1
      <4>2. CASE cut' = ~Fresh'
        BY ONLY <4>2
      <4> QED BY <2>1, <4>1, <4>2
    <3>2. raced' \in BOOLEAN
      <4>1. raced' = (Race' \/ (raced /\ ~Fresh' /\ ~mended))
        BY <2>1
      <4> QED BY ONLY <4>1
    <3> QED BY <1>2, <2>1, <3>1, <3>2, ScriptType DEF TypeOK
  <2>3. Rooted'
    BY <1>2, <2>1, ScriptRooted
  <2>4. CASE Fresh'
    <3>1. SeenTo' /\ Undisturbed' /\ Orderly'
      BY <2>4 DEF Fresh, SeenTo, Undisturbed, Orderly, At, Opening, Building, Copying, Built
    <3> QED BY <2>2, <2>3, <3>1
  <2>5. CASE ~Fresh'
    <3>1. Undisturbed'
      BY <1>2, <2>1, <2>5, ScriptUndisturbed
    <3>2. CASE Script(s) /\ cut' = (cut /\ ~Fresh' /\ ~Begins(s))
      <4>1. cut' = cut \/ Begins(s)
        BY <1>2, <2>5, <3>2 DEF TypeOK
      <4>2. SeenTo'
        BY <1>2, <3>2, <4>1, ScriptSeenTo
      <4>3. Orderly'
        BY <1>2, <2>1, <2>5, <3>2, <4>1, ScriptOrderly
      <4> QED BY <2>2, <2>3, <3>1, <4>2, <4>3
    <3>3. CASE cut' = ~Fresh'
      <4>1. SeenTo' /\ Orderly'
        BY <2>5, <3>3 DEF SeenTo, Orderly
      <4> QED BY <2>2, <2>3, <3>1, <4>1
    <3> QED BY <2>1, <3>2, <3>3
  <2> QED BY <2>4, <2>5
<1> QED BY <1>1, <1>2

\* The scripts keep their invariant for any number of sessions.
THEOREM ScriptsInvariant == Spec => []IInv
<1>1. Init => IInv
  BY InitIInv
<1>2. IInv /\ [Next]_vars => IInv'
  BY NextIInv
<1> QED BY <1>1, <1>2, PTL DEF Spec

\* The directory goes with the last session unless something was killed.
THEOREM NothingStays == Spec => []LastOneCleansUp
<1>1. IInv => LastOneCleansUp
  BY DEF IInv, SeenTo, LastOneCleansUp, Opening, Building, Copying, Built
<1> QED BY <1>1, ScriptsInvariant, PTL

\* What is missing from a directory in use some login is still to make.
LEMMA MissingIsToCome ==
    ASSUME IInv, ~cut, ~raced, exists, ~At({"rm"}), NEW p \in Parts, p \notin parts
    PROVE  \E t \in Sessions : p \in ToCome(t)
<1>1. CASE At(Building)
  <2>1. PICK t \in Sessions : pc[t] \in Building
    BY <1>1 DEF At
  <2>2. Before(pc[t]) \subseteq parts
    BY <2>1 DEF IInv, Orderly
  <2>3. ToCome(t) = Parts \ Before(pc[t])
    BY <2>1 DEF ToCome, Copying, Building, Built
  <2> QED BY <2>2, <2>3
<1>2. CASE ~At(Building)
  <2>1. ~At({"rm"} \cup Building)
    BY <1>2 DEF At
  <2>2. Built \subseteq parts /\ (~At(Copying) => "config" \in parts)
    BY <2>1 DEF IInv, Orderly
  <2>3. p = "config" /\ At(Copying)
    BY <2>2 DEF Parts
  <2>4. PICK t \in Sessions : pc[t] \in Copying
    BY <2>3 DEF At
  <2>5. ToCome(t) = {"config"}
    BY <2>4 DEF ToCome, Copying, Building, Built
  <2> QED BY <2>3, <2>5
<1> QED BY <1>1, <1>2

\* A session inside misses nothing but what a login is still to make, where no
\* removal met a login and nothing was killed.
THEOREM NothingMissing == Spec => []InsideIsComplete
<1>1. ASSUME IInv, ~cut, ~raced, At({"in"})
      PROVE  exists /\ Parts \subseteq parts \cup UNION {ToCome(t) : t \in Sessions}
  <2>1. PICK s \in Sessions : pc[s] = "in"
    BY <1>1 DEF At
  <2>2. exists
    <3>1. pc[s] \in (Opening \ {"mkdir"}) \cup {"in"}
      BY <2>1
    <3> QED BY <1>1, <3>1 DEF IInv, Orderly
  <2>3. ~At({"rm"})
    <3>1. At(Opening \cup {"in"})
      BY <2>1 DEF At
    <3> QED BY <1>1, <3>1 DEF IInv, Undisturbed
  <2>4. ASSUME NEW p \in Parts, p \notin parts
        PROVE  p \in UNION {ToCome(t) : t \in Sessions}
    <3>1. \E t \in Sessions : p \in ToCome(t)
      BY <1>1, <2>2, <2>3, <2>4, MissingIsToCome
    <3> QED BY <3>1
  <2> QED BY <2>2, <2>4
<1>2. IInv => InsideIsComplete
  BY <1>1 DEF InsideIsComplete
<1> QED BY <1>2, ScriptsInvariant, PTL
=============================================================================
