--------------------------- MODULE ReadConf_proofs ---------------------------
(***************************************************************************)
(* For every configuration file: what read_config_file accepts is sound    *)
(* from its first line to its last, and each option is what the first line *)
(* to name it says.                                                        *)
(***************************************************************************)
EXTENDS ReadConf, TLAPS

LEMMA LineType ==
    ASSUME TypeOK, linenum < Len(file)
    PROVE  Line \in ConfigLine /\ linenum + 1 \in 1..Len(file)
BY DEF TypeOK, Line

\* The reader starts in the invariant.
LEMMA InitIInv == Init => IInv
<1> SUFFICES ASSUME Init PROVE IInv
  OBVIOUS
<1>1. TypeOK
  BY ArgsAssumption DEF Init, TypeOK
<1> QED BY <1>1 DEF Init, IInv, Settled, CountedIsFaulty

\* A line that does not end in a crash or an error was sound.
LEMMA SoundLine ==
    ASSUME TypeOK, process_config_line, pc' # "crashed"
    PROVE  /\ linenum < Len(file) /\ linenum' = linenum + 1
           /\ UNCHANGED <<file, auth_type, result>>
           /\ pc' \in {"read", "close"}
           /\ \/ bad_options' = bad_options /\ ~Faulty(Line)
              \/ bad_options' = bad_options + 1 /\ Faulty(Line)
<1> USE DEF TypeOK, Reads, Counted, EndOfLine, Crash
<1>1. CASE BlankLine
  BY <1>1 DEF BlankLine, Faulty
<1>2. CASE OpenQuote
  BY <1>2 DEF OpenQuote
<1>3. CASE BadKeyword
  BY <1>3 DEF BadKeyword, Faulty
<1>4. CASE FlagLine
  <2>1. Line.kind = "option" /\ Line.key \in Flags /\ Line.key # "nc_timeout"
    BY <1>4 DEF FlagLine, Flags
  <2>2. Line.arg \in Missing => Line.arg \notin Yes \cup No
    BY ArgsAssumption DEF Missing
  <2> QED BY <1>4, <2>1, <2>2 DEF FlagLine, FlagStatus, Faulty
<1>5. CASE StringLine
  <2>1. Line.kind = "option" /\ Line.key \notin Flags
    BY <1>5 DEF StringLine, Flags, Strings, Defaulted
  <2> QED BY <1>5, <2>1 DEF StringLine, StringStatus, Faulty
<1>6. CASE StrdupNull
  BY <1>6 DEF StrdupNull
<1> QED BY <1>1, <1>2, <1>3, <1>4, <1>5, <1>6 DEF process_config_line

\* What a line does to the options: at most the one it names is set, and only
\* if it was not.
LEMMA LineSets ==
    ASSUME TypeOK, process_config_line
    PROVE  /\ \A f \in Flags :
                flag'[f] = IF Line.kind = "option" /\ Line.key = f
                                /\ Line.arg \notin Missing /\ flag[f] = -1
                             THEN FlagValue(Line.arg) ELSE flag[f]
           /\ \A s \in Strings :
                str'[s] = IF Line.kind = "option" /\ Line.key = s
                                /\ Line.arg # NoArg /\ str[s] = NULL
                             THEN Line.arg ELSE str[s]
           /\ flag' \in [Flags -> {-1, 0, 1}]
           /\ str' \in [Strings -> Args \cup {NULL, Default, EmptyArg}]
<1> USE DEF TypeOK, Reads
<1>1. Line \in ConfigLine
  BY LineType DEF process_config_line, BlankLine, OpenQuote, BadKeyword,
     FlagLine, StringLine, StrdupNull
<1>2. Line.arg \in Args \cup Missing
  BY <1>1 DEF ConfigLine
<1>3. CASE BlankLine
  BY <1>3 DEF BlankLine
<1>4. CASE OpenQuote
  BY <1>4 DEF OpenQuote
<1>5. CASE BadKeyword
  BY <1>5 DEF BadKeyword
<1>6. CASE FlagLine
  <2>1. Line.key \in Flags /\ Line.key \notin Strings /\ UNCHANGED str
    BY <1>6 DEF FlagLine, Flags, Strings, Defaulted
  <2>2. FlagValue(Line.arg) \in {-1, 0, 1}
    BY DEF FlagValue
  <2> QED BY <1>6, <2>1, <2>2 DEF FlagLine, FirstFlag
<1>7. CASE StringLine
  <2>1. Line.key \in Strings /\ Line.key \notin Flags /\ UNCHANGED flag
    BY <1>7 DEF StringLine, Flags, Strings, Defaulted
  <2>2. str[Line.key] = NULL => Line.arg \in Args \cup {EmptyArg}
    BY <1>2, <1>7 DEF StringLine, Missing
  <2>3. str' = IF str[Line.key] = NULL THEN [str EXCEPT ![Line.key] = Line.arg]
                                       ELSE str
    BY <1>7 DEF StringLine, FirstString
  <2>4. str' \in [Strings -> Args \cup {NULL, Default, EmptyArg}]
    BY <2>1, <2>2, <2>3
  <2>5. \A s \in Strings :
          str'[s] = IF Line.key = s /\ str[s] = NULL THEN Line.arg ELSE str[s]
    BY <2>1, <2>3
  <2>6. Line.kind = "option" /\ (str[Line.key] = NULL => Line.arg # NoArg)
    BY <1>7 DEF StringLine
  <2> QED BY <2>1, <2>4, <2>5, <2>6
<1>8. CASE StrdupNull
  BY <1>8 DEF StrdupNull, Missing
<1> QED BY <1>3, <1>4, <1>5, <1>6, <1>7, <1>8 DEF process_config_line

\* A line keeps the invariant.
LEMMA LineIInv ==
    ASSUME IInv, process_config_line
    PROVE  IInv'
<1> USE DEF IInv
<1>1. /\ linenum < Len(file) /\ linenum' = linenum + 1
      /\ UNCHANGED <<file, auth_type, result>> /\ pc = "read"
      /\ bad_options' \in {bad_options, bad_options + 1}
      /\ pc' \in {"read", "close", "crashed"}
  BY DEF process_config_line, BlankLine, OpenQuote, BadKeyword, FlagLine,
     StringLine, StrdupNull, Reads, Counted, EndOfLine, Crash, TypeOK
<1>2. Line \in ConfigLine /\ linenum + 1 \in 1..Len(file) /\ Line = file[linenum + 1]
  BY <1>1, LineType DEF Line
<1>3. TypeOK'
  BY <1>1, <1>2, LineSets DEF TypeOK
<1>4. ASSUME pc' # "crashed", bad_options' = 0
      PROVE  Settled'
  <2>1. bad_options = 0 /\ ~Faulty(Line)
    BY <1>1, <1>4, SoundLine DEF TypeOK
  <2>2. \A n \in 1..linenum' : ~Faulty(file'[n])
    BY <1>1, <1>2, <2>1 DEF Settled, TypeOK
  <2>3. Line.kind = "option" => Line.arg \notin Missing
    BY <2>1 DEF Faulty
  <2>4. ASSUME NEW f \in Flags
        PROVE  \/ NeverSet(f, linenum)' /\ flag'[f] = -1
               \/ \E i \in 1..linenum' : /\ FirstSets(f, i, linenum)'
                                         /\ flag'[f] = FlagValue(file'[i].arg)
    <3>1. CASE NeverSet(f, linenum) /\ flag[f] = -1
      <4>1. CASE Line.kind = "option" /\ Line.key = f
        <5>1. flag'[f] = FlagValue(file'[linenum'].arg)
          BY <1>1, <1>2, <2>3, <3>1, <4>1, LineSets
        <5>2. FirstSets(f, linenum, linenum)'
          BY <1>1, <1>2, <3>1, <4>1 DEF FirstSets, NeverSet, Options, TypeOK
        <5> QED BY <1>1, <5>1, <5>2 DEF TypeOK
      <4>2. CASE ~(Line.kind = "option" /\ Line.key = f)
        <5>1. flag'[f] = -1
          BY <3>1, <4>2, LineSets
        <5>2. NeverSet(f, linenum)'
          BY <1>1, <1>2, <3>1, <4>2 DEF NeverSet, Options, TypeOK
        <5> QED BY <5>1, <5>2
      <4> QED BY <4>1, <4>2
    <3>2. ASSUME NEW i \in 1..linenum, FirstSets(f, i, linenum),
                 flag[f] = FlagValue(file[i].arg)
          PROVE  /\ i \in 1..linenum' /\ FirstSets(f, i, linenum)'
                 /\ flag'[f] = FlagValue(file'[i].arg)
      <4>1. flag'[f] = flag[f]
        BY <3>2, LineSets DEF FlagValue
      <4>2. i \in 1..linenum' /\ FirstSets(f, i, linenum)'
        BY <1>1, <3>2 DEF FirstSets, Options, TypeOK
      <4> QED BY <1>1, <3>2, <4>1, <4>2
    <3> QED BY <1>1, <2>1, <3>1, <3>2 DEF Settled
  <2>5. ASSUME NEW s \in Strings
        PROVE  \/ NeverSet(s, linenum)' /\ str'[s] = NULL
               \/ \E i \in 1..linenum' : /\ FirstSets(s, i, linenum)'
                                         /\ str'[s] = file'[i].arg
    <3>1. CASE NeverSet(s, linenum) /\ str[s] = NULL
      <4>1. CASE Line.kind = "option" /\ Line.key = s
        <5>1. str'[s] = file'[linenum'].arg
          BY <1>1, <1>2, <2>3, <3>1, <4>1, LineSets DEF Missing
        <5>2. FirstSets(s, linenum, linenum)'
          BY <1>1, <1>2, <3>1, <4>1 DEF FirstSets, NeverSet, Options, TypeOK
        <5> QED BY <1>1, <5>1, <5>2 DEF TypeOK
      <4>2. CASE ~(Line.kind = "option" /\ Line.key = s)
        <5>1. str'[s] = NULL
          BY <3>1, <4>2, LineSets
        <5>2. NeverSet(s, linenum)'
          BY <1>1, <1>2, <3>1, <4>2 DEF NeverSet, Options, TypeOK
        <5> QED BY <5>1, <5>2
      <4> QED BY <4>1, <4>2
    <3>2. ASSUME NEW i \in 1..linenum, FirstSets(s, i, linenum),
                 str[s] = file[i].arg
          PROVE  /\ i \in 1..linenum' /\ FirstSets(s, i, linenum)'
                 /\ str'[s] = file'[i].arg
      <4>1. file[i] \in ConfigLine /\ ~Faulty(file[i]) /\ Options(i, s)
        BY <1>1, <2>1, <3>2 DEF Settled, TypeOK, FirstSets
      <4>2. file[i].arg # NULL
        BY <4>1, ArgsAssumption DEF ConfigLine, Missing
      <4>3. str'[s] = str[s]
        BY <3>2, <4>2, LineSets
      <4>4. i \in 1..linenum' /\ FirstSets(s, i, linenum)'
        BY <1>1, <3>2 DEF FirstSets, Options, TypeOK
      <4> QED BY <1>1, <3>2, <4>3, <4>4
    <3> QED BY <1>1, <2>1, <3>1, <3>2 DEF Settled
  <2> QED BY <2>2, <2>4, <2>5 DEF Settled
<1>5. Settled'
  BY <1>1, <1>4 DEF Settled
<1>6. CountedIsFaulty'
  <2>1. CASE pc' = "crashed"
    <3>1. bad_options' = bad_options
      BY <2>1 DEF process_config_line, BlankLine, OpenQuote, BadKeyword, FlagLine,
         StringLine, StrdupNull, Counted, EndOfLine, Crash
    <3> QED BY <1>1, <3>1 DEF CountedIsFaulty, TypeOK
  <2>2. CASE pc' # "crashed"
    <3>1. CASE bad_options' = bad_options
      BY <1>1, <3>1 DEF CountedIsFaulty, TypeOK
    <3>2. CASE bad_options' # bad_options
      BY <1>1, <1>2, <2>2, <3>2, SoundLine DEF CountedIsFaulty, TypeOK
    <3> QED BY <3>1, <3>2
  <2> QED BY <2>1, <2>2
<1> QED BY <1>3, <1>5, <1>6

\* What an accepted file comes to: the settled options, with defaults.
Accepted ==
    /\ linenum = Len(file) /\ \A n \in 1..Len(file) : ~Faulty(file[n])
    /\ \A f \in Flags :
         \/ NeverSet(f, linenum) /\ flag[f] = 0
         \/ \E i \in 1..linenum : /\ FirstSets(f, i, linenum)
                                  /\ flag[f] = FlagValue(file[i].arg)
    /\ \A s \in Strings :
         \/ /\ NeverSet(s, linenum)
            /\ str[s] = IF s \in Defaulted THEN Default ELSE NULL
         \/ \E i \in 1..linenum : /\ FirstSets(s, i, linenum)
                                  /\ str[s] = file[i].arg
    /\ auth_type = DefaultAuthType(flag)

\* The invariant with what the two ways to return leave behind.
Inv ==
    /\ IInv
    /\ pc \in {"open", "read", "close"} => result = -1
    /\ pc = "open" => linenum = 0 /\ bad_options = 0
    /\ pc = "close" /\ bad_options = 0 => linenum = Len(file)
    /\ result = 1 => Accepted
    /\ result = 0 => /\ \A s \in Strings : str[s] = NULL
                     /\ linenum > 0 => bad_options > 0

LEMMA InitInv == Init => Inv
BY InitIInv DEF Init, Inv

\* Accepting fills in the defaults and nothing else.
LEMMA AcceptInv ==
    ASSUME Inv, Accept
    PROVE  Inv'
<1> USE DEF Inv, IInv
<1>1. /\ UNCHANGED <<file, linenum, bad_options>> /\ pc' = "done" /\ result' = 1
      /\ bad_options = 0 /\ linenum = Len(file) /\ pc = "close"
  BY DEF Accept
<1>2. /\ flag' = [f \in Flags |-> IF flag[f] = -1 THEN 0 ELSE flag[f]]
      /\ str' = [s \in Strings |-> IF s \in Defaulted /\ str[s] = NULL
                                     THEN Default ELSE str[s]]
      /\ auth_type' = DefaultAuthType(flag')
  BY DEF Accept, fill_default_options, DefaultFlags
<1>3. TypeOK'
  BY <1>1, <1>2 DEF TypeOK, DefaultAuthType
<1>4. ASSUME NEW n \in 1..Len(file), ~Faulty(file[n])
      PROVE  file[n].kind = "option" => file[n].arg \in Args
  <2>1. file[n] \in ConfigLine
    BY DEF TypeOK
  <2>2. file[n].arg \in Args \cup Missing
    BY <2>1 DEF ConfigLine
  <2> QED BY <1>4, <2>2 DEF Faulty
<1>5. ASSUME NEW s \in Strings
      PROVE  \/ /\ NeverSet(s, linenum)
                /\ str'[s] = IF s \in Defaulted THEN Default ELSE NULL
             \/ \E i \in 1..linenum : /\ FirstSets(s, i, linenum)
                                      /\ str'[s] = file[i].arg
  <2>1. CASE NeverSet(s, linenum) /\ str[s] = NULL
    BY <1>2, <2>1
  <2>2. ASSUME NEW i \in 1..linenum, FirstSets(s, i, linenum), str[s] = file[i].arg
        PROVE  str'[s] = file[i].arg
    <3>1. file[i].arg \in Args
      BY <1>1, <1>4, <2>2 DEF Settled, FirstSets, Options, TypeOK
    <3> QED BY <1>2, <2>2, <3>1, ArgsAssumption
  <2> QED BY <1>1, <2>1, <2>2 DEF Settled
<1>6. ASSUME NEW f \in Flags
      PROVE  \/ NeverSet(f, linenum) /\ flag'[f] = 0
             \/ \E i \in 1..linenum : /\ FirstSets(f, i, linenum)
                                      /\ flag'[f] = FlagValue(file[i].arg)
  <2>1. CASE NeverSet(f, linenum) /\ flag[f] = -1
    BY <1>2, <2>1
  <2>2. ASSUME NEW i \in 1..linenum, flag[f] = FlagValue(file[i].arg)
        PROVE  flag'[f] = FlagValue(file[i].arg)
    BY <1>2, <2>2 DEF FlagValue
  <2> QED BY <1>1, <2>1, <2>2 DEF Settled
<1>7. \A n \in 1..Len(file) : ~Faulty(file[n])
  BY <1>1 DEF Settled
<1>8. Accepted'
  BY <1>1, <1>2, <1>5, <1>6, <1>7 DEF Accepted, NeverSet, FirstSets, Options
<1> QED BY <1>1, <1>3, <1>8 DEF Settled, CountedIsFaulty

\* The invariant is inductive.
LEMMA NextInv == Inv /\ [Next]_vars => Inv'
<1> SUFFICES ASSUME Inv, [Next]_vars PROVE Inv'
  OBVIOUS
<1> USE DEF Inv, IInv
<1>1. CASE OpenFails
  BY <1>1 DEF OpenFails, free_options, TypeOK, Settled, CountedIsFaulty
<1>2. CASE Open
  <2>1. TypeOK'
    BY <1>2 DEF Open, initialize_options, TypeOK
  <2>2. Settled'
    BY <1>2 DEF Open, initialize_options, Settled, NeverSet
  <2> QED BY <1>2, <2>1, <2>2 DEF Open, CountedIsFaulty
<1>3. CASE process_config_line
  <2>1. IInv' /\ pc = "read" /\ result' = result
    BY <1>3, LineIInv DEF process_config_line, BlankLine, OpenQuote, BadKeyword,
       FlagLine, StringLine, StrdupNull, Reads
  <2>2. pc' \in {"read", "close", "crashed"}
    BY <1>3 DEF process_config_line, BlankLine, OpenQuote, BadKeyword, FlagLine,
       StringLine, StrdupNull, Counted, EndOfLine, Crash
  <2>3. pc' = "close" => bad_options' > 0
    BY <1>3 DEF process_config_line, BlankLine, OpenQuote, BadKeyword, FlagLine,
       StringLine, StrdupNull, Counted, EndOfLine, Crash, TypeOK,
       FlagStatus, StringStatus
  <2> QED BY <2>1, <2>2, <2>3
<1>4. CASE EndOfFile
  BY <1>4 DEF EndOfFile, opts, TypeOK, Settled, CountedIsFaulty, NeverSet,
     FirstSets, Options
<1>5. CASE Reject
  BY <1>5 DEF Reject, free_options, TypeOK, Settled, CountedIsFaulty
<1>6. CASE Accept
  BY <1>6, AcceptInv
<1>7. CASE NoMemory
  BY <1>7 DEF NoMemory, opts, TypeOK, Settled, CountedIsFaulty
<1>8. CASE UNCHANGED vars
  BY <1>8 DEF vars, TypeOK, Settled, CountedIsFaulty, NeverSet, FirstSets,
     Options, Accepted
<1> QED BY <1>1, <1>2, <1>3, <1>4, <1>5, <1>6, <1>7, <1>8 DEF Next, Step, Ended

-----------------------------------------------------------------------------

\* The full invariant of the reader, for every file.
LEMMA InvHolds == Spec => []Inv
<1>1. Init => Inv
  BY InitInv
<1>2. Inv /\ [Next]_vars => Inv'
  BY NextInv
<1> QED BY <1>1, <1>2, PTL DEF Spec

\* Line by line: while nothing bad was seen, every option is untouched or what
\* the first line to name it says.
THEOREM ReaderInvariant == Spec => []IInv
<1>1. Inv => IInv
  BY DEF Inv
<1> QED BY <1>1, InvHolds, PTL

\* A file is taken whole or not at all.
THEOREM TakesAllOrNothing == Spec => []AllOrNothing
<1>1. Inv => AllOrNothing
  BY DEF Inv, IInv, TypeOK, CountedIsFaulty, Accepted, AllOrNothing
<1> QED BY <1>1, InvHolds, PTL

\* The first line to name an option decides it.
THEOREM FirstLineWins == Spec => []FirstWins
<1>1. Inv => FirstWins
  <2> SUFFICES ASSUME Inv, result = 1 PROVE FirstWins
    BY DEF FirstWins
  <2>1. Accepted /\ linenum = Len(file) /\ Len(file) \in Nat
    BY DEF Inv, IInv, TypeOK, Accepted
  <2>2. ASSUME NEW key, NEW i, NEW k,
               FirstSets(key, i, Len(file)), FirstSets(key, k, Len(file))
        PROVE  i = k
    BY <2>1, <2>2 DEF FirstSets
  <2>3. ASSUME NEW key, NeverSet(key, Len(file)), NEW i, FirstSets(key, i, Len(file))
        PROVE  FALSE
    BY <2>3 DEF NeverSet, FirstSets
  <2>4. ASSUME NEW f \in Flags
        PROVE  /\ NeverSet(f, Len(file)) => flag[f] = 0
               /\ \A i \in 1..Len(file) :
                    FirstSets(f, i, Len(file)) => (flag[f] = 1 <=> file[i].arg \in Yes)
    BY <2>1, <2>2, <2>3 DEF Accepted, FlagValue
  <2>5. ASSUME NEW s \in Strings
        PROVE  /\ NeverSet(s, Len(file)) =>
                    str[s] = IF s \in Defaulted THEN Default ELSE NULL
               /\ \A i \in 1..Len(file) :
                    FirstSets(s, i, Len(file)) => str[s] = file[i].arg
    BY <2>1, <2>2, <2>3 DEF Accepted
  <2> QED BY <2>4, <2>5 DEF FirstWins
<1> QED BY <1>1, InvHolds, PTL

\* The authorization type main hands to auth_user comes from the file.
THEOREM AuthTypeIsFromFile == Spec => []AuthTypeFromFile
<1>1. Inv => AuthTypeFromFile
  <2> SUFFICES ASSUME Inv, result = 1 PROVE AuthTypeFromFile
    BY DEF AuthTypeFromFile
  <2>1. Accepted /\ linenum = Len(file)
    BY DEF Inv, Accepted
  <2>2. {"disable_authorization", "use_ldap"} \subseteq Flags
    BY DEF Flags
  <2>3. flag["disable_authorization"] = 1 <=>
           \E i \in 1..Len(file) : /\ FirstSets("disable_authorization", i, Len(file))
                                   /\ file[i].arg \in Yes
    <3>1. ASSUME NEW i, NEW k, FirstSets("disable_authorization", i, Len(file)),
                 FirstSets("disable_authorization", k, Len(file))
          PROVE  i = k
      BY <3>1 DEF FirstSets
    <3>2. ASSUME NEW i, FirstSets("disable_authorization", i, Len(file))
          PROVE  ~NeverSet("disable_authorization", Len(file))
      BY <3>2 DEF FirstSets, NeverSet
    <3> QED BY <2>1, <2>2, <3>1, <3>2 DEF Accepted, FlagValue
  <2>4. auth_type = DefaultAuthType(flag)
    BY <2>1 DEF Accepted
  <2> QED BY <2>3, <2>4 DEF AuthTypeFromFile, DefaultAuthType
<1> QED BY <1>1, InvHolds, PTL

\* main finds every option it uses set, and nc's timeout a positive number.
THEOREM OptionsAreUsable == Spec => []UsableOptions
<1>1. Inv => UsableOptions
  <2> SUFFICES ASSUME Inv, result = 1 PROVE UsableOptions
    BY DEF UsableOptions
  <2>1. /\ Accepted /\ linenum = Len(file)
        /\ TypeOK /\ "nc_timeout" \in Defaulted /\ Defaulted \subseteq Strings
    BY DEF Inv, IInv, Accepted, Defaulted, Strings
  <2>2. ASSUME NEW s \in Defaulted
        PROVE  \/ str[s] = Default
               \/ \E i \in 1..Len(file) : /\ file[i].kind = "option" /\ file[i].key = s
                                          /\ str[s] = file[i].arg
    BY <2>1 DEF Accepted, FirstSets, Options
  <2>3. ASSUME NEW i \in 1..Len(file), file[i].kind = "option"
        PROVE  /\ file[i].arg \in Args
               /\ file[i].key = "nc_timeout" => file[i].arg \in Positive
    <3>1. ~Faulty(file[i]) /\ file[i] \in ConfigLine
      BY <2>1 DEF Accepted, TypeOK
    <3> QED BY <3>1, <2>3 DEF Faulty, ConfigLine
  <2>4. \A s \in Defaulted : str[s] \in Args \cup {Default}
    BY <2>2, <2>3
  <2>5. str["nc_timeout"] \in Positive \cup {Default}
    BY <2>1, <2>2, <2>3
  <2>6. \A f \in Flags : flag[f] \in {0, 1}
    BY <2>1 DEF Accepted, FlagValue
  <2> QED BY <2>4, <2>5, <2>6 DEF UsableOptions
<1> QED BY <1>1, InvHolds, PTL

-----------------------------------------------------------------------------

\* Every line, sound or not, is left behind.
LEMMA LineBehind ==
    ASSUME process_config_line
    PROVE  /\ pc = "read" /\ linenum < Len(file) /\ linenum' = linenum + 1
           /\ UNCHANGED file /\ pc' \in {"read", "close", "crashed"}
BY DEF process_config_line, BlankLine, OpenQuote, BadKeyword, FlagLine, StringLine,
   StrdupNull, Reads, Counted, EndOfLine, Crash

\* Nothing in a configuration file keeps the reader at it.
THEOREM ReaderAdvances == Spec => Advances
<1>1. IInv /\ [Next]_vars
        => [0 <= StepsLeft' /\ StepsLeft' < StepsLeft]_vars
  <2> SUFFICES ASSUME TypeOK, Next, ~UNCHANGED vars
               PROVE  0 <= StepsLeft' /\ StepsLeft' < StepsLeft
    BY DEF IInv
  <2>1. Len(file) \in Nat /\ linenum \in 0..Len(file)
    BY DEF TypeOK
  <2>2. CASE process_config_line
    BY <2>1, <2>2, LineBehind DEF StepsLeft
  <2>3. CASE \/ OpenFails \/ Open \/ EndOfFile \/ Reject \/ Accept \/ NoMemory
    <3>1. /\ UNCHANGED <<file, linenum>>
          /\ \/ pc = "open" /\ pc' \in {"done", "read"}
             \/ pc = "read" /\ pc' = "close"
             \/ pc = "close" /\ pc' \in {"done", "exited"}
      BY <2>3 DEF OpenFails, Open, EndOfFile, Reject, Accept, NoMemory
    <3> QED BY <2>1, <3>1 DEF StepsLeft
  <2> QED BY <2>2, <2>3 DEF Next, Step, Ended
<1> QED BY <1>1, ReaderInvariant, PTL DEF Spec, Advances
=============================================================================
