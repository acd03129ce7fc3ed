------------------------- MODULE CountryCheck_proofs -------------------------
(***************************************************************************)
(* For every list of country codes, however long and however written: the  *)
(* loop that cuts it in place finds a code exactly when a field has it.    *)
(***************************************************************************)
EXTENDS CountryCheck, TLAPS

\* The list given ends in a NUL, and has no other.
LEMMA GivenType ==
    ASSUME TypeOK
    PROVE  /\ Size \in Nat /\ Size >= 1 /\ given[Size] = NUL
           /\ given \in [1..Size -> Chars \cup {NUL}]
           /\ \A i \in 1..Size : given[i] = NUL <=> i = Size
           /\ \A i \in 1..(Size - 1) : given[i] \in Chars
<1>1. /\ given \in Seq(Chars \cup {NUL}) /\ given # <<>> /\ given[Len(given)] = NUL
      /\ \A i \in 1..(Len(given) - 1) : given[i] # NUL
  BY CountryAssumption DEF TypeOK
<1>2. Len(given) \in Nat /\ given \in [1..Len(given) -> Chars \cup {NUL}]
  BY <1>1
<1>3. Len(given) # 0
  BY <1>1
<1>4. /\ Size \in Nat /\ Size >= 1 /\ given[Size] = NUL
      /\ given \in [1..Size -> Chars \cup {NUL}]
  BY <1>1, <1>2, <1>3 DEF Size
<1>5. \A i \in 1..(Size - 1) : given[i] # NUL
  BY <1>1 DEF Size
<1>6. ASSUME NEW i \in 1..Size
      PROVE  given[i] = NUL <=> i = Size
  <2>1. CASE i = Size
    BY <1>4, <2>1
  <2>2. CASE i # Size
    <3>1. i \in 1..(Size - 1)
      BY <1>4, <2>2
    <3> QED BY <1>5, <2>2, <3>1
  <2> QED BY <2>1, <2>2
<1>7. ASSUME NEW i \in 1..(Size - 1)
      PROVE  given[i] \in Chars
  <2>1. i \in 1..Size /\ given[i] # NUL
    BY <1>4, <1>5
  <2> QED BY <1>4, <2>1
<1> QED BY <1>4, <1>6, <1>7

LEMMA CodeType ==
    ASSUME NEW c \in Codes
    PROVE  /\ Len(c) \in Nat \ {0}
           /\ \A i \in 1..Len(c) : c[i] \in Chars \ {Blank, Comma}
<1>1. c \in Seq(Chars \ {Blank, Comma}) /\ c # <<>>
  BY CountryAssumption
<1> QED BY <1>1

\* Where a code is listed there are its letters.
LEMMA ListedLetters ==
    ASSUME TypeOK, NEW c \in Codes, NEW k \in 1..Size, ListedAt(c, k)
    PROVE  /\ k + Len(c) <= Size
           /\ \A i \in 1..Len(c) : given[k + (i - 1)] \in Chars \ {Blank, Comma}
<1>1. Len(c) \in Nat \ {0} /\ \A i \in 1..Len(c) : c[i] \in Chars \ {Blank, Comma}
  BY CodeType
<1>2. k + Len(c) <= Size /\ \A i \in 1..Len(c) : Upper[given[k + (i - 1)]] = c[i]
  BY DEF ListedAt
<1>3. ASSUME NEW i \in 1..Len(c)
      PROVE  given[k + (i - 1)] \in Chars \ {Blank, Comma}
  <2>1. k + (i - 1) \in 1..(Size - 1)
    BY <1>1, <1>2, GivenType
  <2>2. given[k + (i - 1)] \in Chars
    BY <2>1, GivenType
  <2> QED BY <1>1, <1>2, <2>2, CountryAssumption
<1> QED BY <1>2, <1>3

LEMMA InitIInv == Init => IInv
<1> SUFFICES ASSUME Init PROVE IInv
  OBVIOUS
<1>1. given \in Seq(Chars \cup {NUL}) /\ given # <<>>
  BY CountryAssumption DEF Init
<1>2. Size \in Nat /\ Size >= 1 /\ given \in [1..Size -> Chars \cup {NUL}]
  <2>1. Len(given) \in Nat /\ Len(given) # 0
    BY <1>1
  <2> QED BY <1>1, <2>1 DEF Size
<1> QED BY <1>2 DEF Init, IInv, TypeOK, Ahead, AtHand, Worked

-----------------------------------------------------------------------------

\* What a call of strtok leaves.
LEMMA StrtokStep ==
    ASSUME IInv, Strtok
    PROVE  IInv'
<1> USE DEF Strtok, Go
<1>1. PICK start \in 1..Size, end \in 1..Size :
         /\ IsToken(start, end) /\ country' = start
         /\ list' = [list EXCEPT ![end] = NUL] /\ save' = Rest(end)
  OBVIOUS
<1>2. /\ TypeOK /\ \A i \in save..Size : list[i] = given[i]
      /\ save \in 1..Size /\ save <= start /\ start < end
      /\ code \in Codes /\ UNCHANGED <<given, address, code>> /\ Size' = Size
      /\ list \in [1..Size -> Chars \cup {NUL}]
  BY <1>1 DEF IInv, TypeOK, Ahead, IsToken, Size
<1>3. /\ \A i \in save..(start - 1) : given[i] = Comma
      /\ \A i \in start..(end - 1) : given[i] \notin {Comma, NUL}
      /\ given[end] \in {Comma, NUL} /\ list[end] = given[end]
      /\ \A i \in start..(end - 1) : list[i] = given[i]
  BY <1>1, <1>2, GivenType DEF IsToken
<1>4. save' \in 1..Size /\ save' >= end /\ TokenEnd' = end
  <2>1. CASE given[end] = NUL
    BY <1>1, <1>2, <1>3, <2>1 DEF Rest, TokenEnd
  <2>2. CASE given[end] = Comma
    <3>1. end < Size /\ save' = end + 1
      BY <1>1, <1>2, <1>3, <2>2, GivenType, CountryAssumption DEF Rest
    <3> QED BY <1>1, <1>2, <2>2, <3>1, GivenType DEF TokenEnd
  <2> QED BY <1>3, <2>1, <2>2
<1>5. start = 1 \/ given[start - 1] = Comma
  <2>1. CASE start > save
    BY <1>2, <1>3, <2>1
  <2>2. CASE start = save
    BY <1>1, <1>2, <1>3, <2>2 DEF IInv, Ahead
  <2> QED BY <1>2, <2>1, <2>2
<1>6. ASSUME NEW k \in 1..Size, ListedAt(code, k)
      PROVE  k >= start
  <2>1. k >= save
    BY <1>6 DEF IInv, Ahead
  <2>2. given[k + (1 - 1)] # Comma /\ k + (1 - 1) = k
    BY <1>2, <1>6, ListedLetters, CodeType
  <2> QED BY <1>2, <1>3, <2>1, <2>2
<1>7. \A k \in 1..Size : ListedAt(code, k)' <=> ListedAt(code, k)
  BY <1>2 DEF ListedAt, Size
<1>8. TypeOK'
  BY <1>1, <1>2, <1>4 DEF IInv, TypeOK
<1>9. Ahead'
  <2>1. \A i \in save'..Size : list'[i] = given[i]
    <3>1. \A i \in end..Size : i # end => list'[i] = given[i]
      BY <1>1, <1>2
    <3>2. save' = end => list'[end] = given[end]
      BY <1>1, <1>2, <1>3 DEF Rest
    <3> QED BY <1>4, <3>1, <3>2, <1>2
  <2>2. /\ code = address.code /\ address.af # "none" /\ ~Loopback(address)
        /\ given[1] # NUL
    BY DEF IInv, Ahead
  <2> QED BY <1>2, <2>1, <2>2 DEF Ahead, Loopback, is_local, is_local6
<1>10. AtHand'
  BY <1>1, <1>2, <1>3, <1>4, <1>5, <1>6, <1>7 DEF AtHand
<1>11. Worked'
  BY <1>1, <1>2, <1>3, <1>4 DEF Worked
<1> QED BY <1>8, <1>9, <1>10, <1>11 DEF IInv

\* While a token is at hand.
Token == pc \in {"trim", "upper", "compare"}

LEMMA TokenFacts ==
    ASSUME IInv, Token
    PROVE  /\ country \in 1..Size /\ TokenEnd \in 1..Size /\ country < TokenEnd
           /\ save \in 1..Size /\ TokenEnd \in {save, save - 1}
           /\ TokenEnd = save => given[save] = NUL
           /\ \A i \in country..(TokenEnd - 1) : given[i] \in Chars \ {Comma}
<1>1. /\ country \in 0..Size /\ save \in 1..Size
      /\ 1 <= country /\ country < TokenEnd
      /\ \A i \in country..(TokenEnd - 1) : given[i] \notin {Comma, NUL}
  BY DEF IInv, TypeOK, AtHand, Token
<1>2. TokenEnd \in {save, save - 1} /\ (TokenEnd = save => given[save] = NUL)
  BY <1>1 DEF TokenEnd
<1>3. Size \in Nat /\ \A i \in 1..(Size - 1) : given[i] \in Chars
  BY GivenType DEF IInv
<1> QED BY <1>1, <1>2, <1>3

\* A step on the token at hand leaves all else alone.
LEMMA TokenFrame ==
    ASSUME IInv, Token, Token', UNCHANGED <<given, address, code, country, save, result>>,
           list' \in [1..Size -> Chars \cup {NUL}],
           \A i \in save..Size : list'[i] = list[i]
    PROVE  TypeOK' /\ Ahead' /\ AtHand' /\ TokenEnd' = TokenEnd /\ Size' = Size
<1>1. Size' = Size /\ TokenEnd' = TokenEnd
  BY DEF Size, TokenEnd
<1>2. \A k \in 1..Size : ListedAt(code, k)' <=> ListedAt(code, k)
  BY <1>1 DEF ListedAt, Size
<1>3. TypeOK'
  BY <1>1 DEF IInv, TypeOK, Token
<1>4. Ahead'
  BY <1>1 DEF IInv, Ahead, Token, Loopback, is_local, is_local6
<1>5. AtHand'
  BY <1>1, <1>2 DEF IInv, AtHand, Token
<1> QED BY <1>1, <1>3, <1>4, <1>5

LEMMA TrimStep ==
    ASSUME IInv, trim
    PROVE  IInv'
<1> USE DEF trim, Go
<1>1. Token /\ pc = "trim" /\ pc' = "upper" /\ Token'
  BY DEF Token
<1> DEFINE T == TokenEnd
<1>2. /\ country \in 1..Size /\ T \in 1..Size /\ country < T /\ save \in 1..Size
      /\ T \in {save, save - 1} /\ (T = save => given[save] = NUL)
      /\ \A i \in country..(T - 1) : given[i] \in Chars \ {Comma}
  BY <1>1, TokenFacts
<1>3. list[T] = NUL /\ \A i \in country..(T - 1) : list[i] = given[i]
  BY <1>1 DEF IInv, Worked
<1>4. /\ list \in [1..Size -> Chars \cup {NUL}] /\ Size \in Nat /\ NUL \notin Chars
      /\ \A i \in save..Size : list[i] = given[i]
  BY GivenType, CountryAssumption DEF IInv, TypeOK, Ahead
<1> HIDE DEF T
<1>5. PICK end \in country..Size : \E first, last \in 0..end :
         /\ StrLen(country, end - country) /\ Solid(country, end, first, last)
         /\ list' = [i \in 1..Size |->
                       IF i \in country..(country + (last - first))
                         THEN list[first + (i - country)]
                       ELSE IF i = country + (last + 1 - first) \/ i \in (last + 1)..end
                         THEN NUL
                       ELSE list[i]]
  OBVIOUS
<1>6. PICK first \in 0..end, last \in 0..end :
         /\ StrLen(country, end - country) /\ Solid(country, end, first, last)
         /\ list' = [i \in 1..Size |->
                       IF i \in country..(country + (last - first))
                         THEN list[first + (i - country)]
                       ELSE IF i = country + (last + 1 - first) \/ i \in (last + 1)..end
                         THEN NUL
                       ELSE list[i]]
  BY <1>5
<1>7. end \in 1..Size /\ end = T
  <2>1. list[end] = NUL /\ \A i \in country..(end - 1) : list[i] # NUL
    <3>1. /\ list[country + (end - country)] = NUL
          /\ \A i \in country..(country + (end - country) - 1) : list[i] # NUL
      BY <1>6 DEF StrLen
    <3>2. country + (end - country) = end
      BY <1>2, <1>4
    <3> QED BY <1>2, <1>4, <3>1, <3>2
  <2>2. ASSUME end < T
        PROVE  FALSE
    <3>1. end \in country..(T - 1)
      BY <1>2, <1>4, <2>2
    <3>2. list[end] \in Chars
      BY <1>2, <1>3, <3>1
    <3> QED BY <1>4, <2>1, <3>2
  <2>3. ASSUME T < end
        PROVE  FALSE
    <3>1. T \in country..(end - 1)
      BY <1>2, <1>4, <2>3
    <3> QED BY <1>3, <2>1, <3>1
  <2> QED BY <1>2, <1>4, <2>2, <2>3
<1>8. /\ first \in 0..T /\ last \in 0..T
      /\ country <= first /\ first <= last + 1 /\ last < T
      /\ first <= last => list[first] # Blank /\ list[last] # Blank
      /\ first > last => first = country
      /\ \A i \in country..(first - 1) \cup (last + 1)..(T - 1) : list[i] = Blank
  <2>1. Solid(country, T, first, last)
    BY <1>6, <1>7
  <2>2. first \in 0..T /\ last \in 0..T
    BY <1>6, <1>7
  <2>3. /\ country <= first /\ first <= last + 1 /\ last < T
        /\ first <= last => list[first] # Blank /\ list[last] # Blank
        /\ first > last => first = country
    BY <2>1 DEF Solid
  <2>4. \A i \in country..(first - 1) \cup (last + 1)..(T - 1) : list[i] = Blank
    BY <2>1 DEF Solid
  <2> QED BY <2>2, <2>3, <2>4
<1>9. Core(first, last)
  <2>1. first <= last => /\ first \in country..(T - 1) /\ last \in country..(T - 1)
                         /\ list[first] = given[first] /\ list[last] = given[last]
    BY <1>2, <1>3, <1>4, <1>8
  <2>2. \A i \in country..(first - 1) \cup (last + 1)..(T - 1) : i \in country..(T - 1)
    BY <1>2, <1>4, <1>8
  <2> QED BY <1>3, <1>8, <2>1, <2>2 DEF Core, T
<1>10. ASSUME NEW i \in 1..Size
       PROVE  /\ i \in country..(country + (last - first)) =>
                   list'[i] = list[first + (i - country)]
              /\ i = country + (last + 1 - first) => list'[i] = NUL
              /\ i = T => list'[i] = NUL
              /\ list'[i] \in Chars \cup {NUL}
              /\ i > T => list'[i] = list[i]
  <2>1. list'[i] = IF i \in country..(country + (last - first))
                     THEN list[first + (i - country)]
                   ELSE IF i = country + (last + 1 - first) \/ i \in (last + 1)..end
                     THEN NUL
                   ELSE list[i]
    BY <1>6
  <2>2. CASE i \in country..(country + (last - first))
    <3>1. first + (i - country) \in 1..Size
      BY <1>2, <1>4, <1>8, <2>2
    <3>2. i # country + (last + 1 - first) /\ i < T
      BY <1>2, <1>4, <1>8, <2>2
    <3>3. list'[i] = list[first + (i - country)]
      BY <2>1, <2>2
    <3> QED BY <1>2, <1>4, <3>1, <3>2, <3>3
  <2>3. CASE i \notin country..(country + (last - first))
    <3>1. i = T => i \in (last + 1)..end
      BY <1>2, <1>4, <1>7, <1>8
    <3>2. i > T => i # country + (last + 1 - first) /\ i \notin (last + 1)..end
      BY <1>2, <1>4, <1>7, <1>8
    <3> QED BY <1>2, <1>4, <2>1, <2>3, <3>1, <3>2
  <2> QED BY <2>2, <2>3
<1>11. /\ list' \in [1..Size -> Chars \cup {NUL}]
       /\ \A i \in save..Size : list'[i] = list[i]
  <2>1. list' \in [1..Size -> Chars \cup {NUL}]
    <3>1. list' = [i \in 1..Size |-> list'[i]]
      BY <1>6
    <3> QED BY <1>10, <3>1
  <2>2. ASSUME NEW i \in save..Size
        PROVE  list'[i] = list[i]
    <3>1. i \in 1..Size /\ i >= T
      BY <1>2, <1>4
    <3>2. i = T => list'[i] = NUL /\ list[i] = NUL
      BY <1>3, <1>10, <3>1
    <3> QED BY <1>2, <1>4, <1>10, <3>1, <3>2
  <2> QED BY <2>1, <2>2
<1>12. TypeOK' /\ Ahead' /\ AtHand' /\ TokenEnd' = TokenEnd /\ Size' = Size
  BY <1>1, <1>11, TokenFrame
<1>13. Worked'
  <2>1. list'[country + (last + 1 - first)] = NUL
    BY <1>2, <1>4, <1>8, <1>10
  <2>2. ASSUME NEW i \in 0..(last - first)
        PROVE  list'[country + i] = given[first + i]
    <3>1. /\ country + i \in country..(country + (last - first)) /\ country + i \in 1..Size
          /\ first + ((country + i) - country) = first + i
          /\ first + i \in country..(T - 1)
      BY <1>2, <1>4, <1>8
    <3>2. list'[country + i] = list[first + ((country + i) - country)]
      BY <1>10, <3>1
    <3> QED BY <1>3, <3>1, <3>2
  <2>3. Core(first, last)'
    BY <1>9, <1>12 DEF Core
  <2>4. first \in 0..Size' /\ last \in 0..Size'
    BY <1>2, <1>4, <1>8, <1>12
  <2> QED BY <1>1, <2>1, <2>2, <2>3, <2>4 DEF Worked
<1> QED BY <1>12, <1>13 DEF IInv

LEMMA UpperStep ==
    ASSUME IInv, strtoupper
    PROVE  IInv'
<1> USE DEF strtoupper, Go
<1>1. Token /\ pc = "upper" /\ pc' = "compare" /\ Token'
  BY DEF Token
<1> DEFINE T == TokenEnd
<1>2. /\ country \in 1..Size /\ T \in 1..Size /\ country < T /\ save \in 1..Size
      /\ T \in {save, save - 1}
      /\ \A i \in country..(T - 1) : given[i] \in Chars
  BY <1>1, TokenFacts
<1>3. PICK first \in 0..Size, last \in 0..Size :
        /\ Core(first, last)
        /\ list[country + (last + 1 - first)] = NUL
        /\ \A i \in 0..(last - first) : list[country + i] = given[first + i]
  BY <1>1 DEF IInv, Worked
<1>4. country <= first /\ first <= last + 1 /\ last < T
  BY <1>3 DEF Core
<1> HIDE DEF T
<1>5. /\ list \in [1..Size -> Chars \cup {NUL}] /\ Size \in Nat
      /\ NUL \notin Chars /\ Upper \in [Chars -> Chars]
  BY GivenType, CountryAssumption DEF IInv, TypeOK
<1>6. PICK n \in 0..Size :
         /\ country + n <= Size /\ StrLen(country, n)
         /\ list' = [i \in 1..Size |->
                       IF i \in country..(country + n - 1) THEN Upper[list[i]]
                                                           ELSE list[i]]
  OBVIOUS
<1>7. ASSUME NEW i \in 0..(last - first)
      PROVE  list[country + i] = given[first + i] /\ given[first + i] \in Chars
  <2>1. first + i \in country..(T - 1)
    BY <1>2, <1>4, <1>5
  <2> QED BY <1>2, <1>3, <2>1
<1>8. n = last + 1 - first
  <2>1. list[country + n] = NUL /\ \A i \in country..(country + n - 1) : list[i] # NUL
    BY <1>6 DEF StrLen
  <2>2. ASSUME n < last + 1 - first
        PROVE  FALSE
    <3>1. n \in 0..(last - first)
      BY <1>5, <2>2
    <3> QED BY <1>5, <1>7, <2>1, <3>1
  <2>3. ASSUME last + 1 - first < n
        PROVE  FALSE
    <3>1. country + (last + 1 - first) \in country..(country + n - 1)
      BY <1>2, <1>4, <1>5, <2>3
    <3> QED BY <1>3, <2>1, <3>1
  <2> QED BY <1>5, <2>2, <2>3
<1>9. ASSUME NEW i \in 1..Size
      PROVE  /\ i \in country..(country + n - 1) => list'[i] = Upper[list[i]]
             /\ i \notin country..(country + n - 1) => list'[i] = list[i]
             /\ list'[i] \in Chars \cup {NUL}
  <2>1. list'[i] = IF i \in country..(country + n - 1) THEN Upper[list[i]] ELSE list[i]
    BY <1>6
  <2>2. CASE i \in country..(country + n - 1)
    <3>1. list[i] # NUL
      BY <1>6, <2>2 DEF StrLen
    <3> QED BY <1>5, <2>1, <2>2, <3>1
  <2>3. CASE i \notin country..(country + n - 1)
    BY <1>5, <2>1, <2>3
  <2> QED BY <2>2, <2>3
<1>10. /\ list' \in [1..Size -> Chars \cup {NUL}]
       /\ \A i \in save..Size : list'[i] = list[i]
  <2>1. list' = [i \in 1..Size |-> list'[i]]
    BY <1>6
  <2>2. \A i \in save..Size : i \in 1..Size /\ i \notin country..(country + n - 1)
    BY <1>2, <1>4, <1>5, <1>8
  <2> QED BY <1>9, <2>1, <2>2
<1>11. TypeOK' /\ Ahead' /\ AtHand' /\ TokenEnd' = TokenEnd /\ Size' = Size
  BY <1>1, <1>10, TokenFrame
<1>12. Worked'
  <2>1. list'[country + (last + 1 - first)] = NUL
    <3>1. /\ country + (last + 1 - first) \in 1..Size
          /\ country + (last + 1 - first) \notin country..(country + n - 1)
      BY <1>2, <1>4, <1>5, <1>6, <1>8
    <3> QED BY <1>3, <1>9, <3>1
  <2>2. ASSUME NEW i \in 0..(last - first)
        PROVE  list'[country + i] = Upper[given[first + i]]
    <3>1. country + i \in 1..Size /\ country + i \in country..(country + n - 1)
      BY <1>2, <1>4, <1>5, <1>6, <1>8
    <3>2. list'[country + i] = Upper[list[country + i]]
      BY <1>9, <3>1
    <3>3. list[country + i] = given[first + i]
      BY <1>7
    <3> QED BY <3>2, <3>3
  <2>3. Core(first, last)'
    BY <1>3, <1>11 DEF Core
  <2>4. first \in 0..Size' /\ last \in 0..Size'
    BY <1>11
  <2>5. \A i \in 0..(last - first) :
          list'[country' + i] = IF pc' = "upper" THEN given'[first + i]
                                ELSE Upper[given'[first + i]]
    BY <1>1, <2>2
  <2> QED BY <2>1, <2>3, <2>4, <2>5 DEF Worked
<1> QED BY <1>11, <1>12 DEF IInv

\* Where a code is listed no earlier than at the token at hand, and before what
\* strtok has left, it is the whole of the token.
LEMMA ListedWithin ==
    ASSUME IInv, Token, NEW c \in Codes, NEW k \in 1..Size, ListedAt(c, k),
           country <= k, k < save, NEW first \in 0..Size, NEW last \in 0..Size,
           Core(first, last)
    PROVE  k = first /\ Len(c) = last + 1 - first
<1> DEFINE T == TokenEnd
<1>1. /\ country \in 1..Size /\ T \in 1..Size /\ country < T /\ save \in 1..Size
      /\ T \in {save, save - 1}
      /\ \A i \in country..(T - 1) : given[i] \in Chars \ {Comma}
  BY TokenFacts
<1>2. given[T] \in {Comma, NUL}
  BY DEF IInv, AtHand, Token
<1>3. /\ country <= first /\ first <= last + 1 /\ last < T
      /\ first <= last => given[first] # Blank /\ given[last] # Blank
      /\ \A i \in country..(first - 1) : given[i] = Blank
      /\ \A i \in (last + 1)..(T - 1) : given[i] = Blank
  BY DEF Core
<1> HIDE DEF T
<1>4. /\ Size \in Nat /\ NUL \notin Chars /\ Comma # Blank /\ Blank \in Chars
      /\ TypeOK
  BY GivenType, CountryAssumption DEF IInv
<1> DEFINE n == Len(c)
<1>5. n \in Nat \ {0}
  BY CodeType
<1>6. k + n <= Size /\ \A i \in 1..n : given[k + (i - 1)] \in Chars \ {Blank, Comma}
  BY <1>4, ListedLetters
<1>7. PICK i \in 1..k :
        /\ i = 1 \/ given[i - 1] = Comma
        /\ \A x \in i..(k - 1) : given[x] = Blank
  BY DEF ListedAt
<1>8. PICK j \in (k + n)..Size :
        /\ given[j] \in {Comma, NUL}
        /\ \A x \in (k + n)..(j - 1) : given[x] = Blank
  BY DEF ListedAt
<1> HIDE DEF n
<1>9. ASSUME NEW x \in k..(k + n - 1)
      PROVE  given[x] \in Chars \ {Blank, Comma}
  <2>1. x - k + 1 \in 1..n /\ k + ((x - k + 1) - 1) = x
    BY <1>5
  <2> QED BY <1>6, <2>1
<1>10. k < T /\ k + n <= T
  <2>1. k # T
    <3>1. k \in k..(k + n - 1)
      BY <1>5
    <3> QED BY <1>2, <1>4, <1>9, <3>1
  <2>2. k < T
    BY <1>1, <1>4, <2>1
  <2>3. T \notin k..(k + n - 1)
    BY <1>2, <1>4, <1>9
  <2> QED BY <1>1, <1>4, <1>5, <2>2, <2>3
<1>11. j = T
  <2>1. ASSUME j < T
        PROVE  FALSE
    <3>1. j \in country..(T - 1)
      BY <1>1, <1>4, <1>5, <1>8, <2>1
    <3> QED BY <1>1, <1>4, <1>8, <3>1
  <2>2. ASSUME T < j
        PROVE  FALSE
    <3>1. T \in (k + n)..(j - 1)
      BY <1>1, <1>4, <1>5, <1>10, <2>2
    <3> QED BY <1>2, <1>4, <1>8, <3>1
  <2> QED BY <1>1, <1>4, <1>5, <1>8, <2>1, <2>2
<1>12. i <= country
  <2>1. ASSUME country < i
        PROVE  FALSE
    <3>1. i - 1 \in country..(T - 1) /\ i # 1
      BY <1>1, <1>4, <1>7, <1>10, <2>1
    <3> QED BY <1>1, <1>7, <3>1
  <2> QED BY <1>1, <1>7, <2>1
<1>13. first <= k /\ k + n - 1 <= last
  <2>1. k \in k..(k + n - 1) /\ k + n - 1 \in k..(k + n - 1)
    BY <1>5
  <2>2. given[k] # Blank /\ given[k + n - 1] # Blank
    BY <1>9, <2>1
  <2>3. k \notin country..(first - 1) /\ k + n - 1 \notin (last + 1)..(T - 1)
    BY <1>3, <2>2
  <2> QED BY <1>1, <1>3, <1>4, <1>5, <1>10, <2>3
<1>14. first <= last /\ given[first] # Blank /\ given[last] # Blank
  BY <1>3, <1>4, <1>5, <1>13
<1>15. first = k
  <2>1. first \notin i..(k - 1)
    BY <1>7, <1>14
  <2> QED BY <1>1, <1>3, <1>4, <1>7, <1>12, <1>13, <2>1
<1>16. last = k + n - 1
  <2>1. last \notin (k + n)..(j - 1)
    BY <1>8, <1>14
  <2> QED BY <1>1, <1>3, <1>4, <1>5, <1>11, <1>13, <2>1
<1> QED BY <1>4, <1>5, <1>15, <1>16 DEF n

\* The comparison finds the code exactly when the token is it.
LEMMA SameListed ==
    ASSUME IInv, pc = "compare"
    PROVE  Same <=> \E k \in country..(save - 1) : ListedAt(code, k)
<1> DEFINE T == TokenEnd
<1>1. Token
  BY DEF Token
<1>2. /\ country \in 1..Size /\ T \in 1..Size /\ country < T /\ save \in 1..Size
      /\ T \in {save, save - 1}
      /\ \A i \in country..(T - 1) : given[i] \in Chars
  BY <1>1, TokenFacts
<1>3. PICK first \in 0..Size, last \in 0..Size :
        /\ Core(first, last)
        /\ list[country + (last + 1 - first)] = NUL
        /\ \A i \in 0..(last - first) : list[country + i] = Upper[given[first + i]]
  BY DEF IInv, Worked
<1>4. /\ country <= first /\ first <= last + 1 /\ last < T
      /\ \A i \in country..(first - 1) : given[i] = Blank
      /\ \A i \in (last + 1)..(T - 1) : given[i] = Blank
  BY <1>3 DEF Core
<1>5. given[T] \in {Comma, NUL} /\ (country = 1 \/ given[country - 1] = Comma)
  BY <1>1 DEF IInv, AtHand, Token
<1> HIDE DEF T
<1>6. /\ Size \in Nat /\ NUL \notin Chars /\ Upper \in [Chars -> Chars]
      /\ code \in Codes
  BY GivenType, CountryAssumption DEF IInv, Ahead
<1> DEFINE n == Len(code)
<1>7. n \in Nat \ {0} /\ \A i \in 1..n : code[i] \in Chars
  BY <1>6, CodeType
<1> HIDE DEF n
<1>8. ASSUME NEW i \in 0..(last - first)
      PROVE  /\ list[country + i] = Upper[given[first + i]]
             /\ list[country + i] # NUL
  <2>1. first + i \in country..(T - 1)
    BY <1>2, <1>4, <1>6
  <2>2. list[country + i] = Upper[given[first + i]]
    BY <1>3
  <2> QED BY <1>2, <1>6, <2>1, <2>2
<1>9. ASSUME Same
      PROVE  \E k \in country..(save - 1) : ListedAt(code, k)
  <2>1. /\ country + n <= Size
        /\ list[country + n] = NUL
        /\ \A i \in country..(country + n - 1) : list[i] # NUL
        /\ \A i \in 1..n : list[country + (i - 1)] = code[i]
    BY <1>9 DEF Same, StrLen, n
  <2>2. n = last + 1 - first
    <3>1. ASSUME n < last + 1 - first
          PROVE  FALSE
      <4>1. n \in 0..(last - first)
        BY <1>7, <3>1
      <4> QED BY <1>8, <2>1, <4>1
    <3>2. ASSUME last + 1 - first < n
          PROVE  FALSE
      <4>1. country + (last + 1 - first) \in country..(country + n - 1)
        BY <1>2, <1>4, <1>6, <1>7, <3>2
      <4> QED BY <1>3, <2>1, <4>1
    <3> QED BY <1>6, <1>7, <3>1, <3>2
  <2>3. first \in country..(save - 1) /\ 1 <= first /\ first + n <= T
    BY <1>2, <1>4, <1>6, <1>7, <2>2
  <2>4. ASSUME NEW i \in 1..n
        PROVE  Upper[given[first + (i - 1)]] = code[i]
    <3>1. i - 1 \in 0..(last - first)
      BY <1>6, <1>7, <2>2
    <3>2. list[country + (i - 1)] = Upper[given[first + (i - 1)]]
      BY <1>8, <3>1
    <3> QED BY <2>1, <3>2
  <2>5. \E i \in 1..first :
          /\ i = 1 \/ given[i - 1] = Comma
          /\ \A x \in i..(first - 1) : given[x] = Blank
    <3>1. country \in 1..first
      BY <1>2, <1>4, <1>6
    <3> QED BY <1>4, <1>5, <3>1
  <2>6. \E j \in (first + n)..Size :
          /\ given[j] \in {Comma, NUL}
          /\ \A x \in (first + n)..(j - 1) : given[x] = Blank
    <3>1. T \in (first + n)..Size /\ first + n = last + 1
      BY <1>2, <1>6, <1>7, <2>2, <2>3
    <3> QED BY <1>4, <1>5, <3>1
  <2>7. first + n <= Size
    BY <1>2, <1>6, <1>7, <2>3
  <2>8. ListedAt(code, first)
    BY <2>3, <2>4, <2>5, <2>6, <2>7 DEF ListedAt, n
  <2> QED BY <2>3, <2>8
<1>10. ASSUME NEW k \in country..(save - 1), ListedAt(code, k)
       PROVE  Same
  <2>1. k \in 1..Size /\ country <= k /\ k < save
    BY <1>2, <1>6
  <2>2. k = first /\ n = last + 1 - first
    BY <1>1, <1>3, <1>6, <1>10, <2>1, ListedWithin DEF n
  <2>3. country + n <= Size
    BY <1>2, <1>4, <1>6, <1>7, <2>2
  <2>4. list[country + n] = NUL
    BY <1>3, <2>2
  <2>5. ASSUME NEW i \in country..(country + n - 1)
        PROVE  list[i] # NUL
    <3>1. i - country \in 0..(last - first) /\ country + (i - country) = i
      BY <1>2, <1>6, <1>7, <2>2
    <3> QED BY <1>8, <3>1
  <2>6. ASSUME NEW i \in 1..n
        PROVE  list[country + (i - 1)] = code[i]
    <3>1. i - 1 \in 0..(last - first)
      BY <1>6, <1>7, <2>2
    <3>2. Upper[given[k + (i - 1)]] = code[i]
      BY <1>10 DEF ListedAt, n
    <3>3. list[country + (i - 1)] = Upper[given[first + (i - 1)]]
      BY <1>8, <3>1
    <3> QED BY <2>2, <3>2, <3>3
  <2> QED BY <2>3, <2>4, <2>5, <2>6 DEF Same, StrLen, n
<1> QED BY <1>9, <1>10

LEMMA DifferStep ==
    ASSUME IInv, Differ
    PROVE  IInv'
<1> USE DEF Differ, Go
<1>1. /\ Token /\ pc = "compare" /\ pc' = "token" /\ ~Same
      /\ UNCHANGED <<given, address, list, code, country, save, result>>
  BY DEF Token
<1>2. /\ country \in 1..Size /\ TokenEnd \in 1..Size /\ country < TokenEnd
      /\ save \in 1..Size /\ TokenEnd \in {save, save - 1}
      /\ TokenEnd = save => given[save] = NUL
  BY <1>1, TokenFacts
<1>3. Size \in Nat /\ \A i \in 1..Size : given[i] = NUL <=> i = Size
  BY GivenType DEF IInv
<1>4. given[TokenEnd] \in {Comma, NUL}
      /\ \A k \in 1..Size : ListedAt(code, k) => k >= country
  BY <1>1 DEF IInv, AtHand
<1>5. save = 1 \/ given[save] = NUL \/ given[save - 1] = Comma
  <2>1. CASE TokenEnd = save
    BY <1>2, <2>1
  <2>2. CASE TokenEnd = save - 1
    <3>1. TokenEnd # Size
      BY <1>2, <1>3, <2>2
    <3> QED BY <1>2, <1>3, <1>4, <2>2, <3>1
  <2> QED BY <1>2, <2>1, <2>2
<1>6. ASSUME NEW k \in 1..Size, ListedAt(code, k)
      PROVE  k >= save
  <2>1. k >= country
    BY <1>4, <1>6
  <2>2. k \notin country..(save - 1)
    BY <1>1, <1>6, SameListed
  <2> QED BY <1>2, <1>3, <2>1, <2>2
<1>7. Size' = Size /\ \A k \in 1..Size : ListedAt(code, k)' <=> ListedAt(code, k)
  BY <1>1 DEF ListedAt, Size
<1>8. TypeOK'
  BY <1>1, <1>7 DEF IInv, TypeOK
<1>9. Ahead'
  BY <1>1, <1>5, <1>6, <1>7 DEF IInv, Ahead, Loopback, is_local, is_local6
<1>10. AtHand' /\ Worked'
  BY <1>1 DEF AtHand, Worked
<1> QED BY <1>8, <1>9, <1>10 DEF IInv

\* No step is taken after the last.
LEMMA DoneStep ==
    ASSUME IInv, pc' = "done", result' \in {0, 1},
           UNCHANGED <<given, address, list, code, country, save>>
    PROVE  IInv'
<1>1. Size' = Size
  BY DEF Size
<1>2. TypeOK'
  BY <1>1 DEF IInv, TypeOK
<1>3. Ahead' /\ AtHand' /\ Worked'
  BY <1>1 DEF IInv, Ahead, AtHand, Worked
<1> QED BY <1>2, <1>3 DEF IInv

LEMMA NotEmptyStep ==
    ASSUME IInv, NotEmpty
    PROVE  IInv'
<1>1. /\ pc = "list" /\ pc' = "address" /\ list[1] # NUL
      /\ UNCHANGED <<given, address, list, code, country, save, result>>
  BY DEF NotEmpty, Go
<1>2. Size' = Size
  BY <1>1 DEF Size
<1>3. TypeOK'
  BY <1>1, <1>2 DEF IInv, TypeOK
<1>4. Ahead'
  BY <1>1, <1>2 DEF IInv, Ahead
<1>5. AtHand' /\ Worked'
  BY <1>1 DEF AtHand, Worked
<1> QED BY <1>3, <1>4, <1>5 DEF IInv

LEMMA GetCodeStep ==
    ASSUME IInv, GetCode
    PROVE  IInv'
<1>1. /\ pc = "address" /\ pc' = "token" /\ ~Loopback(address)
      /\ address.af # "none" /\ address.code # NoCode /\ code' = address.code
      /\ UNCHANGED <<given, address, list, country, save, result>>
  BY DEF GetCode, Go
<1>2. Size' = Size
  BY <1>1 DEF Size
<1>3. code' \in Codes
  <2>1. address \in Address
    BY CountryAssumption DEF IInv, TypeOK
  <2> QED BY <1>1, <2>1 DEF Address
<1>4. TypeOK'
  BY <1>1, <1>2, <1>3 DEF IInv, TypeOK
<1>5. save = 1 /\ list = given /\ given[1] # NUL
  BY <1>1 DEF IInv, Ahead
<1>6. Size \in Nat
  BY GivenType DEF IInv
<1>7. ~Loopback(address)'
  BY <1>1 DEF Loopback, is_local, is_local6
<1>8. Ahead'
  BY <1>1, <1>2, <1>3, <1>5, <1>6, <1>7 DEF Ahead
<1>9. AtHand' /\ Worked'
  BY <1>1 DEF AtHand, Worked
<1> QED BY <1>4, <1>8, <1>9 DEF IInv

LEMMA NextIInv ==
    ASSUME IInv, [Next]_vars
    PROVE  IInv'
<1>1. CASE IgnoreEmpty
  BY <1>1, DoneStep DEF IgnoreEmpty, Return, Go
<1>2. CASE NotEmpty
  BY <1>2, NotEmptyStep
<1>3. CASE PermitLocal
  BY <1>3, DoneStep DEF PermitLocal, Return, Go
<1>4. CASE GetCode
  BY <1>4, GetCodeStep
<1>5. CASE FailOnError
  BY <1>5, DoneStep DEF FailOnError, Return, Go
<1>6. CASE Strtok
  BY <1>6, StrtokStep
<1>7. CASE StrtokEnds
  BY <1>7, DoneStep DEF StrtokEnds, Return, Go
<1>8. CASE trim
  BY <1>8, TrimStep
<1>9. CASE strtoupper
  BY <1>9, UpperStep
<1>10. CASE Match
  BY <1>10, DoneStep DEF Match, Return, Go
<1>11. CASE Differ
  BY <1>11, DifferStep
<1>12. CASE UNCHANGED vars
  <2>1. Size' = Size /\ TokenEnd' = TokenEnd
    BY <1>12 DEF vars, Size, TokenEnd
  <2>2. UNCHANGED <<given, list, address, pc, code, country, save, result>>
    BY <1>12 DEF vars
  <2>3. \A k \in 1..Size : ListedAt(code, k)' <=> ListedAt(code, k)
    BY <2>1, <2>2 DEF ListedAt, Size
  <2>4. TypeOK'
    BY <2>1, <2>2 DEF IInv, TypeOK
  <2>5. Ahead'
    BY <2>1, <2>2, <2>3 DEF IInv, Ahead, Loopback, is_local, is_local6
  <2>6. AtHand'
    BY <2>1, <2>2, <2>3 DEF IInv, AtHand
  <2>7. Worked'
    BY <2>1, <2>2 DEF IInv, Worked, Core
  <2> QED BY <2>4, <2>5, <2>6, <2>7 DEF IInv
<1> QED
  BY <1>1, <1>2, <1>3, <1>4, <1>5, <1>6, <1>7, <1>8, <1>9, <1>10, <1>11, <1>12
  DEF Next, Ended

\* In every state the list ahead of strtok is as it was given, the token at hand
\* is a field of it in the state its rewriting has reached, and no occurrence of
\* the code lies behind.
THEOREM CheckInvariant == Spec => []IInv
<1>1. Init => IInv
  BY InitIInv
<1>2. IInv /\ [Next]_vars => IInv'
  BY NextIInv
<1> QED BY <1>1, <1>2, PTL DEF Spec

-----------------------------------------------------------------------------

\* Of what the answer is made when the code is not looked for in the list.
LEMMA AnswerBefore ==
    ASSUME IInv, IgnoreEmpty \/ PermitLocal \/ FailOnError
    PROVE  ListDecides'
<1>1. /\ code = NoCode /\ list = given /\ pc' = "done"
      /\ UNCHANGED <<given, address, code>>
  BY DEF IInv, Ahead, IgnoreEmpty, PermitLocal, FailOnError, Return, Go
<1>2. Loopback(address)' <=> Loopback(address)
  BY <1>1 DEF Loopback, is_local, is_local6
<1>3. CASE IgnoreEmpty
  BY <1>1, <1>3 DEF ListDecides, IgnoreEmpty, Return
<1>4. CASE PermitLocal
  BY <1>1, <1>2, <1>4 DEF ListDecides, PermitLocal, Return
<1>5. CASE FailOnError
  <2>1. result' = 0 /\ ~Loopback(address) /\ given[1] # NUL
    BY <1>5 DEF IInv, Ahead, FailOnError, Return, Go
  <2> QED BY <1>1, <1>2, <2>1 DEF ListDecides
<1> QED BY <1>3, <1>4, <1>5

LEMMA AnswerYes ==
    ASSUME IInv, Match
    PROVE  ListDecides'
<1>1. /\ pc = "compare" /\ pc' = "done" /\ Same /\ result' = 1
      /\ UNCHANGED <<given, address, code>>
  BY DEF Match, Return, Go
<1>2. /\ code = address.code /\ address.af # "none" /\ code # NoCode
      /\ country >= 1 /\ save <= Size /\ country \in Int /\ save \in Int /\ Size \in Nat
  BY <1>1, GivenType, CountryAssumption DEF IInv, TypeOK, Ahead, AtHand
<1>3. PICK k \in country..(save - 1) : ListedAt(code, k)
  BY <1>1, SameListed
<1>4. Listed(code)
  <2>1. k \in 1..Size
    BY <1>2
  <2> QED BY <1>3, <2>1 DEF Listed
<1>5. Listed(code)'
  BY <1>1, <1>4 DEF Listed, ListedAt, Size
<1> QED BY <1>1, <1>2, <1>5 DEF ListDecides

LEMMA AnswerNo ==
    ASSUME IInv, StrtokEnds
    PROVE  ListDecides'
<1>1. /\ pc = "token" /\ pc' = "done" /\ result' = 0
      /\ UNCHANGED <<given, address, code>>
  BY DEF StrtokEnds, Return, Go
<1>2. PICK end \in save..Size :
        list[end] = NUL /\ \A i \in save..(end - 1) : list[i] = Comma
  BY DEF StrtokEnds
<1>3. /\ code = address.code /\ code \in Codes /\ code # NoCode
      /\ address.af # "none" /\ ~Loopback(address) /\ given[1] # NUL
      /\ \A k \in 1..Size : ListedAt(code, k) => k >= save
      /\ save \in 1..Size /\ \A i \in save..Size : list[i] = given[i]
  BY <1>1, CountryAssumption DEF IInv, TypeOK, Ahead
<1>4. Size \in Nat /\ \A i \in 1..Size : given[i] = NUL <=> i = Size
  BY GivenType DEF IInv
<1>5. end = Size
  BY <1>2, <1>3, <1>4
<1>6. ASSUME NEW k \in 1..Size, ListedAt(code, k)
      PROVE  FALSE
  <2>1. k \in save..Size
    BY <1>3, <1>4, <1>6
  <2>2. given[k] \in {Comma, NUL}
    BY <1>2, <1>3, <1>4, <1>5, <2>1
  <2>3. Len(code) \in Nat \ {0} /\ TypeOK
    BY <1>3, CodeType DEF IInv
  <2>4. given[k + (1 - 1)] \in Chars \ {Blank, Comma}
    BY <1>3, <1>6, <2>3, ListedLetters
  <2>5. k + (1 - 1) = k
    BY <1>4
  <2> QED BY <2>2, <2>4, <2>5, CountryAssumption
<1>7. ~Listed(code)
  BY <1>6 DEF Listed
<1>8. ~Listed(code)' /\ ~Loopback(address)'
  BY <1>1, <1>3, <1>7 DEF Listed, ListedAt, Size, Loopback, is_local, is_local6
<1> QED BY <1>1, <1>3, <1>8 DEF ListDecides

\* Whatever the list: the answer is yes exactly for an empty list, for this
\* machine, and for a known country that is one of its fields as they were
\* before the call rewrote them.
THEOREM ListIsDecisive == Spec => []ListDecides
<1>1. Init => ListDecides
  BY DEF Init, ListDecides
<1>2. ASSUME IInv, ListDecides, [Next]_vars
      PROVE  ListDecides'
  <2>1. CASE IgnoreEmpty \/ PermitLocal \/ FailOnError
    BY <1>2, <2>1, AnswerBefore
  <2>2. CASE Match
    BY <1>2, <2>2, AnswerYes
  <2>3. CASE StrtokEnds
    BY <1>2, <2>3, AnswerNo
  <2>4. CASE NotEmpty \/ GetCode \/ Strtok \/ trim \/ strtoupper \/ Differ
    BY <2>4 DEF ListDecides, NotEmpty, GetCode, Strtok, trim, strtoupper, Differ, Go
  <2>5. CASE UNCHANGED vars
    BY <1>2, <2>5 DEF ListDecides, vars, Listed, ListedAt, Size,
                      Loopback, is_local, is_local6
  <2> QED BY <1>2, <2>1, <2>2, <2>3, <2>4, <2>5 DEF Next, Ended
<1> QED BY <1>1, <1>2, CheckInvariant, PTL DEF Spec

-----------------------------------------------------------------------------

\* strtok goes on behind what it returned, and within the list.
LEMMA StrtokGoesOn ==
    ASSUME IInv, Strtok
    PROVE  /\ pc = "token" /\ pc' = "trim" /\ UNCHANGED given
           /\ save' \in 1..Size /\ save' > save
<1>1. /\ pc = "token" /\ pc' = "trim" /\ UNCHANGED given
  BY DEF Strtok, Go
<1>2. PICK start \in 1..Size, end \in 1..Size :
        IsToken(start, end) /\ save' = Rest(end)
  BY DEF Strtok
<1>3. Size \in Nat /\ save \in 1..Size /\ (\A i \in 1..Size : given[i] = NUL <=> i = Size)
      /\ \A i \in save..Size : list[i] = given[i]
  BY GivenType DEF IInv, TypeOK, Ahead
<1>4. save <= start /\ start < end
  BY <1>2 DEF IsToken
<1>5. list[end] = given[end]
  BY <1>2, <1>3, <1>4
<1>6. CASE list[end] = NUL
  BY <1>1, <1>2, <1>3, <1>4, <1>6 DEF Rest
<1>7. CASE list[end] # NUL
  <2>1. end # Size
    BY <1>3, <1>5, <1>7
  <2> QED BY <1>1, <1>2, <1>3, <1>4, <1>7, <2>1 DEF Rest
<1> QED BY <1>1, <1>6, <1>7

\* Whatever the list holds, and whatever has been written over it, the loop gets
\* to its end: the number of steps of a call is bounded by the length of the list.
THEOREM CheckAdvances == Spec => Advances
<1>1. IInv /\ [Next]_vars
        => [0 <= StepsLeft' /\ StepsLeft' < StepsLeft]_vars
  <2> SUFFICES ASSUME IInv, Next, ~UNCHANGED vars
               PROVE  0 <= StepsLeft' /\ StepsLeft' < StepsLeft
    OBVIOUS
  <2>1. Size \in Nat /\ save \in 1..Size
    BY GivenType DEF IInv, TypeOK
  <2>2. CASE Strtok
    <3>1. /\ pc = "token" /\ pc' = "trim" /\ Size' = Size
          /\ save' \in 1..Size /\ save' > save
      BY <2>2, StrtokGoesOn DEF Size
    <3> QED BY <2>1, <3>1 DEF StepsLeft
  <2>3. CASE ~Strtok
    <3>1. /\ UNCHANGED <<given, save>>
          /\ \/ pc = "list" /\ pc' \in {"address", "done"}
             \/ pc = "address" /\ pc' \in {"token", "done"}
             \/ pc = "token" /\ pc' = "done"
             \/ pc = "trim" /\ pc' = "upper"
             \/ pc = "upper" /\ pc' = "compare"
             \/ pc = "compare" /\ pc' \in {"token", "done"}
      BY <2>3 DEF Next, Ended, IgnoreEmpty, NotEmpty, PermitLocal, GetCode, FailOnError,
                  StrtokEnds, trim, strtoupper, Match, Differ, Return, Go
    <3>2. Size' = Size
      BY <3>1 DEF Size
    <3> QED BY <2>1, <3>1, <3>2 DEF StepsLeft
  <2> QED BY <2>2, <2>3
<1> QED BY <1>1, CheckInvariant, PTL DEF Spec, Advances
=============================================================================
