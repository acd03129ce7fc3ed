----------------------------- MODULE CountryCheck -----------------------------
(***************************************************************************)
(* is_from_valid_country of geoip.c: the country of an address against a   *)
(* list of codes that strtok, trim and strtoupper cut, shift and rewrite   *)
(* in place, inside the hosts.lst entry.  Strings are arrays of characters *)
(* with a NUL behind the last; a position of 0 is a NULL pointer.  The     *)
(* GeoIP library and the C library's address parsers are external.         *)
(***************************************************************************)
EXTENDS Integers, Sequences

CONSTANTS
    Upper,      \* toupper, on the characters of a list
    Blank,      \* white space
    NUL,
    NoCode,     \* NULL, for a country code
    Codes,      \* what the databases have
    Lists,      \* country lists, as gethostentry leaves them: without comments
    Addresses   \* client addresses

Comma == ","                \* delim
Chars == DOMAIN Upper

\* Its family, its network, whether it is written as inet_pton wants it (the
\* numbers-and-dots of inet_aton are more), and the code the database has.
Address == [af : {"inet", "inet6", "none"}, net : {"127/8", "::1", "other"},
            plain : BOOLEAN, code : Codes \cup {NoCode}]

ASSUME CountryAssumption ==
    /\ Upper \in [Chars -> Chars]
    /\ {Blank, Comma} \subseteq Chars /\ Blank # Comma /\ NUL \notin Chars
    /\ Codes \subseteq Seq(Chars \ {Blank, Comma}) \ {<<>>}
    /\ NoCode \notin Codes
    /\ \A c \in Chars :
         /\ Upper[c] = Blank <=> c = Blank
         /\ Upper[c] = Comma <=> c = Comma
    /\ \A l \in Lists :
         /\ l \in Seq(Chars \cup {NUL}) /\ l # <<>> /\ l[Len(l)] = NUL
         /\ \A i \in 1..(Len(l) - 1) : l[i] # NUL
    /\ Addresses \subseteq Address

VARIABLES
    given,      \* the list before the call
    list,       \* the list, as it is now
    address,
    pc,
    code,       \* country_code
    country,    \* the token at hand
    save,       \* where strtok goes on
    result

\* The size of the array.
Size == Len(given)

vars == <<given, list, address, pc, code, country, save, result>>

Init ==
    /\ given \in Lists /\ list = given
    /\ address \in Addresses
    /\ pc = "list" /\ code = NoCode /\ country = 0 /\ save = 1 /\ result = 0

Go(from, to) == pc = from /\ pc' = to /\ UNCHANGED <<given, address>>

Return(from, value) ==
    /\ Go(from, "done")
    /\ result' = value
    /\ UNCHANGED <<list, code, country, save>>

\* Ignore empty lists.
IgnoreEmpty == Return("list", 1) /\ list[1] = NUL

NotEmpty ==
    /\ Go("list", "address") /\ list[1] # NUL
    /\ UNCHANGED <<list, code, country, save, result>>

is_local(a) == a.plain /\ a.net = "127/8"
is_local6(a) == a.plain /\ a.net = "::1"

\* Loopback is permitted.
Loopback(a) ==
    \/ a.af = "inet" /\ is_local(a)
    \/ a.af = "inet6" /\ is_local6(a)

PermitLocal == Return("address", 1) /\ Loopback(address)

\* From the database of its family, when it can be opened.
GetCode ==
    /\ Go("address", "token") /\ ~Loopback(address)
    /\ address.af # "none" /\ address.code # NoCode
    /\ code' = address.code
    /\ UNCHANGED <<list, country, save, result>>

\* Not an address, no database, or not in it: GEOIP_FAIL_ON_ERROR.
FailOnError == Return("address", 0) /\ ~Loopback(address)

-----------------------------------------------------------------------------
(* The loop over the list.                                                 *)

\* end is where the token that begins at start ends.
IsToken(start, end) ==
    /\ start >= save /\ \A i \in save..(start - 1) : list[i] = Comma
    /\ list[start] \notin {Comma, NUL}
    /\ end > start /\ \A i \in start..(end - 1) : list[i] \notin {Comma, NUL}
    /\ list[end] \in {Comma, NUL}

\* Fault variants of Rest: at the beginning, as in a first call; at the NUL
\* written over the delimiter.
RestAtStart(end) == 1
RestAtEnd(end) == end

\* Where the next search begins.
Rest(end) == IF list[end] = NUL THEN end ELSE end + 1

\* The next token, cut from the rest.
Strtok ==
    /\ Go("token", "trim")
    /\ \E start, end \in 1..Size :
         /\ IsToken(start, end)
         /\ country' = start
         /\ list' = [list EXCEPT ![end] = NUL]
         /\ save' = Rest(end)
    /\ UNCHANGED <<code, result>>

\* No match: only delimiters are left.
StrtokEnds ==
    /\ Return("token", 0)
    /\ \E end \in save..Size :
         list[end] = NUL /\ \A i \in save..(end - 1) : list[i] = Comma

\* The string at p is as long as n.
StrLen(p, n) ==
    list[p + n] = NUL /\ \A i \in p..(p + n - 1) : list[i] # NUL

\* Fault variant of Solid: blanks in front stay.
SolidLeft(p, end, first, last) ==
    /\ first = p /\ first <= last + 1 /\ last < end
    /\ first <= last => list[last] # Blank
    /\ \A i \in (last + 1)..(end - 1) : list[i] = Blank

\* What is between first and last is the string at p without the blanks around
\* it; when there is nothing else, first is last + 1.
Solid(p, end, first, last) ==
    /\ p <= first /\ first <= last + 1 /\ last < end
    /\ first <= last => list[first] # Blank /\ list[last] # Blank
    /\ first > last => first = p
    /\ \A i \in p..(first - 1) \cup (last + 1)..(end - 1) : list[i] = Blank

\* Trailing blanks are overwritten, then the rest is moved to the front.
trim ==
    /\ Go("trim", "upper")
    /\ \E end \in country..Size : \E first, last \in 0..end :
         /\ StrLen(country, end - country) /\ Solid(country, end, first, last)
         /\ list' = [i \in 1..Size |->
                       IF i \in country..(country + (last - first))
                         THEN list[first + (i - country)]
                       ELSE IF i = country + (last + 1 - first) \/ i \in (last + 1)..end
                         THEN NUL
                       ELSE list[i]]
    /\ UNCHANGED <<code, country, save, result>>

strtoupper ==
    /\ Go("upper", "compare")
    /\ \E n \in 0..Size :
         /\ country + n <= Size /\ StrLen(country, n)
         /\ list' = [i \in 1..Size |->
                       IF i \in country..(country + n - 1) THEN Upper[list[i]]
                                                           ELSE list[i]]
    /\ UNCHANGED <<code, country, save, result>>

\* As long as the code, and the same characters.
Same ==
    /\ country + Len(code) <= Size /\ StrLen(country, Len(code))
    /\ \A i \in 1..Len(code) : list[country + (i - 1)] = code[i]

Match == Return("compare", 1) /\ Same

Differ ==
    /\ Go("compare", "token") /\ ~Same
    /\ UNCHANGED <<list, code, country, save, result>>

Ended == pc = "done" /\ UNCHANGED vars

Next ==
    \/ IgnoreEmpty \/ NotEmpty \/ PermitLocal \/ GetCode \/ FailOnError
    \/ Strtok \/ StrtokEnds \/ trim \/ strtoupper \/ Match \/ Differ
    \/ Ended

Spec == Init /\ [][Next]_vars

\* The process is scheduled, and the calls it makes return.
FairSpec == Spec /\ WF_vars(Next)

-----------------------------------------------------------------------------

\* At k the list, as it was given, has the code c, in either case, alone
\* between two commas or ends of the list but for blanks.
ListedAt(c, k) ==
    /\ 1 <= k /\ k + Len(c) <= Size
    /\ \A i \in 1..Len(c) : Upper[given[k + (i - 1)]] = c[i]
    /\ \E i \in 1..k :
         /\ i = 1 \/ given[i - 1] = Comma
         /\ \A x \in i..(k - 1) : given[x] = Blank
    /\ \E j \in (k + Len(c))..Size :
         /\ given[j] \in {Comma, NUL}
         /\ \A x \in (k + Len(c))..(j - 1) : given[x] = Blank

Listed(c) == \E k \in 1..Size : ListedAt(c, k)

\* Where the token at hand ended in the list given.
TokenEnd ==
    IF given[save] = NUL /\ given[save - 1] # Comma THEN save ELSE save - 1

TypeOK ==
    /\ given \in Lists /\ address \in Addresses
    /\ list \in [1..Size -> Chars \cup {NUL}]
    /\ pc \in {"list", "address", "token", "trim", "upper", "compare", "done"}
    /\ code \in Codes \cup {NoCode}
    /\ country \in 0..Size /\ save \in 1..Size
    /\ result \in {0, 1}

\* Ahead of strtok the list is still the one given, and no code was missed.
Ahead ==
    /\ \A i \in save..Size : list[i] = given[i]
    /\ pc \in {"list", "address"} => save = 1 /\ list = given /\ code = NoCode
    /\ pc \notin {"list", "done"} => given[1] # NUL
    /\ pc \in {"token", "trim", "upper", "compare"} =>
         /\ code = address.code /\ code \in Codes
         /\ address.af # "none" /\ ~Loopback(address)
    /\ pc = "token" =>
         /\ save = 1 \/ given[save] = NUL \/ given[save - 1] = Comma
         /\ \A k \in 1..Size : ListedAt(code, k) => k >= save

\* The token at hand is a whole field of the list.
AtHand ==
    pc \in {"trim", "upper", "compare"} =>
      /\ 1 <= country /\ country < TokenEnd
      /\ country = 1 \/ given[country - 1] = Comma
      /\ given[TokenEnd] \in {Comma, NUL}
      /\ \A i \in country..(TokenEnd - 1) : given[i] \notin {Comma, NUL}
      /\ \A k \in 1..Size : ListedAt(code, k) => k >= country

\* From first to last: the field but for the blanks around it.
Core(first, last) ==
    /\ country <= first /\ first <= last + 1 /\ last < TokenEnd
    /\ first <= last => given[first] # Blank /\ given[last] # Blank
    /\ \A i \in country..(first - 1) \cup (last + 1)..(TokenEnd - 1) :
         given[i] = Blank

\* ... first as it was, then trimmed, then in upper case too.
Worked ==
    /\ pc = "trim" =>
         /\ list[TokenEnd] = NUL
         /\ \A i \in country..(TokenEnd - 1) : list[i] = given[i]
    /\ pc \in {"upper", "compare"} =>
         \E first, last \in 0..Size :
           /\ Core(first, last)
           /\ list[country + (last + 1 - first)] = NUL
           /\ \A i \in 0..(last - first) :
                list[country + i] = IF pc = "upper" THEN given[first + i]
                                    ELSE Upper[given[first + i]]

IInv == TypeOK /\ Ahead /\ AtHand /\ Worked

\* Cutting the list in place, the call says yes exactly to an entry without a
\* list, to this machine, and to an address whose country is known and is, in
\* either case and with blanks around it, a field of the list as it was; only a
\* database that cannot be opened makes a no of that.
ListDecides ==
    pc = "done" =>
      /\ result = 1 <=>
           \/ given[1] = NUL
           \/ Loopback(address)
           \/ code # NoCode /\ Listed(code)
      /\ code # NoCode => code = address.code /\ address.af # "none"

\* At most how many steps are left: four for each character ahead of strtok.
StepsLeft ==
    4 * (Size - save) +
      CASE pc = "list"    -> 3
        [] pc = "address" -> 2
        [] pc = "token"   -> 1
        [] pc = "trim"    -> 4
        [] pc = "upper"   -> 3
        [] pc = "compare" -> 2
        [] pc = "done"    -> 0

\* Every step brings the end nearer, although the list shrinks under the loop:
\* strtok never goes back, not even to the NULs it and trim have written.
Advances == [][0 <= StepsLeft' /\ StepsLeft' < StepsLeft]_vars

\* Every call ends: though each turn leaves a NUL where strtok was, the next one
\* goes on behind it.
Terminates == <>(pc = "done")
=============================================================================
