------------------------------ MODULE HostName ------------------------------
(***************************************************************************)
(* Host names as text, for the one place where the code takes them apart:  *)
(* with allowFQDN off, strtok finds the first label in the buffer and ends *)
(* it with a NUL, and strncpy copies its characters, without that NUL, to  *)
(* the front of the same buffer.                                           *)
(***************************************************************************)
EXTENDS Integers, Sequences

CONSTANTS
    Chars,      \* the characters of a name
    Dot         \* the one between labels

ASSUME HostNameAssumption == Dot \in Chars

\* strncmp(a, b, strlen(a)) == 0
Starts(a, b) == Len(a) <= Len(b) /\ \A i \in 1..Len(a) : a[i] = b[i]

\* strtok(name, ".") skips k dots, and goes on to the next dot or to the end.
IsToken(name, k, end) ==
    /\ k < end
    /\ \A i \in 1..k : name[i] = Dot
    /\ \A i \in (k + 1)..end : name[i] # Dot
    /\ end = Len(name) \/ name[end + 1] = Dot

\* There is nothing to find in a name of dots only.
Tokens(name) ==
    {t \in (0..Len(name)) \X (1..Len(name)) : IsToken(name, t[1], t[2])}

Token(name) == CHOOSE t \in Tokens(name) : TRUE

\* The buffer up to the NUL at its end, after what follows the first k
\* characters was copied over them: the last k are still there.  The two may
\* overlap: each character is read before it is written over, as in a copy from
\* the front to the back.
CopiedToFront(name, k, end) ==
    [i \in 1..end |-> IF i <= end - k THEN name[k + i] ELSE name[i]]

\* Fault variant of Cut: the token is not ended.
CutUnended(name) == CopiedToFront(name, Token(name)[1], Len(name))

\* What is left of a name.
Cut(name) == CopiedToFront(name, Token(name)[1], Token(name)[2])

-----------------------------------------------------------------------------

\* The hostname of a name: its first characters that are not dots, up to the
\* next dot or the end.
IsHostname(label, name) ==
    /\ label # <<>> /\ \A i \in 1..Len(label) : label[i] # Dot
    /\ \E k \in 0..(Len(name) - Len(label)) :
         /\ \A i \in 1..k : name[i] = Dot
         /\ \A i \in 1..Len(label) : name[k + i] = label[i]
         /\ k + Len(label) = Len(name) \/ name[k + Len(label) + 1] = Dot
=============================================================================
