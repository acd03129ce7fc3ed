---------------------------- MODULE MCCountryCheck ----------------------------
(* CountryCheck with all lists of up to five of five characters, and an        *)
(* address of each kind.                                                      *)
EXTENDS CountryCheck, FiniteSets, TLC

MCUpper == [c \in {"U", "u", "S", ",", " "} |-> IF c = "u" THEN "U" ELSE c]

MCCodes == {<<"U", "S">>, <<"U", "U">>}

\* The field was trimmed.
Trimmed(s) == s = <<>> \/ (s[1] # " " /\ s[Len(s)] # " ")
MCLists ==
    {Append(s, NUL) : s \in {t \in UNION {[1..n -> Chars] : n \in 0..5} : Trimmed(t)}}

A(af, net, plain, c) == [af |-> af, net |-> net, plain |-> plain, code |-> c]
MCAddresses ==
    {A("inet", "other", TRUE, <<"U", "S">>), A("inet6", "other", TRUE, <<"U", "U">>),
     A("inet", "127/8", TRUE, NoCode), A("inet", "127/8", FALSE, NoCode),
     A("inet6", "::1", TRUE, NoCode), A("inet6", "127/8", TRUE, NoCode),
     A("none", "other", FALSE, NoCode)}
=============================================================================
