-------------------------------- MODULE Names --------------------------------
(***************************************************************************)
(* User and host names.  A name is an abstract value: all that the code    *)
(* asks of two names is whether one is an initial segment of the other,    *)
(* with strncasecmp(a, b, strlen(a)) or with strncmp(a, b, strlen(a)).     *)
(***************************************************************************)

CONSTANTS
    Names,      \* user and host names, none of them empty
    NoName,     \* a NULL pointer, or an empty field
    Begins      \* <<a, b>>: a is an initial segment of b, ignoring case

ASSUME NamesAssumption ==
    /\ NoName \notin Names
    /\ Begins \subseteq Names \X Names
    /\ \A a \in Names : <<a, a>> \in Begins
    /\ \A a, b, c \in Names :
         <<a, b>> \in Begins /\ <<b, c>> \in Begins => <<a, c>> \in Begins
=============================================================================
