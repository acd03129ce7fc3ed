------------------------------ MODULE HostsFile ------------------------------
(***************************************************************************)
(* hosts.lst as hosts.c reads it: a sequence of lines, each what one fgets *)
(* returns, with a host, a port and a list of country codes.  The host     *)
(* field is compared whole, and the first line that has it is the entry.   *)
(***************************************************************************)
EXTENDS Names, Naturals, Sequences

CONSTANTS
    Ports,      \* port fields that are port numbers
    BlankPort,  \* a port field of white space only
    NoPort,     \* no port field, or an empty one
    Countries   \* country codes, in upper case, and one no address has

ASSUME PortsAssumption ==
    /\ "22" \in Ports
    /\ BlankPort \notin Ports /\ NoPort \notin Ports /\ "" \notin Ports
    /\ BlankPort # NoPort

\* No country field, or a blank one, is {}; one that has text but lists no
\* code (",") is a set with the code no address has.
HostLine ==
    [host : Names \cup {NoName}, port : Ports \cup {BlankPort, NoPort},
     countries : SUBSET Countries]

HostEntry == [host : Names, port : Ports \cup {""}, countries : SUBSET Countries]

\* Fault variant of PortOf: the field is trimmed before the test.
PortTrimmedFirst(port) == IF port \in {NoPort, BlankPort} THEN "22" ELSE port

\* The default is taken for a field that is missing or empty; white space is
\* trimmed only after that test.
PortOf(port) ==
    IF port = NoPort THEN "22" ELSE IF port = BlankPort THEN "" ELSE port

\* What gethostentry copies out of a line.
EntryOf(line) ==
    [host |-> line.host, port |-> PortOf(line.port), countries |-> line.countries]

\* Line n is the entry of the name: the first line with that host field.
IsEntry(name, file, n) ==
    /\ n \in 1..Len(file)
    /\ file[n].host = name
    /\ \A m \in 1..(n - 1) : file[m].host # name

\* What a call can return besides NULL.
EntriesFor(name, file) ==
    {EntryOf(file[n]) : n \in {m \in 1..Len(file) : IsEntry(name, file, m)}}

HasEntry(name, file) == \E n \in 1..Len(file) : file[n].host = name
=============================================================================
