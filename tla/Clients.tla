------------------------------- MODULE Clients -------------------------------
(***************************************************************************)
(* Who asks stonesh for a connection, from where, and in which mode.       *)
(***************************************************************************)
EXTENDS UsersFile, HostsFile, Directory

CONSTANTS
    Users,      \* login names
    Addresses,  \* client addresses
    NoAddress,  \* no client address is known
    CountryOf,  \* the country code of an address
    Loopback,   \* ... of this machine's own addresses
    NoCountry   \* ... of an address the databases do not know

ASSUME ClientsAssumption ==
    /\ Users \subseteq Names
    /\ NoAddress \notin Addresses
    /\ CountryOf \in [Addresses -> Countries \cup {Loopback, NoCountry}]
    /\ Loopback \notin Countries /\ NoCountry \notin Countries
    /\ Loopback # NoCountry

AUTH_BASTION == 1
AUTH_PROXY == 2
=============================================================================
