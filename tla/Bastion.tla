------------------------------- MODULE Bastion -------------------------------
(***************************************************************************)
(* What one run of stonesh promises, without how it goes about it: a       *)
(* connection is opened only to the host and port of a hosts.lst entry,    *)
(* after the policy this run goes by cleared the user for that very host,  *)
(* and after that the client's country for that very entry.  The rules may *)
(* be edited at any time: each clearance is given by the rules in force at *)
(* the moment it is given.                                                 *)
(***************************************************************************)
EXTENDS Clients

CONSTANTS
    None,       \* nothing yet
    Refused     \* the run ended without a connection

\* The mode needs a permission of its own.
Proxied(p, mode) == mode = AUTH_PROXY /\ p.disable_proxy_authorization = 0

\* Whether the policy lets the user have the host in that mode: always, or by
\* users.lst, or by the directory.
PolicyClears(p, user, host, mode, file, dir) ==
    /\ mode = AUTH_PROXY => p.enable_proxy = 1
    /\ \/ p.auth_type = 0
       \/ p.auth_type = 1 /\ FileGrants(user, host, Proxied(p, mode), file)
       \/ /\ p.auth_type = 2
          /\ DirectoryGrants(user, host,
               IF Proxied(p, mode) THEN p.authorized_service_tag ELSE NoTag, dir)

\* An entry without a country list is open to every country.
CountryClears(address, countries) ==
    \/ countries = {}
    \/ CountryOf[address] = Loopback
    \/ CountryOf[address] \in countries

VARIABLES
    users,      \* contents of users.lst
    hosts,      \* contents of hosts.lst
    directory,  \* entries of the LDAP directory
    user,       \* who is asking
    client,     \* from where
    policy,     \* the options this run goes by; None until it has them
    mode,       \* the mode the user was cleared for; 0 until then
    target,     \* the hosts.lst entry found; None until then
    cleared,    \* the clearances in hand
    link        \* None, Refused, or [host, port] connected to

rules == <<users, hosts, directory>>
bvars == <<rules, user, client, policy, mode, target, cleared, link>>

BInit ==
    /\ user \in Users /\ client \in Addresses \cup {NoAddress}
    /\ policy = None /\ mode = 0 /\ target = None /\ cleared = {} /\ link = None

BEdit == UNCHANGED <<user, client, policy, mode, target, cleared, link>>

BAdopt ==
    /\ policy = None /\ link = None
    /\ policy' # None
    /\ UNCHANGED <<rules, user, client, mode, target, cleared, link>>

\* The entry some name has in hosts.lst as it is now.
BFind ==
    /\ policy # None /\ target = None /\ link = None
    /\ \E n \in 1..Len(hosts) :
         /\ IsEntry(hosts[n].host, hosts, n)
         /\ target' = EntryOf(hosts[n])
    /\ UNCHANGED <<rules, user, client, policy, mode, cleared, link>>

\* Only for the entry found, and by users.lst or the directory as it is now.
BAuthorize ==
    /\ target # None /\ cleared = {} /\ link = None
    /\ mode' \in {AUTH_BASTION, AUTH_PROXY}
    /\ PolicyClears(policy, user, target.host, mode', users, directory)
    /\ cleared' = {"user"}
    /\ UNCHANGED <<rules, user, client, policy, target, link>>

\* Asked of a client whose address is known.
BCountry ==
    /\ cleared = {"user"} /\ link = None
    /\ client # NoAddress => CountryClears(client, target.countries)
    /\ cleared' = {"user", "country"}
    /\ UNCHANGED <<rules, user, client, policy, mode, target, link>>

BConnect ==
    /\ cleared = {"user", "country"} /\ link = None
    /\ link' = [host |-> target.host, port |-> target.port]
    /\ UNCHANGED <<rules, user, client, policy, mode, target, cleared>>

\* At any point before; what was cleared is worth nothing any more.
BRefuse ==
    /\ link = None
    /\ link' = Refused /\ cleared' = {} /\ mode' = 0
    /\ UNCHANGED <<rules, user, client, policy, target>>

BNext == BEdit \/ BAdopt \/ BFind \/ BAuthorize \/ BCountry \/ BConnect \/ BRefuse

BSpec == BInit /\ [][BNext]_bvars
=============================================================================
