------------------------------ MODULE Directory ------------------------------
(***************************************************************************)
(* The LDAP directory, as the two filters of auth_ldap.h see it: entries   *)
(* with a uid, host values and authorizedService values.  A service value  *)
(* 'tag-host' is the pair <<tag, host>>.                                   *)
(***************************************************************************)
EXTENDS Names

CONSTANTS
    Star,       \* the value '*': any host
    Tags,       \* service tags, none of them empty
    NoTag       \* NULL: the request is not for proxy mode

ASSUME DirectoryAssumption == Star \notin Names /\ NoTag \notin Tags

DirEntry == [uid : Names, hosts : SUBSET (Names \cup {Star}),
             services : SUBSET (Tags \X (Names \cup {Star}))]

\* (&(|(host=\*)(host=H))(uid=U)), with (|(authorizedService=T-\*)
\* (authorizedService=T-H)) added when there is a tag T.
Satisfies(entry, user, host, tag) ==
    /\ entry.uid = user
    /\ \E h \in {Star, host} : h \in entry.hosts
    /\ tag # NoTag => \E h \in {Star, host} : <<tag, h>> \in entry.services

\* The directory has an entry that lets the user have the host.
DirectoryGrants(user, host, tag, dir) ==
    \E entry \in dir : Satisfies(entry, user, host, tag)

\* The values a question can come to: the server may be out of reach.
DirectoryAnswers(user, host, tag, dir) ==
    {0} \cup {a \in {1} : DirectoryGrants(user, host, tag, dir)}
=============================================================================
