---------------------------- MODULE LdapClearance ----------------------------
(***************************************************************************)
(* What get_auth_ldap promises of its answer, whatever becomes of the      *)
(* server and the connection: a yes is the directory's, for this user,     *)
(* host and tag, at some moment of the call.  A no is never explained.     *)
(***************************************************************************)
EXTENDS Directory

CONSTANTS Pending, Granted, Denied, Faulted

VARIABLES
    directory,  \* the entries, as they are now
    use_ldap,   \* 0: everybody is let through
    request,    \* [user, host, tag]
    found,      \* an entry for the request was in the directory
    verdict     \* one of the constants above

lvars == <<directory, use_ldap, request, found, verdict>>

LInit == found = FALSE /\ verdict = Pending

LModify == UNCHANGED <<use_ldap, request, found, verdict>>

LFind ==
    /\ verdict = Pending
    /\ DirectoryGrants(request.user, request.host, request.tag, directory)
    /\ found' = TRUE
    /\ UNCHANGED <<directory, use_ldap, request, verdict>>

\* The answer does not get through.
LLose ==
    /\ verdict = Pending
    /\ found' = FALSE
    /\ UNCHANGED <<directory, use_ldap, request, verdict>>

LAnswer ==
    /\ verdict = Pending
    /\ \/ verdict' = Granted /\ (found \/ use_ldap = 0) /\ UNCHANGED found
       \/ verdict' \in {Denied, Faulted} /\ (found' => found)
    /\ UNCHANGED <<directory, use_ldap, request>>

LSpec == LInit /\ [][LModify \/ LFind \/ LLose \/ LAnswer]_lvars
=============================================================================
