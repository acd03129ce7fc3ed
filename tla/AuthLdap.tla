------------------------------ MODULE AuthLdap ------------------------------
(***************************************************************************)
(* get_auth_ldap of auth_ldap.c: one question put to an LDAP server over a *)
(* connection that may be refused, break or stay silent at any moment,     *)
(* while the directory is being modified.  libldap and the server are      *)
(* external, modelled from the calls made to them: ldap_result returns the *)
(* first message of an operation, or fails; then it may or may not reset   *)
(* the pointer to the message.                                             *)
(***************************************************************************)
EXTENDS Integers, Directory

CONSTANTS
    NULL,
    Uninit,         \* what an unassigned local variable holds
    EmptyTag,       \* a tag of no characters
    Requests,       \* calls: the user, the host, the tag
    Directories     \* contents of the directory

Request == [user : Names \cup {NoName}, host : Names \cup {NoName},
            tag : Tags \cup {NoTag, EmptyTag}]

Message == [kind : {"bind", "entry", "reference", "done"}]

ASSUME LdapAssumption ==
    /\ NULL # Uninit /\ EmptyTag \notin Tags /\ EmptyTag # NoTag
    /\ \A v \in {NULL, Uninit} :
         /\ v \notin Request \cup Message
         /\ v \notin {"uri", "base", "handle", "bind", "search"}
    /\ Requests \subseteq Request
    /\ Directories \subseteq SUBSET DirEntry

VARIABLES
    directory,          \* the server's entries, as they are now
    use_ldap, req,      \* the option, and the arguments
    ldap_base,          \* whether options.ldap_base is set
    defbase,            \* whether libldap has a default base
    pc, auth,
    uri, base, filter,  \* pointers: NULL, Uninit, or what they point to
    ld,
    conn,               \* "none", "up" or "lost"
    served,             \* the operation the server is at: NULL, "bind", "search"
    reply               \* the first message of the operation; NULL before

args == <<use_ldap, req, ldap_base>>
strings == <<uri, base, filter, defbase>>
network == <<conn, served, reply>>
vars == <<directory, args, pc, auth, strings, ld, network>>

Ends == {"done", "crashed"}

Init ==
    /\ directory \in Directories
    /\ use_ldap \in {0, 1} /\ req \in Requests /\ ldap_base \in BOOLEAN
    /\ defbase \in BOOLEAN
    /\ pc = "start" /\ auth = 0
    /\ uri = NULL /\ base = NULL /\ filter = Uninit /\ ld = Uninit
    /\ conn = "none" /\ served = NULL /\ reply = NULL

Go(from, to) == pc = from /\ pc' = to /\ UNCHANGED <<directory, args>>

\* goto clean_return, with auth = LDAP_AUTH_FAILURE.
Fail(from) == Go(from, "clean") /\ auth' = 0

\* Success if we're not using LDAP.
NotUsed ==
    /\ Go("start", "done") /\ use_ldap = 0
    /\ auth' = 1
    /\ UNCHANGED <<strings, ld, network>>

\* options.ldap_uri or libldap's default, if it has one to give.
get_ldap_uri ==
    /\ use_ldap # 0
    /\ \/ Go("start", "base") /\ uri' = "uri" /\ UNCHANGED auth
       \/ Fail("start") /\ uri' = NULL
    /\ UNCHANGED <<base, filter, defbase, ld, network>>

\* Taking libldap's default uses it up (ldap_free).
get_ldap_base ==
    /\ \/ /\ Go("base", "filter") /\ UNCHANGED auth
          /\ base' = "base"
          /\ ldap_base \/ defbase
          /\ defbase' = (defbase /\ ldap_base)
       \/ /\ Fail("base")
          /\ base' = NULL
          /\ defbase' \in {defbase, defbase /\ ldap_base}
    /\ UNCHANGED <<uri, filter, ld, network>>

\* Fault variant of FilterFor: the service part is forgotten.
FilterNoTag(r) == [user |-> r.user, host |-> r.host, tag |-> NoTag]

get_host_filter(r) == [user |-> r.user, host |-> r.host, tag |-> NoTag]
get_service_filter(r) == [user |-> r.user, host |-> r.host, tag |-> r.tag]

\* What is searched for.
FilterFor(r) ==
    IF r.tag = NoTag THEN get_host_filter(r) ELSE get_service_filter(r)

Complete(r) == r.user # NoName /\ r.host # NoName /\ r.tag # EmptyTag

\* NULL for an empty argument, or without memory.
GetFilter ==
    /\ \/ Go("filter", "connect") /\ Complete(req) /\ UNCHANGED auth
          /\ filter' = FilterFor(req)
       \/ Fail("filter") /\ filter' = NULL
    /\ UNCHANGED <<uri, base, defbase, ld, network>>

\* ldap_initialize, and the bind that opens the connection, or does not.
Connect ==
    /\ Go("connect", "bind")
    /\ ld' = "handle"
    /\ \/ conn' = "up" /\ served' = "bind"
       \/ conn' = "lost" /\ UNCHANGED served
    /\ UNCHANGED <<auth, strings, reply>>

InitializeFails ==
    /\ Fail("connect")
    /\ ld' = NULL
    /\ UNCHANGED <<strings, network>>

\* Any answer to the bind will do; it is freed, and the search is sent.
Bound ==
    /\ Go("bind", "search")
    /\ reply # NULL /\ reply' = NULL
    /\ served' = IF conn = "up" THEN "search" ELSE NULL
    /\ UNCHANGED <<auth, strings, ld, conn>>

\* Fault variant of BindFails: tries again for as long as it takes.
BindRetry ==
    /\ Go("bind", "connect")
    /\ conn = "lost"
    /\ reply' = NULL
    /\ UNCHANGED <<auth, strings, ld, conn, served>>

BindFails ==
    /\ Fail("bind")
    /\ conn = "lost"
    /\ reply' = NULL
    /\ UNCHANGED <<strings, ld, conn, served>>

\* Fault variant of CountEntries: any message is a yes.
CountMessages(m) == 1

\* ldap_count_entries == 1, of the one message received.
CountEntries(m) == IF m.kind = "entry" THEN 1 ELSE 0

Counted ==
    /\ Go("search", "clean")
    /\ reply # NULL /\ auth' = CountEntries(reply)
    /\ reply' = NULL /\ served' = NULL
    /\ UNCHANGED <<strings, ld, conn>>

\* ldap_result fails, and nobody looks: no entries are counted, or what is
\* counted and freed is the answer to the bind, which is freed already.
SearchFails ==
    /\ \/ Fail("search")
       \/ Go("search", "crashed") /\ UNCHANGED auth
    /\ conn = "lost"
    /\ reply' = NULL
    /\ UNCHANGED <<strings, ld, conn, served>>

\* clean_return unbinds and frees.  ld and filter have no value yet on the
\* first ways here: then they are taken for pointers, or happen to be NULL.
CleanReturn ==
    /\ \/ Go("clean", "done")
       \/ Go("clean", "crashed") /\ (ld = Uninit \/ filter = Uninit)
    /\ uri' = NULL /\ base' = NULL /\ filter' = NULL
    /\ conn' = "none" /\ served' = NULL /\ reply' = NULL
    /\ UNCHANGED <<auth, defbase, ld>>

Client ==
    \/ NotUsed \/ get_ldap_uri \/ get_ldap_base \/ GetFilter
    \/ Connect \/ InitializeFails \/ Bound \/ BindFails \/ Counted \/ SearchFails
    \/ CleanReturn

-----------------------------------------------------------------------------
(* The server and the network.  Messages after the first of a search are   *)
(* never read, and are left out.                                           *)

Answers(op, m) ==
    /\ conn = "up" /\ served = op
    /\ reply = NULL /\ reply' = m
    /\ UNCHANGED <<directory, args, pc, auth, strings, ld, conn>>

\* Success or refusal.
AnswerBind == Answers("bind", [kind |-> "bind"]) /\ served' = NULL

SendEntry ==
    /\ served = "search"
    /\ \E entry \in directory :
         /\ Satisfies(entry, filter.user, filter.host, filter.tag)
         /\ Answers("search", [kind |-> "entry"])
    /\ UNCHANGED served

\* A referral to another server.
SendReference == Answers("search", [kind |-> "reference"]) /\ UNCHANGED served

\* The end of the search, with what was found before it, or with an error.
SendDone == Answers("search", [kind |-> "done"]) /\ served' = NULL

Lose ==
    /\ conn = "up" /\ conn' = "lost" /\ served' = NULL
    /\ UNCHANGED <<directory, args, pc, auth, strings, ld, reply>>

Modify ==
    /\ directory' \in Directories
    /\ UNCHANGED <<args, pc, auth, strings, ld, network>>

Server == AnswerBind \/ SendEntry \/ SendReference \/ SendDone \/ Lose \/ Modify

Ended == pc \in Ends /\ UNCHANGED vars

Next == Client \/ Server \/ Ended

Spec == Init /\ [][Next]_vars

\* The process is scheduled; the server need never answer.
FairSpec == Spec /\ WF_vars(Client)

-----------------------------------------------------------------------------

TypeOK ==
    /\ directory \in Directories /\ use_ldap \in {0, 1} /\ req \in Requests
    /\ ldap_base \in BOOLEAN /\ defbase \in BOOLEAN
    /\ pc \in {"start", "base", "filter", "connect", "bind", "search", "clean"}
                \cup Ends
    /\ auth \in {0, 1}
    /\ uri \in {NULL, "uri"} /\ base \in {NULL, "base"}
    /\ filter \in Requests \cup {NULL, Uninit}
    /\ ld \in {"handle", NULL, Uninit}
    /\ conn \in {"none", "up", "lost"} /\ served \in {NULL, "bind", "search"}
    /\ reply \in Message \cup {NULL}

\* What is on the wire belongs to the operation the client is waiting for: an
\* answer to the bind is never there to be counted as one to the search, and
\* the search is for the request and nothing less.
InStep ==
    /\ served # NULL => pc = served /\ conn = "up"
    /\ reply # NULL =>
         IF reply.kind = "bind" THEN pc = "bind" ELSE pc = "search"
    /\ pc \in {"bind", "search"} => ld = "handle"
    /\ pc \in {"connect", "bind", "search"} => filter = req /\ Complete(req)
    /\ pc \notin {"clean", "done"} => auth = 0
    /\ pc \notin {"start", "done"} => use_ldap = 1

\* A fault comes before the server was asked or after it was lost, and is never
\* a yes.
FaultsSayNo ==
    /\ pc = "crashed" => auth = 0 /\ conn # "up"
    /\ ld = Uninit \/ filter = Uninit => ld = Uninit /\ conn = "none"
    /\ pc = "clean" /\ auth = 1 => ld = "handle"

IInv == TypeOK /\ InStep /\ FaultsSayNo

C == INSTANCE LdapClearance WITH
       Pending <- "pending", Granted <- "granted",
       Denied  <- "denied",  Faulted <- "faulted",
       request <- req,
       found   <- IF reply = NULL THEN auth = 1 /\ use_ldap = 1
                                  ELSE reply.kind = "entry",
       verdict <- CASE pc = "crashed"          -> "faulted"
                    [] pc = "done" /\ auth = 1 -> "granted"
                    [] pc = "done" /\ auth # 1 -> "denied"
                    [] OTHER                   -> "pending"

\* Whatever is lost, refused, delayed or modified meanwhile, the user is let
\* through only if the directory had an entry for them, this host and, in proxy
\* mode, this tag, while the question was open: no other message is ever
\* counted as that entry, and no half-built filter is ever sent.
YesIsTheDirectorys == C!LSpec

\* The server was asked and has not answered; ldap_result has no timeout.
AwaitsServer ==
    pc \in {"bind", "search"} /\ conn = "up" /\ reply = NULL

\* A call that is not over is, from some moment on, one the server keeps
\* waiting: nothing else holds it, and whatever the server does ends it.
OnlyTheServerHolds == <>[](pc \in Ends \/ AwaitsServer)
=============================================================================
