--------------------------- MODULE AuthLdap_proofs ---------------------------
(***************************************************************************)
(* For every directory, request, server and network: the exchange stays in *)
(* step with the server, and a yes is the directory's.                     *)
(***************************************************************************)
EXTENDS AuthLdap, TLAPS

LEMMA InitHolds == Init => IInv
  BY LdapAssumption DEF Init, IInv, TypeOK, InStep, FaultsSayNo, Ends, Message

\* The filter is the request: none of the two builders drops an argument.
LEMMA FilterIsRequest == \A r \in Request : FilterFor(r) = r
  BY DEF FilterFor, get_host_filter, get_service_filter, Request

\* What the client does keeps the exchange in step.
LEMMA ClientKeeps == IInv /\ Client => IInv'
<1> SUFFICES ASSUME IInv, Client PROVE IInv'
    OBVIOUS
<1> USE LdapAssumption DEF IInv, TypeOK, InStep, FaultsSayNo, Go, Fail, args,
        strings, network, Ends, Message, Message
<1>1. CASE NotUsed BY <1>1 DEF NotUsed
<1>2. CASE get_ldap_uri BY <1>2 DEF get_ldap_uri
<1>3. CASE get_ldap_base BY <1>3 DEF get_ldap_base
<1>4. CASE GetFilter
  <2>1. CASE Fail("filter") /\ filter' = NULL BY <1>4, <2>1 DEF GetFilter
  <2>2. CASE pc' = "connect" /\ filter' = FilterFor(req) /\ Complete(req)
    <3>1. filter' = req BY <2>2, FilterIsRequest
    <3> QED BY <1>4, <2>2, <3>1 DEF GetFilter, Complete
  <2> QED BY <1>4, <2>1, <2>2 DEF GetFilter
<1>5. CASE Connect BY <1>5 DEF Connect, Complete
<1>6. CASE InitializeFails BY <1>6 DEF InitializeFails
<1>7. CASE Bound BY <1>7 DEF Bound, Complete
<1>8. CASE BindFails BY <1>8 DEF BindFails
<1>9. CASE Counted BY <1>9 DEF Counted, CountEntries
<1>10. CASE SearchFails BY <1>10 DEF SearchFails
<1>11. CASE CleanReturn BY <1>11 DEF CleanReturn
<1> QED BY <1>1, <1>2, <1>3, <1>4, <1>5, <1>6, <1>7, <1>8, <1>9, <1>10, <1>11
        DEF Client

\* What the server and the network do keeps the exchange in step.
LEMMA ServerKeeps == IInv /\ Server => IInv'
<1> SUFFICES ASSUME IInv, Server PROVE IInv'
    OBVIOUS
<1> USE LdapAssumption DEF IInv, TypeOK, InStep, FaultsSayNo, Answers, args,
        strings, network, Ends, Message, Complete
<1>1. CASE AnswerBind BY <1>1 DEF AnswerBind
<1>2. CASE SendEntry BY <1>2 DEF SendEntry
<1>3. CASE SendReference BY <1>3 DEF SendReference
<1>4. CASE SendDone BY <1>4 DEF SendDone
<1>5. CASE Lose BY <1>5 DEF Lose
<1>6. CASE Modify BY <1>6 DEF Modify
<1> QED BY <1>1, <1>2, <1>3, <1>4, <1>5, <1>6 DEF Server

LEMMA StutterKeeps == IInv /\ UNCHANGED vars => IInv'
  BY DEF IInv, TypeOK, InStep, FaultsSayNo, vars, args, strings, network,
         Ends, Complete

\* What the client waits for, what the server is at and what is on the wire
\* always belong to one operation; a call that faults does not say yes.
THEOREM ExchangeInvariant == Spec => []IInv
<1>1. IInv /\ [Next]_vars => IInv'
  BY ClientKeeps, ServerKeeps, StutterKeeps DEF Next, Ended
<1> QED BY InitHolds, <1>1, PTL DEF Spec

-----------------------------------------------------------------------------

\* An answer is there only when the client has not gone on: every step of the
\* client is an answer, a lost entry, or nothing to LdapClearance.
LEMMA ClientImplements ==
    IInv /\ IInv' /\ Client =>
      C!LAnswer \/ C!LLose \/ UNCHANGED C!lvars
<1> SUFFICES ASSUME IInv, IInv', Client
             PROVE C!LAnswer \/ C!LLose \/ UNCHANGED C!lvars
    OBVIOUS
<1> USE LdapAssumption DEF IInv, TypeOK, InStep, FaultsSayNo, Go, Fail, args,
        strings, network, Ends, Message, C!lvars, C!LAnswer, C!LLose
<1>1. CASE NotUsed BY <1>1 DEF NotUsed
<1>2. CASE get_ldap_uri BY <1>2 DEF get_ldap_uri
<1>3. CASE get_ldap_base BY <1>3 DEF get_ldap_base
<1>4. CASE GetFilter BY <1>4 DEF GetFilter
<1>5. CASE Connect BY <1>5 DEF Connect
<1>6. CASE InitializeFails BY <1>6 DEF InitializeFails
<1>7. CASE Bound BY <1>7 DEF Bound
<1>8. CASE BindFails BY <1>8 DEF BindFails
<1>9. CASE Counted BY <1>9 DEF Counted, CountEntries
<1>10. CASE SearchFails
  <2>1. CASE Fail("search") BY <1>10, <2>1 DEF SearchFails
  <2>2. CASE pc' = "crashed"
    <3>1. /\ pc = "search" /\ auth = 0 /\ auth' = 0 /\ reply' = NULL
          /\ UNCHANGED <<directory, use_ldap, req>>
      BY <1>10, <2>2 DEF SearchFails
    <3>2. C!LAnswer
      BY <2>2, <3>1
    <3> QED BY <3>2
  <2> QED BY <1>10, <2>1, <2>2 DEF SearchFails
<1>11. CASE CleanReturn BY <1>11 DEF CleanReturn
<1> QED BY <1>1, <1>2, <1>3, <1>4, <1>5, <1>6, <1>7, <1>8, <1>9, <1>10, <1>11
        DEF Client

\* Only SendEntry finds anything, and it finds it by the request.
LEMMA ServerImplements ==
    IInv /\ Server => C!LFind \/ C!LModify \/ UNCHANGED C!lvars
<1> SUFFICES ASSUME IInv, Server
             PROVE C!LFind \/ C!LModify \/ UNCHANGED C!lvars
    OBVIOUS
<1> USE LdapAssumption DEF IInv, TypeOK, InStep, Answers, args, strings,
        network, Ends, Message, C!lvars, C!LFind, C!LModify
<1>1. CASE AnswerBind BY <1>1 DEF AnswerBind
<1>2. CASE SendEntry
  <2>1. C!DirectoryGrants(req.user, req.host, req.tag, directory)
    BY <1>2 DEF SendEntry, C!DirectoryGrants, C!Satisfies, Satisfies
  <2> QED BY <1>2, <2>1 DEF SendEntry
<1>3. CASE SendReference BY <1>3 DEF SendReference
<1>4. CASE SendDone BY <1>4 DEF SendDone
<1>5. CASE Lose BY <1>5 DEF Lose
<1>6. CASE Modify BY <1>6 DEF Modify
<1> QED BY <1>1, <1>2, <1>3, <1>4, <1>5, <1>6 DEF Server

\* get_auth_ldap implements LdapClearance: a yes is the directory's, for this
\* user, host and tag, at some moment of the call.
THEOREM DirectoryDecides == Spec => YesIsTheDirectorys
<1>1. Init => C!LInit
  BY LdapAssumption DEF Init, C!LInit
<1>2. IInv /\ IInv' /\ [Next]_vars =>
        [C!LModify \/ C!LFind \/ C!LLose \/ C!LAnswer]_(C!lvars)
  <2>1. UNCHANGED vars => UNCHANGED C!lvars
    BY DEF vars, args, strings, network, C!lvars
  <2> QED BY <2>1, ClientImplements, ServerImplements DEF Next, Ended
<1> QED
  BY <1>1, <1>2, ExchangeInvariant, PTL DEF YesIsTheDirectorys, C!LSpec, Spec
=============================================================================
