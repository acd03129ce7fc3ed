------------------------------ MODULE MCAuthLdap ------------------------------
(* AuthLdap with two users and two hosts; the directory has at most one entry *)
(* for the first user, and one for the second, and is modified at any moment. *)
EXTENDS AuthLdap

CONSTANTS bob, eve, web, db, proxy

MCNames == {bob, eve, web, db}
MCBegins == {<<n, n>> : n \in MCNames}

D(uid, hosts, services) == [uid |-> uid, hosts |-> hosts, services |-> services]
MCDirectories ==
    {{D(eve, {Star}, {<<proxy, Star>>})},
     {D(bob, {web}, {}), D(eve, {db}, {})},
     {D(bob, {web, db}, {<<proxy, web>>})},
     {D(bob, {Star}, {<<proxy, Star>>})}}

MCRequests ==
    [user : {bob}, host : {web, db, NoName}, tag : {NoTag, proxy, EmptyTag}]
=============================================================================
