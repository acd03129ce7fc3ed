----------------------------- MODULE MCAuthLocal -----------------------------
(* AuthLocal on every users.lst of at most two lines over two users and two *)
(* hosts, where one user name begins the other and one host name the other. *)
EXTENDS AuthLocal

CONSTANTS bob, bobby, web, webdev

MCNames == {bob, bobby, web, webdev}
MCBegins == {<<n, n>> : n \in MCNames} \cup {<<bob, bobby>>, <<web, webdev>>}

MCEntries == [name : {web, webdev}, plus : BOOLEAN]
Lists(n) == [1..n -> MCEntries]
MCLines(maxList) == [user : {bob, bobby, NoName},
                     hosts : UNION {Lists(n) : n \in 0..maxList}]

\* A line may hold one entry more than the buffer; the line after it is then
\* its tail, or the next one written.
Overlong == [user : {bob, bobby}, hosts : Lists(3)]
MCUsersFiles ==
    {<<>>} \cup {<<l>> : l \in MCLines(3)}
           \cup {<<k, l>> : k \in MCLines(2), l \in MCLines(2)}
           \cup {<<k, l>> : k \in Overlong, l \in MCLines(1)}

MCRequests == [user : {bob, bobby}, host : {web, webdev}, proxy : BOOLEAN]
                \cup {[user |-> NoName, host |-> web, proxy |-> FALSE]}
=============================================================================
