------------------------------ MODULE MCReadConf ------------------------------
(* ReadConf on every file of at most two lines over five options of the three *)
(* kinds, and every file of three sound or unknown lines over three of them.  *)
EXTENDS ReadConf

MCArgs == {"yes", "no", "5", "word"}

Plain(kind) == [kind |-> kind, key |-> "debug", arg |-> NoArg, garbage |-> FALSE]

Anything ==
    {Plain(k) : k \in {"blank", "bad_keyword", "open_quote"}}
      \cup [kind : {"option"},
            key : {"use_ldap", "disable_authorization", "proxy_keyword",
                   "nc_timeout", "ldap_uri"},
            arg : MCArgs \cup Missing, garbage : BOOLEAN]

Ordinary ==
    {Plain(k) : k \in {"blank", "bad_keyword"}}
      \cup [kind : {"option"},
            key : {"use_ldap", "disable_authorization", "proxy_keyword"},
            arg : {"yes", "no", NoArg}, garbage : {FALSE}]

MCConfigFiles ==
    {<<>>} \cup {<<l>> : l \in Anything}
           \cup {<<k, l>> : k, l \in Anything}
           \cup {<<j, k, l>> : j, k, l \in Ordinary}
=============================================================================
