------------------------------- MODULE MCDns -------------------------------
(* Dns for TLC: overlapping lists of name servers, one with a bad entry, a *)
(* question that /etc/hosts answers and two it does not, and answers that  *)
(* normalize keeps, drops or refuses.                                      *)
EXTENDS Dns

CONSTANTS s1, s2, s3   \* the name servers

MCResolvConf == <<s1, s2>>
MCPreferred == {<<s3, s1, s2>>, <<s3, NoHost, s1>>, <<>>}

Srv == [qtype |-> "SRV", name |-> "remote"]
Addr == [qtype |-> "A", name |-> "remote"]
Local == [qtype |-> "A", name |-> "local"]
MCQuery == {Srv, Addr, Local}
MCLocalHosts == {Local}

Rec(qtype, name, ttl) == [qtype |-> qtype, name |-> name, ttl |-> ttl]
MCResponse == {<<>>,
               <<Rec("A", "t", 1)>>,
               <<Rec("SRV", "t", 1), Rec("A", "t", 2)>>,
               <<Rec("TXT", "t", 1)>>}
=============================================================================
