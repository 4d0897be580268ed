--------------------------- MODULE MCCertificates ---------------------------
(* Tickets from two authorities under one root.  Either two stations that  *)
(* know both authorities and not each other; or one that knows an          *)
(* authority and a ticket of it, and hears stations that are not modelled: *)
(* they send certificates of the other authority, ask for that authority   *)
(* and send it, too, because somebody else asked.  Its application has     *)
(* chains verified that end with a ticket the authority must not issue.    *)
EXTENDS CertificateDistribution

Certs == {"root", "aa", "bb", "ta", "tb", "tc", "odd"}
Stations == {"a", "b"}
Issuers == [c \in Certs |-> CASE c = "root" -> Self
                              [] c \in {"aa", "bb"} -> "root"
                              [] c \in {"ta", "odd"} -> "aa"
                              [] OTHER -> "bb"]
Needs == [c \in Certs |-> IF c = "odd" THEN {37} ELSE {36}]
Allows == [c \in Certs |-> IF c \in {"aa", "bb"} THEN {36} ELSE {}]
Owns == [n \in Stations |-> IF n = "a" THEN "ta" ELSE "tb"]
Ids == [c \in Certs |-> c]
Knowing(aas, tickets) == [roots |-> {"root"}, aas |-> aas, tickets |-> tickets]
Presented == {<<"odd", "aa">>, <<"odd", "aa", "root">>}

\* What is not a CAM is a DENM here, with the certificate.
Strangers ==
  [library |-> [n \in Stations |-> Knowing({"aa", "bb"}, {})],
   on |-> Stations, others |-> {TRUE}, chains |-> {}, foreign |-> {}]

Of(signer, full, asks, gives) ==
  [signer |-> signer, full |-> full, asks |-> asks, gives |-> gives, genuine |-> TRUE]
Crowd ==
  [library |-> [n \in Stations |-> Knowing({"bb"}, {"tc"})],
   on |-> {"b"}, others |-> {FALSE}, chains |-> Presented,
   foreign |-> {Of("ta", TRUE, <<>>, None), Of("odd", TRUE, <<>>, None),
                Of("tc", FALSE, <<"aa", "tb">>, None), Of("tc", FALSE, <<>>, "aa")}]
Worlds == {Strangers, Crowd}
=============================================================================
