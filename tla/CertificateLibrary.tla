------------------------ MODULE CertificateLibrary ------------------------
(***************************************************************************)
(* Certificates and the library that keeps them                            *)
(* (src/src/flexstack/security: certificate.py, certificate_library.py).   *)
(* A certificate stands for its HashedId8, so it names its issuer; what is *)
(* written in it is given by the constants.  A Certificate object also has *)
(* an attribute issuer, the object it is verified against.  A library is a *)
(* record of the sets of certificates that the code keeps in dictionaries. *)
(***************************************************************************)
EXTENDS Naturals, Sequences

CONSTANTS
  Cert,      \* certificates
  Psid,      \* kinds of messages
  Self,      \* the issuer that a root certificate names
  None,      \* no certificate
  Issuer,    \* Issuer[c]: the issuer that c names
  Signed,    \* certificates whose signature agrees with the key of that issuer
  Needed,    \* Needed[c]: PSIDs of its application and issuing permissions
  Allowed,   \* Allowed[c]: PSIDs it may issue
  Full,      \* certificates that may issue everything
  Ticket     \* certificates with the profile of an authorization ticket

ASSUME CertAssumption ==
  /\ Self \notin Cert /\ None \notin Cert /\ Self # None
  /\ Issuer \in [Cert -> Cert \cup {Self}]
  /\ Signed \subseteq Cert /\ Full \subseteq Cert /\ Ticket \subseteq Cert
  /\ Needed \in [Cert -> SUBSET Psid] /\ Allowed \in [Cert -> SUBSET Psid]
  /\ \A c \in Ticket : Issuer[c] # Self

Library == [roots : SUBSET Cert, aas : SUBSET Cert, tickets : SUBSET Cert]

Permitted(c, issuer) == issuer \in Full \/ Needed[c] \subseteq Allowed[issuer]

(* Slip: the permissions of the issuer are not looked at.                  *)
VerifiesAnyway(c, issuer) ==
  IF issuer # None /\ Issuer[c] # Self THEN issuer = Issuer[c] /\ c \in Signed
  ELSE Issuer[c] = Self /\ c \in Signed
\* Certificate.verify of an object with the given issuer.
Verifies(c, issuer) ==
  IF issuer # None /\ Issuer[c] # Self
    THEN issuer = Issuer[c] /\ Permitted(c, issuer) /\ c \in Signed
    ELSE Issuer[c] = Self /\ c \in Signed

\* get_issuer_certificate
KnownIssuer(lib, c) ==
  IF Issuer[c] \in lib.roots \cup lib.aas THEN Issuer[c] ELSE None

AddAuthority(lib, c, issuer) ==
  IF KnownIssuer(lib, c) # None /\ Verifies(c, issuer)
    THEN [lib EXCEPT !.aas = @ \cup {c}] ELSE lib

AddTicket(lib, c, issuer) ==
  IF KnownIssuer(lib, c) # None /\ Verifies(c, issuer)
    THEN [lib EXCEPT !.tickets = @ \cup {c}] ELSE lib

(* Slip: a ticket that was verified is not kept.                           *)
VerifyOneOnly(lib, c) ==
  LET trusted == KnownIssuer(lib, c) # None /\ Verifies(c, KnownIssuer(lib, c))
  IN [lib |-> lib, found |-> IF c \in lib.tickets \/ trusted THEN c ELSE None]
\* verify_sequence_of_certificates: the library after it, and the
\* authorization ticket or None.
VerifyOne(lib, c) ==
  CASE c \in lib.tickets -> [lib |-> lib, found |-> c]
    [] c \notin lib.tickets /\ KnownIssuer(lib, c) # None
         /\ Verifies(c, KnownIssuer(lib, c)) ->
         [lib |-> AddTicket(lib, c, KnownIssuer(lib, c)), found |-> c]
    [] OTHER -> [lib |-> lib, found |-> None]

VerifyTwo(lib, c, authority) ==
  LET extended == AddAuthority(lib, authority, Issuer[authority])
  IN CASE Issuer[authority] \notin lib.roots \/ ~Verifies(authority, Issuer[authority]) ->
            [lib |-> lib, found |-> None]
       [] Issuer[authority] \in lib.roots /\ Verifies(authority, Issuer[authority])
            /\ Verifies(c, authority) ->
            [lib |-> AddTicket(extended, c, authority), found |-> c]
       [] OTHER -> [lib |-> extended, found |-> None]

VerifySequence(lib, s) ==
  CASE Len(s) = 1 -> VerifyOne(lib, s[1])
    [] Len(s) = 2 \/ (Len(s) = 3 /\ s[3] \in lib.roots) -> VerifyTwo(lib, s[1], s[2])
    [] OTHER -> [lib |-> lib, found |-> None]

\* What vouches for a certificate.
Vouched(c, issuers) ==
  /\ Issuer[c] \in issuers /\ c \in Signed /\ Permitted(c, Issuer[c])

\* Every ticket and authority is reached from the roots by certificates that
\* vouch for each other: a set that has the roots and whatever its members
\* vouch for has them all.
Anchored(lib) ==
  \A S \in SUBSET Cert :
    lib.roots \subseteq S /\ (\A c \in Cert : Vouched(c, S) => c \in S)
      => lib.aas \cup lib.tickets \subseteq S
===========================================================================
