---------------------- MODULE CertificateDistribution ----------------------
(***************************************************************************)
(* Signing, verification and the distribution of certificates between      *)
(* peers (src/src/flexstack/security: sign_service.py, verify_service.py). *)
(* A station has a thread that signs CAMs and a thread that verifies what  *)
(* the station receives; they share the lists of the SignService and a     *)
(* flag without a lock, so that the signing of a CAM, and what follows the *)
(* verification of a message, take several steps.  DENMs and other         *)
(* messages are signed without any of the shared state but the own         *)
(* certificates.                                                           *)
(* All stations are of this kind, so a DENM carries its certificate, every *)
(* message has its time and place, and none of the refusals for that sets  *)
(* in.                                                                     *)
(***************************************************************************)
EXTENDS CertificateLibrary, SequencesExt

CONSTANTS
  Station,
  Own,        \* Own[n]: the certificate a station signs with
  Id3,        \* Id3[c]: HashedId3, the end of the HashedId8
  World,      \* [library, on, others, chains, foreign]: what the stations are
              \* configured with, which are there, whether what they send
              \* besides CAMs may have the certificate and may have the digest,
              \* the sequences of certificates that their applications may have
              \* verified, and what may come from stations that are not modelled
  MaxInbox    \* bound on the messages waiting for the verification

Digest == {Id3[c] : c \in Cert}
ASSUME StationAssumption ==
  /\ Own \in [Station -> Cert] /\ DOMAIN Id3 = Cert
  /\ MaxInbox \in Nat

Message == [signer : Cert, full : BOOLEAN, asks : Seq(Digest),
            gives : Cert \cup {None}, genuine : BOOLEAN]
ASSUME WorldAssumption ==
  /\ World \subseteq [library : [Station -> Library], on : SUBSET Station,
                      others : SUBSET BOOLEAN, chains : SUBSET Seq(Cert), foreign : SUBSET Message]
  /\ \A w \in World, n \in Station : Anchored(w.library[n])

VARIABLES
  world,      \* that of World in which the stations are
  library,    \* library[n]: certificate_library
  unknown,    \* unknown[n]: unknown_ats
  requested,  \* requested[n]: requested_ats
  ownAsked,   \* ownAsked[n]: requested_own_certificate
  at,         \* at[n]: what the signing thread does next
  cam,        \* cam[n]: the CAM it is signing
  inbox,      \* inbox[n]: received messages
  rx,         \* rx[n]: what the receiving thread does next, with what a
              \* message that it verified still asks for and gives
  owed        \* history: 0 if nobody waits for the own certificate, else one
              \* more than the CAMs sent without it since

shared == <<library, unknown, requested, ownAsked>>
signing == <<at, cam>>
vars == <<world, shared, signing, inbox, rx, owed>>

TypeOK ==
  /\ world \in World
  /\ library \in [Station -> Library]
  /\ unknown \in [Station -> Seq(Digest)] /\ requested \in [Station -> Seq(Digest)]
  /\ \A n \in Station : IsInjective(unknown[n]) /\ IsInjective(requested[n])
  /\ ownAsked \in [Station -> BOOLEAN]
  /\ at \in [Station -> {"idle", "pop", "signer", "send"}]
  /\ cam \in [Station -> [asking : BOOLEAN, asks : Seq(Digest),
                          gives : Cert \cup {None}, full : BOOLEAN]]
  /\ inbox \in [Station -> Seq(Message)]
  /\ \A n \in Station : Len(inbox[n]) <= MaxInbox
  /\ rx \in [Station -> [step : {"idle", "flag", "asks", "gives", "remove", "keep", "dead"},
                         asks : Seq(Digest), gives : Cert \cup {None}]]
  /\ owed \in [Station -> 0..3]

\* What is left to do for a message.
Todo(asks, gives) ==
  [step  |-> IF asks # <<>> THEN "asks" ELSE IF gives # None THEN "gives" ELSE "idle",
   asks  |-> asks, gives |-> gives]
Ready == Todo(<<>>, None)

Blank == [asking |-> FALSE, asks |-> <<>>, gives |-> None, full |-> FALSE]

Init ==
  /\ world \in World /\ library = world.library
  /\ unknown = [n \in Station |-> <<>>] /\ requested = [n \in Station |-> <<>>]
  /\ ownAsked = [n \in Station |-> FALSE]
  /\ at = [n \in Station |-> "idle"] /\ cam = [n \in Station |-> Blank]
  /\ inbox = [n \in Station |-> <<>>] /\ rx = [n \in Station |-> Ready]
  /\ owed = [n \in Station |-> 0]
---------------------------------------------------------------------------
(* Signing: sign_cam.                                                      *)

\* get_ca_certificate_by_hashedid3: authorities first.
CaOf(lib, h) ==
  LET aas == {c \in lib.aas : Id3[c] = h}
  IN IF aas # {} THEN aas ELSE {c \in lib.roots : Id3[c] = h}

Asks(n) == IF cam[n].asking THEN unknown[n] ELSE <<>>

\* The header, and the encoding of the data to be signed if no certificate was
\* requested.  A request of the own is the list of unknown tickets itself, not a
\* copy; a list that is emptied meanwhile asks for as much as none.
Header(n) ==
  /\ n \in world.on /\ at[n] = "idle"
  /\ IF requested[n] = <<>>
       THEN /\ cam' = [cam EXCEPT ![n] = [Blank EXCEPT !.asking = unknown[n] # <<>>,
                                                      !.asks = unknown[n]]]
            /\ at' = [at EXCEPT ![n] = "signer"]
       ELSE /\ cam' = [cam EXCEPT ![n] = [Blank EXCEPT !.asking = unknown[n] # <<>>]]
            /\ at' = [at EXCEPT ![n] = "pop"]
  /\ UNCHANGED <<world, shared, inbox, rx, owed>>

\* The list of requests may have become empty: then there is no CAM.
Pop(n) ==
  /\ at[n] = "pop"
  /\ \/ /\ requested[n] = <<>>
        /\ at' = [at EXCEPT ![n] = "idle"] /\ cam' = [cam EXCEPT ![n] = Blank]
        /\ UNCHANGED requested
     \/ /\ requested[n] # <<>>
        /\ \E c \in CaOf(library[n], Head(requested[n])) :
             cam' = [cam EXCEPT ![n].gives = c, ![n].asks = Asks(n)]
        /\ requested' = [requested EXCEPT ![n] = Tail(@)]
        /\ at' = [at EXCEPT ![n] = "signer"]
  /\ UNCHANGED <<world, library, unknown, ownAsked, inbox, rx, owed>>

(* Slip: the request is forgotten with the first CAM, whatever it carries. *)
SetUpSignerForgets(n, due) ==
  /\ at[n] = "signer"
  /\ cam' = [cam EXCEPT ![n].full = due]
  /\ ownAsked' = [ownAsked EXCEPT ![n] = FALSE]
  /\ at' = [at EXCEPT ![n] = "send"]
  /\ UNCHANGED <<world, library, unknown, requested, inbox, rx, owed>>
\* set_up_signer; due: it is over a second since the last CAM with certificate.
SetUpSigner(n, due) ==
  /\ at[n] = "signer"
  /\ cam' = [cam EXCEPT ![n].full = due \/ ownAsked[n]]
  /\ ownAsked' = [ownAsked EXCEPT ![n] = @ /\ ~cam'[n].full]
  /\ at' = [at EXCEPT ![n] = "send"]
  /\ UNCHANGED <<world, library, unknown, requested, inbox, rx, owed>>

Others(n) == Station \ {n}
Deaf(p) == p \notin world.on \/ rx[p].step = "dead"
HasRoom(p) == Len(inbox[p]) < MaxInbox

\* A message of n reaches the stations of heard, unless nobody receives there
\* any more; it is sent when all have room for it.
Sent(n, m, heard) ==
  /\ \A p \in Others(n) : Deaf(p) \/ HasRoom(p)
  /\ inbox' = [p \in Station |->
       IF p \in heard /\ ~Deaf(p) THEN Append(inbox[p], m) ELSE inbox[p]]

\* The data are encoded once more with the signature, which does not fit them if
\* the list of unknown tickets has changed since.
Encode(n, heard) ==
  /\ at[n] = "send"
  /\ Sent(n, [signer |-> Own[n], full |-> cam[n].full, asks |-> Asks(n),
         gives |-> cam[n].gives, genuine |-> Asks(n) = cam[n].asks], heard)
  /\ owed' = [owed EXCEPT ![n] = IF cam[n].full \/ @ = 0 THEN 0 ELSE IF @ = 3 THEN 3 ELSE @ + 1]
  /\ at' = [at EXCEPT ![n] = "idle"] /\ cam' = [cam EXCEPT ![n] = Blank]
  /\ UNCHANGED <<world, shared, rx>>

\* sign_denm, with the certificate, and sign_other, with its digest: whatever
\* else their headers hold is no matter here.
SignOther(n, full, heard) ==
  /\ n \in world.on
  /\ Sent(n, [signer |-> Own[n], full |-> full, asks |-> <<>>, gives |-> None,
           genuine |-> TRUE], heard)
  /\ UNCHANGED <<world, shared, signing, rx, owed>>
---------------------------------------------------------------------------
(* Verification: verify, and what it tells the SignService.                *)

Included(s, h) == IF Contains(s, h) THEN s ELSE Append(s, h)

Verdict(n, m) ==
  IF m.full THEN VerifySequence(library[n], <<m.signer>>)
  ELSE [lib   |-> library[n],
        found |-> IF m.signer \in library[n].tickets THEN m.signer ELSE None]

\* The certificate it met that it does not know, and whether a message is
\* accepted in the end.
Unknown(m) == IF m.full THEN Issuer[m.signer] ELSE m.signer
Acceptable(n, m) == Verdict(n, m).found \in Ticket /\ m.genuine

\* The certificate is owed from when the flag is raised.
RaiseFlag(n) ==
  /\ ownAsked' = [ownAsked EXCEPT ![n] = TRUE]
  /\ owed' = [owed EXCEPT ![n] = IF @ = 0 THEN 1 ELSE @]

\* verify of the next message, up to the first that the other thread may notice
\* of notify_unknown_at or notify_inline_p2pcd_request.
Verify(n) ==
  /\ rx[n].step = "idle" /\ inbox[n] # <<>>
  /\ inbox' = [inbox EXCEPT ![n] = Tail(@)]
  /\ LET m == Head(inbox[n])
         verdict == Verdict(n, m)
     IN /\ library' = [library EXCEPT ![n] = verdict.lib]
        /\ \/ /\ verdict.found = None /\ Unknown(m) # Self
              /\ unknown' = [unknown EXCEPT ![n] = Included(@, Id3[Unknown(m)])]
              /\ rx' = [rx EXCEPT ![n].step = "flag"]
              /\ UNCHANGED <<ownAsked, owed>>
           \/ /\ Acceptable(n, m)
              /\ rx' = [rx EXCEPT ![n] = Todo(m.asks, m.gives)]
              /\ IF Contains(m.asks, Id3[Own[n]]) THEN RaiseFlag(n)
                                                  ELSE UNCHANGED <<ownAsked, owed>>
              /\ UNCHANGED unknown
           \/ /\ ~Acceptable(n, m) /\ (verdict.found = None => Unknown(m) = Self)
              /\ UNCHANGED <<unknown, ownAsked, rx, owed>>
  /\ UNCHANGED <<world, requested, signing>>

\* The end of notify_unknown_at.
FlagUnknown(n) ==
  /\ rx[n].step = "flag"
  /\ RaiseFlag(n)
  /\ rx' = [rx EXCEPT ![n] = Ready]
  /\ UNCHANGED <<world, library, unknown, requested, signing, inbox>>

\* notify_inline_p2pcd_request: the next of the certificates asked for.
AnswerNext(n) ==
  /\ rx[n].step = "asks"
  /\ LET h == Head(rx[n].asks)
     IN requested' = IF CaOf(library[n], h) = {} THEN requested
                     ELSE [requested EXCEPT ![n] = Included(@, h)]
  /\ rx' = [rx EXCEPT ![n] = Todo(Tail(@.asks), @.gives)]
  /\ UNCHANGED <<world, library, unknown, ownAsked, signing, inbox, owed>>

\* notify_received_ca_certificate: a certificate that is found among those
\* requested ...
LookUp(n) ==
  /\ rx[n].step = "gives" /\ Contains(requested[n], Id3[rx[n].gives])
  /\ rx' = [rx EXCEPT ![n].step = "remove"]
  /\ UNCHANGED <<world, shared, signing, inbox, owed>>

\* ... is taken off if it is still there, or ValueError ends the thread, ...
TakeOff(n) ==
  /\ rx[n].step = "remove"
  /\ IF Contains(requested[n], Id3[rx[n].gives])
       THEN /\ requested' = [requested EXCEPT ![n] = Remove(@, Id3[rx[n].gives])]
            /\ rx' = [rx EXCEPT ![n].step = "keep"]
       ELSE /\ rx' = [rx EXCEPT ![n] = [Ready EXCEPT !.step = "dead"]]
            /\ UNCHANGED requested
  /\ UNCHANGED <<world, library, unknown, ownAsked, signing, inbox, owed>>

\* ... and it is no longer unknown; its object has no issuer.  What is not among
\* those requested stays so: only this thread adds to them.
Keep(n) ==
  /\ \/ rx[n].step = "keep"
     \/ rx[n].step = "gives" /\ ~Contains(requested[n], Id3[rx[n].gives])
  /\ unknown' = [unknown EXCEPT ![n] = Remove(@, Id3[rx[n].gives])]
  /\ library' = [library EXCEPT ![n] = AddAuthority(@, rx[n].gives, None)]
  /\ rx' = [rx EXCEPT ![n] = Ready]
  /\ UNCHANGED <<world, requested, ownAsked, signing, inbox, owed>>

\* An application has a chain verified.
Present(n, s) ==
  /\ n \in world.on
  /\ library' = [library EXCEPT ![n] = VerifySequence(@, s).lib]
  /\ UNCHANGED <<world, unknown, requested, ownAsked, signing, inbox, rx, owed>>

\* A message of a station that is not modelled.
Overhear(n, m) ==
  /\ ~Deaf(n) /\ HasRoom(n)
  /\ inbox' = [inbox EXCEPT ![n] = Append(@, m)]
  /\ UNCHANGED <<world, shared, signing, rx, owed>>
---------------------------------------------------------------------------
Sign(n) ==
  \/ Header(n) \/ Pop(n)
  \/ \E due \in BOOLEAN : SetUpSigner(n, due)
  \/ \E heard \in SUBSET Others(n) : Encode(n, heard)

Receive(n) ==
  Verify(n) \/ FlagUnknown(n) \/ AnswerNext(n) \/ LookUp(n) \/ TakeOff(n) \/ Keep(n)

Next ==
  \E n \in Station :
    \/ Sign(n) \/ Receive(n)
    \/ \E full \in world.others, heard \in SUBSET Others(n) : SignOther(n, full, heard)
    \/ \E s \in world.chains : Present(n, s)
    \/ \E m \in world.foreign : Overhear(n, m)

\* The certificate of p comes in at n, from p itself or, when p is one of those
\* that are not modelled, otherwise.
FromOthers(p) == {m \in world.foreign : m.full /\ m.signer = Own[p]}
Heard(n, p) ==
  \/ cam[p].full /\ \E heard \in SUBSET Others(p) : n \in heard /\ Encode(p, heard)
  \/ \E m \in FromOthers(p) : Overhear(n, m)

\* Both threads run, a second has often passed, and not all messages are lost.
Fairness ==
  \A n \in Station :
    /\ SF_vars(Sign(n)) /\ WF_vars(Receive(n)) /\ SF_vars(SetUpSigner(n, TRUE))
    /\ \A p \in Others(n) : SF_vars(Heard(n, p))

Spec == Init /\ [][Next]_vars /\ Fairness
---------------------------------------------------------------------------
(* Whatever certificates are received, presented or requested, the ones    *)
(* that messages are verified with hang together up to a root certificate  *)
(* the station was configured with (CertificateLibrary).                   *)
ChainOfTrust == \A n \in Station : Anchored(library[n])

(* A station that met an unknown ticket, or was asked for its own, sends   *)
(* its certificate with one of the next two CAMs: the one that is being    *)
(* signed when it is asked, or the one after it (set_up_signer).           *)
AnsweredSoon == \A n \in Station : owed[n] <= 2

(* A station gets to know the ticket of each peer that it hears and whose  *)
(* authority it knows, or comes to know, in spite of lost messages, unless *)
(* its receiving thread ends (notify_unknown_at, set_up_signer): when the  *)
(* certificate of an authority comes in while a CAM takes the request for  *)
(* it off the list, notify_received_ca_certificate may raise.              *)
Acquainted ==
  \A n \in Station : \A p \in Others(n) :
    /\ n \in world.on /\ (p \in world.on \/ FromOthers(p) # {})
    /\ Vouched(Own[p], library[n].aas)
    ~> Own[p] \in library[n].tickets \/ Deaf(n)

===========================================================================
