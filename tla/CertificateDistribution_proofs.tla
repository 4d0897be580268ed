------------------ MODULE CertificateDistribution_proofs ------------------
(***************************************************************************)
(* The chain of trust, for any certificates, stations and configuration:   *)
(* each operation of the library keeps it, so does every step.             *)
(***************************************************************************)
EXTENDS CertificateDistribution, TLAPS

Sound(lib) == lib \in Library /\ Anchored(lib)

(* A certificate that verifies under a known issuer is vouched for by it.  *)
LEMMA VerifiedVouched ==
  ASSUME NEW lib \in Library, NEW c, NEW i, NEW S, lib.roots \cup lib.aas \subseteq S,
         KnownIssuer(lib, c) # None, Verifies(c, i)
  PROVE  c \in Cert /\ Vouched(c, S)
<1>1. c \in Signed /\ c \in Cert
  BY CertAssumption DEF Verifies
<1>2. Issuer[c] \in lib.roots \cup lib.aas
  BY DEF KnownIssuer
<1>3. Issuer[c] # Self
  BY <1>2, CertAssumption DEF Library
<1>4. i = Issuer[c] /\ Permitted(c, i)
  BY <1>3 DEF Verifies
<1> QED BY <1>1, <1>2, <1>4 DEF Vouched

(* What may be added without harm.                                         *)
LEMMA Grows ==
  ASSUME NEW lib, Sound(lib), NEW c \in Cert, NEW new \in Library,
         \A S \in SUBSET Cert : lib.roots \cup lib.aas \subseteq S => Vouched(c, S),
         new.roots = lib.roots,
         new.aas \cup new.tickets \subseteq lib.aas \cup lib.tickets \cup {c}
  PROVE  Sound(new)
<1> SUFFICES ASSUME NEW S \in SUBSET Cert, new.roots \subseteq S,
                    \A d \in Cert : Vouched(d, S) => d \in S
             PROVE  new.aas \cup new.tickets \subseteq S
  BY DEF Sound, Anchored
<1>1. lib.aas \cup lib.tickets \subseteq S
  BY DEF Sound, Anchored
<1>2. c \in S
  BY <1>1
<1> QED BY <1>1, <1>2

LEMMA AddAuthoritySound ==
  ASSUME NEW lib, Sound(lib), NEW c, NEW i
  PROVE  Sound(AddAuthority(lib, c, i))
<1>1. CASE KnownIssuer(lib, c) # None /\ Verifies(c, i)
  <2> DEFINE new == [lib EXCEPT !.aas = @ \cup {c}]
  <2>1. lib \in Library
    BY DEF Sound
  <2>2. c \in Cert /\ \A S \in SUBSET Cert : lib.roots \cup lib.aas \subseteq S => Vouched(c, S)
    BY <1>1, <2>1, VerifiedVouched
  <2>3. new \in Library /\ new.roots = lib.roots
        /\ new.aas \cup new.tickets \subseteq lib.aas \cup lib.tickets \cup {c}
    BY <2>1, <2>2 DEF Library
  <2>4. AddAuthority(lib, c, i) = new
    BY <1>1 DEF AddAuthority
  <2> HIDE DEF new
  <2> QED BY <2>2, <2>3, <2>4, Grows
<1>2. CASE ~(KnownIssuer(lib, c) # None /\ Verifies(c, i))
  BY <1>2 DEF AddAuthority
<1> QED BY <1>1, <1>2

LEMMA AddTicketSound ==
  ASSUME NEW lib, Sound(lib), NEW c, NEW i
  PROVE  Sound(AddTicket(lib, c, i))
<1>1. CASE KnownIssuer(lib, c) # None /\ Verifies(c, i)
  <2> DEFINE new == [lib EXCEPT !.tickets = @ \cup {c}]
  <2>1. lib \in Library
    BY DEF Sound
  <2>2. c \in Cert /\ \A S \in SUBSET Cert : lib.roots \cup lib.aas \subseteq S => Vouched(c, S)
    BY <1>1, <2>1, VerifiedVouched
  <2>3. new \in Library /\ new.roots = lib.roots
        /\ new.aas \cup new.tickets \subseteq lib.aas \cup lib.tickets \cup {c}
    BY <2>1, <2>2 DEF Library
  <2>4. AddTicket(lib, c, i) = new
    BY <1>1 DEF AddTicket
  <2> HIDE DEF new
  <2> QED BY <2>2, <2>3, <2>4, Grows
<1>2. CASE ~(KnownIssuer(lib, c) # None /\ Verifies(c, i))
  BY <1>2 DEF AddTicket
<1> QED BY <1>1, <1>2

(* Verifying a sequence of certificates keeps the chain of trust, whatever *)
(* the sequence holds (verify_sequence_of_certificates).                   *)
THEOREM SequenceSound ==
  ASSUME NEW lib, Sound(lib), NEW s
  PROVE  Sound(VerifySequence(lib, s).lib)
<1>1. Sound(VerifyOne(lib, s[1]).lib)
  BY AddTicketSound DEF VerifyOne
<1>2. Sound(VerifyTwo(lib, s[1], s[2]).lib)
  <2> DEFINE extended == AddAuthority(lib, s[2], Issuer[s[2]])
  <2>1. Sound(extended)
    BY AddAuthoritySound
  <2>2. Sound(AddTicket(extended, s[1], s[2]))
    BY <2>1, AddTicketSound
  <2> QED BY <2>1, <2>2 DEF VerifyTwo
<1> QED BY <1>1, <1>2 DEF VerifySequence
---------------------------------------------------------------------------
AllSound == library = [n \in Station |-> library[n]] /\ \A n \in Station : Sound(library[n])

LEMMA Replaced ==
  ASSUME AllSound, NEW n \in Station, NEW lib, Sound(lib),
         library' = [library EXCEPT ![n] = lib]
  PROVE  AllSound'
BY DEF AllSound

LEMMA ReceiveSound ==
  ASSUME AllSound, NEW n \in Station, Receive(n)
  PROVE  AllSound'
<1>1. Sound(library[n])
  BY DEF AllSound
<1>2. CASE Verify(n)
  <2> DEFINE lib == Verdict(n, Head(inbox[n])).lib
  <2>1. Sound(lib)
    BY <1>1, SequenceSound DEF Verdict
  <2>2. library' = [library EXCEPT ![n] = lib]
    BY <1>2 DEF Verify
  <2> HIDE DEF lib
  <2> QED BY <2>1, <2>2, Replaced
<1>3. CASE Keep(n)
  <2> DEFINE lib == AddAuthority(library[n], rx[n].gives, None)
  <2>1. Sound(lib)
    BY <1>1, AddAuthoritySound
  <2>2. library' = [library EXCEPT ![n] = lib]
    BY <1>3 DEF Keep
  <2> HIDE DEF lib
  <2> QED BY <2>1, <2>2, Replaced
<1>4. CASE FlagUnknown(n) \/ AnswerNext(n) \/ LookUp(n) \/ TakeOff(n)
  BY <1>4 DEF AllSound, FlagUnknown, AnswerNext, LookUp, TakeOff, shared
<1> QED BY <1>2, <1>3, <1>4 DEF Receive

LEMMA StepSound ==
  ASSUME AllSound, [Next]_vars
  PROVE  AllSound'
<1>1. CASE library' = library
  BY <1>1 DEF AllSound
<1>2. ASSUME NEW n \in Station, NEW s, Present(n, s)
      PROVE  AllSound'
  <2>1. Sound(VerifySequence(library[n], s).lib)
    BY SequenceSound DEF AllSound
  <2>2. library' = [library EXCEPT ![n] = VerifySequence(library[n], s).lib]
    BY <1>2 DEF Present
  <2> QED BY <2>1, <2>2, Replaced
<1>3. ASSUME NEW n \in Station, Sign(n)
      PROVE  library' = library
  BY <1>3 DEF Sign, Header, Pop, SetUpSigner, Encode, shared
<1>4. ASSUME NEW n \in Station, NEW full, NEW heard, SignOther(n, full, heard)
      PROVE  library' = library
  BY <1>4 DEF SignOther, shared
<1>5. ASSUME NEW n \in Station, NEW m, Overhear(n, m)
      PROVE  library' = library
  BY <1>5 DEF Overhear, shared
<1>6. UNCHANGED vars => library' = library
  BY DEF vars, shared
<1> QED BY <1>1, <1>2, <1>3, <1>4, <1>5, <1>6, ReceiveSound DEF Next

(* The chain of trust is never broken, whatever certificates come in.      *)
THEOREM AlwaysTrusted == Spec => []ChainOfTrust
<1>1. Init => AllSound
  BY WorldAssumption DEF Init, AllSound, Sound
<1>2. AllSound /\ [Next]_vars => AllSound'
  BY StepSound
<1>3. AllSound => ChainOfTrust
  BY DEF AllSound, Sound, ChainOfTrust
<1> QED BY <1>1, <1>2, <1>3, PTL DEF Spec
---------------------------------------------------------------------------
(* The answer that is owed is on its way: in the CAM the station is about  *)
(* to send, or in the flag set_up_signer reads, and then no CAM without    *)
(* the certificate that could follow the second one is being sent.         *)
Answering(n) ==
  \/ owed[n] = 0
  \/ /\ owed[n] \in {1, 2}
     /\ \/ at[n] = "send" /\ cam[n].full
        \/ /\ ownAsked[n]
           /\ at[n] = "send" => owed[n] = 1

Shaped ==
  /\ owed \in [Station -> 0..3]
  /\ at \in [Station -> {"idle", "pop", "signer", "send"}]
  /\ ownAsked \in [Station -> BOOLEAN]
  /\ cam = [n \in Station |-> cam[n]]
  /\ \A n \in Station : cam[n] = [asking |-> cam[n].asking, asks |-> cam[n].asks,
                                  gives |-> cam[n].gives, full |-> cam[n].full]

AnswerInv == Shaped /\ \A n \in Station : Answering(n)

(* What the operations of one station do to the others: nothing that       *)
(* their answers depend on.                                                *)
LEMMA AnswerKept ==
  ASSUME AnswerInv, NEW n \in Station,
         NEW o, NEW f \in BOOLEAN,
         NEW a \in {"idle", "pop", "signer", "send"},
         NEW c, c = [asking |-> c.asking, asks |-> c.asks, gives |-> c.gives, full |-> c.full],
         owed' = [owed EXCEPT ![n] = o],
         ownAsked' = [ownAsked EXCEPT ![n] = f],
         at' = [at EXCEPT ![n] = a],
         cam' = [cam EXCEPT ![n] = c],
         \/ o = 0
         \/ /\ o \in {1, 2}
            /\ \/ a = "send" /\ c.full
               \/ f /\ (a = "send" => o = 1)
  PROVE  AnswerInv'
<1>1. Shaped'
  BY DEF AnswerInv, Shaped
<1>2. ASSUME NEW p \in Station, p # n PROVE Answering(p)'
  BY <1>2 DEF AnswerInv, Shaped, Answering
<1>3. Answering(n)'
  BY DEF AnswerInv, Shaped, Answering
<1> QED BY <1>1, <1>2, <1>3 DEF AnswerInv

LEMMA SignAnswers ==
  ASSUME AnswerInv, NEW n \in Station, Sign(n)
  PROVE  AnswerInv'
<1>0. /\ owed = [owed EXCEPT ![n] = owed[n]]
      /\ ownAsked = [ownAsked EXCEPT ![n] = ownAsked[n]]
      /\ ownAsked[n] \in BOOLEAN
      /\ Answering(n)
  BY DEF AnswerInv, Shaped
<1>1. CASE Header(n)
  <2> DEFINE asking == unknown[n] # <<>>
             c == IF requested[n] = <<>> THEN [Blank EXCEPT !.asking = asking, !.asks = unknown[n]]
                                         ELSE [Blank EXCEPT !.asking = asking]
             a == IF requested[n] = <<>> THEN "signer" ELSE "pop"
  <2>1. c = [asking |-> c.asking, asks |-> c.asks, gives |-> c.gives, full |-> c.full]
    BY DEF Blank
  <2>2. /\ cam' = [cam EXCEPT ![n] = c] /\ at' = [at EXCEPT ![n] = a]
        /\ owed' = owed /\ ownAsked' = ownAsked /\ at[n] = "idle"
    BY <1>1 DEF Header, shared
  <2>3. a # "send" /\ a \in {"pop", "signer"}
    OBVIOUS
  <2> HIDE DEF c, a
  <2> QED BY <1>0, <2>1, <2>2, <2>3, AnswerKept DEF Answering
<1>2. CASE Pop(n)
  <2>1. owed' = owed /\ ownAsked' = ownAsked /\ at[n] = "pop"
    BY <1>2 DEF Pop
  <2>2. PICK c : /\ cam' = [cam EXCEPT ![n] = c]
                 /\ c = [asking |-> c.asking, asks |-> c.asks, gives |-> c.gives, full |-> c.full]
    <3>1. CASE cam' = [cam EXCEPT ![n] = Blank]
      <4>1. Blank = [asking |-> Blank.asking, asks |-> Blank.asks, gives |-> Blank.gives,
                     full |-> Blank.full]
        BY DEF Blank
      <4> QED BY <3>1, <4>1
    <3>2. ASSUME NEW g, cam' = [cam EXCEPT ![n].gives = g, ![n].asks = Asks(n)]
          PROVE  \E c : /\ cam' = [cam EXCEPT ![n] = c]
                        /\ c = [asking |-> c.asking, asks |-> c.asks, gives |-> c.gives, full |-> c.full]
      <4> DEFINE c == [asking |-> cam[n].asking, asks |-> Asks(n), gives |-> g, full |-> cam[n].full]
      <4>1. /\ cam = [p \in Station |-> cam[p]]
            /\ cam[n] = [asking |-> cam[n].asking, asks |-> cam[n].asks,
                         gives |-> cam[n].gives, full |-> cam[n].full]
        BY DEF AnswerInv, Shaped
      <4>2. /\ cam' = [p \in Station |-> cam'[p]]
            /\ \A p \in Station : p # n => cam'[p] = cam[p]
            /\ cam'[n] = [[cam[n] EXCEPT !.gives = g] EXCEPT !.asks = Asks(n)]
        BY <3>2, <4>1
      <4>3. cam'[n] = c
        BY <4>1, <4>2
      <4>4. c = [asking |-> c.asking, asks |-> c.asks, gives |-> c.gives, full |-> c.full]
        OBVIOUS
      <4> HIDE DEF c
      <4>5. cam' = [cam EXCEPT ![n] = c]
        BY <4>1, <4>2, <4>3
      <4> QED BY <4>4, <4>5
    <3> QED BY <1>2, <3>1, <3>2 DEF Pop
  <2>3. PICK a \in {"idle", "signer"} : at' = [at EXCEPT ![n] = a]
    BY <1>2 DEF Pop
  <2> QED BY <1>0, <2>1, <2>2, <2>3, AnswerKept DEF Answering
<1>3. ASSUME NEW due \in BOOLEAN, SetUpSigner(n, due)
      PROVE  AnswerInv'
  <2> DEFINE full == due \/ ownAsked[n]
             c == [asking |-> cam[n].asking, asks |-> cam[n].asks, gives |-> cam[n].gives,
                   full |-> full]
  <2>0. /\ cam = [p \in Station |-> cam[p]]
        /\ cam[n] = [asking |-> cam[n].asking, asks |-> cam[n].asks,
                     gives |-> cam[n].gives, full |-> cam[n].full]
    BY DEF AnswerInv, Shaped
  <2>1. /\ cam' = [cam EXCEPT ![n] = c]
        /\ at' = [at EXCEPT ![n] = "send"] /\ at[n] = "signer"
        /\ owed' = owed
    <3>1. cam' = [cam EXCEPT ![n] = [cam[n] EXCEPT !.full = full]]
      BY <1>3 DEF SetUpSigner
    <3>2. [cam[n] EXCEPT !.full = full] = c
      BY <2>0
    <3> QED BY <1>3, <3>1, <3>2 DEF SetUpSigner
  <2>2. ownAsked' = [ownAsked EXCEPT ![n] = FALSE]
    <3>1. cam'[n].full = full
      BY <2>1 DEF AnswerInv, Shaped
    <3>2. ownAsked' = [ownAsked EXCEPT ![n] = ownAsked[n] /\ ~cam'[n].full]
      BY <1>3 DEF SetUpSigner
    <3>3. (ownAsked[n] /\ ~cam'[n].full) = FALSE
      BY <1>0, <1>3, <3>1
    <3> QED BY <3>2, <3>3
  <2>3. owed[n] # 0 => full
    BY <1>0, <2>1 DEF Answering
  <2>4. c.full = full /\ c = [asking |-> c.asking, asks |-> c.asks, gives |-> c.gives, full |-> c.full]
    OBVIOUS
  <2> HIDE DEF c
  <2> QED BY <1>0, <2>1, <2>2, <2>3, <2>4, AnswerKept DEF Answering
<1>4. ASSUME NEW heard, Encode(n, heard)
      PROVE  AnswerInv'
  <2> DEFINE o == IF cam[n].full \/ owed[n] = 0 THEN 0 ELSE IF owed[n] = 3 THEN 3 ELSE owed[n] + 1
  <2>1. /\ owed' = [owed EXCEPT ![n] = o]
        /\ cam' = [cam EXCEPT ![n] = Blank] /\ at' = [at EXCEPT ![n] = "idle"]
        /\ at[n] = "send" /\ ownAsked' = ownAsked
    BY <1>4 DEF Encode, shared
  <2>2. o = 0 \/ (o = 2 /\ ownAsked[n])
    BY <1>0, <2>1 DEF Answering
  <2>3. Blank = [asking |-> Blank.asking, asks |-> Blank.asks, gives |-> Blank.gives,
                 full |-> Blank.full]
    BY DEF Blank
  <2> HIDE DEF o
  <2> QED BY <1>0, <2>1, <2>2, <2>3, AnswerKept
<1> QED BY <1>1, <1>2, <1>3, <1>4 DEF Sign

(* The flag may be raised, and starts the count if none is owed.           *)
LEMMA FlagAnswers ==
  ASSUME AnswerInv, NEW n \in Station, RaiseFlag(n), UNCHANGED signing
  PROVE  AnswerInv'
<1>1. /\ at' = [at EXCEPT ![n] = at[n]] /\ cam' = [cam EXCEPT ![n] = cam[n]]
      /\ Answering(n) /\ at[n] \in {"idle", "pop", "signer", "send"}
      /\ cam[n] = [asking |-> cam[n].asking, asks |-> cam[n].asks, gives |-> cam[n].gives,
                   full |-> cam[n].full]
  BY DEF AnswerInv, Shaped, signing
<1> DEFINE o == IF owed[n] = 0 THEN 1 ELSE owed[n]
<1>2. owed' = [owed EXCEPT ![n] = o] /\ ownAsked' = [ownAsked EXCEPT ![n] = TRUE]
  BY DEF RaiseFlag
<1>3. o \in {1, 2} /\ ((at[n] = "send" /\ cam[n].full) \/ (at[n] = "send" => o = 1))
  BY <1>1 DEF Answering
<1> HIDE DEF o
<1> QED BY <1>1, <1>2, <1>3, AnswerKept

LEMMA ReceiveAnswers ==
  ASSUME AnswerInv, NEW n \in Station, Receive(n)
  PROVE  AnswerInv'
<1>1. CASE UNCHANGED <<owed, ownAsked, at, cam>>
  BY <1>1 DEF AnswerInv, Shaped, Answering
<1>2. CASE Verify(n)
  <2>1. UNCHANGED signing /\ (RaiseFlag(n) \/ UNCHANGED <<ownAsked, owed>>)
    BY <1>2 DEF Verify
  <2> QED BY <1>1, <2>1, FlagAnswers DEF signing
<1>3. CASE FlagUnknown(n)
  BY <1>3, FlagAnswers DEF FlagUnknown
<1>4. CASE AnswerNext(n) \/ LookUp(n) \/ TakeOff(n) \/ Keep(n)
  BY <1>1, <1>4 DEF AnswerNext, LookUp, TakeOff, Keep, shared, signing
<1> QED BY <1>2, <1>3, <1>4 DEF Receive

(* A station that is asked for its certificate owes it for two CAMs at     *)
(* most, wherever in the signing of a CAM the request comes in.            *)
THEOREM AlwaysAnswered == Spec => []AnsweredSoon
<1>1. Init => AnswerInv
  <2>1. Blank = [asking |-> Blank.asking, asks |-> Blank.asks, gives |-> Blank.gives,
                 full |-> Blank.full]
    BY DEF Blank
  <2> QED BY <2>1 DEF Init, AnswerInv, Shaped, Answering
<1>2. AnswerInv /\ [Next]_vars => AnswerInv'
  <2> SUFFICES ASSUME AnswerInv, [Next]_vars PROVE AnswerInv'
    OBVIOUS
  <2>1. CASE UNCHANGED <<owed, ownAsked, at, cam>>
    BY <2>1 DEF AnswerInv, Shaped, Answering
  <2>2. ASSUME NEW n \in Station, NEW full, NEW heard, SignOther(n, full, heard)
        PROVE  AnswerInv'
    BY <2>1, <2>2 DEF SignOther, shared, signing
  <2>3. ASSUME NEW n \in Station, NEW s, Present(n, s)
        PROVE  AnswerInv'
    BY <2>1, <2>3 DEF Present, signing
  <2>4. ASSUME NEW n \in Station, NEW m, Overhear(n, m)
        PROVE  AnswerInv'
    BY <2>1, <2>4 DEF Overhear, shared, signing
  <2>5. CASE UNCHANGED vars
    BY <2>1, <2>5 DEF vars, shared, signing
  <2> QED BY <2>2, <2>3, <2>4, <2>5, SignAnswers, ReceiveAnswers DEF Next
<1>3. AnswerInv => AnsweredSoon
  BY DEF AnswerInv, Answering, AnsweredSoon
<1> QED BY <1>1, <1>2, <1>3, PTL DEF Spec
===========================================================================
