------------------------ MODULE LocationTable_proofs ------------------------
(***************************************************************************)
(* The invariants of the location table, for every number of stations,     *)
(* length of the duplicate packet list, lifetime and period of the         *)
(* timestamp.                                                              *)
(***************************************************************************)
EXTENDS LocationTable, TLAPS

-----------------------------------------------------------------------------
(* Timestamps less than half a period apart compare, and subtract, like    *)
(* the instants they stand for, whatever the period.                       *)

(* An instant is a whole number of periods and its timestamp.              *)
LEMMA Euclid ==
  ASSUME NEW x \in Nat
  PROVE  /\ TstOf(x) \in 0..(Wrap - 1)
         /\ x \div Wrap \in Int
         /\ x = Wrap * (x \div Wrap) + TstOf(x)
BY WrapAssumption, SMT DEF TstOf

(* Instants less than a period apart are in the same period or in two that *)
(* follow each other.                                                      *)
LEMMA Periods ==
  ASSUME NEW x \in Nat, NEW y \in Nat, x <= y, y - x < Wrap
  PROVE  \/ y - x = TstOf(y) - TstOf(x)
         \/ y - x = TstOf(y) - TstOf(x) + Wrap
<1>p. PICK p \in Int : x = Wrap * p + TstOf(x)
  BY Euclid
<1>q. PICK q \in Int : y = Wrap * q + TstOf(y)
  BY Euclid
<1> DEFINE d == q - p
<1>1. /\ Wrap \in Nat \ {0} /\ d \in Int
      /\ TstOf(x) \in 0..(Wrap - 1) /\ TstOf(y) \in 0..(Wrap - 1)
  BY Euclid, WrapAssumption
<1>2. Wrap * d = (y - x) - (TstOf(y) - TstOf(x))
  <2> DEFINE P == Wrap * p
             Q == Wrap * q
             D == Wrap * d
  <2>1. D = Q - P
    BY WrapAssumption
  <2>2. P \in Int /\ Q \in Int /\ TstOf(x) \in Int /\ TstOf(y) \in Int
    BY <1>1
  <2>3. x = P + TstOf(x) /\ y = Q + TstOf(y)
    BY <1>p, <1>q
  <2> HIDE DEF P, Q, D
  <2>4. D = (y - x) - (TstOf(y) - TstOf(x))
    BY <2>1, <2>2, <2>3
  <2> QED BY <2>4 DEF D
<1> HIDE DEF d
<1>3. d < 2
  <2>1. d >= 2 => Wrap * d >= 2 * Wrap
    BY <1>1
  <2> QED BY <1>1, <1>2, <2>1
<1>4. d > -1
  <2>1. d <= -1 => Wrap * d <= -Wrap
    BY <1>1
  <2> QED BY <1>1, <1>2, <2>1
<1>5. d = 0 \/ d = 1
  BY <1>1, <1>3, <1>4
<1>6. Wrap * 0 = 0 /\ Wrap * 1 = Wrap
  BY <1>1
<1> QED BY <1>1, <1>2, <1>5, <1>6

(* TST.__sub__ gives the time between two instants less than a period      *)
(* apart, across the wrap of the timestamp.                                *)
THEOREM TstMinusIsAge ==
  ASSUME NEW x \in Nat, NEW y \in Nat, x <= y, y - x < Wrap
  PROVE  TstMinus(TstOf(y), TstOf(x)) = y - x
<1>1. TstOf(x) \in 0..(Wrap - 1) /\ TstOf(y) \in 0..(Wrap - 1)
  BY Euclid
<1>2. \/ y - x = TstOf(y) - TstOf(x)
      \/ y - x = TstOf(y) - TstOf(x) + Wrap
  BY Periods
<1> QED BY <1>1, <1>2, WrapAssumption DEF TstMinus

(* TST.__gt__ orders instants less than half a period apart like the clock *)
(* does, across the wrap of the timestamp.                                 *)
THEOREM TstGtIsLater ==
  ASSUME NEW x \in Nat, NEW y \in Nat, y - x < Half, x - y < Half
  PROVE  TstGt(TstOf(y), TstOf(x)) <=> y > x
<1>1. Half \in Nat /\ 2 * Half = Wrap
  BY WrapAssumption DEF Half
<1>4. TstOf(x) \in 0..(Wrap - 1) /\ TstOf(y) \in 0..(Wrap - 1)
  BY Euclid
<1>2. CASE x <= y
  <2>1. \/ y - x = TstOf(y) - TstOf(x)
        \/ y - x = TstOf(y) - TstOf(x) + Wrap
    BY <1>1, <1>2, Periods
  <2> QED BY <1>1, <1>2, <2>1, <1>4 DEF TstGt
<1>3. CASE y <= x
  <2>1. \/ x - y = TstOf(x) - TstOf(y)
        \/ x - y = TstOf(x) - TstOf(y) + Wrap
    BY <1>1, <1>3, Periods
  <2> QED BY <1>1, <1>3, <2>1, <1>4 DEF TstGt
<1> QED BY <1>2, <1>3

(* TST.__gt__ never holds both ways: of two positions neither can replace  *)
(* the other for ever.                                                     *)
THEOREM TstGtAsymmetric ==
  ASSUME NEW a \in Tst, NEW b \in Tst
  PROVE  ~(TstGt(a, b) /\ TstGt(b, a))
BY WrapAssumption DEF TstGt, Tst, Half

(* Any two different timestamps are ordered, those half a period apart     *)
(* included.                                                               *)
THEOREM TstGtTotal ==
  ASSUME NEW a \in Tst, NEW b \in Tst, a # b
  PROVE  TstGt(a, b) \/ TstGt(b, a)
BY WrapAssumption DEF TstGt, Tst, Half

-----------------------------------------------------------------------------
USE DplAssumption, ClockAssumption

-----------------------------------------------------------------------------
(* The table alone: its shape and the duplicate packet lists.              *)
TableInv == TypeOK /\ DplAgrees

LEMMA NewEntryOK == NewEntry \in EntryType /\ DplAgreesIn(NewEntry)
<1>1. 0 \in Tst
  BY WrapAssumption DEF Tst
<1>2. <<>> \in Seq(SeqNo) /\ Len(<<>>) = 0
  OBVIOUS
<1> QED BY <1>1, <1>2 DEF NewEntry, EntryType, DplAgreesIn

LEMMA EntryOfOK ==
  ASSUME TableInv, NEW s \in Station
  PROVE  EntryOf(s) \in EntryType /\ DplAgreesIn(EntryOf(s))
BY NewEntryOK DEF TableInv, TypeOK, DplAgrees, EntryOf, Present

(* The ring buffer after a new sequence number: the set follows it, and it *)
(* holds the last DplLength ones.                                          *)
LEMMA RememberOK ==
  ASSUME NEW e \in EntryType, DplAgreesIn(e), NEW sn \in SeqNo,
         ~IsDuplicate(e, sn)
  PROVE  /\ Remember(e, sn) \in EntryType
         /\ DplAgreesIn(Remember(e, sn))
         /\ Remember(e, sn).tst = e.tst
         /\ Remember(e, sn).deque = LastOnes(e.deque \o <<sn>>)
<1> DEFINE d == e.deque
           r == Remember(e, sn)
<1>1. /\ d \in Seq(SeqNo) /\ e.set \in SUBSET SeqNo
      /\ e.set = {d[i] : i \in 1..Len(d)}
      /\ \A i, j \in 1..Len(d) : d[i] = d[j] => i = j
      /\ Len(d) <= DplLength
      /\ sn \notin e.set
  BY DEF EntryType, DplAgreesIn, IsDuplicate
<1>2. CASE Full(e)
  <2>1. r = [e EXCEPT !.deque = Append(Tail(d), sn),
                      !.set = (e.set \ {Head(d)}) \cup {sn}]
    BY <1>2 DEF Remember, Evict, EntryType
  <2>2. Len(d) = DplLength /\ d # <<>>
    BY <1>1, <1>2 DEF Full
  <2>3. /\ Tail(d) \in Seq(SeqNo) /\ Len(Tail(d)) = Len(d) - 1
        /\ \A i \in 1..Len(Tail(d)) : Tail(d)[i] = d[i + 1]
        /\ Head(d) = d[1] /\ Head(d) \in SeqNo
    BY <1>1, <2>2
  <2> DEFINE a == r.deque
  <2>a. a = Append(Tail(d), sn)
    BY <2>1, <2>3 DEF EntryType
  <2>4. /\ a \in Seq(SeqNo) /\ Len(a) = Len(d)
        /\ \A i \in 1..(Len(d) - 1) : a[i] = d[i + 1]
        /\ a[Len(d)] = sn
    BY <2>2, <2>3, <2>a, <1>1
  <2>5. a = Tail(d \o <<sn>>) /\ Len(d \o <<sn>>) > DplLength
    <3>1. Append(Tail(d), sn) = Tail(d \o <<sn>>) /\ Len(d \o <<sn>>) > DplLength
      BY <2>2, <1>1
    <3> QED BY <3>1, <2>a
  <2>6. /\ r \in EntryType /\ r.tst = e.tst
        /\ r.set = (e.set \ {Head(d)}) \cup {sn}
    <3>1. (e.set \ {Head(d)}) \cup {sn} \in SUBSET SeqNo
      BY <1>1
    <3> QED BY <2>1, <2>4, <2>a, <3>1 DEF EntryType
  <2> HIDE DEF a, d, r
  <2>7. \A i, j \in 1..Len(a) : a[i] = a[j] => i = j
    <3> SUFFICES ASSUME NEW i \in 1..Len(a), NEW j \in 1..Len(a), a[i] = a[j]
                 PROVE  i = j
      OBVIOUS
    <3>1. \A k \in 1..(Len(d) - 1) : a[k] # sn
      BY <1>1, <2>4
    <3>2. Len(d) \in Nat
      BY <1>1
    <3>3. CASE i = Len(d) \/ j = Len(d)
      BY <3>1, <3>2, <3>3, <2>4
    <3>4. CASE i # Len(d) /\ j # Len(d)
      <4>1. i \in 1..(Len(d) - 1) /\ j \in 1..(Len(d) - 1)
        BY <3>2, <3>4, <2>4
      <4>2. d[i + 1] = d[j + 1] /\ i + 1 \in 1..Len(d) /\ j + 1 \in 1..Len(d)
        BY <4>1, <2>4, <3>2
      <4> QED BY <4>2, <4>1, <1>1
    <3> QED BY <3>3, <3>4
  <2>8. r.set = {a[i] : i \in 1..Len(a)}
    <3>1. Len(d) \in Nat \ {0}
      BY <1>1, <2>2
    <3>2. ASSUME NEW x \in r.set PROVE \E i \in 1..Len(a) : x = a[i]
      <4>1. CASE x = sn
        BY <4>1, <2>4, <3>1
      <4>2. CASE x # sn
        <5>1. PICK k \in 1..Len(d) : x = d[k]
          BY <4>2, <2>6, <1>1
        <5>2. k # 1
          BY <5>1, <4>2, <2>6, <2>3
        <5>3. k - 1 \in 1..(Len(d) - 1) /\ k - 1 \in 1..Len(a)
          BY <5>1, <5>2, <3>1, <2>4
        <5>4. (k - 1) + 1 = k
          BY <5>1
        <5> QED BY <5>1, <5>3, <5>4, <2>4
      <4> QED BY <4>1, <4>2
    <3>3. ASSUME NEW i \in 1..Len(a) PROVE a[i] \in r.set
      <4>1. CASE i = Len(d)
        BY <4>1, <2>4, <2>6
      <4>2. CASE i # Len(d)
        <5>1. i \in 1..(Len(d) - 1) /\ i + 1 \in 1..Len(d) /\ 1 \in 1..Len(d)
          BY <4>2, <2>4, <3>1
        <5>2. a[i] = d[i + 1] /\ d[i + 1] # d[1]
          BY <5>1, <2>4, <1>1
        <5> QED BY <5>1, <5>2, <2>3, <2>6, <1>1
      <4> QED BY <4>1, <4>2
    <3> QED BY <3>2, <3>3
  <2>9. DplAgreesIn(r)
    <3>1. Len(a) <= DplLength
      BY <2>2, <2>4
    <3> QED BY <2>7, <2>8, <3>1 DEF DplAgreesIn, a
  <2> QED BY <2>5, <2>6, <2>9 DEF LastOnes, a, d, r
<1>3. CASE ~Full(e)
  <2> DEFINE a == r.deque
  <2>1. r = [e EXCEPT !.deque = Append(d, sn), !.set = e.set \cup {sn}]
    BY <1>3 DEF Remember, Evict, EntryType
  <2>2. Len(d) < DplLength /\ Len(d) \in Nat
    BY <1>1, <1>3 DEF Full
  <2>a. a = Append(d, sn)
    BY <2>1 DEF EntryType
  <2>3. /\ a \in Seq(SeqNo) /\ Len(a) = Len(d) + 1
        /\ \A i \in 1..Len(d) : a[i] = d[i]
        /\ a[Len(d) + 1] = sn
    BY <1>1, <2>a
  <2>4. a = d \o <<sn>> /\ ~(Len(d \o <<sn>>) > DplLength)
    BY <1>1, <2>2, <2>a
  <2>5. /\ r \in EntryType /\ r.tst = e.tst
        /\ r.set = e.set \cup {sn}
    <3>1. e.set \cup {sn} \in SUBSET SeqNo
      BY <1>1
    <3> QED BY <2>1, <2>3, <2>a, <3>1 DEF EntryType
  <2> HIDE DEF a, d, r
  <2>6. \A i \in 1..Len(d) : a[i] # sn
    BY <1>1, <2>3
  <2>7. \A i, j \in 1..Len(a) : a[i] = a[j] => i = j
    <3> SUFFICES ASSUME NEW i \in 1..Len(a), NEW j \in 1..Len(a), a[i] = a[j]
                 PROVE  i = j
      OBVIOUS
    <3>1. \A k \in 1..Len(a) : k \in 1..Len(d) \/ k = Len(d) + 1
      BY <2>2, <2>3
    <3> QED BY <3>1, <2>6, <2>3, <1>1
  <2>8. r.set = {a[i] : i \in 1..Len(a)}
    <3>1. \A k \in 1..Len(a) : k \in 1..Len(d) \/ k = Len(d) + 1
      BY <2>2, <2>3
    <3>2. Len(d) + 1 \in 1..Len(a) /\ 1..Len(d) \subseteq 1..Len(a)
      BY <2>2, <2>3
    <3> QED BY <3>1, <3>2, <2>3, <2>5, <1>1
  <2>9. DplAgreesIn(r)
    <3>1. Len(a) <= DplLength
      BY <2>2, <2>3
    <3> QED BY <2>7, <2>8, <3>1 DEF DplAgreesIn, a
  <2> QED BY <2>4, <2>5, <2>9 DEF LastOnes, a, d, r
<1> QED BY <1>2, <1>3

LEMMA MovedOK ==
  ASSUME NEW e \in EntryType, DplAgreesIn(e), NEW t \in Instants
  PROVE  /\ Moved(e, t) \in EntryType /\ DplAgreesIn(Moved(e, t))
         /\ Moved(e, t).deque = e.deque
<1>1. t \in Nat /\ TstOf(t) \in Tst
  BY Euclid DEF Instants, Tst
<1>2. CASE ~Accepts(e, t)
  BY <1>2 DEF Moved
<1>3. CASE Accepts(e, t)
  <2> DEFINE m == [e EXCEPT !.tst = TstOf(t)]
  <2>1. m \in EntryType /\ m.deque = e.deque /\ m.set = e.set
    BY <1>1 DEF EntryType
  <2>2. DplAgreesIn(m)
    BY <2>1 DEF DplAgreesIn
  <2> QED BY <1>3, <2>1, <2>2 DEF Moved
<1> QED BY <1>2, <1>3

(* What a multi-hop packet makes of the entry, whatever its flag.          *)
HeardWell(e, s, sn, t) ==
  /\ e \in EntryType /\ DplAgreesIn(e)
  /\ e.tst = Moved(EntryOf(s), t).tst
  /\ e.deque = LastOnes(EntryOf(s).deque \o <<sn>>)

LEMMA RememberMoved ==
  ASSUME TableInv, NEW s \in Station, NEW sn \in SeqNo, NEW t \in Instants,
         ~IsDuplicate(EntryOf(s), sn)
  PROVE  HeardWell(Moved(Remember(EntryOf(s), sn), t), s, sn, t)
<1> DEFINE o == EntryOf(s)
           r == Remember(o, sn)
<1>1. o \in EntryType /\ DplAgreesIn(o)
  BY EntryOfOK
<1>2. /\ r \in EntryType /\ DplAgreesIn(r) /\ r.tst = o.tst
      /\ r.deque = LastOnes(o.deque \o <<sn>>)
  BY <1>1, RememberOK
<1> HIDE DEF o, r
<1>3. Moved(r, t).tst = Moved(o, t).tst
  BY <1>1, <1>2 DEF Moved, Accepts, EntryType
<1>4. /\ Moved(r, t) \in EntryType /\ DplAgreesIn(Moved(r, t))
      /\ Moved(r, t).deque = r.deque
  BY <1>2, MovedOK
<1> QED BY <1>2, <1>3, <1>4 DEF HeardWell, o, r

LEMMA ReceptionTable ==
  ASSUME TableInv, NEW s \in Station, NEW t \in Instants,
         NEW e \in EntryType, DplAgreesIn(e), NEW sns \in Seq(SeqNo),
         Update(s, e), Note(s, t, sns),
         clock' = clock
  PROVE  TableInv'
<1> DEFINE full == [x \in Present \cup {s} |-> IF x = s THEN e ELSE locT[x]]
<1>1. /\ locT' = [x \in {y \in Present \cup {s} : Fresh(full[y])} |-> full[x]]
      /\ Present \subseteq Station
      /\ \A x \in Present : locT[x] \in EntryType /\ DplAgreesIn(locT[x])
      /\ newest \in [Station -> Nat] /\ recent \in [Station -> Seq(SeqNo)]
      /\ settled \in [Station -> Nat]
      /\ clock \in Nat /\ t \in Nat
  BY DEF Update, Refreshed, TableInv, TypeOK, DplAgrees, Instants
<1>2. \A x \in DOMAIN locT' : /\ x \in Station
                              /\ locT'[x] \in EntryType /\ DplAgreesIn(locT'[x])
  BY <1>1
<1>3. locT' \in [DOMAIN locT' -> EntryType]
  BY <1>1, <1>2
<1>4. newest' \in [Station -> Nat] /\ settled' \in [Station -> Nat]
  BY <1>1 DEF Note, Later
<1>5. recent' \in [Station -> Seq(SeqNo)]
  <2>1. \A q \in Seq(SeqNo) : LastOnes(q \o sns) \in Seq(SeqNo)
    <3> SUFFICES ASSUME NEW q \in Seq(SeqNo)
                 PROVE  LastOnes(q \o sns) \in Seq(SeqNo)
      OBVIOUS
    <3> DEFINE c == q \o sns
    <3>1. c \in Seq(SeqNo)
      OBVIOUS
    <3> HIDE DEF c
    <3>2. Len(c) > DplLength => c # <<>>
      BY <3>1
    <3> QED BY <3>1, <3>2 DEF LastOnes, c
  <2>2. <<>> \in Seq(SeqNo)
    OBVIOUS
  <2> QED BY <1>1, <2>1, <2>2 DEF Note
<1>6. TypeOK'
  BY <1>1, <1>2, <1>3, <1>4, <1>5 DEF TypeOK, Present
<1>7. DplAgrees'
  BY <1>2 DEF DplAgrees, Present
<1> QED BY <1>6, <1>7 DEF TableInv

-----------------------------------------------------------------------------
(* The three receptions.                                                   *)
LEMMA ShbIsReception ==
  ASSUME TableInv, NEW s \in Station, NEW t \in Instants, NewShbPacket(s, t)
  PROVE  \E e \in EntryType :
           /\ DplAgreesIn(e) /\ e.tst = Moved(EntryOf(s), t).tst
           /\ e.deque = LastOnes(EntryOf(s).deque \o <<>>)
           /\ Update(s, e) /\ Note(s, t, <<>>)
           /\ clock' = clock
<1> DEFINE m == Moved(EntryOf(s), t)
           e == [m EXCEPT !.neighbour = TRUE]
<1>1. m \in EntryType /\ DplAgreesIn(m) /\ m.deque = EntryOf(s).deque
  BY MovedOK, EntryOfOK
<1>2. /\ e \in EntryType /\ e.tst = m.tst
      /\ e.deque = m.deque /\ e.set = m.set
  BY <1>1 DEF EntryType
<1>3. e.deque = LastOnes(EntryOf(s).deque \o <<>>)
  BY <1>1, <1>2 DEF LastOnes, EntryType, DplAgreesIn
<1>4. DplAgreesIn(e)
  BY <1>1, <1>2 DEF DplAgreesIn
<1>5. clock' = clock /\ Update(s, e) /\ Note(s, t, <<>>)
  BY DEF NewShbPacket
<1> HIDE DEF e
<1> QED BY <1>2, <1>3, <1>4, <1>5

LEMMA MultiHopIsReception ==
  ASSUME TableInv, NEW s \in Station, NEW t \in Instants, NEW sn \in SeqNo,
         NewMultiHopPacket(s, sn, t) \/ NewGbcPacket(s, sn, t)
  PROVE  \E e \in EntryType :
           /\ HeardWell(e, s, sn, t) /\ Update(s, e) /\ Note(s, t, <<sn>>)
           /\ clock' = clock
<1> DEFINE m == Moved(Remember(EntryOf(s), sn), t)
           f == [m EXCEPT !.neighbour = FALSE]
<1>1. HeardWell(m, s, sn, t)
  BY RememberMoved DEF NewMultiHopPacket, NewGbcPacket
<1>2. /\ f \in EntryType /\ f.tst = m.tst
      /\ f.deque = m.deque /\ f.set = m.set
  BY <1>1 DEF HeardWell, EntryType
<1>3. HeardWell(f, s, sn, t)
  BY <1>1, <1>2 DEF HeardWell, DplAgreesIn
<1>4. CASE NewMultiHopPacket(s, sn, t)
  <2>1. /\ clock' = clock /\ Update(s, m) /\ Note(s, t, <<sn>>)
    BY <1>4 DEF NewMultiHopPacket
  <2> HIDE DEF m
  <2> QED BY <1>1, <2>1 DEF HeardWell
<1>5. CASE NewGbcPacket(s, sn, t)
  <2>1. /\ clock' = clock /\ Update(s, f) /\ Note(s, t, <<sn>>)
    BY <1>5 DEF NewGbcPacket
  <2> HIDE DEF f
  <2> QED BY <1>2, <1>3, <2>1
<1> QED BY <1>4, <1>5

LEMMA ReceiveTable == ASSUME TableInv, Receive PROVE TableInv'
<1>1. ASSUME NEW s \in Station, NEW t \in Instants, NewShbPacket(s, t)
      PROVE  TableInv'
  <2>1. PICK e \in EntryType :
          /\ DplAgreesIn(e) /\ e.tst = Moved(EntryOf(s), t).tst
          /\ e.deque = LastOnes(EntryOf(s).deque \o <<>>)
          /\ Update(s, e) /\ Note(s, t, <<>>)
          /\ clock' = clock
    BY <1>1, ShbIsReception
  <2>2. <<>> \in Seq(SeqNo)
    OBVIOUS
  <2> QED BY <2>1, <2>2, ReceptionTable
<1>2. ASSUME NEW s \in Station, NEW t \in Instants, NEW sn \in SeqNo,
             NewMultiHopPacket(s, sn, t) \/ NewGbcPacket(s, sn, t)
      PROVE  TableInv'
  <2>1. PICK e \in EntryType :
          /\ HeardWell(e, s, sn, t) /\ Update(s, e) /\ Note(s, t, <<sn>>)
          /\ clock' = clock
    BY <1>2, MultiHopIsReception
  <2>2. <<sn>> \in Seq(SeqNo)
    OBVIOUS
  <2> QED BY <2>1, <2>2, ReceptionTable DEF HeardWell
<1> QED BY <1>1, <1>2 DEF Receive

LEMMA EnsureTable ==
  ASSUME TableInv, NEW s \in Station, EnsureEntry(s) PROVE TableInv'
<1>1. /\ s \notin Present /\ DOMAIN locT' = Present \cup {s}
      /\ locT'[s] = NewEntry
      /\ \A x \in Present : locT'[x] = locT[x]
      /\ UNCHANGED <<clock, newest, settled, recent>>
  BY DEF EnsureEntry, EntryOf
<1>2. locT' \in [DOMAIN locT' -> EntryType]
  BY <1>1, NewEntryOK DEF EnsureEntry, EntryOf, TableInv, TypeOK
<1>3. TypeOK'
  BY <1>1, <1>2 DEF TableInv, TypeOK, Present
<1>4. DplAgrees'
  BY <1>1, NewEntryOK DEF TableInv, DplAgrees, Present
<1> QED BY <1>3, <1>4 DEF TableInv

LEMMA TickTable == ASSUME TableInv, Tick \/ UNCHANGED vars PROVE TableInv'
BY DEF TableInv, TypeOK, DplAgrees, Present, Tick, vars

LEMMA TableInductive == Spec => []TableInv
<1>1. Init => TableInv
  BY DEF Init, TableInv, TypeOK, DplAgrees, Present
<1>2. TableInv /\ [Next]_vars => TableInv'
  BY ReceiveTable, EnsureTable, TickTable DEF Next
<1> QED BY <1>1, <1>2, PTL DEF Spec

(* The shape of the table and of its history, for every value of the       *)
(* constants: the clock cut to seconds and timestamp 0 included            *)
(* (LocationTable).                                                        *)
THEOREM TypeCorrect == Spec => []TypeOK
<1>1. TableInv => TypeOK
  BY DEF TableInv
<1> QED BY <1>1, TableInductive, PTL

(* The ring buffer and the set of the duplicate packet list always agree,  *)
(* for every list length and every value of the other constants            *)
(* (dpl_deque and dpl_set of LocationTableEntry).                          *)
THEOREM DplAlwaysAgrees == Spec => []DplAgrees
<1>1. TableInv => DplAgrees
  BY DEF TableInv
<1> QED BY <1>1, TableInductive, PTL

-----------------------------------------------------------------------------
(* What is heard of a station in the table and in the history, for         *)
(* positions never acquired when the timestamp is 0.                       *)
NoZero == ~ZeroTst
(* The behaviour spans less than half a period of the timestamp.           *)
Short == MaxClock - Start < Half

(* An instant that refresh_table takes to be older than the lifetime.      *)
Old(when) == when = 0 \/ LastSecond - when > Lifetime

HeardInv ==
  \A s \in Station : settled[s] # 0 =>
    /\ settled[s] \in Start..clock /\ settled[s] <= LastSecond
    /\ TstOf(settled[s]) # 0
ListedInv ==
  \A s \in Present : locT[s].tst # 0 =>
    settled[s] # 0 /\ locT[s].tst = TstOf(settled[s])
KeptInv ==
  \A s \in Station : ~Old(settled[s]) =>
    s \in Present /\ locT[s].tst = TstOf(settled[s])
RecentInv ==
  \A s \in Station :
    recent[s] = IF s \in Present THEN locT[s].deque ELSE <<>>
ClockInv == clock \in Nat /\ Start <= clock /\ clock - Start < Half

IInv == /\ TableInv /\ ClockInv /\ HeardInv /\ ListedInv /\ RecentInv
        /\ KeptInv

LEMMA HalfPositive == Half \in Nat /\ Half > 0 /\ 2 * Half = Wrap
BY WrapAssumption DEF Half

(* The last whole second is less than a second ago.                        *)
LEMMA SecondNear ==
  ASSUME clock \in Nat
  PROVE  LastSecond \in Nat /\ LastSecond <= clock /\ clock - LastSecond < Second
<1>1. /\ clock \div Second \in Nat /\ clock % Second \in 0..(Second - 1)
      /\ clock = Second * (clock \div Second) + (clock % Second)
  BY SMT
<1> DEFINE q == clock \div Second
<1>2. (clock \div Second) * Second = Second * q /\ Second * q \in Nat
  BY <1>1
<1> QED BY <1>1, <1>2 DEF LastSecond

(* It does not go back.                                                    *)
LEMMA SecondGrows ==
  ASSUME clock \in Nat, clock' = clock + 1
  PROVE  LastSecond <= LastSecond'
<1> DEFINE q == clock \div Second
           r == (clock + 1) \div Second
<1>1. /\ q \in Nat /\ clock % Second \in 0..(Second - 1)
      /\ clock = Second * q + (clock % Second)
  BY SMT
<1>2. /\ r \in Nat /\ (clock + 1) % Second \in 0..(Second - 1)
      /\ clock + 1 = Second * r + ((clock + 1) % Second)
  BY SMT
<1>3. LastSecond = q * Second /\ LastSecond' = r * Second
  BY DEF LastSecond
<1> HIDE DEF q, r
<1>4. r < q => r * Second + Second <= q * Second
  <2>1. r < q => (r + 1) * Second <= q * Second
    BY <1>1, <1>2
  <2>2. (r + 1) * Second = r * Second + Second
    BY <1>2
  <2> QED BY <2>1, <2>2
<1>5. q * Second \in Nat /\ r * Second \in Nat
      /\ Second * q = q * Second /\ Second * r = r * Second
  BY <1>1, <1>2
<1>6. r >= q
  BY <1>1, <1>2, <1>4, <1>5
<1>7. q * Second <= r * Second
  BY <1>1, <1>2, <1>6
<1> QED BY <1>3, <1>7

LEMMA EarlyExpired ==
  ASSUME ClockInv PROVE Expired(0)
BY DEF ClockInv, Expired

LEMMA OldExpired ==
  ASSUME ClockInv, NEW w \in Nat, Old(w) PROVE Expired(w)
BY SecondNear, EarlyExpired DEF ClockInv, Old, Expired

(* An entry whose position is from t is fresh exactly while t is settled   *)
(* and not old: a younger position looks older than the lifetime.          *)
LEMMA FreshIsYoung ==
  ASSUME ClockInv, NEW t \in Start..clock, NEW e, e.tst = TstOf(t)
  PROVE  Fresh(e) <=> t <= LastSecond /\ ~Old(t)
<1>1. /\ t \in Nat /\ t # 0 /\ t <= clock
      /\ clock - t < Half /\ clock \in Nat
  BY HalfPositive DEF ClockInv
<1>2. LastSecond \in Nat /\ LastSecond <= clock /\ clock - LastSecond < Second
  BY <1>1, SecondNear
<1>3. CASE t <= LastSecond
  <2>1. LastSecond - t < Wrap
    BY <1>1, <1>2, HalfPositive
  <2>2. TstMinus(TstOf(LastSecond), TstOf(t)) = LastSecond - t
    BY <1>1, <1>2, <1>3, <2>1, TstMinusIsAge
  <2> QED BY <1>1, <1>2, <1>3, <2>2 DEF Fresh, Old
<1>4. CASE LastSecond < t
  <2>1. LastSecond <= t /\ t - LastSecond < Second /\ t - LastSecond < Wrap
    BY <1>1, <1>2, <1>4, WrapAssumption
  <2>2. \/ t - LastSecond = TstOf(t) - TstOf(LastSecond)
        \/ t - LastSecond = TstOf(t) - TstOf(LastSecond) + Wrap
    BY <1>1, <1>2, <2>1, Periods
  <2>3. TstOf(t) \in 0..(Wrap - 1) /\ TstOf(LastSecond) \in 0..(Wrap - 1)
    BY <1>1, <1>2, Euclid
  <2>4. TstMinus(TstOf(LastSecond), TstOf(t)) = Wrap - (t - LastSecond)
    BY <1>1, <1>2, <1>4, <2>1, <2>2, <2>3, WrapAssumption DEF TstMinus
  <2>5. Wrap - (t - LastSecond) > Lifetime
    BY <1>1, <1>2, <2>1, WrapAssumption
  <2> QED BY <1>1, <1>2, <1>4, <2>4, <2>5, WrapAssumption DEF Fresh
<1> QED BY <1>1, <1>2, <1>3, <1>4

(* What one packet of station s does, with the position of instant t and   *)
(* the sequence numbers sns, none or one.                                  *)
LEMMA ReceptionKeeps ==
  ASSUME NoZero, IInv, NEW s \in Station, NEW t \in Instants,
         NEW e \in EntryType, DplAgreesIn(e), NEW sns \in Seq(SeqNo),
         e.tst = Moved(EntryOf(s), t).tst,
         e.deque = LastOnes(EntryOf(s).deque \o sns),
         Update(s, e), Note(s, t, sns),
         clock' = clock
  PROVE  /\ IInv'
         /\ \A x \in DOMAIN locT' : locT'[x].tst # 0 =>
              clock - settled'[x] < Lifetime + Second
<1> DEFINE old == EntryOf(s)
           full == [x \in Present \cup {s} |-> IF x = s THEN e ELSE locT[x]]
           n == Later(t, settled[s])
<1>1. /\ TypeOK /\ DplAgrees /\ ClockInv /\ HeardInv /\ ListedInv /\ RecentInv
      /\ KeptInv
  BY DEF IInv, TableInv
<1>a. LastSecond \in Nat /\ LastSecond <= clock /\ clock - LastSecond < Second
  BY <1>1, SecondNear DEF ClockInv
<1>b. LastSecond' = LastSecond
  BY DEF LastSecond
<1>2. t \in Start..clock /\ t \in Nat /\ t # 0 /\ TstOf(t) # 0
      /\ TstOf(t) \in Tst
  BY <1>1, Euclid DEF Instants, NoZero, ClockInv, Tst
<1>3. /\ locT' = [x \in {y \in Present \cup {s} : Fresh(full[y])} |-> full[x]]
      /\ Present \subseteq Station
      /\ \A x \in Present : locT[x] \in EntryType /\ DplAgreesIn(locT[x])
      /\ newest \in [Station -> Nat] /\ recent \in [Station -> Seq(SeqNo)]
      /\ settled \in [Station -> Nat]
  BY <1>1 DEF Update, Refreshed, TypeOK, DplAgrees
<1>c. /\ n \in Start..clock /\ n >= t /\ n >= settled[s] /\ TstOf(n) # 0
      /\ n = t \/ n = settled[s]
  BY <1>1, <1>2, <1>3 DEF Later, HeardInv, ClockInv
<1>4. /\ settled' \in [Station -> Nat]
      /\ settled'[s] = IF n <= LastSecond THEN n ELSE 0
      /\ \A x \in Station : x # s => settled'[x] = settled[x]
  BY <1>2, <1>3 DEF Note, Later
<1> HIDE DEF n
<1>5. \A x \in DOMAIN locT' : /\ x \in Station /\ locT'[x] = full[x]
                              /\ full[x] \in EntryType /\ DplAgreesIn(full[x])
                              /\ Fresh(full[x])
  BY <1>3
<1>6. HeardInv'
  BY <1>1, <1>2, <1>4, <1>b, <1>c DEF HeardInv
(* The entry of s: a listed position is only replaced by a later one, and  *)
(* one that is not listed is old.                                          *)
<1>7. e.tst = TstOf(n) \/ (e.tst = TstOf(t) /\ n = settled[s] /\ Old(n))
  <2>1. CASE old.tst = 0
    <3>1. e.tst = TstOf(t)
      <4>1. Moved(old, t) = [old EXCEPT !.tst = TstOf(t)] /\ old \in EntryType
        BY <2>1, EntryOfOK, <1>1 DEF Moved, Accepts, TableInv
      <4> QED BY <4>1 DEF EntryType
    <3>2. Old(settled[s])
      <4>1. CASE ~Old(settled[s])
        <5>1. s \in Present /\ locT[s].tst = TstOf(settled[s])
          BY <4>1, <1>1 DEF KeptInv
        <5>2. settled[s] # 0
          BY <4>1 DEF Old
        <5> QED BY <5>1, <5>2, <2>1, <1>1 DEF HeardInv, EntryOf
      <4> QED BY <4>1
    <3> QED BY <3>1, <3>2, <1>c
  <2>2. CASE old.tst # 0
    <3>1. s \in Present /\ old = locT[s]
      BY <2>2 DEF EntryOf, NewEntry
    <3>2. old.tst = TstOf(settled[s]) /\ settled[s] \in Start..clock
      BY <2>2, <3>1, <1>1 DEF ListedInv, HeardInv
    <3>3. /\ settled[s] \in Nat
          /\ settled[s] - t < Half /\ t - settled[s] < Half
      BY <3>2, <1>1, <1>2, HalfPositive DEF ClockInv
    <3>4. TstGt(TstOf(t), old.tst) <=> t > settled[s]
      BY <3>2, <3>3, <1>2, TstGtIsLater
    <3>5. e.tst = IF t > settled[s] THEN TstOf(t) ELSE old.tst
      <4>1. old \in EntryType
        BY EntryOfOK, <1>1 DEF TableInv
      <4>2. Accepts(old, t) <=> t > settled[s]
        BY <2>2, <3>4 DEF Accepts
      <4> QED BY <4>1, <4>2 DEF Moved, EntryType
    <3> QED BY <3>5, <3>2 DEF n, Later
  <2> QED BY <2>1, <2>2
<1>8. /\ Fresh(e) => ~Old(settled'[s]) /\ e.tst = TstOf(settled'[s])
      /\ ~Fresh(e) => Old(settled'[s])
  <2>1. CASE e.tst = TstOf(n)
    <3>1. Fresh(e) <=> n <= LastSecond /\ ~Old(n)
      BY <2>1, <1>1, <1>c, FreshIsYoung
    <3> QED BY <3>1, <2>1, <1>4 DEF Old
  <2>2. CASE e.tst = TstOf(t) /\ n = settled[s] /\ Old(n)
    <3>1. Fresh(e) <=> t <= LastSecond /\ ~Old(t)
      BY <2>2, <1>1, <1>2, FreshIsYoung
    <3>2. n # 0 /\ n <= LastSecond /\ n \in Nat /\ LastSecond - n > Lifetime
      BY <2>2, <1>1, <1>2, <1>3, <1>c DEF HeardInv, Old
    <3>3. Old(t) /\ Old(settled'[s])
      BY <3>2, <2>2, <1>2, <1>4, <1>a, <1>c DEF Old
    <3> QED BY <3>1, <3>3
  <2> QED BY <1>7, <2>1, <2>2
(* The entries of the others.                                              *)
<1>9. ASSUME NEW x \in Present, x # s
      PROVE  /\ ~Fresh(locT[x]) => Old(settled[x])
             /\ Fresh(locT[x]) /\ locT[x].tst # 0 => ~Old(settled[x])
  <2>1. CASE locT[x].tst = 0
    <3>1. CASE ~Old(settled[x])
      <4>1. settled[x] # 0 /\ locT[x].tst = TstOf(settled[x])
        BY <3>1, <1>1, <1>3 DEF KeptInv, Old
      <4> QED BY <4>1, <2>1, <1>1, <1>3 DEF HeardInv
    <3> QED BY <3>1, <2>1
  <2>2. CASE locT[x].tst # 0
    <3>1. /\ locT[x].tst = TstOf(settled[x]) /\ settled[x] \in Start..clock
          /\ settled[x] <= LastSecond
      BY <2>2, <1>1, <1>3 DEF ListedInv, HeardInv
    <3>2. Fresh(locT[x]) <=> settled[x] <= LastSecond /\ ~Old(settled[x])
      BY <3>1, <1>1, FreshIsYoung
    <3> QED BY <3>1, <3>2
  <2> QED BY <2>1, <2>2
<1>11. \A x \in DOMAIN locT' : locT'[x].tst # 0 =>
         ~Old(settled'[x]) /\ locT'[x].tst = TstOf(settled'[x])
  <2> SUFFICES ASSUME NEW x \in DOMAIN locT', locT'[x].tst # 0
               PROVE  ~Old(settled'[x]) /\ locT'[x].tst = TstOf(settled'[x])
    OBVIOUS
  <2>1. CASE x = s
    BY <2>1, <1>5, <1>8
  <2>2. CASE x # s
    <3>1. x \in Present /\ locT'[x] = locT[x] /\ Fresh(locT[x])
      BY <2>2, <1>3, <1>5
    <3> QED BY <3>1, <2>2, <1>9, <1>1, <1>4, <1>5 DEF ListedInv
  <2> QED BY <2>1, <2>2
<1>12. \A x \in Station : x \notin DOMAIN locT' => Old(settled'[x])
  <2> SUFFICES ASSUME NEW x \in Station, x \notin DOMAIN locT'
               PROVE  Old(settled'[x])
    OBVIOUS
  <2>1. CASE x = s
    BY <2>1, <1>3, <1>8
  <2>2. CASE x # s /\ x \in Present
    BY <2>2, <1>3, <1>4, <1>9
  <2>3. CASE x # s /\ x \notin Present
    BY <2>3, <1>1, <1>4 DEF KeptInv
  <2> QED BY <2>1, <2>2, <2>3
<1>13. ListedInv'
  BY <1>11 DEF ListedInv, Present, Old
<1>14. KeptInv'
  <2> SUFFICES ASSUME NEW x \in Station, ~Old(settled'[x])
               PROVE  x \in DOMAIN locT' /\ locT'[x].tst = TstOf(settled'[x])
    BY <1>b DEF KeptInv, Present, Old
  <2>1. x \in DOMAIN locT'
    BY <1>12
  <2>2. locT'[x].tst # 0
    <3>0. settled'[x] # 0 /\ TstOf(settled'[x]) # 0
      BY <1>6 DEF Old, HeardInv
    <3>1. CASE x = s
      <4>1. Fresh(e) /\ e = locT'[s]
        BY <3>1, <2>1, <1>5
      <4> QED BY <4>1, <3>0, <3>1, <1>8
    <3>2. CASE x # s
      <4>1. ~Old(settled[x]) /\ settled[x] = settled'[x]
        BY <3>2, <1>4
      <4>2. locT[x].tst = TstOf(settled[x]) /\ x \in Present
        BY <4>1, <1>1 DEF KeptInv
      <4> QED BY <4>1, <4>2, <3>0, <3>2, <2>1, <1>5
    <3> QED BY <3>1, <3>2
  <2> QED BY <2>1, <2>2, <1>11
<1>15. RecentInv' /\ recent' \in [Station -> Seq(SeqNo)]
  <2>1. old.deque = recent[s]
    BY <1>1 DEF RecentInv, EntryOf, NewEntry
  <2>0. \A x \in Station : x \notin DOMAIN locT' => Expired(settled'[x])
    BY <1>1, <1>4, <1>12, OldExpired
  <2>2. recent' = [x \in Station |->
          IF x \notin DOMAIN locT' THEN <<>>
          ELSE IF x = s THEN e.deque ELSE recent[x]]
    BY <2>0, <2>1 DEF Note
  <2>3. \A x \in DOMAIN locT' : x # s =>
          x \in Present /\ locT'[x] = locT[x] /\ recent[x] = locT[x].deque
    BY <1>1, <1>3, <1>5 DEF RecentInv
  <2>4. RecentInv'
    BY <2>2, <2>3, <1>5 DEF RecentInv, Present
  <2>5. e.deque \in Seq(SeqNo) /\ <<>> \in Seq(SeqNo)
    BY DEF EntryType
  <2> QED BY <2>2, <2>4, <2>5, <1>3
<1>16. TableInv'
  BY ReceptionTable DEF IInv
<1>17. ClockInv'
  BY <1>1 DEF ClockInv
<1>18. \A x \in DOMAIN locT' : locT'[x].tst # 0 =>
         clock - settled'[x] < Lifetime + Second
  <2> SUFFICES ASSUME NEW x \in DOMAIN locT', locT'[x].tst # 0
               PROVE  clock - settled'[x] < Lifetime + Second
    OBVIOUS
  <2>1. ~Old(settled'[x]) /\ settled'[x] \in Nat
    BY <1>4, <1>5, <1>11
  <2> QED BY <2>1, <1>1, <1>a DEF Old, ClockInv
<1> QED BY <1>6, <1>13, <1>14, <1>15, <1>16, <1>17, <1>18 DEF IInv

-----------------------------------------------------------------------------
LEMMA InitHolds == ASSUME Init PROVE IInv
<1>1. Start \in Nat /\ Lifetime < Start /\ Start - Start < Half
  BY HalfPositive
<1>2. TypeOK
  BY <1>1 DEF Init, TypeOK, Present
<1>3. ClockInv /\ HeardInv
  BY <1>1 DEF Init, ClockInv, HeardInv
<1> QED BY <1>1, <1>2, <1>3
        DEF Init, IInv, TableInv, DplAgrees, ListedInv, RecentInv,
            KeptInv, Old, Present

LEMMA ReceiveKeeps ==
  ASSUME NoZero, IInv, Receive
  PROVE  /\ IInv'
         /\ \A x \in DOMAIN locT' : locT'[x].tst # 0 =>
              clock - settled'[x] < Lifetime + Second
<1> DEFINE Goal ==
      /\ IInv'
      /\ \A x \in DOMAIN locT' : locT'[x].tst # 0 =>
           clock - settled'[x] < Lifetime + Second
<1> HIDE DEF Goal
<1>1. ASSUME NEW s \in Station, NEW t \in Instants, NewShbPacket(s, t)
      PROVE  Goal
  <2>1. PICK e \in EntryType :
          /\ DplAgreesIn(e) /\ e.tst = Moved(EntryOf(s), t).tst
          /\ e.deque = LastOnes(EntryOf(s).deque \o <<>>)
          /\ Update(s, e) /\ Note(s, t, <<>>)
          /\ clock' = clock
    BY <1>1, ShbIsReception DEF IInv
  <2>2. <<>> \in Seq(SeqNo)
    OBVIOUS
  <2> QED BY <2>1, <2>2, ReceptionKeeps DEF Goal
<1>2. ASSUME NEW s \in Station, NEW t \in Instants, NEW sn \in SeqNo,
             NewMultiHopPacket(s, sn, t) \/ NewGbcPacket(s, sn, t)
      PROVE  Goal
  <2>1. PICK e \in EntryType :
          /\ HeardWell(e, s, sn, t) /\ Update(s, e) /\ Note(s, t, <<sn>>)
          /\ clock' = clock
    BY <1>2, MultiHopIsReception DEF IInv
  <2>2. <<sn>> \in Seq(SeqNo)
    OBVIOUS
  <2> QED BY <2>1, <2>2, ReceptionKeeps DEF HeardWell, Goal
<1>3. Goal
  BY <1>1, <1>2 DEF Receive
<1> QED BY <1>3 DEF Goal

LEMMA TickKeeps == ASSUME Short, IInv, Tick PROVE IInv'
<1>1. ClockInv'
  BY HalfPositive DEF IInv, ClockInv, Tick, Short
<1>2. TableInv'
  BY TickTable DEF IInv
<1>a. /\ LastSecond \in Nat /\ LastSecond' \in Nat /\ LastSecond <= LastSecond'
      /\ clock \in Nat /\ clock' = clock + 1
      /\ settled \in [Station -> Nat] /\ settled' = settled
  <2>1. clock \in Nat /\ clock' = clock + 1 /\ clock + 1 \in Nat
    BY DEF IInv, ClockInv, Tick
  <2>2. (clock \in Nat => LastSecond \in Nat)'
    BY SecondNear, PTL
  <2> QED BY <2>1, <2>2, SecondNear, SecondGrows
          DEF IInv, TableInv, TypeOK, Tick
<1>3. HeardInv'
  BY <1>a DEF IInv, ClockInv, HeardInv, Tick
<1>4. ListedInv' /\ RecentInv'
  BY DEF IInv, ListedInv, RecentInv, Present, Tick
<1>5. KeptInv'
  <2>1. \A s \in Station : Old(settled[s]) => Old(settled[s])'
    BY <1>a DEF Old
  <2> QED BY <2>1 DEF IInv, KeptInv, Present, Tick
<1> QED BY <1>1, <1>2, <1>3, <1>4, <1>5 DEF IInv

LEMMA EnsureKeeps == ASSUME IInv, NEW s \in Station, EnsureEntry(s) PROVE IInv'
<1>1. /\ s \notin Present /\ DOMAIN locT' = Present \cup {s}
      /\ locT'[s] = NewEntry
      /\ \A x \in Present : locT'[x] = locT[x]
      /\ UNCHANGED <<clock, newest, settled, recent>>
  BY DEF EnsureEntry, EntryOf
<1>2. TableInv'
  BY EnsureTable DEF IInv
<1>3. ClockInv' /\ HeardInv'
  BY <1>1 DEF IInv, ClockInv, HeardInv, LastSecond
<1>4. ListedInv' /\ RecentInv'
  BY <1>1 DEF IInv, ListedInv, RecentInv, Present, NewEntry
<1>5. KeptInv'
  BY <1>1 DEF IInv, KeptInv, Present, Old, LastSecond
<1> QED BY <1>2, <1>3, <1>4, <1>5 DEF IInv

LEMMA StutterKeeps == ASSUME IInv, UNCHANGED vars PROVE IInv'
<1>1. /\ TypeOK' /\ DplAgrees' /\ ClockInv' /\ HeardInv' /\ ListedInv'
      /\ RecentInv'
  BY DEF IInv, TableInv, TypeOK, DplAgrees, ClockInv, HeardInv, ListedInv,
         RecentInv, Present, LastSecond, vars
<1>2. KeptInv'
  BY DEF IInv, KeptInv, Present, Old, LastSecond, vars
<1> QED BY <1>1, <1>2 DEF IInv, TableInv

LEMMA Inductive == ASSUME NoZero, Short PROVE Spec => []IInv
<1>1. IInv /\ [Next]_vars => IInv'
  BY ReceiveKeeps, TickKeeps, EnsureKeeps, StutterKeeps DEF Next
<1> QED BY <1>1, InitHolds, PTL DEF Spec

(* The newest unexpired position heard from a station since it was last    *)
(* dropped for one younger than the last whole second is the one in the    *)
(* table, for any number of stations, any length of a second and of a      *)
(* lifetime and any period of the timestamp, when no position is of        *)
(* timestamp 0 and the behaviour is shorter than half a period             *)
(* (update_position_vector, refresh_table).                                *)
THEOREM SettledKept == ASSUME NoZero, Short PROVE Spec => []SettledIsListed
<1>1. IInv => SettledIsListed
  BY OldExpired DEF IInv, TableInv, TypeOK, KeptInv, SettledIsListed
<1> QED BY <1>1, Inductive, PTL

(* Under the same conditions no sequence number is accepted twice among    *)
(* the last itsGnDPLLength ones of a station since it was last dropped,    *)
(* expired or too young (check_duplicate_sn, refresh_table).               *)
THEOREM AcceptedOnceOnly == ASSUME NoZero, Short PROVE Spec => []AcceptedOnce
<1>1. IInv => AcceptedOnce
  <2> SUFFICES ASSUME IInv, NEW s \in Station
               PROVE  \A i, j \in 1..Len(recent[s]) :
                        recent[s][i] = recent[s][j] => i = j
    BY DEF AcceptedOnce
  <2>1. CASE s \in Present
    <3>1. recent[s] = locT[s].deque /\ DplAgreesIn(locT[s])
      BY <2>1 DEF IInv, RecentInv, TableInv, DplAgrees
    <3> QED BY <3>1 DEF DplAgreesIn
  <2>2. CASE s \notin Present
    <3>1. recent[s] = <<>> /\ Len(<<>>) = 0
      BY <2>2 DEF IInv, RecentInv
    <3> QED BY <3>1
  <2> QED BY <2>1, <2>2
<1> QED BY <1>1, Inductive, PTL

(* Under the same conditions a packet leaves no station listed whose       *)
(* position expired a second ago or longer (refresh_table).                *)
THEOREM ExpiredDropped == ASSUME NoZero, Short PROVE Spec => ReceptionDropsExpired
<1>1. IInv /\ [Next]_vars =>
        [Receive => \A s \in DOMAIN locT' :
           locT'[s].tst # 0 => clock - settled'[s] < Lifetime + Second]_vars
  BY ReceiveKeeps
<1> QED BY <1>1, Inductive, PTL DEF Spec, ReceptionDropsExpired
=============================================================================
