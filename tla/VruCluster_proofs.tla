------------------------- MODULE VruCluster_proofs -------------------------
(***************************************************************************)
(* Proofs about VruCluster: the managers keep their shape and agree with   *)
(* themselves, a passive station is silent, and if all VAMs arrive a       *)
(* leader knows its members.  Each operation of the manager preserves a    *)
(* predicate on one manager; the steps of the system follow because a step *)
(* changes every manager by one operation.                                 *)
(***************************************************************************)
EXTENDS ClusterServices, TLAPS

(* What is true of every manager.  While a leave is being announced the    *)
(* announcement is at least as old as a join begun after it, and so it has *)
(* ended when the join stops being announced.                              *)
Sound(m) ==
  /\ m \in Manager
  /\ m.state = "leader" <=> m.cluster # None
  /\ m.state = "passive" <=> m.join = "joined"
  /\ m.state = "passive" => m.joined # None /\ m.leader # None /\ m.beat # Never
  /\ m.join \in {"notify", "waiting"} => m.joinAge # Never /\ m.target # None
  /\ m.join \in {"cancelled", "failed"} => m.quitAge # Never
  /\ m.leaving => m.leaveAge # Never
  /\ m.leaving => m.join \notin {"waiting", "joined"}
  /\ m.leaving /\ m.join = "notify"
       => m.leaveAge = LeaveNotify \/ m.leaveAge >= m.joinAge

AllSound == \A s \in Station : Sound(mgr[s])

USE IdAssumption, StationAssumption

LEMMA Ages ==
  /\ Never \notin Nat
  /\ JoinNotify \in Nat /\ LeaveNotify \in Nat /\ LeaveNotify <= JoinNotify
  /\ 0 \in Age(JoinNotify) /\ 0 \in Age(LeaveNotify)
  /\ 0 \in Age(Warning) /\ 0 \in Age(Continuity)
  /\ Never \in Age(JoinNotify) /\ Never \in Age(LeaveNotify)
  /\ Never \in Age(Warning) /\ Never \in Age(Continuity)
  BY TimeAssumption DEF Age

LEMMA FreshSound == Sound(Fresh)
  BY DEF Sound, Fresh, Manager, Age, Id

LEMMA RoleOnSound ==
  ASSUME NEW m, Sound(m), m.state = "idle"
  PROVE Sound([m EXCEPT !.state = "standalone"])
  BY DEF Sound, Manager

LEMMA RoleOffSound ==
  ASSUME NEW m, Sound(m)
  PROVE Sound(RoleOff(m))
<1>1. m \in Manager
  BY DEF Sound
<1>2. RoleOff(m) \in Manager
  BY <1>1, Ages DEF Manager, RoleOff
<1>3. /\ RoleOff(m).state = "idle" /\ RoleOff(m).cluster = None
      /\ RoleOff(m).joined = None /\ RoleOff(m).leader = None
      /\ RoleOff(m).beat = Never /\ RoleOff(m).join = "none"
      /\ RoleOff(m).leaving = FALSE /\ RoleOff(m).target = m.target
      /\ RoleOff(m).joinAge = m.joinAge /\ RoleOff(m).quitAge = m.quitAge
      /\ RoleOff(m).leaveAge = m.leaveAge
  BY <1>1 DEF Manager, RoleOff
<1>4. QED
  BY <1>2, <1>3, Ages DEF Sound, Manager, Age, Id

LEMMA CreatedSound ==
  ASSUME NEW m, Sound(m), m.state = "standalone",
         NEW id \in Id, NEW seen \in SUBSET m.seen
  PROVE Sound(Created(m, id, seen))
<1>1. m \in Manager
  BY DEF Sound
<1>2. Created(m, id, seen) \in Manager
  BY <1>1, Ages DEF Manager, Created
<1>3. /\ Created(m, id, seen).state = "leader" /\ Created(m, id, seen).cluster = id
      /\ Created(m, id, seen).joined = m.joined /\ Created(m, id, seen).leader = m.leader
      /\ Created(m, id, seen).beat = m.beat /\ Created(m, id, seen).join = m.join
      /\ Created(m, id, seen).target = m.target /\ Created(m, id, seen).joinAge = m.joinAge
      /\ Created(m, id, seen).quitAge = m.quitAge /\ Created(m, id, seen).leaving = m.leaving
      /\ Created(m, id, seen).leaveAge = m.leaveAge
  BY <1>1 DEF Manager, Created
<1>4. QED
  BY <1>2, <1>3, Ages DEF Sound, Manager, Age, Id

LEMMA JoiningSound ==
  ASSUME NEW m, Sound(m), m.join = "none", m.state = "standalone",
         NEW id \in m.seen
  PROVE Sound(Joining(m, id))
<1>1. m \in Manager
  BY DEF Sound
<1>2. Joining(m, id) \in Manager
  BY <1>1, Ages DEF Manager, Joining
<1>3. /\ Joining(m, id).join = "notify" /\ Joining(m, id).target = id
      /\ Joining(m, id).joinAge = 0 /\ Joining(m, id).state = m.state
      /\ Joining(m, id).cluster = m.cluster /\ Joining(m, id).joined = m.joined
      /\ Joining(m, id).leader = m.leader /\ Joining(m, id).beat = m.beat
      /\ Joining(m, id).quitAge = m.quitAge /\ Joining(m, id).leaving = m.leaving
      /\ Joining(m, id).leaveAge = m.leaveAge
  BY <1>1 DEF Manager, Joining
<1>4. QED
  BY <1>2, <1>3, Ages DEF Sound, Manager, Age, Id

LEMMA AbandonedSound ==
  ASSUME NEW m, Sound(m), m.join \in {"notify", "waiting"},
         NEW how \in {"cancelled", "failed"}
  PROVE Sound(Abandoned(m, how))
<1>1. m \in Manager
  BY DEF Sound
<1>2. Abandoned(m, how) \in Manager
  BY <1>1, Ages DEF Manager, Abandoned
<1>3. /\ Abandoned(m, how).join = how /\ Abandoned(m, how).quitAge = 0
      /\ Abandoned(m, how).state = m.state /\ Abandoned(m, how).cluster = m.cluster
      /\ Abandoned(m, how).joined = m.joined /\ Abandoned(m, how).leader = m.leader
      /\ Abandoned(m, how).beat = m.beat /\ Abandoned(m, how).target = m.target
      /\ Abandoned(m, how).joinAge = m.joinAge /\ Abandoned(m, how).leaving = m.leaving
      /\ Abandoned(m, how).leaveAge = m.leaveAge
  BY <1>1 DEF Manager, Abandoned
<1>4. QED
  BY <1>2, <1>3, Ages DEF Sound, Manager, Age, Id

LEMMA LeftSound ==
  ASSUME NEW m, Sound(m), m.state = "passive"
  PROVE Sound(Left(m))
<1>1. m \in Manager
  BY DEF Sound
<1>2. Left(m) \in Manager
  BY <1>1, Ages DEF Manager, Left
<1>3. /\ Left(m).state = "standalone" /\ Left(m).joined = None
      /\ Left(m).leader = None /\ Left(m).beat = Never
      /\ Left(m).join = "none" /\ Left(m).target = None
      /\ Left(m).leaving = TRUE /\ Left(m).leaveAge = 0
      /\ Left(m).cluster = m.cluster /\ Left(m).joinAge = m.joinAge
      /\ Left(m).quitAge = m.quitAge
  BY <1>1 DEF Manager, Left
<1>4. QED
  BY <1>2, <1>3, Ages DEF Sound, Manager, Age, Id

LEMMA WarnedSound ==
  ASSUME NEW m, Sound(m), NEW cpm \in BOOLEAN
  PROVE Sound(Warned(m, cpm))
<1>1. m \in Manager
  BY DEF Sound
<1>2. Warned(m, cpm) \in Manager
  BY <1>1, Ages DEF Manager, Warned
<1>3. /\ Warned(m, cpm).state = m.state /\ Warned(m, cpm).cluster = m.cluster
      /\ Warned(m, cpm).joined = m.joined /\ Warned(m, cpm).leader = m.leader
      /\ Warned(m, cpm).beat = m.beat /\ Warned(m, cpm).join = m.join
      /\ Warned(m, cpm).target = m.target /\ Warned(m, cpm).joinAge = m.joinAge
      /\ Warned(m, cpm).quitAge = m.quitAge /\ Warned(m, cpm).leaving = m.leaving
      /\ Warned(m, cpm).leaveAge = m.leaveAge
  BY <1>1 DEF Manager, Warned
<1>4. QED
  BY <1>2, <1>3, Ages DEF Sound, Manager, Age, Id

-----------------------------------------------------------------------------
(* update() *)

(* Between the two halves of _update_standalone a join may be waiting      *)
(* although a leave is announced, if that announcement ends.               *)
NearlySound(m) ==
  /\ m \in Manager
  /\ m.state = "leader" <=> m.cluster # None
  /\ m.state = "passive" <=> m.join = "joined"
  /\ m.state = "passive" => m.joined # None /\ m.leader # None /\ m.beat # Never
  /\ m.join \in {"notify", "waiting"} => m.joinAge # Never /\ m.target # None
  /\ m.join \in {"cancelled", "failed"} => m.quitAge # Never
  /\ m.leaving => m.leaveAge # Never
  /\ m.leaving => m.join # "joined"
  /\ m.leaving /\ m.join = "waiting" => m.leaveAge = LeaveNotify
  /\ m.leaving /\ m.join = "notify"
       => m.leaveAge = LeaveNotify \/ m.leaveAge >= m.joinAge

LEMMA SoundIsNearly ==
  ASSUME NEW m, Sound(m) PROVE NearlySound(m)
  BY DEF Sound, NearlySound

Waiting(m) == [m EXCEPT !.join = "waiting", !.joinAge = 0]
Resumed(m) == [m EXCEPT !.join = "none", !.target = None, !.quitAge = Never]
Told(m) == [m EXCEPT !.leaving = FALSE, !.left = None, !.leaveAge = Never]
Dissolved(m) == [m EXCEPT !.cluster = None, !.members = {}, !.warning = Never,
                          !.cpm = FALSE, !.state = "standalone"]

LEMMA WaitingNearly ==
  ASSUME NEW m, Sound(m), m.state = "standalone",
         m.join = "notify", m.joinAge >= JoinNotify
  PROVE NearlySound(Waiting(m))
<1>1. m \in Manager
  BY DEF Sound
<1>2. Waiting(m) \in Manager
  BY <1>1, Ages DEF Manager, Waiting
<1>3. /\ Waiting(m).join = "waiting" /\ Waiting(m).joinAge = 0
      /\ Waiting(m).state = m.state /\ Waiting(m).cluster = m.cluster
      /\ Waiting(m).joined = m.joined /\ Waiting(m).leader = m.leader
      /\ Waiting(m).beat = m.beat /\ Waiting(m).target = m.target
      /\ Waiting(m).quitAge = m.quitAge /\ Waiting(m).leaving = m.leaving
      /\ Waiting(m).leaveAge = m.leaveAge
  BY <1>1 DEF Manager, Waiting
<1>4. QED
  BY <1>2, <1>3, Ages DEF Sound, NearlySound, Manager, Age, Id

LEMMA ResumedSound ==
  ASSUME NEW m, Sound(m), m.join \in {"cancelled", "failed"}
  PROVE Sound(Resumed(m))
<1>1. m \in Manager
  BY DEF Sound
<1>2. Resumed(m) \in Manager
  BY <1>1, Ages DEF Manager, Resumed
<1>3. /\ Resumed(m).join = "none" /\ Resumed(m).target = None
      /\ Resumed(m).quitAge = Never /\ Resumed(m).state = m.state
      /\ Resumed(m).cluster = m.cluster /\ Resumed(m).joined = m.joined
      /\ Resumed(m).leader = m.leader /\ Resumed(m).beat = m.beat
      /\ Resumed(m).joinAge = m.joinAge /\ Resumed(m).leaving = m.leaving
      /\ Resumed(m).leaveAge = m.leaveAge
  BY <1>1 DEF Manager, Resumed
<1>4. QED
  BY <1>2, <1>3, Ages DEF Sound, Manager, Age, Id

LEMMA ToldSound ==
  ASSUME NEW m, NearlySound(m), m.leaveAge = LeaveNotify
  PROVE Sound(Told(m))
<1>1. m \in Manager
  BY DEF NearlySound
<1>2. Told(m) \in Manager
  BY <1>1, Ages, ZenonT(60) DEF Manager, Told
<1>3. /\ Told(m).leaving = FALSE /\ Told(m).leaveAge = Never
      /\ Told(m).state = m.state /\ Told(m).cluster = m.cluster
      /\ Told(m).joined = m.joined /\ Told(m).leader = m.leader
      /\ Told(m).beat = m.beat /\ Told(m).join = m.join
      /\ Told(m).target = m.target /\ Told(m).joinAge = m.joinAge
      /\ Told(m).quitAge = m.quitAge
  BY <1>1 DEF Manager, Told
<1>4. QED
  BY <1>2, <1>3, Ages DEF Sound, NearlySound, Manager, Age, Id

LEMMA DissolvedSound ==
  ASSUME NEW m, Sound(m), m.state = "leader"
  PROVE Sound(Dissolved(m))
<1>1. m \in Manager
  BY DEF Sound
<1>2. Dissolved(m) \in Manager
  BY <1>1, Ages DEF Manager, Dissolved
<1>3. /\ Dissolved(m).cluster = None /\ Dissolved(m).state = "standalone"
      /\ Dissolved(m).joined = m.joined /\ Dissolved(m).leader = m.leader
      /\ Dissolved(m).beat = m.beat /\ Dissolved(m).join = m.join
      /\ Dissolved(m).target = m.target /\ Dissolved(m).joinAge = m.joinAge
      /\ Dissolved(m).quitAge = m.quitAge /\ Dissolved(m).leaving = m.leaving
      /\ Dissolved(m).leaveAge = m.leaveAge
  BY <1>1 DEF Manager, Dissolved
<1>4. QED
  BY <1>2, <1>3, Ages DEF Sound, Manager, Age, Id

LEMMA JoinUpdatedNearly ==
  ASSUME NEW m, Sound(m), m.state = "standalone"
  PROVE NearlySound(JoinUpdated(m)) /\ JoinUpdated(m).state = "standalone"
<1>1. CASE m.join = "notify" /\ m.joinAge >= JoinNotify
  <2>1. JoinUpdated(m) = Waiting(m)
    BY <1>1 DEF JoinUpdated, Waiting
  <2>2. Waiting(m).state = "standalone"
    BY DEF Waiting, Sound, Manager
  <2>3. QED
    BY <1>1, <2>1, <2>2, WaitingNearly
<1>2. CASE m.join = "waiting" /\ m.joinAge >= JoinSuccess
  <2>1. JoinUpdated(m) = Abandoned(m, "failed")
    BY <1>2 DEF JoinUpdated, GivenUp
  <2>2. Abandoned(m, "failed").state = "standalone"
    BY DEF Abandoned, Sound, Manager
  <2>3. QED
    BY <1>2, <2>1, <2>2, AbandonedSound, SoundIsNearly
<1>3. CASE m.join \in {"cancelled", "failed"} /\ m.quitAge >= LeaveNotify
  <2>1. JoinUpdated(m) = Resumed(m)
    BY <1>3 DEF JoinUpdated, Resumed
  <2>2. Resumed(m).state = "standalone"
    BY DEF Resumed, Sound, Manager
  <2>3. QED
    BY <1>3, <2>1, <2>2, ResumedSound, SoundIsNearly
<1>4. CASE JoinUpdated(m) = m
  BY <1>4, SoundIsNearly
<1>5. QED
  BY <1>1, <1>2, <1>3, <1>4 DEF JoinUpdated, GivenUp

LEMMA LeaveUpdatedSound ==
  ASSUME NEW m, NearlySound(m)
  PROVE Sound(LeaveUpdated(m))
<1>1. m.leaving => m.leaveAge \in 0..LeaveNotify
  BY DEF NearlySound, Manager, Age
<1>2. CASE m.leaving /\ m.leaveAge >= LeaveNotify
  <2>1. m.leaveAge = LeaveNotify
    BY <1>1, <1>2, Ages
  <2>2. LeaveUpdated(m) = Told(m)
    BY <1>2 DEF LeaveUpdated, Told
  <2>3. QED
    BY <2>1, <2>2, ToldSound
<1>3. CASE ~(m.leaving /\ m.leaveAge >= LeaveNotify)
  <2>1. LeaveUpdated(m) = m
    BY <1>3 DEF LeaveUpdated
  <2>2. Sound(m)
    BY <1>1, <1>3, Ages DEF Sound, NearlySound
  <2>3. QED
    BY <2>1, <2>2
<1>4. QED
  BY <1>2, <1>3

LEMMA PassiveUpdatedSound ==
  ASSUME NEW m, Sound(m), m.state = "passive"
  PROVE Sound(PassiveUpdated(m))
  BY LeftSound, LeaveUpdatedSound, SoundIsNearly DEF PassiveUpdated

LEMMA LeaderUpdatedSound ==
  ASSUME NEW m, Sound(m), m.state = "leader"
  PROVE Sound(LeaderUpdated(m))
  BY DissolvedSound DEF LeaderUpdated, Dissolved

Forgotten(m, gone) == [m EXCEPT !.near = @ \ gone]

LEMMA ForgottenSound ==
  ASSUME NEW m, Sound(m), NEW gone
  PROVE Sound(Forgotten(m, gone))
<1>1. m \in Manager
  BY DEF Sound
<1>2. Forgotten(m, gone) \in Manager
  BY <1>1, Ages DEF Manager, Forgotten
<1>3. /\ Forgotten(m, gone).state = m.state /\ Forgotten(m, gone).cluster = m.cluster
      /\ Forgotten(m, gone).joined = m.joined /\ Forgotten(m, gone).leader = m.leader
      /\ Forgotten(m, gone).beat = m.beat /\ Forgotten(m, gone).join = m.join
      /\ Forgotten(m, gone).target = m.target /\ Forgotten(m, gone).joinAge = m.joinAge
      /\ Forgotten(m, gone).quitAge = m.quitAge /\ Forgotten(m, gone).leaving = m.leaving
      /\ Forgotten(m, gone).leaveAge = m.leaveAge
  BY <1>1 DEF Manager, Forgotten
<1>4. QED
  BY <1>2, <1>3, Ages DEF Sound, Manager, Age, Id

LEMMA UpdatedSound ==
  ASSUME NEW m, Sound(m), NEW gone
  PROVE Sound(Updated(m, gone))
<1>1. Sound(Forgotten(m, gone))
  BY ForgottenSound
<1>2. Sound(LeaveUpdated(JoinUpdated(Forgotten(m, gone))))
      \/ Forgotten(m, gone).state # "standalone"
  BY <1>1, JoinUpdatedNearly, LeaveUpdatedSound
<1>3. Sound(LeaderUpdated(Forgotten(m, gone)))
      \/ Forgotten(m, gone).state # "leader"
  BY <1>1, LeaderUpdatedSound
<1>4. Sound(PassiveUpdated(Forgotten(m, gone)))
      \/ Forgotten(m, gone).state # "passive"
  BY <1>1, PassiveUpdatedSound
<1>5. Updated(m, gone) =
       LET n == Forgotten(m, gone)
       IN CASE n.state = "standalone" -> LeaveUpdated(JoinUpdated(n))
            [] n.state = "leader" -> LeaderUpdated(n)
            [] n.state = "passive" -> PassiveUpdated(n)
            [] OTHER -> n
  BY DEF Updated, Forgotten
<1>6. QED
  BY <1>1, <1>2, <1>3, <1>4, <1>5

-----------------------------------------------------------------------------
(* on_received_vam() *)

LEMMA NotedSound ==
  ASSUME NEW m, Sound(m), NEW vam \in VAM
  PROVE Sound(Noted(m, vam))
<1>1. m \in Manager /\ vam.from \in Station /\ vam.info \in Id \cup {None}
  BY DEF Sound, VAM
<1>2. Noted(m, vam) \in Manager
  <2>1. {vam.info} \ {None} \subseteq 0..MaxId
    BY <1>1 DEF Id
  <2>2. m.near \cup {vam.from} \in SUBSET Station
    BY <1>1 DEF Manager
  <2>3. m.seen \cup ({vam.info} \ {None}) \in SUBSET (0..MaxId)
    BY <1>1, <2>1 DEF Manager
  <2>4. QED
    BY <1>1, <2>2, <2>3 DEF Manager, Noted
<1>3. /\ Noted(m, vam).state = m.state /\ Noted(m, vam).cluster = m.cluster
      /\ Noted(m, vam).joined = m.joined /\ Noted(m, vam).leader = m.leader
      /\ Noted(m, vam).beat = m.beat /\ Noted(m, vam).join = m.join
      /\ Noted(m, vam).target = m.target /\ Noted(m, vam).joinAge = m.joinAge
      /\ Noted(m, vam).quitAge = m.quitAge /\ Noted(m, vam).leaving = m.leaving
      /\ Noted(m, vam).leaveAge = m.leaveAge
  BY <1>1 DEF Manager, Noted
<1>4. QED
  BY <1>2, <1>3, Ages DEF Sound, Manager, Age, Id

Member(m, vam) ==
  [m EXCEPT !.join = "joined", !.joined = m.target,
            !.leader = vam.from, !.beat = 0, !.state = "passive"]

LEMMA MemberSound ==
  ASSUME NEW m, Sound(m), NEW vam \in VAM,
         m.state = "standalone", m.join = "waiting"
  PROVE Sound(Member(m, vam))
<1>1. m \in Manager /\ vam.from \in Station
  BY DEF Sound, VAM
<1>2. Member(m, vam) \in Manager
  BY <1>1, Ages DEF Manager, Member
<1>3. /\ Member(m, vam).state = "passive" /\ Member(m, vam).cluster = m.cluster
      /\ Member(m, vam).joined = m.target /\ Member(m, vam).leader = vam.from
      /\ Member(m, vam).beat = 0 /\ Member(m, vam).join = "joined"
      /\ Member(m, vam).leaving = m.leaving
  BY <1>1 DEF Manager, Member
<1>4. QED
  BY <1>1, <1>2, <1>3, Ages DEF Sound

LEMMA JoinedSound ==
  ASSUME NEW m, Sound(m), NEW vam \in VAM
  PROVE Sound(Joined(m, vam))
  BY MemberSound DEF Joined, Member

(* Only the members change.                                                *)
LEMMA MembersSound ==
  ASSUME NEW m, Sound(m), NEW members \in SUBSET Station
  PROVE Sound([m EXCEPT !.members = members])
<1> DEFINE n == [m EXCEPT !.members = members]
<1>1. m \in Manager
  BY DEF Sound
<1>2. n \in Manager
  BY <1>1 DEF Manager
<1>3. /\ n.state = m.state /\ n.cluster = m.cluster /\ n.joined = m.joined
      /\ n.leader = m.leader /\ n.beat = m.beat /\ n.join = m.join
      /\ n.target = m.target /\ n.joinAge = m.joinAge
      /\ n.quitAge = m.quitAge /\ n.leaving = m.leaving
      /\ n.leaveAge = m.leaveAge
  BY <1>1 DEF Manager
<1> HIDE DEF n
<1>4. Sound(n)
  BY <1>2, <1>3 DEF Sound
<1>5. QED
  BY <1>4 DEF n

LEMMA CountedSound ==
  ASSUME NEW m, Sound(m), NEW vam \in VAM
  PROVE Sound(Counted(m, vam))
<1>1. vam.from \in Station /\ m.members \in SUBSET Station
  BY DEF VAM, Sound, Manager
<1>2. /\ Sound([m EXCEPT !.members = m.members \cup {vam.from}])
      /\ Sound([m EXCEPT !.members = m.members \ {vam.from}])
  BY <1>1, MembersSound
<1>3. QED
  BY <1>2 DEF Counted

LEMMA DisbandedSound ==
  ASSUME NEW m, Sound(m), NEW vam \in VAM
  PROVE Sound(Disbanded(m, vam))
  BY LeftSound DEF Disbanded

Heard(m) == [m EXCEPT !.beat = 0]

LEMMA HeardSound ==
  ASSUME NEW m, Sound(m)
  PROVE Sound(Heard(m))
<1>1. m \in Manager
  BY DEF Sound
<1>2. Heard(m) \in Manager
  BY <1>1, Ages DEF Manager, Heard
<1>3. /\ Heard(m).state = m.state /\ Heard(m).cluster = m.cluster
      /\ Heard(m).joined = m.joined /\ Heard(m).leader = m.leader
      /\ Heard(m).beat = 0 /\ Heard(m).join = m.join
      /\ Heard(m).target = m.target /\ Heard(m).joinAge = m.joinAge
      /\ Heard(m).quitAge = m.quitAge /\ Heard(m).leaving = m.leaving
      /\ Heard(m).leaveAge = m.leaveAge
  BY <1>1 DEF Manager, Heard
<1>4. QED
  BY <1>2, <1>3, Ages DEF Sound

LEMMA RefreshedSound ==
  ASSUME NEW m, Sound(m), NEW vam \in VAM
  PROVE Sound(Refreshed(m, vam))
  BY HeardSound DEF Refreshed, Heard

LEMMA ReceivedSound ==
  ASSUME NEW m, Sound(m), NEW vam \in VAM
  PROVE Sound(Received(m, vam))
  BY NotedSound, JoinedSound, CountedSound, DisbandedSound, RefreshedSound
  DEF Received

-----------------------------------------------------------------------------
(* Time *)

LEMMA OlderAge ==
  ASSUME NEW max \in Nat, NEW age \in Age(max)
  PROVE /\ Older(age, max) \in Age(max)
        /\ Older(age, max) = Never <=> age = Never
  BY Ages DEF Age, Older

LEMMA AgedSound ==
  ASSUME NEW m, Sound(m)
  PROVE Sound(Aged(m))
<1>1. m \in Manager
  BY DEF Sound
<1>2. /\ m.warning \in Age(Warning) /\ m.beat \in Age(Continuity)
      /\ m.joinAge \in Age(JoinNotify) /\ m.quitAge \in Age(LeaveNotify)
      /\ m.leaveAge \in Age(LeaveNotify)
  BY <1>1 DEF Manager
<1>3. /\ Older(m.warning, Warning) \in Age(Warning)
      /\ Older(m.beat, Continuity) \in Age(Continuity)
      /\ Older(m.joinAge, JoinNotify) \in Age(JoinNotify)
      /\ Older(m.quitAge, LeaveNotify) \in Age(LeaveNotify)
      /\ Older(m.leaveAge, LeaveNotify) \in Age(LeaveNotify)
      /\ Older(m.beat, Continuity) = Never <=> m.beat = Never
      /\ Older(m.joinAge, JoinNotify) = Never <=> m.joinAge = Never
      /\ Older(m.quitAge, LeaveNotify) = Never <=> m.quitAge = Never
      /\ Older(m.leaveAge, LeaveNotify) = Never <=> m.leaveAge = Never
  BY <1>2, OlderAge, TimeAssumption
<1>4. Aged(m) \in Manager
  BY <1>1, <1>3 DEF Manager, Aged
<1>5. /\ Aged(m).state = m.state /\ Aged(m).cluster = m.cluster
      /\ Aged(m).joined = m.joined /\ Aged(m).leader = m.leader
      /\ Aged(m).beat = Older(m.beat, Continuity)
      /\ Aged(m).join = m.join /\ Aged(m).target = m.target
      /\ Aged(m).joinAge = Older(m.joinAge, JoinNotify)
      /\ Aged(m).quitAge = Older(m.quitAge, LeaveNotify)
      /\ Aged(m).leaving = m.leaving
      /\ Aged(m).leaveAge = Older(m.leaveAge, LeaveNotify)
  BY <1>1 DEF Manager, Aged
<1>6. m.leaving /\ m.join = "notify"
        => \/ Older(m.leaveAge, LeaveNotify) = LeaveNotify
           \/ Older(m.leaveAge, LeaveNotify) >= Older(m.joinAge, JoinNotify)
  <2>1. SUFFICES ASSUME m.leaving, m.join = "notify"
                 PROVE \/ Older(m.leaveAge, LeaveNotify) = LeaveNotify
                       \/ Older(m.leaveAge, LeaveNotify)
                            >= Older(m.joinAge, JoinNotify)
    OBVIOUS
  <2>2. m.leaveAge \in 0..LeaveNotify /\ m.joinAge \in 0..JoinNotify
    BY <1>2, <2>1 DEF Sound, Age
  <2>3. m.leaveAge = LeaveNotify \/ m.leaveAge >= m.joinAge
    BY <2>1 DEF Sound
  <2>4. QED
    BY <2>2, <2>3, Ages DEF Older
<1>7. QED
  BY <1>3, <1>4, <1>5, <1>6 DEF Sound

-----------------------------------------------------------------------------
(* The system: every manager is sound, and VAMs are VAMs.                  *)

IInv == TypeOK /\ AllSound

LEMMA InitIInv == Init => IInv
  BY FreshSound DEF Init, IInv, TypeOK, AllSound, Sound

(* A step that gives one manager a sound successor keeps the others.       *)
LEMMA OneManager ==
  ASSUME TypeOK, AllSound, NEW s \in Station, NEW n, Sound(n),
         mgr' = [mgr EXCEPT ![s] = n]
  PROVE mgr' \in [Station -> Manager] /\ AllSound'
<1>1. n \in Manager
  BY DEF Sound
<1>2. \A x \in Station : mgr'[x] = IF x = s THEN n ELSE mgr[x]
  BY DEF TypeOK
<1>3. QED
  BY <1>1, <1>2 DEF TypeOK, AllSound

LEMMA BecomesIInv ==
  ASSUME IInv, NEW s \in Station, NEW n, Sound(n), Becomes(s, n)
  PROVE IInv'
  BY OneManager DEF IInv, TypeOK, Becomes

LEMMA AppIInv ==
  ASSUME IInv, NEW s \in Station, AppNext(s)
  PROVE IInv'
<1>1. Sound(mgr[s])
  BY DEF IInv, AllSound
<1>2. CASE SetRoleOn(s)
  BY <1>1, <1>2, RoleOnSound, BecomesIInv DEF SetRoleOn
<1>3. CASE SetRoleOff(s)
  BY <1>1, <1>3, RoleOffSound, BecomesIInv DEF SetRoleOff
<1>4. CASE TryCreate(s)
  <2>1. PICK recent \in SUBSET mgr[s].seen, id \in Id \ used :
          /\ mgr' = [mgr EXCEPT ![s] = Created(mgr[s], id, recent)]
          /\ used' = IF "reuse" \in Trouble THEN used ELSE used \cup {id}
    BY <1>4 DEF TryCreate
  <2>2. Sound(Created(mgr[s], id, recent))
    BY <1>1, <1>4, CreatedSound DEF TryCreate
  <2>3. mgr' \in [Station -> Manager] /\ AllSound'
    BY <2>1, <2>2, OneManager DEF IInv
  <2>4. used' \in SUBSET Id
    BY <2>1 DEF IInv, TypeOK
  <2>5. QED
    BY <1>4, <2>3, <2>4 DEF IInv, TypeOK, TryCreate
<1>5. CASE InitiateJoin(s)
  BY <1>1, <1>5, JoiningSound, BecomesIInv DEF InitiateJoin
<1>6. CASE CancelJoin(s)
  BY <1>1, <1>6, AbandonedSound, BecomesIInv DEF CancelJoin
<1>7. CASE TriggerLeave(s)
  BY <1>1, <1>7, LeftSound, BecomesIInv DEF TriggerLeave
<1>8. CASE TriggerBreakup(s)
  BY <1>1, <1>8, WarnedSound, BecomesIInv DEF TriggerBreakup
<1>9. QED
  BY <1>2, <1>3, <1>4, <1>5, <1>6, <1>7, <1>8 DEF AppNext

LEMMA OperationType ==
  ASSUME NEW m \in Manager
  PROVE /\ Operation(m).op \in {"none", "join", "leave", "breakup", "cpm"}
        /\ Operation(m).about \in 0..MaxId \cup {None}
<1>1. /\ m.target \in 0..MaxId \cup {None}
      /\ m.left \in 0..MaxId \cup {None}
  BY DEF Manager
<1>2. /\ LeaveInfo(m).op \in {"none", "leave"}
      /\ LeaveInfo(m).about \in 0..MaxId \cup {None}
  BY <1>1 DEF LeaveInfo
<1>3. QED
  BY <1>1, <1>2 DEF Operation

LEMMA WorkIInv ==
  ASSUME IInv, NEW s \in Station, Work(s)
  PROVE IInv'
<1>1. Sound(mgr[s]) /\ mgr[s] \in Manager
  BY DEF IInv, AllSound, Sound
<1>2. CASE Update(s)
  <2>1. PICK gone \in SUBSET Lapsing(s) :
          mgr' = [mgr EXCEPT ![s] = Updated(mgr[s], gone)]
    BY <1>2 DEF Update
  <2>2. Sound(Updated(mgr[s], gone))
    BY <1>1, UpdatedSound
  <2>3. mgr' \in [Station -> Manager] /\ AllSound'
    BY <2>1, <2>2, OneManager DEF IInv
  <2>4. due' \in [Station -> SUBSET {"update", "vam"}]
    BY <1>2 DEF Update, IInv, TypeOK
  <2>5. QED
    BY <1>2, <2>3, <2>4 DEF IInv, TypeOK, Update
<1>3. CASE LocationCallback(s)
  BY <1>3 DEF IInv, TypeOK, AllSound, LocationCallback
<1>4. CASE Inform(s)
  BY <1>1, <1>4 DEF IInv, TypeOK, AllSound, Inform, Information, Manager
<1>5. CASE Operate(s)
  <2> DEFINE vam == [from |-> s, info |-> draft[s], op |-> Operation(mgr[s]).op,
                     about |-> Operation(mgr[s]).about]
  <2>1. vam \in VAM
    BY <1>1, OperationType DEF IInv, TypeOK, VAM
  <2>2. PICK heard \in SUBSET (Station \ {s}) :
          inbox' = [r \in Station |->
            IF r \in heard THEN [inbox[r] EXCEPT ![s] = vam] ELSE inbox[r]]
    BY <1>5 DEF Operate
  <2> HIDE DEF vam
  <2>3. inbox' \in [Station -> [Station -> VAM \cup {None}]]
    BY <2>1, <2>2 DEF IInv, TypeOK
  <2>4. QED
    BY <1>5, <2>3 DEF IInv, TypeOK, AllSound, Operate
<1>6. CASE Receive(s)
  <2>1. PICK f \in Station :
          /\ inbox[s][f] # None
          /\ mgr' = [mgr EXCEPT ![s] = Received(mgr[s], inbox[s][f])]
          /\ inbox' = [inbox EXCEPT ![s][f] = None]
          /\ UNCHANGED <<pc, draft, due, used>>
    BY <1>6 DEF Receive
  <2>2. inbox[s][f] \in VAM
    BY <2>1 DEF IInv, TypeOK
  <2>3. Sound(Received(mgr[s], inbox[s][f]))
    BY <1>1, <2>2, ReceivedSound
  <2>4. mgr' \in [Station -> Manager] /\ AllSound'
    BY <2>1, <2>3, OneManager DEF IInv
  <2>5. inbox' \in [Station -> [Station -> VAM \cup {None}]]
    BY <2>1 DEF IInv, TypeOK
  <2>6. QED
    BY <2>1, <2>4, <2>5 DEF IInv, TypeOK
<1>7. QED
  BY <1>2, <1>3, <1>4, <1>5, <1>6 DEF Work

LEMMA TickIInv ==
  ASSUME IInv, Tick
  PROVE IInv'
<1>1. \A s \in Station : mgr'[s] = Aged(mgr[s]) /\ Sound(Aged(mgr[s]))
  BY AgedSound DEF Tick, IInv, AllSound
<1>2. \A s \in Station : Aged(mgr[s]) \in Manager
  BY <1>1 DEF Sound
<1>3. QED
  BY <1>1, <1>2 DEF IInv, TypeOK, AllSound, Tick

LEMMA NextIInv == IInv /\ [Next]_vars => IInv'
<1>1. SUFFICES ASSUME IInv, [Next]_vars PROVE IInv'
  OBVIOUS
<1>2. CASE Next
  BY <1>1, <1>2, AppIInv, WorkIInv, TickIInv DEF Next
<1>3. CASE UNCHANGED vars
  BY <1>1, <1>3 DEF vars, IInv, TypeOK, AllSound
<1>4. QED
  BY <1>1, <1>2, <1>3

LEMMA AlwaysIInv == Spec => []IInv
  BY InitIInv, NextIInv, PTL DEF Spec

(* The state keeps its shape, for any number of stations and identifiers   *)
(* and any trouble.                                                        *)
THEOREM TypeCorrect == Spec => []TypeOK
<1>1. IInv => TypeOK
  BY DEF IInv
<1>2. QED
  BY <1>1, AlwaysIInv, PTL

(* Every manager agrees with itself: the assertions of update() never      *)
(* fail, and who leads has a cluster.                                      *)
THEOREM AlwaysConsistent == Spec => []Consistent
<1>1. IInv => Consistent
  BY DEF IInv, AllSound, Sound, Consistent
<1>2. QED
  BY <1>1, AlwaysIInv, PTL

(* should_transmit_vam is false for every passive station: a leave is no   *)
(* longer announced when the next join is completed.                       *)
THEOREM PassiveAlwaysSilent == Spec => []PassiveSilent
<1>1. IInv => PassiveSilent
  BY DEF IInv, AllSound, Sound, PassiveSilent, ShouldTransmit
<1>2. QED
  BY <1>1, AlwaysIInv, PTL
-----------------------------------------------------------------------------
(* If all VAMs arrive: leaders and members agree.                          *)

(* VAMs may be late but are not lost, and a join and a leave are announced *)
(* for two rounds at least, of which one is whole.                         *)
Calm ==
  /\ Trouble \subseteq {"cpm", "threads"}
  /\ JoinNotify >= 2 /\ LeaveNotify >= 2

(* m has asked to join cluster id long enough for its leader to know.      *)
Engaged(m, id) ==
  \/ m.join = "notify" /\ m.joinAge >= 2 /\ m.target = id
  \/ m.join = "waiting" /\ m.target = id
  \/ m.join = "joined" /\ m.joined = id

(* m announces that it joins id since the round before.                    *)
Asking(m, id) == m.join = "notify" /\ m.joinAge >= 1 /\ m.target = id

(* m deals with cluster id, or has ceased to in this round.                *)
Tied(m, id) ==
  \/ m.join \in {"notify", "waiting"} /\ m.target = id
  \/ m.join = "joined" /\ m.joined = id
  \/ m.join \in {"cancelled", "failed"} /\ m.target = id /\ m.quitAge = 0
  \/ m.leaving /\ m.left = id /\ m.leaveAge = 0

(* m has ceased to in the round before.                                    *)
Parting(m, id) ==
  \/ m.join \in {"cancelled", "failed"} /\ m.target = id /\ m.quitAge = 1
  \/ m.leaving /\ m.left = id /\ m.leaveAge = 1

(* m does one thing at a time, and knows identifiers in use only.          *)
Orderly(m, ids) ==
  /\ m.state # "idle"
  /\ m.join \notin {"none", "joined"} => m.state = "standalone"
  /\ m.leaving => m.state = "standalone" /\ m.join = "none"
  /\ m.cluster = None => m.members = {}
  /\ m.seen \subseteq ids
  /\ {m.cluster, m.target, m.joined} \subseteq ids \cup {None}

ToSend(s) == "vam" \in due[s] \/ pc[s] # "idle"
Tells(l, s, op) ==
  inbox[l][s] # None /\ inbox[l][s].op = op /\ inbox[l][s].about = mgr[l].cluster

(* A station sends once in a round, to the others, names identifiers in    *)
(* use, and announces a join while it deals with the cluster.              *)
Rounds ==
  \A s \in Station :
    /\ pc[s] # "idle" => "vam" \notin due[s]
    /\ draft[s] \in used \cup {None}
    /\ s \notin mgr[s].members /\ inbox[s][s] = None
    /\ \A l \in Station : inbox[l][s] # None =>
         /\ ~ToSend(s) /\ inbox[l][s].from = s
         /\ inbox[l][s].info \in used \cup {None}
         /\ inbox[l][s].op = "join" => Tied(mgr[s], inbox[l][s].about)

(* What the leader of a cluster knows of a station.                        *)
Agreed(l, s) ==
  /\ Engaged(mgr[s], mgr[l].cluster) => s \in mgr[l].members
  /\ Asking(mgr[s], mgr[l].cluster) =>
       s \in mgr[l].members \/ ToSend(s) \/ Tells(l, s, "join")
  /\ Engaged(mgr[s], mgr[l].cluster) \/ Asking(mgr[s], mgr[l].cluster) =>
       ~Tells(l, s, "leave")
  /\ s \in mgr[l].members =>
       \/ Tied(mgr[s], mgr[l].cluster)
       \/ /\ Parting(mgr[s], mgr[l].cluster)
          /\ ToSend(s) \/ Tells(l, s, "leave")

CalmInv ==
  /\ \A s \in Station : Orderly(mgr[s], used)
  /\ Rounds
  /\ \A l \in Station : mgr[l].cluster # None => \A s \in Station \ {l} : Agreed(l, s)

-----------------------------------------------------------------------------
(* What an operation does for a station that deals with a cluster, and for *)
(* the leader of one.                                                      *)
Loyal(m, n) == \A id :
  /\ Engaged(n, id) => Engaged(m, id)
  /\ Asking(n, id) => Asking(m, id)
  /\ Tied(m, id) => Tied(n, id)
  /\ Parting(m, id) => Parting(n, id)
Keeps(m, n) ==
  n.cluster # None => n.cluster = m.cluster /\ n.members = m.members
Smooth(m, n) == Loyal(m, n) /\ Keeps(m, n)

LEMMA SmoothTwice ==
  ASSUME NEW m, NEW n, NEW o, Smooth(m, n), Smooth(n, o)
  PROVE  Smooth(m, o)
BY DEF Smooth, Loyal, Keeps

LEMMA SmoothSelf == ASSUME NEW m PROVE Smooth(m, m)
BY DEF Smooth, Loyal, Keeps

LEMMA CreatedOrderly ==
  ASSUME NEW m, Sound(m), NEW ids, Orderly(m, ids),
         m.state = "standalone", m.join = "none", ~m.leaving,
         NEW id \in Id, NEW recent \in SUBSET m.seen
  PROVE  /\ Orderly(Created(m, id, recent), ids \cup {id})
         /\ Loyal(m, Created(m, id, recent))
         /\ Created(m, id, recent).cluster = id
         /\ Created(m, id, recent).members = {}
<1> DEFINE n == Created(m, id, recent)
<1>1. m \in Manager /\ m.cluster = None
  BY DEF Sound
<1>2. /\ n.state = "leader" /\ n.cluster = id /\ n.seen = recent
      /\ n.join = "none" /\ n.leaving = FALSE /\ n.members = m.members
      /\ n.target = m.target /\ n.joined = m.joined
  BY <1>1 DEF Manager, Created
<1> HIDE DEF n
<1>3. Orderly(n, ids \cup {id}) /\ n.members = {}
  BY <1>1, <1>2 DEF Orderly
<1>4. Loyal(m, n)
  BY <1>2 DEF Loyal, Engaged, Asking, Tied, Parting
<1> QED BY <1>2, <1>3, <1>4 DEF n

LEMMA JoiningOrderly ==
  ASSUME NEW m, Sound(m), NEW ids, Orderly(m, ids),
         m.state = "standalone", m.join = "none", ~m.leaving, NEW id \in m.seen
  PROVE  Orderly(Joining(m, id), ids) /\ Smooth(m, Joining(m, id))
<1> DEFINE n == Joining(m, id)
<1>1. m \in Manager
  BY DEF Sound
<1>2. /\ n.state = "standalone" /\ n.cluster = m.cluster /\ n.seen = m.seen
      /\ n.join = "notify" /\ n.joinAge = 0 /\ n.target = id
      /\ n.leaving = FALSE /\ n.members = m.members /\ n.joined = m.joined
  BY <1>1 DEF Manager, Joining
<1> HIDE DEF n
<1>3. Orderly(n, ids)
  BY <1>1, <1>2 DEF Orderly
<1>4. Smooth(m, n)
  BY <1>2 DEF Smooth, Keeps, Loyal, Engaged, Asking, Tied, Parting
<1> QED BY <1>3, <1>4 DEF n

LEMMA AbandonedOrderly ==
  ASSUME NEW m, Sound(m), NEW ids, Orderly(m, ids), m.join \in {"notify", "waiting"},
         NEW how \in {"cancelled", "failed"}
  PROVE  Orderly(Abandoned(m, how), ids) /\ Smooth(m, Abandoned(m, how))
<1> DEFINE n == Abandoned(m, how)
<1>1. m \in Manager
  BY DEF Sound
<1>2. /\ n.state = m.state /\ n.cluster = m.cluster /\ n.seen = m.seen
      /\ n.join = how /\ n.quitAge = 0 /\ n.target = m.target
      /\ n.leaving = m.leaving /\ n.members = m.members /\ n.joined = m.joined
  BY <1>1 DEF Manager, Abandoned
<1> HIDE DEF n
<1>3. Orderly(n, ids)
  BY <1>1, <1>2 DEF Orderly
<1>4. Smooth(m, n)
  BY <1>2 DEF Orderly, Smooth, Keeps, Loyal, Engaged, Asking, Tied, Parting
<1> QED BY <1>3, <1>4 DEF n

LEMMA LeftOrderly ==
  ASSUME NEW m, Sound(m), NEW ids, Orderly(m, ids), m.state = "passive"
  PROVE  Orderly(Left(m), ids) /\ Smooth(m, Left(m))
<1> DEFINE n == Left(m)
<1>1. m \in Manager /\ m.join = "joined"
  BY DEF Sound
<1>2. /\ n.state = "standalone" /\ n.cluster = m.cluster /\ n.seen = m.seen
      /\ n.join = "none" /\ n.target = None /\ n.joined = None
      /\ n.leaving = TRUE /\ n.left = m.joined /\ n.leaveAge = 0
      /\ n.members = m.members
  BY <1>1 DEF Manager, Left
<1> HIDE DEF n
<1>3. Orderly(n, ids)
  BY <1>1, <1>2 DEF Orderly
<1>4. Smooth(m, n)
  BY <1>1, <1>2 DEF Orderly, Smooth, Keeps, Loyal, Engaged, Asking, Tied, Parting
<1> QED BY <1>3, <1>4 DEF n

(* Operations that touch none of this.                                     *)
LEMMA AsideOrderly ==
  ASSUME NEW m, NEW ids, Orderly(m, ids), NEW n,
         n.state = m.state, n.cluster = m.cluster, n.join = m.join,
         n.target = m.target, n.joined = m.joined, n.joinAge = m.joinAge,
         n.quitAge = m.quitAge, n.leaving = m.leaving, n.left = m.left,
         n.leaveAge = m.leaveAge, n.members = m.members, n.seen \subseteq ids
  PROVE  Orderly(n, ids) /\ Smooth(m, n)
<1>1. Orderly(n, ids)
  BY DEF Orderly
<1>2. Smooth(m, n)
  BY DEF Smooth, Keeps, Loyal, Engaged, Asking, Tied, Parting
<1> QED BY <1>1, <1>2

LEMMA WarnedOrderly ==
  ASSUME NEW m, Sound(m), NEW ids, Orderly(m, ids), NEW cpm \in BOOLEAN
  PROVE  Orderly(Warned(m, cpm), ids) /\ Smooth(m, Warned(m, cpm))
<1> DEFINE n == Warned(m, cpm)
<1>1. m \in Manager
  BY DEF Sound
<1>2. /\ n.state = m.state /\ n.cluster = m.cluster /\ n.join = m.join
      /\ n.target = m.target /\ n.joined = m.joined /\ n.joinAge = m.joinAge
      /\ n.quitAge = m.quitAge /\ n.leaving = m.leaving /\ n.left = m.left
      /\ n.leaveAge = m.leaveAge /\ n.members = m.members /\ n.seen = m.seen
  BY <1>1 DEF Manager, Warned
<1> HIDE DEF n
<1>3. n.seen \subseteq ids
  BY <1>2 DEF Orderly
<1>4. Orderly(n, ids) /\ Smooth(m, n)
  BY <1>2, <1>3, AsideOrderly
<1> QED BY <1>4 DEF n

(* update(): what ends has been told for two rounds.                       *)
LEMMA JoinUpdatedOrderly ==
  ASSUME Calm, NEW m, Sound(m), NEW ids, Orderly(m, ids), m.state = "standalone"
  PROVE  Orderly(JoinUpdated(m), ids) /\ Smooth(m, JoinUpdated(m))
<1>1. m \in Manager /\ JoinNotify >= 2 /\ LeaveNotify >= 2
  BY DEF Sound, Calm
<1>2. CASE m.join = "notify" /\ m.joinAge >= JoinNotify
  <2> DEFINE n == Waiting(m)
  <2>1. /\ n.state = m.state /\ n.cluster = m.cluster /\ n.seen = m.seen
        /\ n.join = "waiting" /\ n.joinAge = 0 /\ n.target = m.target
        /\ n.leaving = m.leaving /\ n.members = m.members /\ n.joined = m.joined
    BY <1>1 DEF Manager, Waiting
  <2>2. JoinUpdated(m) = n
    BY <1>2 DEF JoinUpdated, Waiting
  <2> HIDE DEF n
  <2>3. m.joinAge >= 2
    BY <1>1, <1>2, Ages DEF Manager, Age, Sound
  <2>4. Orderly(n, ids)
    BY <1>2, <2>1 DEF Orderly
  <2>5. Smooth(m, n)
    BY <1>2, <2>1, <2>3 DEF Orderly, Smooth, Keeps, Loyal, Engaged, Asking, Tied, Parting
  <2> QED BY <2>2, <2>4, <2>5
<1>3. CASE m.join = "waiting"
  BY <1>3, AbandonedOrderly, SmoothSelf DEF JoinUpdated, GivenUp
<1>4. CASE m.join \in {"cancelled", "failed"} /\ m.quitAge >= LeaveNotify
  <2> DEFINE n == Resumed(m)
  <2>1. /\ n.state = m.state /\ n.cluster = m.cluster /\ n.seen = m.seen
        /\ n.join = "none" /\ n.target = None
        /\ n.leaving = m.leaving /\ n.members = m.members /\ n.joined = m.joined
    BY <1>1 DEF Manager, Resumed
  <2>2. JoinUpdated(m) = n
    BY <1>4 DEF JoinUpdated, Resumed
  <2> HIDE DEF n
  <2>3. m.quitAge # 0 /\ m.quitAge # 1
    BY <1>1, <1>4, Ages DEF Manager, Age, Sound
  <2>4. Orderly(n, ids)
    BY <1>4, <2>1 DEF Orderly
  <2>5. Smooth(m, n)
    BY <1>4, <2>1, <2>3 DEF Orderly, Smooth, Keeps, Loyal, Engaged, Asking, Tied, Parting
  <2> QED BY <2>2, <2>4, <2>5
<1>5. CASE JoinUpdated(m) = m
  BY <1>5, SmoothSelf
<1> QED BY <1>2, <1>3, <1>4, <1>5 DEF JoinUpdated

LEMMA LeaveUpdatedOrderly ==
  ASSUME Calm, NEW m, NearlySound(m), NEW ids, Orderly(m, ids)
  PROVE  Orderly(LeaveUpdated(m), ids) /\ Smooth(m, LeaveUpdated(m))
<1>1. CASE m.leaving /\ m.leaveAge >= LeaveNotify
  <2> DEFINE n == Told(m)
  <2>1. m \in Manager
    BY DEF NearlySound
  <2>2. /\ n.state = m.state /\ n.cluster = m.cluster /\ n.seen = m.seen
        /\ n.join = m.join /\ n.target = m.target /\ n.leaving = FALSE
        /\ n.members = m.members /\ n.joined = m.joined
        /\ n.joinAge = m.joinAge /\ n.quitAge = m.quitAge
    BY <2>1 DEF Manager, Told
  <2>3. LeaveUpdated(m) = n
    BY <1>1 DEF LeaveUpdated, Told
  <2> HIDE DEF n
  <2>4. m.leaveAge # 0 /\ m.leaveAge # 1
    BY <1>1, <2>1, Ages DEF Manager, Age, NearlySound, Calm
  <2>5. Orderly(n, ids)
    BY <2>2 DEF Orderly
  <2>6. Smooth(m, n)
    BY <2>2, <2>4 DEF Smooth, Keeps, Loyal, Engaged, Asking, Tied, Parting
  <2> QED BY <2>3, <2>5, <2>6
<1>2. CASE ~(m.leaving /\ m.leaveAge >= LeaveNotify)
  BY <1>2, SmoothSelf DEF LeaveUpdated
<1> QED BY <1>1, <1>2

LEMMA LeaderUpdatedOrderly ==
  ASSUME NEW m, Sound(m), NEW ids, Orderly(m, ids), m.state = "leader"
  PROVE  Orderly(LeaderUpdated(m), ids) /\ Smooth(m, LeaderUpdated(m))
<1> DEFINE n == Dissolved(m)
<1>1. m \in Manager
  BY DEF Sound
<1>2. /\ n.state = "standalone" /\ n.cluster = None /\ n.join = m.join
      /\ n.target = m.target /\ n.joined = m.joined /\ n.joinAge = m.joinAge
      /\ n.quitAge = m.quitAge /\ n.leaving = m.leaving /\ n.left = m.left
      /\ n.leaveAge = m.leaveAge /\ n.members = {} /\ n.seen = m.seen
  BY <1>1 DEF Manager, Dissolved
<1>3. LeaderUpdated(m) \in {m, n}
  BY DEF LeaderUpdated, Dissolved
<1> HIDE DEF n
<1>4. Orderly(n, ids)
  BY <1>2 DEF Orderly
<1>5. Smooth(m, n)
  BY <1>2 DEF Smooth, Keeps, Loyal, Engaged, Asking, Tied, Parting
<1> QED BY <1>3, <1>4, <1>5, SmoothSelf

LEMMA ForgottenOrderly ==
  ASSUME NEW m, Sound(m), NEW ids, Orderly(m, ids), NEW gone
  PROVE  Orderly(Forgotten(m, gone), ids) /\ Smooth(m, Forgotten(m, gone))
<1> DEFINE n == Forgotten(m, gone)
<1>1. m \in Manager
  BY DEF Sound
<1>2. /\ n.state = m.state /\ n.cluster = m.cluster /\ n.join = m.join
      /\ n.target = m.target /\ n.joined = m.joined /\ n.joinAge = m.joinAge
      /\ n.quitAge = m.quitAge /\ n.leaving = m.leaving /\ n.left = m.left
      /\ n.leaveAge = m.leaveAge /\ n.members = m.members /\ n.seen = m.seen
  BY <1>1 DEF Manager, Forgotten
<1> HIDE DEF n
<1>3. n.seen \subseteq ids
  BY <1>2 DEF Orderly
<1>4. Orderly(n, ids) /\ Smooth(m, n)
  BY <1>2, <1>3, AsideOrderly
<1> QED BY <1>4 DEF n

LEMMA UpdatedOrderly ==
  ASSUME Calm, NEW m, Sound(m), NEW ids, Orderly(m, ids), NEW gone
  PROVE  Orderly(Updated(m, gone), ids) /\ Smooth(m, Updated(m, gone))
<1>1. PICK n : n = Forgotten(m, gone)
  OBVIOUS
<1>2. Sound(n) /\ Orderly(n, ids) /\ Smooth(m, n)
  BY <1>1, ForgottenSound, ForgottenOrderly
<1>3. CASE n.state = "standalone"
  <2>1. PICK o : o = JoinUpdated(n)
    OBVIOUS
  <2>2. NearlySound(o) /\ Orderly(o, ids) /\ Smooth(n, o)
    BY <1>2, <1>3, <2>1, JoinUpdatedNearly, JoinUpdatedOrderly
  <2>3. Orderly(LeaveUpdated(o), ids) /\ Smooth(o, LeaveUpdated(o))
    BY <2>2, LeaveUpdatedOrderly
  <2>4. Updated(m, gone) = LeaveUpdated(o)
    BY <1>1, <1>3, <2>1 DEF Updated, Forgotten
  <2> QED BY <1>2, <2>2, <2>3, <2>4, SmoothTwice
<1>4. CASE n.state = "leader"
  <2>1. Orderly(LeaderUpdated(n), ids) /\ Smooth(n, LeaderUpdated(n))
    BY <1>2, <1>4, LeaderUpdatedOrderly
  <2>2. Updated(m, gone) = LeaderUpdated(n)
    BY <1>1, <1>4 DEF Updated, Forgotten
  <2> QED BY <1>2, <2>1, <2>2, SmoothTwice
<1>5. CASE n.state = "passive"
  <2>1. Orderly(PassiveUpdated(n), ids) /\ Smooth(n, PassiveUpdated(n))
    BY <1>2, <1>5, LeftOrderly, LeaveUpdatedOrderly, SoundIsNearly DEF PassiveUpdated
  <2>2. Updated(m, gone) = PassiveUpdated(n)
    BY <1>1, <1>5 DEF Updated, Forgotten
  <2> QED BY <1>2, <2>1, <2>2, SmoothTwice
<1>6. CASE n.state \notin {"standalone", "leader", "passive"}
  BY <1>1, <1>2, <1>6 DEF Updated, Forgotten
<1> QED BY <1>3, <1>4, <1>5, <1>6

(* on_received_vam()                                                       *)
LEMMA NotedOrderly ==
  ASSUME NEW m, Sound(m), NEW ids, Orderly(m, ids), NEW vam \in VAM,
         vam.info \in ids \cup {None}
  PROVE  Orderly(Noted(m, vam), ids) /\ Smooth(m, Noted(m, vam))
<1> DEFINE n == Noted(m, vam)
<1>1. m \in Manager
  BY DEF Sound
<1>2. /\ n.state = m.state /\ n.cluster = m.cluster /\ n.join = m.join
      /\ n.target = m.target /\ n.joined = m.joined /\ n.joinAge = m.joinAge
      /\ n.quitAge = m.quitAge /\ n.leaving = m.leaving /\ n.left = m.left
      /\ n.leaveAge = m.leaveAge /\ n.members = m.members
      /\ n.seen = m.seen \cup ({vam.info} \ {None})
  BY <1>1 DEF Manager, Noted
<1> HIDE DEF n
<1>3. n.seen \subseteq ids
  BY <1>2 DEF Orderly
<1>4. Orderly(n, ids) /\ Smooth(m, n)
  BY <1>2, <1>3, AsideOrderly
<1> QED BY <1>4 DEF n

LEMMA JoinedOrderly ==
  ASSUME NEW m, Sound(m), NEW ids, Orderly(m, ids), NEW vam \in VAM
  PROVE  Orderly(Joined(m, vam), ids) /\ Smooth(m, Joined(m, vam))
<1> DEFINE n == Member(m, vam)
<1>1. m \in Manager
  BY DEF Sound
<1>2. CASE m.state = "standalone" /\ m.join = "waiting"
  <2>1. /\ n.state = "passive" /\ n.cluster = m.cluster /\ n.join = "joined"
        /\ n.target = m.target /\ n.joined = m.target /\ n.leaving = m.leaving
        /\ n.members = m.members /\ n.seen = m.seen
    BY <1>1 DEF Manager, Member
  <2>2. Joined(m, vam) \in {m, n}
    BY DEF Joined, Member
  <2> HIDE DEF n
  <2>3. Orderly(n, ids)
    BY <1>2, <2>1 DEF Orderly
  <2>4. Smooth(m, n)
    BY <1>2, <2>1 DEF Orderly, Smooth, Keeps, Loyal, Engaged, Asking, Tied, Parting
  <2> QED BY <2>2, <2>3, <2>4, SmoothSelf
<1>3. CASE ~(m.state = "standalone" /\ m.join = "waiting")
  BY <1>3, SmoothSelf DEF Joined
<1> QED BY <1>2, <1>3

(* The members of a leader that has received vam.                          *)
Tally(m, vam) ==
  IF vam.about # m.cluster THEN m.members
  ELSE CASE vam.op = "join" -> m.members \cup {vam.from}
         [] vam.op = "leave" -> m.members \ {vam.from}
         [] OTHER -> m.members

LEMMA CountedOrderly ==
  ASSUME NEW m, Sound(m), NEW ids, Orderly(m, ids), NEW vam \in VAM
  PROVE  /\ Orderly(Counted(m, vam), ids) /\ Loyal(m, Counted(m, vam))
         /\ Counted(m, vam).cluster = m.cluster
         /\ m.cluster # None => Counted(m, vam).members = Tally(m, vam)
<1> DEFINE n == Counted(m, vam)
<1>1. m \in Manager /\ (m.state = "leader" <=> m.cluster # None)
  BY DEF Sound
<1>2. /\ n.state = m.state /\ n.cluster = m.cluster /\ n.join = m.join
      /\ n.target = m.target /\ n.joined = m.joined /\ n.joinAge = m.joinAge
      /\ n.quitAge = m.quitAge /\ n.leaving = m.leaving /\ n.left = m.left
      /\ n.leaveAge = m.leaveAge /\ n.seen = m.seen
      /\ n.members = IF m.cluster = None THEN m.members ELSE Tally(m, vam)
  BY <1>1 DEF Manager, Counted, Tally
<1> HIDE DEF n
<1>3. Orderly(n, ids)
  BY <1>2 DEF Orderly
<1>4. Loyal(m, n)
  BY <1>2 DEF Loyal, Engaged, Asking, Tied, Parting
<1> QED BY <1>2, <1>3, <1>4 DEF n

LEMMA RefreshedOrderly ==
  ASSUME NEW m, Sound(m), NEW ids, Orderly(m, ids), NEW vam \in VAM
  PROVE  Orderly(Refreshed(m, vam), ids) /\ Smooth(m, Refreshed(m, vam))
<1> DEFINE n == Refreshed(m, vam)
<1>1. m \in Manager
  BY DEF Sound
<1>2. /\ n.state = m.state /\ n.cluster = m.cluster /\ n.join = m.join
      /\ n.target = m.target /\ n.joined = m.joined /\ n.joinAge = m.joinAge
      /\ n.quitAge = m.quitAge /\ n.leaving = m.leaving /\ n.left = m.left
      /\ n.leaveAge = m.leaveAge /\ n.members = m.members /\ n.seen = m.seen
  BY <1>1 DEF Manager, Refreshed
<1> HIDE DEF n
<1>3. n.seen \subseteq ids
  BY <1>2 DEF Orderly
<1>4. Orderly(n, ids) /\ Smooth(m, n)
  BY <1>2, <1>3, AsideOrderly
<1> QED BY <1>4 DEF n

LEMMA ReceivedOrderly ==
  ASSUME NEW m, Sound(m), NEW ids, Orderly(m, ids), NEW vam \in VAM,
         vam.info \in ids \cup {None}
  PROVE  /\ Orderly(Received(m, vam), ids) /\ Loyal(m, Received(m, vam))
         /\ Received(m, vam).cluster # None =>
              /\ Received(m, vam).cluster = m.cluster
              /\ Received(m, vam).members = Tally(m, vam)
<1>1. PICK n : n = Joined(Noted(m, vam), vam)
  OBVIOUS
<1>2. PICK o : o = Counted(n, vam)
  OBVIOUS
<1>3. PICK p : p = Disbanded(o, vam)
  OBVIOUS
<1>4. PICK q : q = Refreshed(p, vam)
  OBVIOUS
<1>5. Sound(n) /\ Orderly(n, ids) /\ Smooth(m, n)
  BY <1>1, NotedSound, JoinedSound, NotedOrderly, JoinedOrderly, SmoothTwice
<1>6. /\ Sound(o) /\ Orderly(o, ids) /\ Loyal(n, o) /\ o.cluster = n.cluster
      /\ n.cluster # None => o.members = Tally(n, vam)
  BY <1>2, <1>5, CountedSound, CountedOrderly
<1>7. Sound(p) /\ Orderly(p, ids) /\ Smooth(o, p)
  BY <1>3, <1>6, DisbandedSound, LeftOrderly, SmoothSelf DEF Disbanded
<1>8. Orderly(q, ids) /\ Smooth(p, q)
  BY <1>4, <1>7, RefreshedOrderly
<1>9. Smooth(o, q)
  BY <1>7, <1>8, SmoothTwice
<1>10. Received(m, vam) = q
  BY <1>1, <1>2, <1>3, <1>4 DEF Received
<1>11. Loyal(m, q)
  BY <1>5, <1>6, <1>9 DEF Smooth, Loyal
<1>12. q.cluster # None => q.cluster = m.cluster /\ q.members = Tally(m, vam)
  BY <1>5, <1>6, <1>9 DEF Smooth, Keeps, Tally
<1> QED BY <1>8, <1>10, <1>11, <1>12

-----------------------------------------------------------------------------
(* The system.                                                             *)

(* A step of the application, or an update.                                *)
LEMMA SmoothStep ==
  ASSUME IInv, CalmInv, NEW x \in Station, NEW n, Orderly(n, used), Smooth(mgr[x], n),
         mgr' = [mgr EXCEPT ![x] = n], UNCHANGED <<pc, draft, inbox, used>>,
         \A s \in Station : "vam" \in due'[s] <=> "vam" \in due[s]
  PROVE  CalmInv'
<1>1. \A s \in Station : mgr'[s] = IF s = x THEN n ELSE mgr[s]
  BY DEF IInv, TypeOK
<1>2. \A s \in Station : Loyal(mgr[s], mgr'[s]) /\ Keeps(mgr[s], mgr'[s])
  BY <1>1, SmoothSelf DEF Smooth
<1>3. \A s \in Station : ToSend(s)' <=> ToSend(s)
  BY DEF ToSend
<1>4. \A s \in Station : Orderly(mgr'[s], used')
  BY <1>1 DEF CalmInv
<1>5. ASSUME NEW s \in Station
      PROVE  s \notin mgr'[s].members
  <2>1. CASE mgr'[s].cluster = None
    BY <1>4, <2>1 DEF Orderly
  <2>2. CASE mgr'[s].cluster # None
    BY <1>2, <2>2 DEF Keeps, CalmInv, Rounds
  <2> QED BY <2>1, <2>2
<1>6. ASSUME NEW s \in Station, NEW l \in Station, inbox[l][s].op = "join",
             Tied(mgr[s], inbox[l][s].about)
      PROVE  Tied(mgr'[s], inbox[l][s].about)
  BY <1>2, <1>6 DEF Loyal
<1>7. Rounds'
  BY <1>3, <1>5, <1>6 DEF CalmInv, Rounds
<1>8. ASSUME NEW l \in Station, mgr'[l].cluster # None, NEW s \in Station \ {l}
      PROVE  Agreed(l, s)'
  <2>1. mgr'[l].cluster = mgr[l].cluster /\ mgr'[l].members = mgr[l].members
    BY <1>2, <1>8 DEF Keeps
  <2>2. /\ Tells(l, s, "join")' <=> Tells(l, s, "join")
        /\ Tells(l, s, "leave")' <=> Tells(l, s, "leave")
    BY <2>1 DEF Tells
  <2>3. Agreed(l, s)
    BY <1>8, <2>1 DEF CalmInv
  <2>4. Loyal(mgr[s], mgr'[s])
    BY <1>2
  <2> QED BY <1>3, <2>1, <2>2, <2>3, <2>4 DEF Agreed, Loyal
<1> QED BY <1>4, <1>7, <1>8 DEF CalmInv

LEMMA BecomesCalm ==
  ASSUME IInv, CalmInv, NEW s \in Station, NEW n, Orderly(n, used), Smooth(mgr[s], n),
         Becomes(s, n)
  PROVE  CalmInv'
BY SmoothStep DEF Becomes

LEMMA CreateCalm ==
  ASSUME Calm, IInv, CalmInv, NEW x \in Station, TryCreate(x)
  PROVE  CalmInv'
<1>1. PICK recent \in SUBSET mgr[x].seen, id \in Id \ used :
        /\ mgr' = [mgr EXCEPT ![x] = Created(mgr[x], id, recent)]
        /\ used' = IF "reuse" \in Trouble THEN used ELSE used \cup {id}
  BY DEF TryCreate
<1>2. used' = used \cup {id}
  BY <1>1 DEF Calm
<1>3. PICK n : n = Created(mgr[x], id, recent)
  OBVIOUS
<1>4. Sound(mgr[x]) /\ Orderly(mgr[x], used) /\ mgr[x].state = "standalone"
      /\ mgr[x].join = "none" /\ ~mgr[x].leaving
  BY DEF Calm, TryCreate, Quiet, IInv, AllSound, CalmInv
<1>5. Orderly(n, used') /\ Loyal(mgr[x], n) /\ n.cluster = id /\ n.members = {}
  <2>1. /\ Orderly(Created(mgr[x], id, recent), used \cup {id})
        /\ Loyal(mgr[x], Created(mgr[x], id, recent))
        /\ Created(mgr[x], id, recent).cluster = id
        /\ Created(mgr[x], id, recent).members = {}
    BY <1>4, CreatedOrderly
  <2> QED BY <1>2, <1>3, <2>1
<1>6. \A s \in Station : mgr'[s] = IF s = x THEN n ELSE mgr[s]
  BY <1>1, <1>3 DEF IInv, TypeOK
<1>7. \A s \in Station : Loyal(mgr[s], mgr'[s])
  BY <1>5, <1>6, SmoothSelf DEF Smooth
<1>8. ASSUME NEW s \in Station
      PROVE  Orderly(mgr'[s], used')
  <2>1. CASE s = x
    BY <1>5, <1>6, <2>1
  <2>2. CASE s # x
    BY <1>2, <1>6, <2>2 DEF CalmInv, Orderly
  <2> QED BY <2>1, <2>2
<1>9. UNCHANGED <<pc, draft, inbox, due>>
  BY DEF TryCreate
<1>10. \A s \in Station : ToSend(s)' <=> ToSend(s)
  BY <1>9 DEF ToSend
<1>11. Rounds'
  <2>1. ASSUME NEW s \in Station, NEW l \in Station, inbox[l][s].op = "join",
               Tied(mgr[s], inbox[l][s].about)
        PROVE  Tied(mgr'[s], inbox[l][s].about)
    BY <1>7, <2>1 DEF Loyal
  <2>2. \A s \in Station : s \notin mgr'[s].members
    BY <1>5, <1>6 DEF CalmInv, Rounds
  <2> QED BY <1>2, <1>9, <1>10, <2>1, <2>2 DEF CalmInv, Rounds
<1>12. ASSUME NEW l \in Station, mgr'[l].cluster # None, NEW s \in Station \ {l}
       PROVE  Agreed(l, s)'
  <2>1. CASE l = x
    <3>1. mgr'[l].cluster = id /\ mgr'[l].members = {} /\ mgr'[s] = mgr[s]
      BY <1>5, <1>6, <2>1, <1>12
    <3>2. mgr[s].target # id /\ mgr[s].joined # id
      <4>1. Orderly(mgr[s], used) /\ id \notin used /\ id # None
        BY DEF CalmInv, Id
      <4> QED BY <4>1 DEF Orderly
    <3>3. ~Engaged(mgr'[s], id) /\ ~Asking(mgr'[s], id)
      BY <3>1, <3>2 DEF Engaged, Asking
    <3> QED BY <3>1, <3>3 DEF Agreed
  <2>2. CASE l # x
    <3>1. mgr'[l] = mgr[l] /\ Agreed(l, s)
      BY <1>6, <1>12, <2>2 DEF CalmInv
    <3>2. /\ Tells(l, s, "join")' <=> Tells(l, s, "join")
          /\ Tells(l, s, "leave")' <=> Tells(l, s, "leave")
      BY <1>9, <3>1 DEF Tells
    <3>3. Loyal(mgr[s], mgr'[s])
      BY <1>7
    <3> QED BY <1>10, <3>1, <3>2, <3>3 DEF Agreed, Loyal
  <2> QED BY <2>1, <2>2
<1> QED BY <1>8, <1>11, <1>12 DEF CalmInv

LEMMA AppCalm ==
  ASSUME Calm, IInv, CalmInv, NEW s \in Station, AppNext(s)
  PROVE  CalmInv'
<1>1. Sound(mgr[s]) /\ Orderly(mgr[s], used)
  BY DEF IInv, AllSound, CalmInv
<1>2. CASE SetRoleOn(s)
  BY <1>1, <1>2 DEF SetRoleOn, Orderly
<1>3. CASE SetRoleOff(s)
  BY <1>3 DEF SetRoleOff, Calm
<1>4. CASE TryCreate(s)
  BY <1>4, CreateCalm
<1>5. CASE InitiateJoin(s)
  <2>1. mgr[s].state = "standalone" /\ mgr[s].join = "none" /\ ~mgr[s].leaving
    BY <1>5 DEF InitiateJoin, Quiet, Calm
  <2> QED BY <1>1, <1>5, <2>1, JoiningOrderly, BecomesCalm DEF InitiateJoin
<1>6. CASE CancelJoin(s)
  BY <1>1, <1>6, AbandonedOrderly, BecomesCalm DEF CancelJoin
<1>7. CASE TriggerLeave(s)
  BY <1>1, <1>7, LeftOrderly, BecomesCalm DEF TriggerLeave
<1>8. CASE TriggerBreakup(s)
  BY <1>1, <1>8, WarnedOrderly, BecomesCalm DEF TriggerBreakup
<1> QED BY <1>2, <1>3, <1>4, <1>5, <1>6, <1>7, <1>8 DEF AppNext

LEMMA UpdateCalm ==
  ASSUME Calm, IInv, CalmInv, NEW s \in Station, Update(s)
  PROVE  CalmInv'
<1>1. PICK gone \in SUBSET Lapsing(s) :
        mgr' = [mgr EXCEPT ![s] = Updated(mgr[s], gone)]
  BY DEF Update
<1>2. Sound(mgr[s]) /\ Orderly(mgr[s], used)
  BY DEF IInv, AllSound, CalmInv
<1>3. Orderly(Updated(mgr[s], gone), used) /\ Smooth(mgr[s], Updated(mgr[s], gone))
  BY <1>2, UpdatedOrderly
<1>4. \A r \in Station : "vam" \in due'[r] <=> "vam" \in due[r]
  BY DEF Update, IInv, TypeOK
<1>5. UNCHANGED <<pc, draft, inbox, used>>
  BY DEF Update
<1> QED BY <1>1, <1>3, <1>4, <1>5, SmoothStep

(* A VAM is processed: the station may change, and if it leads a cluster   *)
(* so does what it knows of the sender.                                    *)
LEMMA ReceiveCalm ==
  ASSUME IInv, CalmInv, NEW x \in Station, Receive(x)
  PROVE  CalmInv'
<1>1. PICK f \in Station :
        /\ inbox[x][f] # None
        /\ mgr' = [mgr EXCEPT ![x] = Received(mgr[x], inbox[x][f])]
        /\ inbox' = [inbox EXCEPT ![x][f] = None]
        /\ UNCHANGED <<pc, draft, due, used>>
  BY DEF Receive
<1>2. PICK vam : vam = inbox[x][f]
  OBVIOUS
<1>3. PICK n : n = Received(mgr[x], vam)
  OBVIOUS
<1>4. /\ vam \in VAM /\ vam.info \in used \cup {None} /\ vam.from = f
      /\ f # x /\ ~ToSend(f)
      /\ vam.op = "join" => Tied(mgr[f], vam.about)
  BY <1>1, <1>2 DEF IInv, TypeOK, CalmInv, Rounds
<1>5. Sound(mgr[x]) /\ Orderly(mgr[x], used)
  BY DEF IInv, AllSound, CalmInv
<1>6. /\ Orderly(n, used) /\ Loyal(mgr[x], n)
      /\ n.cluster # None => n.cluster = mgr[x].cluster /\ n.members = Tally(mgr[x], vam)
  BY <1>3, <1>4, <1>5, ReceivedOrderly
<1>7. \A s \in Station : mgr'[s] = IF s = x THEN n ELSE mgr[s]
  BY <1>1, <1>2, <1>3 DEF IInv, TypeOK
<1>8. \A l, s \in Station : inbox'[l][s] = IF l = x /\ s = f THEN None ELSE inbox[l][s]
  BY <1>1 DEF IInv, TypeOK
<1>9. \A s \in Station : Loyal(mgr[s], mgr'[s])
  BY <1>6, <1>7, SmoothSelf DEF Smooth
<1>10. \A s \in Station : ToSend(s)' <=> ToSend(s)
  BY <1>1 DEF ToSend
<1>11. \A s \in Station : Orderly(mgr'[s], used')
  BY <1>1, <1>6, <1>7 DEF CalmInv
<1>12. Rounds'
  <2>1. ASSUME NEW s \in Station, NEW l \in Station, inbox[l][s].op = "join",
               Tied(mgr[s], inbox[l][s].about)
        PROVE  Tied(mgr'[s], inbox[l][s].about)
    BY <1>9, <2>1 DEF Loyal
  <2>2. ASSUME NEW s \in Station
        PROVE  s \notin mgr'[s].members
    <3>1. CASE s # x
      BY <1>7, <3>1 DEF CalmInv, Rounds
    <3>2. CASE s = x /\ n.cluster = None
      BY <1>6, <1>7, <3>2 DEF Orderly
    <3>3. CASE s = x /\ n.cluster # None
      <4>1. x \notin mgr[x].members
        BY DEF CalmInv, Rounds
      <4> QED BY <1>4, <1>6, <1>7, <3>3, <4>1 DEF Tally
    <3> QED BY <3>1, <3>2, <3>3
  <2>3. ASSUME NEW s \in Station, NEW l \in Station, inbox'[l][s] # None
        PROVE  inbox'[l][s] = inbox[l][s]
    BY <1>8, <2>3
  <2> QED BY <1>1, <1>8, <1>10, <2>1, <2>2, <2>3 DEF CalmInv, Rounds
<1>13. ASSUME NEW l \in Station, mgr'[l].cluster # None, NEW s \in Station \ {l}
       PROVE  Agreed(l, s)'
  <2>1. mgr'[l].cluster = mgr[l].cluster /\ Agreed(l, s)
    BY <1>6, <1>7, <1>13 DEF CalmInv
  <2>2. Loyal(mgr[s], mgr'[s])
    BY <1>9
  <2>3. CASE l = x /\ s = f
    <3> DEFINE id == mgr[l].cluster
    <3>1. mgr'[l].cluster = id /\ mgr'[s] = mgr[s] /\ mgr'[l].members = Tally(mgr[l], vam)
      BY <1>6, <1>7, <1>13, <2>3
    <3>2. /\ ~Tells(l, s, "join")' /\ ~Tells(l, s, "leave")' /\ ~ToSend(s)
      BY <1>4, <1>8, <2>3 DEF Tells
    <3>3. /\ Tells(l, s, "join") <=> vam.op = "join" /\ vam.about = id
          /\ Tells(l, s, "leave") <=> vam.op = "leave" /\ vam.about = id
      BY <1>1, <1>2, <2>3 DEF Tells
    <3>4. /\ Tells(l, s, "join") => Tied(mgr[s], id) /\ s \in mgr'[l].members
          /\ Tells(l, s, "leave") => s \notin mgr'[l].members
          /\ ~Tells(l, s, "join") /\ ~Tells(l, s, "leave")
               => mgr'[l].members = mgr[l].members
      <4>1. Tells(l, s, "join") => Tied(mgr[s], id)
        BY <1>4, <2>3, <3>3
      <4> QED BY <1>4, <2>3, <3>1, <3>3, <4>1 DEF Tally
    <3> HIDE DEF id
    <3>5. /\ Engaged(mgr[s], id) => s \in mgr[l].members /\ ~Tells(l, s, "leave")
          /\ Asking(mgr[s], id) =>
               (s \in mgr[l].members \/ Tells(l, s, "join")) /\ ~Tells(l, s, "leave")
          /\ s \in mgr[l].members => Tied(mgr[s], id) \/ Tells(l, s, "leave")
      BY <2>1, <3>2 DEF Agreed, id
    <3>6. /\ Engaged(mgr[s], id) => s \in mgr'[l].members
          /\ Asking(mgr[s], id) => s \in mgr'[l].members
          /\ s \in mgr'[l].members => Tied(mgr[s], id)
      BY <3>4, <3>5
    <3> QED BY <3>1, <3>2, <3>6 DEF Agreed
  <2>4. CASE ~(l = x /\ s = f)
    <3>1. /\ Tells(l, s, "join")' <=> Tells(l, s, "join")
          /\ Tells(l, s, "leave")' <=> Tells(l, s, "leave")
      BY <1>8, <2>1, <2>4 DEF Tells
    <3>2. s \in mgr'[l].members <=> s \in mgr[l].members
      BY <1>4, <1>6, <1>7, <1>13, <2>4 DEF Tally
    <3> QED BY <1>10, <2>1, <2>2, <3>1, <3>2 DEF Agreed, Loyal
  <2> QED BY <2>3, <2>4
<1> QED BY <1>11, <1>12, <1>13 DEF CalmInv

(* Who announces something sends a VAM, and the VAM says it.               *)
LEMMA Announces ==
  ASSUME NEW m, Sound(m), NEW ids, Orderly(m, ids), NEW id, id # None
  PROVE  /\ Asking(m, id) \/ Parting(m, id) => ShouldTransmit(m)
         /\ Asking(m, id) => Operation(m).op = "join" /\ Operation(m).about = id
         /\ Engaged(m, id) \/ Asking(m, id) => Operation(m).op # "leave"
         /\ Parting(m, id) => Operation(m).op = "leave" /\ Operation(m).about = id
         /\ Operation(m).op = "join" => Tied(m, Operation(m).about)
<1>1. /\ m.state = "passive" <=> m.join = "joined"
      /\ m.leaving => m.join \notin {"waiting", "joined"}
      /\ m.join \notin {"none", "joined"} => m.state = "standalone"
      /\ m.leaving => m.state = "standalone" /\ m.join = "none"
      /\ m.leaving \in BOOLEAN
  BY DEF Sound, Orderly, Manager
<1>2. CASE m.join = "notify"
  <2>1. Operation(m) = [op |-> "join", about |-> m.target]
    BY <1>1, <1>2 DEF Operation
  <2> QED BY <1>1, <1>2, <2>1 DEF Asking, Parting, Engaged, Tied, ShouldTransmit
<1>3. CASE m.join \in {"cancelled", "failed"}
  <2>1. Operation(m) = [op |-> "leave", about |-> m.target]
    BY <1>1, <1>3 DEF Operation
  <2> QED BY <1>1, <1>3, <2>1 DEF Asking, Parting, Engaged, Tied, ShouldTransmit
<1>4. CASE m.leaving
  <2>1. Operation(m) = [op |-> "leave", about |-> m.left]
    BY <1>1, <1>4 DEF Operation, LeaveInfo
  <2> QED BY <1>1, <1>4, <2>1 DEF Asking, Parting, Engaged, Tied, ShouldTransmit
<1>5. CASE m.join \notin {"notify", "cancelled", "failed"} /\ ~m.leaving
  <2>1. Operation(m).op \in {"none", "breakup", "cpm"}
    BY <1>5 DEF Operation, LeaveInfo
  <2> QED BY <1>5, <2>1 DEF Asking, Parting, Engaged, Tied
<1> QED BY <1>2, <1>3, <1>4, <1>5

LEMMA CallbackCalm ==
  ASSUME IInv, CalmInv, NEW x \in Station, LocationCallback(x)
  PROVE  CalmInv'
<1>1. /\ pc[x] = "idle" /\ "vam" \in due[x] /\ UNCHANGED <<mgr, draft, inbox, used>>
      /\ \A s \in Station : s # x => pc'[s] = pc[s] /\ due'[s] = due[s]
      /\ pc'[x] = IF ShouldTransmit(mgr[x]) THEN "inform" ELSE "idle"
      /\ "vam" \notin due'[x]
  BY DEF LocationCallback, IInv, TypeOK
<1>2. \A s \in Station : ToSend(s)' <=> ToSend(s) /\ (s = x => ShouldTransmit(mgr[s]))
  BY <1>1 DEF ToSend
<1>3. Rounds'
  BY <1>1, <1>2 DEF CalmInv, Rounds, ToSend
<1>4. ASSUME NEW l \in Station, mgr'[l].cluster # None, NEW s \in Station \ {l}
      PROVE  Agreed(l, s)'
  <2>1. Agreed(l, s) /\ mgr' = mgr
    BY <1>1, <1>4 DEF CalmInv
  <2>2. \A op : Tells(l, s, op)' <=> Tells(l, s, op)
    BY <1>1 DEF Tells
  <2>3. \/ Asking(mgr[s], mgr[l].cluster)
        \/ Parting(mgr[s], mgr[l].cluster)
        => (ToSend(s)' <=> ToSend(s))
    <3>1. Sound(mgr[s]) /\ Orderly(mgr[s], used) /\ mgr[l].cluster # None
      BY <1>4, <2>1 DEF IInv, AllSound, CalmInv
    <3>2. \/ Asking(mgr[s], mgr[l].cluster)
          \/ Parting(mgr[s], mgr[l].cluster)
          => ShouldTransmit(mgr[s])
      BY <3>1, Announces
    <3> QED BY <1>2, <3>2
  <2> QED BY <2>1, <2>2, <2>3 DEF Agreed
<1> QED BY <1>1, <1>3, <1>4 DEF CalmInv

LEMMA InformCalm ==
  ASSUME IInv, CalmInv, NEW x \in Station, Inform(x)
  PROVE  CalmInv'
<1>1. /\ pc[x] = "inform" /\ UNCHANGED <<mgr, inbox, due, used>>
      /\ \A s \in Station : s # x => pc'[s] = pc[s] /\ draft'[s] = draft[s]
      /\ pc'[x] = "operate" /\ draft'[x] = Information(mgr[x])
  BY DEF Inform, IInv, TypeOK
<1>2. \A s \in Station : ToSend(s)' <=> ToSend(s)
  BY <1>1 DEF ToSend
<1>3. \A s \in Station : draft'[s] \in used \cup {None}
  <2>1. draft'[x] \in used \cup {None}
    BY <1>1 DEF CalmInv, Orderly, Information
  <2> QED BY <1>1, <2>1 DEF CalmInv, Rounds
<1>4. \A s \in Station : pc'[s] # "idle" => "vam" \notin due'[s]
  BY <1>1 DEF CalmInv, Rounds
<1>5. Rounds'
  BY <1>1, <1>2, <1>3, <1>4 DEF CalmInv, Rounds
<1>6. ASSUME NEW l \in Station, mgr'[l].cluster # None, NEW s \in Station \ {l}
      PROVE  Agreed(l, s)'
  <2>1. Agreed(l, s) /\ mgr' = mgr
    BY <1>1, <1>6 DEF CalmInv
  <2>2. \A op : Tells(l, s, op)' <=> Tells(l, s, op)
    BY <1>1 DEF Tells
  <2> QED BY <1>2, <2>1, <2>2 DEF Agreed
<1> QED BY <1>1, <1>5, <1>6 DEF CalmInv

LEMMA OperateCalm ==
  ASSUME Calm, IInv, CalmInv, NEW x \in Station, Operate(x)
  PROVE  CalmInv'
<1>1. PICK vam : vam = [from |-> x, info |-> draft[x], op |-> Operation(mgr[x]).op,
                        about |-> Operation(mgr[x]).about]
  OBVIOUS
<1>2. inbox' = [r \in Station |->
        IF r \in Station \ {x} THEN [inbox[r] EXCEPT ![x] = vam] ELSE inbox[r]]
  BY <1>1 DEF Operate, Calm
<1>3. \A l, s \in Station : inbox'[l][s] = IF s = x /\ l # x THEN vam ELSE inbox[l][s]
  BY <1>2 DEF IInv, TypeOK
<1>4. /\ pc[x] = "operate" /\ UNCHANGED <<mgr, due, used>>
      /\ \A s \in Station : s # x => pc'[s] = pc[s] /\ draft'[s] = draft[s]
      /\ pc'[x] = "idle" /\ draft'[x] = None
  BY DEF Operate, IInv, TypeOK
<1>5. /\ \A s \in Station : ToSend(s)' <=> ToSend(s) /\ s # x
      /\ \A l \in Station : inbox[l][x] = None
  BY <1>4 DEF ToSend, CalmInv, Rounds
<1>6. Sound(mgr[x]) /\ Orderly(mgr[x], used)
  BY DEF IInv, AllSound, CalmInv
<1>7. vam # None /\ vam.from = x /\ vam.info \in used \cup {None}
  <2>1. vam.from \in Station /\ vam.from = x /\ vam.info = draft[x]
    BY <1>1
  <2>2. vam \in VAM
    <3>1. mgr[x] \in Manager /\ draft[x] \in Id \cup {None}
      BY <1>6 DEF Sound, IInv, TypeOK
    <3> QED BY <1>1, <3>1, OperationType DEF VAM
  <2>3. vam # None
    BY <2>2, NoneAssumption
  <2> QED BY <2>1, <2>3 DEF CalmInv, Rounds
<1>8. vam.op = "join" => Tied(mgr[x], vam.about)
  <2>1. PICK id : id = 0
    OBVIOUS
  <2>2. id # None
    BY <2>1 DEF Id
  <2>3. Operation(mgr[x]).op = "join" => Tied(mgr[x], Operation(mgr[x]).about)
    BY <1>6, <2>2, Announces
  <2> QED BY <1>1, <2>3
<1>9. Rounds'
  BY <1>3, <1>4, <1>5, <1>7, <1>8 DEF CalmInv, Rounds
<1>10. ASSUME NEW l \in Station, mgr'[l].cluster # None, NEW s \in Station \ {l}
       PROVE  Agreed(l, s)'
  <2>1. Agreed(l, s) /\ mgr' = mgr
    BY <1>4, <1>10 DEF CalmInv
  <2>2. CASE s # x
    <3>1. \A op : Tells(l, s, op)' <=> Tells(l, s, op)
      BY <1>3, <1>4, <2>2 DEF Tells
    <3> QED BY <1>5, <2>1, <2>2, <3>1 DEF Agreed
  <2>3. CASE s = x
    <3> DEFINE id == mgr[l].cluster
    <3>1. inbox'[l][s] = vam /\ ~Tells(l, s, "join") /\ ~Tells(l, s, "leave")
      BY <1>3, <1>5, <1>10, <2>3 DEF Tells
    <3>2. /\ Tells(l, s, "join")' <=> vam.op = "join" /\ vam.about = id
          /\ Tells(l, s, "leave")' <=> vam.op = "leave" /\ vam.about = id
      BY <1>4, <1>7, <3>1 DEF Tells
    <3>3. id # None
      BY <1>10, <2>1
    <3> HIDE DEF id
    <3>4. /\ Asking(mgr[s], id) => vam.op = "join" /\ vam.about = id
          /\ Engaged(mgr[s], id) \/ Asking(mgr[s], id) => vam.op # "leave"
          /\ Parting(mgr[s], id) => vam.op = "leave" /\ vam.about = id
      <4>1. /\ Asking(mgr[x], id) =>
                  Operation(mgr[x]).op = "join" /\ Operation(mgr[x]).about = id
            /\ Engaged(mgr[x], id) \/ Asking(mgr[x], id) => Operation(mgr[x]).op # "leave"
            /\ Parting(mgr[x], id) =>
                  Operation(mgr[x]).op = "leave" /\ Operation(mgr[x]).about = id
        BY <1>6, <3>3, Announces
      <4> QED BY <1>1, <2>3, <4>1
    <3>5. /\ Engaged(mgr[s], id) => s \in mgr[l].members
          /\ s \in mgr[l].members => Tied(mgr[s], id) \/ Parting(mgr[s], id)
      BY <2>1 DEF Agreed, id
    <3>6. /\ Asking(mgr[s], id) => Tells(l, s, "join")'
          /\ Engaged(mgr[s], id) \/ Asking(mgr[s], id) => ~Tells(l, s, "leave")'
          /\ Parting(mgr[s], id) => Tells(l, s, "leave")'
      BY <3>2, <3>4
    <3> QED BY <2>1, <3>5, <3>6 DEF Agreed, id
  <2> QED BY <2>2, <2>3
<1> QED BY <1>4, <1>9, <1>10 DEF CalmInv

(* A round ends: what was announced in it has been heard.                  *)
LEMMA AgedOrderly ==
  ASSUME Calm, NEW m, Sound(m), NEW ids, Orderly(m, ids)
  PROVE  /\ Orderly(Aged(m), ids)
         /\ Aged(m).cluster = m.cluster /\ Aged(m).members = m.members
         /\ \A id : /\ Engaged(Aged(m), id) => Engaged(m, id) \/ Asking(m, id)
                    /\ Tied(m, id) => Tied(Aged(m), id) \/ Parting(Aged(m), id)
<1>0. PICK n : n = Aged(m)
  OBVIOUS
<1>1. m \in Manager
  BY DEF Sound
<1>2. /\ n.state = m.state /\ n.cluster = m.cluster /\ n.members = m.members
      /\ n.seen = m.seen /\ n.join = m.join /\ n.target = m.target
      /\ n.joined = m.joined /\ n.leaving = m.leaving /\ n.left = m.left
      /\ n.joinAge = Older(m.joinAge, JoinNotify)
      /\ n.quitAge = Older(m.quitAge, LeaveNotify)
      /\ n.leaveAge = Older(m.leaveAge, LeaveNotify)
  BY <1>0, <1>1 DEF Manager, Aged
<1>3. Orderly(n, ids)
  BY <1>2 DEF Orderly
<1>4. /\ m.joinAge # Never /\ n.joinAge >= 2 => m.joinAge >= 1
      /\ m.quitAge = 0 => n.quitAge = 1
      /\ m.leaveAge = 0 => n.leaveAge = 1
  <2>1. m.joinAge \in Age(JoinNotify)
    BY <1>1 DEF Manager
  <2> QED BY <1>2, <2>1, Ages DEF Calm, Age, Older
<1>5. m.join = "notify" => m.joinAge # Never
  BY DEF Sound
<1>6. \A id : /\ Engaged(n, id) => Engaged(m, id) \/ Asking(m, id)
              /\ Tied(m, id) => Tied(n, id) \/ Parting(n, id)
  BY <1>2, <1>4, <1>5 DEF Engaged, Asking, Tied, Parting
<1>7. n.cluster = m.cluster /\ n.members = m.members
  BY <1>2
<1> QED BY <1>0, <1>3, <1>6, <1>7

LEMMA TickCalm ==
  ASSUME Calm, IInv, CalmInv, Tick
  PROVE  CalmInv'
<1>1. /\ \A s \in Station : pc[s] = "idle" /\ due[s] = {} /\ ~ToSend(s)
      /\ \A l, s \in Station : inbox[l][s] = None
      /\ \A s \in Station : mgr'[s] = Aged(mgr[s]) /\ due'[s] = {"update", "vam"}
      /\ UNCHANGED <<pc, draft, inbox, used>>
  BY DEF Tick, Busy, ToSend
<1>2. \A s \in Station : Sound(mgr[s]) /\ Orderly(mgr[s], used)
  BY DEF IInv, AllSound, CalmInv
<1>3. \A s \in Station :
        /\ Orderly(mgr'[s], used)
        /\ mgr'[s].cluster = mgr[s].cluster /\ mgr'[s].members = mgr[s].members
        /\ \A id : /\ Engaged(mgr'[s], id) => Engaged(mgr[s], id) \/ Asking(mgr[s], id)
                   /\ Tied(mgr[s], id) => Tied(mgr'[s], id) \/ Parting(mgr'[s], id)
  BY <1>1, <1>2, AgedOrderly
<1>4. Rounds'
  BY <1>1, <1>3 DEF CalmInv, Rounds
<1>5. ASSUME NEW l \in Station, mgr'[l].cluster # None, NEW s \in Station \ {l}
      PROVE  Agreed(l, s)'
  <2> DEFINE id == mgr[l].cluster
  <2>1. Agreed(l, s) /\ mgr'[l].cluster = id /\ mgr'[l].members = mgr[l].members
    BY <1>3, <1>5 DEF CalmInv
  <2>2. /\ \A op : ~Tells(l, s, op) /\ ~Tells(l, s, op)'
        /\ ~ToSend(s) /\ ToSend(s)'
    BY <1>1 DEF Tells, ToSend
  <2> HIDE DEF id
  <2>3. /\ Engaged(mgr[s], id) \/ Asking(mgr[s], id) => s \in mgr[l].members
        /\ s \in mgr[l].members => Tied(mgr[s], id)
    BY <2>1, <2>2 DEF Agreed, id
  <2>4. /\ Engaged(mgr'[s], id) => Engaged(mgr[s], id) \/ Asking(mgr[s], id)
        /\ Tied(mgr[s], id) => Tied(mgr'[s], id) \/ Parting(mgr'[s], id)
    BY <1>3
  <2> QED BY <2>1, <2>2, <2>3, <2>4 DEF Agreed
<1> QED BY <1>1, <1>3, <1>4, <1>5 DEF CalmInv

LEMMA NextCalm ==
  ASSUME Calm
  PROVE  IInv /\ CalmInv /\ [Next]_vars => CalmInv'
<1> SUFFICES ASSUME IInv, CalmInv, [Next]_vars
             PROVE  CalmInv'
  OBVIOUS
<1>1. CASE Tick
  BY <1>1, TickCalm
<1>2. ASSUME NEW s \in Station, AppNext(s)
      PROVE  CalmInv'
  BY <1>2, AppCalm
<1>3. ASSUME NEW s \in Station, Work(s)
      PROVE  CalmInv'
  BY <1>3, UpdateCalm, CallbackCalm, InformCalm, OperateCalm, ReceiveCalm DEF Work
<1>4. CASE UNCHANGED vars
  <2>1. /\ \A s \in Station : ToSend(s)' <=> ToSend(s)
        /\ \A l, s \in Station, op \in {"join", "leave"} : Tells(l, s, op)' <=> Tells(l, s, op)
    BY <1>4 DEF vars, ToSend, Tells
  <2>2. UNCHANGED <<mgr, pc, draft, inbox, due, used>>
    BY <1>4 DEF vars
  <2>3. Rounds'
    BY <2>1, <2>2 DEF CalmInv, Rounds
  <2>4. \A l, s \in Station : Agreed(l, s) => Agreed(l, s)'
    BY <2>1, <2>2 DEF Agreed
  <2> QED BY <2>2, <2>3, <2>4 DEF CalmInv
<1> QED BY <1>1, <1>2, <1>3, <1>4 DEF Next

LEMMA InitCalm == Init => CalmInv
<1> SUFFICES ASSUME Init
             PROVE  CalmInv
  OBVIOUS
<1>1. \A s \in Station : mgr[s] = Fresh
  BY DEF Init
<1>2. Orderly(Fresh, used)
  BY DEF Orderly, Fresh
<1>3. Rounds
  BY <1>1 DEF Init, Rounds, Fresh
<1>4. \A s \in Station : mgr[s].cluster = None
  BY <1>1 DEF Fresh
<1> QED BY <1>1, <1>2, <1>3, <1>4 DEF CalmInv

LEMMA CalmCounts == IInv /\ CalmInv => MembersCounted
<1>1. ASSUME IInv, CalmInv
      PROVE  MembersCounted
  <2> SUFFICES ASSUME NEW s \in Station, mgr[s].state = "passive",
                      mgr[mgr[s].leader].cluster = mgr[s].joined
               PROVE  s \in mgr[mgr[s].leader].members
    BY DEF MembersCounted
  <2>1. PICK l \in Station : l = mgr[s].leader
    BY <1>1 DEF IInv, AllSound, Sound, Manager
  <2>2. mgr[s].join = "joined" /\ mgr[s].joined # None /\ mgr[s].cluster = None
    BY <1>1 DEF IInv, AllSound, Sound
  <2>3. l # s /\ mgr[l].cluster # None
    BY <2>1, <2>2
  <2>4. Agreed(l, s)
    BY <1>1, <2>3 DEF CalmInv
  <2>5. Engaged(mgr[s], mgr[l].cluster)
    BY <2>1, <2>2 DEF Engaged
  <2> QED BY <2>1, <2>4, <2>5 DEF Agreed
<1> QED BY <1>1

LEMMA CalmNoneForgotten == IInv /\ CalmInv => NoGhosts
<1>1. ASSUME IInv, CalmInv
      PROVE  NoGhosts
  <2> SUFFICES ASSUME NEW l \in Station, NEW s \in mgr[l].members
               PROVE  mgr[s].join # "none" \/ mgr[s].leaving
    BY DEF NoGhosts
  <2>1. s \in Station /\ s # l
    BY <1>1 DEF IInv, AllSound, Sound, Manager, CalmInv, Rounds
  <2>2. mgr[l].cluster # None
    BY <1>1 DEF CalmInv, Orderly
  <2>3. Agreed(l, s)
    BY <1>1, <2>1, <2>2 DEF CalmInv
  <2>4. Tied(mgr[s], mgr[l].cluster) \/ Parting(mgr[s], mgr[l].cluster)
    BY <2>3 DEF Agreed
  <2> QED BY <2>4 DEF Tied, Parting
<1> QED BY <1>1

-----------------------------------------------------------------------------
(* In a behaviour of ClusterServices, the first world is one of VruCluster.*)
CalmWorld == part = "calm" => IInv /\ CalmInv

LEMMA AlwaysCalmWorld == ASSUME Calm PROVE PartSpec => []CalmWorld
<1>1. PartInit => CalmWorld
  BY InitIInv, InitCalm DEF PartInit, CalmWorld
<1>2. CalmWorld /\ [PartNext]_<<vars, part>> => CalmWorld'
  <2> SUFFICES ASSUME CalmWorld, [PartNext]_<<vars, part>>, part' = "calm"
               PROVE  IInv' /\ CalmInv'
    BY DEF CalmWorld
  <2>1. part = "calm" /\ [Next]_vars
    BY DEF PartNext
  <2> QED BY <2>1, NextIInv, NextCalm DEF CalmWorld
<1> QED BY <1>1, <1>2, PTL DEF PartSpec

(* The leader of a member counts it, for any number of stations that       *)
(* create and join clusters in any order, if all VAMs arrive               *)
(* (_complete_join, _process_received_vam).                                *)
THEOREM CalmAlwaysCounted == ASSUME Calm PROVE PartSpec => []CalmMembersCounted
<1>1. CalmWorld => CalmMembersCounted
  BY CalmCounts DEF CalmWorld, CalmMembersCounted
<1> QED BY <1>1, AlwaysCalmWorld, PTL

(* Whom a leader counts is joining, a member, or about to tell that it is  *)
(* not, if all VAMs arrive: otherwise members are never forgotten          *)
(* (_process_received_vam).                                                *)
THEOREM CalmNeverGhosts == ASSUME Calm PROVE PartSpec => []CalmNoGhosts
<1>1. CalmWorld => CalmNoGhosts
  BY CalmNoneForgotten DEF CalmWorld, CalmNoGhosts
<1> QED BY <1>1, AlwaysCalmWorld, PTL
=============================================================================
