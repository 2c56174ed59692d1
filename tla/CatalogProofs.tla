--------------------------- MODULE CatalogProofs ---------------------------
(***************************************************************************)
(* Proofs about the release catalog, for every set of releases, channels,  *)
(* archives and withdrawals.  The inductive invariant says, of every stage *)
(* an operation of the administrator can be left in, what the writes so    *)
(* far have established: it is what holds between any two of its steps.    *)
(***************************************************************************)
EXTENDS ReleaseCatalog, TLAPS

Steps ==
  \/ \E d \in Digests, a \in Archives : AdmitBegins(d, a)
  \/ \E p \in Paths : RegisterBody(p)
  \/ AdmitFails
  \/ AdmitEnds
  \/ \E c \in Channels, d \in Digests : PromoteBegins(c, d)
  \/ PointChannel
  \/ PromoteEnds
  \/ \E d \in Digests, e \in Evidence : WithdrawBegins(d, e)
  \/ \E c \in Channels : RemovePointer(c)
  \/ MarkWithdrawn
  \/ RecordEvidence

(* A rollback is a promotion.                                              *)
LEMMA StepCases == AdminStep => Steps
BY DEF AdminStep, Steps, RollbackBegins

LEMMA RecordType ==
  ASSUME CatalogTypeOK, NEW d \in Digests, Admitted(d)
  PROVE  /\ records[d] \in CatalogRecord
         /\ records[d].archive \in Archives
         /\ records[d].state \in ReleaseState
         /\ records[d].withdrawal \in Evidence \cup {None}
<1>1. records[d] \in CatalogRecord
  BY DEF CatalogTypeOK, Admitted
<1> QED
  BY <1>1 DEF CatalogRecord

LEMMA ContainedType ==
  ASSUME NEW a \in Archives, NEW p \in DOMAIN Contained[a]
  PROVE  p \in Paths /\ Contained[a][p].content \in Contents
<1>1. Contained[a][p] \in Concept
  BY CatalogAssumption
<1> QED
  BY <1>1, CatalogAssumption DEF Concept

(* What a write to the state or the withdrawal of a record leaves.         *)
LEMMA RecordUpdate ==
  ASSUME CatalogTypeOK, NEW d \in Digests, Admitted(d),
         NEW r \in CatalogRecord, records' = [records EXCEPT ![d] = r]
  PROVE  /\ records' \in [Digests -> CatalogRecord \cup {None}]
         /\ records'[d] = r
         /\ \A e \in Digests \ {d} : records'[e] = records[e]
         /\ \A e \in Digests : Admitted(e)' <=> Admitted(e)
<1>1. records \in [Digests -> CatalogRecord \cup {None}] /\ r # None
  BY NoneIsNoRecord DEF CatalogTypeOK
<1> QED
  BY <1>1 DEF Admitted

LEMMA StateUpdate ==
  ASSUME CatalogTypeOK, NEW d \in Digests, Admitted(d), NEW s \in ReleaseState
  PROVE  /\ [records[d] EXCEPT !.state = s] \in CatalogRecord
         /\ [records[d] EXCEPT !.state = s].state = s
         /\ [records[d] EXCEPT !.state = s].archive = records[d].archive
         /\ [records[d] EXCEPT !.state = s].withdrawal = records[d].withdrawal
BY RecordType DEF CatalogRecord

LEMMA EvidenceUpdate ==
  ASSUME CatalogTypeOK, NEW d \in Digests, Admitted(d), NEW e \in Evidence
  PROVE  /\ [records[d] EXCEPT !.withdrawal = e] \in CatalogRecord
         /\ [records[d] EXCEPT !.withdrawal = e].state = records[d].state
         /\ [records[d] EXCEPT !.withdrawal = e].archive = records[d].archive
         /\ [records[d] EXCEPT !.withdrawal = e].withdrawal = e
BY RecordType DEF CatalogRecord

-----------------------------------------------------------------------------
(* The invariant *)

StageFacts ==
  /\ admin.stage = "registering" => ~Admitted(admin.digest)
  /\ admin.stage \in {"pointing", "activating"} => Promotable(admin.digest)
  /\ admin.stage = "unpointing" =>
       Promotable(admin.digest) /\ ChannelsFor(admin.digest) \subseteq admin.channels
  /\ admin.stage = "recording" =>
       /\ Withdrawn(admin.digest)
       /\ ChannelsFor(admin.digest) = {}
       /\ records[admin.digest].withdrawal = None

EvidenceFollows ==
  \A d \in Digests : Admitted(d) /\ records[d].withdrawal # None => Withdrawn(d)

(* Bodies registered so far by an admission in progress.                   *)
BodiesRegistered ==
  admin.stage = "registering" =>
    \A p \in DOMAIN Contained[admin.archive] \ admin.paths :
      bodies[admin.digest][p] = Contained[admin.archive][p].content

CatalogInv ==
  /\ CatalogTypeOK
  /\ StageFacts
  /\ EvidenceFollows
  /\ PointersServeActive
  /\ BodiesRegistered
  /\ BodiesMatchAdmission

LEMMA InitCatalogInv == CatalogInit => CatalogInv
<1> SUFFICES ASSUME CatalogInit PROVE CatalogInv
  OBVIOUS
<1> USE DEF CatalogInit
<1>1. CatalogTypeOK
  BY DEF CatalogTypeOK, NoOperation, Operation, AdminStages
<1>2. StageFacts /\ BodiesRegistered
  BY DEF StageFacts, BodiesRegistered, NoOperation
<1>3. EvidenceFollows /\ BodiesMatchAdmission
  BY DEF EvidenceFollows, BodiesMatchAdmission, Admitted
<1>4. PointersServeActive
  BY DEF PointersServeActive
<1> QED
  BY <1>1, <1>2, <1>3, <1>4 DEF CatalogInv

(* A promotion or withdrawal never touches a body, nor the archive of a    *)
(* release.                                                                *)
LEMMA BodiesKept ==
  ASSUME CatalogInv, UNCHANGED bodies,
         admin'.stage # "registering",
         \A d \in Digests : Admitted(d)' => Admitted(d) /\ records'[d].archive = records[d].archive
  PROVE  BodiesRegistered' /\ BodiesMatchAdmission'
<1>1. BodiesRegistered'
  BY DEF BodiesRegistered
<1>2. BodiesMatchAdmission'
  BY DEF CatalogInv, BodiesMatchAdmission
<1> QED
  BY <1>1, <1>2

LEMMA AdmitBeginsKeeps ==
  ASSUME CatalogInv, NEW d \in Digests, NEW a \in Archives, AdmitBegins(d, a)
  PROVE  CatalogInv'
<1> USE DEF CatalogInv, AdmitBegins
<1>1. /\ admin' \in Operation
      /\ admin'.stage = "registering" /\ admin'.digest = d /\ admin'.archive = a
      /\ admin'.paths = DOMAIN Contained[a]
  BY CatalogAssumption DEF NoOperation, Operation, AdminStages
<1>2. CatalogTypeOK'
  BY <1>1 DEF CatalogTypeOK
<1>3. StageFacts'
  BY <1>1 DEF StageFacts, Admitted
<1>4. EvidenceFollows' /\ BodiesMatchAdmission'
  BY DEF EvidenceFollows, BodiesMatchAdmission, Admitted, Withdrawn
<1>5. PointersServeActive'
  BY DEF PointersServeActive, Admitted, Withdrawn, NoOperation
<1>6. BodiesRegistered'
  BY <1>1 DEF BodiesRegistered
<1> QED
  BY <1>2, <1>3, <1>4, <1>5, <1>6

LEMMA RegisterBodyKeeps ==
  ASSUME CatalogInv, NEW p \in Paths, RegisterBody(p)
  PROVE  CatalogInv'
<1> DEFINE d == admin.digest
           a == admin.archive
<1> USE DEF CatalogInv
<1>1. /\ d \in Digests /\ a \in Archives /\ admin.paths \subseteq DOMAIN Contained[a]
      /\ admin.stage = "registering" /\ p \in admin.paths
      /\ bodies' = [bodies EXCEPT ![d][p] = Contained[a][p].content]
      /\ admin' = [admin EXCEPT !.paths = admin.paths \ {p}]
      /\ bodies[d][p] \in {None, Contained[a][p].content}
      /\ UNCHANGED <<records, channels>>
  BY DEF RegisterBody, Register, CatalogTypeOK
<1>2. /\ admin' \in Operation /\ admin'.stage = admin.stage /\ admin'.digest = d
      /\ admin'.archive = a /\ admin'.paths = admin.paths \ {p}
  BY <1>1 DEF CatalogTypeOK, Operation
<1>3. bodies' \in [Digests -> [Paths -> Contents \cup {None}]]
  BY <1>1, ContainedType DEF CatalogTypeOK
<1>4. CatalogTypeOK'
  BY <1>1, <1>2, <1>3 DEF CatalogTypeOK
<1>5. StageFacts'
  BY <1>1, <1>2 DEF StageFacts, Admitted
<1>6. EvidenceFollows'
  BY <1>1 DEF EvidenceFollows, Admitted, Withdrawn
<1>7. PointersServeActive'
  BY <1>1, <1>2 DEF PointersServeActive, Admitted, Withdrawn
<1>8. \A e \in Digests, q \in Paths : e # d \/ q # p => bodies'[e][q] = bodies[e][q]
  BY <1>1 DEF CatalogTypeOK
<1>9. bodies'[d][p] = Contained[a][p].content
  BY <1>1 DEF CatalogTypeOK
<1>10. BodiesRegistered'
  <2> SUFFICES ASSUME NEW q \in DOMAIN Contained[a] \ (admin.paths \ {p})
               PROVE  bodies'[d][q] = Contained[a][q].content
    BY <1>2 DEF BodiesRegistered
  <2>1. q \in Paths
    BY <1>1, ContainedType
  <2>2. CASE q = p
    BY <1>9, <2>2
  <2>3. CASE q # p
    BY <1>1, <1>8, <2>1, <2>3 DEF BodiesRegistered
  <2> QED
    BY <2>2, <2>3
<1>11. BodiesMatchAdmission'
  <2> SUFFICES ASSUME NEW e \in Digests, Admitted(e),
                      NEW q \in DOMAIN Contained[records[e].archive]
               PROVE  bodies'[e][q] = Contained[records[e].archive][q].content
    BY <1>1 DEF BodiesMatchAdmission, Admitted
  <2>1. e # d
    BY <1>1 DEF StageFacts
  <2>2. q \in Paths
    BY RecordType, ContainedType
  <2> QED
    BY <1>8, <2>1, <2>2 DEF BodiesMatchAdmission
<1> QED
  BY <1>4, <1>5, <1>6, <1>7, <1>10, <1>11

LEMMA AdmitFailsKeeps == CatalogInv /\ AdmitFails => CatalogInv'
<1> SUFFICES ASSUME CatalogInv, AdmitFails PROVE CatalogInv'
  OBVIOUS
<1> USE DEF CatalogInv, AdmitFails
<1>1. admin' \in Operation /\ admin'.stage = "idle"
  BY DEF NoOperation, Operation, AdminStages
<1>2. CatalogTypeOK'
  BY <1>1 DEF CatalogTypeOK
<1>3. StageFacts' /\ BodiesRegistered'
  BY <1>1 DEF StageFacts, BodiesRegistered
<1>4. EvidenceFollows' /\ BodiesMatchAdmission'
  BY DEF EvidenceFollows, BodiesMatchAdmission, Admitted, Withdrawn
<1>5. PointersServeActive'
  BY DEF PointersServeActive, Admitted, Withdrawn
<1> QED
  BY <1>2, <1>3, <1>4, <1>5

LEMMA AdmitEndsKeeps == CatalogInv /\ AdmitEnds => CatalogInv'
<1> SUFFICES ASSUME CatalogInv, AdmitEnds PROVE CatalogInv'
  OBVIOUS
<1> DEFINE d == admin.digest
           r == [archive |-> admin.archive, state |-> "candidate", withdrawal |-> None]
<1> USE DEF CatalogInv
<1>1. /\ d \in Digests /\ admin.archive \in Archives /\ admin.stage = "registering"
      /\ admin.paths = {} /\ records' = [records EXCEPT ![d] = r]
      /\ admin' = NoOperation /\ UNCHANGED <<channels, bodies>>
      /\ ~Admitted(d)
  BY DEF AdmitEnds, CatalogTypeOK, StageFacts
<1>2. r \in CatalogRecord /\ r # None
  BY <1>1, NoneIsNoRecord DEF CatalogRecord, ReleaseState
<1>3. /\ records' \in [Digests -> CatalogRecord \cup {None}]
      /\ records'[d] = r
      /\ \A e \in Digests \ {d} : records'[e] = records[e]
  BY <1>1, <1>2 DEF CatalogTypeOK
<1>4. admin' \in Operation /\ admin'.stage = "idle"
  BY <1>1 DEF NoOperation, Operation, AdminStages
<1>5. CatalogTypeOK'
  BY <1>1, <1>3, <1>4 DEF CatalogTypeOK
<1>6. StageFacts' /\ BodiesRegistered'
  BY <1>4 DEF StageFacts, BodiesRegistered
<1>7. EvidenceFollows'
  BY <1>3 DEF EvidenceFollows, Admitted, Withdrawn
<1>8. PointersServeActive'
  <2>1. \A c \in Channels : channels[c] # None => channels[c] \in Digests \ {d}
    BY <1>1 DEF PointersServeActive, CatalogTypeOK
  <2> QED
    BY <1>1, <1>3, <2>1 DEF PointersServeActive, Admitted, Withdrawn
<1>9. BodiesMatchAdmission'
  <2> SUFFICES ASSUME NEW e \in Digests, Admitted(e)',
                      NEW p \in DOMAIN Contained[records'[e].archive]
               PROVE  bodies[e][p] = Contained[records'[e].archive][p].content
    BY <1>1 DEF BodiesMatchAdmission
  <2>1. CASE e = d
    BY <1>1, <1>3, <2>1 DEF BodiesRegistered
  <2>2. CASE e # d
    BY <1>3, <2>2 DEF BodiesMatchAdmission, Admitted
  <2> QED
    BY <2>1, <2>2
<1> QED
  BY <1>5, <1>6, <1>7, <1>8, <1>9

LEMMA PromoteBeginsKeeps ==
  ASSUME CatalogInv, NEW c \in Channels, NEW d \in Digests, PromoteBegins(c, d)
  PROVE  CatalogInv'
<1> USE DEF CatalogInv, PromoteBegins
<1>1. /\ admin' \in Operation
      /\ admin'.stage = "pointing" /\ admin'.digest = d /\ admin'.channel = c
  BY DEF NoOperation, Operation, AdminStages
<1>2. CatalogTypeOK'
  BY <1>1 DEF CatalogTypeOK
<1>3. StageFacts'
  BY <1>1 DEF StageFacts, Promotable, Admitted, Withdrawn
<1>4. EvidenceFollows'
  BY DEF EvidenceFollows, Admitted, Withdrawn
<1>5. PointersServeActive'
  BY DEF PointersServeActive, Admitted, Withdrawn
<1>6. BodiesRegistered' /\ BodiesMatchAdmission'
  BY <1>1, BodiesKept DEF Admitted
<1> QED
  BY <1>2, <1>3, <1>4, <1>5, <1>6

LEMMA PointChannelKeeps == CatalogInv /\ PointChannel => CatalogInv'
<1> SUFFICES ASSUME CatalogInv, PointChannel PROVE CatalogInv'
  OBVIOUS
<1> DEFINE d == admin.digest
           c == admin.channel
<1> USE DEF CatalogInv
<1>1. /\ d \in Digests /\ c \in Channels /\ Promotable(d)
      /\ admin.stage = "pointing"
      /\ channels' = [channels EXCEPT ![c] = d]
      /\ admin' = [admin EXCEPT !.stage = "activating"]
      /\ UNCHANGED <<records, bodies>>
  BY DEF PointChannel, CatalogTypeOK, StageFacts
<1>2. admin' \in Operation /\ admin'.stage = "activating" /\ admin'.digest = d
  BY <1>1 DEF CatalogTypeOK, Operation, AdminStages
<1>3. CatalogTypeOK'
  BY <1>1, <1>2 DEF CatalogTypeOK
<1>4. StageFacts'
  BY <1>1, <1>2 DEF StageFacts, Promotable, Admitted, Withdrawn
<1>5. EvidenceFollows'
  BY <1>1 DEF EvidenceFollows, Admitted, Withdrawn
<1>6. PointersServeActive'
  <2> SUFFICES ASSUME NEW k \in Channels, channels'[k] # None
               PROVE  /\ Admitted(channels'[k])
                      /\ \/ records[channels'[k]].state = "active"
                         \/ channels'[k] = d
                      /\ ~Withdrawn(channels'[k])
    BY <1>1, <1>2 DEF PointersServeActive, Admitted, Withdrawn
  <2>1. CASE k = c
    BY <1>1, <2>1 DEF CatalogTypeOK, Promotable
  <2>2. CASE k # c
    <3>1. channels'[k] = channels[k]
      BY <1>1, <2>2 DEF CatalogTypeOK
    <3> QED
      BY <1>1, <3>1 DEF PointersServeActive
  <2> QED
    BY <2>1, <2>2
<1>7. BodiesRegistered' /\ BodiesMatchAdmission'
  BY <1>1, <1>2, BodiesKept DEF Admitted
<1> QED
  BY <1>3, <1>4, <1>5, <1>6, <1>7

LEMMA PromoteEndsKeeps == CatalogInv /\ PromoteEnds => CatalogInv'
<1> SUFFICES ASSUME CatalogInv, PromoteEnds PROVE CatalogInv'
  OBVIOUS
<1> DEFINE d == admin.digest
           r == [records[d] EXCEPT !.state = "active"]
<1> USE DEF CatalogInv
<1>1. /\ d \in Digests /\ Promotable(d) /\ admin.stage = "activating"
      /\ admin' = NoOperation /\ UNCHANGED <<channels, bodies>>
      /\ Admitted(d) /\ ~Withdrawn(d)
  BY DEF PromoteEnds, CatalogTypeOK, StageFacts, Promotable
<1>2. records' = [records EXCEPT ![d] = r]
  BY DEF PromoteEnds
<1>3. /\ r \in CatalogRecord /\ r.state = "active" /\ r.archive = records[d].archive
      /\ r.withdrawal = records[d].withdrawal
  BY <1>1, StateUpdate DEF ReleaseState
<1> HIDE DEF r
<1>4. /\ records' \in [Digests -> CatalogRecord \cup {None}]
      /\ records'[d] = r
      /\ \A e \in Digests \ {d} : records'[e] = records[e]
      /\ \A e \in Digests : Admitted(e)' <=> Admitted(e)
  BY <1>1, <1>2, <1>3, RecordUpdate
<1>5. admin' \in Operation /\ admin'.stage = "idle"
  BY <1>1 DEF NoOperation, Operation, AdminStages
<1>6. CatalogTypeOK'
  BY <1>1, <1>4, <1>5 DEF CatalogTypeOK
<1>7. StageFacts'
  BY <1>5 DEF StageFacts
<1>8. EvidenceFollows'
  BY <1>1, <1>3, <1>4 DEF EvidenceFollows, Withdrawn
<1>9. PointersServeActive'
  <2> SUFFICES ASSUME NEW k \in Channels, channels[k] # None
               PROVE  /\ Admitted(channels[k])'
                      /\ records'[channels[k]].state = "active"
    BY <1>1, <1>5 DEF PointersServeActive, Withdrawn
  <2>1. channels[k] \in Digests /\ Admitted(channels[k])
    BY DEF CatalogTypeOK, PointersServeActive
  <2>2. CASE channels[k] = d
    BY <1>1, <1>3, <1>4, <2>1, <2>2
  <2>3. CASE channels[k] # d
    BY <1>1, <1>4, <2>1, <2>3 DEF PointersServeActive
  <2> QED
    BY <2>2, <2>3
<1>10. BodiesRegistered' /\ BodiesMatchAdmission'
  <2>1. \A e \in Digests : Admitted(e)' => Admitted(e) /\ records'[e].archive = records[e].archive
    BY <1>3, <1>4
  <2> QED
    BY <1>1, <1>5, <2>1, BodiesKept
<1> QED
  BY <1>6, <1>7, <1>8, <1>9, <1>10

LEMMA WithdrawBeginsKeeps ==
  ASSUME CatalogInv, NEW d \in Digests, NEW e \in Evidence, WithdrawBegins(d, e)
  PROVE  CatalogInv'
<1> USE DEF CatalogInv, WithdrawBegins
<1>1. /\ admin' \in Operation
      /\ admin'.stage = "unpointing" /\ admin'.digest = d /\ admin'.evidence = e
      /\ admin'.channels = ChannelsFor(d)
  BY DEF NoOperation, Operation, AdminStages, ChannelsFor
<1>2. CatalogTypeOK'
  BY <1>1 DEF CatalogTypeOK
<1>3. StageFacts'
  BY <1>1 DEF StageFacts, Promotable, Admitted, Withdrawn, ChannelsFor
<1>4. EvidenceFollows'
  BY DEF EvidenceFollows, Admitted, Withdrawn
<1>5. PointersServeActive'
  BY DEF PointersServeActive, Admitted, Withdrawn
<1>6. BodiesRegistered' /\ BodiesMatchAdmission'
  BY <1>1, BodiesKept DEF Admitted
<1> QED
  BY <1>2, <1>3, <1>4, <1>5, <1>6

LEMMA RemovePointerKeeps ==
  ASSUME CatalogInv, NEW c \in Channels, RemovePointer(c)
  PROVE  CatalogInv'
<1> DEFINE d == admin.digest
<1> USE DEF CatalogInv
<1>1. /\ d \in Digests /\ Promotable(d) /\ ChannelsFor(d) \subseteq admin.channels
      /\ admin.stage = "unpointing" /\ admin.evidence \in Evidence
      /\ channels' = [channels EXCEPT ![c] = None]
      /\ admin' = [admin EXCEPT !.channels = admin.channels \ {c}]
      /\ UNCHANGED <<records, bodies>>
  BY DEF RemovePointer, CatalogTypeOK, StageFacts
<1>2. /\ admin' \in Operation /\ admin'.stage = "unpointing" /\ admin'.digest = d
      /\ admin'.channels = admin.channels \ {c} /\ admin'.evidence = admin.evidence
  BY <1>1 DEF CatalogTypeOK, Operation
<1>3. channels' \in [Channels -> Digests \cup {None}]
  BY <1>1 DEF CatalogTypeOK
<1>4. CatalogTypeOK'
  BY <1>1, <1>2, <1>3 DEF CatalogTypeOK
<1>5. \A k \in Channels : channels'[k] = IF k = c THEN None ELSE channels[k]
  BY <1>1 DEF CatalogTypeOK
<1>6. StageFacts'
  <2>1. d # None
    BY <1>1, CatalogAssumption
  <2>2. ChannelsFor(d)' \subseteq admin'.channels
    BY <1>1, <1>2, <1>5, <2>1 DEF ChannelsFor
  <2> QED
    BY <1>1, <1>2, <2>2 DEF StageFacts, Promotable, Admitted, Withdrawn
<1>7. EvidenceFollows'
  BY <1>1 DEF EvidenceFollows, Admitted, Withdrawn
<1>8. PointersServeActive'
  BY <1>1, <1>5 DEF PointersServeActive, Admitted, Withdrawn
<1>9. BodiesRegistered' /\ BodiesMatchAdmission'
  BY <1>1, <1>2, BodiesKept DEF Admitted
<1> QED
  BY <1>4, <1>6, <1>7, <1>8, <1>9

LEMMA MarkWithdrawnKeeps == CatalogInv /\ MarkWithdrawn => CatalogInv'
<1> SUFFICES ASSUME CatalogInv, MarkWithdrawn PROVE CatalogInv'
  OBVIOUS
<1> DEFINE d == admin.digest
           r == [records[d] EXCEPT !.state = "withdrawn"]
<1> USE DEF CatalogInv
<1>1. /\ d \in Digests /\ Admitted(d) /\ ~Withdrawn(d) /\ ChannelsFor(d) = {}
      /\ admin.stage = "unpointing" /\ admin.evidence \in Evidence
      /\ admin' = [admin EXCEPT !.stage = "recording"]
      /\ UNCHANGED <<channels, bodies>>
  BY DEF MarkWithdrawn, CatalogTypeOK, StageFacts, Promotable
<1>2. records' = [records EXCEPT ![d] = r]
  BY DEF MarkWithdrawn
<1>3. /\ r \in CatalogRecord /\ r.state = "withdrawn" /\ r.archive = records[d].archive
      /\ r.withdrawal = records[d].withdrawal
  BY <1>1, StateUpdate DEF ReleaseState
<1> HIDE DEF r
<1>4. /\ records' \in [Digests -> CatalogRecord \cup {None}]
      /\ records'[d] = r
      /\ \A e \in Digests \ {d} : records'[e] = records[e]
      /\ \A e \in Digests : Admitted(e)' <=> Admitted(e)
  BY <1>1, <1>2, <1>3, RecordUpdate
<1>5. /\ admin' \in Operation /\ admin'.stage = "recording" /\ admin'.digest = d
      /\ admin'.evidence = admin.evidence
  BY <1>1 DEF CatalogTypeOK, Operation, AdminStages
<1>6. CatalogTypeOK'
  BY <1>1, <1>4, <1>5 DEF CatalogTypeOK
<1>7. StageFacts'
  <2>1. Withdrawn(d)' /\ ChannelsFor(d)' = {}
    BY <1>1, <1>3, <1>4 DEF Withdrawn, ChannelsFor
  <2>2. records'[d].withdrawal = None
    BY <1>1, <1>3, <1>4 DEF EvidenceFollows
  <2> QED
    BY <1>5, <2>1, <2>2 DEF StageFacts
<1>8. EvidenceFollows'
  BY <1>1, <1>3, <1>4 DEF EvidenceFollows, Withdrawn
<1>9. PointersServeActive'
  <2> SUFFICES ASSUME NEW k \in Channels, channels[k] # None
               PROVE  /\ Admitted(channels[k])'
                      /\ records'[channels[k]].state = "active"
    BY <1>1, <1>5 DEF PointersServeActive, Withdrawn
  <2>1. channels[k] \in Digests \ {d} /\ Admitted(channels[k])
    BY <1>1 DEF CatalogTypeOK, PointersServeActive, ChannelsFor
  <2> QED
    BY <1>1, <1>4, <2>1 DEF PointersServeActive
<1>10. BodiesRegistered' /\ BodiesMatchAdmission'
  <2>1. \A e \in Digests : Admitted(e)' => Admitted(e) /\ records'[e].archive = records[e].archive
    BY <1>3, <1>4
  <2> QED
    BY <1>1, <1>5, <2>1, BodiesKept
<1> QED
  BY <1>6, <1>7, <1>8, <1>9, <1>10

LEMMA RecordEvidenceKeeps == CatalogInv /\ RecordEvidence => CatalogInv'
<1> SUFFICES ASSUME CatalogInv, RecordEvidence PROVE CatalogInv'
  OBVIOUS
<1> DEFINE d == admin.digest
           r == [records[d] EXCEPT !.withdrawal = admin.evidence]
<1> USE DEF CatalogInv
<1>1. /\ d \in Digests /\ Withdrawn(d) /\ Admitted(d)
      /\ admin.stage = "recording" /\ admin.evidence \in Evidence
      /\ admin' = NoOperation
      /\ UNCHANGED <<channels, bodies>>
  BY DEF RecordEvidence, CatalogTypeOK, StageFacts, Withdrawn
<1>2. records' = [records EXCEPT ![d] = r]
  BY DEF RecordEvidence
<1>3. /\ r \in CatalogRecord /\ r.state = "withdrawn" /\ r.archive = records[d].archive
  BY <1>1, EvidenceUpdate DEF Withdrawn
<1> HIDE DEF r
<1>4. /\ records' \in [Digests -> CatalogRecord \cup {None}]
      /\ records'[d] = r
      /\ \A e \in Digests \ {d} : records'[e] = records[e]
      /\ \A e \in Digests : Admitted(e)' <=> Admitted(e)
  BY <1>1, <1>2, <1>3, RecordUpdate
<1>5. admin' \in Operation /\ admin'.stage = "idle"
  BY <1>1 DEF NoOperation, Operation, AdminStages
<1>6. CatalogTypeOK'
  BY <1>1, <1>4, <1>5 DEF CatalogTypeOK
<1>7. StageFacts'
  BY <1>5 DEF StageFacts
<1>8. EvidenceFollows'
  BY <1>1, <1>3, <1>4 DEF EvidenceFollows, Withdrawn
<1>9. PointersServeActive'
  <2> SUFFICES ASSUME NEW k \in Channels, channels[k] # None
               PROVE  /\ Admitted(channels[k])'
                      /\ records'[channels[k]].state = "active"
    BY <1>1, <1>5 DEF PointersServeActive, Withdrawn
  <2>1. channels[k] \in Digests \ {d} /\ Admitted(channels[k])
    BY <1>1 DEF CatalogTypeOK, PointersServeActive
  <2> QED
    BY <1>1, <1>4, <2>1 DEF PointersServeActive
<1>10. BodiesRegistered' /\ BodiesMatchAdmission'
  <2>1. \A e \in Digests : Admitted(e)' => Admitted(e) /\ records'[e].archive = records[e].archive
    BY <1>3, <1>4
  <2> QED
    BY <1>1, <1>5, <2>1, BodiesKept
<1> QED
  BY <1>6, <1>7, <1>8, <1>9, <1>10

LEMMA NextCatalogInv == CatalogInv /\ [AdminStep]_catalogVars => CatalogInv'
<1> SUFFICES ASSUME CatalogInv, AdminStep \/ UNCHANGED catalogVars PROVE CatalogInv'
  OBVIOUS
<1>1. CASE UNCHANGED catalogVars
  BY <1>1 DEF CatalogInv, catalogVars, CatalogTypeOK, StageFacts, EvidenceFollows,
              PointersServeActive, BodiesRegistered, BodiesMatchAdmission,
              Admitted, Withdrawn, Promotable, ChannelsFor
<1>2. CASE Steps
  BY <1>2, AdmitBeginsKeeps, RegisterBodyKeeps, AdmitFailsKeeps, AdmitEndsKeeps,
     PromoteBeginsKeeps, PointChannelKeeps, PromoteEndsKeeps, WithdrawBeginsKeeps,
     RemovePointerKeeps, MarkWithdrawnKeeps, RecordEvidenceKeeps DEF Steps
<1> QED
  BY <1>1, <1>2, StepCases

LEMMA CatalogInvariant == CatalogSpec => []CatalogInv
BY InitCatalogInv, NextCatalogInv, PTL DEF CatalogSpec

(* No pointer ever leads to a release that is not admitted, not promoted   *)
(* or withdrawn.                                                           *)
THEOREM ChannelsServeActive == CatalogSpec => []PointersServeActive
<1>1. CatalogInv => PointersServeActive
  BY DEF CatalogInv
<1> QED
  BY <1>1, CatalogInvariant, PTL

(* What an administrator's step keeps of the releases.                     *)
Kept(d) ==
  /\ Admitted(d)'
  /\ records'[d].archive = records[d].archive
  /\ Withdrawn(d) => Withdrawn(d)'
  /\ records[d].withdrawal # None => records'[d].withdrawal = records[d].withdrawal

LEMMA KeptWhole ==
  ASSUME NEW d, Admitted(d), records'[d] = records[d]
  PROVE  Kept(d)
BY DEF Kept, Admitted, Withdrawn

LEMMA StepKeeps ==
  ASSUME CatalogInv, AdminStep \/ UNCHANGED catalogVars, NEW d \in Digests, Admitted(d)
  PROVE  Kept(d)
<1> USE DEF CatalogInv
<1>1. CASE UNCHANGED records
  BY <1>1, KeptWhole
<1>2. CASE AdmitEnds
  <2>1. admin.digest # d /\ records \in [Digests -> CatalogRecord \cup {None}]
    BY <1>2 DEF AdmitEnds, StageFacts, CatalogTypeOK
  <2>2. records'[d] = records[d]
    BY <1>2, <2>1 DEF AdmitEnds
  <2> QED
    BY <2>2, KeptWhole
<1>3. ASSUME NEW s \in ReleaseState, Promotable(admin.digest), admin.digest \in Digests,
             records' = [records EXCEPT ![admin.digest] =
                           [records[admin.digest] EXCEPT !.state = s]]
      PROVE  Kept(d)
  <2> DEFINE r == [records[admin.digest] EXCEPT !.state = s]
  <2>1. /\ r \in CatalogRecord /\ r.archive = records[admin.digest].archive
        /\ r.withdrawal = records[admin.digest].withdrawal
    BY <1>3, StateUpdate DEF Promotable
  <2>2. records' = [records EXCEPT ![admin.digest] = r]
    BY <1>3
  <2> HIDE DEF r
  <2>3. /\ records'[admin.digest] = r
        /\ \A e \in Digests \ {admin.digest} : records'[e] = records[e]
        /\ \A e \in Digests : Admitted(e)' <=> Admitted(e)
    BY <1>3, <2>1, <2>2, RecordUpdate DEF Promotable
  <2>4. CASE d = admin.digest
    BY <1>3, <2>1, <2>3, <2>4 DEF Kept, Promotable
  <2>5. CASE d # admin.digest
    BY <2>3, <2>5, KeptWhole
  <2> QED
    BY <2>4, <2>5
<1>4. CASE PromoteEnds
  <2>1. Promotable(admin.digest) /\ admin.digest \in Digests
    BY <1>4 DEF PromoteEnds, StageFacts, CatalogTypeOK
  <2> QED
    BY <1>3, <1>4, <2>1 DEF PromoteEnds, ReleaseState
<1>5. CASE MarkWithdrawn
  <2>1. Promotable(admin.digest) /\ admin.digest \in Digests
    BY <1>5 DEF MarkWithdrawn, StageFacts, CatalogTypeOK
  <2> QED
    BY <1>3, <1>5, <2>1 DEF MarkWithdrawn, ReleaseState
<1>6. CASE RecordEvidence
  <2> DEFINE r == [records[admin.digest] EXCEPT !.withdrawal = admin.evidence]
  <2>1. /\ admin.digest \in Digests /\ Withdrawn(admin.digest) /\ Admitted(admin.digest)
        /\ admin.evidence \in Evidence /\ records[admin.digest].withdrawal = None
    BY <1>6 DEF RecordEvidence, StageFacts, CatalogTypeOK, Withdrawn
  <2>2. /\ r \in CatalogRecord /\ r.archive = records[admin.digest].archive
        /\ r.state = records[admin.digest].state
    BY <2>1, EvidenceUpdate
  <2>3. records' = [records EXCEPT ![admin.digest] = r]
    BY <1>6 DEF RecordEvidence
  <2> HIDE DEF r
  <2>4. /\ records'[admin.digest] = r
        /\ \A e \in Digests \ {admin.digest} : records'[e] = records[e]
        /\ \A e \in Digests : Admitted(e)' <=> Admitted(e)
    BY <2>1, <2>2, <2>3, RecordUpdate
  <2>5. CASE d = admin.digest
    BY <2>1, <2>2, <2>4, <2>5 DEF Kept, Withdrawn
  <2>6. CASE d # admin.digest
    BY <2>4, <2>6, KeptWhole
  <2> QED
    BY <2>5, <2>6
<1>7. CASE Steps
  BY <1>1, <1>2, <1>4, <1>5, <1>6, <1>7
     DEF Steps, AdmitBegins, RegisterBody, AdmitFails, PromoteBegins, PointChannel,
         WithdrawBegins, RemovePointer
<1> QED
  BY <1>1, <1>7, StepCases DEF catalogVars

(* Releases and the evidence of their withdrawal are retained.             *)
THEOREM EvidenceRetained == CatalogSpec => EvidenceIsRetained
<1>1. CatalogInv /\ [AdminStep]_catalogVars =>
        [\A d \in Digests : Admitted(d) =>
           /\ Admitted(d)'
           /\ records'[d].archive = records[d].archive
           /\ Withdrawn(d) => Withdrawn(d)'
           /\ records[d].withdrawal # None =>
                records'[d].withdrawal = records[d].withdrawal]_catalogVars
  BY StepKeeps DEF Kept
<1> QED
  BY <1>1, CatalogInvariant, PTL DEF CatalogSpec, EvidenceIsRetained
=============================================================================
