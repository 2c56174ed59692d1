--------------------------- MODULE ReleaseCatalog ---------------------------
(***************************************************************************)
(* ReleaseCatalog and InMemoryBodyStore (serving.py) as one administrator  *)
(* drives them.  Nothing is locked, so request threads may run between any *)
(* two writes of an operation: every write is a step of its own.           *)
(*                                                                         *)
(* An archive is the function from the paths of its concepts to what the   *)
(* release manifest says of them; the content of a file is a model value.  *)
(* Paths stand for concept_uid values, which release building makes unique *)
(* and whose repetition is one of the reasons a concept is not indexable.  *)
(* An operation that raises before its first write leaves the catalog as   *)
(* it was and is the absence of a step.                                    *)
(***************************************************************************)
EXTENDS Authorization, FiniteSets

CONSTANTS
  Digests,      \* registry digests
  Archives,     \* archives that may be presented for admission
  Paths,
  Contents,     \* contents of files
  Contained,    \* Contained[archive]: its concepts, by path
  Channels,
  Evidence,     \* withdrawal records: reason, actor, time
  None

Lifecycle == {"draft", "stable", "deprecated"}

Concept ==
  [content : Contents, indexable : BOOLEAN, status : Lifecycle,
   staleAfter : Nat, classification : Classification, acl : AclRefs,
   links : SUBSET Paths]

ASSUME CatalogAssumption ==
  /\ \A a \in Archives : DOMAIN Contained[a] \subseteq Paths
  /\ \A a \in Archives : \A p \in DOMAIN Contained[a] : Contained[a][p] \in Concept
  /\ IsFiniteSet(Channels)
  /\ Digests \cap Channels = {}
  /\ None \notin Digests \cup Archives \cup Channels \cup Evidence \cup Contents

ReleaseState == {"candidate", "active", "withdrawn"}

CatalogRecord ==
  [archive : Archives, state : ReleaseState, withdrawal : Evidence \cup {None}]

ASSUME NoneIsNoRecord == None \notin CatalogRecord

AdminStages ==
  {"idle", "registering", "pointing", "activating", "unpointing", "recording"}

(* What the administrator is doing: the release and, by operation, the     *)
(* archive, the channel or the evidence, and what is left to do.           *)
Operation ==
  [stage : AdminStages, digest : Digests \cup {None},
   archive : Archives \cup {None}, channel : Channels \cup {None},
   evidence : Evidence \cup {None},
   paths : SUBSET Paths, channels : SUBSET Channels]

VARIABLES
  records,    \* _records: digest -> record, None where there is none
  channels,   \* _channels: channel -> digest
  bodies,     \* _content: digest -> path -> content
  admin       \* the operation in progress

catalogVars == <<records, channels, bodies, admin>>

NoOperation ==
  [stage |-> "idle", digest |-> None, archive |-> None, channel |-> None,
   evidence |-> None, paths |-> {}, channels |-> {}]

CatalogInit ==
  /\ records = [d \in Digests |-> None]
  /\ channels = [c \in Channels |-> None]
  /\ bodies = [d \in Digests |-> [p \in Paths |-> None]]
  /\ admin = NoOperation

Admitted(d) == records[d] # None

Withdrawn(d) == Admitted(d) /\ records[d].state = "withdrawn"

PointedAt == {c \in Channels : channels[c] # None}

ChannelsFor(d) == {c \in Channels : channels[c] = d}

-----------------------------------------------------------------------------
(* admit: the evidence and the archive have been verified, the digest is   *)
(* not bound.                                                              *)
AdmitBegins(d, a) ==
  /\ admin.stage = "idle"
  /\ ~Admitted(d)
  /\ admin' = [NoOperation EXCEPT !.stage = "registering", !.digest = d,
                                  !.archive = a, !.paths = DOMAIN Contained[a]]
  /\ UNCHANGED <<records, channels, bodies>>

(* Mutant: register keeps what a digest and path already hold.             *)
RegisterKeeps(d, p, content) ==
  bodies' = IF bodies[d][p] = None THEN [bodies EXCEPT ![d][p] = content] ELSE bodies

Register(d, p, content) ==
  /\ bodies[d][p] \in {None, content}
  /\ bodies' = [bodies EXCEPT ![d][p] = content]

(* One manifest file is indexed and its body registered.                   *)
RegisterBody(p) ==
  LET concept == Contained[admin.archive][p]
  IN  /\ admin.stage = "registering"
      /\ p \in admin.paths
      /\ concept.indexable
      /\ Register(admin.digest, p, concept.content)
      /\ admin' = [admin EXCEPT !.paths = @ \ {p}]
      /\ UNCHANGED <<records, channels>>

(* A concept cannot be indexed, its body differs from one registered for   *)
(* the digest, or nothing is servable: admit raises, and the bodies        *)
(* registered so far stay.                                                 *)
AdmitFails ==
  /\ admin.stage = "registering"
  /\ \/ \E p \in admin.paths :
          LET concept == Contained[admin.archive][p]
          IN  \/ ~concept.indexable
              \/ bodies[admin.digest][p] \notin {None, concept.content}
     \/ DOMAIN Contained[admin.archive] = {}
  /\ admin' = NoOperation
  /\ UNCHANGED <<records, channels, bodies>>

AdmitEnds ==
  /\ admin.stage = "registering"
  /\ admin.paths = {}
  /\ DOMAIN Contained[admin.archive] # {}
  /\ records' = [records EXCEPT ![admin.digest] =
       [archive |-> admin.archive, state |-> "candidate", withdrawal |-> None]]
  /\ admin' = NoOperation
  /\ UNCHANGED <<channels, bodies>>

(* Mutant: any admitted release may be promoted.                           *)
PromotableAnyState(d) == Admitted(d)

Promotable(d) == Admitted(d) /\ ~Withdrawn(d)

PromoteBegins(c, d) ==
  /\ admin.stage = "idle"
  /\ Promotable(d)
  /\ admin' = [NoOperation EXCEPT !.stage = "pointing", !.digest = d, !.channel = c]
  /\ UNCHANGED <<records, channels, bodies>>

(* rollback: a promotion of a channel that serves another release.         *)
RollbackBegins(c, d) ==
  /\ channels[c] \notin {None, d}
  /\ PromoteBegins(c, d)

PointChannel ==
  /\ admin.stage = "pointing"
  /\ channels' = [channels EXCEPT ![admin.channel] = admin.digest]
  /\ admin' = [admin EXCEPT !.stage = "activating"]
  /\ UNCHANGED <<records, bodies>>

PromoteEnds ==
  /\ admin.stage = "activating"
  /\ records' = [records EXCEPT ![admin.digest].state = "active"]
  /\ admin' = NoOperation
  /\ UNCHANGED <<channels, bodies>>

(* Mutant: a release may be withdrawn again, with other evidence.          *)
WithdrawBeginsAgain(d, e) ==
  /\ admin.stage = "idle"
  /\ Admitted(d)
  /\ admin' = [NoOperation EXCEPT !.stage = "unpointing", !.digest = d,
                                  !.evidence = e, !.channels = ChannelsFor(d)]
  /\ UNCHANGED <<records, channels, bodies>>

WithdrawBegins(d, e) ==
  /\ admin.stage = "idle"
  /\ Admitted(d)
  /\ ~Withdrawn(d)
  /\ admin' = [NoOperation EXCEPT !.stage = "unpointing", !.digest = d,
                                  !.evidence = e, !.channels = ChannelsFor(d)]
  /\ UNCHANGED <<records, channels, bodies>>

RemovePointer(c) ==
  /\ admin.stage = "unpointing"
  /\ c \in admin.channels
  /\ channels' = [channels EXCEPT ![c] = None]
  /\ admin' = [admin EXCEPT !.channels = @ \ {c}]
  /\ UNCHANGED <<records, bodies>>

MarkWithdrawn ==
  /\ admin.stage = "unpointing"
  /\ admin.channels = {}
  /\ records' = [records EXCEPT ![admin.digest].state = "withdrawn"]
  /\ admin' = [admin EXCEPT !.stage = "recording"]
  /\ UNCHANGED <<channels, bodies>>

RecordEvidence ==
  /\ admin.stage = "recording"
  /\ records' = [records EXCEPT ![admin.digest].withdrawal = admin.evidence]
  /\ admin' = NoOperation
  /\ UNCHANGED <<channels, bodies>>

AdminStep ==
  \/ \E d \in Digests, a \in Archives : AdmitBegins(d, a)
  \/ \E p \in Paths : RegisterBody(p)
  \/ AdmitFails
  \/ AdmitEnds
  \/ \E c \in Channels, d \in Digests : PromoteBegins(c, d)
  \/ \E c \in Channels, d \in Digests : RollbackBegins(c, d)
  \/ PointChannel
  \/ PromoteEnds
  \/ \E d \in Digests, e \in Evidence : WithdrawBegins(d, e)
  \/ \E c \in Channels : RemovePointer(c)
  \/ MarkWithdrawn
  \/ RecordEvidence

CatalogSpec == CatalogInit /\ [][AdminStep]_catalogVars

-----------------------------------------------------------------------------
(* Properties *)

CatalogTypeOK ==
  /\ records \in [Digests -> CatalogRecord \cup {None}]
  /\ channels \in [Channels -> Digests \cup {None}]
  /\ bodies \in [Digests -> [Paths -> Contents \cup {None}]]
  /\ admin \in Operation
  /\ admin.stage # "idle" => admin.digest \in Digests
  /\ admin.stage = "registering" =>
       /\ admin.archive \in Archives
       /\ admin.paths \subseteq DOMAIN Contained[admin.archive]
  /\ admin.stage = "pointing" => admin.channel \in Channels
  /\ admin.stage \in {"unpointing", "recording"} => admin.evidence \in Evidence

(* A channel serves an admitted release that has not been withdrawn, and   *)
(* an active one unless promote is between its two writes: at no point of  *)
(* a promotion, a rollback or a withdrawal does a pointer lead to a        *)
(* withdrawn release.                                                      *)
PointersServeActive ==
  \A c \in Channels : channels[c] # None =>
    LET d == channels[c]
    IN  /\ Admitted(d)
        /\ records[d].state = "active" \/ (admin.stage = "activating" /\ admin.digest = d)
        /\ ~Withdrawn(d)

(* What a release promises for good: once admitted it stays, bound to the  *)
(* same archive; once withdrawn it stays withdrawn, and the evidence, when *)
(* written, is never replaced.                                             *)
EvidenceIsRetained ==
  [][ \A d \in Digests : Admitted(d) =>
        /\ Admitted(d)'
        /\ records'[d].archive = records[d].archive
        /\ Withdrawn(d) => Withdrawn(d)'
        /\ records[d].withdrawal # None =>
             records'[d].withdrawal = records[d].withdrawal ]_catalogVars

(* A release that is admitted has, for each of its paths, the body its own *)
(* archive holds, though an earlier admission under the digest may have    *)
(* failed half way and left bodies of another archive.                     *)
BodiesMatchAdmission ==
  \A d \in Digests : Admitted(d) =>
    \A p \in DOMAIN Contained[records[d].archive] :
      bodies[d][p] = Contained[records[d].archive][p].content
=============================================================================
