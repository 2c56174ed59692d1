------------------------- MODULE PublicationProofs -------------------------
(***************************************************************************)
(* Proofs about the publication of releases, for every bundle, every       *)
(* number of builders and publishers, and every bound.  What a publisher   *)
(* holds at a stage is stated per publisher (PublisherSound); it survives  *)
(* what the others do because pushes and signatures are only added.        *)
(***************************************************************************)
EXTENDS Publication, TLAPS

Stages == {"idle", "push", "parse", "sign", "verify", "pull", "decide", "admit"}

RunType ==
  [pc : Stages, release : Bundles \cup {None}, answer : Digest \cup {None},
   reference : Digest \cup {None}, pulled : Contents, signatureVerified : BOOLEAN,
   archiveVerified : BOOLEAN, decidedAt : Nat]

FilesType ==
  /\ outputs \in [Files -> Contents]
  /\ cli \in [Builders -> Command]
  /\ bundle \in Bundles
  /\ crashes \in Nat

PublicationType ==
  /\ clock \in Nat
  /\ pushed \subseteq Publishers \X Digest
  /\ pub \in [Publishers -> RunType]

LEMMA NoCommandType == NoCommand \in Command /\ NoCommand.pc = "idle" /\ ~NoCommand.alone
BY DEF NoCommand, Command, Contents, NoFiles, Files

LEMMA NoRunType == NoRun \in RunType /\ NoRun.pc = "idle"
BY DEF NoRun, RunType, Stages, Contents

(* A step of a builder or the editor, or one that leaves them alone.       *)
FilesStep == [FilesNext]_filesVars

LEMMA FileDoneType ==
  ASSUME NEW w \in Builders, cli[w] \in Command
  PROVE  FileDone(w) \in Command
BY NoCommandType DEF FileDone, Command

LEMMA FilesTypeStep == FilesType /\ FilesStep => FilesType'
<1> SUFFICES ASSUME FilesType, FilesStep PROVE FilesType'
  OBVIOUS
<1>1. ASSUME NEW w \in Builders PROVE cli[w] \in Command
  BY DEF FilesType
<1>2. CASE UNCHANGED filesVars
  BY <1>2 DEF filesVars, FilesType
<1>3. CASE EditBundle
  BY <1>3 DEF EditBundle, FilesType
<1>4. ASSUME NEW w \in Builders, NEW force \in BOOLEAN, Build(w, force) PROVE FilesType'
  <2>1. outputs \in [Files -> Contents] /\ bundle \in Contents
    BY DEF FilesType, Contents
  <2>2. ASSUME NEW v \in Builders
        PROVE  (IF v = w
                THEN [NoCommand EXCEPT !.pc = "check", !.force = force,
                       !.artifact = bundle, !.found = outputs,
                       !.alone = \A o \in Others(w) : cli[o].pc = "idle"]
                ELSE [cli[v] EXCEPT !.alone = FALSE, !.found = NoFiles]) \in Command
    <3>1. [cli[v] EXCEPT !.alone = FALSE, !.found = NoFiles] \in Command
      BY <1>1 DEF Command, NoFiles, Contents, Files
    <3>2. (\A o \in Others(w) : cli[o].pc = "idle") \in BOOLEAN
      OBVIOUS
    <3> DEFINE alone == \A o \in Others(w) : cli[o].pc = "idle"
    <3> HIDE DEF alone
    <3>3. [NoCommand EXCEPT !.pc = "check", !.force = force, !.artifact = bundle,
             !.found = outputs, !.alone = alone] \in Command
      BY <2>1, <3>2, NoCommandType DEF Command, alone
    <3> QED
      BY <3>1, <3>3 DEF alone
  <2> QED
    BY <1>4, <2>2 DEF Build, FilesType
<1>5. ASSUME NEW w \in Builders, CheckOutputs(w) PROVE FilesType'
  <2>1. [cli[w] EXCEPT !.pc = "manifest"] \in Command
    BY <1>1 DEF Command
  <2> QED
    BY <1>5, <2>1, NoCommandType DEF CheckOutputs, Becomes, FilesType
<1>6. ASSUME NEW w \in Builders, WriteFile(w) PROVE FilesType'
  <2>1. FileDone(w) \in Command /\ [cli[w] EXCEPT !.filling = TRUE] \in Command
    BY <1>1, FileDoneType DEF Command
  <2>2. cli[w].artifact \in Contents /\ Torn \in Contents
    BY <1>1 DEF Command, Contents
  <2>3. cli' \in [Builders -> Command]
    BY <1>6, <2>1 DEF WriteFile, Becomes, FilesType
  <2>4. outputs' \in [Files -> Contents]
    BY <1>6, <2>2 DEF WriteFile, FilesType
  <2> QED
    BY <1>6, <2>3, <2>4 DEF WriteFile, FilesType
<1>7. ASSUME NEW w \in Builders, CrashCommand(w) PROVE FilesType'
  BY <1>7, NoCommandType DEF CrashCommand, Becomes, FilesType
<1> QED
  BY <1>2, <1>3, <1>4, <1>5, <1>6, <1>7 DEF FilesStep, FilesNext

-----------------------------------------------------------------------------
(* Publishers *)

PublishSteps(p) ==
  \/ VerifyRelease(p) \/ Push(p) \/ ParsePushOutput(p) \/ CosignSign(p)
  \/ CosignVerify(p) \/ PullByDigest(p) \/ Decide(p) \/ Admit(p) \/ Abort(p)

(* What a publisher has established when it is at a stage.                 *)
HoldsRelease(p) == pub[p].pc # "idle" => pub[p].release \in Bundles

HoldsAnswer(p) ==
  pub[p].pc = "parse" =>
    /\ pub[p].answer \in Digest
    /\ <<p, pub[p].answer>> \in pushed
    /\ pub[p].answer.annotated = pub[p].release

HoldsReference(p) ==
  pub[p].pc \in {"sign", "verify", "pull", "decide", "admit"} =>
    /\ pub[p].reference \in Digest
    /\ <<p, pub[p].reference>> \in pushed
    /\ pub[p].reference.annotated = pub[p].release

HoldsSignature(p) ==
  pub[p].signatureVerified =>
    /\ pub[p].pc \in {"pull", "decide", "admit"}
    /\ SignatureVerifies(pub[p].reference)

HoldsArchive(p) ==
  pub[p].pc \in {"decide", "admit"} =>
    /\ pub[p].pulled = pub[p].reference.layer
    /\ pub[p].archiveVerified => pub[p].pulled = pub[p].release

HoldsDecision(p) == pub[p].pc = "admit" => Deny(pub[p], pub[p].decidedAt) = {}

PublisherSound(p) ==
  /\ HoldsRelease(p) /\ HoldsAnswer(p) /\ HoldsReference(p)
  /\ HoldsSignature(p) /\ HoldsArchive(p) /\ HoldsDecision(p)

(* What the policy's silence says of a release.                            *)
LEMMA NoDenialMeans ==
  ASSUME NEW r, NEW time \in Nat, Deny(r, time) = {}
  PROVE  /\ r.signatureVerified /\ r.archiveVerified
         /\ \A c \in Manifest(r.pulled) : ConceptDenials(c, time) = {}
<1>1. Denial("SIGNATURE_NOT_VERIFIED", ~r.signatureVerified) = {}
      /\ Denial("ARCHIVE_NOT_VERIFIED", ~r.archiveVerified) = {}
      /\ UNION {ConceptDenials(c, time) : c \in Manifest(r.pulled)} = {}
  BY DEF Deny
<1>2. r.signatureVerified /\ r.archiveVerified
  BY <1>1 DEF Denial
<1>3. ASSUME NEW c \in Manifest(r.pulled) PROVE ConceptDenials(c, time) = {}
  BY <1>1
<1> QED
  BY <1>2, <1>3

LEMMA NoConceptDenialMeans ==
  ASSUME NEW c \in Concept, NEW time \in Nat, ConceptDenials(c, time) = {}
  PROVE  /\ c.lacks \cap {"acl_ref", "sources", "stale_after"} = {}
         /\ c.status \in AllowedStatuses
         /\ time < c.staleAfter
<1>1. /\ Denial("CONCEPT_ACL_MISSING", "acl_ref" \in c.lacks) = {}
      /\ Denial("CONCEPT_STATUS_NOT_ALLOWED", c.status \notin AllowedStatuses) = {}
      /\ Denial("CONCEPT_SOURCE_MISSING", "sources" \in c.lacks) = {}
      /\ Denial("CONCEPT_FRESHNESS_MISSING", "stale_after" \in c.lacks) = {}
      /\ Denial("CONCEPT_STALE",
                "stale_after" \notin c.lacks /\ c.staleAfter <= time) = {}
  BY DEF ConceptDenials, Stale
<1>2. /\ "acl_ref" \notin c.lacks /\ "sources" \notin c.lacks
      /\ "stale_after" \notin c.lacks /\ c.status \in AllowedStatuses
      /\ ~(c.staleAfter <= time)
  BY <1>1 DEF Denial
<1>3. c.staleAfter \in Nat
  BY DEF Concept
<1> QED
  BY <1>2, <1>3

LEMMA OrasPushType ==
  ASSUME FilesType, NEW p \in Publishers, pub[p].release \in Bundles,
         outputs["archive"] # None
  PROVE  OrasPush(p) \in Digest
<1>1. outputs["archive"] \in Contents
  BY DEF FilesType, Files
<1> QED
  BY <1>1 DEF OrasPush, Digest

PublicationInv == FilesType /\ PublicationType /\ \A p \in Publishers : PublisherSound(p)

LEMMA PublishTypes ==
  ASSUME PublicationInv, NEW p \in Publishers, PublishSteps(p)
  PROVE  PublicationType'
<1>1. pub[p] \in RunType
  BY DEF PublicationInv, PublicationType
<1>2. CASE VerifyRelease(p)
  <2>1. [NoRun EXCEPT !.pc = "push", !.release = outputs["archive"]] \in RunType
    BY <1>2, NoRunType DEF VerifyRelease, RunType, Stages
  <2> QED
    BY <1>2, <2>1 DEF VerifyRelease, Proceeds, PublicationInv, PublicationType
<1>3. CASE Push(p)
  <2>1. OrasPush(p) \in Digest
    BY <1>3, OrasPushType DEF Push, PublicationInv, PublisherSound, HoldsRelease
  <2>2. [pub[p] EXCEPT !.pc = "parse", !.answer = OrasPush(p)] \in RunType
    BY <1>1, <2>1 DEF RunType, Stages
  <2> QED
    BY <1>3, <2>1, <2>2 DEF Push, Proceeds, PublicationInv, PublicationType
<1>4. CASE ParsePushOutput(p)
  <2>1. [pub[p] EXCEPT !.pc = "sign", !.answer = None, !.reference = Reference(p)]
          \in RunType
    BY <1>1 DEF RunType, Stages, Reference
  <2> QED
    BY <1>4, <2>1 DEF ParsePushOutput, Proceeds, PublicationInv, PublicationType
<1>5. CASE CosignSign(p)
  <2>1. [pub[p] EXCEPT !.pc = "verify"] \in RunType
    BY <1>1 DEF RunType, Stages
  <2> QED
    BY <1>5, <2>1 DEF CosignSign, Proceeds, PublicationInv, PublicationType
<1>6. CASE CosignVerify(p)
  <2>1. SignatureVerifies(pub[p].reference) \in BOOLEAN
    BY DEF SignatureVerifies
  <2>2. [pub[p] EXCEPT !.pc = "pull",
           !.signatureVerified = SignatureVerifies(pub[p].reference)] \in RunType
    BY <1>1, <2>1, Zenon DEF RunType, Stages
  <2> QED
    BY <1>6, <2>2 DEF CosignVerify, Proceeds, PublicationInv, PublicationType
<1>7. CASE PullByDigest(p)
  <2> DEFINE layer == pub[p].reference.layer
  <2>1. pub[p].reference \in Digest
    BY <1>7 DEF PullByDigest, PublicationInv, PublisherSound, HoldsReference
  <2>2. layer \in Contents /\ ArchiveIsExpected(p, layer) \in BOOLEAN
    BY <2>1 DEF Digest, ArchiveIsExpected
  <2>3. pub' = [pub EXCEPT ![p] = [pub[p] EXCEPT !.pc = "decide", !.pulled = layer,
                  !.archiveVerified = ArchiveIsExpected(p, layer)]]
    BY <1>7 DEF PullByDigest, Proceeds
  <2> HIDE DEF layer
  <2>4. [pub[p] EXCEPT !.pc = "decide", !.pulled = layer,
           !.archiveVerified = ArchiveIsExpected(p, layer)] \in RunType
    BY <1>1, <2>2 DEF RunType, Stages
  <2> QED
    BY <1>7, <2>3, <2>4 DEF PullByDigest, PublicationInv, PublicationType
<1>8. CASE Decide(p)
  <2>1. clock \in Nat
    BY DEF PublicationInv, PublicationType
  <2>2. [pub[p] EXCEPT !.pc = "admit", !.decidedAt = clock] \in RunType
    BY <1>1, <2>1 DEF RunType, Stages
  <2> QED
    BY <1>8, <2>2, NoRunType DEF Decide, Proceeds, PublicationInv, PublicationType
<1>9. CASE Admit(p) \/ Abort(p)
  BY <1>9, NoRunType DEF Admit, Abort, Proceeds, PublicationInv, PublicationType
<1> QED
  BY <1>2, <1>3, <1>4, <1>5, <1>6, <1>7, <1>8, <1>9 DEF PublishSteps

-----------------------------------------------------------------------------
(* What a publisher has established is still so after a step of others.    *)
LEMMA OthersStep ==
  ASSUME NEW p \in Publishers, PublisherSound(p), pub'[p] = pub[p],
         pushed \subseteq pushed', signatures \subseteq signatures'
  PROVE  PublisherSound(p)'
<1>1. HoldsRelease(p)' /\ HoldsAnswer(p)' /\ HoldsReference(p)' /\ HoldsArchive(p)'
  BY DEF PublisherSound, HoldsRelease, HoldsAnswer, HoldsReference, HoldsArchive
<1>2. HoldsSignature(p)'
  BY DEF PublisherSound, HoldsSignature, SignatureVerifies
<1>3. HoldsDecision(p)'
  BY DEF PublisherSound, HoldsDecision, Deny, Denial, ConceptDenials, Manifest
<1> QED
  BY <1>1, <1>2, <1>3 DEF PublisherSound

LEMMA Idle ==
  ASSUME NEW p \in Publishers, pub'[p] = NoRun
  PROVE  PublisherSound(p)'
BY DEF PublisherSound, NoRun, HoldsRelease, HoldsAnswer, HoldsReference, HoldsSignature,
       HoldsArchive, HoldsDecision

(* Every step of a publisher establishes what the next stage builds on.    *)
LEMMA OwnStep ==
  ASSUME PublicationInv, NEW p \in Publishers, PublishSteps(p)
  PROVE  PublisherSound(p)'
<1>1. pub[p] \in RunType /\ pub \in [Publishers -> RunType] /\ PublisherSound(p)
  BY DEF PublicationInv, PublicationType
<1> USE DEF PublisherSound, HoldsRelease, HoldsAnswer, HoldsReference, HoldsSignature,
            HoldsArchive, HoldsDecision
<1>2. CASE VerifyRelease(p)
  <2>1. pub'[p] = [NoRun EXCEPT !.pc = "push", !.release = outputs["archive"]]
    BY <1>1, <1>2 DEF VerifyRelease, Proceeds
  <2> QED
    BY <1>2, <2>1 DEF VerifyRelease, NoRun
<1>3. CASE Push(p)
  <2>1. CASE UNCHANGED pub
    BY <1>1, <1>3, <2>1, OthersStep DEF Push
  <2>2. CASE Proceeds(p, [pub[p] EXCEPT !.pc = "parse", !.answer = OrasPush(p)])
    <3>1. pub'[p] = [pub[p] EXCEPT !.pc = "parse", !.answer = OrasPush(p)]
      BY <1>1, <2>2 DEF Proceeds
    <3>2. OrasPush(p) \in Digest /\ OrasPush(p).annotated = pub[p].release
      BY <1>1, <1>3, OrasPushType DEF Push, PublicationInv, OrasPush
    <3>3. <<p, OrasPush(p)>> \in pushed'
      BY <1>3 DEF Push
    <3>4. ~pub[p].signatureVerified
      BY <1>1, <1>3 DEF Push
    <3> HIDE DEF PublisherSound
    <3>5. pub'[p].pc = "parse" /\ pub'[p].answer = OrasPush(p)
          /\ pub'[p].release = pub[p].release
          /\ pub'[p].signatureVerified = pub[p].signatureVerified
      BY <1>1, <3>1 DEF RunType
    <3> QED
      BY <1>1, <1>3, <3>2, <3>3, <3>4, <3>5 DEF Push, PublisherSound
  <2> QED
    BY <1>3, <2>1, <2>2 DEF Push
<1>4. CASE ParsePushOutput(p)
  <2>1. pub'[p] = [pub[p] EXCEPT !.pc = "sign", !.answer = None, !.reference = pub[p].answer]
    BY <1>1, <1>4 DEF ParsePushOutput, Proceeds, Reference
  <2>2. /\ pub'[p].pc = "sign" /\ pub'[p].reference = pub[p].answer
        /\ pub'[p].release = pub[p].release
        /\ pub'[p].signatureVerified = pub[p].signatureVerified
    BY <1>1, <2>1 DEF RunType
  <2> QED
    BY <1>1, <1>4, <2>2 DEF ParsePushOutput
<1>5. CASE CosignSign(p)
  <2>1. pub'[p] = [pub[p] EXCEPT !.pc = "verify"]
    BY <1>1, <1>5 DEF CosignSign, Proceeds
  <2>2. /\ pub'[p].pc = "verify" /\ pub'[p].reference = pub[p].reference
        /\ pub'[p].release = pub[p].release
        /\ pub'[p].signatureVerified = pub[p].signatureVerified
    BY <1>1, <2>1 DEF RunType
  <2> QED
    BY <1>1, <1>5, <2>2 DEF CosignSign
<1>6. CASE CosignVerify(p)
  <2> DEFINE verified == SignatureVerifies(pub[p].reference)
  <2>1. pub'[p] = [pub[p] EXCEPT !.pc = "pull", !.signatureVerified = verified]
    BY <1>1, <1>6 DEF CosignVerify, Proceeds
  <2> HIDE DEF verified
  <2>2. /\ pub'[p].pc = "pull" /\ pub'[p].reference = pub[p].reference
        /\ pub'[p].release = pub[p].release
        /\ pub'[p].signatureVerified = verified
    BY <1>1, <2>1 DEF RunType
  <2>3. verified => SignatureVerifies(pub[p].reference)'
    BY <1>6, <2>2 DEF verified, SignatureVerifies, CosignVerify
  <2> QED
    BY <1>1, <1>6, <2>2, <2>3 DEF CosignVerify
<1>7. CASE PullByDigest(p)
  <2> DEFINE layer == pub[p].reference.layer
             expected == ArchiveIsExpected(p, layer)
  <2>1. pub'[p] = [pub[p] EXCEPT !.pc = "decide", !.pulled = layer,
                     !.archiveVerified = expected]
    BY <1>1, <1>7 DEF PullByDigest, Proceeds
  <2>2. expected => layer = pub[p].release
    BY DEF ArchiveIsExpected
  <2> HIDE DEF expected
  <2>3. /\ pub'[p].pc = "decide" /\ pub'[p].reference = pub[p].reference
        /\ pub'[p].release = pub[p].release /\ pub'[p].pulled = layer
        /\ pub'[p].archiveVerified = expected
        /\ pub'[p].signatureVerified = pub[p].signatureVerified
    BY <1>1, <2>1 DEF RunType
  <2>4. SignatureVerifies(pub[p].reference) => SignatureVerifies(pub[p].reference)'
    BY <1>7, <2>3 DEF SignatureVerifies, PullByDigest
  <2> QED
    BY <1>1, <1>7, <2>2, <2>3, <2>4 DEF PullByDigest
<1>8. CASE Decide(p)
  <2>1. CASE Deny(pub[p], clock) = {}
    <3>1. pub'[p] = [pub[p] EXCEPT !.pc = "admit", !.decidedAt = clock]
      BY <1>1, <1>8, <2>1 DEF Decide, Proceeds
    <3>2. /\ pub'[p].pc = "admit" /\ pub'[p].reference = pub[p].reference
          /\ pub'[p].release = pub[p].release /\ pub'[p].pulled = pub[p].pulled
          /\ pub'[p].archiveVerified = pub[p].archiveVerified
          /\ pub'[p].signatureVerified = pub[p].signatureVerified
          /\ pub'[p].decidedAt = clock
      BY <1>1, <3>1 DEF RunType
    <3>3. Deny(pub'[p], clock) = {}
      BY <2>1, <3>2 DEF Deny
    <3>4. SignatureVerifies(pub[p].reference) => SignatureVerifies(pub[p].reference)'
      BY <1>8, <3>2 DEF SignatureVerifies, Decide
    <3>5. HoldsDecision(p)'
      BY <3>2, <3>3 DEF Deny, Denial, ConceptDenials, Manifest
    <3> QED
      BY <1>1, <1>8, <3>2, <3>4, <3>5 DEF Decide
  <2>2. CASE Deny(pub[p], clock) # {}
    <3>1. pub'[p] = NoRun
      BY <1>1, <1>8, <2>2 DEF Decide, Proceeds
    <3> QED
      BY <3>1, Idle
  <2> QED
    BY <2>1, <2>2
<1>9. CASE Admit(p) \/ Abort(p)
  <2>1. pub'[p] = NoRun
    BY <1>1, <1>9 DEF Admit, Abort, Proceeds
  <2> QED
    BY <2>1, Idle
<1> QED
  BY <1>2, <1>3, <1>4, <1>5, <1>6, <1>7, <1>8, <1>9 DEF PublishSteps

-----------------------------------------------------------------------------
(* What is signed and admitted *)

ConceptsAdmitted(a) ==
  \A c \in Concepts[a.archive] :
    /\ c.lacks \cap {"acl_ref", "sources", "stale_after"} = {}
    /\ a.decidedAt < c.staleAfter

AdmissionSound(a) ==
  /\ a.archive \in Bundles
  /\ a.archive = a.digest.layer
  /\ a.archive = a.digest.annotated
  /\ a.decidedAt \in Nat
  /\ ConceptsAdmitted(a)
  /\ \E s \in Trusted : <<s, a.digest>> \in pushed \cap signatures

PublishedInv ==
  /\ PublicationInv
  /\ SignedIsOwnPush
  /\ \A a \in catalog : AdmissionSound(a)

LEMMA AdmissionsLast ==
  ASSUME NEW a, AdmissionSound(a), pushed \subseteq pushed', signatures \subseteq signatures'
  PROVE  AdmissionSound(a)'
BY DEF AdmissionSound, ConceptsAdmitted

(* What a publisher about to admit has in its hands.                       *)
LEMMA ReadyToAdmit ==
  ASSUME PublicationInv, NEW p \in Publishers, pub[p].pc = "admit"
  PROVE  /\ pub[p].pulled \in Bundles
         /\ pub[p].pulled = pub[p].reference.layer
         /\ pub[p].pulled = pub[p].reference.annotated
         /\ pub[p].decidedAt \in Nat
         /\ SignatureVerifies(pub[p].reference)
         /\ \A c \in Concepts[pub[p].pulled] :
              /\ c \in Concept
              /\ c.lacks \cap {"acl_ref", "sources", "stale_after"} = {}
              /\ c.status \in AllowedStatuses
              /\ pub[p].decidedAt < c.staleAfter
<1>1. PublisherSound(p) /\ pub[p] \in RunType
  BY DEF PublicationInv, PublicationType
<1>2. pub[p].decidedAt \in Nat /\ Deny(pub[p], pub[p].decidedAt) = {}
  BY <1>1 DEF RunType, PublisherSound, HoldsDecision
<1>3. /\ pub[p].signatureVerified /\ pub[p].archiveVerified
      /\ \A c \in Manifest(pub[p].pulled) : ConceptDenials(c, pub[p].decidedAt) = {}
  BY <1>2, NoDenialMeans
<1>4. /\ pub[p].pulled \in Bundles
      /\ pub[p].pulled = pub[p].reference.layer
      /\ pub[p].pulled = pub[p].reference.annotated
  BY <1>1, <1>3 DEF PublisherSound, HoldsArchive, HoldsRelease, HoldsReference
<1>5. SignatureVerifies(pub[p].reference)
  BY <1>1, <1>3 DEF PublisherSound, HoldsSignature
<1>6. Concepts[pub[p].pulled] \subseteq Concept
  BY <1>4, FilesAssumption
<1>7. ASSUME NEW c \in Concepts[pub[p].pulled]
      PROVE  /\ c.lacks \cap {"acl_ref", "sources", "stale_after"} = {}
             /\ c.status \in AllowedStatuses
             /\ pub[p].decidedAt < c.staleAfter
  BY <1>2, <1>3, <1>4, <1>6, NoConceptDenialMeans DEF Manifest
<1> QED
  BY <1>2, <1>4, <1>5, <1>6, <1>7

LEMMA PublishGrows ==
  ASSUME NEW p \in Publishers, PublishSteps(p)
  PROVE  pushed \subseteq pushed' /\ signatures \subseteq signatures'
BY DEF PublishSteps, VerifyRelease, Push, ParsePushOutput, CosignSign, CosignVerify,
       PullByDigest, Decide, Admit, Abort

LEMMA PublishSigns ==
  ASSUME PublishedInv, NEW p \in Publishers, PublishSteps(p)
  PROVE  SignedIsOwnPush'
<1>1. PublisherSound(p)
  BY DEF PublishedInv, PublicationInv
<1>2. CASE CosignSign(p)
  <2>1. <<p, pub[p].reference>> \in pushed
    BY <1>1, <1>2 DEF CosignSign, PublisherSound, HoldsReference
  <2> QED
    BY <1>2, <2>1 DEF CosignSign, PublishedInv, SignedIsOwnPush
<1>3. CASE ~CosignSign(p)
  <2>1. signatures' = signatures
    BY <1>3 DEF PublishSteps, VerifyRelease, Push, ParsePushOutput, CosignVerify,
                PullByDigest, Decide, Admit, Abort
  <2> QED
    BY <2>1, PublishGrows DEF PublishedInv, SignedIsOwnPush
<1> QED
  BY <1>2, <1>3

LEMMA PublishAdmits ==
  ASSUME PublishedInv, NEW p \in Publishers, PublishSteps(p), NEW a \in catalog'
  PROVE  AdmissionSound(a)'
<1>1. ASSUME a \in catalog PROVE AdmissionSound(a)'
  BY <1>1, PublishGrows, AdmissionsLast DEF PublishedInv
<1>2. CASE a \notin catalog
  <2>1. Admit(p)
    BY <1>2 DEF PublishSteps, VerifyRelease, Push, ParsePushOutput, CosignSign,
                CosignVerify, PullByDigest, Decide, Abort
  <2>2. a = [digest |-> pub[p].reference, archive |-> pub[p].pulled,
             decidedAt |-> pub[p].decidedAt]
    BY <1>2, <2>1 DEF Admit
  <2>3. a.digest = pub[p].reference /\ a.archive = pub[p].pulled
        /\ a.decidedAt = pub[p].decidedAt
    BY <2>2
  <2>4. PublicationInv /\ pub[p].pc = "admit"
    BY <2>1 DEF PublishedInv, Admit
  <2>5. ConceptsAdmitted(a)
    BY <2>3, <2>4, ReadyToAdmit DEF ConceptsAdmitted
  <2>6. \E s \in Trusted : <<s, a.digest>> \in pushed \cap signatures
    BY <2>3, <2>4, ReadyToAdmit DEF SignatureVerifies, PublishedInv, SignedIsOwnPush
  <2>7. AdmissionSound(a)
    BY <2>3, <2>4, <2>5, <2>6, ReadyToAdmit DEF AdmissionSound
  <2> QED
    BY <2>7, PublishGrows, AdmissionsLast
<1> QED
  BY <1>1, <1>2

LEMMA PublishedInit == Init => PublishedInv
<1> SUFFICES ASSUME Init PROVE PublishedInv
  OBVIOUS
<1>1. FilesType
  BY FilesAssumption, NoCommandType DEF Init, FilesInit, FilesType, NoFiles, Contents
<1>2. PublicationType
  BY NoRunType DEF Init, PublicationType
<1>3. ASSUME NEW p \in Publishers PROVE PublisherSound(p)
  BY DEF Init, PublisherSound, NoRun, HoldsRelease, HoldsAnswer, HoldsReference,
         HoldsSignature, HoldsArchive, HoldsDecision
<1> QED
  BY <1>1, <1>2, <1>3 DEF Init, PublishedInv, PublicationInv, SignedIsOwnPush

LEMMA PublishedStep == PublishedInv /\ [Next]_vars => PublishedInv'
<1> SUFFICES ASSUME PublishedInv, [Next]_vars PROVE PublishedInv'
  OBVIOUS
<1>1. FilesType /\ PublicationType
  BY DEF PublishedInv, PublicationInv
<1>2. ASSUME NEW p \in Publishers, Publish(p) PROVE PublishedInv'
  <2>1. PublishSteps(p)
    BY <1>2 DEF Publish, PublishSteps
  <2>2. UNCHANGED filesVars
    BY <2>1 DEF PublishSteps, VerifyRelease, Push, ParsePushOutput, CosignSign,
                CosignVerify, PullByDigest, Decide, Admit, Abort
  <2>3. FilesType'
    BY <1>1, <2>2, FilesTypeStep DEF FilesStep
  <2>4. PublicationType'
    BY <2>1, PublishTypes DEF PublishedInv
  <2>5. ASSUME NEW o \in Publishers PROVE PublisherSound(o)'
    <3>1. CASE o = p
      BY <2>1, <3>1, OwnStep DEF PublishedInv
    <3>2. CASE o # p
      <4>1. pub'[o] = pub[o]
        BY <1>1, <2>1, <3>2
        DEF PublicationType, PublishSteps, VerifyRelease, Push, ParsePushOutput, CosignSign,
            CosignVerify, PullByDigest, Decide, Admit, Abort, Proceeds
      <4> QED
        BY <2>1, <4>1, PublishGrows, OthersStep DEF PublishedInv, PublicationInv
    <3> QED
      BY <3>1, <3>2
  <2>6. SignedIsOwnPush' /\ \A a \in catalog' : AdmissionSound(a)'
    BY <2>1, PublishSigns, PublishAdmits
  <2> QED
    BY <2>3, <2>4, <2>5, <2>6 DEF PublishedInv, PublicationInv
<1>3. CASE FilesStep /\ UNCHANGED <<tag, pushed, signatures, pub, catalog>>
           /\ clock' \in Nat
  <2>1. FilesType'
    BY <1>1, <1>3, FilesTypeStep
  <2>2. PublicationType'
    BY <1>1, <1>3 DEF PublicationType
  <2>3. ASSUME NEW p \in Publishers PROVE PublisherSound(p)'
    BY <1>3, OthersStep DEF PublishedInv, PublicationInv
  <2>4. SignedIsOwnPush' /\ \A a \in catalog' : AdmissionSound(a)'
    BY <1>3, AdmissionsLast DEF PublishedInv, SignedIsOwnPush
  <2> QED
    BY <2>1, <2>2, <2>3, <2>4 DEF PublishedInv, PublicationInv
<1>4. CASE FilesNext /\ UNCHANGED publicationVars
  BY <1>1, <1>3, <1>4 DEF FilesStep, publicationVars, PublicationType
<1>5. CASE Tick
  BY <1>1, <1>3, <1>5 DEF Tick, FilesStep, PublicationType
<1>6. CASE UNCHANGED vars
  BY <1>1, <1>3, <1>6 DEF vars, FilesStep, publicationVars, PublicationType
<1> QED
  BY <1>2, <1>4, <1>5, <1>6 DEF Next

LEMMA PublishedAlways == Spec => []PublishedInv
BY PublishedInit, PublishedStep, PTL DEF Spec

(* Whatever moves the tag between a push and the signature, a publisher    *)
(* signs a digest that it pushed itself.                                   *)
THEOREM PublishersSignOwnPushes == Spec => []SignedIsOwnPush
<1>1. PublishedInv => SignedIsOwnPush
  BY DEF PublishedInv
<1> QED
  BY <1>1, PublishedAlways, PTL

(* An admitted digest holds the archive its annotations name, complete and *)
(* buildable, and a trusted publisher pushed and signed that very digest.  *)
THEOREM AdmissionsArePublished == Spec => []AdmittedIsPublished
<1>1. PublishedInv => AdmittedIsPublished
  BY DEF PublishedInv, AdmittedIsPublished, AdmissionSound, ConceptsAdmitted, Buildable
<1> QED
  BY <1>1, PublishedAlways, PTL

(* What the policy allows can be indexed, and its stable concepts are      *)
(* served at the time of the decision and at the next.                     *)
THEOREM AdmissionsAreServed == Spec => []AdmittedIsServed
<1>1. ASSUME PublishedInv PROVE AdmittedIsServed
  <2>1. ASSUME NEW p \in Publishers, pub[p].pc = "admit",
               NEW c \in Concepts[pub[p].pulled]
        PROVE  Indexable(c) /\ c.status \in AllowedStatuses
    BY <1>1, <2>1, ReadyToAdmit DEF PublishedInv, Indexable
  <2>2. ASSUME NEW a \in catalog, NEW c \in Concepts[a.archive], c.status = "stable"
        PROVE  Served(c, a.decidedAt) /\ Served(c, a.decidedAt + 1)
    <3>1. a.archive \in Bundles /\ a.decidedAt \in Nat /\ a.decidedAt < c.staleAfter
      BY <1>1 DEF PublishedInv, AdmissionSound, ConceptsAdmitted
    <3>2. c \in Concept
      BY <3>1, FilesAssumption
    <3>3. c.staleAfter \in Nat
      BY <3>2 DEF Concept
    <3> QED
      BY <2>2, <3>1, <3>3 DEF Served
  <2> QED
    BY <2>1, <2>2 DEF AdmittedIsServed
<1> QED
  BY <1>1, PublishedAlways, PTL

-----------------------------------------------------------------------------
(* The pair of files *)

(* An invocation that runs alone finds its files as it left them.          *)
CommandSound(w) ==
  cli[w].alone =>
    /\ cli[w].pc # "idle"
    /\ \A o \in Others(w) : cli[o].pc = "idle"
    /\ cli[w].pc = "check" => outputs = cli[w].found
    /\ cli[w].pc \in Files =>
         \/ cli[w].force
         \/ \A f \in Files : cli[w].found[f] \in {None, cli[w].artifact}
    /\ cli[w].pc = "archive" => outputs["manifest"] = cli[w].artifact

PairInv == FilesType /\ \A w \in Builders : CommandSound(w)

(* When another one takes a step, an invocation no longer runs alone.      *)
LEMMA NotAlone ==
  ASSUME PairInv, NEW w \in Builders, NEW o \in Others(w), cli[o].pc # "idle"
  PROVE  ~cli[w].alone
BY DEF PairInv, CommandSound

LEMMA PairStep ==
  ASSUME PairInv, FilesStep
  PROVE  /\ \A w \in Builders : CommandSound(w)'
         /\ \A w \in Builders : Returns(w) /\ cli[w].alone =>
              IF cli[w].pc = "archive"
              THEN /\ \A f \in Files : outputs'[f] = cli[w].artifact
                   /\ ~cli[w].force =>
                        \A f \in Files : cli[w].found[f] \in {None, cli[w].artifact}
              ELSE outputs' = cli[w].found
<1> DEFINE Goal(w) ==
      /\ CommandSound(w)'
      /\ Returns(w) /\ cli[w].alone =>
           IF cli[w].pc = "archive"
           THEN /\ \A f \in Files : outputs'[f] = cli[w].artifact
                /\ ~cli[w].force =>
                     \A f \in Files : cli[w].found[f] \in {None, cli[w].artifact}
           ELSE outputs' = cli[w].found
<1> SUFFICES ASSUME NEW w \in Builders PROVE Goal(w)
  OBVIOUS
<1>1. /\ outputs \in [Files -> Contents] /\ cli \in [Builders -> Command]
      /\ cli[w] \in Command /\ CommandSound(w) /\ crashes \in Nat
  BY DEF PairInv, FilesType
<1>2. CASE UNCHANGED <<outputs, cli, crashes>>
  BY <1>1, <1>2 DEF CommandSound, Returns
<1>3. ASSUME NEW v \in Builders, NEW force \in BOOLEAN, Build(v, force) PROVE Goal(w)
  <2>1. CASE v = w
    <3> DEFINE alone == \A o \in Others(w) : cli[o].pc = "idle"
    <3>1. cli'[w] = [NoCommand EXCEPT !.pc = "check", !.force = force,
                       !.artifact = bundle, !.found = outputs, !.alone = alone]
      BY <1>3, <2>1 DEF Build
    <3> HIDE DEF alone
    <3>2. /\ cli'[w].pc = "check" /\ cli'[w].found = outputs /\ cli'[w].alone = alone
      BY <3>1 DEF NoCommand
    <3>3. ASSUME NEW o \in Others(w) PROVE cli'[o].pc = cli[o].pc
      <4>1. cli'[o] = [cli[o] EXCEPT !.alone = FALSE, !.found = NoFiles]
        BY <1>3, <2>1 DEF Build, Others
      <4>2. cli[o] \in Command
        BY <1>1 DEF Others
      <4> QED
        BY <4>1, <4>2 DEF Command
    <3>4. CommandSound(w)'
      BY <1>3, <3>2, <3>3 DEF CommandSound, Build, Others, alone, Files
    <3> QED
      BY <3>2, <3>4 DEF Returns
  <2>2. CASE v # w
    <3>1. cli'[w] = [cli[w] EXCEPT !.alone = FALSE, !.found = NoFiles]
      BY <1>3, <2>2 DEF Build
    <3>2. ~cli'[w].alone /\ cli'[w].pc = cli[w].pc
      BY <1>1, <3>1 DEF Command
    <3>3. cli[w].pc = "idle" => ~cli[w].alone
      BY <1>1 DEF CommandSound
    <3> QED
      BY <3>2, <3>3 DEF CommandSound, Returns
  <2> QED
    BY <2>1, <2>2
<1>4. ASSUME NEW v \in Builders, cli[v].pc # "idle", v # w, cli'[w] = cli[w]
      PROVE  Goal(w)
  BY <1>4, NotAlone DEF CommandSound, Returns, Others
<1>5. ASSUME NEW v \in Builders, CheckOutputs(v) PROVE Goal(w)
  <2>1. CASE v # w
    <3>1. cli'[w] = cli[w]
      BY <1>1, <1>5, <2>1 DEF CheckOutputs, Becomes
    <3> QED
      BY <1>4, <1>5, <2>1, <3>1 DEF CheckOutputs
  <2>2. CASE v = w /\ Changed(w) # {} /\ ~cli[w].force
    <3>1. cli'[w] = NoCommand
      BY <1>1, <1>5, <2>2 DEF CheckOutputs, Becomes
    <3> QED
      BY <1>1, <1>5, <2>2, <3>1, NoCommandType DEF CommandSound, CheckOutputs
  <2>3. CASE v = w /\ ~(Changed(w) # {} /\ ~cli[w].force)
    <3>1. cli' = [cli EXCEPT ![w] = [cli[w] EXCEPT !.pc = "manifest"]]
      BY <1>5, <2>3 DEF CheckOutputs, Becomes
    <3>2. /\ cli'[w].pc = "manifest" /\ cli'[w].alone = cli[w].alone
          /\ cli'[w].force = cli[w].force /\ cli'[w].found = cli[w].found
          /\ cli'[w].artifact = cli[w].artifact
      BY <1>1, <3>1 DEF Command
    <3>3. \A o \in Others(w) : cli'[o] = cli[o]
      BY <1>1, <3>1 DEF Others
    <3>4. cli[w].alone /\ ~cli[w].force =>
            \A f \in Files : cli[w].found[f] \in {None, cli[w].artifact}
      BY <1>1, <1>5, <2>3 DEF CheckOutputs, CommandSound, Changed
    <3>5. CommandSound(w)'
      BY <1>1, <3>2, <3>3, <3>4 DEF CommandSound, Others
    <3> QED
      BY <3>2, <3>5 DEF Returns
  <2> QED
    BY <2>1, <2>2, <2>3
<1>6. ASSUME NEW v \in Builders, WriteFile(v) PROVE Goal(w)
  <2>1. CASE v # w
    <3>1. cli'[w] = cli[w] /\ cli[v].pc # "idle"
      BY <1>1, <1>6, <2>1 DEF WriteFile, Becomes, Files
    <3> QED
      BY <1>4, <2>1, <3>1
  <2>2. CASE v = w /\ cli' = [cli EXCEPT ![w] = FileDone(w)]
             /\ outputs' \in [Files -> Contents]
             /\ outputs'[cli[w].pc] = cli[w].artifact
             /\ \A f \in Files \ {cli[w].pc} : outputs'[f] = outputs[f]
    <3>1. CASE cli[w].pc = "manifest"
      <4>1. cli'[w] = [cli[w] EXCEPT !.pc = "archive", !.filling = FALSE]
        BY <1>1, <2>2, <3>1 DEF FileDone
      <4>2. /\ cli'[w].pc = "archive" /\ cli'[w].alone = cli[w].alone
            /\ cli'[w].force = cli[w].force /\ cli'[w].found = cli[w].found
            /\ cli'[w].artifact = cli[w].artifact
        BY <1>1, <4>1 DEF Command
      <4>3. \A o \in Others(w) : cli'[o] = cli[o]
        BY <1>1, <2>2 DEF Others
      <4>4. CommandSound(w)'
        BY <1>1, <2>2, <3>1, <4>2, <4>3 DEF CommandSound, Others, Files
      <4> QED
        BY <4>2, <4>4 DEF Returns
    <3>2. CASE cli[w].pc = "archive"
      <4>1. cli'[w] = NoCommand
        BY <1>1, <2>2, <3>2 DEF FileDone
      <4> QED
        BY <1>1, <2>2, <3>2, <4>1, NoCommandType DEF CommandSound, Files
    <3> QED
      BY <1>6, <2>2, <3>1, <3>2 DEF WriteFile, Files
  <2>3. CASE v = w /\ cli' = [cli EXCEPT ![w] = [cli[w] EXCEPT !.filling = TRUE]]
             /\ outputs' = [outputs EXCEPT ![cli[w].pc] = Torn]
    <3>1. /\ cli'[w].pc = cli[w].pc /\ cli'[w].alone = cli[w].alone
          /\ cli'[w].force = cli[w].force /\ cli'[w].found = cli[w].found
          /\ cli'[w].artifact = cli[w].artifact
      BY <1>1, <2>3 DEF Command
    <3>2. \A o \in Others(w) : cli'[o] = cli[o]
      BY <1>1, <2>3 DEF Others
    <3>3. cli[w].pc \in Files
      BY <1>6, <2>3 DEF WriteFile
    <3>4. cli[w].pc = "archive" => outputs'["manifest"] = outputs["manifest"]
      BY <1>1, <2>3 DEF Files
    <3>5. CommandSound(w)'
      BY <1>1, <3>1, <3>2, <3>3, <3>4 DEF CommandSound, Others, Files
    <3> QED
      BY <3>1, <3>3, <3>5 DEF Returns, Files
  <2>4. cli[v].pc \in Files
    BY <1>6 DEF WriteFile
  <2>5. CASE v = w
    <3>1. CASE cli[w].filling \/ outputs[cli[w].pc] = cli[w].artifact
      <4>1. cli[w].artifact \in Contents
        BY <1>1 DEF Command
      <4>2. CASE cli[w].filling
        <5>1. /\ outputs' = [outputs EXCEPT ![cli[w].pc] = cli[w].artifact]
              /\ cli' = [cli EXCEPT ![w] = FileDone(w)]
          BY <1>6, <2>5, <4>2 DEF WriteFile, Becomes
        <5> QED
          BY <1>1, <2>2, <2>4, <2>5, <4>1, <5>1
      <4>3. CASE ~cli[w].filling
        <5>1. outputs' = outputs /\ cli' = [cli EXCEPT ![w] = FileDone(w)]
          BY <1>6, <2>5, <3>1, <4>3 DEF WriteFile, Becomes
        <5> QED
          BY <1>1, <2>2, <2>4, <2>5, <3>1, <4>3, <5>1
      <4> QED
        BY <4>2, <4>3
    <3>2. CASE ~cli[w].filling /\ outputs[cli[w].pc] # cli[w].artifact
      BY <1>6, <2>3, <2>5, <3>2 DEF WriteFile, Becomes
    <3> QED
      BY <3>1, <3>2
  <2> QED
    BY <2>1, <2>5
<1>7. ASSUME NEW v \in Builders, CrashCommand(v) PROVE Goal(w)
  <2>1. crashes' # crashes
    BY <1>1, <1>7 DEF CrashCommand
  <2>2. CASE v # w
    <3>1. cli'[w] = cli[w]
      BY <1>1, <1>7, <2>2 DEF CrashCommand, Becomes
    <3> QED
      BY <1>4, <1>7, <2>2, <3>1 DEF CrashCommand
  <2>3. CASE v = w
    <3>1. cli'[w] = NoCommand
      BY <1>1, <1>7, <2>3 DEF CrashCommand, Becomes
    <3> QED
      BY <2>1, <3>1, NoCommandType DEF CommandSound, Returns
  <2> QED
    BY <2>2, <2>3
<1> HIDE DEF Goal
<1> QED
  BY <1>2, <1>3, <1>5, <1>6, <1>7 DEF FilesStep, FilesNext, EditBundle, filesVars

(* An invocation of build-release that runs alone leaves both files of one *)
(* build, its own, or those it found, however torn they were before.       *)
THEOREM PairsAreSound == FilesInit /\ [][FilesNext]_filesVars => PairIsSound
<1>1. FilesInit => PairInv
  BY FilesAssumption, NoCommandType
  DEF FilesInit, PairInv, FilesType, NoFiles, Contents, CommandSound
<1>2. PairInv /\ FilesStep => PairInv'
  BY PairStep, FilesTypeStep DEF PairInv
<1> DEFINE Step == \A w \in Builders : Returns(w) /\ cli[w].alone =>
         LET command == cli[w]
         IN  IF command.pc = "archive"
             THEN /\ \A f \in Files : outputs'[f] = command.artifact
                  /\ ~command.force =>
                       \A f \in Files : command.found[f] \in {None, command.artifact}
             ELSE outputs' = command.found
<1>3. PairInv /\ FilesStep => Step
  BY PairStep
<1> HIDE DEF Step
<1>4. FilesInit /\ [][FilesNext]_filesVars => [][Step]_filesVars
  BY <1>1, <1>2, <1>3, PTL DEF FilesStep
<1> QED
  BY <1>4 DEF PairIsSound, Step
=============================================================================
