---------------------------- MODULE Publication ----------------------------
(***************************************************************************)
(* Publication of a release archive: a publisher verifies the archive,     *)
(* pushes it to a tag of an OCI repository with oras, signs the digest     *)
(* with cosign, verifies the signature, pulls by digest, has the admission *)
(* policy decide and admits to the catalog (supply_chain.py,               *)
(* release_admission.rego, ReleaseCatalog.admit), while build-release      *)
(* replaces the archive, other publishers move the tag and time passes.    *)
(*                                                                         *)
(* The registry, oras, cosign and OPA are external; the commands they are  *)
(* given and the checks of what they answer are the code's, but for the    *)
(* comparison of ArchiveIsExpected.  A registry digest is the OCI manifest *)
(* it is taken of: the layer, and the archive digest the annotations name. *)
(* The comparisons of the policy that only look a manifest field up in a   *)
(* list are left out, but for the status.                                  *)
(* Bounds: MaxTime, MaxPushes.                                             *)
(***************************************************************************)
EXTENDS ReleaseFiles

CONSTANTS
  Publishers,
  Trusted,            \* publishers whose signatures the trust policy accepts
  AllowedStatuses,    \* allowed_statuses and require_source_hash of
  RequireSourceHash,  \* the environment's policy
  MaxTime,            \* bound: length of time
  MaxPushes           \* bound: different pushes

ASSUME PublicationAssumption ==
  /\ Trusted \subseteq Publishers
  /\ AllowedStatuses \subseteq Lifecycle
  /\ RequireSourceHash \in BOOLEAN
  /\ MaxTime \in Nat
  /\ MaxPushes \in Nat

VARIABLES
  clock,
  tag,         \* the digest the tag points at
  pushed,      \* history: who pushed which digest
  signatures,  \* who signed which digest
  pub,         \* each publisher's run of the sequence
  catalog      \* what was admitted: digest, archive, time of the decision

publicationVars == <<clock, tag, pushed, signatures, pub, catalog>>

vars == <<filesVars, publicationVars>>

Digest == [layer : Contents \ {None}, annotated : Bundles]

Admission == [digest : Digest, archive : Bundles, decidedAt : Nat]

NoRun == [pc |-> "idle", release |-> None, answer |-> None, reference |-> None,
          pulled |-> None, signatureVerified |-> FALSE, archiveVerified |-> FALSE,
          decidedAt |-> 0]

Init ==
  /\ FilesInit
  /\ clock = 0
  /\ tag = None
  /\ pushed = {}
  /\ signatures = {}
  /\ pub = [p \in Publishers |-> NoRun]
  /\ catalog = {}

Proceeds(p, r) == pub' = [pub EXCEPT ![p] = r]

Tick ==
  /\ clock < MaxTime
  /\ clock' = clock + 1
  /\ UNCHANGED <<filesVars, tag, pushed, signatures, pub, catalog>>

-----------------------------------------------------------------------------
(* verify-release accepts a complete archive.                              *)
VerifyRelease(p) ==
  /\ pub[p].pc = "idle"
  /\ outputs["archive"] \in Bundles
  /\ Proceeds(p, [NoRun EXCEPT !.pc = "push", !.release = outputs["archive"]])
  /\ UNCHANGED <<filesVars, clock, tag, pushed, signatures, catalog>>

(* oras reads the archive again; the annotations name the verified one.    *)
OrasPush(p) == [layer |-> outputs["archive"], annotated |-> pub[p].release]

(* The tag moves to what was pushed last.  The answer may be lost: the     *)
(* publisher pushes again, or gives up.                                    *)
Push(p) ==
  /\ pub[p].pc = "push"
  /\ outputs["archive"] # None
  /\ tag' = OrasPush(p)
  /\ pushed' = pushed \cup {<<p, OrasPush(p)>>}
  /\ Cardinality(pushed') <= MaxPushes
  /\ \/ Proceeds(p, [pub[p] EXCEPT !.pc = "parse", !.answer = OrasPush(p)])
     \/ UNCHANGED pub
  /\ UNCHANGED <<filesVars, clock, signatures, catalog>>

(* Mutant: the reference is what the tag resolves to.                      *)
ReferenceByTag(p) == tag

(* parse_oras_push_output, digest_reference: the digest oras reported.     *)
Reference(p) == pub[p].answer

ParsePushOutput(p) ==
  /\ pub[p].pc = "parse"
  /\ Proceeds(p, [pub[p] EXCEPT !.pc = "sign", !.answer = None,
                    !.reference = Reference(p)])
  /\ UNCHANGED <<filesVars, clock, tag, pushed, signatures, catalog>>

CosignSign(p) ==
  /\ pub[p].pc = "sign"
  /\ signatures' = signatures \cup {<<p, pub[p].reference>>}
  /\ Proceeds(p, [pub[p] EXCEPT !.pc = "verify"])
  /\ UNCHANGED <<filesVars, clock, tag, pushed, catalog>>

SignatureVerifies(d) == \E s \in Trusted : <<s, d>> \in signatures

CosignVerify(p) ==
  /\ pub[p].pc = "verify"
  /\ Proceeds(p, [pub[p] EXCEPT !.pc = "pull",
                    !.signatureVerified = SignatureVerifies(pub[p].reference)])
  /\ UNCHANGED <<filesVars, clock, tag, pushed, signatures, catalog>>

(* Mutant: whatever was pulled is taken, if it is a release.               *)
ArchiveIsAnyRelease(p, layer) == layer \in Bundles

(* verify_release on the layer, which the code does; and the comparison    *)
(* with expected_archive_sha256, which the plan hands to whoever carries   *)
(* it out: the model assumes that he makes it.                             *)
ArchiveIsExpected(p, layer) == layer \in Bundles /\ layer = pub[p].release

PullByDigest(p) ==
  /\ pub[p].pc = "pull"
  /\ LET layer == pub[p].reference.layer
     IN  Proceeds(p, [pub[p] EXCEPT !.pc = "decide", !.pulled = layer,
                        !.archiveVerified = ArchiveIsExpected(p, layer)])
  /\ UNCHANGED <<filesVars, clock, tag, pushed, signatures, catalog>>

-----------------------------------------------------------------------------
(* release_admission.rego *)

Manifest(archive) == IF archive \in Bundles THEN Concepts[archive] ELSE {}

Denial(code, holds) == IF holds THEN {code} ELSE {}

(* Mutant: a concept is fresh at the very time it becomes stale.           *)
StaleAfterwards(c, time) == c.staleAfter < time

Stale(c, time) == c.staleAfter <= time

ConceptDenials(c, time) ==
  Denial("CONCEPT_ACL_MISSING", "acl_ref" \in c.lacks)
    \cup Denial("CONCEPT_STATUS_NOT_ALLOWED", c.status \notin AllowedStatuses)
    \cup Denial("CONCEPT_SOURCE_MISSING", "sources" \in c.lacks)
    \cup Denial("CONCEPT_SOURCE_HASH_MISSING",
                RequireSourceHash /\ "source_sha256" \in c.lacks)
    \cup Denial("CONCEPT_VERIFICATION_REQUIRED", "verified" \in c.lacks)
    \cup Denial("CONCEPT_FRESHNESS_MISSING", "stale_after" \in c.lacks)
    \cup Denial("CONCEPT_STALE", "stale_after" \notin c.lacks /\ Stale(c, time))

Deny(r, time) ==
  Denial("SIGNATURE_NOT_VERIFIED", ~r.signatureVerified)
    \cup Denial("ARCHIVE_NOT_VERIFIED", ~r.archiveVerified)
    \cup UNION {ConceptDenials(c, time) : c \in Manifest(r.pulled)}

(* The evaluation time is the caller's: the time of the decision.          *)
Decide(p) ==
  /\ pub[p].pc = "decide"
  /\ Proceeds(p, IF Deny(pub[p], clock) = {}
                 THEN [pub[p] EXCEPT !.pc = "admit", !.decidedAt = clock]
                 ELSE NoRun)
  /\ UNCHANGED <<filesVars, clock, tag, pushed, signatures, catalog>>

-----------------------------------------------------------------------------
(* ReleaseCatalog.admit: there are concepts, each has what its index entry *)
(* needs, and a digest that is bound keeps its archive.                    *)
Indexable(c) == c.lacks \cap {"acl_ref", "stale_after"} = {}

Admit(p) ==
  /\ pub[p].pc = "admit"
  /\ LET digest == pub[p].reference
         archive == pub[p].pulled
     IN  catalog' =
           IF \/ \E a \in catalog : a.digest = digest
              \/ Concepts[archive] = {}
              \/ \E c \in Concepts[archive] : ~Indexable(c)
           THEN catalog
           ELSE catalog \cup {[digest |-> digest, archive |-> archive,
                               decidedAt |-> pub[p].decidedAt]}
  /\ Proceeds(p, NoRun)
  /\ UNCHANGED <<filesVars, clock, tag, pushed, signatures>>

(* An answer is refused, a command fails, or the publisher dies; what it   *)
(* has pushed and signed stays.                                            *)
Abort(p) ==
  /\ pub[p].pc # "idle"
  /\ Proceeds(p, NoRun)
  /\ UNCHANGED <<filesVars, clock, tag, pushed, signatures, catalog>>

Publish(p) ==
  \/ VerifyRelease(p) \/ Push(p) \/ ParsePushOutput(p) \/ CosignSign(p)
  \/ CosignVerify(p) \/ PullByDigest(p) \/ Decide(p) \/ Admit(p) \/ Abort(p)

Next ==
  \/ FilesNext /\ UNCHANGED publicationVars
  \/ \E p \in Publishers : Publish(p)
  \/ Tick

Spec == Init /\ [][Next]_vars

-----------------------------------------------------------------------------
(* Properties *)

(* Nobody signs what somebody else pushed, however the tag moves between   *)
(* a push and the signature.                                               *)
SignedIsOwnPush == signatures \subseteq pushed

(* What the catalog holds under a digest is the layer of that digest, the  *)
(* archive its annotations name, and a complete build; and a trusted       *)
(* publisher pushed and signed that very digest, whoever admitted it:      *)
(* although build-release may replace the archive between its verification *)
(* and the push, and untrusted publishers use the same tag.                *)
AdmittedIsPublished ==
  \A a \in catalog :
    /\ a.archive = a.digest.layer
    /\ a.archive = a.digest.annotated
    /\ Buildable(a.archive)
    /\ \E s \in Trusted : <<s, a.digest>> \in pushed \cap signatures

(* _eligible, with the options a caller has by default.                    *)
Served(c, time) == c.status = "stable" /\ time <= c.staleAfter

(* The policy, the catalog and the service agree about a release: when the *)
(* policy allows it, every concept of it can be indexed and has a status   *)
(* the environment allows, and the stable ones are served at the time of   *)
(* the decision and at the next as well.  The policy refuses a concept at  *)
(* stale_after itself, the last time the service serves it                 *)
(* (release_admission.rego, serving.py:624-637).                           *)
AdmittedIsServed ==
  /\ \A p \in Publishers : pub[p].pc = "admit" =>
       \A c \in Concepts[pub[p].pulled] :
         Indexable(c) /\ c.status \in AllowedStatuses
  /\ \A a \in catalog : \A c \in Concepts[a.archive] :
       c.status = "stable" => Served(c, a.decidedAt) /\ Served(c, a.decidedAt + 1)
=============================================================================
