# VerityKF in TLA+

VerityKF (`src/src/verity_kf`) turns records of enterprise sources into
Markdown concepts, publishes them page by page, builds reproducible releases of
them, publishes the releases through an OCI registry, admits them into a
catalog and serves them to authenticated principals. This directory models the parts of it that keep state or decide
something, checks them with TLC on small instances and proves the properties
that matter most with TLAPS.

    tlc -config MCProducer_race.cfg MCProducer.tla     # any run of PROJECT.json
    tlapm ProducerProofs.tla                           # any module ...Proofs

`PROJECT.json` lists the runs, the line of source each definition models, the
hazards, the mutants that show that each property can fail, and the theorems.

## The system

| component | state it keeps | operations | hard because |
|---|---|---|---|
| producer engine (`producer.py`) | locals of a `run_page` call | load, list, fetch and plan, publish, compare-and-set | crashes, retries, other runners between any two awaits |
| checkpoint stores (`producer.py`) | one row per source and collection: cursor, generation | load, compare_and_set | concurrent runners; a write whose acknowledgement is lost |
| retry (`producer.py`) | attempt, delay | retry_async | boundaries of the policy |
| connector port (`connectors/base.py`) | outside: the source's changes | list_changes, fetch_record | the source moves while a page is ingested |
| connector certification (`connector_conformance.py`) | cursors and events seen, findings | certify_connector | loops, replays, the last page, state that spans pages |
| authorization (`authorization.py`) | ACL bindings | authorize | must be deny-by-default and monotone |
| release catalog (`serving.py`) | records, channels, bodies | admit, promote, rollback, withdraw, resolve | several unlocked writes per operation |
| serving (`serving.py`, `api.py`) | locals of a request | fetch_concept, search, list_releases | thread pool; a withdrawal in the middle of a request |
| release build (`release.py`) | an archive being built or verified | build_release, verify_release | reads files that may change |
| rendering (`cli.py render`, `allocate-identity`; `renderer.py`, `identity.py`) | concept files, mappings | load, compare, write | sources, mappings and files change between the reads; files are left behind |
| build-release command (`cli.py`) | the manifest and the archive in an output directory | check, write one after the other | races, crashes between and inside the writes |
| supply chain and admission policy (`supply_chain.py`, `release_admission.rego`) | outside: registry, tag, signatures | push, parse, sign, verify, pull, decide | the archive is replaced and the tag moved between the commands |
| framework evidence (`framework_evidence.py`, three scripts) | a directory of build artifacts | build, verify, rebuild and compare | every file is read more than once |
| link resolution (`validator.py`, `serving.py`) | none | `_validate_link`, `_internal_target` | two implementations of one question |
| evaluation (`evaluation.py`) | none | score_evaluation | empty sets, duplicates, coverage |
| parser, profiles, discovery, telemetry | none | text, schemas, metrics | little |

How they interact: a `ProducerEngine` calls a `KnowledgeSource`, a
`ChangePlanner`, a `PublicationSink` and a `CheckpointStore`, each through a
port, and retries three of the calls with `retry_async`. The certification
exercises the same source port before a connector is trusted. `build_release`
validates a bundle and archives it; `ReleaseCatalog.admit` calls
`verify_release` and fills the body store; `ServingService` reads the catalog
and asks a `PolicyDecisionPoint` about every concept; `create_app` exposes the
service. Before `build_release` stands `render`, which writes the concept files;
behind it the `build-release` command, which writes the pair of files that a
publisher verifies, pushes, signs, pulls again, has the admission policy decide about
and admits. The API's handlers are plain `def` functions, so FastAPI runs them in a
thread pool, and nothing in the catalog takes a lock.

## The modules

| module | models | state and actions |
|---|---|---|
| `ChangeFeed` | the connector port as the producer sees it | a sequence of changes; a version is a position, a cursor the last position covered; `LatestOnly` chooses between a delta feed and a feed of every change |
| `Producer` | `run_page`, both checkpoint stores | `run[r]` holds the locals of runner r's call; one action per await: `Load`, `List`, `PlanDelete`/`PlanUpsert`/`RejectRecord`, `FinishPlanning`, `Publish`, `Commit`/`Conflict`; failures: `RejectBatch`, `CallFails`, `PublishUnacknowledged`, `RejectReceipt`, `CommitUnreported`, `Abort` |
| `DeliveryPromise` | ADR-0004's promise, abstractly | changes appear, are delivered any number of times, and are acknowledged only after |
| `Retry` | `retry_async`, `RetryPolicy` | one call: `Answers`, `BacksOff`, `Wakes`, `GivesUp` |
| `Authorization`, `AuthorizationRequests` | the reference PDP; two consecutive requests to it | pure operators; `Ask` |
| `ReleaseCatalog` | catalog and body store, one administrator | every write of `admit`, `promote`, `rollback`, `withdraw` is an action |
| `Serving` | service and API over the catalog | `request[t]` holds a request's locals; one action per read of shared state |
| `Certification` | `certify_connector` | a walk over arbitrary pages and records |
| `ReleaseBuild` | `build_release`, `verify_release`, and what `validate_bundle` checks across files | the directory, and the locals of one build: `Begin`, `ListConcepts`, `Validate`, `DocumentsRead`, `CheckLinks`, `Validated`, `ReadBytes`, `ParseConcept`, `Package`; `Edit` changes a file at any time, `Receive` verifies the archive or an altered copy |
| `ReleaseFiles` | the `build-release` command | `outputs`, `cli[w]`: `Build`, `CheckOutputs`, `WriteFile` (two steps: a file is emptied, then filled), `CrashCommand` |
| `Publication` | `supply_chain.py`, the admission policy, `admit` | `pub[p]` holds a publisher's run: `VerifyRelease`, `Push`, `ParsePushOutput`, `CosignSign`, `CosignVerify`, `PullByDigest`, `Decide`, `Admit`, `Abort`; the registry is a tag and a set of signatures |
| `FrameworkEvidence` | the evidence scripts | one action per file access of the build (`Export`, `Pick`, `Hash`, `WriteEvidence`), the verification (`ReadEvidence`, `ReadInventory`, `CheckDigest`, `CheckWheel`, `NormalizeSbom`, `Accept`) and the comparison (`Rebuild`, `CompareEvidence`, `CompareFile`); `ChangeTree`, `ChangeFile`, `Crash` |
| `Authoring` | `render`, `allocate_identity` | sources, mappings and concept files; `LoadSource`, `LoadMapping`, `Compare`, `Write` per invocation; `EditSource`, `WriteMapping`, `RemoveFile`, `CrashRender` |
| `LinkTargets` | link resolution of validator and service | a link that grows by a segment, with what each of the two walks along it has come to; the two answers as functions of it |
| `Evaluation` | `score_evaluation` | a run that grows by an observation (`Observe`); then `StartScoring`, `Score` case by case, `Report` |
| `...Proofs` | theorems | `ComponentProofs` has those of the small components |
| `MC...` | constants for TLC; `MCComponents` puts the small components side by side | |

`Serving` EXTENDS `ReleaseCatalog`, which EXTENDS `Authorization`: a step of the
composed system is a step of the administrator or of one request.
`Publication` EXTENDS `ReleaseFiles`: a step is one of an invocation of
build-release or of a publisher, which read the same two files.
`Producer` INSTANCEs `DeliveryPromise` with the refinement mapping
delivered <- operations the sink applied, waived <- changes committed as NOOP,
cursor <- the checkpoint's cursor.

### Choices a reader should know

* A planned operation is the feed position of its change. Its identifier is a
  digest of record, version, kind, path and content, so the position identifies
  it as long as the source does not use a version string twice.
* The sink is the one the port demands: idempotent by operation id. That nothing is
  published twice is therefore its promise and not a result; what is checked is that
  replays and retries after a lost acknowledgement (`producer_crash`) do no harm. `AtomicSink`
  FALSE drops the other demand, atomicity: it may apply and acknowledge a part.
* A checkpoint's `committed_at` is left out. It can only make two checkpoints
  differ that the model takes for equal, and `GenerationIdentifies` shows that
  no two of the same generation differ.
* One administrator drives the catalog. Requests share no writes, so what one
  request can observe does not depend on other requests: `MCServing` uses one
  request thread. The theorems are about any number.
* The connector of `Certification` answers each call with any page or record of
  its constants, whether or not it repeats itself on the replay.
* A document of `ReleaseBuild` is what the checks tell apart: its form (what the
  profile and the manifest ask of it), identity, classification, freshness, links
  and layout. Its exact digest is the document itself, its canonical digest the
  document without its layout. Which forms a profile accepts is a constant,
  since the repository's profiles differ: the base profile requires no field.
  "unindexable" is what a profile refuses and the manifest keeps, but serving will not
  index: tags that are no list, a description that is no text, a source without a
  resource.
* Paths have two orders: the walk compares names one by one, the manifest's own check
  compares texts. `Package` raises when an inventory in the first order is not in the
  second: with `guide/logo.svg` beside `guide.md` the walk (`release.py:186`) has the
  directory first and the texts have the file first, so a bundle that validates cannot be
  packaged. An archive is not affected: there is none.
* `Indexable` is what `admit` asks of a concept and its entry: readable metadata, fields
  of the right kind, an identity that no other concept of the archive has.
* A build is reproducible (`ReleaseBuild`), so `ReleaseFiles` names an artifact by the
  state of the bundle it was built from. A registry digest is the OCI manifest it is
  taken of: layer and annotated archive digest.
* `Publication` abstracts an index entry to what policy, catalog and service ask of a
  concept. Its `admit` is one step, as one publisher's process runs it;
  `ReleaseCatalog` has the same operation write by write.
* That the pulled archive is the one the plan names is compared by nobody under `src/`:
  the plan and the receipt carry `expected_archive_sha256` (`supply_chain.py:87`, `:203`),
  and the operator who pulls by digest compares. `ArchiveIsExpected` is this operator,
  and `AdmittedIsPublished` relies on it.
* The untrusted publisher of `Publication` runs the same commands with another key;
  it does not forge signatures.
* `Authoring` names a path by the title and the anchor it was allocated for: slugs of
  different titles differ, and the twelve digits of a UUID in a file name do not
  collide.
* The API never sends `include_deprecated` or `include_stale`; the service's
  other callers may, so the queries do.

## The runs

| run | question | result |
|---|---|---|
| `producer_crash` | do failures, lost acknowledgements, partial publications and crashes lose or fake anything, and is every change eventually covered? | holds |
| `producer_race` | do two runners keep one chain of checkpoints and at-least-once delivery, leave the sink right at rest on a feed of every change, and catch up unless a fetch is overtaken? | holds |
| `producer_stale` | is a conflict after publication harmless? | violated |
| `producer_overtaken` | is an upsert fetched at its event's version? | violated |
| `components` | the small components: bounded retries, sound and monotone decisions, the pair of release files, links, evaluation, rendering | holds |
| `serving` | entitlement, withdrawal, pointers, evidence, bodies | holds |
| `serving_listed` | does a listing skip withdrawn releases? | violated |
| `certification` | what a conformant report is worth | holds |
| `release_build` | what an archive is worth, with and without edits during its build | holds |
| `release_edited` | do a manifest's entries describe the content beside them? | violated |
| `publication` | what a signature and an admission are worth, while archive and tag change | holds |
| `framework_evidence` | what an accepted and a reproduced directory of build artifacts is worth | holds |

`components` is the disjoint union of six state machines: the variable `moving`
chooses one in the initial state, the others rest, so the run explores their sum
and not their product. Each of their properties is about one of them.

Bounds. Producer: `MaxChanges` 2 or 3 changes of one or two records: enough for a
record to be created, changed and deleted around one page, and for a page that
covers the second change but not the third. `MaxFaults` 0 to 2: a failure and a failure
of its recovery. `IdleGenerations` 0 to 2: commits of empty pages, which
would otherwise count generations for ever. `PageLimit` 2 with three changes
makes final and non-final pages. `MaxAttempts` 2 has a first and a last attempt;
the race runs use 1, since retries touch nothing that is shared. Certification:
four pages, one more than it takes to return to a cursor that is not
the starting one, and two changes of one record over two versions. Serving: two
digests, two channels, two pieces of evidence, an archive that is servable, one that
fails half way through its admission, one whose only concept is stale and
deprecated. Release build: two concepts, an asset in a directory with the name of one of
them and a file with the name of the manifest; documents that share an identity, link,
are stale, refused, unindexable, incomplete or not concepts at all; two edits, one
between two reads and one that undoes or answers it. Release files: two states of a bundle, two invocations and a
crash, after which an undisturbed invocation must repair what the crash left.
Publication: one trusted and one untrusted publisher, two different pushes, a
bundle of stable concepts and one with a draft, and a decision before and at the freshness
boundary. No concept of the run lacks a field: a third bundle made the run longer than
five minutes; `AdmissionsAreServed` is about any concepts. Framework evidence: two trees
of one package version and one of another, two locks, one disturbance at any point (a
change of the tree or of a file, or a crash). Authoring: one record, two titles, two ACL references, two
invocations and a crash, so that a retitled record leaves a file behind; the same
property was also run with two records, one ACL reference and one invocation (3.8
million states), which takes too long for a regular run. Links: four segments from documents in three directories, over a
bundle whose own name is a directory name in it, enough to leave it and come back.
Evaluation: two cases or one, two concepts, two observations.

Symmetry: records, runners, invocations that are alike, trees of one version, locks,
digests and evidence only ever occur as names; no run with symmetry has a
liveness property.

Deadlock is checked everywhere but in `components`, where a link and a run of a
benchmark end. `Rest`, `Ended` and `Reported` stutter where the program is between
calls or has returned.

Fairness. `producer_crash`, `producer_race` and `producer_overtaken` assume weak
fairness of `Step(r)` for every runner that is not a dry runner. It says that
`run_page` is called again and again, as a scheduler does, and that a call that can go
on does; it assumes nothing of the source, and failures are finite by `MaxFaults`.

### What the four violations say

* `producer_stale` (`PublishedIsCurrent`, `producer.py:474`). A runner
  publishes before its compare-and-set. If another runner has meanwhile published
  and committed a newer version, the loser's publication puts the older one
  back; on a delta feed nothing lists the newer one again. ADR-0004 calls the
  conflict detected and replay safe; the effect comes before the detection. On a
  feed of every change (`producer_race`) the fetch of an overtaken version fails
  before the publication and the property holds.
* `producer_overtaken` (`CatchesUp`, `producer.py:431`). ADR-0004 fetches
  "at the event's exact version", but `fetch_record` has no version argument. A
  page that lists an intermediate version fails on every attempt.
* `serving_listed` (`ListsNoneWithdrawn`, `serving.py:437`). The state is checked,
  then read again for the summary; a withdrawal between the two is listed.
* `release_edited` (`EntriesDescribeContent`, `release.py:222`). A concept's bytes and
  its metadata come from two reads. An edit between them gives an archive whose
  entry has the classification, identity and freshness of another version, and it
  verifies, since verification compares digests only. Serving authorizes by the
  entry.

## What is proved

For every value of the constants that satisfies the named assumptions:

* **Producer** (`ProducerProofs`). `CallInvariant` is inductive together with
  `TypeOK`: the page a call holds is everything the feed lists between the
  cursor it loaded and the one it will commit; everything is planned before anything is
  published, and published (or waived) before the compare-and-set; and the
  generation identifies the checkpoint. `NothingSkipped` alone is not inductive:
  that a commit covers only settled changes needs `HoldsWholePage`, which needs that a
  feed only grows and that a superseded change stays superseded. From it follow
  `NothingSkipped`, `CheckpointChain`, `EffectsNeedRealRuns` and the
  refinement of `DeliveryPromise`.
* **What the sink publishes** (same module). `PublishedIsCurrent` fails of two runners
  on a delta feed (`producer_stale`), and, on a feed of every change, of a sink that may
  apply a part of a page. Two hypotheses on the constants exclude the two cases, and
  each has an invariant of its own, which TLC found to hold on the instances of the
  passing producer runs. `ReplaysAreHarmless` assumes `EveryChangeAtomic`, a feed of
  every change and an atomic sink, with any number of runners: by `ReplayInvariant`
  what was applied is a prefix of the feed and the sink publishes its newest changes,
  since what an outdated runner publishes is a stretch of that prefix, which the sink
  recognises, or extends it. `PartialPublicationsHeal` assumes `SoleRunner`, a
  delta feed and one runner beside the dry runs, with any sink: by `DeltaInvariant` the
  snapshot of its call is the checkpoint, and nothing the sink has applied is newer, for
  the same record, than what the call's page lists.
* **Retry and authorization** (`ComponentProofs`): bounded
  attempts and sleep, monotone back-off; decisions are what `MayAccess` says, and
  narrowing never grants.
* **Rendering** (`ComponentProofs`). `CheckedIsCurrent`: `AuthoringInv` says that every
  mapping, every file and every invocation in progress carries the UID allocated for its
  record's anchor. So a file left behind by a retitled record shares its UID with
  the current one, and a bundle that validates has no such file.
* **Links** (`ComponentProofs`). `LinksLeadRight`, for links of any length: as long as a
  link does not leave the bundle and nothing in it is escaped, the path the
  validator has resolved is the bundle's directory followed by the path the service has
  normalised (`LinkInv`), whatever the directory of the document. The other way, a
  link found valid is dropped in four cases only: a percent escape, a colon before the
  first slash, a path that leaves the bundle and comes back by its name, and three or
  more slashes at the start, where `urlsplit` finds a path and no host but the service
  sees two slashes. The walks are kept in the state for this: what a fold over the
  segments computes could only be proved by induction over data.
* **Evaluation** (`ComponentProofs`). `FullReportsAreFlawless`, for any benchmark and
  run: a total never exceeds the number of scored cases, and reaches it only if
  each of them has the full score (`TotalsAreSums`); a report needs every case scored,
  and a run covers the benchmark before it is scored (`Covers`).
* **Catalog and serving** (`CatalogProofs`, `ServingProofs`). The catalog's
  invariant says what each stage of an administrator's operation has established;
  `ServingRunsTheCatalog` is a refinement (a request never writes the
  catalog), through which the catalog's theorems hold of the service. The
  invariant of a request relates what it has read to the archive of its release.
  The admission must leave, for every path, the admitted archive's body:
  `FetchesAreAdmitted` needs an invariant of an admission in progress and of bodies that
  an earlier, failed one left.
* **Certification** (`CertificationProofs`): the walk's invariant (each page was asked
  for with its predecessor's cursor, events of all pages so far are remembered in
  order, each examined upsert has its record) gives the four properties. A walk may return
  to the cursor it started from, as the code lets it, but only with another page than the
  first one (`ConformantWalkIsComplete`).
* **Release build** (`ReleaseBuildProofs`). Whatever is edited during a build: the
  archive verifies, and no altered copy does. Serving can index every concept that is as
  it was when it was validated (`ValidatedConceptsAreIndexable`, by `ValidationPassed`:
  what a finished validation has established of the documents it read); one that
  was edited since may be packaged and then refused. The
  invariant, `ReleaseInvariant`, says that entries and contents are collected in
  step and each entry describes the bytes read with it. If nothing is
  edited, the archive is exactly the directory and satisfies the profile:
  `QuietReads` and `QuietStages` say what each stage has established by then.

* **Publication** (`PublicationProofs`). `PublishedInv` says what each stage of a
  publisher's run has established about its reference and its pull: it signs a digest
  it has pushed, the verified signature is a trusted publisher's on that very digest,
  the pulled layer is the release it verified at the start, and a decision denies
  unless every concept passes. `AdmittedIsPublished` is not inductive without it: the
  admission looks at none of the signatures itself. The theorems hold for any number of
  publishers, pushes and states of the bundle.
* **Framework evidence** (`FrameworkEvidenceProofs`). `EvidenceInv` has a part for each
  actor. `QuietScript`: what a build that nothing has interfered with since its package
  build has read and left, step by step. `CandidatePhase`, `CandidateFresh`: the
  temporary directory is empty until the package is built in it and rests once it is
  checked. `CheckReads`: what a check knows of a directory that has stayed as it is,
  file by file. `CheckKnows`: what it knows of the tree, and of a reference that was
  pristine when it began. The properties alone say only what is true at the end of a
  build or check and are not inductive. `Frame` states once what a step of
  another actor leaves to the check, so each part has one case for
  those steps. TLC checked every part on the instance of the run with one
  disturbance before it was proved. Assumed of the constants: a tree's version
  is a positive number, and what is built is neither an absent nor an unreadable file
  (`EvidenceAssumption`, `ContentsAssumption`).
* **Release files** (`PairsAreSound`, in the same module). `PairInv` relates what an
  invocation that has run alone so far found at its start to what it has written.
  A step of another invocation ends the claim to have been alone.

Only model-checked: `CatchesUp` and `CatchesUpUnlessOvertaken`, since liveness is out of
the prover's reach, and the violations, each of which is one behaviour of one instance.
Every other property of the runs is stated by a theorem, `PublishedIsCurrent` under the
two hypotheses above.

## Not modelled

Text: parsing, canonical hashing, the layout of rendered Markdown, slugs, snippets and
scores, the syntax of paths, references and annotations. Schemas, profiles and source
discovery, which are conditions on one document. The commands of `cli.py` that print
what a function of the library returns. Telemetry, which observes. What oras, cosign,
the registry, OPA and uv do beyond what the code asks of them. Several administrators
of one catalog at once: the catalog is documented as a local reference implementation.

Hazards that no property covers, with the reason, are in `PROJECT.json`: cursors that
regress, version strings that return, the size limit of an archive, the listing's
iteration over a dictionary that changes, the two orders of a bundle's paths.

## Plan

1. An abstract specification of serving (a request answers from one moment's
   entitlements and releases) and the refinement that shows where it fails.
2. A feed that may regress, for the terminal cursor that neither the producer nor the
   certification looks at.
