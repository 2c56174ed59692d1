---------------------------- MODULE ReleaseBuild ----------------------------
(***************************************************************************)
(* build_release and verify_release (release.py), with the parts of        *)
(* validate_bundle (validator.py) that relate files to each other.         *)
(*                                                                         *)
(* A build reads every concept three times: to validate it, for its bytes  *)
(* and for its metadata.  Each read is a step, since the directory may be  *)
(* edited meanwhile.  Files are taken in any order.                        *)
(*                                                                         *)
(* Abstractions: a document is what the checks tell apart; its exact       *)
(* digest is the document itself, its canonical digest the document        *)
(* without its layout.  Archive bytes are the files and the manifest.  A   *)
(* path has a place in each of two orders: that of the walk over the       *)
(* directory, which compares names, and that of its text.                  *)
(* Left out: symlinks, which refuse the build, the size limit of           *)
(* verification, and what the profile asks of index.md and log.md.         *)
(***************************************************************************)
EXTENDS Naturals, FiniteSets

CONSTANTS
  Paths,         \* paths of a bundle
  ConceptPaths,  \* Markdown files other than index.md and log.md
  ManifestPath,  \* MANIFEST_PATH
  WalkRank,      \* a path's place among candidates
  TextRank,      \* a path's place among strings
  Uids,
  Documents,     \* what a file may hold
  Bundles,       \* directories a history may begin with
  CreatedAt,
  AcceptedForms, \* forms the profile finds no error in
  StaleIsError,  \* profile.policy.stale_concepts = error
  BrokenIsError, \* profile.policy.broken_internal_links = error
  MaxEdits,      \* bound: edits of the directory
  None

Forms == {"valid", "invalid", "unindexable", "incomplete", "unparsable"}

Classification == 0 .. 3

(* unparsable: no frontmatter; incomplete: lacks a field the manifest      *)
(* needs, which a profile may not ask for; invalid and unindexable have    *)
(* these fields but every profile refuses them (ConceptFrontmatter), and   *)
(* unindexable, for its description, tags or sources, serving does too.    *)
(* Left out: the YAML sets and binaries that only serving refuses.         *)
Document ==
  [form : Forms, uid : Uids, classification : Classification,
   staleAfter : Nat, links : SUBSET Paths, layout : Nat]

Directory == [Paths -> Documents \cup {None}]

ASSUME BuildAssumption ==
  /\ ConceptPaths \subseteq Paths
  /\ ManifestPath \in Paths \ ConceptPaths
  /\ WalkRank \in [Paths -> Nat] /\ TextRank \in [Paths -> Nat]
  /\ Documents \subseteq Document
  /\ Bundles \subseteq Directory
  /\ CreatedAt \in Nat
  /\ AcceptedForms \subseteq {"valid", "incomplete"}
  /\ StaleIsError \in BOOLEAN
  /\ BrokenIsError \in BOOLEAN
  /\ MaxEdits \in Nat
  /\ None \notin Paths /\ None \notin Documents

Metadata == [uid : Uids, classification : Classification, staleAfter : Nat]

MetadataOf(d) ==
  [uid |-> d.uid, classification |-> d.classification, staleAfter |-> d.staleAfter]

(* canonical_concept_sha256: the layout of a document does not count.      *)
CanonicalOf(d) == [d EXCEPT !.layout = 0]

(* ReleaseFile: a file that is no concept has neither metadata nor a       *)
(* canonical digest.                                                       *)
ReleaseFile ==
  [exact : Documents, canonical : Document \cup {None}, metadata : Metadata \cup {None}]

ASSUME NoneIsNoValue ==
  None \notin Document /\ None \notin Metadata /\ None \notin ReleaseFile

(* The archive: its files, the inventory and the bundle classification of  *)
(* its manifest, and whether the manifest's bytes are in canonical form.   *)
Archive ==
  [files : Directory, manifest : [Paths -> ReleaseFile \cup {None}],
   ceiling : Classification, canonical : BOOLEAN]

Stages == {"idle", "listing", "validating", "linking", "packaging", "parsing"}

VARIABLES
  disk,      \* the bundle directory
  edits,     \* edits so far
  stage,     \* where build_release is
  candidates,
  todo,      \* files left to look at in this stage
  checked,   \* the concepts validation has read, as it read them
  report,    \* FALSE once validation has found an error
  content,   \* source_entries
  entries,   \* manifest_files
  current,   \* the candidate whose bytes have been read
  artifact,  \* what the last build returned, None if it raised
  received,  \* an archive that was verified, and the verdict
  source,    \* history: the directory when the build began
  quiet      \* history: no edit since then, as long as the build lasted

buildVars == <<candidates, todo, checked, report, content, entries, current>>

vars == <<disk, edits, stage, buildVars, artifact, received, source, quiet>>

Nothing == [p \in Paths |-> None]

Held(directory) == {p \in Paths : directory[p] # None}

Init ==
  /\ disk \in Bundles
  /\ edits = 0
  /\ stage = "idle"
  /\ candidates = {} /\ todo = {}
  /\ checked = Nothing /\ report = TRUE
  /\ content = Nothing /\ entries = Nothing /\ current = None
  /\ artifact = None /\ received = None
  /\ source = disk /\ quiet = TRUE

(* Someone writes or deletes a file.                                       *)
Edit(p, d) ==
  /\ edits < MaxEdits
  /\ edits' = edits + 1
  /\ disk[p] # d
  /\ disk' = [disk EXCEPT ![p] = d]
  /\ quiet' = (quiet /\ stage = "idle")
  /\ UNCHANGED <<stage, buildVars, artifact, received, source>>

-----------------------------------------------------------------------------
(* build_release: list the bundle, then let validate_bundle list it again. *)

Begin ==
  /\ stage = "idle"
  /\ stage' = "listing"
  /\ candidates' = Held(disk)
  /\ todo' = {}
  /\ checked' = Nothing /\ report' = TRUE
  /\ content' = Nothing /\ entries' = Nothing /\ current' = None
  /\ artifact' = None /\ received' = None
  /\ source' = disk /\ quiet' = TRUE
  /\ UNCHANGED <<disk, edits>>

ListConcepts ==
  /\ stage = "listing"
  /\ stage' = "validating"
  /\ todo' = Held(disk) \cap ConceptPaths
  /\ UNCHANGED <<disk, edits, candidates, checked, report, content, entries,
                 current, artifact, received, source, quiet>>

(* The build raises: an error of validation, or a file that is gone.       *)
Raise ==
  /\ stage' = "idle"
  /\ UNCHANGED <<disk, edits, buildVars, artifact, received, source, quiet>>

(* Mutant: the errors of the frontmatter's model are not reported.         *)
AcceptableIfParsed(d) ==
  /\ d.form # "unparsable"
  /\ StaleIsError => CreatedAt < d.staleAfter

Acceptable(d) ==
  /\ d.form \in AcceptedForms
  /\ StaleIsError => CreatedAt < d.staleAfter

Validate(p) ==
  /\ stage = "validating"
  /\ p \in todo
  /\ IF disk[p] = None THEN Raise
     ELSE /\ todo' = todo \ {p}
          /\ checked' = [checked EXCEPT ![p] = disk[p]]
          /\ report' = (report /\ Acceptable(disk[p]))
          /\ UNCHANGED <<disk, edits, stage, candidates, content, entries, current,
                         artifact, received, source, quiet>>

(* Mutant: a concept_uid is compared among documents of one layout only.   *)
DistinctUidsSameLayout ==
  \A p, q \in Held(checked) :
    p # q /\ checked[p].layout = checked[q].layout => checked[p].uid # checked[q].uid

DistinctUids ==
  \A p, q \in Held(checked) : p # q => checked[p].uid # checked[q].uid

DocumentsRead ==
  /\ stage = "validating"
  /\ todo = {}
  /\ stage' = "linking"
  /\ todo' = Held(checked)
  /\ report' = (report /\ DistinctUids)
  /\ UNCHANGED <<disk, edits, candidates, checked, content, entries, current,
                 artifact, received, source, quiet>>

(* The targets of the links that validation has read must exist now.       *)
CheckLinks(p) ==
  /\ stage = "linking"
  /\ p \in todo
  /\ todo' = todo \ {p}
  /\ report' = (report /\ (BrokenIsError => checked[p].links \subseteq Held(disk)))
  /\ UNCHANGED <<disk, edits, stage, candidates, checked, content, entries, current,
                 artifact, received, source, quiet>>

Validated ==
  /\ stage = "linking"
  /\ todo = {}
  /\ IF ~report THEN Raise
     ELSE /\ stage' = "packaging"
          /\ todo' = candidates
          /\ UNCHANGED <<disk, edits, candidates, checked, report, content, entries,
                         current, artifact, received, source, quiet>>

(* Mutant: the name of the manifest is not reserved.                       *)
NothingReserved(p) == FALSE

Reserved(p) == p = ManifestPath

(* A candidate's bytes.  One that is no longer a file is passed over.      *)
ReadBytes(p) ==
  /\ stage = "packaging"
  /\ p \in todo
  /\ IF Reserved(p) /\ disk[p] # None THEN Raise
     ELSE /\ todo' = todo \ {p}
          /\ content' = [content EXCEPT ![p] = disk[p]]
          /\ IF p \in ConceptPaths /\ disk[p] # None
             THEN stage' = "parsing" /\ current' = p /\ UNCHANGED entries
             ELSE /\ entries' = [entries EXCEPT ![p] =
                       IF disk[p] = None THEN None
                       ELSE [exact |-> disk[p], canonical |-> None, metadata |-> None]]
                  /\ UNCHANGED <<stage, current>>
          /\ UNCHANGED <<disk, edits, candidates, checked, report, artifact,
                         received, source, quiet>>

(* Mutant: the canonical digest is taken from the second read as well.     *)
EntryOfSecondRead(bytes, parsed) ==
  [exact |-> bytes, canonical |-> CanonicalOf(parsed), metadata |-> MetadataOf(parsed)]

EntryOf(bytes, parsed) ==
  [exact |-> bytes, canonical |-> CanonicalOf(bytes), metadata |-> MetadataOf(parsed)]

HasFields == {"valid", "invalid", "unindexable"}

(* The second read has the fields the manifest needs, and the first can be *)
(* hashed canonically.                                                     *)
Packageable(bytes, parsed) ==
  /\ parsed # None /\ parsed.form \in HasFields
  /\ bytes.form # "unparsable"

(* parse_concept reads the file again for its metadata.                    *)
ParseConcept ==
  /\ stage = "parsing"
  /\ IF ~Packageable(content[current], disk[current]) THEN Raise
     ELSE /\ entries' = [entries EXCEPT ![current] = EntryOf(content[current], disk[current])]
          /\ stage' = "packaging"
          /\ current' = None
          /\ UNCHANGED <<disk, edits, candidates, todo, checked, report, content,
                         artifact, received, source, quiet>>

Classifications ==
  {entries[p].metadata.classification : p \in {q \in Held(entries) : entries[q].metadata # None}}

(* The highest classification in the manifest, PUBLIC when it has none.    *)
BundleClassification ==
  CHOOSE c \in Classifications \cup {0} : \A d \in Classifications : d <= c

(* validate_file_order_and_uniqueness: entries come as candidates do.      *)
Sorted(inventory) ==
  \A p, q \in inventory : WalkRank[p] < WalkRank[q] => TextRank[p] < TextRank[q]

(* The manifest takes its place in the archive whatever is there.          *)
Package ==
  /\ stage = "packaging"
  /\ todo = {}
  /\ IF ~Sorted(Held(entries)) THEN Raise
     ELSE /\ stage' = "idle"
          /\ artifact' = [files |-> [content EXCEPT ![ManifestPath] = None],
                          manifest |-> entries,
                          ceiling |-> BundleClassification, canonical |-> TRUE]
          /\ UNCHANGED <<disk, edits, buildVars, received, source, quiet>>

-----------------------------------------------------------------------------
(* verify_release *)

(* Mutant: files beyond the inventory are let through.                     *)
SameInventoryAtLeast(archive) == Held(archive.manifest) \subseteq Held(archive.files)

SameInventory(archive) == Held(archive.manifest) = Held(archive.files)

DigestsMatch(archive) ==
  \A p \in Held(archive.manifest) :
    LET entry == archive.manifest[p]
        file  == archive.files[p]
    IN  /\ entry.exact = file
        /\ entry.canonical # None =>
             file.form # "unparsable" /\ CanonicalOf(file) = entry.canonical

Verifies(archive) ==
  archive.canonical /\ SameInventory(archive) /\ DigestsMatch(archive)

(* One file of the archive, or the form of its manifest, may be damaged on *)
(* its way.                                                                *)
Damaged(archive, p, d, form) ==
  [archive EXCEPT !.files[p] = d, !.canonical = form]

Receive(archive) ==
  /\ stage = "idle"
  /\ artifact # None
  /\ received' = [archive |-> archive, accepted |-> Verifies(archive)]
  /\ UNCHANGED <<disk, edits, stage, buildVars, artifact, source, quiet>>

-----------------------------------------------------------------------------
(* ReleaseCatalog.admit makes an index entry of every concept, of what its *)
(* manifest entry and its content hold (_build_index_entry).               *)
Indexable(archive, p) ==
  /\ archive.manifest[p].metadata # None
  /\ archive.manifest[p].canonical # None
  /\ archive.files[p].form \notin {"unparsable", "unindexable"}

Next ==
  \/ \E p \in Paths, d \in Documents \cup {None} : Edit(p, d)
  \/ Begin
  \/ ListConcepts
  \/ \E p \in Paths : Validate(p)
  \/ DocumentsRead
  \/ \E p \in Paths : CheckLinks(p)
  \/ Validated
  \/ \E p \in Paths : ReadBytes(p)
  \/ ParseConcept
  \/ Package
  \/ \E p \in Paths \ {ManifestPath}, d \in Documents \cup {None}, form \in BOOLEAN :
       Receive(Damaged(artifact, p, d, form))

Spec == Init /\ [][Next]_vars

-----------------------------------------------------------------------------
(* Properties                                                              *)

(* The type invariant.                                                     *)
TypeOK ==
  /\ disk \in Directory /\ source \in Directory
  /\ edits \in 0 .. MaxEdits
  /\ stage \in Stages
  /\ candidates \subseteq Paths /\ todo \subseteq Paths
  /\ checked \in Directory /\ content \in Directory
  /\ entries \in [Paths -> ReleaseFile \cup {None}]
  /\ current \in Paths \cup {None}
  /\ report \in BOOLEAN /\ quiet \in BOOLEAN
  /\ artifact \in Archive \cup {None}
  /\ received \in [archive : Archive, accepted : BOOLEAN] \cup {None}

(* What the bytes of a file say of the entry that was made with them.      *)
Describes(p, entry, file) ==
  /\ entry.exact = file
  /\ entry.canonical = IF p \in ConceptPaths THEN CanonicalOf(file) ELSE None
  /\ p \in ConceptPaths => file.form # "unparsable"
  /\ p \in ConceptPaths <=> entry.metadata # None

(* source_entries and manifest_files go together: they differ only by the  *)
(* candidate whose bytes are read and whose metadata are not, and every    *)
(* other entry describes the bytes read with it (release.py:200-275).      *)
EntriesFollowContent ==
  /\ \A p \in Paths : content[p] # None /\ p # current <=> entries[p] # None
  /\ \A p \in Held(entries) : Describes(p, entries[p], content[p])
  /\ content[ManifestPath] = None
  /\ current # None => content[current] # None /\ current \in ConceptPaths
  /\ stage = "parsing" => current # None
  /\ stage = "packaging" => current = None
  /\ artifact # None => stage = "idle"

(* The bytes of a file are read once, and only after validation.           *)
ReadOnce ==
  /\ stage \in {"listing", "validating", "linking"} => content = Nothing
  /\ stage \in {"packaging", "parsing"} => todo \cap Held(content) = {}

(* The types, and the two invariants above: what a build has read and      *)
(* written down so far is consistent (release.py:200-275).                 *)
BuildInvariant == TypeOK /\ ReadOnce /\ EntriesFollowContent

(* What build_release returns passes verify_release, even if the directory *)
(* was edited between its reads (release.py:200-275, 339-368).             *)
BuiltVerifies == artifact # None => Verifies(artifact)

(* A concept that both reads of the build found as validation did, the     *)
(* service can index, and no two of these share a concept_uid: admit       *)
(* refuses a concept of a built archive only if it was edited after        *)
(* validation read it; such an edit it may refuse, as the build asks less  *)
(* of it (release.py:192-262, serving.py:256-260, 278-321).                *)
AsValidated(p) ==
  /\ checked[p] # None
  /\ artifact.files[p] = checked[p]
  /\ artifact.manifest[p].metadata = MetadataOf(checked[p])

ValidatedIsIndexable ==
  artifact # None =>
    LET unedited == {p \in Held(artifact.manifest) \cap ConceptPaths : AsValidated(p)}
    IN  /\ \A p \in unedited : Indexable(artifact, p)
        /\ \A p, q \in unedited :
             p # q => artifact.manifest[p].metadata.uid # artifact.manifest[q].metadata.uid

(* A verified archive is the archive that was built: a file changed, added *)
(* or removed, or a manifest in another form, is refused                   *)
(* (release.py:346-368).                                                   *)
AlteredIsRejected ==
  received # None /\ received.accepted => received.archive = artifact

(* No edit during a build: its archive holds the directory, every concept  *)
(* satisfies the profile and is complete, no two share a concept_uid, no   *)
(* link misses its target, and its entry has the metadata of its content   *)
(* and no more than the bundle's classification (release.py:192-281,       *)
(* validator.py:354-396).                                                  *)
Exact(archive, directory) ==
  LET concepts == Held(directory) \cap ConceptPaths
  IN  /\ archive.files = directory
      /\ \A p \in concepts :
           /\ directory[p].form = "valid"
           /\ StaleIsError => CreatedAt < directory[p].staleAfter
           /\ BrokenIsError => directory[p].links \subseteq Held(directory)
           /\ archive.manifest[p].metadata = MetadataOf(directory[p])
           /\ directory[p].classification <= archive.ceiling
      /\ \A p, q \in concepts : p # q => directory[p].uid # directory[q].uid

QuietBuildIsExact == artifact # None /\ quiet => Exact(artifact, source)

(* Not so under edits: the manifest's metadata of a concept are those of   *)
(* the content beside it, as docs/adr/0005 says of the entries.  Bytes     *)
(* (release.py:209) and metadata (release.py:222) come of two reads.       *)
EntriesDescribeContent ==
  artifact # None =>
    \A p \in Held(artifact.manifest) \cap ConceptPaths :
      artifact.manifest[p].metadata = MetadataOf(artifact.files[p])
=============================================================================
