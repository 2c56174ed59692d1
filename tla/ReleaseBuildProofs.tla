------------------------- MODULE ReleaseBuildProofs -------------------------
(* Theorems of ReleaseBuild, for any paths, documents and bundles and any  *)
(* number of edits.                                                        *)
EXTENDS ReleaseBuild, TLAPS

(* What is known of the last build's archive once its inventory is made.   *)
ArchiveDescribed ==
  artifact # None =>
    /\ artifact.canonical
    /\ Held(artifact.manifest) = Held(artifact.files)
    /\ \A p \in Held(artifact.manifest) :
         Describes(p, artifact.manifest[p], artifact.files[p])

(* A verified archive has the built one's inventory.                       *)
ReceivedFollowsArtifact ==
  received # None =>
    /\ artifact # None
    /\ received.accepted = Verifies(received.archive)
    /\ received.archive.manifest = artifact.manifest
    /\ received.archive.ceiling = artifact.ceiling

(* What a report without errors says of the concepts validation has read,  *)
(* as it read them.                                                        *)
AllAcceptable == \A p \in Held(checked) : Acceptable(checked[p])

ValidationPassed ==
  /\ stage \in {"listing", "validating"} /\ report => AllAcceptable
  /\ stage = "linking" /\ report => AllAcceptable /\ DistinctUids
  /\ stage \in {"packaging", "parsing"} \/ artifact # None => AllAcceptable /\ DistinctUids

(* What validation has established of a directory once it has passed.      *)
Concepts == Held(source) \cap ConceptPaths

LinksHeld(p) == BrokenIsError => source[p].links \subseteq Held(source)

Distinct ==
  \A p, q \in Concepts : p # q => source[p].uid # source[q].uid

(* No edit so far: every read of the build has seen the directory as it    *)
(* was when the build began, and each stage has done its part.             *)
QuietReads ==
  quiet /\ stage # "idle" =>
    /\ disk = source
    /\ candidates = Held(source)
    /\ \A p \in Paths : checked[p] \in {None, source[p]} /\ content[p] \in {None, source[p]}
    /\ \A p \in Held(entries) \cap ConceptPaths :
         /\ entries[p].metadata = MetadataOf(source[p])
         /\ source[p].form \in HasFields

QuietStages ==
  quiet =>
    /\ stage = "listing" => Held(checked) = {} /\ report
    /\ stage = "validating" =>
         /\ todo \cup Held(checked) = Concepts
         /\ report => \A p \in Held(checked) : Acceptable(source[p])
    /\ stage = "linking" =>
         /\ Held(checked) = Concepts
         /\ report => /\ \A p \in Concepts : Acceptable(source[p])
                      /\ Distinct
                      /\ \A p \in Concepts \ todo : LinksHeld(p)
    /\ stage \in {"packaging", "parsing"} =>
         /\ Held(content) \cup todo = Held(source)
         /\ \A p \in Concepts : Acceptable(source[p]) /\ LinksHeld(p)
         /\ Distinct

QuietInvariant == QuietReads /\ QuietStages /\ QuietBuildIsExact

-----------------------------------------------------------------------------
(* Lemmas on documents, entries and classifications                        *)

(* A document without its layout is a document.                            *)
LEMMA CanonicalIsDocument ==
  ASSUME NEW d \in Document
  PROVE  CanonicalOf(d) \in Document
BY DEF CanonicalOf, Document

(* A document's metadata are metadata.                                     *)
LEMMA MetadataIsMetadata ==
  ASSUME NEW d \in Document
  PROVE  MetadataOf(d) \in Metadata
BY DEF MetadataOf, Metadata, Document

(* A concept's entry is a manifest entry that describes its bytes.         *)
LEMMA EntryIsReleaseFile ==
  ASSUME NEW bytes \in Documents, NEW parsed \in Documents, NEW p \in ConceptPaths,
         Packageable(bytes, parsed)
  PROVE  /\ EntryOf(bytes, parsed) \in ReleaseFile
         /\ Describes(p, EntryOf(bytes, parsed), bytes)
         /\ EntryOf(bytes, parsed).metadata = MetadataOf(parsed)
<1>1. bytes \in Document /\ parsed \in Document
  BY BuildAssumption
<1>2. CanonicalOf(bytes) \in Document /\ MetadataOf(parsed) \in Metadata
  BY <1>1, CanonicalIsDocument, MetadataIsMetadata
<1>3. MetadataOf(parsed) # None
  BY <1>2, NoneIsNoValue
<1> QED
  BY <1>2, <1>3 DEF EntryOf, ReleaseFile, Describes, Packageable

(* Some classification in a nonempty set is the highest.                   *)
LEMMA HighestClassification ==
  ASSUME NEW S \in SUBSET Classification, S # {}
  PROVE  \E c \in S : \A d \in S : d <= c
<1>1. CASE 3 \in S
  BY <1>1 DEF Classification
<1>2. CASE 3 \notin S /\ 2 \in S
  BY <1>2 DEF Classification
<1>3. CASE 3 \notin S /\ 2 \notin S /\ 1 \in S
  BY <1>3 DEF Classification
<1>4. CASE 3 \notin S /\ 2 \notin S /\ 1 \notin S
  <2>1. \A c \in S : c = 0
    BY <1>4 DEF Classification
  <2> QED
    BY <2>1
<1> QED
  BY <1>1, <1>2, <1>3, <1>4

(* The bundle's classification is one, and none of the manifest's is       *)
(* higher.                                                                 *)
LEMMA CeilingCovers ==
  ASSUME TypeOK
  PROVE  /\ BundleClassification \in Classification
         /\ \A p \in Held(entries) : entries[p].metadata # None =>
              entries[p].metadata.classification <= BundleClassification
<1> DEFINE S == Classifications \cup {0}
<1>1. \A p \in Held(entries) : entries[p].metadata # None =>
        /\ entries[p].metadata.classification \in Classification
        /\ entries[p].metadata.classification \in Classifications
  BY NoneIsNoValue DEF TypeOK, Held, ReleaseFile, Metadata, Classifications
<1>2. S \in SUBSET Classification /\ S # {}
  BY <1>1 DEF Classification, Classifications
<1>3. PICK c \in S : \A d \in S : d <= c
  <2> HIDE DEF S
  <2> QED BY <1>2, HighestClassification
<1>4. /\ BundleClassification \in S
      /\ \A d \in Classifications : d <= BundleClassification
  BY <1>3 DEF BundleClassification
<1> QED
  <2> HIDE DEF S
  <2> QED BY <1>1, <1>2, <1>4

-----------------------------------------------------------------------------
(* The reads of a build                                                    *)

(* The types hold at first.                                                *)
LEMMA TypeInit == Init => TypeOK
BY BuildAssumption DEF Init, TypeOK, Directory, Nothing, Stages

(* Every step keeps the types.                                             *)
LEMMA TypeStep ==
  ASSUME TypeOK, EntriesFollowContent, [Next]_vars
  PROVE  TypeOK'
<1> USE DEF TypeOK, Directory, Stages
<1>1. ASSUME NEW p \in Paths, NEW d \in Documents \cup {None}, Edit(p, d)
      PROVE  TypeOK'
  BY <1>1, BuildAssumption DEF Edit, buildVars
<1>2. ASSUME Begin
      PROVE  TypeOK'
  BY <1>2 DEF Begin, Held, Nothing
<1>3. ASSUME ListConcepts
      PROVE  TypeOK'
  BY <1>3 DEF ListConcepts, Held
<1>4. ASSUME NEW p \in Paths, Validate(p)
      PROVE  TypeOK'
  BY <1>4 DEF Validate, Raise, buildVars, Acceptable
<1>5. ASSUME DocumentsRead
      PROVE  TypeOK'
  BY <1>5 DEF DocumentsRead, Held, DistinctUids
<1>6. ASSUME NEW p \in Paths, CheckLinks(p)
      PROVE  TypeOK'
  BY <1>6 DEF CheckLinks, Held
<1>7. ASSUME Validated
      PROVE  TypeOK'
  BY <1>7 DEF Validated, Raise, buildVars
<1>8. ASSUME NEW p \in Paths, ReadBytes(p)
      PROVE  TypeOK'
  <2> DEFINE plain == [exact |-> disk[p], canonical |-> None, metadata |-> None]
  <2>1. disk[p] # None => plain \in ReleaseFile
    BY DEF ReleaseFile
  <2>2. entries' = entries \/ entries' = [entries EXCEPT ![p] = IF disk[p] = None THEN None ELSE plain]
    BY <1>8 DEF ReadBytes, Raise, buildVars
  <2>3. entries' \in [Paths -> ReleaseFile \cup {None}]
    <3> HIDE DEF plain
    <3> QED BY <2>1, <2>2
  <2> QED
    BY <1>8, <2>3 DEF ReadBytes, Raise, buildVars
<1>9. ASSUME ParseConcept
      PROVE  TypeOK'
  <2>1. CASE Raise
    BY <1>9, <2>1 DEF Raise, buildVars
  <2>2. CASE ~Raise
    <3>1. /\ current \in ConceptPaths
          /\ content[current] \in Documents
          /\ disk[current] \in Documents
          /\ Packageable(content[current], disk[current])
      BY <1>9, <2>2, BuildAssumption DEF ParseConcept, EntriesFollowContent, Packageable
    <3>2. EntryOf(content[current], disk[current]) \in ReleaseFile
      BY <3>1, EntryIsReleaseFile
    <3> QED
      BY <1>9, <2>2, <3>2 DEF ParseConcept
  <2> QED
    BY <2>1, <2>2
<1>10. ASSUME Package
       PROVE  TypeOK'
  <2>1. BundleClassification \in Classification
    BY CeilingCovers
  <2>2. [content EXCEPT ![ManifestPath] = None] \in Directory
    OBVIOUS
  <2>3. CASE Raise
    BY <2>3 DEF Raise, buildVars
  <2>4. CASE ~Raise
    <3>1. artifact' = [files |-> [content EXCEPT ![ManifestPath] = None],
                       manifest |-> entries,
                       ceiling |-> BundleClassification, canonical |-> TRUE]
      BY <1>10, <2>4 DEF Package
    <3>2. artifact' \in Archive
      BY <2>1, <2>2, <3>1 DEF Archive
    <3>3. stage' = "idle" /\ UNCHANGED <<disk, edits, buildVars, received, source, quiet>>
      BY <1>10, <2>4 DEF Package
    <3> QED
      BY <3>2, <3>3 DEF buildVars
  <2> QED
    BY <2>3, <2>4
<1>11. ASSUME NEW p \in Paths \ {ManifestPath}, NEW d \in Documents \cup {None},
              NEW form \in BOOLEAN, Receive(Damaged(artifact, p, d, form))
       PROVE  TypeOK'
  <2>1. artifact \in Archive
    BY <1>11 DEF Receive
  <2>2. Damaged(artifact, p, d, form) \in Archive
    BY <2>1 DEF Damaged, Archive
  <2>3. Verifies(Damaged(artifact, p, d, form)) \in BOOLEAN
    BY <2>2 DEF Verifies, SameInventory, DigestsMatch, Archive
  <2> QED
    BY <1>11, <2>2, <2>3 DEF Receive, buildVars
<1>12. CASE UNCHANGED vars
  BY <1>12 DEF vars, buildVars
<1> QED
  BY <1>1, <1>2, <1>3, <1>4, <1>5, <1>6, <1>7, <1>8, <1>9, <1>10, <1>11, <1>12 DEF Next

(* The bytes of a file are read once.                                      *)
LEMMA ReadOnceStep ==
  ASSUME TypeOK, ReadOnce, EntriesFollowContent, [Next]_vars
  PROVE  ReadOnce'
<1> USE DEF ReadOnce
<1>1. ASSUME NEW p \in Paths, NEW d \in Documents \cup {None}, Edit(p, d)
      PROVE  ReadOnce'
  BY <1>1 DEF Edit, buildVars, Held, Nothing
<1>2. CASE Begin
  BY <1>2 DEF Begin, Nothing
<1>3. CASE ListConcepts \/ DocumentsRead
  BY <1>3 DEF ListConcepts, DocumentsRead, Nothing
<1>4. ASSUME NEW p \in Paths, Validate(p) \/ CheckLinks(p)
      PROVE  ReadOnce'
  BY <1>4 DEF Validate, CheckLinks, Raise, buildVars, Nothing
<1>5. CASE Validated
  BY <1>5 DEF Validated, Raise, buildVars, Nothing, Held
<1>6. ASSUME NEW p \in Paths, ReadBytes(p)
      PROVE  ReadOnce'
  BY <1>6 DEF ReadBytes, Raise, Held, TypeOK, Directory
<1>7. CASE ParseConcept
  BY <1>7 DEF ParseConcept, Raise, Held
<1>8. CASE Package
  BY <1>8 DEF Package, Raise
<1>9. ASSUME NEW archive, Receive(archive)
      PROVE  ReadOnce'
  BY <1>9 DEF Receive
<1>10. CASE UNCHANGED vars
  BY <1>10 DEF vars, buildVars, Held, Nothing
<1> QED
  BY <1>1, <1>2, <1>3, <1>4, <1>5, <1>6, <1>7, <1>8, <1>9, <1>10 DEF Next

(* source_entries and manifest_files stay together.                        *)
LEMMA EntriesStep ==
  ASSUME TypeOK, ReadOnce, EntriesFollowContent, [Next]_vars
  PROVE  EntriesFollowContent'
<1>1. ASSUME UNCHANGED <<content, entries, current>>, stage' = stage, artifact' = artifact
      PROVE  EntriesFollowContent'
  BY <1>1 DEF Held, Describes, EntriesFollowContent
<1>2. ASSUME UNCHANGED <<content, entries, current, artifact>>,
             stage' \in {"idle", "listing", "validating", "linking"}, artifact = None
      PROVE  EntriesFollowContent'
  BY <1>2 DEF Held, Describes, EntriesFollowContent
<1>3. ASSUME Raise, stage # "idle"
      PROVE  EntriesFollowContent'
  BY <1>2, <1>3 DEF Raise, buildVars, EntriesFollowContent
<1>4. ASSUME Begin
      PROVE  EntriesFollowContent'
  BY <1>4, BuildAssumption DEF Begin, Nothing, Held, EntriesFollowContent
<1>5. ASSUME ListConcepts \/ DocumentsRead
      PROVE  EntriesFollowContent'
  BY <1>2, <1>5 DEF ListConcepts, DocumentsRead, EntriesFollowContent
<1>6. ASSUME NEW p \in Paths, Validate(p)
      PROVE  EntriesFollowContent'
  BY <1>1, <1>3, <1>6 DEF Validate
<1>7. ASSUME Validated
      PROVE  EntriesFollowContent'
  <2>1. CASE Raise
    BY <1>3, <1>7, <2>1 DEF Validated
  <2>2. CASE ~Raise
    BY <1>7, <2>2, BuildAssumption
      DEF Validated, Held, Describes, EntriesFollowContent, ReadOnce, Nothing
  <2> QED
    BY <2>1, <2>2
<1>8. ASSUME NEW p \in Paths, ReadBytes(p)
      PROVE  EntriesFollowContent'
  <2>1. CASE Raise
    BY <1>3, <1>8, <2>1 DEF ReadBytes
  <2>2. CASE ~Raise
    <3> DEFINE plain == [exact |-> disk[p], canonical |-> None, metadata |-> None]
    <3>1. /\ content' = [content EXCEPT ![p] = disk[p]]
          /\ stage = "packaging" /\ current = None /\ artifact' = None
          /\ disk[p] # None => p # ManifestPath
      BY <1>8, <2>2 DEF ReadBytes, Reserved, EntriesFollowContent
    <3>2. CASE p \in ConceptPaths /\ disk[p] # None
      <4>1. stage' = "parsing" /\ current' = p /\ entries' = entries
        BY <1>8, <2>2, <3>2 DEF ReadBytes
      <4>2. entries[p] = None
        BY <1>8, <3>1 DEF ReadBytes, ReadOnce, Held, EntriesFollowContent, TypeOK
      <4> QED
        BY <3>1, <3>2, <4>1, <4>2, BuildAssumption DEF Held, Describes, TypeOK, Directory, EntriesFollowContent
    <3>3. CASE p \notin ConceptPaths /\ disk[p] # None
      <4>1. stage' = stage /\ current' = current /\ entries' = [entries EXCEPT ![p] = plain]
        BY <1>8, <2>2, <3>3 DEF ReadBytes
      <4>2. plain # None
        BY NoneIsNoValue, <3>3 DEF ReleaseFile, TypeOK, Directory
      <4>3. Describes(p, plain, disk[p])
        BY <3>3 DEF Describes
      <4> HIDE DEF plain
      <4> QED
        BY <3>1, <3>3, <4>1, <4>2, <4>3, BuildAssumption DEF Held, Describes, TypeOK, Directory, EntriesFollowContent
    <3>4. CASE disk[p] = None
      <4>1. stage' = stage /\ current' = current /\ entries' = [entries EXCEPT ![p] = None]
        BY <1>8, <2>2, <3>4 DEF ReadBytes
      <4> QED
        BY <3>1, <3>4, <4>1 DEF Held, Describes, TypeOK, Directory, EntriesFollowContent
    <3> QED
      BY <3>2, <3>3, <3>4
  <2> QED
    BY <2>1, <2>2
<1>9. ASSUME ParseConcept
      PROVE  EntriesFollowContent'
  <2>1. CASE Raise
    BY <1>3, <1>9, <2>1 DEF ParseConcept
  <2>2. CASE ~Raise
    <3> DEFINE entry == EntryOf(content[current], disk[current])
    <3>1. /\ entries' = [entries EXCEPT ![current] = entry]
          /\ stage' = "packaging" /\ current' = None
          /\ UNCHANGED <<content, artifact>> /\ artifact = None
          /\ Packageable(content[current], disk[current])
      BY <1>9, <2>2 DEF ParseConcept, EntriesFollowContent
    <3>2. /\ current \in ConceptPaths /\ content[current] \in Documents
          /\ disk[current] \in Documents
      BY <1>9, <3>1, BuildAssumption DEF ParseConcept, TypeOK, Directory, Packageable, EntriesFollowContent
    <3>3. entry \in ReleaseFile /\ Describes(current, entry, content[current])
      BY <3>1, <3>2, EntryIsReleaseFile
    <3>4. entry # None
      <4> HIDE DEF entry
      <4> QED BY <3>3, NoneIsNoValue
    <3> HIDE DEF entry
    <3> QED
      BY <3>1, <3>2, <3>3, <3>4, BuildAssumption DEF Held, Describes, TypeOK, Directory, EntriesFollowContent
  <2> QED
    BY <2>1, <2>2
<1>10. ASSUME Package
       PROVE  EntriesFollowContent'
  <2>1. CASE Raise
    BY <1>3, <1>10, <2>1 DEF Package
  <2>2. CASE ~Raise
    BY <1>10, <2>2 DEF Package, buildVars, Held, Describes, EntriesFollowContent
  <2> QED
    BY <2>1, <2>2
<1> QED
  <2>1. ASSUME NEW p \in Paths, NEW d \in Documents \cup {None}, Edit(p, d)
        PROVE  EntriesFollowContent'
    BY <1>1, <2>1 DEF Edit, buildVars
  <2>2. ASSUME NEW p \in Paths, CheckLinks(p)
        PROVE  EntriesFollowContent'
    BY <1>1, <2>2 DEF CheckLinks
  <2>3. ASSUME NEW archive, Receive(archive)
        PROVE  EntriesFollowContent'
    BY <1>1, <2>3 DEF Receive, buildVars
  <2>4. CASE UNCHANGED vars
    BY <1>1, <2>4 DEF vars, buildVars
  <2> QED
    BY <1>4, <1>5, <1>6, <1>7, <1>8, <1>9, <1>10, <2>1, <2>2, <2>3, <2>4 DEF Next

-----------------------------------------------------------------------------
(* What is built and what is verified                                      *)

(* The archive stays described by its inventory: Package makes both of the *)
(* entries, which describe the content.                                    *)
LEMMA ArchiveStep ==
  ASSUME BuildInvariant, ArchiveDescribed, [Next]_vars
  PROVE  ArchiveDescribed'
<1>1. ASSUME UNCHANGED artifact
      PROVE  ArchiveDescribed'
  BY <1>1 DEF ArchiveDescribed, Held, Describes
<1>2. CASE Begin
  BY <1>2 DEF Begin, ArchiveDescribed
<1>3. CASE Package
  <2>1. CASE Raise
    BY <1>1, <2>1 DEF Raise
  <2>2. CASE ~Raise
    <3>1. [content EXCEPT ![ManifestPath] = None] = content
      BY DEF BuildInvariant, TypeOK, Directory, EntriesFollowContent
    <3>2. artifact' = [files |-> content, manifest |-> entries,
                       ceiling |-> BundleClassification, canonical |-> TRUE]
      BY <1>3, <2>2, <3>1 DEF Package
    <3>3. current = None
      BY <1>3 DEF Package, BuildInvariant, EntriesFollowContent
    <3>4. Held(entries) = Held(content)
      BY <3>3, BuildAssumption DEF BuildInvariant, EntriesFollowContent, Held
    <3> QED
      BY <3>2, <3>4 DEF ArchiveDescribed, BuildInvariant, EntriesFollowContent, Held, Describes
  <2> QED
    BY <2>1, <2>2
<1>4. ASSUME NEW p \in Paths, NEW d \in Documents \cup {None}, Edit(p, d)
      PROVE  ArchiveDescribed'
  BY <1>1, <1>4 DEF Edit
<1>5. ASSUME NEW p \in Paths, Validate(p) \/ CheckLinks(p) \/ ReadBytes(p)
      PROVE  ArchiveDescribed'
  BY <1>1, <1>5 DEF Validate, CheckLinks, ReadBytes, Raise
<1>6. CASE ListConcepts \/ DocumentsRead \/ Validated \/ ParseConcept
  BY <1>1, <1>6 DEF ListConcepts, DocumentsRead, Validated, ParseConcept, Raise
<1>7. ASSUME NEW archive, Receive(archive)
      PROVE  ArchiveDescribed'
  BY <1>1, <1>7 DEF Receive
<1> QED
  BY <1>1, <1>2, <1>3, <1>4, <1>5, <1>6, <1>7 DEF Next, vars

(* What was received is a damaged copy of the archive.                     *)
LEMMA ReceivedStep ==
  ASSUME BuildInvariant, ReceivedFollowsArtifact, [Next]_vars
  PROVE  ReceivedFollowsArtifact'
<1>1. ASSUME UNCHANGED <<artifact, received>>
      PROVE  ReceivedFollowsArtifact'
  BY <1>1 DEF ReceivedFollowsArtifact, Verifies, SameInventory, DigestsMatch, Held
<1>2. CASE Begin
  BY <1>2 DEF Begin, ReceivedFollowsArtifact
<1>3. CASE Package
  <2>1. artifact = None
    BY <1>3 DEF Package, BuildInvariant, EntriesFollowContent
  <2> QED
    BY <1>3, <2>1 DEF Package, Raise, ReceivedFollowsArtifact
<1>4. ASSUME NEW p \in Paths \ {ManifestPath}, NEW d \in Documents \cup {None},
             NEW form \in BOOLEAN, Receive(Damaged(artifact, p, d, form))
      PROVE  ReceivedFollowsArtifact'
  <2> DEFINE archive == Damaged(artifact, p, d, form)
  <2>1. artifact \in Archive /\ artifact # None
    BY <1>4 DEF Receive, BuildInvariant, TypeOK
  <2>2. archive.manifest = artifact.manifest /\ archive.ceiling = artifact.ceiling
    BY <2>1 DEF Damaged, Archive
  <2>3. /\ received' = [archive |-> archive, accepted |-> Verifies(archive)]
        /\ artifact' = artifact
    BY <1>4 DEF Receive
  <2>4. Verifies(received.archive)' = Verifies(received'.archive)
    BY DEF Verifies, SameInventory, DigestsMatch, Held
  <2> HIDE DEF archive
  <2> QED
    BY <2>1, <2>2, <2>3, <2>4 DEF ReceivedFollowsArtifact
<1>5. ASSUME NEW p \in Paths, NEW d \in Documents \cup {None}, Edit(p, d)
      PROVE  ReceivedFollowsArtifact'
  BY <1>1, <1>5 DEF Edit
<1>6. ASSUME NEW p \in Paths, Validate(p) \/ CheckLinks(p) \/ ReadBytes(p)
      PROVE  ReceivedFollowsArtifact'
  BY <1>1, <1>6 DEF Validate, CheckLinks, ReadBytes, Raise
<1>7. CASE ListConcepts \/ DocumentsRead \/ Validated \/ ParseConcept
  BY <1>1, <1>7 DEF ListConcepts, DocumentsRead, Validated, ParseConcept, Raise
<1> QED
  BY <1>1, <1>2, <1>3, <1>4, <1>5, <1>6, <1>7 DEF Next, vars

(* The invariant of build and verification.                                *)
ReleaseInvariant == BuildInvariant /\ ArchiveDescribed /\ ReceivedFollowsArtifact

(* It holds at first.                                                      *)
LEMMA ReleaseInit == Init => ReleaseInvariant
<1>1. Init => EntriesFollowContent /\ ReadOnce
  BY BuildAssumption DEF Init, EntriesFollowContent, ReadOnce, Nothing, Held
<1> QED
  BY <1>1, TypeInit DEF Init, ReleaseInvariant, BuildInvariant, ArchiveDescribed,
    ReceivedFollowsArtifact

(* The bookkeeping of a build is sound: an entry is made for every file    *)
(* read, from the bytes that go into the archive.                          *)
THEOREM BuildIsSound == Spec => []ReleaseInvariant
<1>1. Init => ReleaseInvariant
  BY ReleaseInit
<1>2. ReleaseInvariant /\ [Next]_vars => ReleaseInvariant'
  BY TypeStep, ReadOnceStep, EntriesStep, ArchiveStep, ReceivedStep
    DEF ReleaseInvariant, BuildInvariant
<1> QED
  BY <1>1, <1>2, PTL DEF Spec

(* The types and the two conditions on the reads hold in every state.      *)
THEOREM BuildInvariantHolds == Spec => []BuildInvariant
<1>1. ReleaseInvariant => BuildInvariant
  BY DEF ReleaseInvariant
<1> QED
  BY <1>1, BuildIsSound, PTL

(* Whatever is edited meanwhile, what build_release returns verifies.      *)
THEOREM BuiltArchivesVerify == Spec => []BuiltVerifies
<1>1. ReleaseInvariant => BuiltVerifies
  <2> SUFFICES ASSUME ReleaseInvariant, artifact # None
               PROVE  Verifies(artifact)
    BY DEF BuiltVerifies
  <2>1. ArchiveDescribed /\ artifact \in Archive
    BY DEF ReleaseInvariant, BuildInvariant, TypeOK
  <2>2. ASSUME NEW p \in Held(artifact.manifest), artifact.manifest[p].canonical # None
        PROVE  /\ artifact.files[p].form # "unparsable"
               /\ CanonicalOf(artifact.files[p]) = artifact.manifest[p].canonical
    BY <2>1, <2>2 DEF ArchiveDescribed, Describes
  <2> QED
    BY <2>1, <2>2 DEF ArchiveDescribed, Describes, Verifies, SameInventory, DigestsMatch
<1> QED
  BY <1>1, BuildIsSound, PTL

(* A report without errors stays true of what was read, and a build goes   *)
(* on with no other.                                                       *)
LEMMA ValidationStep ==
  ASSUME BuildInvariant, ValidationPassed, [Next]_vars
  PROVE  ValidationPassed'
<1> USE DEF ValidationPassed
<1>1. ASSUME UNCHANGED <<stage, report, checked, artifact>>
      PROVE  ValidationPassed'
  BY <1>1 DEF AllAcceptable, DistinctUids, Held, Acceptable
<1>2. ASSUME Raise, artifact = None
      PROVE  ValidationPassed'
  BY <1>2 DEF Raise, buildVars
<1>3. stage # "idle" => artifact = None
  BY DEF BuildInvariant, EntriesFollowContent
<1>4. ASSUME NEW p \in Paths, NEW d \in Documents \cup {None}, Edit(p, d)
      PROVE  ValidationPassed'
  BY <1>1, <1>4 DEF Edit, buildVars
<1>5. CASE Begin
  BY <1>5 DEF Begin, AllAcceptable, Held, Nothing
<1>6. CASE ListConcepts
  BY <1>3, <1>6 DEF ListConcepts, AllAcceptable, Held, Acceptable
<1>7. ASSUME NEW p \in Paths, Validate(p)
      PROVE  ValidationPassed'
  <2>1. CASE disk[p] = None
    BY <1>2, <1>3, <1>7, <2>1 DEF Validate
  <2>2. CASE disk[p] # None
    <3>1. /\ stage = "validating" /\ stage' = stage /\ artifact' = artifact
          /\ checked' = [checked EXCEPT ![p] = disk[p]]
          /\ report' = (report /\ Acceptable(disk[p]))
      BY <1>7, <2>2 DEF Validate
    <3>2. \A q \in Paths : checked'[q] = IF q = p THEN disk[p] ELSE checked[q]
      BY <3>1 DEF BuildInvariant, TypeOK, Directory
    <3>3. report' => AllAcceptable'
      BY <3>1, <3>2 DEF AllAcceptable, Held, Acceptable
    <3> QED
      BY <1>3, <3>1, <3>3
  <2> QED
    BY <2>1, <2>2
<1>8. CASE DocumentsRead
  BY <1>3, <1>8 DEF DocumentsRead, AllAcceptable, DistinctUids, Held, Acceptable
<1>9. ASSUME NEW p \in Paths, CheckLinks(p)
      PROVE  ValidationPassed'
  BY <1>3, <1>9 DEF CheckLinks, AllAcceptable, DistinctUids, Held, Acceptable
<1>10. CASE Validated
  <2>1. CASE ~report
    BY <1>2, <1>3, <1>10, <2>1 DEF Validated
  <2>2. CASE report
    BY <1>3, <1>10, <2>2 DEF Validated, AllAcceptable, DistinctUids, Held, Acceptable
  <2> QED
    BY <2>1, <2>2 DEF BuildInvariant, TypeOK
<1>11. ASSUME stage \in {"packaging", "parsing"}, checked' = checked,
              stage' \in {"idle", "packaging", "parsing"}
       PROVE  ValidationPassed'
  BY <1>11 DEF AllAcceptable, DistinctUids, Held, Acceptable
<1>12. ASSUME NEW p \in Paths, ReadBytes(p)
       PROVE  ValidationPassed'
  BY <1>11, <1>12 DEF ReadBytes, Raise, buildVars
<1>13. CASE ParseConcept \/ Package
  BY <1>11, <1>13 DEF ParseConcept, Package, Raise, buildVars
<1>14. ASSUME NEW archive, Receive(archive)
       PROVE  ValidationPassed'
  BY <1>1, <1>14 DEF Receive, buildVars
<1>15. CASE UNCHANGED vars
  BY <1>1, <1>15 DEF vars, buildVars
<1> QED
  BY <1>4, <1>5, <1>6, <1>7, <1>8, <1>9, <1>10, <1>12, <1>13, <1>14, <1>15 DEF Next

(* Whatever is edited meanwhile, serving can index the concepts that both  *)
(* reads of the build found as validation did, and tell them apart.        *)
THEOREM ValidatedConceptsAreIndexable == Spec => []ValidatedIsIndexable
<1> DEFINE Inv == ReleaseInvariant /\ ValidationPassed
<1>1. Init => Inv
  BY ReleaseInit DEF Init, ValidationPassed
<1>2. Inv /\ [Next]_vars => Inv'
  BY TypeStep, ReadOnceStep, EntriesStep, ArchiveStep, ReceivedStep, ValidationStep
    DEF ReleaseInvariant, BuildInvariant
<1>3. Inv => ValidatedIsIndexable
  <2> SUFFICES ASSUME Inv, artifact # None
               PROVE  ValidatedIsIndexable
    BY DEF ValidatedIsIndexable
  <2> DEFINE unedited == {p \in Held(artifact.manifest) \cap ConceptPaths : AsValidated(p)}
  <2>1. ArchiveDescribed /\ artifact \in Archive /\ AllAcceptable /\ DistinctUids
    BY DEF ReleaseInvariant, BuildInvariant, TypeOK, ValidationPassed
  <2>2. ASSUME NEW p \in unedited
        PROVE  /\ p \in Held(checked)
               /\ Indexable(artifact, p)
               /\ artifact.manifest[p].metadata.uid = checked[p].uid
    <3>1. p \in Held(checked) /\ artifact.files[p] = checked[p]
      BY DEF AsValidated, Held
    <3>2. Describes(p, artifact.manifest[p], artifact.files[p])
      BY <2>1 DEF ArchiveDescribed
    <3>3. artifact.files[p] \in Document
      BY <2>1, <3>1, BuildAssumption DEF Held, Archive, Directory
    <3>4. artifact.manifest[p].metadata # None /\ artifact.manifest[p].canonical # None
      BY <3>2, <3>3, CanonicalIsDocument, NoneIsNoValue DEF Describes
    <3>5. artifact.files[p].form \in {"valid", "incomplete"}
      BY <2>1, <3>1, BuildAssumption DEF AllAcceptable, Acceptable
    <3>6. artifact.manifest[p].metadata.uid = checked[p].uid
      BY DEF AsValidated, MetadataOf
    <3> QED
      BY <3>1, <3>4, <3>5, <3>6 DEF Indexable
  <2>3. ASSUME NEW p \in unedited, NEW q \in unedited, p # q
        PROVE  artifact.manifest[p].metadata.uid # artifact.manifest[q].metadata.uid
    BY <2>1, <2>2, <2>3 DEF DistinctUids
  <2> QED
    BY <2>2, <2>3 DEF ValidatedIsIndexable
<1> QED
  BY <1>1, <1>2, <1>3, PTL DEF Spec

(* Verification refuses every altered copy of what was built.              *)
THEOREM AlteredArchivesAreRejected == Spec => []AlteredIsRejected
<1>1. ReleaseInvariant => AlteredIsRejected
  <2> SUFFICES ASSUME ReleaseInvariant, received # None, received.accepted
               PROVE  received.archive = artifact
    BY DEF AlteredIsRejected
  <2> DEFINE archive == received.archive
  <2>1. /\ artifact \in Archive /\ archive \in Archive
        /\ Verifies(archive)
        /\ archive.manifest = artifact.manifest /\ archive.ceiling = artifact.ceiling
    BY DEF ReleaseInvariant, BuildInvariant, TypeOK, ReceivedFollowsArtifact
  <2>2. artifact.canonical /\ Held(artifact.manifest) = Held(artifact.files)
    BY <2>1 DEF ReleaseInvariant, ArchiveDescribed, ReceivedFollowsArtifact
  <2>3. \A p \in Held(artifact.manifest) : artifact.files[p] = artifact.manifest[p].exact
    BY <2>1 DEF ReleaseInvariant, ArchiveDescribed, ReceivedFollowsArtifact, Describes
  <2>4. /\ archive.canonical
        /\ Held(archive.manifest) = Held(archive.files)
        /\ \A p \in Held(archive.manifest) : archive.files[p] = archive.manifest[p].exact
    BY <2>1 DEF Verifies, SameInventory, DigestsMatch
  <2> HIDE DEF archive
  <2>5. \A p \in Paths : archive.files[p] = artifact.files[p]
    BY <2>1, <2>2, <2>3, <2>4 DEF Held
  <2>6. archive.files = artifact.files
    BY <2>1, <2>5 DEF Archive, Directory
  <2>7. archive.canonical = artifact.canonical
    BY <2>1, <2>2, <2>4 DEF Archive
  <2>8. archive = artifact
    BY <2>1, <2>6, <2>7 DEF Archive
  <2> QED
    BY <2>8 DEF archive
<1> QED
  BY <1>1, BuildIsSound, PTL

-----------------------------------------------------------------------------
(* A build that nobody disturbs                                            *)

(* Every read of an undisturbed build sees the directory it began with.    *)
LEMMA QuietReadsStep ==
  ASSUME BuildInvariant, QuietReads, [Next]_vars
  PROVE  QuietReads'
<1> USE DEF QuietReads
<1>1. ASSUME UNCHANGED <<disk, source, candidates, checked, content, entries, stage>>,
             quiet' => quiet
      PROVE  QuietReads'
  BY <1>1 DEF Held
<1>2. ASSUME stage' = "idle"
      PROVE  QuietReads'
  BY <1>2
<1>3. ASSUME UNCHANGED <<disk, source, candidates, checked, content, entries, quiet>>,
             stage # "idle"
      PROVE  QuietReads'
  BY <1>3 DEF Held
<1>4. ASSUME NEW p \in Paths, NEW d \in Documents \cup {None}, Edit(p, d)
      PROVE  QuietReads'
  BY <1>4 DEF Edit
<1>5. CASE Begin
  BY <1>5 DEF Begin, Nothing, Held
<1>6. CASE ListConcepts \/ DocumentsRead
  BY <1>3, <1>6 DEF ListConcepts, DocumentsRead
<1>7. ASSUME NEW p \in Paths, Validate(p)
      PROVE  QuietReads'
  <2>1. CASE disk[p] = None
    BY <1>2, <1>7, <2>1 DEF Validate, Raise
  <2>2. CASE disk[p] # None
    <3>1. /\ checked' = [checked EXCEPT ![p] = disk[p]]
          /\ UNCHANGED <<disk, source, candidates, content, entries, quiet, stage>>
          /\ stage # "idle"
      BY <1>7, <2>2 DEF Validate
    <3>2. checked \in [Paths -> Documents \cup {None}]
      BY DEF BuildInvariant, TypeOK, Directory
    <3> QED
      BY <3>1, <3>2 DEF Held
  <2> QED
    BY <2>1, <2>2
<1>8. ASSUME NEW p \in Paths, CheckLinks(p)
      PROVE  QuietReads'
  BY <1>3, <1>8 DEF CheckLinks
<1>9. CASE Validated
  BY <1>2, <1>3, <1>9 DEF Validated, Raise
<1>10. ASSUME NEW p \in Paths, ReadBytes(p)
       PROVE  QuietReads'
  <2>1. CASE Raise
    BY <1>2, <2>1 DEF Raise
  <2>2. CASE ~Raise
    <3>1. /\ content' = [content EXCEPT ![p] = disk[p]]
          /\ UNCHANGED <<disk, source, candidates, checked, quiet>>
          /\ stage # "idle"
      BY <1>10, <2>2 DEF ReadBytes
    <3>2. content \in [Paths -> Documents \cup {None}]
      BY DEF BuildInvariant, TypeOK, Directory
    <3>3. \A q \in ConceptPaths : entries'[q] = entries[q] \/ entries'[q] = None
      BY <1>10, <2>2, BuildAssumption DEF ReadBytes, BuildInvariant, TypeOK
    <3>4. \A q \in Held(entries)' \cap ConceptPaths :
            q \in Held(entries) /\ entries'[q] = entries[q]
      BY <3>3 DEF Held
    <3> QED
      BY <3>1, <3>2, <3>4
  <2> QED
    BY <2>1, <2>2
<1>11. CASE ParseConcept
  <2>1. CASE Raise
    BY <1>2, <2>1 DEF Raise
  <2>2. CASE ~Raise
    <3> DEFINE entry == EntryOf(content[current], disk[current])
    <3>1. /\ entries' = [entries EXCEPT ![current] = entry]
          /\ UNCHANGED <<disk, source, candidates, checked, content, quiet>>
          /\ stage # "idle"
      BY <1>11, <2>2 DEF ParseConcept
    <3>2. entry.metadata = MetadataOf(disk[current]) /\ disk[current].form \in HasFields
      BY <1>11, <2>2 DEF EntryOf, ParseConcept, Packageable
    <3>3. entries \in [Paths -> ReleaseFile \cup {None}]
      BY DEF BuildInvariant, TypeOK
    <3> HIDE DEF entry
    <3> QED
      BY <3>1, <3>2, <3>3, BuildAssumption DEF Held
  <2> QED
    BY <2>1, <2>2
<1>12. CASE Package
  BY <1>2, <1>12 DEF Package, Raise
<1>13. ASSUME NEW archive, Receive(archive)
       PROVE  QuietReads'
  BY <1>1, <1>13 DEF Receive, buildVars
<1>14. CASE UNCHANGED vars
  BY <1>1, <1>14 DEF vars, buildVars
<1> QED
  BY <1>4, <1>5, <1>6, <1>7, <1>8, <1>9, <1>10, <1>11, <1>12, <1>13, <1>14 DEF Next

(* Each stage of an undisturbed build does its part of the validation.     *)
LEMMA QuietStagesStep ==
  ASSUME BuildInvariant, QuietReads, QuietStages, [Next]_vars
  PROVE  QuietStages'
<1>1. ASSUME stage' = "idle"
      PROVE  QuietStages'
  BY <1>1 DEF QuietStages
<1>2. ASSUME UNCHANGED <<stage, todo, checked, report, content, source>>, quiet' => quiet
      PROVE  QuietStages'
  BY <1>2 DEF QuietStages, Held, Concepts, Acceptable, Distinct, LinksHeld
<1>3. ASSUME NEW p \in Paths, NEW d \in Documents \cup {None}, Edit(p, d)
      PROVE  QuietStages'
  BY <1>2, <1>3 DEF Edit, buildVars
<1>4. CASE Begin
  BY <1>4 DEF Begin, QuietStages, Nothing, Held
<1>5. CASE ListConcepts
  <2>1. /\ UNCHANGED <<checked, source, report, quiet, disk>> /\ todo' = Held(disk) \cap ConceptPaths
        /\ stage = "listing" /\ stage' = "validating"
    BY <1>5 DEF ListConcepts
  <2>2. quiet' => todo' = Concepts' /\ Held(checked)' = {}
    BY <2>1 DEF Concepts, QuietReads, QuietStages, Held
  <2> QED
    BY <2>1, <2>2 DEF QuietStages
<1>6. ASSUME NEW p \in Paths, Validate(p)
      PROVE  QuietStages'
  <2>1. CASE disk[p] = None
    BY <1>1, <1>6, <2>1 DEF Validate, Raise
  <2>2. CASE disk[p] # None
    <3>1. /\ stage = "validating" /\ stage' = "validating" /\ p \in todo
          /\ todo' = todo \ {p}
          /\ checked' = [checked EXCEPT ![p] = disk[p]]
          /\ report' = (report /\ Acceptable(disk[p]))
          /\ UNCHANGED <<source, quiet, content>>
      BY <1>6, <2>2 DEF Validate
    <3>2. Held(checked)' = Held(checked) \cup {p}
      BY <2>2, <3>1 DEF Held, BuildInvariant, TypeOK, Directory
    <3>3. Concepts' = Concepts /\ \A q \in Paths : Acceptable(source[q])' = Acceptable(source[q])
      BY <3>1 DEF Concepts, Held, Acceptable
    <3>4. quiet => disk[p] = source[p]
      BY <3>1 DEF QuietReads
    <3> QED
      BY <3>1, <3>2, <3>3, <3>4 DEF QuietStages, Held
  <2> QED
    BY <2>1, <2>2
<1>7. CASE DocumentsRead
  <2>1. /\ stage = "validating" /\ stage' = "linking" /\ todo = {}
        /\ todo' = Held(checked)
        /\ report' = (report /\ DistinctUids)
        /\ UNCHANGED <<source, quiet, checked>>
    BY <1>7 DEF DocumentsRead
  <2>2. /\ Concepts' = Concepts /\ Held(checked)' = Held(checked) /\ Distinct' = Distinct
        /\ \A q \in Paths : Acceptable(source[q])' = Acceptable(source[q])
    BY <2>1 DEF Concepts, Held, Acceptable, Distinct
  <2>3. quiet => Held(checked) = Concepts
    BY <2>1 DEF QuietStages
  <2>4. quiet => \A q \in Concepts : checked[q] = source[q]
    BY <2>1, <2>3 DEF QuietReads, Held
  <2>5. quiet /\ DistinctUids => Distinct
    BY <2>3, <2>4 DEF DistinctUids, Distinct
  <2>6. quiet /\ report => \A q \in Concepts : Acceptable(source[q])
    BY <2>1, <2>3 DEF QuietStages
  <2> QED
    BY <2>1, <2>2, <2>3, <2>5, <2>6 DEF QuietStages, Concepts, Held
<1>8. ASSUME NEW p \in Paths, CheckLinks(p)
      PROVE  QuietStages'
  <2>1. /\ stage = "linking" /\ stage' = "linking" /\ p \in todo
        /\ todo' = todo \ {p}
        /\ report' = (report /\ (BrokenIsError => checked[p].links \subseteq Held(disk)))
        /\ UNCHANGED <<source, quiet, checked>>
    BY <1>8 DEF CheckLinks
  <2>2. /\ Concepts' = Concepts /\ Held(checked)' = Held(checked) /\ Distinct' = Distinct
        /\ \A q \in Paths : Acceptable(source[q])' = Acceptable(source[q])
        /\ \A q \in Paths : LinksHeld(q)' = LinksHeld(q)
    BY <2>1 DEF Concepts, Held, Acceptable, Distinct, LinksHeld
  <2>3. quiet /\ p \in Concepts => checked[p] = source[p] /\ disk = source
    BY <2>1 DEF QuietReads, QuietStages, Held
  <2>4. quiet /\ p \in Concepts /\ report' => LinksHeld(p)
    BY <2>1, <2>3 DEF LinksHeld
  <2> QED
    BY <2>1, <2>2, <2>4 DEF QuietStages, Concepts, Held
<1>9. CASE Validated
  <2>1. CASE ~report
    BY <1>1, <1>9, <2>1 DEF Validated, Raise
  <2>2. CASE report
    <3>1. /\ stage = "linking" /\ stage' = "packaging" /\ todo = {}
          /\ todo' = candidates
          /\ UNCHANGED <<source, quiet, content, candidates>>
      BY <1>9, <2>2 DEF Validated
    <3>2. /\ Concepts' = Concepts /\ Distinct' = Distinct /\ Held(source)' = Held(source)
          /\ \A q \in Paths : Acceptable(source[q])' = Acceptable(source[q])
          /\ \A q \in Paths : LinksHeld(q)' = LinksHeld(q)
      BY <3>1 DEF Concepts, Held, Acceptable, Distinct, LinksHeld
    <3>3. Held(content)' = {}
      BY <3>1 DEF BuildInvariant, ReadOnce, Nothing, Held
    <3>4. quiet => candidates = Held(source)
      BY <3>1 DEF QuietReads
    <3> QED
      BY <2>2, <3>1, <3>2, <3>3, <3>4 DEF QuietStages, Concepts, Held
  <2> QED
    BY <2>1, <2>2 DEF BuildInvariant, TypeOK
<1>10. ASSUME UNCHANGED <<source, quiet>>, stage \in {"packaging", "parsing"},
              stage' \in {"packaging", "parsing"},
              (Held(content) \cup todo)' = Held(content) \cup todo \/ ~quiet
       PROVE  QuietStages'
  BY <1>10 DEF QuietStages, Concepts, Held, Acceptable, Distinct, LinksHeld
<1>11. ASSUME NEW p \in Paths, ReadBytes(p)
       PROVE  QuietStages'
  <2>1. CASE Raise
    BY <1>1, <2>1 DEF Raise
  <2>2. CASE ~Raise
    <3>1. /\ stage = "packaging" /\ stage' \in {"packaging", "parsing"} /\ p \in todo
          /\ todo' = todo \ {p}
          /\ content' = [content EXCEPT ![p] = disk[p]]
          /\ UNCHANGED <<source, quiet>>
      BY <1>11, <2>2 DEF ReadBytes
    <3>2. quiet => disk[p] # None
      <4>1. quiet => disk = source /\ p \in Held(source)
        BY <3>1 DEF QuietReads, QuietStages
      <4> QED
        BY <4>1 DEF Held
    <3>3. quiet => Held(content)' = Held(content) \cup {p}
      BY <3>1, <3>2 DEF Held, BuildInvariant, TypeOK, Directory
    <3> QED
      BY <1>10, <3>1, <3>3
  <2> QED
    BY <2>1, <2>2
<1>12. CASE ParseConcept
  BY <1>1, <1>10, <1>12 DEF ParseConcept, Raise, Held
<1>13. CASE Package
  BY <1>1, <1>13 DEF Package, Raise
<1>14. ASSUME NEW archive, Receive(archive)
       PROVE  QuietStages'
  BY <1>2, <1>14 DEF Receive, buildVars
<1>15. CASE UNCHANGED vars
  BY <1>2, <1>15 DEF vars, buildVars
<1> QED
  BY <1>3, <1>4, <1>5, <1>6, <1>7, <1>8, <1>9, <1>11, <1>12, <1>13, <1>14, <1>15 DEF Next

(* The archive of an undisturbed build is exact.                           *)
LEMMA QuietBuildStep ==
  ASSUME BuildInvariant, QuietReads, QuietStages, QuietBuildIsExact, [Next]_vars
  PROVE  QuietBuildIsExact'
<1>1. ASSUME UNCHANGED <<artifact, source>>, quiet' => quiet
      PROVE  QuietBuildIsExact'
  BY <1>1 DEF QuietBuildIsExact, Exact, Held, MetadataOf
<1>2. CASE Begin
  BY <1>2 DEF Begin, QuietBuildIsExact
<1>3. ASSUME Package, ~Raise
      PROVE  QuietBuildIsExact'
  <2> SUFFICES ASSUME quiet'
               PROVE  Exact(artifact', source')
    BY DEF QuietBuildIsExact
  <2>1. /\ stage = "packaging" /\ todo = {} /\ quiet /\ source' = source
        /\ artifact' = [files |-> [content EXCEPT ![ManifestPath] = None],
                        manifest |-> entries,
                        ceiling |-> BundleClassification, canonical |-> TRUE]
    BY <1>3 DEF Package
  <2>2. Held(content) = Held(source) /\ \A p \in Paths : content[p] \in {None, source[p]}
    BY <2>1 DEF QuietReads, QuietStages
  <2>3. /\ content[ManifestPath] = None /\ current = None
        /\ content \in [Paths -> Documents \cup {None}]
        /\ source \in [Paths -> Documents \cup {None}]
    BY <2>1 DEF BuildInvariant, EntriesFollowContent, TypeOK, Directory
  <2>4. \A p \in Paths : content[p] = source[p]
    BY <2>2 DEF Held
  <2>5. [content EXCEPT ![ManifestPath] = None] = source
    BY <2>3, <2>4
  <2>6. artifact'.files = source
    BY <2>1, <2>5
  <2>7. ASSUME NEW p \in Concepts
        PROVE  /\ p \in Held(entries) /\ entries[p].metadata # None
               /\ entries[p].metadata = MetadataOf(source[p])
               /\ source[p].classification <= BundleClassification
               /\ source[p].form \in HasFields
    <3>1. p \in Held(entries) /\ p \in ConceptPaths
      BY <2>3, <2>4, BuildAssumption DEF BuildInvariant, EntriesFollowContent, Held, Concepts
    <3>2. entries[p].metadata # None
      BY <3>1 DEF BuildInvariant, EntriesFollowContent, Describes
    <3>3. entries[p].metadata = MetadataOf(source[p]) /\ source[p].form \in HasFields
      BY <2>1, <3>1 DEF QuietReads
    <3>4. entries[p].metadata.classification <= BundleClassification
      BY <3>1, <3>2, CeilingCovers DEF BuildInvariant
    <3> QED
      BY <3>1, <3>2, <3>3, <3>4 DEF MetadataOf
  <2>8. Distinct /\ \A p \in Concepts : Acceptable(source[p]) /\ LinksHeld(p)
    BY <2>1 DEF QuietStages
  <2>9. \A p \in Concepts : /\ source[p].form = "valid"
                            /\ StaleIsError => CreatedAt < source[p].staleAfter
    BY <2>7, <2>8, BuildAssumption DEF Acceptable, HasFields
  <2> QED
    BY <2>1, <2>6, <2>7, <2>8, <2>9 DEF Exact, Concepts, Distinct, LinksHeld
<1>4. ASSUME NEW p \in Paths, NEW d \in Documents \cup {None}, Edit(p, d)
      PROVE  QuietBuildIsExact'
  BY <1>1, <1>4 DEF Edit
<1>5. ASSUME NEW p \in Paths, Validate(p) \/ CheckLinks(p) \/ ReadBytes(p)
      PROVE  QuietBuildIsExact'
  BY <1>1, <1>5 DEF Validate, CheckLinks, ReadBytes, Raise
<1>6. CASE ListConcepts \/ DocumentsRead \/ Validated \/ ParseConcept
  BY <1>1, <1>6 DEF ListConcepts, DocumentsRead, Validated, ParseConcept, Raise
<1>7. ASSUME NEW archive, Receive(archive)
      PROVE  QuietBuildIsExact'
  BY <1>1, <1>7 DEF Receive
<1>8. CASE Raise
  BY <1>1, <1>8 DEF Raise
<1> QED
  BY <1>1, <1>2, <1>3, <1>4, <1>5, <1>6, <1>7, <1>8 DEF Next, vars

(* A build that nobody disturbs packages exactly the directory, and only   *)
(* one that the profile accepts.                                           *)
THEOREM QuietBuildsAreExact == Spec => []QuietBuildIsExact
<1> DEFINE Inv == ReleaseInvariant /\ QuietInvariant
<1>1. Init => Inv
  BY ReleaseInit DEF Init, QuietInvariant, QuietReads, QuietStages, QuietBuildIsExact
<1>2. Inv /\ [Next]_vars => Inv'
  BY TypeStep, ReadOnceStep, EntriesStep, ArchiveStep, ReceivedStep,
     QuietReadsStep, QuietStagesStep, QuietBuildStep
    DEF ReleaseInvariant, BuildInvariant, QuietInvariant
<1>3. Inv => QuietBuildIsExact
  BY DEF QuietInvariant
<1> QED
  BY <1>1, <1>2, <1>3, PTL DEF Spec

=============================================================================
