------------------------- MODULE FrameworkEvidence -------------------------
(***************************************************************************)
(* framework_evidence.py and the scripts around it: a directory of         *)
(* framework artifacts (wheel, source archive, runtime SBOM) with the      *)
(* evidence document that lists their digests, how a build fills it, how   *)
(* it is verified, and how the reproducibility check rebuilds and compares *)
(* it.  Every file access of the scripts is a step, so that the source     *)
(* tree, the lock and the files can change in between.                     *)
(*                                                                         *)
(* Abstractions: a digest is the content it is taken of; a content says    *)
(* what it was built from; the time stamp and the tool versions, which the *)
(* caller fixes, are left out, and a commit is named by the sources it     *)
(* holds.  Bound: MaxDisturbances.                                         *)
(***************************************************************************)
EXTENDS Naturals, Sequences

CONSTANTS
  Sources,          \* source trees
  Locks,            \* contents of uv.lock
  VersionOf,        \* the package version a source tree declares
  Absent,           \* no such file
  Broken,           \* a content nothing can be made of
  MaxDisturbances   \* bound: changes from outside and crashes

ASSUME EvidenceAssumption ==
  /\ VersionOf \in [Sources -> Nat \ {0}]
  /\ Absent # Broken
  /\ MaxDisturbances \in Nat

VARIABLES
  tree,    \* the checked-out sources and uv.lock
  dir,     \* the files of each artifact directory
  build,   \* the locals of build_framework_evidence.py on each directory
  check,   \* the locals of the verification or reproducibility check
  since,   \* history: what has stayed as it was since some earlier moment
  disturbances

vars == <<tree, dir, build, check, since, disturbances>>

-----------------------------------------------------------------------------
(* Files *)

Trees == [source : Sources, lock : Locks]

(* The reference directory, and the temporary one of the check.            *)
Dirs == {"reference", "candidate"}

Versions == {VersionOf[s] : s \in Sources}

Name(kind, version) == [kind |-> kind, version |-> version]

Sbom     == Name("sbom", 0)
Evidence == Name("evidence", 0)
Stray    == Name("stray", 0)

Names == {Name(kind, v) : kind \in {"wheel", "sdist"}, v \in Versions}
           \cup {Sbom, Evidence, Stray}

(* The artifact a loop is at: the builder hashes the wheel, the source      *)
(* archive and the SBOM, the checks go through the sorted names.           *)
Rank(kinds, n) == CHOOSE i \in DOMAIN kinds : kinds[i] = n.kind

IsNext(kinds, n, todo) ==
  n \in todo /\ \A m \in todo : Rank(kinds, n) <= Rank(kinds, m)

HashOrder == <<"wheel", "sdist", "sbom">>
PathOrder == <<"evidence", "sbom", "wheel", "sdist">>

Empty == [n \in Names |-> Absent]

Present(files) == {n \in Names : files[n] # Absent}

(* uv's export: components in any order, a time stamp, a random serial.    *)
RawSbom(t) == [root |-> VersionOf[t.source], parts |-> t.lock,
               lock |-> Absent, tidy |-> FALSE]

(* Mutant: properties are appended, what was there is not removed.         *)
NormalizeOnce(sbom, lock) ==
  [sbom EXCEPT !.lock = IF @ = Absent THEN lock ELSE Broken, !.tidy = TRUE]

(* normalize_cyclonedx_sbom binds the lock and removes what varies.        *)
Normalize(sbom, lock) == [sbom EXCEPT !.lock = lock, !.tidy = TRUE]

(* What an undisturbed build of a tree leaves, and nothing else.           *)
Artifacts(t) ==
  LET version == VersionOf[t.source]
  IN  [n \in {Name("wheel", version), Name("sdist", version), Sbom} |->
         IF n = Sbom THEN [root |-> version, parts |-> t.lock,
                           lock |-> t.lock, tidy |-> TRUE]
         ELSE t.source]

EvidenceOf(t, commit) ==
  [commit |-> commit, version |-> VersionOf[t.source], lock |-> t.lock,
   digests |-> Artifacts(t)]

Pristine(t, commit) ==
  [n \in Names |->
     IF n = Evidence THEN EvidenceOf(t, commit)
     ELSE IF n \in DOMAIN Artifacts(t) THEN Artifacts(t)[n] ELSE Absent]

(* Files that are built are there and can be read.                         *)
ASSUME ContentsAssumption ==
  \A t \in Trees :
    /\ \A n \in DOMAIN Artifacts(t) : Artifacts(t)[n] \notin {Absent, Broken}
    /\ \A commit \in Sources : EvidenceOf(t, commit) \notin {Absent, Broken}

-----------------------------------------------------------------------------
(* State *)

Ended == {"verified", "reproduced", "rejected"}

NoBuild == [pc |-> "idle", commit |-> Absent, version |-> 0, lock |-> Absent,
            todo |-> {}, digests |-> [n \in {} |-> Absent]]

Failed == [NoBuild EXCEPT !.pc = "failed"]

NoCheck == [pc |-> "idle", mode |-> "verify", pinned |-> FALSE,
            commit |-> Absent, lock |-> Absent, at |-> "reference",
            seen |-> Absent, first |-> Absent, todo |-> {}, sbom |-> Absent]

Init ==
  /\ tree \in Trees
  /\ \E files \in {Empty} \cup {Pristine(t, t.source) : t \in Trees} :
       dir = [d \in Dirs |-> IF d = "reference" THEN files ELSE Empty]
  /\ build = [d \in Dirs |-> NoBuild]
  /\ check = NoCheck
  /\ since = [quiet  |-> [d \in Dirs |-> FALSE],  \* d's package build
              still  |-> FALSE,   \* the check began: the tree
              calm   |-> FALSE,   \* the check began: the reference
              frozen |-> FALSE,   \* the comparison began: the reference
              sound  |-> FALSE]   \* the reference was pristine then
  /\ disturbances = 0

Disturb == disturbances < MaxDisturbances /\ disturbances' = disturbances + 1

(* Files are written: the reference is no longer what it was.              *)
Write(d, files) ==
  /\ dir' = [dir EXCEPT ![d] = files]
  /\ since' = IF d = "candidate" THEN since
              ELSE [since EXCEPT !.calm = FALSE, !.frozen = FALSE]

Building(d, b) == build' = [build EXCEPT ![d] = b]

Checking(c) == check' = c

-----------------------------------------------------------------------------
(* The environment *)

(* Sources are edited, or the lock is updated.                             *)
ChangeTree ==
  /\ Disturb
  /\ tree' \in Trees \ {tree}
  /\ since' = [since EXCEPT !.quiet = [d \in Dirs |-> FALSE], !.still = FALSE]
  /\ UNCHANGED <<dir, build, check>>

(* A file of the reference is removed, damaged, or replaced by the file of *)
(* another build or by an SBOM as uv exports it.                           *)
Replacements(n) ==
  {Absent, Broken} \cup {Pristine(t, c)[n] : t \in Trees, c \in Sources}
    \cup (IF n = Sbom THEN {RawSbom(t) : t \in Trees} ELSE {})

ChangeFile ==
  /\ Disturb
  /\ \E n \in Names : \E content \in Replacements(n) \ {dir["reference"][n]} :
       dir' = [dir EXCEPT !["reference"][n] = content]
  /\ since' = [since EXCEPT !.quiet["reference"] = FALSE,
                 !.calm = FALSE, !.frozen = FALSE]
  /\ UNCHANGED <<tree, build, check>>

(* uv build: a package build writes its two distributions, and removes no  *)
(* others.                                                                 *)
PackageBuild(d) ==
  LET version == VersionOf[tree.source]
  IN  /\ dir' = [dir EXCEPT ![d][Name("wheel", version)] = tree.source,
                            ![d][Name("sdist", version)] = tree.source]
      /\ since' = [since EXCEPT !.quiet[d] = TRUE,
                     !.calm = @ /\ d = "candidate",
                     !.frozen = @ /\ d = "candidate"]

Rested(d) == build[d].pc \in {"idle", "done", "failed"}

(* The reference is built while no check runs, or disturbs one.            *)
MayBuild ==
  /\ Rested("reference")
  /\ IF check.pc \in {"idle"} \cup Ended THEN UNCHANGED disturbances ELSE Disturb

BuildPackage ==
  /\ MayBuild
  /\ PackageBuild("reference")
  /\ Building("reference", NoBuild)
  /\ UNCHANGED <<tree, check>>

-----------------------------------------------------------------------------
(* build_framework_evidence.py *)

(* The package version is imported and the lock is read.                   *)
StartBuild(d, commit) ==
  Building(d, [NoBuild EXCEPT !.pc = "export", !.commit = commit,
                 !.version = VersionOf[tree.source], !.lock = tree.lock])

RunScript(commit) ==
  /\ MayBuild
  /\ StartBuild("reference", commit)
  /\ UNCHANGED <<tree, dir, check, since>>

(* uv export reads the tree again; the SBOM is bound to the lock read      *)
(* before.                                                                 *)
Export(d) ==
  /\ build[d].pc = "export"
  /\ LET raw == RawSbom(tree)
     IN  IF raw.root # build[d].version
         THEN Building(d, Failed) /\ UNCHANGED <<dir, since>>
         ELSE /\ Write(d, [dir[d] EXCEPT ![Sbom] = Normalize(raw, build[d].lock)])
              /\ Building(d, [build[d] EXCEPT !.pc = "pick"])
  /\ UNCHANGED <<tree, check, disturbances>>

SoundWheel(files, n) == files[n] \notin {Absent, Broken}

(* Mutant: of several distributions the first one is taken.                *)
FirstOfKind(files, kind) ==
  {n \in Present(files) : n.kind = kind /\
     \A m \in Present(files) : m.kind = kind => n.version <= m.version}

OfKind(files, kind) == {n \in Present(files) : n.kind = kind}

IsOne(names) == \E n \in names : names = {n}

(* Exactly one wheel and one source archive, whatever version they are of. *)
Pick(d) ==
  /\ build[d].pc = "pick"
  /\ LET wheels == OfKind(dir[d], "wheel")
         sdists == OfKind(dir[d], "sdist")
     IN  IF /\ IsOne(wheels)
            /\ IsOne(sdists)
            /\ \A n \in wheels : SoundWheel(dir[d], n)
         THEN Building(d, [build[d] EXCEPT !.pc = "hash",
                             !.todo = wheels \cup sdists \cup {Sbom}])
         ELSE Building(d, Failed)
  /\ UNCHANGED <<tree, dir, check, since, disturbances>>

(* build_framework_evidence reads one artifact.                            *)
Hash(d) ==
  /\ build[d].pc = "hash"
  /\ \E n \in build[d].todo : IsNext(HashOrder, n, build[d].todo) /\
       IF dir[d][n] = Absent
       THEN Building(d, Failed)
       ELSE Building(d, [build[d] EXCEPT
              !.pc = IF build[d].todo = {n} THEN "write" ELSE "hash",
              !.todo = @ \ {n},
              !.digests = [m \in DOMAIN @ \cup {n} |->
                             IF m = n THEN dir[d][n] ELSE @[m]]])
  /\ UNCHANGED <<tree, dir, check, since, disturbances>>

WriteEvidence(d) ==
  /\ build[d].pc = "write"
  /\ Write(d, [dir[d] EXCEPT ![Evidence] =
                 [commit |-> build[d].commit, version |-> build[d].version,
                  lock |-> build[d].lock, digests |-> build[d].digests]])
  /\ Building(d, [NoBuild EXCEPT !.pc = "done", !.commit = build[d].commit])
  /\ UNCHANGED <<tree, check, disturbances>>

(* The script dies: between two steps, or inside write_bytes.              *)
Crash(d) ==
  /\ ~Rested(d)
  /\ Disturb
  /\ Building(d, Failed)
  /\ \/ UNCHANGED dir
     \/ build[d].pc = "export" /\ dir' = [dir EXCEPT ![d][Sbom] = Broken]
     \/ build[d].pc = "write"  /\ dir' = [dir EXCEPT ![d][Evidence] = Broken]
  /\ since' = [since EXCEPT !.quiet[d] = FALSE, !.calm = @ /\ d = "candidate",
                 !.frozen = @ /\ d = "candidate"]
  /\ UNCHANGED <<tree, check>>

BuildStep(d) == Export(d) \/ Pick(d) \/ Hash(d) \/ WriteEvidence(d) \/ Crash(d)

-----------------------------------------------------------------------------
(* verify_framework_evidence_directory *)

(* The temporary directory goes with the process.                          *)
End(result) ==
  /\ Checking([NoCheck EXCEPT !.pc = result, !.mode = check.mode, !.commit = check.commit])
  /\ dir' = [dir EXCEPT !["candidate"] = Empty]
  /\ build' = [build EXCEPT !["candidate"] = NoBuild]

Reject == End("rejected")

Continue(c) == Checking(c) /\ UNCHANGED <<dir, build>>

(* verify_framework_evidence.py with both expectations or with none, or    *)
(* check_framework_reproducibility.py, which has both.  The caller passes  *)
(* the commit that is checked out (ci.yml), and the lock is read.          *)
StartCheck(mode, pinned) ==
  /\ check.pc \in {"idle"} \cup Ended
  /\ mode = "reproduce" => pinned
  /\ Checking([NoCheck EXCEPT
       !.pc = IF mode = "verify" THEN "evidence" ELSE "package",
       !.mode = mode, !.pinned = pinned, !.commit = tree.source, !.lock = tree.lock])
  /\ since' = [since EXCEPT !.quiet["candidate"] = FALSE, !.still = TRUE,
                 !.calm = TRUE, !.frozen = FALSE,
                 !.sound = dir["reference"] = Pristine(tree, tree.source)]
  /\ UNCHANGED <<tree, dir, build, disturbances>>

Checked == dir[check.at]

(* Evidence that parses, is canonical and meets the expectations.          *)
Acceptable(evidence) ==
  /\ evidence \notin {Absent, Broken}
  /\ check.pinned => evidence.commit = check.commit /\ evidence.lock = check.lock

ReadEvidence ==
  /\ check.pc = "evidence"
  /\ IF Acceptable(Checked[Evidence])
     THEN Continue([check EXCEPT !.pc = "inventory", !.seen = Checked[Evidence]])
     ELSE Reject
  /\ UNCHANGED <<tree, since, disturbances>>

InventoryMatches ==
  Present(Checked) = DOMAIN check.seen.digests \cup {Evidence}

ReadInventory ==
  /\ check.pc = "inventory"
  /\ IF InventoryMatches
     THEN Continue([check EXCEPT !.pc = "digests", !.todo = DOMAIN check.seen.digests])
     ELSE Reject
  /\ UNCHANGED <<tree, since, disturbances>>

CheckDigest ==
  /\ check.pc = "digests"
  /\ \E n \in check.todo : IsNext(PathOrder, n, check.todo) /\
       IF Checked[n] = check.seen.digests[n]
       THEN Continue([check EXCEPT !.todo = @ \ {n},
                        !.pc = IF check.todo = {n} THEN "wheel" ELSE "digests"])
       ELSE Reject
  /\ UNCHANGED <<tree, since, disturbances>>

(* The one wheel of the evidence is read again.                            *)
CheckWheel ==
  /\ check.pc = "wheel"
  /\ LET wheels == {n \in DOMAIN check.seen.digests : n.kind = "wheel"}
     IN  IF /\ IsOne(wheels)
            /\ Sbom \in DOMAIN check.seen.digests
            /\ \A n \in wheels : SoundWheel(Checked, n)
         THEN Continue([check EXCEPT !.pc = "sbom"])
         ELSE Reject
  /\ UNCHANGED <<tree, since, disturbances>>

NormalizeSbom ==
  /\ check.pc = "sbom"
  /\ LET sbom == Checked[Sbom]
     IN  IF sbom \in {Absent, Broken} THEN Reject
         ELSE IF sbom.root # check.seen.version THEN Reject
         ELSE Continue([check EXCEPT !.pc = "again",
                          !.sbom = Normalize(sbom, check.seen.lock)])
  /\ UNCHANGED <<tree, since, disturbances>>

(* Mutant: the normal form is computed and not compared.                   *)
SbomNotCompared == TRUE

(* The SBOM is read once more and compared with the normalised one.        *)
SbomIsNormalized == Checked[Sbom] = check.sbom

Accept ==
  /\ check.pc = "again"
  /\ CASE ~SbomIsNormalized -> Reject
       [] SbomIsNormalized /\ check.mode = "verify" -> End("verified")
       [] SbomIsNormalized /\ check.mode = "reproduce" /\ check.at = "reference" ->
            Continue([check EXCEPT !.pc = "evidence", !.at = "candidate",
                                   !.first = check.seen, !.sbom = Absent])
       [] OTHER -> Continue([check EXCEPT !.pc = "same", !.sbom = Absent])
  /\ UNCHANGED <<tree, since, disturbances>>

-----------------------------------------------------------------------------
(* check_framework_reproducibility.py and                                  *)
(* compare_framework_evidence_directories                                  *)

(* The check builds the package in a fresh directory.                      *)
Rebuild ==
  /\ check.pc = "package"
  /\ PackageBuild("candidate")
  /\ Checking([check EXCEPT !.pc = "rebuild"])
  /\ UNCHANGED <<tree, build, disturbances>>

RunScriptAgain ==
  /\ check.pc = "rebuild"
  /\ build["candidate"].pc = "idle"
  /\ StartBuild("candidate", check.commit)
  /\ UNCHANGED <<tree, dir, check, since, disturbances>>

ScriptEnds ==
  /\ check.pc = "rebuild"
  /\ \/ build["candidate"].pc = "done" /\ Continue([check EXCEPT !.pc = "evidence"])
     \/ build["candidate"].pc = "failed" /\ Reject
  /\ UNCHANGED <<tree, since, disturbances>>

CompareEvidence ==
  /\ check.pc = "same"
  /\ IF check.first # check.seen THEN Reject /\ UNCHANGED since
     ELSE /\ Continue([check EXCEPT !.pc = "compare",
                         !.todo = DOMAIN check.first.digests \cup {Evidence}])
          /\ since' = [since EXCEPT !.frozen = TRUE]
  /\ UNCHANGED <<tree, disturbances>>

(* Mutant: the verified digests are trusted instead of read again.         *)
SameTrusted(n) == TRUE

SameFile(n) ==
  dir["reference"][n] # Absent /\ dir["reference"][n] = dir["candidate"][n]

CompareFile ==
  /\ check.pc = "compare"
  /\ \E n \in check.todo : IsNext(PathOrder, n, check.todo) /\
       IF ~SameFile(n) THEN Reject
       ELSE IF check.todo = {n}
            THEN End("reproduced")
            ELSE Continue([check EXCEPT !.todo = @ \ {n}])
  /\ UNCHANGED <<tree, since, disturbances>>

-----------------------------------------------------------------------------
Next ==
  \/ ChangeTree \/ ChangeFile \/ BuildPackage
  \/ \E commit \in Sources : RunScript(commit)
  \/ \E d \in Dirs : BuildStep(d)
  \/ \E mode \in {"verify", "reproduce"}, pinned \in BOOLEAN : StartCheck(mode, pinned)
  \/ ReadEvidence \/ ReadInventory \/ CheckDigest \/ CheckWheel
  \/ NormalizeSbom \/ Accept
  \/ Rebuild \/ RunScriptAgain \/ ScriptEnds \/ CompareEvidence \/ CompareFile

Spec == Init /\ [][Next]_vars

-----------------------------------------------------------------------------
(* Properties *)

(* A build nothing interferes with leaves exactly the files of its tree,   *)
(* whatever an earlier build, run or crash had left in the directory: what *)
(* it cannot replace (a distribution of another version) makes it fail.    *)
QuietBuildIsPristine ==
  \A d \in Dirs :
    build[d].pc = "done" /\ since.quiet[d] =>
      \A n \in Names \ {Stray} :
        dir[d][n] = Pristine(tree, build[d].commit)[n]

(* No check fails without a cause: a reference that was pristine when the  *)
(* check began is verified and reproduced, unless the tree or its files    *)
(* change, or a crash stops the rebuild, before the check ends.            *)
RejectionHasACause ==
  check.pc = "rejected" =>
    \/ ~since.sound \/ ~since.calm \/ ~since.still
    \/ check.mode = "reproduce" /\ ~since.quiet["candidate"]

(* What an acceptance means at the moment it is given.  Even if files were *)
(* replaced after their digests were checked, the SBOM on disk is the      *)
(* normal form bound to the lock of the evidence that was read; and if     *)
(* nothing was replaced, the directory holds the evidence and what it      *)
(* lists, no more and no less.                                             *)
Consistent(files, evidence) ==
  /\ files[Evidence] = evidence
  /\ Present(files) = DOMAIN evidence.digests \cup {Evidence}
  /\ \A n \in DOMAIN evidence.digests : files[n] = evidence.digests[n]

AcceptanceIsSound ==
  [][ check.pc = "again" /\ check'.pc \notin {"again", "rejected"} =>
        /\ Checked[Sbom].lock = check.seen.lock
        /\ Checked[Sbom].root = check.seen.version
        /\ Checked[Sbom].tidy
        /\ since.calm => Consistent(Checked, check.seen) ]_vars

(* A reproduced reference is the build of the tree: if the tree stood      *)
(* still during the check and the reference during the comparison, every   *)
(* file that an undisturbed build of that tree leaves is in the reference  *)
(* as that build leaves it, whatever was in the directory, and whatever    *)
(* happened to it, before and during the verification.  A file that is     *)
(* added beside them after the inventory was read is not covered.          *)
ReproducedIsPristine ==
  check.pc = "reproduced" /\ since.still /\ since.frozen =>
    \A n \in Present(Pristine(tree, check.commit)) :
      dir["reference"][n] = Pristine(tree, check.commit)[n]
=============================================================================
