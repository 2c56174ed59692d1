---------------------- MODULE FrameworkEvidenceProofs ----------------------
(***************************************************************************)
(* Proofs about the artifact directories, whatever is done to the sources  *)
(* and the files between two steps of the scripts.                         *)
(*                                                                         *)
(* The invariant has a part for each actor.  QuietScript: what a build     *)
(* nothing has interfered with has read and left.  CandidatePhase and      *)
(* CandidateFresh: the temporary directory belongs to the check.           *)
(* CheckReads: what a check has read of a directory that stayed as it is.  *)
(* CheckKnows: what it knows of the tree and of a reference that was       *)
(* pristine when it began.                                                 *)
(***************************************************************************)
EXTENDS FrameworkEvidence, TLAPS

SbomFile == [root : Nat, parts : Locks, lock : Locks \cup {Absent}, tidy : BOOLEAN]

(* An SBOM is what uv exports, with or without a lock.                     *)
IsDir(files) ==
  /\ files = [n \in Names |-> files[n]]
  /\ files[Sbom] \in SbomFile \cup {Absent, Broken}

IsBuild(b) ==
  /\ b = [pc |-> b.pc, commit |-> b.commit, version |-> b.version, lock |-> b.lock,
          todo |-> b.todo, digests |-> b.digests]
  /\ b.lock \in Locks \cup {Absent}
  /\ b.pc \in {"idle", "export", "pick", "hash", "write", "done", "failed"}
  /\ b.pc \in {"export", "pick"} => b.digests = NoBuild.digests

CheckFields == {"pc", "mode", "pinned", "commit", "lock", "at", "seen", "first", "todo",
                "sbom"}

IsCheck(c) == c = [f \in CheckFields |-> c[f]] /\ c.at \in Dirs

SinceType ==
  [quiet : [Dirs -> BOOLEAN], still : BOOLEAN, calm : BOOLEAN, frozen : BOOLEAN,
   sound : BOOLEAN]

Shape ==
  /\ tree \in Trees
  /\ dir = [d \in Dirs |-> dir[d]] /\ \A d \in Dirs : IsDir(dir[d])
  /\ build = [d \in Dirs |-> build[d]] /\ \A d \in Dirs : IsBuild(build[d])
  /\ IsCheck(check)
  /\ since \in SinceType

-----------------------------------------------------------------------------
(* What a quiet build has left, in the order in which it works.            *)

Wheel(t) == Name("wheel", VersionOf[t.source])
Sdist(t) == Name("sdist", VersionOf[t.source])

Hashed(t, todo) == [n \in DOMAIN Artifacts(t) \ todo |-> Artifacts(t)[n]]

QuietFiles(t, files, b) ==
  /\ files[Wheel(t)] = t.source /\ files[Sdist(t)] = t.source
  /\ b.pc \in {"export", "pick", "hash", "write"} =>
       b.version = VersionOf[t.source] /\ b.lock = t.lock
  /\ b.pc \in {"pick", "hash", "write", "done"} => files[Sbom] = Artifacts(t)[Sbom]
  /\ b.pc \in {"hash", "write", "done"} =>
       OfKind(files, "wheel") = {Wheel(t)} /\ OfKind(files, "sdist") = {Sdist(t)}
  /\ b.pc = "hash" => b.todo \subseteq DOMAIN Artifacts(t) /\ b.digests = Hashed(t, b.todo)
  /\ b.pc = "write" => b.digests = Artifacts(t)
  /\ b.pc = "done" => files[Evidence] = EvidenceOf(t, b.commit)

(* Nothing but what a build of a tree leaves.                              *)
OnlyBuilt(t, files) ==
  \A n \in Names \ {Wheel(t), Sdist(t), Sbom, Evidence} : files[n] = Absent

InUse(d) == d = "candidate" => check.pc \notin Ended

QuietScript(d) == since.quiet[d] /\ InUse(d) => QuietFiles(tree, dir[d], build[d])

(* The temporary directory is empty until the package is built in it, and  *)
(* rests when it is checked.                                               *)
CandidatePhase ==
  LET b == build["candidate"]
  IN  /\ check.mode = "verify" \/ check.pc \in {"idle", "package"} \cup Ended =>
           dir["candidate"] = Empty /\ b = NoBuild
      /\ check.mode \in {"verify", "reproduce"}
      /\ check.pc \in {"package", "rebuild", "same", "compare"} => check.mode = "reproduce"
      /\ check.pc = "rebuild" /\ b.pc \notin {"idle", "failed"} => b.commit = check.commit
      /\ check.mode = "reproduce" /\ check.pc \notin {"idle", "package", "rebuild"} \cup Ended =>
           b.pc = "done" /\ b.commit = check.commit

CandidateFresh ==
  since.quiet["candidate"] /\ check.pc \notin Ended =>
    /\ build["candidate"].pc # "failed"
    /\ OnlyBuilt(tree, dir["candidate"])

BuildInv ==
  Shape /\ (\A d \in Dirs : QuietScript(d)) /\ CandidatePhase /\ CandidateFresh

-----------------------------------------------------------------------------
(* What a check has read of a directory that has stayed as it is.          *)

Steady == check.at = "candidate" \/ since.calm

Where ==
  /\ check.mode = "verify" \/ check.pc \in {"idle", "package", "rebuild"} \cup Ended =>
       check.at = "reference"
  /\ check.pc \in {"same", "compare"} => check.at = "candidate"

SeenIsOnDisk ==
  Steady /\ check.pc \in {"inventory", "digests", "wheel", "sbom", "again", "same", "compare"} =>
    Checked[Evidence] = check.seen

Listed ==
  Steady /\ check.pc \in {"digests", "wheel", "sbom", "again"} => InventoryMatches

Matching(names) == \A n \in names : Checked[n] = check.seen.digests[n]

DigestsMatch ==
  /\ check.pc = "digests" => check.todo \subseteq DOMAIN check.seen.digests
  /\ Steady /\ check.pc = "digests" => Matching(DOMAIN check.seen.digests \ check.todo)
  /\ Steady /\ check.pc \in {"wheel", "sbom", "again"} => Matching(DOMAIN check.seen.digests)

SbomIsBound ==
  check.pc = "again" =>
    /\ check.sbom.lock = check.seen.lock /\ check.sbom.root = check.seen.version
    /\ check.sbom.tidy
    /\ Steady => /\ Checked[Sbom] \in SbomFile
                 /\ check.sbom = Normalize(Checked[Sbom], check.seen.lock)

Compared ==
  check.pc = "compare" =>
    LET names == DOMAIN check.first.digests \cup {Evidence}
    IN  /\ check.first = check.seen /\ check.todo \subseteq names
        /\ since.frozen =>
             \A n \in names \ check.todo : dir["reference"][n] = dir["candidate"][n]

CheckReads == Where /\ SeenIsOnDisk /\ Listed /\ DigestsMatch /\ SbomIsBound /\ Compared

(* What it knows of the tree, and of a reference that was pristine.        *)
Undisturbed == since.sound /\ since.calm /\ since.still

CheckKnows ==
  /\ since.still => check.commit = tree.source
  /\ since.still /\ check.pc \notin Ended =>
       /\ check.lock = tree.lock
       /\ check.mode = "reproduce" /\ check.pc # "package" =>
            since.quiet["candidate"] \/ build["candidate"].pc = "failed"
  /\ Undisturbed /\ check.pc \notin Ended =>
       /\ dir["reference"] = Pristine(tree, tree.source)
       /\ check.at = "candidate" => check.first = EvidenceOf(tree, tree.source)

EvidenceInv ==
  /\ BuildInv
  /\ CheckReads
  /\ CheckKnows
  /\ RejectionHasACause
  /\ ReproducedIsPristine

-----------------------------------------------------------------------------
(* Names and contents *)

LEMMA NamesDiffer ==
  ASSUME NEW v
  PROVE  /\ Name("wheel", v) \notin {Name("sdist", v), Sbom, Evidence, Stray}
         /\ Name("sdist", v) \notin {Sbom, Evidence, Stray}
         /\ Sbom \notin {Evidence, Stray} /\ Evidence # Stray
         /\ Name("wheel", v).kind = "wheel" /\ Name("sdist", v).kind = "sdist"
         /\ Sbom.kind = "sbom" /\ Evidence.kind = "evidence" /\ Stray.kind = "stray"
BY DEF Name, Sbom, Evidence, Stray

LEMMA TreeType ==
  ASSUME NEW t \in Trees
  PROVE  /\ t.source \in Sources /\ t.lock \in Locks
         /\ VersionOf[t.source] \in Nat
         /\ Name("wheel", VersionOf[t.source]) \in Names
         /\ Name("sdist", VersionOf[t.source]) \in Names
         /\ Sbom \in Names /\ Evidence \in Names /\ Stray \in Names
<1>1. t.source \in Sources /\ t.lock \in Locks
  BY DEF Trees
<1>2. VersionOf[t.source] \in Nat /\ VersionOf[t.source] \in Versions
  BY <1>1, EvidenceAssumption DEF Versions
<1> QED
  BY <1>1, <1>2 DEF Names

LEMMA ArtifactsAre ==
  ASSUME NEW t \in Trees
  PROVE  LET w == Name("wheel", VersionOf[t.source])
             s == Name("sdist", VersionOf[t.source])
             files == Artifacts(t)
         IN  /\ files = [n \in {w, s, Sbom} |-> files[n]]
             /\ DOMAIN files = {w, s, Sbom}
             /\ files[w] = t.source /\ files[s] = t.source
             /\ files[Sbom] = [root |-> VersionOf[t.source], parts |-> t.lock,
                               lock |-> t.lock, tidy |-> TRUE]
             /\ files[Sbom] \in SbomFile
             /\ \A n \in DOMAIN files : files[n] \notin {Absent, Broken}
<1> DEFINE v == VersionOf[t.source]
           w == Name("wheel", v)
           s == Name("sdist", v)
           sbom == [root |-> v, parts |-> t.lock, lock |-> t.lock, tidy |-> TRUE]
           files == Artifacts(t)
<1>1. w # Sbom /\ s # Sbom
  BY NamesDiffer
<1>2. sbom \in SbomFile
  BY TreeType DEF SbomFile
<1>3. files = [n \in {w, s, Sbom} |-> IF n = Sbom THEN sbom ELSE t.source]
  BY DEF Artifacts
<1>4. \A n \in DOMAIN files : files[n] \notin {Absent, Broken}
  BY ContentsAssumption
<1> HIDE DEF w, s, sbom, files
<1>5. /\ DOMAIN files = {w, s, Sbom} /\ files[w] = t.source /\ files[s] = t.source
      /\ files[Sbom] = sbom /\ files = [n \in {w, s, Sbom} |-> files[n]]
  BY <1>1, <1>3
<1> QED
  BY <1>2, <1>4, <1>5 DEF w, s, sbom, files, v

LEMMA NormalizeIs ==
  ASSUME NEW sbom \in SbomFile, NEW lock
  PROVE  LET new == Normalize(sbom, lock)
         IN  /\ new.root = sbom.root /\ new.parts = sbom.parts
             /\ new.lock = lock /\ new.tidy
             /\ new = [root |-> sbom.root, parts |-> sbom.parts, lock |-> lock, tidy |-> TRUE]
             /\ lock \in Locks \cup {Absent} => new \in SbomFile
<1> DEFINE new == Normalize(sbom, lock)
<1>1. new = [sbom EXCEPT !.lock = lock, !.tidy = TRUE]
  BY DEF Normalize
<1> HIDE DEF new
<1>2. new \in [root : Nat, parts : Locks, lock : {lock}, tidy : {TRUE}]
  BY <1>1 DEF SbomFile
<1>3. new.root = sbom.root /\ new.parts = sbom.parts
  BY <1>1 DEF SbomFile
<1>4. new = [root |-> sbom.root, parts |-> sbom.parts, lock |-> lock, tidy |-> TRUE]
  BY <1>2, <1>3
<1>5. lock \in Locks \cup {Absent} => new \in SbomFile
  BY <1>2 DEF SbomFile
<1> QED
  BY <1>2, <1>3, <1>4, <1>5 DEF new

LEMMA RawSbomIs ==
  ASSUME NEW t \in Trees
  PROVE  /\ RawSbom(t) \in SbomFile
         /\ RawSbom(t).root = VersionOf[t.source] /\ RawSbom(t).parts = t.lock
BY TreeType DEF RawSbom, SbomFile

LEMMA PristineIs ==
  ASSUME NEW t \in Trees, NEW commit \in Sources
  PROVE  LET files == Pristine(t, commit)
         IN  /\ IsDir(files) /\ DOMAIN files = Names
             /\ files[Evidence] = EvidenceOf(t, commit)
             /\ \A n \in DOMAIN Artifacts(t) :
                  n \in Names /\ n # Evidence /\ files[n] = Artifacts(t)[n]
             /\ \A n \in Names : n \notin DOMAIN Artifacts(t) \cup {Evidence} =>
                  files[n] = Absent
             /\ Present(files) = DOMAIN Artifacts(t) \cup {Evidence}
<1> DEFINE files == Pristine(t, commit)
           listed == DOMAIN Artifacts(t)
<1>1. /\ listed = {Name("wheel", VersionOf[t.source]), Name("sdist", VersionOf[t.source]), Sbom}
      /\ Artifacts(t)[Sbom] \in SbomFile
      /\ \A n \in listed : Artifacts(t)[n] \notin {Absent, Broken}
  BY ArtifactsAre
<1>2. listed \subseteq Names /\ Evidence \in Names /\ Evidence \notin listed /\ Sbom \in listed
  BY <1>1, NamesDiffer, TreeType
<1>3. files = [n \in Names |->
                 IF n = Evidence THEN EvidenceOf(t, commit)
                 ELSE IF n \in listed THEN Artifacts(t)[n] ELSE Absent]
  BY DEF Pristine
<1> HIDE DEF files, listed
<1>4. /\ DOMAIN files = Names /\ files[Evidence] = EvidenceOf(t, commit)
      /\ \A n \in listed : n \in Names /\ n # Evidence /\ files[n] = Artifacts(t)[n]
      /\ \A n \in Names : n \notin listed \cup {Evidence} => files[n] = Absent
      /\ files = [n \in Names |-> files[n]]
  BY <1>2, <1>3
<1>5. IsDir(files)
  BY <1>1, <1>2, <1>4 DEF IsDir
<1>6. EvidenceOf(t, commit) # Absent
  BY ContentsAssumption
<1>7. Present(files) = listed \cup {Evidence}
  BY <1>1, <1>2, <1>4, <1>6 DEF Present
<1> QED
  BY <1>4, <1>5, <1>7 DEF files, listed

(* A directory with the files of a build and no others is pristine.        *)
LEMMA SameAsPristine ==
  ASSUME NEW t \in Trees, NEW commit \in Sources, NEW files, IsDir(files),
         files[Evidence] = EvidenceOf(t, commit),
         \A n \in DOMAIN Artifacts(t) : files[n] = Artifacts(t)[n],
         \A n \in Names : n \notin DOMAIN Artifacts(t) \cup {Evidence} => files[n] = Absent
  PROVE  files = Pristine(t, commit)
<1> DEFINE other == Pristine(t, commit)
<1>1. files = [n \in Names |-> files[n]] /\ other = [n \in Names |-> other[n]]
  BY PristineIs DEF IsDir
<1>2. \A n \in Names : files[n] = other[n]
  BY PristineIs
<1> HIDE DEF other
<1>3. files = other
  BY <1>1, <1>2
<1> QED
  BY <1>3 DEF other

LEMMA FileWritten ==
  ASSUME NEW files, IsDir(files), NEW n \in Names, NEW content,
         n = Sbom => content \in SbomFile \cup {Absent, Broken}
  PROVE  LET new == [files EXCEPT ![n] = content]
         IN  /\ IsDir(new) /\ new[n] = content
             /\ \A m \in Names \ {n} : new[m] = files[m]
<1> DEFINE new == [files EXCEPT ![n] = content]
<1>1. files = [m \in Names |-> files[m]]
  BY DEF IsDir
<1>2. /\ new[n] = content /\ \A m \in Names \ {n} : new[m] = files[m]
      /\ new = [m \in Names |-> new[m]]
  BY <1>1
<1>3. Sbom \in Names
  BY DEF Names
<1> HIDE DEF new
<1>4. IsDir(new)
  BY <1>2, <1>3 DEF IsDir
<1> QED
  BY <1>2, <1>4 DEF new

-----------------------------------------------------------------------------
(* Steps of a build *)

(* Only what belongs to d changes.                                         *)
OnlyAt(d) ==
  /\ dir' = [e \in Dirs |-> dir'[e]] /\ build' = [e \in Dirs |-> build'[e]]
  /\ \A e \in Dirs \ {d} : dir'[e] = dir[e] /\ build'[e] = build[e]

LEMMA ChangesOnlyAt ==
  ASSUME Shape, NEW d \in Dirs, NEW files, NEW b,
         dir' = [dir EXCEPT ![d] = files] \/ (UNCHANGED dir /\ files = dir[d]),
         Building(d, b) \/ (UNCHANGED build /\ b = build[d])
  PROVE  OnlyAt(d) /\ dir'[d] = files /\ build'[d] = b
<1>1. dir = [e \in Dirs |-> dir[e]] /\ build = [e \in Dirs |-> build[e]]
  BY DEF Shape
<1>2. /\ dir' = [e \in Dirs |-> dir'[e]] /\ dir'[d] = files
      /\ \A e \in Dirs \ {d} : dir'[e] = dir[e]
  BY <1>1
<1>3. /\ build' = [e \in Dirs |-> build'[e]] /\ build'[d] = b
      /\ \A e \in Dirs \ {d} : build'[e] = build[e]
  BY <1>1 DEF Building
<1> QED
  BY <1>2, <1>3 DEF OnlyAt

(* The temporary directory is built in while the check waits for it.       *)
CandidateBuilds(files, b, quiet) ==
  /\ check.pc = "rebuild"
  /\ b.pc \notin {"idle", "failed"} => b.commit = check.commit
  /\ quiet => b.pc # "failed" /\ OnlyBuilt(tree, files)

LEMMA ScriptMoves ==
  ASSUME BuildInv, NEW d \in Dirs, OnlyAt(d), UNCHANGED <<tree, check>>,
         IsDir(dir'[d]), IsBuild(build'[d]), since' \in SinceType,
         \A e \in Dirs \ {d} : since'.quiet[e] => since.quiet[e],
         since'.quiet[d] => QuietFiles(tree, dir'[d], build'[d]),
         d = "candidate" => CandidateBuilds(dir'[d], build'[d], since'.quiet[d])
  PROVE  BuildInv'
<1>1. Shape'
  BY DEF BuildInv, Shape, OnlyAt
<1>2. (\A e \in Dirs : QuietScript(e))'
  BY DEF BuildInv, QuietScript, InUse, OnlyAt
<1>3. CandidatePhase' /\ CandidateFresh'
  <2>1. CASE d = "candidate"
    <3>1. check.pc = "rebuild" /\ check.mode = "reproduce"
      BY <2>1 DEF CandidateBuilds, BuildInv, CandidatePhase
    <3> QED
      BY <2>1, <3>1 DEF BuildInv, CandidatePhase, CandidateFresh, CandidateBuilds, Ended
  <2>2. CASE d # "candidate"
    <3>1. "candidate" \in Dirs \ {d}
      BY <2>2 DEF Dirs
    <3>2. dir'["candidate"] = dir["candidate"] /\ build'["candidate"] = build["candidate"]
          /\ (since'.quiet["candidate"] => since.quiet["candidate"])
      BY <3>1 DEF OnlyAt
    <3> QED
      BY <3>2 DEF BuildInv, CandidatePhase, CandidateFresh
  <2> QED
    BY <2>1, <2>2
<1> QED
  BY <1>1, <1>2, <1>3 DEF BuildInv

(* When a script of the temporary directory runs, the check waits for it.  *)
LEMMA RunningScript ==
  ASSUME BuildInv, NEW d \in Dirs, build[d].pc \notin {"idle", "done", "failed"}
  PROVE  /\ d = "candidate" =>
              CandidateBuilds(dir[d], build[d], since.quiet[d]) /\ check.pc = "rebuild"
         /\ since.quiet[d] => QuietFiles(tree, dir[d], build[d])
<1>1. ASSUME d = "candidate" PROVE check.pc = "rebuild"
  BY <1>1 DEF BuildInv, CandidatePhase, NoBuild
<1>2. ASSUME d = "candidate" PROVE CandidateBuilds(dir[d], build[d], since.quiet[d])
  BY <1>1, <1>2 DEF BuildInv, CandidatePhase, CandidateFresh, CandidateBuilds, Ended
<1>3. ASSUME since.quiet[d] PROVE QuietFiles(tree, dir[d], build[d])
  BY <1>1, <1>3 DEF BuildInv, QuietScript, InUse, Ended
<1> QED
  BY <1>1, <1>2, <1>3

(* The locals of a script move on.                                         *)
Locals(pc, commit, version, lock, todo, digests) ==
  [pc |-> pc, commit |-> commit, version |-> version, lock |-> lock, todo |-> todo,
   digests |-> digests]

Moved(b, pc, todo, digests) == [b EXCEPT !.pc = pc, !.todo = todo, !.digests = digests]

LEMMA LocalsMove ==
  ASSUME NEW b, IsBuild(b), NEW pc, NEW todo, NEW digests
  PROVE  Moved(b, pc, todo, digests) =
           Locals(pc, b.commit, b.version, b.lock, todo, digests)
<1> DEFINE from == b.pc
           commit == b.commit
           version == b.version
           lock == b.lock
           old == b.todo
           known == b.digests
           new == Moved(b, pc, todo, digests)
<1>1. b = [pc |-> from, commit |-> commit, version |-> version, lock |-> lock,
           todo |-> old, digests |-> known]
  BY DEF IsBuild
<1> HIDE DEF from, commit, version, lock, old, known
<1>2. new \in [pc : {pc}, commit : {commit}, version : {version}, lock : {lock},
               todo : {todo}, digests : {digests}]
  BY <1>1 DEF Moved
<1> HIDE DEF new
<1>3. new = Locals(pc, commit, version, lock, todo, digests)
  BY <1>2 DEF Locals
<1> QED
  BY <1>3 DEF new, commit, version, lock

LEMMA LocalsKeep ==
  ASSUME NEW b, IsBuild(b), NEW pc, NEW todo
  PROVE  /\ [b EXCEPT !.pc = pc] = Moved(b, pc, b.todo, b.digests)
         /\ [b EXCEPT !.pc = pc, !.todo = todo] = Moved(b, pc, todo, b.digests)
<1> DEFINE from == b.pc
           commit == b.commit
           version == b.version
           lock == b.lock
           old == b.todo
           known == b.digests
<1>1. b = [pc |-> from, commit |-> commit, version |-> version, lock |-> lock,
           todo |-> old, digests |-> known]
  BY DEF IsBuild
<1> HIDE DEF from, commit, version, lock, old, known
<1>2. \A x, y : Moved(b, pc, x, y) = Locals(pc, commit, version, lock, x, y)
  BY LocalsMove DEF commit, version, lock
<1>3. [b EXCEPT !.pc = pc] = Locals(pc, commit, version, lock, old, known)
  BY <1>1 DEF Locals
<1>4. [b EXCEPT !.pc = pc, !.todo = todo] = Locals(pc, commit, version, lock, todo, known)
  <2> DEFINE new == [b EXCEPT !.pc = pc, !.todo = todo]
  <2>1. new \in [pc : {pc}, commit : {commit}, version : {version}, lock : {lock},
                 todo : {todo}, digests : {known}]
    BY <1>1
  <2> HIDE DEF new
  <2>2. new = Locals(pc, commit, version, lock, todo, known)
    BY <2>1 DEF Locals
  <2> QED
    BY <2>2 DEF new
<1> QED
  BY <1>2, <1>3, <1>4 DEF old, known

LEMMA LocalsAre ==
  ASSUME NEW pc, NEW commit, NEW version, NEW lock \in Locks \cup {Absent}, NEW todo,
         NEW digests,
         pc \in {"export", "pick", "hash", "write", "done"},
         pc \in {"export", "pick"} => digests = NoBuild.digests
  PROVE  LET b == Locals(pc, commit, version, lock, todo, digests)
         IN  /\ IsBuild(b) /\ b.pc = pc /\ b.commit = commit /\ b.version = version
             /\ b.lock = lock /\ b.todo = todo /\ b.digests = digests
<1> DEFINE known == NoBuild.digests
           b == Locals(pc, commit, version, lock, todo, digests)
<1> HIDE DEF known
<1>1. /\ b.pc = pc /\ b.commit = commit /\ b.version = version
      /\ b.lock = lock /\ b.todo = todo /\ b.digests = digests
  BY DEF Locals
<1>2. b = [pc |-> b.pc, commit |-> b.commit, version |-> b.version, lock |-> b.lock,
           todo |-> b.todo, digests |-> b.digests]
  BY <1>1 DEF Locals
<1> HIDE DEF b
<1>3. IsBuild(b)
  BY <1>1, <1>2 DEF IsBuild
<1> QED
  BY <1>1, <1>3 DEF b

LEMMA BuildShapes ==
  /\ IsBuild(NoBuild) /\ NoBuild.pc = "idle"
  /\ IsBuild(Failed) /\ Failed.pc = "failed"
<1>1. /\ NoBuild = [pc |-> "idle", commit |-> Absent, version |-> 0, lock |-> Absent,
                    todo |-> {}, digests |-> [n \in {} |-> Absent]]
      /\ Failed = [NoBuild EXCEPT !.pc = "failed"]
  BY DEF NoBuild, Failed
<1>2. /\ NoBuild.pc = "idle" /\ NoBuild.lock = Absent
      /\ NoBuild = [pc |-> NoBuild.pc, commit |-> NoBuild.commit, version |-> NoBuild.version,
                    lock |-> NoBuild.lock, todo |-> NoBuild.todo,
                    digests |-> NoBuild.digests]
  BY <1>1
<1>3. /\ Failed.pc = "failed" /\ Failed.lock = Absent
      /\ Failed = [pc |-> Failed.pc, commit |-> Failed.commit, version |-> Failed.version,
                   lock |-> Failed.lock, todo |-> Failed.todo, digests |-> Failed.digests]
  BY <1>1, <1>2
<1> QED
  BY <1>2, <1>3 DEF IsBuild

(* Files are written: the flags that say the reference is as it was.       *)
LEMMA WriteSince ==
  ASSUME Shape, NEW d \in Dirs, NEW files, Write(d, files)
  PROVE  /\ dir' = [dir EXCEPT ![d] = files]
         /\ since' \in SinceType /\ since'.quiet = since.quiet
         /\ since'.still = since.still /\ since'.sound = since.sound
         /\ d = "reference" => ~since'.calm /\ ~since'.frozen
         /\ d = "candidate" => since' = since
<1>1. since \in SinceType /\ d \in {"reference", "candidate"}
  BY DEF Shape, Dirs
<1> QED
  BY <1>1 DEF Write, SinceType

LEMMA ShapeFacts ==
  ASSUME Shape, NEW d \in Dirs
  PROVE  /\ IsDir(dir[d]) /\ IsBuild(build[d]) /\ tree \in Trees /\ since \in SinceType
         /\ since.quiet[d] \in BOOLEAN
BY DEF Shape, SinceType

(* A script that gives up without having written anything.                 *)
LEMMA ScriptFails ==
  ASSUME BuildInv, NEW d \in Dirs, build[d].pc \notin {"idle", "done", "failed"},
         Building(d, Failed), UNCHANGED <<tree, dir, check, since>>, ~since.quiet[d]
  PROVE  BuildInv'
<1>1. Shape
  BY DEF BuildInv
<1>2. OnlyAt(d) /\ dir'[d] = dir[d] /\ build'[d] = Failed
  BY <1>1, ChangesOnlyAt
<1>3. d = "candidate" => CandidateBuilds(dir[d], Failed, FALSE)
  BY RunningScript, BuildShapes DEF CandidateBuilds
<1>4. IsDir(dir'[d]) /\ IsBuild(build'[d]) /\ since' \in SinceType
  BY <1>1, <1>2, ShapeFacts, BuildShapes
<1>5. d = "candidate" => CandidateBuilds(dir'[d], build'[d], since'.quiet[d])
  BY <1>2, <1>3 DEF CandidateBuilds
<1> QED
  BY <1>2, <1>4, <1>5, ScriptMoves

(* A script moves on, and has perhaps written its directory.               *)
LEMMA ScriptContinues ==
  ASSUME BuildInv, NEW d \in Dirs, build[d].pc \notin {"idle", "done", "failed"},
         NEW files, NEW b, IsDir(files), IsBuild(b), b.pc # "failed",
         Building(d, b), b.commit = build[d].commit, UNCHANGED <<tree, check>>,
         (UNCHANGED <<dir, since>> /\ files = dir[d]) \/ Write(d, files),
         \A n \in Names \ {Sbom, Evidence} : files[n] = dir[d][n],
         since.quiet[d] => QuietFiles(tree, files, b)
  PROVE  BuildInv'
<1>1. Shape
  BY DEF BuildInv
<1>2. /\ dir' = [dir EXCEPT ![d] = files] \/ (UNCHANGED dir /\ files = dir[d])
      /\ since' \in SinceType /\ since'.quiet = since.quiet
  BY <1>1, WriteSince, ShapeFacts
<1>3. OnlyAt(d) /\ dir'[d] = files /\ build'[d] = b
  BY <1>1, <1>2, ChangesOnlyAt
<1>4. d = "candidate" => CandidateBuilds(files, b, since.quiet[d])
  <2>1. d = "candidate" => CandidateBuilds(dir[d], build[d], since.quiet[d])
    BY RunningScript
  <2> QED
    BY <2>1 DEF CandidateBuilds, OnlyBuilt
<1> QED
  BY <1>2, <1>3, <1>4, ScriptMoves

LEMMA ExportKeeps ==
  ASSUME BuildInv, NEW d \in Dirs, Export(d)
  PROVE  BuildInv'
<1> DEFINE b == build[d]
           raw == RawSbom(tree)
           sbom == Normalize(raw, b.lock)
           files == [dir[d] EXCEPT ![Sbom] = sbom]
           next == Locals("pick", b.commit, b.version, b.lock, b.todo, b.digests)
<1>1. /\ Shape /\ IsDir(dir[d]) /\ IsBuild(b) /\ tree \in Trees
      /\ b.pc = "export" /\ UNCHANGED <<tree, check>>
  BY ShapeFacts DEF BuildInv, Export
<1>2. since.quiet[d] => QuietFiles(tree, dir[d], b)
  BY <1>1, RunningScript
<1>3. raw \in SbomFile /\ raw.root = VersionOf[tree.source] /\ raw.parts = tree.lock
  BY <1>1, RawSbomIs
<1>4. CASE raw.root # b.version
  <2>1. Building(d, Failed) /\ UNCHANGED <<tree, dir, check, since>>
    BY <1>4 DEF Export
  <2>2. ~since.quiet[d]
    BY <1>1, <1>2, <1>3, <1>4 DEF QuietFiles
  <2> QED
    BY <1>1, <2>1, <2>2, ScriptFails
<1>5. CASE raw.root = b.version
  <2>1. Write(d, files) /\ Building(d, next)
    <3>1. Write(d, files) /\ Building(d, Moved(b, "pick", b.todo, b.digests))
      BY <1>1, <1>5, LocalsKeep DEF Export
    <3> QED
      BY <1>1, <3>1, LocalsMove
  <2>2. sbom = [root |-> VersionOf[tree.source], parts |-> tree.lock, lock |-> b.lock,
                tidy |-> TRUE]
    <3> HIDE DEF raw, b
    <3>1. sbom = [root |-> raw.root, parts |-> raw.parts, lock |-> b.lock, tidy |-> TRUE]
      BY <1>3, NormalizeIs
    <3> HIDE DEF sbom
    <3> QED
      BY <1>3, <3>1
  <2>3. sbom \in SbomFile
    BY <1>1, <1>3, NormalizeIs DEF IsBuild
  <2> HIDE DEF sbom
  <2>4. /\ IsBuild(next) /\ next.pc = "pick" /\ next.lock = b.lock
        /\ next.version = b.version /\ next.commit = b.commit
    <3> HIDE DEF b
    <3>1. b.lock \in Locks \cup {Absent} /\ b.digests = NoBuild.digests
      BY <1>1 DEF IsBuild
    <3> QED
      BY <3>1, LocalsAre
  <2> HIDE DEF next
  <2>6. /\ IsDir(files) /\ files[Sbom] = sbom
        /\ \A n \in Names \ {Sbom} : files[n] = dir[d][n]
    BY <1>1, <2>3, FileWritten, TreeType
  <2> HIDE DEF files
  <2>7. ASSUME since.quiet[d] PROVE QuietFiles(tree, files, next)
    <3>1. Wheel(tree) \in Names \ {Sbom} /\ Sdist(tree) \in Names \ {Sbom}
      BY <1>1, TreeType, NamesDiffer DEF Wheel, Sdist
    <3>2. sbom = Artifacts(tree)[Sbom]
      BY <1>1, <1>2, <2>2, <2>7, ArtifactsAre DEF QuietFiles
    <3> QED
      BY <1>1, <1>2, <2>4, <2>6, <2>7, <3>1, <3>2 DEF QuietFiles
  <2> QED
    BY <1>1, <2>1, <2>4, <2>6, <2>7, ScriptContinues
<1> QED
  BY <1>4, <1>5

LEMMA PickKeeps ==
  ASSUME BuildInv, NEW d \in Dirs, Pick(d)
  PROVE  BuildInv'
<1> DEFINE b == build[d]
           wheels == OfKind(dir[d], "wheel")
           sdists == OfKind(dir[d], "sdist")
           todo == wheels \cup sdists \cup {Sbom}
           next == Locals("hash", b.commit, b.version, b.lock, todo, b.digests)
<1>1. /\ Shape /\ IsDir(dir[d]) /\ IsBuild(b) /\ tree \in Trees
      /\ b.pc = "pick" /\ UNCHANGED <<tree, dir, check, since>>
  BY ShapeFacts DEF BuildInv, Pick
<1>2. since.quiet[d] => QuietFiles(tree, dir[d], b)
  BY <1>1, RunningScript
<1>3. since.quiet[d] =>
        Wheel(tree) \in wheels /\ Sdist(tree) \in sdists
        /\ SoundWheel(dir[d], Wheel(tree))
  <2>1. tree.source \notin {Absent, Broken}
    BY <1>1, ArtifactsAre
  <2>2. Wheel(tree) \in Names /\ Sdist(tree) \in Names
    BY <1>1, TreeType DEF Wheel, Sdist
  <2>3. Wheel(tree).kind = "wheel" /\ Sdist(tree).kind = "sdist"
    BY NamesDiffer DEF Wheel, Sdist
  <2> QED
    BY <1>2, <2>1, <2>2, <2>3 DEF QuietFiles, OfKind, Present, SoundWheel
<1>4. CASE Building(d, Failed)
           /\ ~(IsOne(wheels) /\ IsOne(sdists) /\ \A n \in wheels : SoundWheel(dir[d], n))
  <2>1. ASSUME since.quiet[d], d = "candidate" PROVE FALSE
    <3>1. OnlyBuilt(tree, dir[d])
      BY <1>1, <2>1, RunningScript DEF CandidateBuilds
    <3>2. \A n \in Names : n.kind = "wheel" /\ dir[d][n] # Absent => n = Wheel(tree)
      BY <3>1, NamesDiffer DEF OnlyBuilt, Wheel, Sdist
    <3>3. \A n \in Names : n.kind = "sdist" /\ dir[d][n] # Absent => n = Sdist(tree)
      BY <3>1, NamesDiffer DEF OnlyBuilt, Wheel, Sdist
    <3>4. wheels = {Wheel(tree)} /\ sdists = {Sdist(tree)}
      BY <1>3, <2>1, <3>2, <3>3 DEF OfKind, Present
    <3> QED
      BY <1>3, <1>4, <2>1, <3>4 DEF IsOne
  <2>2. OnlyAt(d) /\ dir'[d] = dir[d] /\ build'[d] = Failed
    BY <1>1, <1>4, ChangesOnlyAt
  <2>3. IsDir(dir'[d]) /\ IsBuild(build'[d]) /\ since' \in SinceType
    BY <1>1, <2>2, ShapeFacts, BuildShapes
  <2>4. d = "candidate" => CandidateBuilds(dir'[d], build'[d], since'.quiet[d])
    BY <1>1, <2>1, <2>2, RunningScript, BuildShapes DEF CandidateBuilds
  <2>5. since'.quiet[d] => QuietFiles(tree, dir'[d], build'[d])
    BY <1>1, <1>2, <2>2, BuildShapes DEF QuietFiles
  <2> QED
    BY <1>1, <2>2, <2>3, <2>4, <2>5, ScriptMoves
<1>5. CASE Building(d, next) /\ IsOne(wheels) /\ IsOne(sdists)
  <2>1. /\ IsBuild(next) /\ next.pc = "hash" /\ next.lock = b.lock
        /\ next.version = b.version /\ next.commit = b.commit
        /\ next.digests = b.digests /\ next.todo = todo
    <3> HIDE DEF b, todo
    <3>1. b.lock \in Locks \cup {Absent}
      BY <1>1 DEF IsBuild
    <3> QED
      BY <3>1, LocalsAre
  <2> HIDE DEF next, wheels, sdists
  <2>3. ASSUME since.quiet[d] PROVE QuietFiles(tree, dir[d], next)
    <3>1. wheels = {Wheel(tree)} /\ sdists = {Sdist(tree)}
      BY <1>3, <1>5, <2>3 DEF IsOne
    <3>2. next.todo = DOMAIN Artifacts(tree)
      BY <1>1, <2>1, <3>1, ArtifactsAre DEF Wheel, Sdist
    <3>3. next.digests = Hashed(tree, next.todo)
      BY <1>1, <2>1, <3>2 DEF IsBuild, NoBuild, Hashed
    <3> QED
      BY <1>1, <1>2, <2>1, <2>3, <3>1, <3>2, <3>3 DEF QuietFiles, wheels, sdists
  <2> QED
    BY <1>1, <1>5, <2>1, <2>3, ScriptContinues
<1> QED
  <2>1. CASE Building(d, [b EXCEPT !.pc = "hash", !.todo = todo])
             /\ IsOne(wheels) /\ IsOne(sdists)
    <3> HIDE DEF b, todo, wheels, sdists
    <3>1. Building(d, Moved(b, "hash", todo, b.digests))
      BY <1>1, <2>1, LocalsKeep
    <3>2. Moved(b, "hash", todo, b.digests) = next
      BY <1>1, LocalsMove
    <3> QED
      BY <1>5, <2>1, <3>1, <3>2
  <2> QED
    BY <1>4, <2>1 DEF Pick

LEMMA HashedMore ==
  ASSUME NEW t \in Trees, NEW todo, todo \subseteq DOMAIN Artifacts(t), NEW n \in todo,
         NEW digests, digests = Hashed(t, todo)
  PROVE  /\ [m \in DOMAIN digests \cup {n} |->
               IF m = n THEN Artifacts(t)[n] ELSE digests[m]] = Hashed(t, todo \ {n})
         /\ Hashed(t, {}) = Artifacts(t)
<1> DEFINE files == Artifacts(t)
<1>1. files = [m \in DOMAIN files |-> files[m]]
  BY ArtifactsAre
<1> HIDE DEF files
<1>2. digests = [m \in DOMAIN files \ todo |-> files[m]] /\ todo \subseteq DOMAIN files
  BY DEF Hashed, files
<1>3. DOMAIN digests \cup {n} = DOMAIN files \ (todo \ {n})
  BY <1>2
<1>4. \A m \in DOMAIN files \ (todo \ {n}) :
        (IF m = n THEN files[n] ELSE digests[m]) = files[m]
  BY <1>2
<1>5. [m \in DOMAIN digests \cup {n} |-> IF m = n THEN files[n] ELSE digests[m]] =
        [m \in DOMAIN files \ (todo \ {n}) |-> files[m]]
  BY <1>3, <1>4
<1>6. [m \in DOMAIN files \ {} |-> files[m]] = files
  BY <1>1
<1> QED
  BY <1>5, <1>6 DEF Hashed, files

(* What a quiet script reads is what the build has left.                   *)
LEMMA QuietArtifacts ==
  ASSUME NEW t \in Trees, NEW files, NEW b, QuietFiles(t, files, b),
         b.pc \in {"pick", "hash", "write", "done"}
  PROVE  \A n \in DOMAIN Artifacts(t) : files[n] = Artifacts(t)[n]
BY ArtifactsAre DEF QuietFiles, Wheel, Sdist

LEMMA HashKeeps ==
  ASSUME BuildInv, NEW d \in Dirs, Hash(d)
  PROVE  BuildInv'
<1> DEFINE b == build[d]
<1>1. /\ Shape /\ IsDir(dir[d]) /\ IsBuild(b) /\ tree \in Trees
      /\ b.pc = "hash" /\ UNCHANGED <<tree, dir, check, since>>
  BY ShapeFacts DEF BuildInv, Hash
<1>2. since.quiet[d] => QuietFiles(tree, dir[d], b)
  BY <1>1, RunningScript
<1>3. PICK n \in b.todo :
        IF dir[d][n] = Absent THEN Building(d, Failed)
        ELSE Building(d, [b EXCEPT
               !.pc = IF b.todo = {n} THEN "write" ELSE "hash",
               !.todo = b.todo \ {n},
               !.digests = [m \in DOMAIN b.digests \cup {n} |->
                              IF m = n THEN dir[d][n] ELSE b.digests[m]]])
  <2> HIDE DEF b
  <2>1. b = build[d]
    BY DEF b
  <2> QED
    BY <2>1 DEF Hash
<1>4. since.quiet[d] => n \in DOMAIN Artifacts(tree) /\ dir[d][n] = Artifacts(tree)[n]
                        /\ dir[d][n] # Absent
  <2> SUFFICES ASSUME since.quiet[d]
               PROVE  n \in DOMAIN Artifacts(tree) /\ dir[d][n] = Artifacts(tree)[n]
                      /\ dir[d][n] # Absent
    OBVIOUS
  <2>1. QuietFiles(tree, dir[d], b)
    BY <1>2
  <2>2. n \in DOMAIN Artifacts(tree)
    BY <1>1, <2>1 DEF QuietFiles
  <2>3. dir[d][n] = Artifacts(tree)[n]
    BY <1>1, <2>1, <2>2, QuietArtifacts
  <2>4. Artifacts(tree)[n] # Absent
    BY <1>1, <2>2, ArtifactsAre
  <2> QED
    BY <2>2, <2>3, <2>4
<1>5. CASE dir[d][n] = Absent
  BY <1>1, <1>3, <1>4, <1>5, ScriptFails
<1>6. CASE dir[d][n] # Absent
  <2> DEFINE pc == IF b.todo = {n} THEN "write" ELSE "hash"
             todo == b.todo \ {n}
             digests == [m \in DOMAIN b.digests \cup {n} |->
                           IF m = n THEN dir[d][n] ELSE b.digests[m]]
             next == Locals(pc, b.commit, b.version, b.lock, todo, digests)
  <2>1. Building(d, next)
    <3>1. Building(d, Moved(b, pc, todo, digests))
      BY <1>3, <1>6 DEF Moved
    <3> HIDE DEF b, pc, todo, digests
    <3>2. Moved(b, pc, todo, digests) = next
      BY <1>1, LocalsMove
    <3> QED
      BY <3>1, <3>2
  <2>2. pc \in {"hash", "write"} /\ (pc = "write" => todo = {})
    OBVIOUS
  <2>3. ASSUME since.quiet[d]
        PROVE  /\ todo \subseteq DOMAIN Artifacts(tree)
               /\ digests = Hashed(tree, todo) /\ Hashed(tree, {}) = Artifacts(tree)
    <3>1. b.todo \subseteq DOMAIN Artifacts(tree) /\ b.digests = Hashed(tree, b.todo)
      BY <1>1, <1>2, <2>3 DEF QuietFiles
    <3>2. /\ [m \in DOMAIN b.digests \cup {n} |->
                 IF m = n THEN Artifacts(tree)[n] ELSE b.digests[m]] = Hashed(tree, todo)
          /\ Hashed(tree, {}) = Artifacts(tree)
      <4> HIDE DEF b
      <4> QED
        BY <1>1, <3>1, HashedMore DEF todo
    <3>3. dir[d][n] = Artifacts(tree)[n]
      BY <1>4, <2>3
    <3>4. digests = Hashed(tree, todo)
      BY <3>2, <3>3
    <3> QED
      BY <3>1, <3>2, <3>4
  <2> HIDE DEF pc, todo, digests
  <2>4. /\ IsBuild(next) /\ next.pc = pc /\ next.commit = b.commit
        /\ next.version = b.version /\ next.lock = b.lock
        /\ next.todo = todo /\ next.digests = digests
    <3> HIDE DEF b
    <3>1. b.lock \in Locks \cup {Absent}
      BY <1>1 DEF IsBuild
    <3> QED
      BY <2>2, <3>1, LocalsAre
  <2> HIDE DEF next
  <2>5. ASSUME since.quiet[d] PROVE QuietFiles(tree, dir[d], next)
    BY <1>1, <1>2, <2>2, <2>3, <2>4, <2>5 DEF QuietFiles
  <2> QED
    BY <1>1, <2>1, <2>2, <2>4, <2>5, ScriptContinues
<1> QED
  BY <1>5, <1>6

LEMMA WriteEvidenceKeeps ==
  ASSUME BuildInv, NEW d \in Dirs, WriteEvidence(d)
  PROVE  BuildInv'
<1> DEFINE b == build[d]
           evidence == [commit |-> b.commit, version |-> b.version, lock |-> b.lock,
                        digests |-> b.digests]
           files == [dir[d] EXCEPT ![Evidence] = evidence]
           next == Locals("done", b.commit, 0, Absent, {}, [n \in {} |-> Absent])
<1>1. /\ Shape /\ IsDir(dir[d]) /\ IsBuild(b) /\ tree \in Trees
      /\ b.pc = "write" /\ UNCHANGED <<tree, check>>
  BY ShapeFacts DEF BuildInv, WriteEvidence
<1>2. since.quiet[d] => QuietFiles(tree, dir[d], b)
  BY <1>1, RunningScript
<1>3. Write(d, files) /\ Building(d, next)
  <2> DEFINE none == NoBuild.digests
             commit == b.commit
  <2>1. Building(d, [NoBuild EXCEPT !.pc = "done", !.commit = commit]) /\ Write(d, files)
    BY DEF WriteEvidence
  <2>2. /\ NoBuild = [pc |-> "idle", commit |-> Absent, version |-> 0, lock |-> Absent,
                      todo |-> {}, digests |-> none]
        /\ next = Locals("done", commit, 0, Absent, {}, none)
    BY DEF NoBuild
  <2> HIDE DEF next, files, none, commit
  <2>3. [NoBuild EXCEPT !.pc = "done", !.commit = commit] = next
    <3> DEFINE new == [NoBuild EXCEPT !.pc = "done", !.commit = commit]
    <3>1. new \in [pc : {"done"}, commit : {commit}, version : {0}, lock : {Absent},
                   todo : {{}}, digests : {none}]
      BY <2>2
    <3> HIDE DEF new
    <3>2. new = next
      BY <2>2, <3>1 DEF Locals
    <3> QED
      BY <3>2 DEF new
  <2> QED
    BY <2>1, <2>3
<1>4. IsBuild(next) /\ next.pc = "done" /\ next.commit = b.commit
  <2> DEFINE none == NoBuild.digests
             commit == b.commit
  <2>1. next = Locals("done", commit, 0, Absent, {}, none)
    BY DEF NoBuild
  <2> HIDE DEF next, none, commit
  <2>2. IsBuild(next) /\ next.pc = "done" /\ next.commit = commit
    BY <2>1, LocalsAre
  <2> QED
    BY <2>2 DEF commit
<1>5. since.quiet[d] => evidence = EvidenceOf(tree, b.commit)
  BY <1>1, <1>2 DEF QuietFiles, EvidenceOf
<1> HIDE DEF evidence, next
<1>6. /\ IsDir(files) /\ files[Evidence] = evidence
      /\ \A n \in Names \ {Evidence} : files[n] = dir[d][n]
  <2>1. Evidence \in Names /\ Evidence # Sbom
    BY <1>1, TreeType DEF Evidence, Sbom, Name
  <2> QED
    BY <1>1, <2>1, FileWritten
<1> HIDE DEF files
<1>7. ASSUME since.quiet[d] PROVE QuietFiles(tree, files, next)
  <2>1. {Wheel(tree), Sdist(tree), Sbom} \subseteq Names \ {Evidence}
    BY <1>1, TreeType, NamesDiffer DEF Wheel, Sdist
  <2>2. \A kind \in {"wheel", "sdist"} : OfKind(files, kind) = OfKind(dir[d], kind)
    BY <1>6, NamesDiffer DEF OfKind, Present
  <2> QED
    BY <1>1, <1>2, <1>4, <1>5, <1>6, <1>7, <2>1, <2>2 DEF QuietFiles
<1> QED
  BY <1>1, <1>3, <1>4, <1>6, <1>7, ScriptContinues

(* What is flagged when the files of d are written from outside a script.  *)
Touched(old, d, quiet) ==
  [old EXCEPT !.quiet = quiet, !.calm = @ /\ d = "candidate",
     !.frozen = @ /\ d = "candidate"]

LEMMA SinceMoves ==
  ASSUME NEW old \in SinceType, NEW d \in Dirs, NEW quiet \in [Dirs -> BOOLEAN], NEW new,
         new = Touched(old, d, quiet)
  PROVE  /\ new \in SinceType /\ new.quiet = quiet
         /\ new.still = old.still /\ new.sound = old.sound
         /\ new.calm => old.calm /\ d = "candidate"
         /\ new.frozen => old.frozen /\ d = "candidate"
         /\ d = "candidate" => new.calm = old.calm /\ new.frozen = old.frozen
<1> DEFINE calm == old.calm /\ d = "candidate"
           frozen == old.frozen /\ d = "candidate"
<1>1. calm \in BOOLEAN /\ frozen \in BOOLEAN
  OBVIOUS
<1>2. new = [old EXCEPT !.quiet = quiet, !.calm = calm, !.frozen = frozen]
  BY DEF Touched
<1>3. old.calm \in BOOLEAN /\ old.frozen \in BOOLEAN
  BY DEF SinceType
<1>4. /\ calm => old.calm /\ d = "candidate"
      /\ frozen => old.frozen /\ d = "candidate"
      /\ d = "candidate" => calm = old.calm /\ frozen = old.frozen
  BY <1>3
<1> HIDE DEF calm, frozen
<1>5. /\ new.quiet = quiet /\ new.calm = calm /\ new.frozen = frozen
      /\ new.still = old.still /\ new.sound = old.sound
  BY <1>2 DEF SinceType
<1>6. new \in SinceType
  BY <1>1, <1>2 DEF SinceType
<1> QED
  BY <1>4, <1>5, <1>6

LEMMA CrashDoes ==
  ASSUME Shape, NEW d \in Dirs, Crash(d)
  PROVE  /\ OnlyAt(d) /\ build'[d] = Failed /\ IsDir(dir'[d]) /\ UNCHANGED <<tree, check>>
         /\ since' \in SinceType /\ ~since'.quiet[d]
         /\ \A e \in Dirs \ {d} : since'.quiet[e] = since.quiet[e]
         /\ since'.still = since.still /\ since'.sound = since.sound
         /\ since'.calm => since.calm /\ d = "candidate"
         /\ since'.frozen => since.frozen /\ d = "candidate"
<1>1. /\ IsDir(dir[d]) /\ since \in SinceType /\ Building(d, Failed)
      /\ UNCHANGED <<tree, check>>
  BY ShapeFacts DEF Crash
<1>2. PICK files : /\ IsDir(files)
                   /\ dir' = [dir EXCEPT ![d] = files] \/ (UNCHANGED dir /\ files = dir[d])
  <2>1. CASE UNCHANGED dir
    BY <1>1, <2>1
  <2>2. CASE \E n \in {Sbom, Evidence} : dir' = [dir EXCEPT ![d][n] = Broken]
    <3>1. PICK n \in {Sbom, Evidence} : dir' = [dir EXCEPT ![d][n] = Broken]
      BY <2>2
    <3> DEFINE files == [dir[d] EXCEPT ![n] = Broken]
    <3>2. n \in Names
      BY DEF Names
    <3>3. IsDir(files)
      BY <1>1, <3>2, FileWritten
    <3>4. dir' = [dir EXCEPT ![d] = files]
      BY <3>1
    <3> QED
      BY <3>3, <3>4
  <2>3. \/ UNCHANGED dir
        \/ dir' = [dir EXCEPT ![d][Sbom] = Broken]
        \/ dir' = [dir EXCEPT ![d][Evidence] = Broken]
    BY DEF Crash
  <2> QED
    BY <2>1, <2>2, <2>3
<1>3. OnlyAt(d) /\ dir'[d] = files /\ build'[d] = Failed
  BY <1>1, <1>2, ChangesOnlyAt
<1> DEFINE new == since'
           quiet == [since.quiet EXCEPT ![d] = FALSE]
<1>4. new = Touched(since, d, quiet)
  BY DEF Crash, Touched
<1>5. quiet \in [Dirs -> BOOLEAN] /\ ~quiet[d]
      /\ \A e \in Dirs \ {d} : quiet[e] = since.quiet[e]
  BY <1>1 DEF SinceType
<1> HIDE DEF new, quiet
<1>6. /\ new \in SinceType /\ new.quiet = quiet
      /\ new.still = since.still /\ new.sound = since.sound
      /\ new.calm => since.calm /\ d = "candidate"
      /\ new.frozen => since.frozen /\ d = "candidate"
  BY <1>1, <1>4, <1>5, SinceMoves
<1> QED
  BY <1>1, <1>2, <1>3, <1>5, <1>6 DEF new

LEMMA CrashKeeps ==
  ASSUME BuildInv, NEW d \in Dirs, Crash(d)
  PROVE  BuildInv'
<1>1. /\ Shape /\ build[d].pc \notin {"idle", "done", "failed"}
      /\ OnlyAt(d) /\ build'[d] = Failed /\ IsDir(dir'[d]) /\ UNCHANGED <<tree, check>>
      /\ since' \in SinceType /\ ~since'.quiet[d]
      /\ \A e \in Dirs \ {d} : since'.quiet[e] = since.quiet[e]
  BY CrashDoes DEF BuildInv, Crash, Rested
<1>2. d = "candidate" => CandidateBuilds(dir'[d], build'[d], since'.quiet[d])
  BY <1>1, RunningScript, BuildShapes DEF CandidateBuilds
<1> QED
  BY <1>1, <1>2, BuildShapes, ScriptMoves

(* A package build leaves its two distributions.                           *)
LEMMA PackageBuilt ==
  ASSUME Shape, NEW d \in Dirs, PackageBuild(d)
  PROVE  \E files : /\ dir' = [dir EXCEPT ![d] = files] /\ IsDir(files)
                    /\ files[Wheel(tree)] = tree.source /\ files[Sdist(tree)] = tree.source
                    /\ \A n \in Names \ {Wheel(tree), Sdist(tree)} : files[n] = dir[d][n]
<1> DEFINE w == Name("wheel", VersionOf[tree.source])
           s == Name("sdist", VersionOf[tree.source])
           one == [dir[d] EXCEPT ![w] = tree.source]
           files == [one EXCEPT ![s] = tree.source]
<1>1. /\ IsDir(dir[d]) /\ tree \in Trees /\ dir = [e \in Dirs |-> dir[e]]
      /\ w \in Names /\ s \in Names /\ w # s /\ w # Sbom /\ s # Sbom
  BY TreeType, NamesDiffer DEF Shape
<1>2. dir' = [dir EXCEPT ![d] = files]
  <2>1. dir' = [dir EXCEPT ![d][w] = tree.source, ![d][s] = tree.source]
    BY DEF PackageBuild
  <2> HIDE DEF w, s
  <2> QED
    BY <1>1, <2>1
<1> HIDE DEF w, s
<1>3. /\ IsDir(one) /\ one[w] = tree.source /\ \A n \in Names \ {w} : one[n] = dir[d][n]
  BY <1>1, FileWritten
<1> HIDE DEF one
<1>4. /\ IsDir(files) /\ files[s] = tree.source /\ \A n \in Names \ {s} : files[n] = one[n]
  BY <1>1, <1>3, FileWritten
<1> HIDE DEF files
<1>5. /\ files[w] = tree.source
      /\ \A n \in Names \ {w, s} : files[n] = dir[d][n]
  BY <1>1, <1>3, <1>4
<1> QED
  BY <1>2, <1>4, <1>5 DEF w, s, Wheel, Sdist

LEMMA PackageSince ==
  ASSUME Shape, NEW d \in Dirs, PackageBuild(d)
  PROVE  /\ since' \in SinceType /\ since'.quiet[d]
         /\ \A e \in Dirs \ {d} : since'.quiet[e] = since.quiet[e]
         /\ since'.still = since.still /\ since'.sound = since.sound
         /\ since'.calm => since.calm /\ d = "candidate"
         /\ since'.frozen => since.frozen /\ d = "candidate"
         /\ d = "candidate" => since'.calm = since.calm /\ since'.frozen = since.frozen
<1> DEFINE new == since'
           quiet == [since.quiet EXCEPT ![d] = TRUE]
<1>1. since \in SinceType /\ new = Touched(since, d, quiet)
  BY DEF Shape, PackageBuild, Touched
<1>2. quiet \in [Dirs -> BOOLEAN] /\ quiet[d]
      /\ \A e \in Dirs \ {d} : quiet[e] = since.quiet[e]
  BY <1>1 DEF SinceType
<1> HIDE DEF new, quiet
<1>3. /\ new \in SinceType /\ new.quiet = quiet
      /\ new.still = since.still /\ new.sound = since.sound
      /\ new.calm => since.calm /\ d = "candidate"
      /\ new.frozen => since.frozen /\ d = "candidate"
      /\ d = "candidate" => new.calm = since.calm /\ new.frozen = since.frozen
  BY <1>1, <1>2, SinceMoves
<1> QED
  BY <1>2, <1>3 DEF new

LEMMA BuildPackageKeeps ==
  ASSUME BuildInv, BuildPackage
  PROVE  BuildInv'
<1> DEFINE d == "reference"
<1>1. /\ Shape /\ d \in Dirs /\ d # "candidate" /\ PackageBuild(d) /\ Building(d, NoBuild)
      /\ UNCHANGED <<tree, check>>
  BY DEF BuildInv, BuildPackage, Dirs
<1> HIDE DEF d
<1>2. PICK files : /\ dir' = [dir EXCEPT ![d] = files] /\ IsDir(files)
                   /\ files[Wheel(tree)] = tree.source /\ files[Sdist(tree)] = tree.source
  BY <1>1, PackageBuilt
<1>3. OnlyAt(d) /\ dir'[d] = files /\ build'[d] = NoBuild
  BY <1>1, <1>2, ChangesOnlyAt
<1>4. /\ since' \in SinceType /\ \A e \in Dirs \ {d} : since'.quiet[e] = since.quiet[e]
  BY <1>1, PackageSince
<1>5. QuietFiles(tree, dir'[d], build'[d])
  BY <1>2, <1>3, BuildShapes DEF QuietFiles
<1>6. IsDir(dir'[d]) /\ IsBuild(build'[d])
  BY <1>2, <1>3, BuildShapes
<1> QED
  BY <1>1, <1>3, <1>4, <1>5, <1>6, ScriptMoves

(* The script starts in a directory whose package it may have built.       *)
LEMMA ScriptStarts ==
  ASSUME BuildInv, NEW d \in Dirs, NEW commit, StartBuild(d, commit),
         UNCHANGED <<tree, dir, check, since>>,
         since.quiet[d] => QuietFiles(tree, dir[d], build[d]),
         d = "candidate" => CandidateBuilds(dir[d], build[d], since.quiet[d])
                            /\ commit = check.commit
  PROVE  BuildInv'
<1> DEFINE version == VersionOf[tree.source]
           lock == tree.lock
           none == NoBuild.digests
           next == Locals("export", commit, version, lock, {}, none)
<1>1. Shape /\ IsDir(dir[d]) /\ since \in SinceType /\ lock \in Locks
  BY ShapeFacts, TreeType DEF BuildInv
<1>2. Building(d, next)
  <2>1. /\ Building(d, [NoBuild EXCEPT !.pc = "export", !.commit = commit,
                          !.version = version, !.lock = lock])
        /\ NoBuild = [pc |-> "idle", commit |-> Absent, version |-> 0, lock |-> Absent,
                      todo |-> {}, digests |-> none]
    BY DEF StartBuild, NoBuild
  <2> HIDE DEF version, lock, none, next
  <2>2. [NoBuild EXCEPT !.pc = "export", !.commit = commit, !.version = version,
           !.lock = lock] = next
    <3> DEFINE new == [NoBuild EXCEPT !.pc = "export", !.commit = commit,
                         !.version = version, !.lock = lock]
    <3>1. new \in [pc : {"export"}, commit : {commit}, version : {version}, lock : {lock},
                   todo : {{}}, digests : {none}]
      BY <2>1
    <3> HIDE DEF new
    <3>2. new = next
      BY <3>1 DEF Locals, next
    <3> QED
      BY <3>2 DEF new
  <2> QED
    BY <2>1, <2>2
<1>3. /\ IsBuild(next) /\ next.pc = "export" /\ next.commit = commit
      /\ next.version = version /\ next.lock = lock
  <2> HIDE DEF version, lock
  <2> QED
    BY <1>1, LocalsAre
<1> HIDE DEF next
<1>4. OnlyAt(d) /\ dir'[d] = dir[d] /\ build'[d] = next
  BY <1>1, <1>2, ChangesOnlyAt
<1>5. since'.quiet[d] => QuietFiles(tree, dir'[d], build'[d])
  BY <1>3, <1>4 DEF QuietFiles
<1>6. d = "candidate" => CandidateBuilds(dir'[d], build'[d], since'.quiet[d])
  BY <1>3, <1>4 DEF CandidateBuilds
<1>7. IsDir(dir'[d]) /\ IsBuild(build'[d]) /\ since' \in SinceType
  BY <1>1, <1>3, <1>4
<1> QED
  BY <1>4, <1>5, <1>6, <1>7, ScriptMoves

LEMMA RunScriptKeeps ==
  ASSUME BuildInv, NEW commit, RunScript(commit)
  PROVE  BuildInv'
<1>1. "reference" \in Dirs /\ "reference" # "candidate"
  BY DEF Dirs
<1>2. since.quiet["reference"] => QuietFiles(tree, dir["reference"], build["reference"])
  BY <1>1 DEF BuildInv, QuietScript, InUse
<1> QED
  BY <1>1, <1>2, ScriptStarts DEF RunScript

LEMMA RunScriptAgainKeeps ==
  ASSUME BuildInv, RunScriptAgain
  PROVE  BuildInv'
<1> DEFINE d == "candidate"
<1>1. d \in Dirs /\ check.pc = "rebuild" /\ build[d].pc = "idle"
      /\ UNCHANGED <<tree, dir, check, since>> /\ StartBuild(d, check.commit)
  BY DEF Dirs, RunScriptAgain
<1>2. since.quiet[d] => QuietFiles(tree, dir[d], build[d])
  BY <1>1 DEF BuildInv, QuietScript, InUse, Ended
<1>3. CandidateBuilds(dir[d], build[d], since.quiet[d])
  BY <1>1 DEF BuildInv, CandidateFresh, CandidateBuilds, Ended
<1> HIDE DEF d
<1> QED
  BY <1>1, <1>2, <1>3, ScriptStarts

-----------------------------------------------------------------------------
(* Steps of a check *)

LEMMA NoCheckIs ==
  /\ IsCheck(NoCheck) /\ NoCheck.pc = "idle" /\ NoCheck.mode = "verify"
  /\ NoCheck.at = "reference"
<1> DEFINE no == FALSE
           none == {}
           fields == [pc |-> "idle", mode |-> "verify", pinned |-> no, commit |-> Absent,
                      lock |-> Absent, at |-> "reference", seen |-> Absent,
                      first |-> Absent, todo |-> none, sbom |-> Absent]
<1>1. NoCheck = fields
  BY DEF NoCheck
<1> HIDE DEF no, none
<1>2. DOMAIN fields = CheckFields /\ fields = [f \in DOMAIN fields |-> fields[f]]
  BY DEF CheckFields
<1>3. fields.pc = "idle" /\ fields.mode = "verify" /\ fields.at = "reference"
  OBVIOUS
<1> HIDE DEF fields
<1>4. fields = [f \in CheckFields |-> fields[f]]
  BY <1>2
<1> QED
  BY <1>1, <1>3, <1>4 DEF IsCheck, Dirs

LEMMA CheckEnds ==
  ASSUME Shape, NEW result, End(result)
  PROVE  /\ IsCheck(check') /\ check'.pc = result /\ check'.at = "reference"
         /\ check'.mode = check.mode /\ check'.commit = check.commit
         /\ OnlyAt("candidate") /\ dir'["candidate"] = Empty /\ build'["candidate"] = NoBuild
         /\ dir'["reference"] = dir["reference"] /\ build'["reference"] = build["reference"]
<1> DEFINE mode == check.mode
           commit == check.commit
           c == NoCheck
           new == [c EXCEPT !.pc = result, !.mode = mode, !.commit = commit]
<1>1. check' = new
  BY DEF End, Checking
<1>2. IsCheck(c) /\ c.at = "reference"
  BY NoCheckIs
<1> HIDE DEF c, mode, commit
<1>3. /\ IsCheck(new) /\ new.pc = result /\ new.at = "reference"
      /\ new.mode = mode /\ new.commit = commit
  BY <1>2 DEF IsCheck, CheckFields
<1>4. OnlyAt("candidate") /\ dir'["candidate"] = Empty /\ build'["candidate"] = NoBuild
  BY ChangesOnlyAt DEF End, Building, Dirs
<1>5. dir'["reference"] = dir["reference"] /\ build'["reference"] = build["reference"]
  BY <1>4 DEF OnlyAt, Dirs
<1> QED
  BY <1>1, <1>3, <1>4, <1>5 DEF mode, commit

LEMMA EmptyIs == IsDir(Empty)
<1>1. Sbom \in Names
  BY DEF Names
<1> QED
  BY <1>1 DEF Empty, IsDir

LEMMA EndKeeps ==
  ASSUME BuildInv, NEW result \in Ended, End(result), UNCHANGED <<tree, since>>
  PROVE  BuildInv'
<1>1. Shape
  BY DEF BuildInv
<1>2. /\ IsCheck(check') /\ check'.pc = result /\ check'.mode = check.mode
      /\ OnlyAt("candidate") /\ dir'["candidate"] = Empty /\ build'["candidate"] = NoBuild
      /\ dir'["reference"] = dir["reference"] /\ build'["reference"] = build["reference"]
  BY <1>1, CheckEnds
<1>3. Shape'
  BY <1>1, <1>2, EmptyIs, BuildShapes DEF Shape, OnlyAt, Dirs
<1>4. (\A d \in Dirs : QuietScript(d))'
  BY <1>2 DEF BuildInv, QuietScript, InUse, Dirs
<1>5. CandidatePhase'
  BY <1>2 DEF BuildInv, CandidatePhase, Ended
<1>6. CandidateFresh'
  BY <1>2 DEF CandidateFresh
<1> QED
  BY <1>3, <1>4, <1>5, <1>6 DEF BuildInv

(* A check that reads and goes on.                                         *)
Reading(pc) ==
  pc \in {"evidence", "inventory", "digests", "wheel", "sbom", "again", "same", "compare"}

LEMMA ContinueKeeps ==
  ASSUME BuildInv, UNCHANGED <<tree, dir, build>>, since' \in SinceType,
         since'.quiet = since.quiet, IsCheck(check'), check'.mode = check.mode,
         check'.commit = check.commit, Reading(check'.pc),
         Reading(check.pc) \/ (check.pc = "rebuild" /\ build["candidate"].pc = "done"),
         check'.pc \in {"same", "compare"} => check.mode = "reproduce"
  PROVE  BuildInv'
<1>1. Shape'
  BY DEF BuildInv, Shape
<1>2. (\A d \in Dirs : QuietScript(d))'
  BY DEF BuildInv, QuietScript, InUse, Reading, Ended
<1>3. CandidatePhase'
  <2>1. check.mode = "reproduce" => build["candidate"].pc = "done"
                                    /\ build["candidate"].commit = check.commit
    BY DEF BuildInv, CandidatePhase, Reading, Ended
  <2>2. check.mode = "verify" => dir["candidate"] = Empty /\ build["candidate"] = NoBuild
    BY DEF BuildInv, CandidatePhase
  <2>3. check.mode \in {"verify", "reproduce"}
    BY DEF BuildInv, CandidatePhase
  <2> QED
    BY <2>1, <2>2, <2>3 DEF CandidatePhase, Reading, Ended
<1>4. CandidateFresh'
  BY DEF BuildInv, CandidateFresh, Reading, Ended
<1> QED
  BY <1>1, <1>2, <1>3, <1>4 DEF BuildInv

(* A check rejects, or goes on and keeps all but some of its locals.       *)
Rejects == End("rejected") /\ UNCHANGED <<tree, since>>

GoesOn(pc, fields) ==
  /\ IsCheck(check') /\ check'.pc = pc /\ UNCHANGED <<tree, dir, build>>
  /\ check'.mode = check.mode /\ check'.commit = check.commit /\ check'.lock = check.lock
  /\ \A f \in CheckFields \ fields : check'[f] = check[f]

LEMMA ReadEvidenceDoes ==
  ASSUME Shape, ReadEvidence
  PROVE  /\ check.pc = "evidence"
         /\ Acceptable(Checked[Evidence]) =>
              GoesOn("inventory", {"pc", "seen"}) /\ check'.seen = Checked[Evidence]
              /\ UNCHANGED since
         /\ ~Acceptable(Checked[Evidence]) => Rejects
<1> DEFINE evidence == Checked[Evidence]
<1>1. IsCheck(check)
  BY DEF Shape
<1>2. CASE Acceptable(evidence)
  <2>1. /\ check' = [check EXCEPT !.pc = "inventory", !.seen = evidence]
        /\ UNCHANGED <<tree, dir, build, since>> /\ check.pc = "evidence"
    BY <1>2 DEF ReadEvidence, Continue, Checking
  <2> HIDE DEF evidence
  <2> QED
    BY <1>1, <1>2, <2>1 DEF GoesOn, IsCheck, CheckFields, evidence
<1>3. CASE ~Acceptable(evidence)
  BY <1>3 DEF ReadEvidence, Rejects, Reject
<1> QED
  BY <1>2, <1>3

LEMMA ReadInventoryDoes ==
  ASSUME Shape, ReadInventory
  PROVE  /\ check.pc = "inventory"
         /\ InventoryMatches =>
              GoesOn("digests", {"pc", "todo"}) /\ check'.todo = DOMAIN check.seen.digests
              /\ UNCHANGED since
         /\ ~InventoryMatches => Rejects
<1> DEFINE todo == DOMAIN check.seen.digests
<1>1. IsCheck(check)
  BY DEF Shape
<1>2. CASE InventoryMatches
  <2>1. /\ check' = [check EXCEPT !.pc = "digests", !.todo = todo]
        /\ UNCHANGED <<tree, dir, build, since>> /\ check.pc = "inventory"
    BY <1>2 DEF ReadInventory, Continue, Checking
  <2> HIDE DEF todo
  <2>2. GoesOn("digests", {"pc", "todo"}) /\ check'.todo = todo
    BY <1>1, <2>1 DEF GoesOn, IsCheck, CheckFields
  <2> QED
    BY <1>2, <2>1, <2>2 DEF todo
<1>3. CASE ~InventoryMatches
  BY <1>3 DEF ReadInventory, Rejects, Reject
<1> QED
  BY <1>2, <1>3

(* The digest of one artifact is compared.                                 *)
LEMMA CheckDigestDoes ==
  ASSUME Shape, CheckDigest
  PROVE  /\ check.pc = "digests"
         /\ \E n \in check.todo :
              /\ Checked[n] = check.seen.digests[n] =>
                   /\ GoesOn(IF check.todo = {n} THEN "wheel" ELSE "digests", {"pc", "todo"})
                   /\ check'.todo = check.todo \ {n} /\ UNCHANGED since
              /\ Checked[n] # check.seen.digests[n] => Rejects
<1>1. IsCheck(check)
  BY DEF Shape
<1>2. PICK n \in check.todo :
        IF Checked[n] = check.seen.digests[n]
        THEN Continue([check EXCEPT !.todo = @ \ {n},
                         !.pc = IF check.todo = {n} THEN "wheel" ELSE "digests"])
        ELSE Reject
  BY DEF CheckDigest
<1> DEFINE todo == check.todo \ {n}
           pc == IF check.todo = {n} THEN "wheel" ELSE "digests"
<1>3. UNCHANGED <<tree, since>> /\ check.pc = "digests"
  BY DEF CheckDigest
<1>4. CASE Checked[n] = check.seen.digests[n]
  <2>1. check' = [check EXCEPT !.todo = todo, !.pc = pc] /\ UNCHANGED <<dir, build>>
    BY <1>2, <1>4 DEF Continue, Checking
  <2> HIDE DEF todo, pc
  <2>2. GoesOn(pc, {"pc", "todo"}) /\ check'.todo = todo
    BY <1>1, <1>3, <2>1 DEF GoesOn, IsCheck, CheckFields
  <2> QED
    BY <1>3, <1>4, <2>2 DEF todo, pc
<1>5. CASE Checked[n] # check.seen.digests[n]
  BY <1>2, <1>3, <1>5 DEF Rejects, Reject
<1> QED
  BY <1>3, <1>4, <1>5

WheelReads ==
  LET wheels == {n \in DOMAIN check.seen.digests : n.kind = "wheel"}
  IN  /\ IsOne(wheels)
      /\ Sbom \in DOMAIN check.seen.digests
      /\ \A n \in wheels : SoundWheel(Checked, n)

LEMMA CheckWheelDoes ==
  ASSUME Shape, CheckWheel
  PROVE  /\ check.pc = "wheel"
         /\ WheelReads => GoesOn("sbom", {"pc"}) /\ UNCHANGED since
         /\ ~WheelReads => Rejects
<1>1. IsCheck(check)
  BY DEF Shape
<1>2. CASE WheelReads
  <2>1. /\ check' = [check EXCEPT !.pc = "sbom"]
        /\ UNCHANGED <<tree, dir, build, since>> /\ check.pc = "wheel"
    BY <1>2 DEF CheckWheel, WheelReads, Continue, Checking
  <2> QED
    BY <1>1, <1>2, <2>1 DEF GoesOn, IsCheck, CheckFields
<1>3. CASE ~WheelReads
  BY <1>3 DEF CheckWheel, WheelReads, Rejects, Reject
<1> QED
  BY <1>2, <1>3

SbomReads ==
  Checked[Sbom] \notin {Absent, Broken} /\ Checked[Sbom].root = check.seen.version

LEMMA NormalizeSbomDoes ==
  ASSUME Shape, NormalizeSbom
  PROVE  /\ check.pc = "sbom"
         /\ SbomReads => GoesOn("again", {"pc", "sbom"}) /\ UNCHANGED since
                         /\ check'.sbom = Normalize(Checked[Sbom], check.seen.lock)
         /\ ~SbomReads => Rejects
<1> DEFINE sbom == Normalize(Checked[Sbom], check.seen.lock)
<1>1. IsCheck(check)
  BY DEF Shape
<1>2. CASE SbomReads
  <2>1. /\ check' = [check EXCEPT !.pc = "again", !.sbom = sbom]
        /\ UNCHANGED <<tree, dir, build, since>> /\ check.pc = "sbom"
    BY <1>2 DEF NormalizeSbom, SbomReads, Continue, Checking
  <2> HIDE DEF sbom
  <2>2. GoesOn("again", {"pc", "sbom"}) /\ check'.sbom = sbom
    BY <1>1, <2>1 DEF GoesOn, IsCheck, CheckFields
  <2> QED
    BY <1>2, <2>1, <2>2 DEF sbom
<1>3. CASE ~SbomReads
  BY <1>3 DEF NormalizeSbom, SbomReads, Rejects, Reject
<1> QED
  BY <1>2, <1>3

LEMMA AcceptDoes ==
  ASSUME Shape, Accept, check.mode \in {"verify", "reproduce"}
  PROVE  /\ check.pc = "again"
         /\ ~SbomIsNormalized => Rejects
         /\ SbomIsNormalized /\ check.mode = "verify" =>
              End("verified") /\ UNCHANGED <<tree, since>>
         /\ SbomIsNormalized /\ check.mode = "reproduce" /\ check.at = "reference" =>
              GoesOn("evidence", {"pc", "at", "first", "sbom"}) /\ UNCHANGED since
              /\ check'.at = "candidate" /\ check'.first = check.seen
         /\ SbomIsNormalized /\ check.mode = "reproduce" /\ check.at # "reference" =>
              GoesOn("same", {"pc", "sbom"}) /\ UNCHANGED since
<1>1. IsCheck(check) /\ check.pc = "again" /\ UNCHANGED <<tree, since>>
  BY DEF Shape, Accept
<1>2. CASE ~SbomIsNormalized
  BY <1>1, <1>2 DEF Accept, Rejects, Reject
<1>3. CASE SbomIsNormalized /\ check.mode = "verify"
  BY <1>1, <1>3 DEF Accept
<1>4. CASE SbomIsNormalized /\ check.mode = "reproduce" /\ check.at = "reference"
  <2>1. /\ check' = [check EXCEPT !.pc = "evidence", !.at = "candidate",
                       !.first = check.seen, !.sbom = Absent]
        /\ UNCHANGED <<dir, build>>
    BY <1>4 DEF Accept, Continue, Checking
  <2>2. GoesOn("evidence", {"pc", "at", "first", "sbom"}) /\ check'.at = "candidate"
        /\ check'.first = check.seen
    BY <1>1, <2>1 DEF GoesOn, IsCheck, CheckFields, Dirs
  <2> QED
    BY <1>1, <1>4, <2>2
<1>5. CASE SbomIsNormalized /\ check.mode = "reproduce" /\ check.at # "reference"
  <2>1. check' = [check EXCEPT !.pc = "same", !.sbom = Absent] /\ UNCHANGED <<dir, build>>
    BY <1>5 DEF Accept, Continue, Checking
  <2>2. GoesOn("same", {"pc", "sbom"})
    BY <1>1, <2>1 DEF GoesOn, IsCheck, CheckFields, Dirs
  <2> QED
    BY <1>1, <1>5, <2>2
<1> QED
  BY <1>1, <1>2, <1>3, <1>4, <1>5

LEMMA ScriptEndsDoes ==
  ASSUME Shape, ScriptEnds
  PROVE  /\ check.pc = "rebuild" /\ UNCHANGED since
         /\ \/ build["candidate"].pc = "done" /\ GoesOn("evidence", {"pc"})
            \/ build["candidate"].pc = "failed" /\ Rejects
<1>1. IsCheck(check) /\ check.pc = "rebuild" /\ UNCHANGED <<tree, since>>
  BY DEF Shape, ScriptEnds
<1>2. CASE build["candidate"].pc = "done" /\ Continue([check EXCEPT !.pc = "evidence"])
  <2>1. check' = [check EXCEPT !.pc = "evidence"] /\ UNCHANGED <<dir, build>>
    BY <1>2 DEF Continue, Checking
  <2>2. GoesOn("evidence", {"pc"})
    BY <1>1, <2>1 DEF GoesOn, IsCheck, CheckFields
  <2> QED
    BY <1>1, <1>2, <2>2
<1>3. CASE build["candidate"].pc = "failed" /\ Reject
  BY <1>1, <1>3 DEF Rejects, Reject
<1> QED
  BY <1>2, <1>3 DEF ScriptEnds

LEMMA CompareEvidenceDoes ==
  ASSUME Shape, CompareEvidence
  PROVE  /\ check.pc = "same"
         /\ check.first # check.seen => Rejects
         /\ check.first = check.seen =>
              /\ GoesOn("compare", {"pc", "todo"})
              /\ check'.todo = DOMAIN check.first.digests \cup {Evidence}
              /\ since' \in SinceType /\ since'.quiet = since.quiet
              /\ since'.still = since.still /\ since'.calm = since.calm
              /\ since'.sound = since.sound
<1> DEFINE todo == DOMAIN check.first.digests \cup {Evidence}
<1>1. IsCheck(check) /\ since \in SinceType /\ check.pc = "same" /\ UNCHANGED tree
  BY DEF Shape, CompareEvidence
<1>2. CASE check.first # check.seen
  BY <1>1, <1>2 DEF CompareEvidence, Rejects, Reject
<1>3. CASE check.first = check.seen
  <2>1. /\ check' = [check EXCEPT !.pc = "compare", !.todo = todo]
        /\ UNCHANGED <<dir, build>> /\ since' = [since EXCEPT !.frozen = TRUE]
    BY <1>3 DEF CompareEvidence, Continue, Checking
  <2> HIDE DEF todo
  <2>2. GoesOn("compare", {"pc", "todo"}) /\ check'.todo = todo
    BY <1>1, <2>1 DEF GoesOn, IsCheck, CheckFields
  <2>3. /\ since' \in SinceType /\ since'.quiet = since.quiet
        /\ since'.still = since.still /\ since'.calm = since.calm
        /\ since'.sound = since.sound
    BY <1>1, <2>1 DEF SinceType
  <2> QED
    BY <1>1, <1>3, <2>2, <2>3 DEF todo
<1> QED
  BY <1>1, <1>2, <1>3

LEMMA CompareFileDoes ==
  ASSUME Shape, CompareFile
  PROVE  /\ check.pc = "compare" /\ UNCHANGED <<tree, since>>
         /\ \E n \in check.todo :
              /\ ~SameFile(n) => Rejects
              /\ SameFile(n) /\ check.todo = {n} => End("reproduced")
              /\ SameFile(n) /\ check.todo # {n} =>
                   GoesOn("compare", {"todo"}) /\ check'.todo = check.todo \ {n}
<1>1. IsCheck(check) /\ check.pc = "compare" /\ UNCHANGED <<tree, since>>
  BY DEF Shape, CompareFile
<1>2. PICK n \in check.todo :
        IF ~SameFile(n) THEN Reject
        ELSE IF check.todo = {n} THEN End("reproduced")
        ELSE Continue([check EXCEPT !.todo = check.todo \ {n}])
  BY DEF CompareFile
<1>3. ASSUME SameFile(n), check.todo # {n}
      PROVE  GoesOn("compare", {"todo"}) /\ check'.todo = check.todo \ {n}
  <2> DEFINE todo == check.todo \ {n}
  <2>1. check' = [check EXCEPT !.todo = todo] /\ UNCHANGED <<dir, build>>
    BY <1>2, <1>3 DEF Continue, Checking
  <2> HIDE DEF todo
  <2>2. GoesOn("compare", {"todo"}) /\ check'.todo = todo
    BY <1>1, <2>1 DEF GoesOn, IsCheck, CheckFields
  <2> QED
    BY <2>2 DEF todo
<1>4. ~SameFile(n) => Rejects
  BY <1>1, <1>2 DEF Rejects, Reject
<1>5. SameFile(n) /\ check.todo = {n} => End("reproduced")
  BY <1>2
<1> QED
  BY <1>1, <1>3, <1>4, <1>5

Reads ==
  ReadEvidence \/ ReadInventory \/ CheckDigest \/ CheckWheel \/ NormalizeSbom \/ Accept
    \/ ScriptEnds \/ CompareEvidence \/ CompareFile

(* Where a reading step leads.                                             *)
Advances ==
  /\ IsCheck(check') /\ UNCHANGED <<tree, dir, build>>
  /\ check'.mode = check.mode /\ check'.commit = check.commit /\ check'.lock = check.lock
  /\ Reading(check'.pc)
  /\ Reading(check.pc) \/ (check.pc = "rebuild" /\ build["candidate"].pc = "done")
  /\ check'.pc \in {"same", "compare"} => check.mode = "reproduce"
  /\ since' \in SinceType /\ since'.quiet = since.quiet /\ since'.still = since.still
  /\ since'.calm = since.calm /\ since'.sound = since.sound

LEMMA GoesOnAdvances ==
  ASSUME Shape, NEW pc, NEW fields, GoesOn(pc, fields), Reading(pc),
         Reading(check.pc) \/ (check.pc = "rebuild" /\ build["candidate"].pc = "done"),
         pc \in {"same", "compare"} => check.mode = "reproduce",
         \/ UNCHANGED since
         \/ /\ since' \in SinceType /\ since'.quiet = since.quiet
            /\ since'.still = since.still /\ since'.calm = since.calm
            /\ since'.sound = since.sound
  PROVE  Advances
<1>1. since \in SinceType
  BY DEF Shape
<1> QED
  BY <1>1 DEF GoesOn, Advances

LEMMA ReadsLead ==
  ASSUME BuildInv, Reads
  PROVE  \/ Advances
         \/ \E result \in Ended : End(result) /\ UNCHANGED <<tree, since>>
<1>0. Shape /\ check.mode \in {"verify", "reproduce"}
      /\ (check.pc \in {"same", "compare"} => check.mode = "reproduce")
  BY DEF BuildInv, CandidatePhase
<1>1. ASSUME Rejects PROVE \E result \in Ended : End(result) /\ UNCHANGED <<tree, since>>
  BY <1>1 DEF Rejects, Ended
<1>2. CASE ReadEvidence
  BY <1>0, <1>1, <1>2, ReadEvidenceDoes, GoesOnAdvances DEF Reading
<1>3. CASE ReadInventory
  BY <1>0, <1>1, <1>3, ReadInventoryDoes, GoesOnAdvances DEF Reading
<1>4. CASE CheckDigest
  <2>1. PICK n \in check.todo :
          /\ Checked[n] = check.seen.digests[n] =>
               /\ GoesOn(IF check.todo = {n} THEN "wheel" ELSE "digests", {"pc", "todo"})
               /\ UNCHANGED since
          /\ Checked[n] # check.seen.digests[n] => Rejects
    BY <1>0, <1>4, CheckDigestDoes
  <2>2. check.pc = "digests"
    BY <1>0, <1>4, CheckDigestDoes
  <2> QED
    BY <1>0, <1>1, <2>1, <2>2, GoesOnAdvances DEF Reading
<1>5. CASE CheckWheel
  BY <1>0, <1>1, <1>5, CheckWheelDoes, GoesOnAdvances DEF Reading
<1>6. CASE NormalizeSbom
  BY <1>0, <1>1, <1>6, NormalizeSbomDoes, GoesOnAdvances DEF Reading
<1>7. CASE Accept
  BY <1>0, <1>1, <1>7, AcceptDoes, GoesOnAdvances DEF Reading, Ended
<1>8. CASE ScriptEnds
  BY <1>0, <1>1, <1>8, ScriptEndsDoes, GoesOnAdvances DEF Reading
<1>9. CASE CompareEvidence
  BY <1>0, <1>1, <1>9, CompareEvidenceDoes, GoesOnAdvances DEF Reading
<1>10. CASE CompareFile
  BY <1>0, <1>1, <1>10, CompareFileDoes, GoesOnAdvances DEF Reading, Ended
<1> QED
  BY <1>2, <1>3, <1>4, <1>5, <1>6, <1>7, <1>8, <1>9, <1>10 DEF Reads

LEMMA ReadsKeep ==
  ASSUME BuildInv, Reads
  PROVE  BuildInv'
BY ReadsLead, EndKeeps, ContinueKeeps DEF Advances

LEMMA RebuildDoes ==
  ASSUME Shape, Rebuild
  PROVE  /\ check.pc = "package" /\ PackageBuild("candidate") /\ UNCHANGED <<tree, build>>
         /\ IsCheck(check') /\ check'.pc = "rebuild"
         /\ \A f \in CheckFields \ {"pc"} : check'[f] = check[f]
         /\ check'.mode = check.mode /\ check'.commit = check.commit
         /\ check'.lock = check.lock /\ check'.at = check.at
<1>1. /\ IsCheck(check) /\ check' = [check EXCEPT !.pc = "rebuild"]
  BY DEF Shape, Rebuild, Checking
<1>2. /\ IsCheck(check') /\ check'.pc = "rebuild"
      /\ \A f \in CheckFields \ {"pc"} : check'[f] = check[f]
      /\ check'.mode = check.mode /\ check'.commit = check.commit
      /\ check'.lock = check.lock /\ check'.at = check.at
  BY <1>1 DEF IsCheck, CheckFields
<1> QED
  BY <1>2 DEF Rebuild

LEMMA RebuildKeeps ==
  ASSUME BuildInv, Rebuild
  PROVE  BuildInv'
<1> DEFINE d == "candidate"
<1>1. /\ Shape /\ d \in Dirs /\ check.pc = "package" /\ PackageBuild(d)
      /\ UNCHANGED <<tree, build>> /\ tree \in Trees
      /\ IsCheck(check') /\ check'.pc = "rebuild" /\ check'.mode = check.mode
  BY RebuildDoes DEF BuildInv, Shape, Dirs
<1>2. /\ check.mode = "reproduce" /\ dir[d] = Empty /\ build[d] = NoBuild
  BY <1>1 DEF BuildInv, CandidatePhase
<1>3. PICK files :
        /\ dir' = [dir EXCEPT ![d] = files] /\ IsDir(files)
        /\ files[Wheel(tree)] = tree.source /\ files[Sdist(tree)] = tree.source
        /\ \A n \in Names \ {Wheel(tree), Sdist(tree)} : files[n] = dir[d][n]
  BY <1>1, PackageBuilt
<1>4. OnlyAt(d) /\ dir'[d] = files /\ build'[d] = NoBuild
  BY <1>1, <1>2, <1>3, ChangesOnlyAt
<1>5. /\ since' \in SinceType /\ \A e \in Dirs \ {d} : since'.quiet[e] = since.quiet[e]
  BY <1>1, PackageSince
<1>6. Shape'
  BY <1>1, <1>3, <1>4, <1>5 DEF Shape, OnlyAt
<1>7. QuietFiles(tree, files, NoBuild)
  BY <1>3, BuildShapes DEF QuietFiles
<1>8. (\A e \in Dirs : QuietScript(e))'
  <2>1. ASSUME NEW e \in Dirs PROVE QuietScript(e)'
    <3>1. CASE e = d
      BY <1>1, <1>4, <1>7, <3>1 DEF QuietScript
    <3>2. CASE e # d
      BY <1>1, <1>4, <1>5, <3>2 DEF BuildInv, QuietScript, InUse, OnlyAt
    <3> QED
      BY <3>1, <3>2
  <2> QED
    BY <2>1
<1>9. CandidatePhase'
  BY <1>1, <1>2, <1>4, BuildShapes DEF CandidatePhase, Ended
<1>10. CandidateFresh'
  <2>1. \A n \in Names : dir[d][n] = Absent
    BY <1>2 DEF Empty
  <2>2. OnlyBuilt(tree, files)
    BY <1>3, <2>1 DEF OnlyBuilt
  <2> QED
    BY <1>1, <1>4, <2>2, BuildShapes DEF CandidateFresh
<1> QED
  BY <1>6, <1>8, <1>9, <1>10 DEF BuildInv

(* A check begins.                                                         *)
LEMMA StartCheckDoes ==
  ASSUME Shape, NEW mode \in {"verify", "reproduce"}, NEW pinned, StartCheck(mode, pinned)
  PROVE  /\ check.pc \in {"idle"} \cup Ended /\ UNCHANGED <<tree, dir, build>>
         /\ IsCheck(check') /\ check'.mode = mode /\ check'.at = "reference"
         /\ check'.pc = IF mode = "verify" THEN "evidence" ELSE "package"
         /\ check'.commit = tree.source /\ check'.lock = tree.lock
         /\ since' \in SinceType /\ ~since'.quiet["candidate"]
         /\ since'.quiet["reference"] = since.quiet["reference"]
         /\ since'.sound => dir["reference"] = Pristine(tree, tree.source)
<1> DEFINE c == NoCheck
           pc == IF mode = "verify" THEN "evidence" ELSE "package"
           commit == tree.source
           lock == tree.lock
           sound == dir["reference"] = Pristine(tree, tree.source)
           quiet == [since.quiet EXCEPT !["candidate"] = FALSE]
<1>1. /\ check.pc \in {"idle"} \cup Ended /\ UNCHANGED <<tree, dir, build>>
      /\ check' = [c EXCEPT !.pc = pc, !.mode = mode, !.pinned = pinned, !.commit = commit,
                     !.lock = lock]
  BY DEF StartCheck, Checking
<1>2. since' = [since EXCEPT !.quiet = quiet, !.still = TRUE, !.calm = TRUE,
                  !.frozen = FALSE, !.sound = sound]
  BY DEF StartCheck
<1>3. since \in SinceType /\ IsCheck(c) /\ c.at = "reference"
  BY NoCheckIs DEF Shape
<1>4. /\ quiet \in [Dirs -> BOOLEAN] /\ ~quiet["candidate"]
      /\ quiet["reference"] = since.quiet["reference"]
  BY <1>3 DEF SinceType, Dirs
<1>5. sound \in BOOLEAN
  OBVIOUS
<1> HIDE DEF c, pc, commit, lock, quiet
<1>6. /\ IsCheck(check') /\ check'.mode = mode /\ check'.at = "reference"
      /\ check'.pc = pc /\ check'.commit = commit /\ check'.lock = lock
  BY <1>1, <1>3 DEF IsCheck, CheckFields
<1>7. since' \in SinceType /\ since'.quiet = quiet /\ (since'.sound => sound)
  <2> HIDE DEF sound
  <2>1. since' \in SinceType /\ since'.quiet = quiet
    BY <1>2, <1>3, <1>4, <1>5 DEF SinceType
  <2>2. since'.sound = sound
    BY <1>2, <1>3 DEF SinceType
  <2> QED
    BY <2>1, <2>2
<1> QED
  BY <1>1, <1>4, <1>6, <1>7 DEF pc, commit, lock

LEMMA StartCheckKeeps ==
  ASSUME BuildInv, NEW mode \in {"verify", "reproduce"}, NEW pinned, StartCheck(mode, pinned)
  PROVE  BuildInv'
<1>1. /\ Shape /\ check.pc \in {"idle"} \cup Ended /\ UNCHANGED <<tree, dir, build>>
      /\ IsCheck(check') /\ check'.mode = mode
      /\ check'.pc = IF mode = "verify" THEN "evidence" ELSE "package"
      /\ since' \in SinceType /\ ~since'.quiet["candidate"]
      /\ since'.quiet["reference"] = since.quiet["reference"]
  BY StartCheckDoes DEF BuildInv
<1>2. Shape'
  BY <1>1 DEF Shape
<1>3. (\A d \in Dirs : QuietScript(d))'
  BY <1>1 DEF BuildInv, QuietScript, InUse, Dirs
<1>4. CandidatePhase'
  BY <1>1 DEF BuildInv, CandidatePhase, Ended
<1>5. CandidateFresh'
  BY <1>1 DEF CandidateFresh
<1> QED
  BY <1>2, <1>3, <1>4, <1>5 DEF BuildInv

LEMMA ChangeTreeDoes ==
  ASSUME Shape, ChangeTree
  PROVE  /\ tree' \in Trees /\ UNCHANGED <<dir, build, check>>
         /\ since' \in SinceType /\ ~since'.still
         /\ \A d \in Dirs : ~since'.quiet[d]
         /\ since'.calm = since.calm /\ since'.frozen = since.frozen
         /\ since'.sound = since.sound
<1> DEFINE quiet == [d \in Dirs |-> FALSE]
<1>1. /\ tree' \in Trees /\ UNCHANGED <<dir, build, check>>
      /\ since' = [since EXCEPT !.quiet = quiet, !.still = FALSE]
  BY DEF ChangeTree
<1>2. since \in SinceType /\ quiet \in [Dirs -> BOOLEAN] /\ \A d \in Dirs : ~quiet[d]
  BY DEF Shape
<1> HIDE DEF quiet
<1>3. /\ since' \in SinceType /\ ~since'.still /\ since'.quiet = quiet
      /\ since'.calm = since.calm /\ since'.frozen = since.frozen
      /\ since'.sound = since.sound
  BY <1>1, <1>2 DEF SinceType
<1> QED
  BY <1>1, <1>2, <1>3

LEMMA ChangeTreeKeeps ==
  ASSUME BuildInv, ChangeTree
  PROVE  BuildInv'
<1>1. /\ Shape /\ tree' \in Trees /\ UNCHANGED <<dir, build, check>> /\ since' \in SinceType
      /\ \A d \in Dirs : ~since'.quiet[d]
  BY ChangeTreeDoes DEF BuildInv
<1>2. Shape'
  BY <1>1 DEF Shape
<1>3. (\A d \in Dirs : QuietScript(d))'
  BY <1>1 DEF QuietScript
<1>4. CandidatePhase' /\ CandidateFresh'
  BY <1>1 DEF BuildInv, CandidatePhase, CandidateFresh, Dirs
<1> QED
  BY <1>2, <1>3, <1>4 DEF BuildInv

LEMMA ReplacementIs ==
  ASSUME NEW content \in Replacements(Sbom)
  PROVE  content \in SbomFile \cup {Absent, Broken}
<1>1. ASSUME NEW t \in Trees, NEW c \in Sources PROVE Pristine(t, c)[Sbom] \in SbomFile
  <2>1. Sbom \in DOMAIN Artifacts(t) /\ Artifacts(t)[Sbom] \in SbomFile
    BY ArtifactsAre
  <2> QED
    BY <2>1, PristineIs
<1>2. ASSUME NEW t \in Trees PROVE RawSbom(t) \in SbomFile
  BY RawSbomIs
<1> QED
  BY <1>1, <1>2 DEF Replacements

LEMMA ChangeFileDoes ==
  ASSUME Shape, ChangeFile
  PROVE  /\ UNCHANGED <<tree, build, check>> /\ OnlyAt("reference")
         /\ IsDir(dir'["reference"]) /\ dir'["candidate"] = dir["candidate"]
         /\ since' \in SinceType /\ ~since'.quiet["reference"]
         /\ since'.quiet["candidate"] = since.quiet["candidate"]
         /\ ~since'.calm /\ ~since'.frozen
         /\ since'.still = since.still /\ since'.sound = since.sound
<1> DEFINE d == "reference"
           quiet == [since.quiet EXCEPT ![d] = FALSE]
<1>1. /\ d \in Dirs /\ IsDir(dir[d]) /\ since \in SinceType
      /\ dir = [e \in Dirs |-> dir[e]]
  BY DEF Shape, Dirs
<1>2. PICK n \in Names : \E content \in Replacements(n) :
        dir' = [dir EXCEPT ![d][n] = content]
  BY DEF ChangeFile
<1>3. /\ UNCHANGED <<tree, build, check>>
      /\ since' = [since EXCEPT !.quiet = quiet, !.calm = FALSE, !.frozen = FALSE]
  BY DEF ChangeFile
<1>4. /\ quiet \in [Dirs -> BOOLEAN] /\ ~quiet[d]
      /\ quiet["candidate"] = since.quiet["candidate"]
  BY <1>1 DEF SinceType, Dirs
<1> HIDE DEF quiet
<1>5. /\ since' \in SinceType /\ since'.quiet = quiet /\ ~since'.calm /\ ~since'.frozen
      /\ since'.still = since.still /\ since'.sound = since.sound
  BY <1>1, <1>3, <1>4 DEF SinceType
<1>a. PICK content \in Replacements(n) : dir' = [dir EXCEPT ![d][n] = content]
  BY <1>2
<1> DEFINE files == [dir[d] EXCEPT ![n] = content]
<1>6. n = Sbom => content \in SbomFile \cup {Absent, Broken}
  BY ReplacementIs
<1>7. IsDir(files)
  BY <1>1, <1>6, FileWritten
<1>8. dir' = [dir EXCEPT ![d] = files]
  BY <1>a
<1> HIDE DEF files
<1>9. OnlyAt(d) /\ dir'[d] = files
  BY <1>1, <1>3, <1>8, ChangesOnlyAt
<1>10. dir'["candidate"] = dir["candidate"]
  BY <1>9 DEF OnlyAt, Dirs
<1> QED
  BY <1>3, <1>4, <1>5, <1>7, <1>9, <1>10

LEMMA ChangeFileKeeps ==
  ASSUME BuildInv, ChangeFile
  PROVE  BuildInv'
<1> DEFINE d == "reference"
<1>1. /\ Shape /\ UNCHANGED <<tree, build, check>> /\ OnlyAt(d) /\ IsDir(dir'[d])
      /\ since' \in SinceType /\ ~since'.quiet[d]
      /\ since'.quiet["candidate"] = since.quiet["candidate"]
  BY ChangeFileDoes DEF BuildInv
<1>2. d \in Dirs /\ IsBuild(build'[d]) /\ d # "candidate" /\ Dirs \ {d} = {"candidate"}
  BY <1>1 DEF Shape, Dirs
<1> QED
  BY <1>1, <1>2, ScriptMoves

LEMMA BuildInit ==
  ASSUME Init
  PROVE  BuildInv
<1>1. PICK files \in {Empty} \cup {Pristine(t, t.source) : t \in Trees} :
        dir = [d \in Dirs |-> IF d = "reference" THEN files ELSE Empty]
  BY DEF Init
<1>2. IsDir(files) /\ IsDir(Empty)
  BY EmptyIs, PristineIs, TreeType
<1>3. /\ tree \in Trees /\ build = [d \in Dirs |-> NoBuild] /\ check = NoCheck
  BY DEF Init
<1>4. since \in SinceType /\ \A d \in Dirs : ~since.quiet[d]
  BY DEF Init, SinceType
<1>5. Shape
  BY <1>1, <1>2, <1>3, <1>4, BuildShapes, NoCheckIs DEF Shape
<1>6. \A d \in Dirs : QuietScript(d)
  BY <1>4 DEF QuietScript
<1>7. CandidatePhase
  BY <1>1, <1>3, NoCheckIs DEF CandidatePhase, Dirs, Ended
<1>8. CandidateFresh
  BY <1>4 DEF CandidateFresh, Dirs
<1> QED
  BY <1>5, <1>6, <1>7, <1>8 DEF BuildInv

LEMMA BuildStepKeeps ==
  ASSUME BuildInv, NEW d \in Dirs, BuildStep(d)
  PROVE  BuildInv'
BY ExportKeeps, PickKeeps, HashKeeps, WriteEvidenceKeeps, CrashKeeps DEF BuildStep

LEMMA StepKeepsBuilds ==
  ASSUME BuildInv, [Next]_vars
  PROVE  BuildInv'
<1>1. CASE ChangeTree \/ ChangeFile \/ BuildPackage \/ Rebuild \/ RunScriptAgain
  BY <1>1, ChangeTreeKeeps, ChangeFileKeeps, BuildPackageKeeps, RebuildKeeps,
     RunScriptAgainKeeps
<1>2. CASE \E commit \in Sources : RunScript(commit)
  BY <1>2, RunScriptKeeps
<1>3. CASE \E d \in Dirs : BuildStep(d)
  BY <1>3, BuildStepKeeps
<1>4. CASE \E mode \in {"verify", "reproduce"}, pinned \in BOOLEAN : StartCheck(mode, pinned)
  BY <1>4, StartCheckKeeps
<1>5. CASE Reads
  BY <1>5, ReadsKeep
<1>6. CASE UNCHANGED vars
  BY <1>6 DEF vars, BuildInv, Shape, QuietScript, InUse, CandidatePhase, CandidateFresh
<1> QED
  BY <1>1, <1>2, <1>3, <1>4, <1>5, <1>6 DEF Next, Reads

(* A build that nothing has interfered with since its package build leaves *)
(* the files of its tree, for all sources, locks and versions.             *)
THEOREM QuietBuildsArePristine == Spec => []QuietBuildIsPristine
<1>1. BuildInv => QuietBuildIsPristine
  <2> SUFFICES ASSUME BuildInv, NEW d \in Dirs, build[d].pc = "done", since.quiet[d],
                      NEW n \in Names \ {Stray}
               PROVE  dir[d][n] = Pristine(tree, build[d].commit)[n]
    BY DEF QuietBuildIsPristine
  <2> DEFINE commit == build[d].commit
             files == dir[d]
             b == build[d]
             w == Wheel(tree)
             s == Sdist(tree)
  <2>1. tree \in Trees /\ InUse(d)
    BY BuildShapes DEF BuildInv, Shape, CandidatePhase, InUse
  <2>2. QuietFiles(tree, files, b)
    BY <2>1 DEF BuildInv, QuietScript
  <2>3. /\ \A m \in DOMAIN Artifacts(tree) : files[m] = Artifacts(tree)[m]
        /\ files[Evidence] = EvidenceOf(tree, commit)
        /\ OfKind(files, "wheel") = {w} /\ OfKind(files, "sdist") = {s}
    BY <2>1, <2>2, QuietArtifacts DEF QuietFiles
  <2>4. DOMAIN Artifacts(tree) = {w, s, Sbom}
    BY <2>1, ArtifactsAre DEF Wheel, Sdist
  <2> HIDE DEF w, s
  <2>5. n \notin {w, s, Sbom, Evidence} => files[n] = Absent
    <3>1. n \in {Sbom, Evidence} \/ n.kind \in {"wheel", "sdist"}
      BY DEF Names, Name
    <3> QED
      BY <2>3, <3>1 DEF OfKind, Present
  <2> HIDE DEF files, commit
  <2>6. Pristine(tree, commit)[n] =
          IF n = Evidence THEN EvidenceOf(tree, commit)
          ELSE IF n \in DOMAIN Artifacts(tree) THEN Artifacts(tree)[n] ELSE Absent
    BY DEF Pristine
  <2>7. files[n] = Pristine(tree, commit)[n]
    BY <2>3, <2>4, <2>5, <2>6
  <2> QED
    BY <2>7 DEF files, commit
<1> QED
  BY <1>1, BuildInit, StepKeepsBuilds, PTL DEF Spec

-----------------------------------------------------------------------------
(* What a check may rely on while others work: what has stayed as it is is *)
(* flagged, and the temporary directory is its own.                        *)

Frame ==
  /\ UNCHANGED check
  /\ since'.calm => since.calm /\ dir'["reference"] = dir["reference"]
  /\ since'.frozen => since.frozen /\ dir'["reference"] = dir["reference"]
  /\ since'.still => since.still /\ UNCHANGED tree
  /\ since'.sound => since.sound
  /\ check.pc # "rebuild" => dir'["candidate"] = dir["candidate"]
                             /\ build'["candidate"] = build["candidate"]
  /\ since'.quiet["candidate"] => since.quiet["candidate"]
  /\ since'.still =>
       \/ since'.quiet["candidate"] = since.quiet["candidate"]
       \/ build'["candidate"].pc = "failed"
  /\ build["candidate"].pc = "failed" => build'["candidate"].pc = "failed"

LEMMA OnlyReference ==
  ASSUME OnlyAt("reference")
  PROVE  dir'["candidate"] = dir["candidate"] /\ build'["candidate"] = build["candidate"]
BY DEF OnlyAt, Dirs

LEMMA OnlyCandidate ==
  ASSUME OnlyAt("candidate")
  PROVE  dir'["reference"] = dir["reference"]
BY DEF OnlyAt, Dirs

(* A script of either directory, which runs only where it may.             *)
LEMMA ScriptFrame ==
  ASSUME Shape, NEW d \in Dirs, OnlyAt(d), UNCHANGED <<tree, check>>,
         d = "candidate" => check.pc = "rebuild" /\ build[d].pc # "failed",
         since'.still = since.still, since'.sound = since.sound,
         \/ UNCHANGED <<dir, since>>
         \/ /\ since'.quiet["candidate"] => since.quiet["candidate"]
            /\ \/ since'.quiet["candidate"] = since.quiet["candidate"]
               \/ build'["candidate"].pc = "failed"
            /\ since'.calm => since.calm /\ d = "candidate"
            /\ since'.frozen => since.frozen /\ d = "candidate"
  PROVE  Frame
<1>1. CASE d = "reference"
  BY <1>1, OnlyReference DEF Frame
<1>2. CASE d = "candidate"
  BY <1>2, OnlyCandidate DEF Frame
<1> QED
  BY <1>1, <1>2 DEF Dirs

LEMMA BuildStepFrame ==
  ASSUME BuildInv, NEW d \in Dirs, BuildStep(d)
  PROVE  Frame
<1>1. Shape /\ UNCHANGED <<tree, check>>
  BY DEF BuildInv, BuildStep, Export, Pick, Hash, WriteEvidence, Crash
<1>2. d = "candidate" => check.pc = "rebuild" /\ build[d].pc # "failed"
  <2>1. build[d].pc \notin {"idle", "done", "failed"}
    BY DEF BuildStep, Export, Pick, Hash, WriteEvidence, Crash, Rested
  <2> QED
    BY <2>1, RunningScript
<1>3. CASE Export(d) \/ WriteEvidence(d) \/ Pick(d) \/ Hash(d)
  <2>1. \E files, b : Building(d, b)
          /\ ((UNCHANGED <<dir, since>> /\ files = dir[d]) \/ Write(d, files))
    BY <1>3 DEF Export, WriteEvidence, Pick, Hash
  <2>2. PICK files, b : Building(d, b)
          /\ ((UNCHANGED <<dir, since>> /\ files = dir[d]) \/ Write(d, files))
    BY <2>1
  <2>3. \/ UNCHANGED <<dir, since>>
        \/ /\ dir' = [dir EXCEPT ![d] = files] /\ since'.quiet = since.quiet
           /\ since'.still = since.still /\ since'.sound = since.sound
           /\ since'.calm => since.calm /\ d = "candidate"
           /\ since'.frozen => since.frozen /\ d = "candidate"
    BY <1>1, <2>2, WriteSince DEF Dirs
  <2>4. OnlyAt(d)
    BY <1>1, <2>2, <2>3, ChangesOnlyAt
  <2> QED
    BY <1>1, <1>2, <2>3, <2>4, ScriptFrame
<1>4. CASE Crash(d)
  <2>1. OnlyAt(d) /\ build'[d] = Failed
    BY <1>1, <1>4, CrashDoes
  <2>2. /\ since'.still = since.still /\ since'.sound = since.sound
        /\ since'.calm => since.calm /\ d = "candidate"
        /\ since'.frozen => since.frozen /\ d = "candidate"
        /\ ~since'.quiet[d] /\ \A e \in Dirs \ {d} : since'.quiet[e] = since.quiet[e]
    BY <1>1, <1>4, CrashDoes
  <2>3. /\ since'.quiet["candidate"] => since.quiet["candidate"]
        /\ \/ since'.quiet["candidate"] = since.quiet["candidate"]
           \/ build'["candidate"].pc = "failed"
    BY <2>1, <2>2, BuildShapes DEF Dirs
  <2> QED
    BY <1>1, <1>2, <2>1, <2>2, <2>3, ScriptFrame
<1> QED
  BY <1>3, <1>4 DEF BuildStep

Others ==
  ChangeTree \/ ChangeFile \/ BuildPackage \/ (\E commit \in Sources : RunScript(commit))
    \/ (\E d \in Dirs : BuildStep(d)) \/ RunScriptAgain \/ UNCHANGED vars

LEMMA OthersFrame ==
  ASSUME BuildInv, Others
  PROVE  Frame
<1>0. Shape
  BY DEF BuildInv
<1>1. CASE ChangeTree
  BY <1>0, <1>1, ChangeTreeDoes DEF Frame, Dirs
<1>2. CASE ChangeFile
  BY <1>0, <1>2, ChangeFileDoes DEF Frame
<1>3. CASE BuildPackage
  <2>1. /\ PackageBuild("reference") /\ Building("reference", NoBuild)
        /\ UNCHANGED <<tree, check>> /\ "reference" \in Dirs
    BY <1>3 DEF BuildPackage, Dirs
  <2>2. OnlyAt("reference")
    BY <1>0, <2>1, PackageBuilt, ChangesOnlyAt
  <2>3. /\ since'.still = since.still /\ since'.sound = since.sound
        /\ since'.quiet["candidate"] = since.quiet["candidate"]
        /\ ~since'.calm /\ ~since'.frozen
    BY <1>0, <2>1, PackageSince DEF Dirs
  <2> QED
    BY <2>1, <2>2, <2>3, OnlyReference DEF Frame
<1>4. CASE \E commit \in Sources : RunScript(commit)
  <2>1. PICK commit \in Sources : StartBuild("reference", commit)
          /\ UNCHANGED <<tree, dir, check, since>>
    BY <1>4 DEF RunScript
  <2>2. OnlyAt("reference")
    BY <1>0, <2>1, ChangesOnlyAt DEF StartBuild, Dirs
  <2> QED
    BY <2>1, <2>2, OnlyReference DEF Frame
<1>5. CASE \E d \in Dirs : BuildStep(d)
  BY <1>5, BuildStepFrame
<1>6. CASE RunScriptAgain
  BY <1>6 DEF RunScriptAgain, Frame
<1>7. CASE UNCHANGED vars
  BY <1>7 DEF vars, Frame
<1> QED
  BY <1>1, <1>2, <1>3, <1>4, <1>5, <1>6, <1>7 DEF Others

-----------------------------------------------------------------------------
(* What a check has read                                                   *)

LEMMA FrameReads ==
  ASSUME BuildInv, CheckReads, Frame
  PROVE  CheckReads'
<1>1. /\ UNCHANGED check /\ check.at \in {"reference", "candidate"}
      /\ check.at = "candidate" => check.pc # "rebuild"
  BY DEF Frame, BuildInv, Shape, IsCheck, Dirs, CheckReads, Where
<1>2. Steady' => Steady /\ Checked' = Checked
  BY <1>1 DEF Frame, Steady, Checked
<1>3. Where' /\ SeenIsOnDisk' /\ Listed'
  BY <1>1, <1>2 DEF CheckReads, Where, SeenIsOnDisk, Listed, InventoryMatches
<1>4. DigestsMatch' /\ SbomIsBound'
  BY <1>1, <1>2 DEF CheckReads, DigestsMatch, Matching, SbomIsBound
<1>5. Compared'
  BY <1>1 DEF CheckReads, Compared, Frame
<1> QED
  BY <1>3, <1>4, <1>5 DEF CheckReads

(* A check that has not read anything of the directory it is at.           *)
LEMMA NothingRead ==
  ASSUME check.at = "reference" \/ (check.mode = "reproduce" /\ check.pc = "evidence"),
         check.pc \in {"idle", "package", "rebuild", "evidence"} \cup Ended
  PROVE  CheckReads
<1>1. Where
  BY DEF Where, Ended
<1>2. SeenIsOnDisk /\ Listed /\ DigestsMatch
  BY DEF SeenIsOnDisk, Listed, DigestsMatch, Ended
<1>3. SbomIsBound /\ Compared
  BY DEF SbomIsBound, Compared, Ended
<1> QED
  BY <1>1, <1>2, <1>3 DEF CheckReads

LEMMA NothingReadNow ==
  ASSUME check'.at = "reference" \/ (check'.mode = "reproduce" /\ check'.pc = "evidence"),
         check'.pc \in {"idle", "package", "rebuild", "evidence"} \cup Ended
  PROVE  CheckReads'
<1>1. Where'
  BY DEF Where, Ended
<1>2. SeenIsOnDisk' /\ Listed' /\ DigestsMatch'
  BY DEF SeenIsOnDisk, Listed, DigestsMatch, Ended
<1>3. SbomIsBound' /\ Compared'
  BY DEF SbomIsBound, Compared, Ended
<1> QED
  BY <1>1, <1>2, <1>3 DEF CheckReads

LEMMA EndReads ==
  ASSUME Shape, NEW result \in Ended, End(result)
  PROVE  CheckReads'
BY CheckEnds, NothingReadNow

LEMMA RejectReads ==
  ASSUME Shape, Rejects
  PROVE  CheckReads'
BY EndReads DEF Rejects, Ended

LEMMA StartReads ==
  ASSUME Shape, NEW mode \in {"verify", "reproduce"}, NEW pinned, StartCheck(mode, pinned)
  PROVE  CheckReads'
<1>1. check'.at = "reference" /\ check'.pc \in {"evidence", "package"}
  BY StartCheckDoes
<1> QED
  BY <1>1, NothingReadNow

LEMMA RebuildReads ==
  ASSUME Shape, CheckReads, Rebuild
  PROVE  CheckReads'
<1>1. check'.at = "reference" /\ check'.pc = "rebuild"
  BY RebuildDoes DEF CheckReads, Where
<1> QED
  BY <1>1, NothingReadNow

LEMMA ScriptEndsReads ==
  ASSUME Shape, CheckReads, ScriptEnds
  PROVE  CheckReads'
<1>1. CASE GoesOn("evidence", {"pc"})
  <2>1. check.pc = "rebuild" /\ check'.pc = "evidence" /\ check'.at = check.at
    BY <1>1, ScriptEndsDoes DEF GoesOn, CheckFields
  <2>2. check.at = "reference"
    BY <2>1 DEF CheckReads, Where
  <2> QED
    BY <2>1, <2>2, NothingReadNow
<1>2. CASE Rejects
  BY <1>2, RejectReads
<1> QED
  BY <1>1, <1>2, ScriptEndsDoes

(* The check goes on in the same directory.                                *)
LEMMA SamePlace ==
  ASSUME CheckReads, NEW pc, NEW fields, GoesOn(pc, fields),
         fields \cap {"at"} = {}, Reading(pc), Reading(check.pc), since'.calm = since.calm,
         pc \in {"same", "compare"} => check.at = "candidate"
  PROVE  /\ check'.at = check.at /\ Steady' = Steady /\ Checked' = Checked
         /\ Where'
<1>1. check'.at = check.at /\ check'.mode = check.mode /\ check'.pc = pc
  BY DEF GoesOn, CheckFields
<1>2. Steady' = Steady /\ Checked' = Checked
  BY <1>1 DEF Steady, Checked, GoesOn
<1>3. Where'
  BY <1>1 DEF CheckReads, Where, Reading, Ended
<1> QED
  BY <1>1, <1>2, <1>3

LEMMA ReadEvidenceReads ==
  ASSUME Shape, CheckReads, ReadEvidence
  PROVE  CheckReads'
<1>1. CASE ~Acceptable(Checked[Evidence])
  BY <1>1, ReadEvidenceDoes, RejectReads
<1>2. CASE Acceptable(Checked[Evidence])
  <2>1. /\ GoesOn("inventory", {"pc", "seen"}) /\ check'.seen = Checked[Evidence]
        /\ UNCHANGED since /\ check.pc = "evidence" /\ check'.pc = "inventory"
    BY <1>2, ReadEvidenceDoes DEF GoesOn
  <2>2. Checked' = Checked /\ Where'
    BY <2>1, SamePlace DEF Reading
  <2>3. SeenIsOnDisk' /\ Listed' /\ DigestsMatch' /\ SbomIsBound' /\ Compared'
    BY <2>1, <2>2 DEF SeenIsOnDisk, Listed, DigestsMatch, SbomIsBound, Compared
  <2> QED
    BY <2>2, <2>3 DEF CheckReads
<1> QED
  BY <1>1, <1>2

LEMMA ReadInventoryReads ==
  ASSUME Shape, CheckReads, ReadInventory
  PROVE  CheckReads'
<1>1. CASE ~InventoryMatches
  BY <1>1, ReadInventoryDoes, RejectReads
<1>2. CASE InventoryMatches
  <2>1. /\ GoesOn("digests", {"pc", "todo"}) /\ check'.todo = DOMAIN check.seen.digests
        /\ UNCHANGED since /\ check.pc = "inventory" /\ check'.pc = "digests"
        /\ check'.seen = check.seen
    BY <1>2, ReadInventoryDoes DEF GoesOn, CheckFields
  <2>2. Steady' = Steady /\ Checked' = Checked /\ Where'
    BY <2>1, SamePlace DEF Reading
  <2>3. SeenIsOnDisk' /\ Listed'
    BY <1>2, <2>1, <2>2 DEF CheckReads, SeenIsOnDisk, Listed, InventoryMatches
  <2>4. DigestsMatch'
    BY <2>1, <2>2 DEF DigestsMatch, Matching
  <2>5. SbomIsBound' /\ Compared'
    BY <2>1 DEF SbomIsBound, Compared
  <2> QED
    BY <2>2, <2>3, <2>4, <2>5 DEF CheckReads
<1> QED
  BY <1>1, <1>2

LEMMA CheckDigestReads ==
  ASSUME Shape, CheckReads, CheckDigest
  PROVE  CheckReads'
<1>1. PICK n \in check.todo :
        /\ Checked[n] = check.seen.digests[n] =>
             /\ GoesOn(IF check.todo = {n} THEN "wheel" ELSE "digests", {"pc", "todo"})
             /\ check'.todo = check.todo \ {n} /\ UNCHANGED since
        /\ Checked[n] # check.seen.digests[n] => Rejects
  BY CheckDigestDoes
<1>2. check.pc = "digests"
  BY CheckDigestDoes
<1>3. CASE Checked[n] # check.seen.digests[n]
  BY <1>1, <1>3, RejectReads
<1>4. CASE Checked[n] = check.seen.digests[n]
  <2> DEFINE pc == IF check.todo = {n} THEN "wheel" ELSE "digests"
  <2>1. /\ pc \in {"wheel", "digests"} /\ (pc = "wheel" => check.todo \ {n} = {})
    OBVIOUS
  <2>2. GoesOn(pc, {"pc", "todo"}) /\ check'.todo = check.todo \ {n} /\ UNCHANGED since
    BY <1>1, <1>4
  <2> HIDE DEF pc
  <2>3. check'.pc = pc /\ check'.seen = check.seen
    BY <2>2 DEF GoesOn, CheckFields
  <2>4. Steady' = Steady /\ Checked' = Checked /\ Where'
    BY <1>2, <2>1, <2>2, SamePlace DEF Reading
  <2>5. SeenIsOnDisk' /\ Listed'
    BY <1>2, <2>1, <2>3, <2>4 DEF CheckReads, SeenIsOnDisk, Listed, InventoryMatches
  <2>6. DigestsMatch'
    BY <1>2, <1>4, <2>1, <2>2, <2>3, <2>4 DEF CheckReads, DigestsMatch, Matching
  <2>7. SbomIsBound' /\ Compared'
    BY <2>1, <2>3 DEF SbomIsBound, Compared
  <2> QED
    BY <2>4, <2>5, <2>6, <2>7 DEF CheckReads
<1> QED
  BY <1>3, <1>4

LEMMA CheckWheelReads ==
  ASSUME Shape, CheckReads, CheckWheel
  PROVE  CheckReads'
<1>1. CASE ~WheelReads
  BY <1>1, CheckWheelDoes, RejectReads
<1>2. CASE WheelReads
  <2>1. /\ GoesOn("sbom", {"pc"}) /\ UNCHANGED since
        /\ check.pc = "wheel" /\ check'.pc = "sbom" /\ check'.seen = check.seen
    BY <1>2, CheckWheelDoes DEF GoesOn, CheckFields
  <2>2. Steady' = Steady /\ Checked' = Checked /\ Where'
    BY <2>1, SamePlace DEF Reading
  <2>3. SeenIsOnDisk' /\ Listed' /\ DigestsMatch'
    BY <2>1, <2>2 DEF CheckReads, SeenIsOnDisk, Listed, InventoryMatches, DigestsMatch,
                      Matching
  <2>4. SbomIsBound' /\ Compared'
    BY <2>1 DEF SbomIsBound, Compared
  <2> QED
    BY <2>2, <2>3, <2>4 DEF CheckReads
<1> QED
  BY <1>1, <1>2

LEMMA NormalizeSbomReads ==
  ASSUME Shape, CheckReads, NormalizeSbom
  PROVE  CheckReads'
<1>1. CASE ~SbomReads
  BY <1>1, NormalizeSbomDoes, RejectReads
<1>2. CASE SbomReads
  <2>1. /\ GoesOn("again", {"pc", "sbom"}) /\ UNCHANGED since
        /\ check'.sbom = Normalize(Checked[Sbom], check.seen.lock)
        /\ check.pc = "sbom" /\ check'.pc = "again" /\ check'.seen = check.seen
    BY <1>2, NormalizeSbomDoes DEF GoesOn, CheckFields
  <2>2. Steady' = Steady /\ Checked' = Checked /\ Where'
    BY <2>1, SamePlace DEF Reading
  <2>3. SeenIsOnDisk' /\ Listed' /\ DigestsMatch'
    BY <2>1, <2>2 DEF CheckReads, SeenIsOnDisk, Listed, InventoryMatches, DigestsMatch,
                      Matching
  <2>4. Checked[Sbom] \in SbomFile
    BY <1>2 DEF Shape, IsCheck, IsDir, Checked, SbomReads
  <2>5. SbomIsBound'
    <3>1. /\ check'.sbom.lock = check'.seen.lock /\ check'.sbom.root = check'.seen.version
          /\ check'.sbom.tidy
      BY <1>2, <2>1, <2>4, NormalizeIs DEF SbomReads
    <3> QED
      BY <2>1, <2>2, <2>4, <3>1 DEF SbomIsBound
  <2>6. Compared'
    BY <2>1 DEF Compared
  <2> QED
    BY <2>2, <2>3, <2>5, <2>6 DEF CheckReads
<1> QED
  BY <1>1, <1>2

LEMMA AcceptReads ==
  ASSUME BuildInv, CheckReads, Accept
  PROVE  CheckReads'
<1>1. /\ Shape /\ check.mode \in {"verify", "reproduce"} /\ check.pc = "again"
      /\ check.at \in {"reference", "candidate"}
  BY DEF BuildInv, Shape, CandidatePhase, IsCheck, Dirs, Accept
<1>2. CASE Rejects
  BY <1>1, <1>2, RejectReads
<1>3. CASE End("verified")
  BY <1>1, <1>3, EndReads DEF Ended
<1>4. CASE GoesOn("evidence", {"pc", "at", "first", "sbom"}) /\ check.mode = "reproduce"
  <2>1. check'.pc = "evidence" /\ check'.mode = "reproduce"
    BY <1>4 DEF GoesOn
  <2> QED
    BY <2>1, NothingReadNow
<1>5. CASE GoesOn("same", {"pc", "sbom"}) /\ UNCHANGED since /\ check.at # "reference"
  <2>1. check'.pc = "same" /\ check'.seen = check.seen
    BY <1>5 DEF GoesOn, CheckFields
  <2>2. Steady' = Steady /\ Checked' = Checked /\ Where'
    BY <1>1, <1>5, SamePlace DEF Reading
  <2>3. SeenIsOnDisk' /\ Listed' /\ DigestsMatch' /\ SbomIsBound' /\ Compared'
    BY <1>1, <2>1, <2>2 DEF CheckReads, SeenIsOnDisk, Listed, DigestsMatch, SbomIsBound,
                            Compared
  <2> QED
    BY <2>2, <2>3 DEF CheckReads
<1> QED
  BY <1>1, <1>2, <1>3, <1>4, <1>5, AcceptDoes

LEMMA CompareEvidenceReads ==
  ASSUME Shape, CheckReads, CompareEvidence
  PROVE  CheckReads'
<1>1. CASE check.first # check.seen
  BY <1>1, CompareEvidenceDoes, RejectReads
<1>2. CASE check.first = check.seen
  <2>1. /\ GoesOn("compare", {"pc", "todo"}) /\ since'.calm = since.calm
        /\ check'.todo = DOMAIN check.first.digests \cup {Evidence}
        /\ check.pc = "same" /\ check'.pc = "compare"
        /\ check'.seen = check.seen /\ check'.first = check.first
    BY <1>2, CompareEvidenceDoes DEF GoesOn, CheckFields
  <2>2. check.at = "candidate"
    BY <2>1 DEF CheckReads, Where
  <2>3. Steady' = Steady /\ Checked' = Checked /\ Where'
    BY <2>1, <2>2, SamePlace DEF Reading
  <2>4. SeenIsOnDisk' /\ Listed' /\ DigestsMatch' /\ SbomIsBound'
    BY <2>1, <2>3 DEF CheckReads, SeenIsOnDisk, Listed, DigestsMatch, SbomIsBound
  <2>5. Compared'
    BY <1>2, <2>1 DEF Compared
  <2> QED
    BY <2>3, <2>4, <2>5 DEF CheckReads
<1> QED
  BY <1>1, <1>2

LEMMA CompareFileReads ==
  ASSUME Shape, CheckReads, CompareFile
  PROVE  CheckReads'
<1>1. PICK n \in check.todo :
        /\ ~SameFile(n) => Rejects
        /\ SameFile(n) /\ check.todo = {n} => End("reproduced")
        /\ SameFile(n) /\ check.todo # {n} =>
             GoesOn("compare", {"todo"}) /\ check'.todo = check.todo \ {n}
  BY CompareFileDoes
<1>2. check.pc = "compare" /\ UNCHANGED since
  BY CompareFileDoes
<1>3. CASE ~SameFile(n)
  BY <1>1, <1>3, RejectReads
<1>4. CASE SameFile(n) /\ check.todo = {n}
  BY <1>1, <1>4, EndReads DEF Ended
<1>5. CASE SameFile(n) /\ check.todo # {n}
  <2>1. /\ GoesOn("compare", {"todo"}) /\ check'.todo = check.todo \ {n}
        /\ check'.pc = "compare" /\ UNCHANGED dir
        /\ check'.seen = check.seen /\ check'.first = check.first
    BY <1>1, <1>5 DEF GoesOn, CheckFields
  <2>2. Steady' = Steady /\ Checked' = Checked /\ Where'
    BY <1>2, <2>1, SamePlace DEF Reading, CheckReads, Where
  <2>3. SeenIsOnDisk' /\ Listed' /\ DigestsMatch' /\ SbomIsBound'
    BY <1>2, <2>1, <2>2 DEF CheckReads, SeenIsOnDisk, Listed, DigestsMatch, SbomIsBound
  <2>4. Compared'
    BY <1>2, <1>5, <2>1 DEF CheckReads, Compared, SameFile
  <2> QED
    BY <2>2, <2>3, <2>4 DEF CheckReads
<1> QED
  BY <1>3, <1>4, <1>5

LEMMA StepKeepsReads ==
  ASSUME BuildInv, CheckReads, [Next]_vars
  PROVE  CheckReads'
<1>1. Shape
  BY DEF BuildInv
<1>2. CASE Others
  BY <1>2, OthersFrame, FrameReads
<1>3. CASE \E mode \in {"verify", "reproduce"}, pinned \in BOOLEAN : StartCheck(mode, pinned)
  BY <1>1, <1>3, StartReads
<1>4. CASE Rebuild \/ Reads
  BY <1>1, <1>4, RebuildReads, ReadEvidenceReads, ReadInventoryReads, CheckDigestReads,
     CheckWheelReads, NormalizeSbomReads, AcceptReads, ScriptEndsReads,
     CompareEvidenceReads, CompareFileReads DEF Reads
<1> QED
  BY <1>2, <1>3, <1>4 DEF Next, Others, Reads

-----------------------------------------------------------------------------
(* What a check knows of the tree and of the reference                     *)

LEMMA FrameKnows ==
  ASSUME CheckKnows, Frame
  PROVE  CheckKnows'
<1>1. UNCHANGED check /\ (since'.still => since.still /\ UNCHANGED tree)
  BY DEF Frame
<1>2. since'.still => check'.commit = tree'.source
  BY <1>1 DEF CheckKnows
<1>3. since'.still /\ check'.pc \notin Ended =>
        /\ check'.lock = tree'.lock
        /\ check'.mode = "reproduce" /\ check'.pc # "package" =>
             since'.quiet["candidate"] \/ build'["candidate"].pc = "failed"
  BY <1>1 DEF CheckKnows, Frame
<1>4. Undisturbed' /\ check'.pc \notin Ended =>
        /\ dir'["reference"] = Pristine(tree', tree'.source)
        /\ check'.at = "candidate" => check'.first = EvidenceOf(tree', tree'.source)
  <2>1. Undisturbed' => Undisturbed /\ UNCHANGED tree /\ dir'["reference"] = dir["reference"]
    BY <1>1 DEF Frame, Undisturbed
  <2> QED
    BY <1>1, <2>1 DEF CheckKnows
<1> QED
  BY <1>2, <1>3, <1>4 DEF CheckKnows

LEMMA EndKnows ==
  ASSUME Shape, CheckKnows, NEW result \in Ended, End(result), UNCHANGED <<tree, since>>
  PROVE  CheckKnows'
<1>1. check'.pc \in Ended /\ check'.commit = check.commit
  BY CheckEnds
<1> QED
  BY <1>1 DEF CheckKnows

LEMMA AdvanceKnows ==
  ASSUME BuildInv, CheckKnows, Advances,
         (check'.at = check.at /\ check'.first = check.first)
           \/ (Undisturbed => check'.first = EvidenceOf(tree, tree.source))
  PROVE  CheckKnows'
<1>1. /\ UNCHANGED <<tree, dir, build>> /\ check'.mode = check.mode
      /\ check'.commit = check.commit /\ check'.lock = check.lock
      /\ since'.quiet = since.quiet /\ since'.still = since.still
      /\ since'.calm = since.calm /\ since'.sound = since.sound
      /\ check.pc \notin Ended /\ check.pc # "package"
  BY DEF Advances, Reading, Ended
<1>2. Undisturbed' = Undisturbed
  BY <1>1 DEF Undisturbed
<1> QED
  BY <1>1, <1>2 DEF CheckKnows

LEMMA StartKnows ==
  ASSUME Shape, NEW mode \in {"verify", "reproduce"}, NEW pinned, StartCheck(mode, pinned)
  PROVE  CheckKnows'
<1>1. /\ UNCHANGED <<tree, dir, build>>
      /\ check'.mode = mode /\ check'.at = "reference"
      /\ check'.pc = IF mode = "verify" THEN "evidence" ELSE "package"
      /\ check'.commit = tree.source /\ check'.lock = tree.lock
      /\ since'.sound => dir["reference"] = Pristine(tree, tree.source)
  BY StartCheckDoes
<1> QED
  BY <1>1 DEF CheckKnows, Undisturbed

LEMMA RebuildKnows ==
  ASSUME Shape, CheckReads, CheckKnows, Rebuild
  PROVE  CheckKnows'
<1>1. /\ check.pc = "package" /\ PackageBuild("candidate") /\ UNCHANGED <<tree, build>>
      /\ check'.pc = "rebuild" /\ check'.commit = check.commit
      /\ check'.lock = check.lock /\ check'.at = check.at
  BY RebuildDoes
<1>2. /\ since'.quiet["candidate"] /\ since'.still = since.still
      /\ since'.sound = since.sound /\ (since'.calm => since.calm)
  BY <1>1, PackageSince DEF Dirs
<1>3. dir'["reference"] = dir["reference"]
  <2>1. \E files : dir' = [dir EXCEPT !["candidate"] = files]
    BY <1>1, PackageBuilt DEF Dirs
  <2> QED
    BY <2>1 DEF Shape, Dirs
<1>4. check.at = "reference" /\ check.pc \notin Ended
  BY <1>1 DEF CheckReads, Where, Ended
<1>5. Undisturbed' => Undisturbed
  BY <1>2 DEF Undisturbed
<1>6. since'.still => check'.commit = tree'.source /\ check'.lock = tree'.lock
  BY <1>1, <1>2, <1>4 DEF CheckKnows
<1>7. Undisturbed' => dir'["reference"] = Pristine(tree', tree'.source)
  BY <1>1, <1>3, <1>4, <1>5 DEF CheckKnows
<1> QED
  BY <1>1, <1>2, <1>4, <1>6, <1>7 DEF CheckKnows

(* The rebuilt directory is pristine when nothing has interfered.          *)
LEMMA CandidateIsPristine ==
  ASSUME BuildInv, CheckKnows, check.mode = "reproduce", Reading(check.pc), since.still
  PROVE  /\ dir["candidate"] = Pristine(tree, tree.source) /\ check.commit = tree.source
         /\ tree \in Trees /\ tree.source \in Sources
<1> DEFINE files == dir["candidate"]
           b == build["candidate"]
<1>1. /\ check.pc \notin {"idle", "package", "rebuild"} \cup Ended
      /\ tree \in Trees /\ IsDir(files) /\ tree.source \in Sources
  BY TreeType DEF BuildInv, Shape, Reading, Ended, Dirs
<1>2. b.pc = "done" /\ b.commit = check.commit
  BY <1>1 DEF BuildInv, CandidatePhase
<1>3. check.commit = tree.source /\ since.quiet["candidate"]
  BY <1>1, <1>2 DEF CheckKnows
<1>4. QuietFiles(tree, files, b) /\ OnlyBuilt(tree, files)
  BY <1>1, <1>3 DEF BuildInv, QuietScript, InUse, CandidateFresh, Dirs
<1>5. /\ files[Evidence] = EvidenceOf(tree, tree.source)
      /\ \A n \in DOMAIN Artifacts(tree) : files[n] = Artifacts(tree)[n]
  BY <1>1, <1>2, <1>3, <1>4, QuietArtifacts DEF QuietFiles
<1>6. \A n \in Names : n \notin DOMAIN Artifacts(tree) \cup {Evidence} => files[n] = Absent
  BY <1>1, <1>4, ArtifactsAre DEF OnlyBuilt, Wheel, Sdist
<1> HIDE DEF files
<1>7. files = Pristine(tree, tree.source)
  BY <1>1, <1>5, <1>6, SameAsPristine
<1> QED
  BY <1>1, <1>3, <1>7 DEF files

(* So is whatever directory an undisturbed check reads.                    *)
LEMMA WhatIsRead ==
  ASSUME BuildInv, CheckReads, CheckKnows, Reading(check.pc), Undisturbed
  PROVE  /\ Checked = Pristine(tree, tree.source) /\ check.commit = tree.source
         /\ check.lock = tree.lock /\ tree \in Trees /\ tree.source \in Sources
         /\ Steady
<1>1. /\ check.pc \notin Ended /\ tree \in Trees /\ check.at \in {"reference", "candidate"}
      /\ since.still /\ since.calm
      /\ check.mode \in {"verify", "reproduce"}
  BY DEF BuildInv, Shape, IsCheck, Dirs, Reading, Ended, Undisturbed, CandidatePhase
<1>2. tree.source \in Sources /\ check.commit = tree.source /\ check.lock = tree.lock
  BY <1>1, TreeType DEF CheckKnows
<1>3. CASE check.at = "reference"
  BY <1>1, <1>2, <1>3 DEF CheckKnows, Checked, Steady
<1>4. CASE check.at = "candidate"
  <2>1. check.mode = "reproduce"
    BY <1>1, <1>4 DEF CheckReads, Where
  <2>2. Checked = Pristine(tree, tree.source)
    BY <1>1, <1>4, <2>1, CandidateIsPristine DEF Checked
  <2> QED
    BY <1>1, <1>2, <1>4, <2>2 DEF Steady
<1> QED
  BY <1>1, <1>3, <1>4

LEMMA EvidenceIs ==
  ASSUME NEW t, NEW commit
  PROVE  LET evidence == EvidenceOf(t, commit)
         IN  /\ evidence.commit = commit /\ evidence.version = VersionOf[t.source]
             /\ evidence.lock = t.lock /\ evidence.digests = Artifacts(t)
BY DEF EvidenceOf

(* The evidence an undisturbed check has read is that of the tree.         *)
LEMMA EvidenceRead ==
  ASSUME BuildInv, CheckReads, CheckKnows, Reading(check.pc), check.pc # "evidence",
         Undisturbed
  PROVE  /\ check.seen = EvidenceOf(tree, tree.source)
         /\ check.seen.digests = Artifacts(tree) /\ check.seen.lock = tree.lock
         /\ check.seen.version = VersionOf[tree.source]
<1>1. /\ Checked = Pristine(tree, tree.source) /\ tree \in Trees /\ tree.source \in Sources
      /\ Steady
  BY WhatIsRead
<1>2. Checked[Evidence] = EvidenceOf(tree, tree.source)
  BY <1>1, PristineIs
<1>3. check.seen = EvidenceOf(tree, tree.source)
  BY <1>1, <1>2 DEF CheckReads, SeenIsOnDisk, Reading
<1> QED
  BY <1>3, EvidenceIs

LEMMA ReadsKnow ==
  ASSUME BuildInv, CheckReads, CheckKnows, Reads
  PROVE  CheckKnows'
<1>1. Shape /\ check.mode \in {"verify", "reproduce"}
  BY DEF BuildInv, CandidatePhase
<1>2. CASE \E result \in Ended : End(result) /\ UNCHANGED <<tree, since>>
  BY <1>1, <1>2, EndKnows
<1>3. CASE Advances
  <2>0. check'.pc \notin Ended
    BY <1>3 DEF Advances, Reading, Ended
  <2>1. ASSUME Rejects \/ End("verified") \/ End("reproduced") PROVE FALSE
    BY <1>1, <2>0, <2>1, CheckEnds DEF Rejects, Ended
  <2>2. CASE Accept
    <3>1. CASE GoesOn("same", {"pc", "sbom"})
      BY <1>3, <3>1, AdvanceKnows DEF GoesOn, CheckFields
    <3>2. CASE check'.first = check.seen /\ check.pc = "again"
      <4>1. Undisturbed => check'.first = EvidenceOf(tree, tree.source)
        BY <3>2, EvidenceRead DEF Reading
      <4> QED
        BY <1>3, <4>1, AdvanceKnows
    <3> QED
      BY <1>1, <2>1, <2>2, <3>1, <3>2, AcceptDoes
  <2>3. CASE ~Accept
    <3>1. check'.at = check.at /\ check'.first = check.first
      <4>1. \E pc, fields : GoesOn(pc, fields) /\ fields \cap {"at", "first"} = {}
        <5>1. CASE ReadEvidence
          BY <1>1, <2>1, <5>1, ReadEvidenceDoes
        <5>2. CASE ReadInventory
          BY <1>1, <2>1, <5>2, ReadInventoryDoes
        <5>3. CASE CheckDigest
          BY <1>1, <2>1, <5>3, CheckDigestDoes
        <5>4. CASE CheckWheel
          BY <1>1, <2>1, <5>4, CheckWheelDoes
        <5>5. CASE NormalizeSbom
          BY <1>1, <2>1, <5>5, NormalizeSbomDoes
        <5>6. CASE ScriptEnds
          BY <1>1, <2>1, <5>6, ScriptEndsDoes
        <5>7. CASE CompareEvidence
          BY <1>1, <2>1, <5>7, CompareEvidenceDoes
        <5>8. CASE CompareFile
          BY <1>1, <2>1, <5>8, CompareFileDoes
        <5> QED
          BY <2>3, <5>1, <5>2, <5>3, <5>4, <5>5, <5>6, <5>7, <5>8 DEF Reads
      <4> QED
        BY <4>1 DEF GoesOn, CheckFields
    <3> QED
      BY <1>3, <3>1, AdvanceKnows
  <2> QED
    BY <2>2, <2>3
<1> QED
  BY <1>2, <1>3, ReadsLead

LEMMA StepKeepsKnowledge ==
  ASSUME BuildInv, CheckReads, CheckKnows, [Next]_vars
  PROVE  CheckKnows'
<1>1. Shape
  BY DEF BuildInv
<1>2. CASE Others
  BY <1>2, OthersFrame, FrameKnows
<1>3. CASE \E mode \in {"verify", "reproduce"}, pinned \in BOOLEAN : StartCheck(mode, pinned)
  BY <1>1, <1>3, StartKnows
<1>4. CASE Rebuild
  BY <1>1, <1>4, RebuildKnows
<1>5. CASE Reads
  BY <1>5, ReadsKnow
<1> QED
  BY <1>2, <1>3, <1>4, <1>5 DEF Next, Others, Reads

-----------------------------------------------------------------------------
(* Why a check ends as it does                                             *)

(* An undisturbed check of a reference that was pristine cannot reject.    *)
LEMMA UndisturbedAccepts ==
  ASSUME BuildInv, CheckReads, CheckKnows, Undisturbed, Reads,
         check.mode = "reproduce" => since.quiet["candidate"],
         Rejects
  PROVE  FALSE
<1>1. /\ Shape /\ check.mode \in {"verify", "reproduce"}
      /\ check'.pc = "rejected"
  BY CheckEnds DEF BuildInv, CandidatePhase, Rejects
<1>2. /\ check'.pc \notin {"verified", "reproduced", "evidence", "inventory", "digests",
                           "wheel", "sbom", "again", "same", "compare"}
  BY <1>1
<1>3. ASSUME NEW pc, NEW fields, GoesOn(pc, fields), Reading(pc) PROVE FALSE
  BY <1>2, <1>3 DEF GoesOn, Reading
<1> DEFINE t == tree
           files == Artifacts(t)
<1>4. /\ t \in Trees => DOMAIN files = {Wheel(t), Sdist(t), Sbom}
      /\ t \in Trees => Wheel(t).kind = "wheel" /\ Sdist(t).kind = "sdist"
      /\ Sbom.kind = "sbom"
  BY ArtifactsAre, NamesDiffer DEF Wheel, Sdist
<1>5. ASSUME Reading(check.pc)
      PROVE  /\ t \in Trees /\ t.source \in Sources /\ Steady
             /\ check.commit = t.source /\ check.lock = t.lock
             /\ Checked[Evidence] = EvidenceOf(t, t.source)
             /\ \A n \in DOMAIN files : Checked[n] = files[n]
                                        /\ files[n] \notin {Absent, Broken}
             /\ Present(Checked) = DOMAIN files \cup {Evidence}
             /\ EvidenceOf(t, t.source) \notin {Absent, Broken}
  <2>1. /\ Checked = Pristine(t, t.source) /\ check.commit = t.source
        /\ check.lock = t.lock /\ t \in Trees /\ t.source \in Sources /\ Steady
    BY <1>5, WhatIsRead
  <2>2. EvidenceOf(t, t.source) \notin {Absent, Broken}
    BY <2>1, ContentsAssumption
  <2>3. /\ Checked[Evidence] = EvidenceOf(t, t.source)
        /\ \A n \in DOMAIN files : Checked[n] = files[n]
        /\ Present(Checked) = DOMAIN files \cup {Evidence}
    BY <2>1, PristineIs
  <2>4. \A n \in DOMAIN files : files[n] \notin {Absent, Broken}
    BY <2>1, ContentsAssumption
  <2> HIDE DEF files
  <2> QED
    BY <2>1, <2>2, <2>3, <2>4
<1>6. CASE ReadEvidence
  <2>1. ~Acceptable(Checked[Evidence]) /\ check.pc = "evidence"
    BY <1>1, <1>3, <1>6, ReadEvidenceDoes DEF Reading
  <2> QED
    BY <1>5, <2>1, EvidenceIs DEF Reading, Acceptable
<1>7. ASSUME Reading(check.pc), check.pc # "evidence"
      PROVE  /\ check.seen = EvidenceOf(t, t.source) /\ check.seen.digests = files
             /\ check.seen.lock = t.lock /\ check.seen.version = VersionOf[t.source]
  BY <1>7, EvidenceRead
<1>8. CASE ReadInventory
  <2>1. ~InventoryMatches /\ check.pc = "inventory"
    BY <1>1, <1>3, <1>8, ReadInventoryDoes DEF Reading
  <2> QED
    BY <1>5, <1>7, <2>1 DEF Reading, InventoryMatches
<1>9. CASE CheckDigest
  <2>1. PICK n \in check.todo : Checked[n] # check.seen.digests[n]
    <3>1. PICK n \in check.todo :
            Checked[n] = check.seen.digests[n] =>
              GoesOn(IF check.todo = {n} THEN "wheel" ELSE "digests", {"pc", "todo"})
      BY <1>1, <1>9, CheckDigestDoes
    <3> QED
      BY <1>3, <3>1 DEF Reading
  <2>2. check.pc = "digests" /\ n \in DOMAIN check.seen.digests
    BY <1>1, <1>9, CheckDigestDoes DEF CheckReads, DigestsMatch
  <2> QED
    BY <1>5, <1>7, <2>1, <2>2 DEF Reading
<1>10. CASE CheckWheel
  <2>1. ~WheelReads /\ check.pc = "wheel"
    BY <1>1, <1>3, <1>10, CheckWheelDoes DEF Reading
  <2>2. {n \in DOMAIN check.seen.digests : n.kind = "wheel"} = {Wheel(t)}
    BY <1>4, <1>5, <1>7, <2>1 DEF Reading
  <2>3. Sbom \in DOMAIN check.seen.digests /\ SoundWheel(Checked, Wheel(t))
    BY <1>4, <1>5, <1>7, <2>1 DEF Reading, SoundWheel
  <2> QED
    BY <2>1, <2>2, <2>3 DEF WheelReads, IsOne
<1>11. ASSUME Reading(check.pc)
       PROVE  Checked[Sbom] = [root |-> VersionOf[t.source], parts |-> t.lock,
                               lock |-> t.lock, tidy |-> TRUE]
              /\ Checked[Sbom] \in SbomFile
  <2>1. t \in Trees /\ Sbom \in DOMAIN files /\ Checked[Sbom] = files[Sbom]
    BY <1>4, <1>5, <1>11
  <2> HIDE DEF t
  <2> QED
    BY <2>1, ArtifactsAre
<1>12. CASE NormalizeSbom
  <2>1. ~SbomReads /\ check.pc = "sbom"
    BY <1>1, <1>3, <1>12, NormalizeSbomDoes DEF Reading
  <2>2. Checked[Sbom].root = VersionOf[t.source]
    BY <1>11, <2>1 DEF Reading
  <2>3. Checked[Sbom] \notin {Absent, Broken}
    BY <1>4, <1>5, <2>1 DEF Reading
  <2> QED
    BY <1>7, <2>1, <2>2, <2>3 DEF SbomReads, Reading
<1>13. CASE Accept
  <2>1. ~SbomIsNormalized /\ check.pc = "again"
    <3>1. ASSUME End("verified") PROVE FALSE
      BY <1>1, <1>2, <3>1, CheckEnds
    <3> QED
      BY <1>1, <1>3, <1>13, <3>1, AcceptDoes DEF Reading
  <2>2. check.sbom = Normalize(Checked[Sbom], t.lock)
    BY <1>5, <1>7, <2>1 DEF CheckReads, SbomIsBound, Reading
  <2>3. check.sbom = Checked[Sbom]
    <3> DEFINE sbom == Checked[Sbom]
               lock == t.lock
               root == VersionOf[t.source]
    <3>1. /\ sbom \in SbomFile /\ check.sbom = Normalize(sbom, lock)
          /\ sbom = [root |-> root, parts |-> lock, lock |-> lock, tidy |-> TRUE]
      BY <1>11, <2>1, <2>2 DEF Reading
    <3> HIDE DEF sbom, lock, root
    <3>2. sbom.root = root /\ sbom.parts = lock
      BY <3>1
    <3>3. Normalize(sbom, lock) =
            [root |-> sbom.root, parts |-> sbom.parts, lock |-> lock, tidy |-> TRUE]
      BY <3>1, NormalizeIs
    <3> DEFINE new == Normalize(sbom, lock)
    <3> HIDE DEF new
    <3>4. new = sbom
      BY <3>1, <3>2, <3>3 DEF new
    <3> QED
      BY <3>1, <3>4 DEF new, sbom
  <2> QED
    BY <2>1, <2>3 DEF SbomIsNormalized
<1>14. CASE ScriptEnds
  <2>1. check.pc = "rebuild" /\ build["candidate"].pc = "failed"
    BY <1>1, <1>3, <1>14, ScriptEndsDoes DEF Reading
  <2>2. check.mode = "reproduce"
    BY <2>1 DEF BuildInv, CandidatePhase
  <2> QED
    BY <2>1, <2>2 DEF BuildInv, CandidateFresh, Ended
<1>15. ASSUME check.pc \in {"same", "compare"}
       PROVE  /\ check.at = "candidate" /\ check.first = check.seen
              /\ dir["reference"] = Pristine(t, t.source)
              /\ dir["candidate"] = Pristine(t, t.source)
  <2>1. check.at = "candidate" /\ Reading(check.pc) /\ check.pc \notin Ended
    BY <1>15 DEF CheckReads, Where, Reading, Ended
  <2>2. check.first = EvidenceOf(t, t.source) /\ dir["reference"] = Pristine(t, t.source)
    BY <2>1 DEF CheckKnows
  <2>3. Checked = Pristine(t, t.source)
    BY <2>1, WhatIsRead
  <2> QED
    BY <1>7, <1>15, <2>1, <2>2, <2>3 DEF Checked
<1>16. CASE CompareEvidence
  <2>1. check.first # check.seen /\ check.pc = "same"
    BY <1>1, <1>3, <1>16, CompareEvidenceDoes DEF Reading
  <2> QED
    BY <1>15, <2>1
<1>17. CASE CompareFile
  <2>1. PICK n \in check.todo : ~SameFile(n)
    <3>1. PICK n \in check.todo :
            /\ SameFile(n) /\ check.todo = {n} => End("reproduced")
            /\ SameFile(n) /\ check.todo # {n} => GoesOn("compare", {"todo"})
      BY <1>1, <1>17, CompareFileDoes
    <3>2. ~End("reproduced")
      BY <1>1, <1>2, CheckEnds
    <3> QED
      BY <1>3, <3>1, <3>2 DEF Reading
  <2>2. check.pc = "compare" /\ n \in DOMAIN check.seen.digests \cup {Evidence}
    BY <1>1, <1>17, CompareFileDoes DEF CheckReads, Compared
  <2>3. n \in DOMAIN files \cup {Evidence}
    BY <1>7, <2>2 DEF Reading
  <2>4. Checked[n] # Absent
    BY <1>5, <2>2, <2>3 DEF Reading
  <2> QED
    BY <1>15, <2>1, <2>2, <2>4 DEF SameFile, Checked
<1> QED
  BY <1>6, <1>8, <1>9, <1>10, <1>12, <1>13, <1>14, <1>16, <1>17 DEF Reads

LEMMA StepKeepsCause ==
  ASSUME BuildInv, CheckReads, CheckKnows, RejectionHasACause, [Next]_vars
  PROVE  RejectionHasACause'
<1>1. Shape
  BY DEF BuildInv
<1>2. CASE Others
  BY <1>2, OthersFrame DEF Frame, RejectionHasACause
<1>3. CASE \E mode \in {"verify", "reproduce"}, pinned \in BOOLEAN : StartCheck(mode, pinned)
  <2>1. check'.pc \in {"evidence", "package"}
    BY <1>1, <1>3, StartCheckDoes
  <2> QED
    BY <2>1 DEF RejectionHasACause
<1>4. CASE Rebuild
  <2>1. check'.pc = "rebuild"
    BY <1>1, <1>4, RebuildDoes
  <2> QED
    BY <2>1 DEF RejectionHasACause
<1>5. CASE Reads
  <2> SUFFICES ASSUME check'.pc = "rejected"
               PROVE  \/ ~since'.sound \/ ~since'.calm \/ ~since'.still
                      \/ (check'.mode = "reproduce" /\ ~since'.quiet["candidate"])
    BY DEF RejectionHasACause
  <2>1. ~Advances
    BY DEF Advances, Reading
  <2>2. Rejects /\ check'.mode = check.mode
    <3>1. PICK result \in Ended : End(result) /\ UNCHANGED <<tree, since>>
      BY <1>5, <2>1, ReadsLead
    <3>2. check'.pc = result /\ check'.mode = check.mode
      BY <1>1, <3>1, CheckEnds
    <3> QED
      BY <3>1, <3>2 DEF Rejects
  <2>3. UNCHANGED since
    BY <2>2 DEF Rejects
  <2>4. ~Undisturbed \/ (check.mode = "reproduce" /\ ~since.quiet["candidate"])
    BY <1>5, <2>2, UndisturbedAccepts
  <2> QED
    BY <2>2, <2>3, <2>4 DEF Undisturbed
<1> QED
  BY <1>2, <1>3, <1>4, <1>5 DEF Next, Others, Reads

(* Only the last comparison of two files reproduces a directory.           *)
LEMMA OnlyComparisonReproduces ==
  ASSUME BuildInv, Reads, check'.pc = "reproduced"
  PROVE  CompareFile
<1>1. Shape /\ check.mode \in {"verify", "reproduce"}
  BY DEF BuildInv, CandidatePhase
<1>2. ~Rejects /\ ~End("verified")
  BY <1>1, CheckEnds DEF Rejects
<1>3. ASSUME NEW pc, NEW fields, GoesOn(pc, fields), Reading(pc) PROVE FALSE
  BY <1>3 DEF GoesOn, Reading
<1>4. ASSUME ReadEvidence PROVE FALSE
  BY <1>1, <1>2, <1>3, <1>4, ReadEvidenceDoes DEF Reading
<1>5. ASSUME ReadInventory PROVE FALSE
  BY <1>1, <1>2, <1>3, <1>5, ReadInventoryDoes DEF Reading
<1>6. ASSUME CheckDigest PROVE FALSE
  <2>1. PICK n \in check.todo :
          /\ Checked[n] = check.seen.digests[n] =>
               GoesOn(IF check.todo = {n} THEN "wheel" ELSE "digests", {"pc", "todo"})
          /\ Checked[n] # check.seen.digests[n] => Rejects
    BY <1>1, <1>6, CheckDigestDoes
  <2> QED
    BY <1>2, <1>3, <2>1 DEF Reading
<1>7. ASSUME CheckWheel PROVE FALSE
  BY <1>1, <1>2, <1>3, <1>7, CheckWheelDoes DEF Reading
<1>8. ASSUME NormalizeSbom PROVE FALSE
  BY <1>1, <1>2, <1>3, <1>8, NormalizeSbomDoes DEF Reading
<1>9. ASSUME Accept PROVE FALSE
  BY <1>1, <1>2, <1>3, <1>9, AcceptDoes DEF Reading
<1>10. ASSUME ScriptEnds PROVE FALSE
  BY <1>1, <1>2, <1>3, <1>10, ScriptEndsDoes DEF Reading
<1>11. ASSUME CompareEvidence PROVE FALSE
  BY <1>1, <1>2, <1>3, <1>11, CompareEvidenceDoes DEF Reading
<1> QED
  BY <1>4, <1>5, <1>6, <1>7, <1>8, <1>9, <1>10, <1>11 DEF Reads

LEMMA ComparisonReproduces ==
  ASSUME BuildInv, CheckReads, CheckKnows, CompareFile, check'.pc = "reproduced"
  PROVE  ReproducedIsPristine'
<1> SUFFICES ASSUME since'.still, since'.frozen,
                    NEW m \in Present(Pristine(tree', check'.commit))
             PROVE  dir'["reference"][m] = Pristine(tree', check'.commit)[m]
  BY DEF ReproducedIsPristine
<1> DEFINE t == tree
           pristine == Pristine(t, t.source)
<1>1. Shape /\ check.pc = "compare" /\ UNCHANGED <<tree, since>>
  BY CompareFileDoes DEF BuildInv
<1>2. PICK n \in check.todo : SameFile(n) /\ check.todo = {n} /\ End("reproduced")
  <2>1. PICK n \in check.todo :
          /\ ~SameFile(n) => Rejects
          /\ SameFile(n) /\ check.todo = {n} => End("reproduced")
          /\ SameFile(n) /\ check.todo # {n} => GoesOn("compare", {"todo"})
    BY <1>1, CompareFileDoes
  <2>2. ~Rejects /\ ~GoesOn("compare", {"todo"})
    BY <1>1, CheckEnds DEF Rejects, GoesOn
  <2> QED
    BY <2>1, <2>2
<1>3. check'.commit = check.commit /\ dir'["reference"] = dir["reference"]
  BY <1>1, <1>2, CheckEnds
<1>4. /\ dir["candidate"] = pristine /\ check.commit = t.source
      /\ t \in Trees /\ t.source \in Sources /\ check.at = "candidate"
  BY <1>1, CandidateIsPristine DEF BuildInv, CandidatePhase, CheckReads, Where, Reading
<1>5. check.first = EvidenceOf(t, t.source)
  <2>1. Checked[Evidence] = check.seen /\ check.first = check.seen
    BY <1>1, <1>4 DEF CheckReads, SeenIsOnDisk, Compared, Steady
  <2> QED
    BY <1>4, <2>1, PristineIs DEF Checked
<1>6. Present(pristine) = DOMAIN check.first.digests \cup {Evidence}
  BY <1>4, <1>5, PristineIs, EvidenceIs
<1>7. m \in DOMAIN check.first.digests \cup {Evidence}
  BY <1>1, <1>3, <1>4, <1>6
<1>8. dir["reference"][m] = dir["candidate"][m]
  BY <1>1, <1>2, <1>7 DEF CheckReads, Compared, SameFile
<1> QED
  BY <1>1, <1>3, <1>4, <1>8

LEMMA StepKeepsReproduced ==
  ASSUME BuildInv, CheckReads, CheckKnows, ReproducedIsPristine, [Next]_vars
  PROVE  ReproducedIsPristine'
<1>1. Shape
  BY DEF BuildInv
<1>2. CASE Others
  <2>1. /\ UNCHANGED check
        /\ since'.frozen => since.frozen /\ dir'["reference"] = dir["reference"]
        /\ since'.still => since.still /\ UNCHANGED tree
    BY <1>2, OthersFrame DEF Frame
  <2> QED
    BY <2>1 DEF ReproducedIsPristine
<1>3. CASE \E mode \in {"verify", "reproduce"}, pinned \in BOOLEAN : StartCheck(mode, pinned)
  <2>1. check'.pc \in {"evidence", "package"}
    BY <1>1, <1>3, StartCheckDoes
  <2> QED
    BY <2>1 DEF ReproducedIsPristine
<1>4. CASE Rebuild
  <2>1. check'.pc = "rebuild"
    BY <1>1, <1>4, RebuildDoes
  <2> QED
    BY <2>1 DEF ReproducedIsPristine
<1>5. CASE Reads
  BY <1>5, OnlyComparisonReproduces, ComparisonReproduces DEF ReproducedIsPristine
<1> QED
  BY <1>2, <1>3, <1>4, <1>5 DEF Next, Others, Reads

(* What an accepting check has seen.                                       *)
LEMMA StepAccepts ==
  ASSUME BuildInv, CheckReads, [Next]_vars, check.pc = "again",
         check'.pc \notin {"again", "rejected"}
  PROVE  /\ Checked[Sbom].lock = check.seen.lock
         /\ Checked[Sbom].root = check.seen.version
         /\ Checked[Sbom].tidy
         /\ since.calm => Consistent(Checked, check.seen)
<1>1. Shape /\ check.mode \in {"verify", "reproduce"}
  BY DEF BuildInv, CandidatePhase
<1>2. ~Others
  BY OthersFrame DEF Frame
<1>3. /\ ~Rebuild /\ ~ReadEvidence /\ ~ReadInventory /\ ~CheckDigest /\ ~CheckWheel
      /\ ~NormalizeSbom /\ ~ScriptEnds /\ ~CompareEvidence /\ ~CompareFile
  BY DEF Rebuild, ReadEvidence, ReadInventory, CheckDigest, CheckWheel, NormalizeSbom,
         ScriptEnds, CompareEvidence, CompareFile
<1>4. \A mode \in {"verify", "reproduce"}, pinned \in BOOLEAN : ~StartCheck(mode, pinned)
  BY DEF StartCheck, Ended
<1>5. Accept
  BY <1>2, <1>3, <1>4 DEF Next, Others
<1>6. ~Rejects
  BY <1>1, CheckEnds DEF Rejects
<1>7. Checked[Sbom] = check.sbom
  BY <1>1, <1>5, <1>6, AcceptDoes DEF SbomIsNormalized
<1>8. since.calm => Consistent(Checked, check.seen)
  BY DEF CheckReads, SeenIsOnDisk, Listed, InventoryMatches, DigestsMatch, Matching, Steady,
         Consistent
<1> QED
  BY <1>7, <1>8 DEF CheckReads, SbomIsBound

LEMMA EvidenceInit ==
  ASSUME Init
  PROVE  EvidenceInv
<1>1. /\ check.pc = "idle" /\ check.at = "reference" /\ ~since.still
  BY NoCheckIs DEF Init
<1>2. BuildInv
  BY BuildInit
<1>3. CheckReads
  BY <1>1, NothingRead
<1>4. CheckKnows /\ RejectionHasACause /\ ReproducedIsPristine
  BY <1>1 DEF CheckKnows, Undisturbed, RejectionHasACause, ReproducedIsPristine
<1> QED
  BY <1>2, <1>3, <1>4 DEF EvidenceInv

LEMMA EvidenceInvariant == Spec => []EvidenceInv
<1>1. EvidenceInv /\ [Next]_vars => EvidenceInv'
  BY StepKeepsBuilds, StepKeepsReads, StepKeepsKnowledge, StepKeepsCause,
     StepKeepsReproduced DEF EvidenceInv
<1> QED
  BY <1>1, EvidenceInit, PTL DEF Spec

(* A check of a reference that was pristine when the check began rejects   *)
(* only if the tree or its files changed or a crash stopped the rebuild.   *)
THEOREM RejectionsHaveCauses == Spec => []RejectionHasACause
<1>1. EvidenceInv => RejectionHasACause
  BY DEF EvidenceInv
<1> QED
  BY <1>1, EvidenceInvariant, PTL

(* A reproduced reference is the build of the tree, whatever was in the    *)
(* directory and whatever happened to it before the comparison began.      *)
THEOREM ReproductionsAreGenuine == Spec => []ReproducedIsPristine
<1>1. EvidenceInv => ReproducedIsPristine
  BY DEF EvidenceInv
<1> QED
  BY <1>1, EvidenceInvariant, PTL

(* An accepting check has the SBOM of the evidence it read before it, and  *)
(* a directory that is what the evidence lists if nothing was replaced.    *)
THEOREM AcceptancesAreSound == Spec => AcceptanceIsSound
<1> DEFINE Sound ==
      check.pc = "again" /\ check'.pc \notin {"again", "rejected"} =>
        /\ Checked[Sbom].lock = check.seen.lock
        /\ Checked[Sbom].root = check.seen.version
        /\ Checked[Sbom].tidy
        /\ since.calm => Consistent(Checked, check.seen)
<1>1. EvidenceInv /\ [Next]_vars => [Sound]_vars
  BY StepAccepts DEF EvidenceInv
<1>2. AcceptanceIsSound <=> [][Sound]_vars
  BY DEF AcceptanceIsSound
<1> HIDE DEF Sound
<1>3. Spec => [][Sound]_vars
  BY <1>1, EvidenceInvariant, PTL DEF Spec
<1> QED
  BY <1>2, <1>3
=============================================================================
