---------------------------- MODULE ReleaseFiles ----------------------------
(***************************************************************************)
(* The build-release command (cli.py): several invocations build releases  *)
(* of a bundle that changes, and write the manifest and the archive of one *)
(* release id into one output directory.  Every write is two steps, as     *)
(* write_bytes empties the file first: others may read it in between, and  *)
(* a crash leaves it so.                                                   *)
(*                                                                         *)
(* Abstractions: a build is named by the state of the bundle it was made   *)
(* from, as builds are reproducible (module ReleaseBuild); all invocations *)
(* pass the same creation time.  Bound: MaxCrashes.                        *)
(***************************************************************************)
EXTENDS Naturals, FiniteSets

CONSTANTS
  Bundles,      \* states of the bundle
  Concepts,     \* Concepts[b]: what the manifest says of its concepts
  Builders,     \* invocations of build-release
  None,         \* no file
  Torn,         \* a file that was emptied and not filled
  MaxCrashes    \* bound

Lifecycle == {"draft", "stable", "deprecated"}

(* A concept lacks those of its fields that are missing or empty, but      *)
(* "verified" only if its criticality is high.                             *)
Fields == {"acl_ref", "sources", "stale_after", "source_sha256", "verified"}

Concept == [status : Lifecycle, staleAfter : Nat, lacks : SUBSET Fields]

ASSUME FilesAssumption ==
  /\ Concepts \in [Bundles -> SUBSET Concept]
  /\ None # Torn
  /\ {None, Torn} \cap Bundles = {}
  /\ MaxCrashes \in Nat

VARIABLES
  bundle,    \* the state of the bundle
  outputs,   \* the two output files
  cli,       \* the locals of each invocation
  crashes

filesVars == <<bundle, outputs, cli, crashes>>

Files == {"manifest", "archive"}

Contents == Bundles \cup {None, Torn}

Command ==
  [pc       : {"idle", "check", "manifest", "archive"},
   filling  : BOOLEAN,              \* the file is emptied, not filled yet
   force    : BOOLEAN,
   artifact : Contents,             \* the artifact that was built
   found    : [Files -> Contents],  \* history: the files when it began
   alone    : BOOLEAN]              \* history: no other ran since

NoFiles == [f \in Files |-> None]

NoCommand ==
  [pc |-> "idle", filling |-> FALSE, force |-> FALSE, artifact |-> None,
   found |-> NoFiles, alone |-> FALSE]

FilesInit ==
  /\ bundle \in Bundles
  /\ outputs = NoFiles
  /\ cli = [w \in Builders |-> NoCommand]
  /\ crashes = 0

Becomes(w, command) == cli' = [cli EXCEPT ![w] = command]

Others(w) == Builders \ {w}

-----------------------------------------------------------------------------
EditBundle ==
  /\ bundle' \in Bundles \ {bundle}
  /\ UNCHANGED <<outputs, cli, crashes>>

(* build_release refuses a concept without these; what else it does is in  *)
(* module ReleaseBuild.                                                    *)
Buildable(b) ==
  \A c \in Concepts[b] : c.lacks \cap {"acl_ref", "sources", "stale_after"} = {}

Build(w, force) ==
  /\ cli[w].pc = "idle"
  /\ Buildable(bundle)
  /\ cli' = [v \in Builders |->
       IF v = w
       THEN [NoCommand EXCEPT !.pc = "check", !.force = force, !.artifact = bundle,
               !.found = outputs,
               !.alone = \A o \in Others(w) : cli[o].pc = "idle"]
       ELSE [cli[v] EXCEPT !.alone = FALSE, !.found = NoFiles]]
  /\ UNCHANGED <<bundle, outputs, crashes>>

(* Mutant: only the archive is looked at.                                  *)
ChangedArchive(w) == {f \in {"archive"} : outputs[f] \notin {None, cli[w].artifact}}

Changed(w) == {f \in Files : outputs[f] \notin {None, cli[w].artifact}}

(* Without --force no file that differs is replaced.                       *)
CheckOutputs(w) ==
  /\ cli[w].pc = "check"
  /\ Becomes(w, IF Changed(w) # {} /\ ~cli[w].force
                THEN NoCommand
                ELSE [cli[w] EXCEPT !.pc = "manifest"])
  /\ UNCHANGED <<bundle, outputs, crashes>>

(* The manifest is written first, then the archive.                        *)
FileDone(w) ==
  IF cli[w].pc = "manifest"
  THEN [cli[w] EXCEPT !.pc = "archive", !.filling = FALSE]
  ELSE NoCommand

(* A file that is there with the same bytes is left alone.                 *)
WriteFile(w) ==
  /\ cli[w].pc \in Files
  /\ LET f == cli[w].pc
     IN  IF cli[w].filling
         THEN outputs' = [outputs EXCEPT ![f] = cli[w].artifact] /\ Becomes(w, FileDone(w))
         ELSE IF outputs[f] = cli[w].artifact
         THEN Becomes(w, FileDone(w)) /\ UNCHANGED outputs
         ELSE /\ outputs' = [outputs EXCEPT ![f] = Torn]
              /\ Becomes(w, [cli[w] EXCEPT !.filling = TRUE])
  /\ UNCHANGED <<bundle, crashes>>

CrashCommand(w) ==
  /\ cli[w].pc # "idle"
  /\ crashes < MaxCrashes
  /\ crashes' = crashes + 1
  /\ Becomes(w, NoCommand)
  /\ UNCHANGED <<bundle, outputs>>

FilesNext ==
  \/ EditBundle
  \/ \E w \in Builders :
       \/ \E force \in BOOLEAN : Build(w, force)
       \/ CheckOutputs(w) \/ WriteFile(w) \/ CrashCommand(w)

-----------------------------------------------------------------------------
Returns(w) == cli[w].pc # "idle" /\ cli'[w].pc = "idle" /\ crashes' = crashes

(* What an invocation that ran alone leaves, whatever crash or race was    *)
(* before it: if it succeeds, the manifest and the archive of one build,   *)
(* its own, and without --force it replaced no file of another build; if   *)
(* it refuses, the files it found.                                         *)
PairIsSound ==
  [][\A w \in Builders : Returns(w) /\ cli[w].alone =>
       LET command == cli[w]
       IN  IF command.pc = "archive"
           THEN /\ \A f \in Files : outputs'[f] = command.artifact
                /\ ~command.force =>
                     \A f \in Files : command.found[f] \in {None, command.artifact}
           ELSE outputs' = command.found]_filesVars
=============================================================================
