----------------------------- MODULE Authoring -----------------------------
(***************************************************************************)
(* From source records to the concept files of a bundle: sources change,   *)
(* authors allocate identities (allocate_identity, identity.py) and write  *)
(* mappings, invocations of render (cli.py, renderer.py) write the files,  *)
(* and the bundle is validated for them (validator.py).                    *)
(*                                                                         *)
(* Abstractions: a path is the title it was allocated for and the hash of  *)
(* the record's anchor, the record itself; slugs of different titles       *)
(* differ.  Of a concept there is what tells renderings apart: the record, *)
(* its version, its UID and the ACL reference.  A mapping has the UID that *)
(* was allocated; it may retain any path in use.                           *)
(* Bounds: MaxVersion, MaxRenderCrashes.                                   *)
(***************************************************************************)
EXTENDS Naturals, FiniteSets

CONSTANTS
  Records,           \* source records, as their anchors
  Titles,
  EntitlementRefs,
  Renderers,         \* invocations of render
  NoMapping,
  NoRef,             \* acl_ref is not mapped
  NoFile,
  TornFile,          \* a file that was emptied and not filled
  MaxVersion,        \* bound: edits of a source
  MaxRenderCrashes   \* bound

VARIABLES
  source,     \* the source records
  mapping,    \* the render mappings
  concepts,   \* the concept files, by their paths
  renderer,   \* the locals of each invocation of render
  renderCrashes

authoringVars == <<source, mapping, concepts, renderer, renderCrashes>>

Source == [title : Titles, refs : SUBSET EntitlementRefs, version : 0 .. MaxVersion]

Paths == Titles \X Records

Mapping == [path : Paths, uid : Records, ref : EntitlementRefs \cup {NoRef}]

ConceptFile ==
  [record : Records, version : 0 .. MaxVersion, uid : Records, ref : EntitlementRefs]

NoRender == [pc |-> "idle", option |-> "none", record |-> NoFile, source |-> NoFile,
             path |-> NoFile, content |-> NoFile, filling |-> FALSE]

ASSUME AuthoringAssumption ==
  /\ NoMapping \notin Mapping
  /\ NoRef \notin EntitlementRefs
  /\ NoFile # TornFile
  /\ {NoFile, TornFile} \cap ConceptFile = {}
  /\ MaxVersion \in Nat
  /\ MaxRenderCrashes \in Nat

AuthoringInit ==
  /\ source \in [Records -> {s \in Source : s.version = 0}]
  /\ mapping = [r \in Records |-> NoMapping]
  /\ concepts = [p \in Paths |-> NoFile]
  /\ renderer = [w \in Renderers |-> NoRender]
  /\ renderCrashes = 0

-----------------------------------------------------------------------------
EditSource(r) ==
  /\ source[r].version < MaxVersion
  /\ \E s \in Source :
       /\ s.version = source[r].version + 1
       /\ source' = [source EXCEPT ![r] = s]
  /\ UNCHANGED <<mapping, concepts, renderer, renderCrashes>>

(* Mutant: the UID is allocated for the path, and not for the anchor.      *)
UidOfPath(r, path) == path

(* uuid5 of the anchor, which has neither the version nor the title.       *)
ConceptUid(r, path) == r

(* The paths that were approved before, of this record or another.         *)
ApprovedPaths == {mapping[r].path : r \in {q \in Records : mapping[q] # NoMapping}}

(* allocate-identity with a retained path or without.                      *)
AllocatedPaths(r) == {<<source[r].title, r>>} \cup ApprovedPaths

WriteMapping(r) ==
  /\ \E path \in AllocatedPaths(r), ref \in EntitlementRefs \cup {NoRef} :
       mapping' = [mapping EXCEPT
         ![r] = [path |-> path, uid |-> ConceptUid(r, path), ref |-> ref]]
  /\ UNCHANGED <<source, concepts, renderer, renderCrashes>>

RemoveFile(p) ==
  /\ concepts[p] # NoFile
  /\ concepts' = [concepts EXCEPT ![p] = NoFile]
  /\ UNCHANGED <<source, mapping, renderer, renderCrashes>>

-----------------------------------------------------------------------------

(* _select_acl: a mapped reference must be an entitlement of the source,   *)
(* one that is not mapped must be the only one; else there is none.        *)
SelectedAcl(s, m) ==
  IF m.ref # NoRef THEN {m.ref} \cap s.refs
  ELSE IF Cardinality(s.refs) = 1 THEN s.refs ELSE {}

(* render_concept, and _frontmatter: no content where it raises an error.  *)
Rendered(r, s, m) ==
  {[record |-> r, version |-> s.version, uid |-> m.uid, ref |-> ref] :
     ref \in SelectedAcl(s, m)}

Continues(w, r) == renderer' = [renderer EXCEPT ![w] = r]

LoadSource(w, r, option) ==
  /\ renderer[w].pc = "idle"
  /\ mapping[r] # NoMapping
  /\ Continues(w, [NoRender EXCEPT !.pc = "mapping", !.option = option,
                     !.record = r, !.source = source[r]])
  /\ UNCHANGED <<source, mapping, concepts, renderCrashes>>

(* The mapping is read after the source; then everything is in memory.     *)
LoadMapping(w) ==
  /\ renderer[w].pc = "mapping"
  /\ LET r == renderer[w].record
         m == mapping[r]
     IN  IF Rendered(r, renderer[w].source, m) = {}
         THEN Continues(w, NoRender)
         ELSE \E content \in Rendered(r, renderer[w].source, m) :
                Continues(w, [renderer[w] EXCEPT !.pc = "compare", !.source = NoFile,
                  !.path = m.path, !.content = content])
  /\ UNCHANGED <<source, mapping, concepts, renderCrashes>>

(* There is a file with other bytes.                                       *)
Differs(w) == concepts[renderer[w].path] \notin {NoFile, renderer[w].content}

(* With --check nothing is written, with or without --force.               *)
Compare(w) ==
  /\ renderer[w].pc = "compare"
  /\ \/ /\ renderer[w].option = "check"
        /\ Continues(w, NoRender)
     \/ /\ renderer[w].option = "plain"
        /\ Differs(w)
        /\ Continues(w, NoRender)
     \/ /\ renderer[w].option # "check"
        /\ renderer[w].option = "plain" => ~Differs(w)
        /\ Continues(w, [renderer[w] EXCEPT !.pc = "write"])
  /\ UNCHANGED <<source, mapping, concepts, renderCrashes>>

(* write_bytes empties the file and fills it; an equal file is left alone. *)
Write(w) ==
  /\ renderer[w].pc = "write"
  /\ LET path == renderer[w].path
         content == renderer[w].content
     IN  IF renderer[w].filling
         THEN /\ concepts' = [concepts EXCEPT ![path] = content]
              /\ Continues(w, NoRender)
         ELSE IF concepts[path] = content
         THEN Continues(w, NoRender) /\ UNCHANGED concepts
         ELSE /\ concepts' = [concepts EXCEPT ![path] = TornFile]
              /\ Continues(w, [renderer[w] EXCEPT !.filling = TRUE])
  /\ UNCHANGED <<source, mapping, renderCrashes>>

CrashRender(w) ==
  /\ renderer[w].pc # "idle"
  /\ renderCrashes < MaxRenderCrashes
  /\ renderCrashes' = renderCrashes + 1
  /\ Continues(w, NoRender)
  /\ UNCHANGED <<source, mapping, concepts>>

AuthoringNext ==
  \/ \E r \in Records : EditSource(r) \/ WriteMapping(r)
  \/ \E p \in Paths : RemoveFile(p)
  \/ \E w \in Renderers :
       \/ \E r \in Records, option \in {"plain", "force", "check"} : LoadSource(w, r, option)
       \/ LoadMapping(w) \/ Compare(w) \/ Write(w) \/ CrashRender(w)

AuthoringSpec == AuthoringInit /\ [][AuthoringNext]_authoringVars

-----------------------------------------------------------------------------
Present == {p \in Paths : concepts[p] # NoFile}

(* validate_bundle has no error: a torn file has no frontmatter, and no    *)
(* two files have the same UID.                                            *)
Validates ==
  /\ \A p \in Present : concepts[p] # TornFile
  /\ \A p, q \in Present : concepts[p].uid = concepts[q].uid => p = q

(* render --check of every mapping finds the file as it would render it.   *)
AllMatch ==
  \A r \in Records : mapping[r] # NoMapping =>
    concepts[mapping[r].path] \in Rendered(r, source[r], mapping[r])

(* A bundle that validates and matches its mappings is what the sources    *)
(* say now: every file is the one file of its record, where the mapping    *)
(* has it, of the version the source has, under one of the ACL references  *)
(* the source grants; whatever titles, entitlements and mappings changed,  *)
(* files were left behind, torn or replaced before.                        *)
CheckedBundleIsCurrent ==
  Validates /\ AllMatch =>
    \A p \in Present :
      LET file == concepts[p]
      IN  /\ mapping[file.record] # NoMapping
          /\ p = mapping[file.record].path
          /\ file.version = source[file.record].version
          /\ file.ref \in source[file.record].refs
=============================================================================
