---------------------------- MODULE LinkTargets ----------------------------
(***************************************************************************)
(* Where a link of a concept leads: _validate_link (validator.py) decides  *)
(* before a release is built, _internal_target (serving.py) when a body is *)
(* served.  The two read the same text with different code.                *)
(*                                                                         *)
(* A link is an author's: it grows by one segment at a time.  Both walk    *)
(* its segments from the directory of the document, or from the root of    *)
(* the bundle; of each walk there is where it has come to.  A directory is *)
(* the sequence of the names from the bundle root.  A segment may be       *)
(* written with percent escapes; its name is what they stand for, its text *)
(* is another name.  Segments that are empty or "." count for nothing; a   *)
(* link of "." alone and an escaped slash are left out.                    *)
(* Bound: MaxSegments.                                                     *)
(***************************************************************************)
EXTENDS Naturals, SequencesExt

CONSTANTS
  Names,        \* of files and directories
  BundleName,   \* the directory of the bundle, in the root of the file system
  Directories,  \* of documents
  EscapedText,  \* EscapedText[n]: the text of the name n, written with escapes
  NoTarget,
  MaxSegments   \* bound

Up == ".."

ASSUME LinksAssumption ==
  /\ BundleName \in Names
  /\ Up \notin Names
  /\ Directories \subseteq Seq(Names)
  /\ EscapedText \in [Names \cup {Up} -> Names]
  /\ NoTarget \notin Seq(Names)
  /\ MaxSegments \in Nat

VARIABLE
  link   \* the link, and where it leads so far

Segment == [name : Names \cup {Up}, escaped : BOOLEAN]

(* external: a scheme, or two slashes and a host or nothing; slashes: three *)
(* or more, in which urlsplit finds a path and no host.                     *)
Starts == {"external", "slashes", "absolute", "relative"}

LinksInit ==
  \E directory \in Directories, start \in Starts, colon \in BOOLEAN :
    LET base == IF start = "relative" THEN directory ELSE <<>>
    IN  /\ colon => start = "relative"
        /\ link = [start      |-> start,
                   colon      |-> colon,   \* in what precedes the first slash, as in a
                                           \* fragment; a scheme is another start
                   length     |-> 0,       \* segments
                   escaped    |-> FALSE,   \* some segment is
                   resolved   |-> <<BundleName>> \o base,
                   normalized |-> base]

-----------------------------------------------------------------------------
(* Path.resolve: there is nothing above the root of the file system.       *)
Enter(path, name) ==
  IF name # Up THEN Append(path, name) ELSE IF path = <<>> THEN path ELSE Front(path)

(* Mutant: a path that leaves the bundle starts over at its root.          *)
EnterRelativeClamped(path, name) == Enter(path, name)

(* posixpath.normpath: what leaves the start keeps its leading "..".       *)
EnterRelative(path, name) ==
  IF name # Up \/ path = <<>> \/ Last(path) = Up THEN Append(path, name) ELSE Front(path)

(* The service does not unquote.                                           *)
Text(segment) == IF segment.escaped THEN EscapedText[segment.name] ELSE segment.name

AddSegment(segment) ==
  /\ link.length < MaxSegments
  /\ link' = [link EXCEPT !.length = @ + 1,
                          !.escaped = @ \/ segment.escaped,
                          !.resolved = Enter(@, segment.name),
                          !.normalized = EnterRelative(@, Text(segment))]

LinksNext == \E segment \in Segment : AddSegment(segment)

linksVars == <<link>>

LinksSpec == LinksInit /\ [][LinksNext]_linksVars

-----------------------------------------------------------------------------
(* _validate_link: nothing to check, a path in the bundle, or an escape.   *)
Checked(l) == l.start # "external" /\ (l.start = "relative" => l.length # 0)

InBundle(path) == path # <<>> /\ Head(path) = BundleName

ValidatedTarget(l) ==
  IF Checked(l) /\ InBundle(l.resolved) THEN Tail(l.resolved) ELSE NoTarget

(* It leaves the bundle on the way, and may come back by its name.         *)
Leaves(l) == l.normalized # <<>> /\ Head(l.normalized) = Up

(* _internal_target: two slashes are a host's, whatever follows them.      *)
Dropped(l) == l.start \in {"external", "slashes"} \/ l.colon

InternalTarget(l) ==
  IF Dropped(l) \/ l.length = 0 \/ l.normalized = <<>> \/ Leaves(l)
  THEN NoTarget ELSE l.normalized

-----------------------------------------------------------------------------
(* A link without percent escapes that is followed when it is served leads *)
(* to the path that was validated, and in the bundle.  The other way the   *)
(* two differ in four cases only, where the service drops a link that was  *)
(* found valid: a percent escape, a colon before the first slash, a path   *)
(* that leaves the bundle and comes back, and three or more slashes at the *)
(* start (validator.py:190-199, serving.py:757-770).                       *)
LinksLeadWhereValidated ==
  /\ ~link.escaped /\ InternalTarget(link) # NoTarget =>
       InternalTarget(link) = ValidatedTarget(link)
  /\ /\ ~link.escaped /\ ~link.colon /\ ~Leaves(link) /\ link.start # "slashes"
     /\ ValidatedTarget(link) # <<>>
     => ValidatedTarget(link) = InternalTarget(link)
  /\ InternalTarget(link) # NoTarget => InternalTarget(link) \in Seq(Names)
=============================================================================
