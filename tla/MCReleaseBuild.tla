--------------------------- MODULE MCReleaseBuild ---------------------------
(* A small bundle for TLC: two concepts, an asset in a directory named as  *)
(* one of them, and a file that has the name of the manifest.              *)
EXTENDS ReleaseBuild, TLC

TwoConcepts == {"guide.md", "plan.md"}
FourPaths == TwoConcepts \cup {"guide/logo.svg", "META-INF"}

(* The walk has "guide" before "guide.md", and its text has "." before "/". *)
Place(meta, logo, guide, plan) ==
  ("META-INF" :> meta) @@ ("guide/logo.svg" :> logo) @@ ("guide.md" :> guide)
    @@ ("plan.md" :> plan)

Walk  == Place(1, 2, 3, 4)
Texts == Place(1, 3, 2, 4)

Written(form, uid, classification, staleAfter, links, layout) ==
  [form |-> form, uid |-> uid, classification |-> classification,
   staleAfter |-> staleAfter, links |-> links, layout |-> layout]

Guide       == Written("valid", "u1", 0, 2, {}, 0)
GuideSpaced == Written("valid", "u1", 0, 2, {}, 1)
Plan        == Written("valid", "u2", 3, 2, {"guide.md"}, 0)
StalePlan   == Written("valid", "u2", 1, 1, {}, 0)
Refused     == Written("invalid", "u2", 2, 2, {}, 0)
Untagged    == Written("unindexable", "u2", 0, 2, {}, 0)
Bare        == Written("incomplete", "u2", 0, 2, {}, 0)
Text        == Written("unparsable", "u1", 0, 0, {}, 0)

EightDocuments ==
  {Guide, GuideSpaced, Plan, StalePlan, Refused, Untagged, Bare, Text}

ThreeBundles ==
  {Place(None, None, Guide, Plan), Place(None, Text, None, GuideSpaced),
   Place(Text, None, None, Bare)}
=============================================================================
