---------------------------- MODULE MCReviewAnchors ----------------------------
(* Two paths and short texts: two far changes of a file, renames, a copied *)
(* file, an empty one, and broken lines inside and outside of a hunk, with *)
(* a tail of each kind the parser tells apart.                             *)
EXTENDS ReviewAnchorsProperties, TLC
CONSTANTS path1, path2, a, b, c, cr, sep, asMark, asHunk, asFile

Only(x) == (path1 :> x) @@ (path2 :> None)
Both(x, y) == (path1 :> x) @@ (path2 :> y)

TestChanges ==
  [base: {Only(<<a, b>>)},
   head: {Only(x): x \in {<<>>, <<a, a>>, <<a, a, a>>, <<b, a, b>>}}
         \cup {Both(None, <<a, b>>), Both(None, <<a, a, b>>), Both(<<a, b>>, <<a, b>>),
               Both(<<a>>, <<b, a, b>>), Both(None, None)}]
  \cup [base: {Only(<<a, a>>)}, head: {Only(<<b>>), Only(<<a, a, a>>), Both(None, <<a, a, b>>)}]
  \cup [base: {Only(<<a, a, cr>>)}, head: {Only(<<b, a, cr>>), Only(<<a, cr>>)}]
  \cup [base: {Only(<<a, a, sep>>)}, head: {Only(<<b, a, sep>>), Only(<<a, sep>>)}]
  \cup [base: {Only(<<a, b>>)}, head: {Only(<<a, asHunk>>), Only(<<a, asMark>>)}]
  \cup [base: {Only(<<b, a, a, a, b>>)}, head: {Only(<<c, a, a, a, c>>)}]
  \cup [base: {Only(<<b, asFile, a, a, b>>)}, head: {Only(<<c, asFile, a, a, c>>)}]

TestTexts == {<<>>} \cup (UNION {{t.base[x], t.head[x]}: t \in TestChanges, x \in {path1, path2}} \ {None})

(* What follows the separator in each of the broken lines.                 *)
TestTails ==
  LET line(kind) == [tag |-> "line", prefix |-> kind, content |-> a]
      header(from, old, new) ==
        [tag |-> "@@", header |-> [oldStart |-> from, oldLines |-> old,
                                   newStart |-> from, newLines |-> new]]
  IN (cr :> <<line(" ")>>) @@ (sep :> <<line("+"), header(9, 0, 0)>>)
     @@ (asMark :> <<line("\\")>>) @@ (asHunk :> <<header(2, 0, 1), line("+")>>)
     @@ (asFile :> <<[tag |-> "diff --git", old |-> path2, new |-> path2]>>)
=============================================================================
