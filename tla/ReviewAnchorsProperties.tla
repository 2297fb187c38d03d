------------------------ MODULE ReviewAnchorsProperties ------------------------
(* What a diff and the comments on its lines must guarantee.               *)
EXTENDS ReviewAnchors

Anchors == [path: Paths, side: Sides, line: Nat,
            key: (Paths \cup {None}) \X (Paths \cup {None}) \X Nat]
Comments == [path: Paths, side: Sides, first: Nat, last: Nat,
             status: {"current", "needs_review"}, rev: 0..MaxRevision]

(* The types; a selection is in the order of its lines, and only a comment *)
(* that awaits its place may be of an earlier revision.                    *)
TypeOK ==
  /\ pull \in Pulls /\ rev \in 0..MaxRevision
  /\ page = None \/ (page.pull \in Pulls /\ page.rev <= rev /\ view \in 0..Len(page.doc))
  /\ range = None \/ (range \in [start: Anchors, end: Anchors]
                      /\ range.start.line <= range.end.line)
  /\ comment = None \/ (comment \in Comments /\ comment.first <= comment.last
                        /\ (comment.status = "current" => comment.rev = rev))

(* A document that is shown is the whole truth: applied to the base it     *)
(* gives the head, wherever git's output was cut short and however its     *)
(* lines were broken up on the way, unless the rest of a broken line       *)
(* misleads the parser; and only an output with a broken line in it is     *)
(* refused (diffs/source.ts:42, parser.ts:51, 71, 106, 194).               *)
Apply(file, x) ==
  LET step(done, h) ==
        LET start == IF h.oldLines = 0 THEN h.oldStart ELSE h.oldStart - 1
            new == SelectSeq(h.lines, LAMBDA l: l.right # None)
        IN [out |-> done.out \o SubSeq(x, done.at + 1, start)
                      \o [n \in DOMAIN new |-> new[n].content],
            at |-> start + h.oldLines]
      done == FoldLeft(step, [out |-> <<>>, at |-> 0], file.hunks)
  IN done.out \o SubSeq(x, done.at + 1, Len(x))

Applied(doc, old) ==
  [p \in Paths |->
    LET here == {file \in ToSet(doc): file.new = p} IN
    IF here # {} THEN LET file == CHOOSE f \in here: TRUE IN Apply(file, TextIn(old, file.old))
    ELSE IF \E file \in ToSet(doc): file.old = p THEN None
    ELSE old[p]]


(* Every line the gutters let one select, in either view, is the line that *)
(* is shown beside it, in a document that is true; a whole file with a     *)
(* carriage return inside a line is the exception                          *)
(* (web/review/render-model.ts:92, code-view.tsx:340).                     *)
BesideItsLine ==
  page # None /\ ~Deceives(page.pull.output) =>
    \A k \in DOMAIN Rows: \A a \in Rows[k].anchors:
      LET x == TreeOn(a.side, page.pull)[a.path] IN
      (view = 0 \/ Returns \cap ToSet(x) = {}) =>
        x # None /\ a.line \in DOMAIN x /\ Rows[k].content = x[a.line]

(* What the page lets one select, the daemon accepts as a comment's place, *)
(* however the selection was extended and the view changed in between, and *)
(* though the diff was replaced by that of another revision                *)
(* (web/review/review-page.tsx:259, 367, comments/service.ts:129).         *)
OfferedIsAccepted ==
  UpToDate /\ range # None =>
    ValidAnchor(pull.doc, range.end.path, range.end.side,
                range.start.line, range.end.line)

(* A current comment is on the lines it was put on, after any number of    *)
(* refreshes, renames and changes of the base (comments/relocate.ts:14,    *)
(* "Ambiguous/mutated ranges never become submit-ready").                  *)
CommentKeepsText ==
  (comment # None /\ comment.status = "current") =>
    Span(pull, comment.side, comment.path, comment.first, comment.last) = text

(* A current comment's card is shown: both its lines have an anchor in the *)
(* diff on the page, and in one hunk (review-page.tsx:430, 1164).          *)
CommentIsShown ==
  (comment # None /\ comment.status = "current" /\ UpToDate) =>
    LET at(line) == FindAnchor(DiffRows(page.doc), comment.path, comment.side, line) IN
    \E a \in at(comment.first), b \in at(comment.last): a.key = b.key

(* Where a comment moves does not hang on which of several equally good    *)
(* diffs git makes: two of them never place it differently                 *)
(* (comments/relocate.ts:161).                                             *)
MoveIsUnambiguous ==
  [][comment # None /\ rev' # rev =>
       Cardinality({m \in {Relocated(comment, pull', patch, rev'): patch \in Patches(pull')}:
                      m.status = "current"}) <= 1]_vars

(* Selecting lines is safe: what is selected are the lines one sees, and   *)
(* the daemon takes them; and the variables are typed.                     *)
AnchorsAreTrue == TypeOK /\ BesideItsLine /\ OfferedIsAccepted

(* A comment that is still called current after a refresh is on its text,  *)
(* can be seen, and is there for no accident of the diff.                  *)
CommentsFollow == [](CommentKeepsText /\ CommentIsShown) /\ MoveIsUnambiguous
=============================================================================
