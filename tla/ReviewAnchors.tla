----------------------------- MODULE ReviewAnchors -----------------------------
(***************************************************************************)
(* The lines comments are put on: the views of the diff in the browser     *)
(* (web/review/render-model.ts, review-page.tsx), the daemon's check of an *)
(* anchor (comments/service.ts), and the relocation of a comment when the  *)
(* review is refreshed (comments/relocate.ts).  One comment, one window.   *)
(***************************************************************************)
EXTENDS DiffParser

CONSTANTS
  Changes,     (* the trees of base and head the pull request may have     *)
  Returns,     (* the broken lines that have a carriage return inside      *)
  Around,      (* lines on either side that must be found again            *)
  MaxRevision  (* bound: how often the review is refreshed                 *)

ASSUME AnchorConstants ==
  /\ Changes \subseteq [base: Trees, head: Trees] /\ Returns \subseteq Broken
  /\ {Around, MaxRevision} \subseteq Nat

VARIABLES
  pull,     (* what the review is pinned to                                *)
  rev,      (* the review's revision                                       *)
  page,     (* the diff the browser shows, with its revision, or None      *)
  view,     (* how it shows it: the whole diff or one file in whole        *)
  range,    (* the selected lines: the anchors of the first and the last   *)
  comment,  (* the draft                                                   *)
  text      (* history: the lines the draft was put on                     *)

vars == <<pull, rev, page, view, range, comment, text>>

Sides == {"LEFT", "RIGHT"}
TreeOn(side, t) == IF side = "LEFT" THEN t.base ELSE t.head

(* The lines first..last of a file, as far as there are such lines.        *)
Span(t, side, path, first, last) ==
  LET x == TreeOn(side, t)[path] IN
  IF x = None THEN <<>> ELSE SubSeq(x, first, Min({last, Len(x)}))

(* The revisions a review may be pinned to: the two trees, what git writes *)
(* of them, and the document the daemon reads then.                        *)
Pulls ==
  {[base |-> t.base, head |-> t.head, output |-> o, doc |-> Document(o)]:
     <<t, o>> \in UNION {{t} \X {Output(d, t.base, t.head): d \in GitDiffs(t.base, t.head)}:
                          t \in Changes}}

PathOn(file, side) == IF side = "LEFT" THEN file.old ELSE file.new
LineOn(line, side) == IF side = "LEFT" THEN line.left ELSE line.right

(***************************************************************************)
(* The rows of a view: what the editor shows in each, and the anchors the  *)
(* gutters offer beside it.                                                *)
(***************************************************************************)
Anchor(file, n, side, line) ==
  [path |-> PathOn(file, side), side |-> side, line |-> line, key |-> <<file.old, file.new, n>>]

Row(content, anchors) == [content |-> content, anchors |-> anchors]

DiffRows(doc) ==
  LET anchors(file, n, line) ==
        {Anchor(file, n, side, LineOn(line, side)):
           side \in {s \in Sides: LineOn(line, s) # None /\ PathOn(file, s) # None}}
      hunkRows(file, n) ==
        LET lines == file.hunks[n].lines IN
        <<Row("@@", {})>>
          \o [k \in DOMAIN lines |-> Row(lines[k].content, anchors(file, n, lines[k]))]
      fileRows(file) ==
        <<Row("file", {})>>
          \o Joined(Len(file.hunks), LAMBDA n: hunkRows(file, n))
  IN Joined(Len(doc), LAMBDA i: fileRows(doc[i]))

(* The lines of a file, as split('\n') makes them: the last one is empty.  *)
Split(x) == Append(x, "")

DefaultSide(file) == IF file.new # None THEN "RIGHT" ELSE "LEFT"

(* The hunk a line of the whole file may be commented on with.             *)
CommentableHunks(file, side, line) ==
  {n \in DOMAIN file.hunks:
     \E k \in DOMAIN file.hunks[n].lines: LineOn(file.hunks[n].lines[k], side) = line}

WholeAnchors(file, side, row, lines) ==
  IF row = lines THEN {}
  ELSE {Anchor(file, n, side, row): n \in CommentableHunks(file, side, row)}

(* The editor ends a line at a carriage return, too; the gutters go by the *)
(* row's number all the same (web/review/code-view.tsx:340).               *)
WholeRows(file, x) ==
  LET side == DefaultSide(file)
      shown == Joined(Len(x), LAMBDA k: IF x[k] \in Returns
                                        THEN <<Part(x[k], 1), Part(x[k], 2)>> ELSE <<x[k]>>)
  IN [row \in DOMAIN Split(shown) |->
        Row(Split(shown)[row],
            IF row <= Len(Split(x)) THEN WholeAnchors(file, side, row, Len(Split(x))) ELSE {})]

Rows ==
  IF page = None THEN <<>>
  ELSE IF view = 0 THEN DiffRows(page.doc)
  ELSE LET file == page.doc[view]
           side == DefaultSide(file)
           x == TreeOn(side, page.pull)[PathOn(file, side)]
       IN IF x = None THEN <<>> ELSE WholeRows(file, x)   (* no such file    *)

Offered == UNION {Rows[k].anchors: k \in DOMAIN Rows}

FindAnchor(rows, path, side, line) ==
  {a \in UNION {rows[k].anchors: k \in DOMAIN rows}:
     a.path = path /\ a.side = side /\ a.line = line}

(***************************************************************************)
(* The daemon's check: the lines must be in one hunk of the file's diff.   *)
(***************************************************************************)
InOneHunk(file, side, first, last) ==
  \E n \in DOMAIN file.hunks:
    \A line \in first..last:
      \E k \in DOMAIN file.hunks[n].lines: LineOn(file.hunks[n].lines[k], side) = line

ValidAnchor(doc, path, side, first, last) ==
  /\ doc # None /\ 1 <= first
  /\ \E i \in DOMAIN doc:
       /\ PathOn(doc[i], side) = path
       /\ \A j \in 1..i - 1: PathOn(doc[j], side) # path
       /\ InOneHunk(doc[i], side, first, last)

(***************************************************************************)
(* Relocation.                                                             *)
(***************************************************************************)
Occurs(part, x) ==
  {k \in 0..Len(x) - Len(part): \A n \in DOMAIN part: x[k + n] = part[n]}

Unique(part, x, y) ==
  Cardinality(Occurs(part, x)) = 1 /\ Cardinality(Occurs(part, y)) = 1

(* How a hunk of `git diff --unified=0` moves the lines first..last.       *)
Touches(h, first, last) ==
  IF h.oldLines = 0 THEN first <= h.oldStart /\ h.oldStart < last
  ELSE h.oldStart <= last /\ h.oldStart + h.oldLines > first

ShiftBy(h, first) ==
  IF h.oldLines = 0 THEN IF h.oldStart < first THEN h.newLines ELSE 0
  ELSE IF h.oldStart + h.oldLines <= first THEN h.newLines - h.oldLines ELSE 0

(* How far the lines move, None when it cannot be told.                    *)
MapRange(x, y, patch, first, last) ==
  LET hunks == Hunks(patch, 0)
      offset == MapThenSumSet(LAMBDA h: ShiftBy(h, first), hunks)
      before == Max({0, first - 1 - Around})
      part == SubSeq(Split(x), before + 1, Min({Len(x) + 1, last + Around}))
  IN IF /\ \A h \in hunks: ~Touches(h, first, last)
        /\ before + offset \in Occurs(part, Split(y))
        /\ Unique(part, Split(x), Split(y))
     THEN offset ELSE None

(* Where the new tree has the file: at its path, or else at the one new    *)
(* path that holds the very same text, when only this file held it.        *)
Successor(old, new, path) ==
  IF new[path] # None THEN path
  ELSE LET same(t) == {p \in Paths: t[p] # None /\ t[p] = old[path]} IN
       IF /\ old[path] # None /\ Cardinality(same(new)) = 1 /\ same(old) = {path}
          /\ \A p \in same(new): old[p] = None
       THEN CHOOSE p \in same(new): TRUE ELSE None

Pending(c) == [c EXCEPT !.status = "needs_review"]

(* Slip: the lines it is on keep their numbers.                            *)
MovedInName(c, path, offset, number) == [c EXCEPT !.path = path, !.rev = number]

Moved(c, path, offset, number) ==
  [c EXCEPT !.path = path, !.first = @ + offset, !.last = @ + offset, !.rev = number]

(* The comment of the next revision, with the patch git makes of its file. *)
Relocated(c, t, patch, number) ==
  LET old == TreeOn(c.side, pull)
      new == TreeOn(c.side, t)
      path == Successor(old, new, c.path)
      gone == path = None \/ old[c.path] = None
      offset == CASE gone -> None
                  [] ~gone /\ new[path] = old[c.path] -> 0
                  [] OTHER -> MapRange(old[c.path], new[path], patch, c.first, c.last)
      moved == Moved(c, path, offset, number)
  IN IF c.status = "needs_review" \/ offset = None THEN Pending(c)
     ELSE IF ValidAnchor(t.doc, path, moved.side, moved.first, moved.last) THEN moved
     ELSE Pending(c)

(* The patches git may make for the comment's file; <<>> when none is made.*)
Patches(t) ==
  IF comment = None THEN {<<>>}
  ELSE LET x == TreeOn(comment.side, pull)[comment.path]
           y == TreeOn(comment.side, t)[comment.path]
       IN IF x = None \/ y = None \/ x = y THEN {<<>>} ELSE Scripts[x][y]

(***************************************************************************)
(* The page.                                                               *)
(***************************************************************************)
UpToDate == page # None /\ page.rev = rev

(* What a page forgets when it gets the diff of another revision.          *)
Blank == view' = 0 /\ range' = None

Init ==
  /\ pull \in Pulls /\ rev = 0 /\ page = None /\ view = 0 /\ range = None
  /\ comment = None /\ text = <<>>

(* The daemon reads what git writes, up to its last line or to where git   *)
(* fails.  A page that gets no document shows why, or keeps the diff it    *)
(* has, and asks again.                                                    *)
Load ==
  /\ ~UpToDate
  /\ LET lines == ReadLines(pull.output) IN
     \E cut \in 0..Len(lines), exit \in 0..1:
       LET doc == Get(SubSeq(lines, 1, cut), exit) IN
       /\ exit = 0 => cut = Len(lines)
       /\ doc # None
       /\ page' = [pull |-> pull, rev |-> rev, doc |-> doc]
  /\ Blank
  /\ UNCHANGED <<pull, rev, comment, text>>

(* "Whole file" of the selected file keeps the selected lines.             *)
ShowWhole(i) ==
  /\ page # None /\ view = 0 /\ i \in DOMAIN page.doc /\ view' = i
  /\ UNCHANGED <<pull, rev, page, range, comment, text>>

ShowDiff ==
  /\ page # None /\ view # 0 /\ view' = 0 /\ range' = None
  /\ UNCHANGED <<pull, rev, page, comment, text>>

(* Another file of the diff: the whole view shows that one.                *)
ChooseFile(i) ==
  /\ page # None /\ i \in DOMAIN page.doc
  /\ view' = (IF view = 0 THEN 0 ELSE i) /\ range' = None
  /\ UNCHANGED <<pull, rev, page, comment, text>>

(* A comment's entry in the list brings its lines into the view.           *)
FocusComment ==
  /\ UpToDate /\ comment # None /\ comment.status = "current"
  /\ FindAnchor(DiffRows(page.doc), comment.path, comment.side, comment.last) # {}
  /\ view' = 0 /\ range' = None
  /\ UNCHANGED <<pull, rev, page, comment, text>>

(* Slip: shift-click extends the selection whatever hunk it started in.    *)
ExtendsAcross(a) ==
  range # None /\ range.start.path = a.path /\ range.start.side = a.side

Extends(a) ==
  /\ range # None /\ range.start.path = a.path /\ range.start.side = a.side
  /\ range.start.key = a.key

Selection(a, extend) ==
  IF ~extend \/ ~Extends(a) THEN [start |-> a, end |-> a]
  ELSE IF a.line < range.start.line THEN [start |-> a, end |-> range.start]
  ELSE [start |-> range.start, end |-> a]

SelectAnchor(a, extend) ==
  /\ page # None /\ range' = Selection(a, extend)
  /\ UNCHANGED <<pull, rev, page, view, comment, text>>

(* The composer and "Confirm location" send the selected lines; the daemon *)
(* checks them against its own reading of the diff.  It refuses a request  *)
(* made at another revision.                                               *)
Put(a, b) ==
  /\ UpToDate
  /\ ValidAnchor(pull.doc, b.path, b.side, a.line, b.line)
  /\ comment' = [path |-> b.path, side |-> b.side, first |-> a.line, last |-> b.line,
                 status |-> "current", rev |-> rev]
  /\ text' = Span(pull, b.side, b.path, a.line, b.line)
  /\ range' = None
  /\ UNCHANGED <<pull, rev, page, view>>

Create == comment = None /\ range # None /\ Put(range.start, range.end)
Reanchor ==
  /\ comment # None /\ comment.status = "needs_review" /\ range # None
  /\ Put(range.start, range.end)

RemoveComment ==
  /\ comment # None /\ comment' = None /\ text' = <<>>
  /\ UNCHANGED <<pull, rev, page, view, range>>

(* A refresh to new revisions, if their diff can be read.  A page shows    *)
(* the old ones, and lets one select lines of theirs, until it has the new *)
(* diff.  What becomes of the selection and what becomes of the comment do *)
(* not depend on each other: with a comment, the page and its selection    *)
(* are gone at once.                                                       *)
Refresh(t) ==
  /\ comment = None \/ (view = 0 /\ range = None)
  /\ rev < MaxRevision /\ t.doc # None /\ <<t.base, t.head>> # <<pull.base, pull.head>>
  /\ pull' = t /\ rev' = rev + 1
  /\ \E patch \in Patches(t):
       comment' = IF comment = None THEN None ELSE Relocated(comment, t, patch, rev')
  /\ text' = IF comment # None /\ comment'.status = "current" THEN text ELSE <<>>
  /\ page' = IF comment = None THEN page ELSE None
  /\ UNCHANGED <<view, range>>

Next ==
  \/ Load \/ ShowDiff \/ FocusComment \/ Create \/ Reanchor \/ RemoveComment
  \/ \E i \in 1..2: ShowWhole(i) \/ ChooseFile(i)
  \/ \E a \in Offered, extend \in BOOLEAN: SelectAnchor(a, extend)
  \/ \E t \in Pulls: Refresh(t)

Spec == Init /\ [][Next]_vars
=============================================================================
