------------------------------- MODULE DiffParser -------------------------------
(***************************************************************************)
(* The diff of a review (daemon/diffs): what `git diff base...head` writes *)
(* and the parser that turns it, line by line, into a document.            *)
(*                                                                         *)
(* A text is a sequence of lines, each of them ended by a newline.  A tree *)
(* gives each path its text, None where there is no such file.  A broken   *)
(* line has a separator in the middle, at which the line reader ends it.   *)
(* Binary files, modes, quoted paths and files that lack a final newline   *)
(* are left out.                                                           *)
(***************************************************************************)
EXTENDS Integers, FiniteSets, Sequences, SequencesExt, FiniteSetsExt

CONSTANTS
  Paths,      (* two paths                                                 *)
  Texts,      (* the texts of files                                        *)
  Broken,     (* lines with a carriage return, U+2028 or U+2029 inside     *)
  Tails,      (* what comes after it, as the parser takes it               *)
  Context,    (* the lines of context git puts around a change             *)
  None

ASSUME DiffConstants ==
  /\ Cardinality(Paths) = 2 /\ None \notin Paths /\ Context \in Nat
  /\ \A x \in Texts: None \notin ToSet(x)
  /\ DOMAIN Tails = Broken /\ \A l \in Broken: Tails[l] # <<>>

(* piece(1) \o ... \o piece(n)                                             *)
Joined(n, piece(_)) ==
  LET upto[k \in 0..n] == IF k = 0 THEN <<>> ELSE upto[k - 1] \o piece(k) IN upto[n]

Trees == [Paths -> Texts \cup {None}]
TextIn(tree, path) == IF path = None THEN <<>> ELSE tree[path]

(***************************************************************************)
(* git.  A script turns a text into another: it keeps (" "), deletes or    *)
(* adds a line at a time, deletions first.  git picks one that could not   *)
(* keep any line more; which one is its own affair.                        *)
(***************************************************************************)
Taken(script, k, kinds) == Cardinality({m \in 1..k: script[m] \in kinds})
OldLine(script, k) == Taken(script, k, {" ", "-"})
NewLine(script, k) == Taken(script, k, {" ", "+"})

Tidy(x, y, s) ==
  /\ \A k \in 1..Len(s) - 1: ~(s[k] = "+" /\ s[k + 1] = "-")
  /\ \A k, m \in 1..Len(s):
       (k < m /\ s[k] = "-" /\ s[m] = "+" /\ \A n \in k..m: s[n] # " ")
         => x[OldLine(s, k)] # y[NewLine(s, m)]

Transforms(x, y) ==
  LET from[i \in 0..Len(x), j \in 0..Len(y)] ==
        LET put(kind, rest) == {<<kind>> \o s: s \in rest} IN
        IF i = Len(x) /\ j = Len(y) THEN {<<>>}
        ELSE UNION {
          IF i < Len(x) /\ j < Len(y) THEN
            IF x[i + 1] = y[j + 1] THEN put(" ", from[i + 1, j + 1]) ELSE {}
          ELSE {},
          IF i < Len(x) THEN put("-", from[i + 1, j]) ELSE {},
          IF j < Len(y) THEN put("+", from[i, j + 1]) ELSE {} }
  IN from[0, 0]

Scripts == [x \in Texts |-> [y \in Texts |-> {s \in Transforms(x, y): Tidy(x, y, s)}]]

(* The hunks of a script: what changes, with up to c lines around it.      *)
Hunks(script, c) ==
  LET kept == {k \in DOMAIN script:
                 \E m \in DOMAIN script: script[m] # " " /\ k - m \in -c..c}
      runs == {r \in kept \X kept: /\ r[1] <= r[2] /\ r[1]..r[2] \subseteq kept
                                   /\ r[1] - 1 \notin kept /\ r[2] + 1 \notin kept}
      start(before, lines) == IF lines = 0 THEN before ELSE before + 1
      header(f, l) ==
        LET os == OldLine(script, f - 1)  ns == NewLine(script, f - 1)
            ol == OldLine(script, l) - os  nl == NewLine(script, l) - ns
        IN [oldStart |-> start(os, ol), oldLines |-> ol,
            newStart |-> start(ns, nl), newLines |-> nl, first |-> f, last |-> l]
  IN {header(r[1], r[2]): r \in runs}

(* The files of a diff, as pairs of paths: changed, renamed when they have *)
(* a line in common, deleted (the new path is None) or added.              *)
Pairs(old, new) ==
  LET lost == {p \in Paths: old[p] # None /\ new[p] = None}
      found == {p \in Paths: old[p] = None /\ new[p] # None}
      renamed == {r \in lost \X found: ToSet(old[r[1]]) \cap ToSet(new[r[2]]) # {}}
  IN {<<p, p>>: p \in {p \in Paths: old[p] # None /\ new[p] # None /\ old[p] # new[p]}}
     \cup renamed
     \cup {<<p, None>>: p \in {p \in lost: \A r \in renamed: r[1] # p}}
     \cup {<<None, p>>: p \in {p \in found: \A r \in renamed: r[2] # p}}

(* What git may make of two trees: a script for each pair of paths.        *)
GitDiffs(old, new) ==
  LET pairs == Pairs(old, new)
      choices(pair) == Scripts[TextIn(old, pair[1])][TextIn(new, pair[2])]
  IN {d \in [pairs -> UNION {choices(pair): pair \in pairs}]:
        \A pair \in pairs: d[pair] \in choices(pair)}

(* ... and what it then writes, with the header lines that matter.         *)
FileOutput(pair, script, x, y) ==
  LET line(k) == [tag |-> "line", prefix |-> script[k],
                  content |-> IF script[k] = "+" THEN y[NewLine(script, k)]
                                                 ELSE x[OldLine(script, k)]]
      hunk(h) == <<[tag |-> "@@", header |-> h]>>
                   \o [n \in 1..h.last - h.first + 1 |-> line(h.first + n - 1)]
      path(tag, p) == <<[tag |-> tag, path |-> p]>>
      known == IF pair[1] = None THEN pair[2] ELSE pair[1]
      hunks == SetToSortSeq(Hunks(script, Context), LAMBDA g, h: g.first < h.first)
  IN <<[tag |-> "diff --git", old |-> known,
        new |-> IF pair[2] = None THEN known ELSE pair[2]]>>
     \o (CASE pair[1] = None -> path("new file mode", None)
           [] pair[2] = None -> path("deleted file mode", None)
           [] None \notin {pair[1], pair[2]} /\ pair[1] # pair[2] ->
                path("rename from", pair[1]) \o path("rename to", pair[2])
           [] OTHER -> <<>>)
     \o (IF hunks = <<>> THEN <<>> ELSE path("---", pair[1]) \o path("+++", pair[2]))
     \o Joined(Len(hunks), LAMBDA n: hunk(hunks[n]))

Output(diff, old, new) ==
  LET file(pair) == FileOutput(pair, diff[pair], TextIn(old, pair[1]), TextIn(new, pair[2]))
      pairs == SetToSeq(DOMAIN diff)
  IN Joined(Len(pairs), LAMBDA n: file(pairs[n]))

(***************************************************************************)
(* Reading the output.  The line reader (source.ts:42) ends a line also at *)
(* a carriage return and at the Unicode line and paragraph separators:     *)
(* what comes after it may look like any line, or lines, of a diff.        *)
(***************************************************************************)
Part(l, n) == <<l, n>>   (* what a broken line has before and after it     *)

ReadLines(output) ==
  LET read(l) == IF l.tag = "line" /\ l.content \in Broken
                 THEN <<[l EXCEPT !.content = Part(@, 1)]>> \o Tails[l.content]
                 ELSE <<l>>
  IN Joined(Len(output), LAMBDA n: read(output[n]))

(* A tail that starts as a line of a hunk does makes the hunk too long, or *)
(* is refused.  "\ No newline at end of file", a hunk header and the start *)
(* of a file take nothing from the count: the parser may believe them.     *)
Misleads(tail) == tail[1].tag # "line" \/ tail[1].prefix = "\\"

Deceives(output) ==
  \E l \in ToSet(output):
    l.tag = "line" /\ l.content \in Broken /\ Misleads(Tails[l.content])

(***************************************************************************)
(* The parser, a step for each line.                                       *)
(***************************************************************************)
Parser == [ok |-> TRUE, files |-> <<>>, file |-> None, hunk |-> None]
Fail(p) == [p EXCEPT !.ok = FALSE]

FinishHunk(p) ==
  IF p.hunk = None THEN p
  ELSE IF \/ p.hunk.left - p.hunk.oldStart # p.hunk.oldLines
          \/ p.hunk.right - p.hunk.newStart # p.hunk.newLines
       THEN Fail(p)
       ELSE [p EXCEPT !.file.hunks = Append(@, p.hunk), !.hunk = None]

FinishFile(p) ==
  LET q == FinishHunk(p) IN
  IF q.file = None THEN q
  ELSE IF q.file.old = None /\ q.file.new = None THEN Fail(q)
  ELSE [q EXCEPT !.files = Append(@, q.file), !.file = None]

HunkHeader(h) ==
  [oldStart |-> h.oldStart, oldLines |-> h.oldLines, newStart |-> h.newStart,
   newLines |-> h.newLines, left |-> h.oldStart, right |-> h.newStart, lines |-> <<>>]

HunkLine(p, l) ==
  LET h == p.hunk
      last == Len(h.lines)
      old == l.prefix \in {" ", "-"}
      new == l.prefix \in {" ", "+"}
      parsed == [kind |-> l.prefix, content |-> l.content,
                 left |-> IF old THEN h.left ELSE None,
                 right |-> IF new THEN h.right ELSE None, noNewline |-> FALSE]
  IN IF l.prefix = "\\"
     THEN IF last = 0 \/ h.lines[last].noNewline THEN Fail(p)
          ELSE [p EXCEPT !.hunk.lines[last].noNewline = TRUE]
     ELSE IF ~old /\ ~new THEN Fail(p)
     ELSE [p EXCEPT !.hunk.lines = Append(@, parsed),
                    !.hunk.left = IF old THEN @ + 1 ELSE @,
                    !.hunk.right = IF new THEN @ + 1 ELSE @]

Metadata(p, l) ==
  CASE l.tag = "new file mode" -> [p EXCEPT !.file.old = None, !.file.status = "added"]
    [] l.tag = "deleted file mode" -> [p EXCEPT !.file.new = None, !.file.status = "deleted"]
    [] l.tag = "rename from" -> [p EXCEPT !.file.old = l.path, !.file.status = "renamed"]
    [] l.tag = "rename to" -> [p EXCEPT !.file.new = l.path, !.file.status = "renamed"]
    [] l.tag = "---" -> [p EXCEPT !.file.old = l.path]
    [] l.tag = "+++" -> [p EXCEPT !.file.new = l.path]
    [] OTHER -> Fail(p)

Push(p, l) ==
  IF ~p.ok THEN p
  ELSE IF l.tag = "diff --git"
       THEN [FinishFile(p) EXCEPT !.file = [old |-> l.old, new |-> l.new,
                                            status |-> "modified", hunks |-> <<>>]]
  ELSE IF p.file = None THEN Fail(p)
  ELSE IF l.tag = "@@" THEN [FinishHunk(p) EXCEPT !.hunk = HunkHeader(l.header)]
  ELSE IF p.hunk # None THEN IF l.tag = "line" THEN HunkLine(p, l) ELSE Fail(p)
  ELSE Metadata(p, l)

Parse(lines) ==
  LET after[n \in 0..Len(lines)] == IF n = 0 THEN Parser ELSE Push(after[n - 1], lines[n])
  IN FinishFile(after[Len(lines)])


(* The document, None when git failed or its output could not be parsed.   *)
Get(lines, exit) ==
  LET p == Parse(lines) IN IF exit = 0 /\ p.ok THEN p.files ELSE None

(* What the daemon reads when nothing cuts git short.                      *)
Document(output) == Get(ReadLines(output), 0)
=============================================================================
