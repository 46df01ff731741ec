----------------------------- MODULE PatchText -----------------------------
(***************************************************************************)
(* A patch as text and back: what git diff prints (external), the parser   *)
(* of crates/vcs/src/process/patch_parser.rs that reads it line by line,   *)
(* and the text crates/ui/src/detail/format.rs writes for the editor of    *)
(* the detail panel, with the ranges of changed lines it marks.            *)
(*                                                                         *)
(* A line of text is a record of what the tests on its first characters    *)
(* see; characters, numbers in decimal and the headings of hunks are left  *)
(* out.  A deleted "-- a/p" and an added "++ b/p" are printed as the very  *)
(* lines that name the two sides of a file, and are the same records.      *)
(***************************************************************************)
EXTENDS Integers, Sequences, SequencesExt, FiniteSets

CONSTANTS
  Path,      \* paths of files
  Spaced,    \* those holding a space: git ends a side line of theirs in a tab
  Splitting, \* those of Spaced holding " b/", where the header line is split
  Word,      \* contents of lines that look like nothing else
  Decoded,   \* what is left of a content in a String that was split by lines()
  NoPath,    \* the None of FilePatch::old_path and new_path, "/dev/null"
  Subject    \* patches to print: sequences of files

(* The lines of a text. *)
DiffLine(old, new) == [k |-> "diff", old |-> old, new |-> new]
SideLine(side, path) == [k |-> "side", side |-> side, path |-> path]
MoveLine(how, end, path) == [k |-> how, end |-> end, path |-> path]
SimilarityLine(value) == [k |-> "similarity", value |-> value]
HunkLine(hunk) ==
  [k |-> "hunk", old |-> hunk.old, oldLines |-> hunk.oldLines,
   new |-> hunk.new, newLines |-> hunk.newLines]
Bare(k) == [k |-> k]

(* The content of a changed line that, marker included, reads as a side line. *)
LooksLike(side, path) == [looks |-> SideLine(side, path)]
LookAlikes == {LooksLike(side, p) : side \in {"old", "new"}, p \in Path}
Content == Word \cup LookAlikes

Changes == [old |-> "deletion", new |-> "addition"]
BodyLine(origin, content) ==
  IF content \in LookAlikes /\ Changes[content.looks.side] = origin
  THEN content.looks
  ELSE [k |-> "body", origin |-> origin, content |-> content]

----------------------------------------------------------------------------
(* A patch to print is a sequence of files; git prints no empty hunk, and a
   file has the paths its status leaves it. *)
PrintedHunk ==
  [old : Nat, new : Nat,
   body : Seq([origin : {"context", "deletion", "addition"}, content : Content,
               unterminated : BOOLEAN]) \ {<<>>}]

Moved == {"rename", "copy"}

PrintedFile ==
  {file \in [old : Path \cup {NoPath}, new : Path \cup {NoPath},
             status : {"modified", "added", "deleted"} \cup Moved, similarity : Nat,
             mode : BOOLEAN, binary : BOOLEAN, hunks : Seq(PrintedHunk)] :
     /\ file.old = NoPath <=> file.status = "added"
     /\ file.new = NoPath <=> file.status = "deleted"
     /\ file.status \notin Moved => file.similarity = 100
     /\ file.binary => file.hunks = <<>>}

ASSUME PatchTextAssumption ==
  /\ Splitting \subseteq Spaced /\ Spaced \subseteq Path
  /\ NoPath \notin Path
  /\ Subject \subseteq Seq(PrintedFile)
  /\ Decoded \in [Content -> Content]

(* The patch as the parser is handed it: GitRunner::run decodes the output
   lossily, and lines() drops a carriage return at the end of a line. *)
LineAsText(line) == [line EXCEPT !.content = Decoded[line.content]]
HunkAsText(hunk) ==
  [hunk EXCEPT !.body = [i \in DOMAIN hunk.body |-> LineAsText(hunk.body[i])]]
FileAsText(file) ==
  [file EXCEPT !.hunks = [i \in DOMAIN file.hunks |-> HunkAsText(file.hunks[i])]]
AsText(patch) == [i \in DOMAIN patch |-> FileAsText(patch[i])]

CountSide(body, origin) ==
  Cardinality({i \in DOMAIN body : body[i].origin \in {"context", origin}})

(* The hunk with its counts, as FilePatch holds it: every line numbered on
   the sides it is on. *)
Numbered(hunk) ==
  LET before(i, origin) == CountSide(SubSeq(hunk.body, 1, i - 1), origin)
  IN  [old |-> hunk.old, oldLines |-> CountSide(hunk.body, "deletion"),
       new |-> hunk.new, newLines |-> CountSide(hunk.body, "addition"),
       lines |-> [i \in DOMAIN hunk.body |->
         [origin    |-> hunk.body[i].origin,
          oldNumber |-> IF hunk.body[i].origin = "addition" THEN -1
                        ELSE hunk.old + before(i, "deletion"),
          newNumber |-> IF hunk.body[i].origin = "deletion" THEN -1
                        ELSE hunk.new + before(i, "addition"),
          content   |-> hunk.body[i].content]]]

FilePatch(file) ==
  [old |-> file.old, new |-> file.new, status |-> file.status,
   similarity |-> file.similarity, binary |-> file.binary,
   hunks |-> [i \in DOMAIN file.hunks |-> Numbered(file.hunks[i])]]

OtherThan(path, other) == IF path = NoPath THEN other ELSE path
HeaderLine(file) ==
  DiffLine(OtherThan(file.old, file.new), OtherThan(file.new, file.old))
MoveLines(file) ==
  IF file.status \in Moved
  THEN <<SimilarityLine(file.similarity), MoveLine(file.status, "from", file.old),
         MoveLine(file.status, "to", file.new)>>
  ELSE <<>>
When(condition, lines) == IF condition THEN lines ELSE <<>>

(* External: what git diff prints for a file with --no-color and
   core.quotePath=false, the two settings patch_reader gives it, if no other
   setting of the user changes what it prints: the prefixes of paths
   (diff.noprefix), the entry of a submodule (diff.submodule), blank context
   lines (diff.suppressBlankEmpty), the whole of it (diff.external). *)
GitSide(side, path) ==
  SideLine(side, IF path \in Spaced THEN [tabbed |-> path] ELSE path)

GitHunk(hunk) ==
  <<HunkLine(Numbered(hunk))>> \o
  FlattenSeq([i \in DOMAIN hunk.body |->
    <<BodyLine(hunk.body[i].origin, hunk.body[i].content)>>
      \o When(hunk.body[i].unterminated, <<Bare("no newline")>>)])

GitFile(file) ==
  <<HeaderLine(file)>>
  \o When(file.mode, <<Bare("mode")>>)
  \o When(file.status = "added", <<Bare("new file")>>)
  \o When(file.status = "deleted", <<Bare("deleted file")>>)
  \o MoveLines(file)
  \o When(file.binary \/ file.hunks # <<>> \/ file.status \in {"added", "deleted"},
          <<Bare("index")>>)
  \o When(file.binary, <<Bare("binary")>>)
  \o When(file.hunks # <<>>, <<GitSide("old", file.old), GitSide("new", file.new)>>)
  \o FlattenSeq([i \in DOMAIN file.hunks |-> GitHunk(file.hunks[i])])

GitText(files) == FlattenSeq([i \in DOMAIN files |-> GitFile(files[i])])

----------------------------------------------------------------------------
(* write_file, for a file as the parser left it, hunk_heading and side_path:
   the lines, and with them which are marked as additions and deletions. *)
Unmarked(line) == [line |-> line, mark |-> "none"]

WriteHunk(hunk) ==
  <<Unmarked(HunkLine(hunk))>> \o
  [i \in DOMAIN hunk.lines |->
     [line |-> BodyLine(hunk.lines[i].origin, hunk.lines[i].content),
      mark |-> IF hunk.lines[i].origin = "context" THEN "none"
               ELSE hunk.lines[i].origin]]

WriteFile(file) ==
  LET header == <<HeaderLine(file)>> \o MoveLines(file)
      sides == <<SideLine("old", file.old), SideLine("new", file.new)>>
      unmarked == header \o IF file.binary THEN <<Bare("binary")>>
                            ELSE When(file.hunks # <<>>, sides)
  IN  [i \in DOMAIN unmarked |-> Unmarked(unmarked[i])]
      \o When(~file.binary,
              FlattenSeq([i \in DOMAIN file.hunks |-> WriteHunk(file.hunks[i])]))

(* unified_diff_text_with_line_ranges *)
DetailText(files) == FlattenSeq([i \in DOMAIN files |-> WriteFile(files[i])])

(* build_decorations: the lines with the background of each kind, for one of
   the texts the detail panel shows. *)
Decorations(patch) ==
  LET rows == DetailText(patch)
      marked(mark) == {i \in DOMAIN rows : rows[i].mark = mark}
  IN  [added |-> marked("addition"), deleted |-> marked("deletion")]

----------------------------------------------------------------------------
Nothing == Bare("nothing")  \* no file or no hunk is being read

VARIABLES
  committed,\* the patch that was printed, as git holds it
  printer,  \* who printed it: "git", git "cut" short, git "configured" otherwise,
            \* or, of what was read of it, the "detail" panel
  text,     \* its lines
  at,       \* how many have been read
  files,    \* the files read
  header,   \* parse_file's header state and hunks, or Nothing
  body,     \* parse_hunk's state while lines of its body remain, or Nothing
  afterHunk,\* whether the last line read ended a hunk, or is its marker
  marks,    \* what each line read was taken for
  outcome   \* "reading", "patch" or "malformed"

subject == AsText(committed)

patchVars == <<committed, printer, text, at, files, header, body, afterHunk, marks, outcome>>

(* parse_diff_git_header splits at the first " b/". *)
HeaderPaths(line) ==
  IF line.old \in Splitting
  THEN [old |-> [before |-> line.old], new |-> [after |-> line.old, rest |-> line.new]]
  ELSE [old |-> line.old, new |-> line.new]

NewHeader(line) ==
  [old |-> HeaderPaths(line).old, new |-> HeaderPaths(line).new, similarity |-> 100,
   moved |-> "no", added |-> FALSE, deleted |-> FALSE, binary |-> FALSE, hunks |-> <<>>]

(* The end of parse_file.  A move takes precedence over the other statuses. *)
Closed(h) ==
  [old |-> IF h.added THEN NoPath ELSE h.old,
   new |-> IF h.deleted THEN NoPath ELSE h.new,
   status |-> IF h.moved # "no" THEN h.moved
              ELSE IF h.added THEN "added"
              ELSE IF h.deleted THEN "deleted" ELSE "modified",
   similarity |-> IF h.moved # "no" THEN h.similarity ELSE 100,
   binary |-> h.binary, hunks |-> h.hunks]

FilesRead == IF header = Nothing THEN files ELSE Append(files, Closed(header))

(* The state of parse_hunk: cursors, remaining counts and the body so far. *)
OpenHunk(line) ==
  [old |-> line.old, oldLines |-> line.oldLines, new |-> line.new,
   newLines |-> line.newLines, lines |-> <<>>,
   oldLeft |-> line.oldLines, newLeft |-> line.newLines]
HunkRead(h) ==
  [old |-> h.old, oldLines |-> h.oldLines, new |-> h.new, newLines |-> h.newLines,
   lines |-> h.lines]

Reading == outcome = "reading" /\ at < Len(text)
Current == text[at + 1]
Consume(mark) ==
  /\ at' = at + 1
  /\ marks' = Append(marks, mark)
  /\ UNCHANGED <<committed, printer, text, outcome>>

(* parse_patch, and the end of one parse_file at the next header line. *)
StartFile ==
  /\ Reading /\ body = Nothing /\ Current.k = "diff"
  /\ files' = FilesRead
  /\ header' = NewHeader(Current)
  /\ afterHunk' = FALSE
  /\ Consume("none") /\ UNCHANGED body

(* The loop of parse_file, for the lines of a header. *)
HeaderKind == {"mode", "new file", "deleted file", "similarity", "rename", "copy",
               "index", "binary", "side"}

WithLine(h, line) ==
  [h EXCEPT
     !.added = @ \/ line.k = "new file",
     !.deleted = @ \/ line.k = "deleted file",
     !.binary = @ \/ line.k = "binary",
     !.similarity = IF line.k = "similarity" THEN line.value ELSE @,
     !.moved = IF line.k = "rename" \/ (line.k = "copy" /\ @ # "rename")
               THEN line.k ELSE @,
     !.old = IF \/ line.k \in {"rename", "copy"} /\ line.end = "from"
                \/ line.k = "side" /\ line.side = "old" THEN line.path ELSE @,
     !.new = IF \/ line.k \in {"rename", "copy"} /\ line.end = "to"
                \/ line.k = "side" /\ line.side = "new" THEN line.path ELSE @]

ReadHeaderLine ==
  /\ Reading /\ body = Nothing /\ header # Nothing
  /\ Current.k \in HeaderKind
  /\ header' = WithLine(header, Current)
  /\ afterHunk' = FALSE
  /\ Consume("none") /\ UNCHANGED <<files, body>>

StartHunk ==
  /\ Reading /\ body = Nothing /\ header # Nothing
  /\ Current.k = "hunk"
  /\ body' = OpenHunk(Current)
  /\ afterHunk' = FALSE
  /\ Consume("none") /\ UNCHANGED <<files, header>>

(* In the body of a hunk only the first character of a line counts. *)
Origin(line) == IF line.k = "body" THEN line.origin ELSE Changes[line.side]
ContentOf(line) == IF line.k = "body" THEN line.content ELSE [looks |-> line]

(* Mutant: a line that names a side of a file is one inside a hunk, too. *)
BodyWithoutLookAlikes == {"body"}

BodyKind == {"body", "side"}

OnSide(line, side) == Origin(line) \in {"context", Changes[side]}
Remains(line) ==
  /\ OnSide(line, "old") => body.oldLeft > 0
  /\ OnSide(line, "new") => body.newLeft > 0

WithBody(h, line) ==
  LET one(side) == IF OnSide(line, side) THEN 1 ELSE 0 IN
  [h EXCEPT
     !.lines = Append(@,
       [origin    |-> Origin(line),
        oldNumber |-> IF OnSide(line, "old") THEN h.old + h.oldLines - h.oldLeft ELSE -1,
        newNumber |-> IF OnSide(line, "new") THEN h.new + h.newLines - h.newLeft ELSE -1,
        content   |-> ContentOf(line)]),
     !.oldLeft = @ - one("old"),
     !.newLeft = @ - one("new")]

(* The hunk is complete when neither side has lines left. *)
ReadBodyLine ==
  /\ Reading /\ body # Nothing
  /\ Current.k \in BodyKind /\ Remains(Current)
  /\ LET read == WithBody(body, Current) IN
       IF read.oldLeft = 0 /\ read.newLeft = 0
       THEN /\ header' = [header EXCEPT !.hunks = Append(@, HunkRead(read))]
            /\ body' = Nothing /\ afterHunk' = TRUE
       ELSE body' = read /\ UNCHANGED <<header, afterHunk>>
  /\ Consume(IF Origin(Current) = "context" THEN "none" ELSE Origin(Current))
  /\ UNCHANGED files

(* The marker of a missing newline, inside a hunk and right after it. *)
SkipMarker ==
  /\ Reading /\ (body # Nothing \/ afterHunk)
  /\ Current.k = "no newline"
  /\ Consume("none") /\ UNCHANGED <<files, header, body, afterHunk>>

(* Any other line where it stands, and the end of the text. *)
Refuse ==
  /\ Reading
  /\ IF body # Nothing
     THEN ~(Current.k = "no newline" \/ (Current.k \in BodyKind /\ Remains(Current)))
     ELSE /\ Current.k # "diff"
          /\ Current.k = "no newline" => ~afterHunk
          /\ Current.k \in HeaderKind \cup {"hunk"} => header = Nothing
  /\ outcome' = "malformed"
  /\ UNCHANGED <<committed, printer, text, at, files, header, body, afterHunk, marks>>

Finish ==
  /\ outcome = "reading" /\ at = Len(text)
  /\ outcome' = IF body = Nothing THEN "patch" ELSE "malformed"
  /\ files' = FilesRead /\ header' = Nothing
  /\ UNCHANGED <<committed, printer, text, at, body, afterHunk, marks>>

----------------------------------------------------------------------------
(* The texts to read: git's, whole, cut in the middle of a hunk, or up to a
   line the user's configuration puts in the place of a file's first (nothing
   after it is read); and the detail panel's. *)
Lines(rows) == [i \in DOMAIN rows |-> rows[i].line]

CutInHunk(lines) ==
  {SubSeq(lines, 1, n - 1) : n \in {m \in DOMAIN lines : lines[m].k = "body"}}

TextsOf(who, patch) ==
  IF who = "git" THEN {GitText(patch)}
  ELSE IF who = "cut" THEN CutInHunk(GitText(patch))
  ELSE IF who = "configured" THEN {Append(GitText(patch), Bare("foreign"))}
  ELSE {Lines(DetailText([i \in DOMAIN patch |-> FilePatch(patch[i])]))}

PatchInit ==
  /\ committed \in Subject
  /\ printer \in {"git", "cut", "configured", "detail"}
  /\ text \in TextsOf(printer, subject)
  /\ at = 0 /\ files = <<>> /\ header = Nothing /\ body = Nothing
  /\ afterHunk = FALSE /\ marks = <<>> /\ outcome = "reading"

(* Nothing is being read. *)
PatchIdle ==
  /\ committed = <<>> /\ printer = "git" /\ text = <<>>
  /\ at = 0 /\ files = <<>> /\ header = Nothing /\ body = Nothing
  /\ afterHunk = FALSE /\ marks = <<>> /\ outcome = "patch"

PatchNext ==
  \/ StartFile \/ ReadHeaderLine \/ StartHunk \/ ReadBodyLine \/ SkipMarker
  \/ Refuse \/ Finish

----------------------------------------------------------------------------
(* What is read of a file is what was printed: binary flag, hunks with the
   number of every line, and similarity always; the status from git's text
   only, the panel's having no mode lines; the paths, unless one holds a
   space, which git follows by a tab, or " b/", where the header is split. *)
SameFile(read, printed) ==
  /\ read.binary = printed.binary /\ read.hunks = printed.hunks
  /\ read.similarity = printed.similarity
  /\ printer = "git" => read.status = printed.status
  /\ {printed.old, printed.new} \cap Spaced = {} /\ (printer = "git" \/ read.hunks # <<>>)
       => read.old = printed.old /\ read.new = printed.new

(* A patch survives its text: git's output, as its default configuration
   prints it, is read back to the last line whatever its content looks like,
   each content as a String holds it; one that stops inside a hunk or has a
   foreign line is refused and never read short; and in the text of the detail
   panel the marked lines are exactly those a reader of the text takes for
   changed ones (parse_patch, unified_diff_text_with_line_ranges). *)
PatchSurvivesText ==
  outcome # "reading" =>
    IF printer \in {"cut", "configured"} THEN outcome = "malformed"
    ELSE /\ outcome = "patch"
         /\ Len(files) = Len(subject)
         /\ \A i \in DOMAIN subject : SameFile(files[i], FilePatch(subject[i]))
         /\ printer = "detail" =>
              Decorations([i \in DOMAIN subject |-> FilePatch(subject[i])])
                = [added   |-> {i \in DOMAIN marks : marks[i] = "addition"},
                   deleted |-> {i \in DOMAIN marks : marks[i] = "deletion"}]

(* "invoked with `--no-color` and `core.quotePath=false` so a user's own
   configuration cannot change the shape this parser has to understand", says
   patch_parser: git's output is read whatever else is configured. *)
ConfigurationKeepsShape ==
  printer = "configured" /\ outcome # "reading" => outcome = "patch"
=============================================================================
