----------------------------- MODULE TextWindow -----------------------------
(***************************************************************************)
(* The text algorithms of fs.read and fs.diff (atelia-core/src/tools.rs).  *)
(* A text is a sequence of bytes: NL and CR, Nul, a lead byte that needs   *)
(* one continuation byte, a continuation byte, and ASCII characters.  The  *)
(* machine picks an input and computes the answer; the properties compare  *)
(* it with what the text says.                                             *)
(***************************************************************************)
EXTENDS Integers, SequencesExt, FiniteSetsExt, TLC

CONSTANTS WindowTexts,  \* what fs.read reads
          Limits,       \* [start, lines, chars, bytes, scan, numbers]: how it is asked to
          DiffTexts,    \* what fs.diff compares
          DiffLimits,   \* [chars, bytes]: how it is asked to
          CutTexts,     \* what is cut to a number of characters and bytes
          MaxCut

NL == "nl"
CR == "cr"
Nul == "nul"
Lead == "lead"
Cont == "cont"

VARIABLES job, answer

vars == <<job, answer>>

----------------------------------------------------------------------------
(* UTF-8.                                                                  *)

IsLead(text, i) == i \in 1..Len(text) /\ text[i] = Lead
IsCont(text, i) == i \in 1..Len(text) /\ text[i] = Cont

Valid(text) == \A i \in 0..Len(text) : IsLead(text, i) = IsCont(text, i + 1)

\* Only the last character is incomplete.
CutShort(text) ==
  text # <<>> /\ Last(text) = Lead /\ Valid(Front(text))

CharCount(text) == Cardinality({i \in DOMAIN text : text[i] # Cont})

is_char_boundary(text, n) == n = Len(text) \/ text[n + 1] # Cont

\* The longest prefix of at most n characters.
TakeChars(text, n) ==
  SubSeq(text, 1, Max({k \in 0..Len(text) :
                         is_char_boundary(text, k) /\ CharCount(SubSeq(text, 1, k)) <= n}))

truncate_utf8_to_byte_boundary(text, limit) ==
  IF limit >= Len(text) THEN text
  ELSE SubSeq(text, 1, Max({k \in 0..limit : is_char_boundary(text, k)}))

truncate_utf8_by_chars(text, max_chars) ==
  LET kept == TakeChars(text, max_chars)
  IN [text |-> kept, truncated |-> kept # text]

truncate_utf8_by_chars_and_bytes(text, max_chars, max_bytes) ==
  LET limited == truncate_utf8_by_chars(text, max_chars)
  IN IF Len(limited.text) <= max_bytes THEN limited
     ELSE [text |-> truncate_utf8_to_byte_boundary(limited.text, max_bytes),
           truncated |-> TRUE]

----------------------------------------------------------------------------
(* Lines.                                                                  *)

\* Where a line that starts after position p ends, its newline included.
LineEnd(text, p) ==
  LET ends == {i \in (p + 1)..Len(text) : text[i] = NL}
  IN IF ends = {} THEN Len(text) ELSE Min(ends)

\* A line without its newline, or without its CR and newline.
Chomp(line) ==
  IF line = <<>> \/ Last(line) # NL THEN line
  ELSE IF Len(line) > 1 /\ line[Len(line) - 1] = CR THEN SubSeq(line, 1, Len(line) - 2)
  ELSE Front(line)

LineStarts(text) == {p \in 0..(Len(text) - 1) : p = 0 \/ text[p] = NL}

\* str::lines
Lines(text) ==
  LET starts == SetToSortSeq(LineStarts(text), <)
  IN [i \in DOMAIN starts |-> Chomp(SubSeq(text, starts[i] + 1, LineEnd(text, starts[i])))]

----------------------------------------------------------------------------
(* read_text_window, one pass of its loop per step.                        *)

ReadWindow ==
  [content |-> <<>>, end_line |-> 0, line_count |-> 0, retained_source_bytes |-> 0,
   used_chars |-> 0, used_bytes |-> 0, scanned_bytes |-> 0, newline_bytes |-> 0,
   current_line |-> 0, by |-> {}, done |-> FALSE, error |-> FALSE]

LinePrefix(n) == <<ToString(n), ":", " ">>

retained_source_bytes_for_rendered_chars(line, numbers, count) ==
  Len(TakeChars(line, Max({0, count - (IF numbers THEN 3 ELSE 0)})))

retained_source_bytes_for_rendered_bytes(line, numbers, count) ==
  IF count = 0 THEN 0 ELSE Min({Max({0, count - (IF numbers THEN 3 ELSE 0)}), Len(line)})

More(w, q) == w.scanned_bytes < Len(q.text)

\* The loop ends; the limit is named when there is more to read.
EndBy(w, q, limit) ==
  [w EXCEPT !.done = TRUE, !.by = IF More(w, q) THEN @ \cup {limit} ELSE @]

Truncated(w, limit) == [w EXCEPT !.done = TRUE, !.by = @ \cup {limit}]

\* A line that is rendered whole.
AddLine(w, line, rendered, newline) ==
  [w EXCEPT !.content = @ \o rendered,
            !.used_chars = @ + CharCount(rendered),
            !.used_bytes = @ + Len(rendered),
            !.retained_source_bytes = @ + Len(line),
            !.line_count = @ + 1,
            !.end_line = w.current_line,
            !.newline_bytes = newline,
            !.done = "scan" \in w.by]

\* The part of a line that still fits, by characters or by bytes.
AddPart(w, part, retained, limit) ==
  [w EXCEPT !.content = @ \o part,
            !.retained_source_bytes = @ + retained,
            !.line_count = @ + 1,
            !.end_line = w.current_line,
            !.by = @ \cup {limit}, !.done = TRUE]

\* The separator goes in when something is there already.
AddSeparator(w) ==
  IF w.content = <<>> THEN w
  ELSE [w EXCEPT !.content = Append(@, NL), !.used_chars = @ + 1, !.used_bytes = @ + 1,
                 !.retained_source_bytes = @ + w.newline_bytes]

RenderLine(w, q, line, newline) ==
  LET rendered  == (IF q.numbers THEN LinePrefix(w.current_line) ELSE <<>>) \o line
      separator == IF w.content = <<>> THEN 0 ELSE 1
      v         == AddSeparator(w)
      room      == q.chars - v.used_chars
      fits(max) == v.used_bytes + Len(rendered) <= max
      cut(max)  == truncate_utf8_to_byte_boundary(rendered, Max({0, max - v.used_bytes}))
  IN IF w.used_chars + separator >= q.chars THEN Truncated(w, "chars")
     ELSE IF \E max \in q.bytes : w.used_bytes + separator > max THEN Truncated(w, "bytes")
     ELSE IF CharCount(rendered) > room
       THEN AddPart(v, TakeChars(rendered, room),
                    retained_source_bytes_for_rendered_chars(line, q.numbers, room), "chars")
     ELSE IF \E max \in q.bytes : ~fits(max)
       THEN LET part == cut(CHOOSE max \in q.bytes : TRUE)
            IN IF part = <<>> THEN Truncated(v, "bytes")
               ELSE AddPart(v, part,
                      retained_source_bytes_for_rendered_bytes(line, q.numbers, Len(part)),
                      "bytes")
     ELSE AddLine(v, line, rendered, newline)

\* A line is read, at most up to the scan limit.
ReadLine(w, q) ==
  LET from    == w.scanned_bytes
      to      == Min({LineEnd(q.text, from), q.scan})
      raw     == SubSeq(q.text, from + 1, to)
      ended   == raw # <<>> /\ Last(raw) = NL
      line    == Chomp(raw)
      cut     == ~ended /\ to >= q.scan /\ to < Len(q.text)
      v       == [w EXCEPT !.scanned_bytes = to, !.current_line = @ + 1,
                           !.by = IF cut THEN @ \cup {"scan"} ELSE @]
      newline == Len(raw) - Len(line)
  IN IF raw = <<>> THEN [w EXCEPT !.done = TRUE]
     ELSE IF v.current_line < q.start THEN [v EXCEPT !.done = cut]
     ELSE IF \E i \in DOMAIN line : line[i] = Nul THEN [v EXCEPT !.error = TRUE, !.done = TRUE]
     ELSE IF Valid(line) THEN RenderLine(v, q, line, newline)
     ELSE IF cut /\ CutShort(line) THEN RenderLine(v, q, Front(line), newline)
     ELSE [v EXCEPT !.error = TRUE, !.done = TRUE]

LoopBody(w, q) ==
  IF w.done THEN w
  ELSE IF w.current_line >= q.start /\ w.line_count >= q.lines THEN EndBy(w, q, "lines")
  ELSE IF w.current_line >= q.start /\ w.used_chars >= q.chars THEN EndBy(w, q, "chars")
  ELSE IF w.current_line >= q.start /\ \E max \in q.bytes : w.used_bytes >= max
    THEN EndBy(w, q, "bytes")
  ELSE IF w.scanned_bytes >= q.scan THEN EndBy(w, q, "scan")
  ELSE ReadLine(w, q)

\* Every pass but the last reads a byte.
read_text_window(q) ==
  FoldLeft(LAMBDA w, i : LoopBody(w, q), ReadWindow, [i \in 1..(Len(q.text) + 1) |-> i])

----------------------------------------------------------------------------
(* fs.diff: line k of one text against line k of the other, after a header *)
(* that names the files.                                                   *)

DiffHeader == <<"left", NL, "right", NL>>

Marked(mark, lines, k) == IF k \in DOMAIN lines THEN <<mark>> \o lines[k] \o <<NL>> ELSE <<>>

DiffLine(left, right, k) ==
  IF k \in DOMAIN left \cap DOMAIN right /\ left[k] = right[k]
    THEN Marked(" ", left, k)
    ELSE Marked("-", left, k) \o Marked("+", right, k)

render_line_diff(left, right) ==
  LET l == Lines(left)
      r == Lines(right)
  IN IF left = right THEN <<>>
     ELSE DiffHeader \o FlattenSeq([k \in 1..Max({Len(l), Len(r)}) |-> DiffLine(l, r, k)])

\* A file is read whole or not at all.
read_entire_text_file_from_open_file(text, max_bytes) ==
  IF Len(text) > max_bytes \/ ~Valid(text) THEN {} ELSE {text}

FsDiffTool(q) ==
  LET read(text) == read_entire_text_file_from_open_file(text, q.bytes)
  IN IF read(q.left) = {} \/ read(q.right) = {} THEN [error |-> TRUE]
     ELSE LET cut == truncate_utf8_by_chars_and_bytes(render_line_diff(q.left, q.right),
                                                      q.chars, q.bytes)
          IN [error |-> FALSE, diff |-> cut.text, changed |-> q.left # q.right,
              truncated |-> cut.truncated]

----------------------------------------------------------------------------
Answer(j) ==
  CASE j.kind = "window" -> read_text_window(j.input)
    [] j.kind = "diff" -> FsDiffTool(j.input)
    [] j.kind = "cut" -> truncate_utf8_by_chars_and_bytes(j.input.text, j.input.chars, j.input.bytes)

WindowJobs ==
  \E text \in WindowTexts, l \in Limits :
    job = [kind |-> "window",
           input |-> [text |-> text, start |-> l.start, lines |-> l.lines, chars |-> l.chars,
                      bytes |-> l.bytes, scan |-> l.scan, numbers |-> l.numbers]]

DiffJobs ==
  \E left, right \in DiffTexts, l \in DiffLimits :
    job = [kind |-> "diff",
           input |-> [left |-> left, right |-> right, chars |-> l.chars, bytes |-> l.bytes]]

CutJobs ==
  \E text \in CutTexts, chars, bytes \in 0..MaxCut :
    job = [kind |-> "cut", input |-> [text |-> text, chars |-> chars, bytes |-> bytes]]

Init ==
  /\ WindowJobs \/ DiffJobs \/ CutJobs
  /\ answer = <<>>

Next ==
  /\ answer = <<>>
  /\ answer' = Answer(job)
  /\ UNCHANGED job

Spec == Init /\ [][Next]_vars

----------------------------------------------------------------------------
Done(kind) == job.kind = kind /\ answer # <<>>

\* The lines from the first one asked for, as the window renders them.
Wanted(q) ==
  LET lines == Lines(q.text)
  IN [i \in 1..Max({0, Len(lines) - q.start + 1}) |->
        (IF q.numbers THEN LinePrefix(i + q.start - 1) ELSE <<>>) \o lines[i + q.start - 1]]

Joined(lines) ==
  FlattenSeq([i \in DOMAIN lines |-> IF i = 1 THEN lines[i] ELSE <<NL>> \o lines[i]])

WithoutLeadingBlanks(text) ==
  LET rest == {i \in DOMAIN text : text[i] # NL}
  IN IF rest = {} THEN <<>> ELSE SubSeq(text, Min(rest), Len(text))

\* What a window shows is the beginning of the lines asked for, and all of them when it
\* names no limit.  Blank lines before the first other line are left out of the text, since
\* a separator is only put after text (read_text_window); they are counted in line_count
\* and are not reported as truncation.  A lone CR before the scan limit counts as part of
\* its line.
WindowShowsTheText ==
  Done("window") /\ ~answer.error =>
    LET whole == WithoutLeadingBlanks(Joined(Wanted(job.input)))
    IN IF answer.by = {}
         THEN answer.content = whole /\ answer.line_count = Len(Wanted(job.input))
         ELSE "scan" \notin answer.by => IsPrefix(answer.content, whole)

\* The text up to its last separator.
BeforeLastLine(text) == SubSeq(text, 1, Max({0} \cup {i \in DOMAIN text : text[i] = NL}))

\* No window is longer than its limits, and none ends inside a character.  The limit on
\* bytes holds for all but a last line that the limit on characters has cut, which is not
\* held to it (read_text_window).
WindowsKeepTheirLimits ==
  Done("window") /\ ~answer.error =>
    /\ CharCount(answer.content) <= job.input.chars
    /\ \A max \in job.input.bytes :
         Len(IF "chars" \in answer.by THEN BeforeLastLine(answer.content)
                                      ELSE answer.content) <= max
    /\ answer.line_count <= job.input.lines
    /\ answer.retained_source_bytes <= answer.scanned_bytes
    /\ answer.scanned_bytes <= job.input.scan
    /\ Valid(answer.content)

\* A limit on lines that is reached exactly at the end of the file does not count as
\* truncation.
LineLimitIsReal ==
  Done("window") /\ "lines" \in answer.by =>
    Len(Lines(job.input.text)) > answer.end_line

\* The lines of a diff after its header, and those of them that carry none of the marks.
DiffBody(diff) ==
  LET body   == SubSeq(diff, Len(DiffHeader) + 1, Len(diff))
      starts == SetToSortSeq(LineStarts(body), <)
  IN [i \in DOMAIN starts |-> SubSeq(body, starts[i] + 1, LineEnd(body, starts[i]) - 1)]

Unmarked(lines, mark) ==
  LET kept == SelectSeq(lines, LAMBDA d : d[1] # mark)
  IN [i \in DOMAIN kept |-> Tail(kept[i])]

\* Who reads an answer of fs.diff that reports no truncation knows both texts line by
\* line: the lines without "+" are the left one's, those without "-" the right one's.
\* Whatever was cut, `changed` says whether the files differ (FsDiffTool::execute).
DiffTellsBoth ==
  Done("diff") /\ ~answer.error =>
    /\ answer.changed = (job.input.left # job.input.right)
    /\ Len(answer.diff) <= job.input.bytes /\ Valid(answer.diff)
    /\ ~answer.truncated =>
         IF answer.changed
           THEN /\ Unmarked(DiffBody(answer.diff), "+") = Lines(job.input.left)
                /\ Unmarked(DiffBody(answer.diff), "-") = Lines(job.input.right)
           ELSE answer.diff = <<>>

\* A cut text is the longest prefix of whole characters within both limits, and is
\* reported as truncated exactly when something is gone.
CutsAreTight ==
  Done("cut") =>
    LET fits(k) == /\ is_char_boundary(job.input.text, k)
                   /\ k <= job.input.bytes
                   /\ CharCount(SubSeq(job.input.text, 1, k)) <= job.input.chars
        n       == Len(answer.text)
    IN /\ answer.text = SubSeq(job.input.text, 1, n)
       /\ n = Max({k \in 0..Len(job.input.text) : fits(k)})
       /\ answer.truncated = (n < Len(job.input.text))

\* Windows, diffs and cuts show a text as it is, up to the limits they name: the properties
\* above together.
TextsAreShown ==
  /\ WindowShowsTheText /\ WindowsKeepTheirLimits /\ LineLimitIsReal
  /\ DiffTellsBoth /\ CutsAreTight

=============================================================================
