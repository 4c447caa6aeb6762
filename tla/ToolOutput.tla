----------------------------- MODULE ToolOutput -----------------------------
(***************************************************************************)
(* Tool output: how the runtime bounds a result before it stores it        *)
(* (atelia-core/src/runtime.rs), and how a stored result is rendered, at   *)
(* the end of the run and later on request, under settings that may have   *)
(* changed in between (tool_output.rs, settings.rs, and render_tool_output *)
(* of ateliad/src/service.rs).                                             *)
(*                                                                         *)
(* A text is the sequence of the widths of its characters in bytes.  The   *)
(* value of a field is a string (one text), a list of strings, or          *)
(* something else, which no budget touches; the text that a spill leaves   *)
(* also has the artifact that it names.                                    *)
(***************************************************************************)
EXTENDS Integers, Sequences, FiniteSets, SequencesExt, FiniteSetsExt

CONSTANTS Results,    \* results that a tool may return
          Defaults,   \* tool output defaults that settings may resolve to
          Options,    \* render options of a run: at most one each
          Spillovers, \* thresholds of a run's own spillover: at most one each
          RefBytes,   \* length of the text "artifact_ref" and a path
          MaxUpdates  \* bound: changes of the settings

VARIABLES result,    \* the tool's result
          defaults,  \* what the settings resolve to now
          stored,    \* the stored result, if the run stored one
          artifacts, \* values of the artifacts that the run wrote
          ran,       \* the run: its defaults, policy and answer
          answer,    \* the last answer of render_tool_output
          updates

vars == <<result, defaults, stored, artifacts, ran, answer, updates>>

----------------------------------------------------------------------------
(* Texts and budgets.                                                      *)

monus(a, b) == IF a > b THEN a - b ELSE 0

Size(text) == MapThenSumSet(LAMBDA i : text[i], DOMAIN text)

\* A list's strings are counted with a separator between them.
string_list_byte_len(texts) ==
  MapThenSumSet(LAMBDA i : Size(texts[i]), DOMAIN texts) + monus(Len(texts), 1)

oversized_field_bytes(field, max) ==
  IF field.value.kind = "other" \/ string_list_byte_len(field.value.texts) <= max THEN {}
  ELSE {string_list_byte_len(field.value.texts)}

\* The longest prefix of whole characters.
truncate_string_value(text, max) ==
  SubSeq(text, 1, Max({n \in 0..Len(text) : Size(SubSeq(text, 1, n)) <= max}))

\* The runtime's: a prefix of the list whose last string may be cut.
truncate_string_list(texts, max) ==
  FoldLeft(LAMBDA acc, i :
             LET sep == IF i > 1 THEN 1 ELSE 0
                 remaining == monus(max, acc.bytes + sep)
                 kept == truncate_string_value(texts[i], remaining)
             IN  IF acc.done \/ remaining = 0 \/ (kept = << >> /\ texts[i] # << >>)
                 THEN [acc EXCEPT !.done = TRUE]
                 ELSE [kept |-> Append(acc.kept, kept),
                       bytes |-> acc.bytes + sep + Size(kept),
                       done |-> kept # texts[i]],
           [kept |-> << >>, bytes |-> 0, done |-> FALSE],
           [i \in DOMAIN texts |-> i])

\* The renderer's: strings of which nothing is kept are passed over.
RenderedList(texts, max) ==
  FoldLeft(LAMBDA acc, text :
             LET sep == IF acc.kept # << >> THEN 1 ELSE 0
                 remaining == monus(max, acc.bytes + sep)
                 kept == truncate_string_value(text, remaining)
             IN  IF acc.done \/ remaining = 0 THEN [acc EXCEPT !.done = TRUE]
                 ELSE IF kept = << >> THEN acc
                 ELSE [acc EXCEPT !.kept = Append(@, kept),
                                  !.bytes = @ + sep + Size(kept)],
           [kept |-> << >>, bytes |-> 0, done |-> FALSE],
           texts)

\* A field over the budget, cut in the run or by a rendering, and the bytes kept.
CutField(field, max, rendering) ==
  LET cut == IF field.value.kind = "string"
             THEN LET text == truncate_string_value(field.value.texts[1], max)
                  IN  [kept |-> <<text>>, bytes |-> Size(text)]
             ELSE LET l == IF rendering THEN RenderedList(field.value.texts, max)
                            ELSE truncate_string_list(field.value.texts, max)
                  IN  [kept |-> l.kept, bytes |-> l.bytes]
  IN  [field |-> [field EXCEPT !.value = [@ EXCEPT !.texts = cut.kept, !.ref = {}]],
       bytes |-> cut.bytes]

Truncation(original, retained) == [original_bytes |-> original, retained_bytes |-> retained]

\* Mutant: the earlier truncation is forgotten.
LastTruncation(existing, report) == {report}

merge_runtime_truncation(existing, report) ==
  IF existing = {} THEN {report}
  ELSE {Truncation(t.original_bytes + report.original_bytes,
                   t.retained_bytes + report.retained_bytes) : t \in existing}

\* Every oversized field is replaced and the truncation is merged.
CutFields(r, max, rendering) ==
  LET over == {i \in DOMAIN r.fields : oversized_field_bytes(r.fields[i], max) # {}}
      cut == [i \in over |-> CutField(r.fields[i], max, rendering)]
  IN  IF over = {} THEN r
      ELSE [r EXCEPT
              !.fields = [i \in DOMAIN @ |-> IF i \in over THEN cut[i].field ELSE @[i]],
              !.truncation = merge_runtime_truncation(@,
                 Truncation(MapThenSumSet(LAMBDA i : Max(oversized_field_bytes(r.fields[i], max)), over),
                            MapThenSumSet(LAMBDA i : cut[i].bytes, over)))]

truncate_oversized_tool_result_fields(r, max) == CutFields(r, max, FALSE)

reject_oversized_tool_result(r, max) ==
  \E i \in DOMAIN r.fields : oversized_field_bytes(r.fields[i], max) # {}

----------------------------------------------------------------------------
(* What a policy lets a rendering show.                                    *)

apply_verbosity_constraints(options, verbosity) ==
  [options EXCEPT
     !.include = CASE verbosity \in {"Minimal", "Normal"} -> {}
                   [] verbosity = "Expanded" -> @ \ {"Cost"}
                   [] verbosity = "Debug" -> {"Policy", "Diagnostics", "Cost"}]

render_policy_with_render_options(d, requested) ==
  LET options == IF requested = {} THEN d.render_options ELSE CHOOSE o \in requested : TRUE
      limit == CASE d.granularity = "Summary" -> {Min({1, d.max_inline_lines})}
                 [] d.granularity = "KeyFields" -> {Min({3, d.max_inline_lines})}
                 [] d.granularity = "Full" -> {}
  IN  [render_options |-> apply_verbosity_constraints(options, d.verbosity),
       max_fields |-> limit,
       max_inline_lines |-> d.max_inline_lines,
       max_inline_bytes |-> d.max_inline_bytes,
       oversize_policy |-> d.oversize_policy,
       include_refs |-> d.granularity # "Summary"]

\* The channel that a key belongs to, if it belongs to one.
optional_field_channel(key) ==
  CASE key \in {"policy", "needs_approval", "blocked_reason"} -> {"Policy"}
    [] key \in {"diagnostics", "retry_hint"} -> {"Diagnostics"}
    [] key \in {"cost", "duration_ms"} -> {"Cost"}
    [] OTHER -> {}

should_render_field(key, options) == optional_field_channel(key) \subseteq options.include

\* A stable sort.
prioritize_renderable_fields(fields) ==
  SelectSeq(fields, LAMBDA f : f.key = "summary")
    \o SelectSeq(fields, LAMBDA f : f.key # "summary")

\* The result as it may be shown, or an error.
renderable_result(r, policy) ==
  LET rendered == SelectSeq(r.fields, LAMBDA f : should_render_field(f.key, policy.render_options))
      fields == IF policy.max_fields = {} THEN rendered
                ELSE SubSeq(prioritize_renderable_fields(rendered), 1,
                            Min(policy.max_fields \cup {Len(rendered)}))
      shown == [r EXCEPT !.fields = fields,
                         !.evidence_refs = IF policy.include_refs THEN @ ELSE 0,
                         !.output_refs = IF policy.include_refs THEN @ ELSE {},
                         !.redactions = IF policy.include_refs THEN @ ELSE 0]
      over == reject_oversized_tool_result(shown, policy.max_inline_bytes)
  IN  IF over /\ policy.oversize_policy = "RejectOversize"
      THEN [error |-> "OversizeOutput"]
      ELSE [error |-> "None", cut |-> over,
            result |-> CutFields(shown, policy.max_inline_bytes, TRUE)]

\* Whether something was left out before the lines were counted.
render_policy_fallback_reason(original, rendered) ==
  \/ Len(original.fields) > Len(rendered.fields)
  \/ original.evidence_refs > rendered.evidence_refs
  \/ Cardinality(original.output_refs) > Cardinality(rendered.output_refs)
  \/ original.redactions > rendered.redactions

----------------------------------------------------------------------------
(* The three formats.  A line is named by its section and its place there, *)
(* 0 being a section's heading.                                            *)

Lines(section, count) == IF count = 0 THEN << >> ELSE [i \in 1..count + 1 |-> <<section, i - 1>>]

Prelude(r) ==
  [i \in 1..6 |-> <<(<<"status", "schema_version", "format", "tool_id",
                       "result_id", "invocation_id">>)[i], 0>>]
    \o IF r.schema_ref THEN <<<<"schema_ref", 0>>>> ELSE << >>

\* The truncation's heading has four lines under it.
toon_sections(r) ==
  SelectSeq(<<Lines("fields", Len(r.fields)),
              Lines("evidence_refs", r.evidence_refs),
              Lines("output_refs", Cardinality(r.output_refs)),
              Lines("truncation", 4 * Cardinality(r.truncation)),
              Lines("redactions", r.redactions)>>,
            LAMBDA s : s # << >>)

build_rendering_truncation_notice(remaining) ==
  IF remaining <= 1 THEN <<<<"notice", 0>>>> ELSE <<<<"notice", 1>>, <<"notice", 2>>>>

\* Sections are whole or left out, from the first that does not fit on; the
\* notice then takes the place of the last lines if none are free.
ToonLines(r, max) ==
  LET sections == toon_sections(r)
      fits == {n \in 0..Len(sections) :
                 Len(Prelude(r) \o FlattenSeq(SubSeq(sections, 1, n))) <= max}
      lines == Prelude(r) \o FlattenSeq(SubSeq(sections, 1, Max(fits \cup {0})))
      notice == build_rendering_truncation_notice(monus(max, Len(lines)))
  IN  IF Len(sections) \in fits THEN lines
      ELSE SubSeq(lines, 1, Min({Len(lines), monus(max, Len(notice))})) \o notice

Rendered(format, r, count, reason) ==
  [error |-> "None", format |-> format, result |-> r, lines |-> count,
   fallback_reason |-> reason, truncation |-> r.truncation]

render_toon(r, rendered, policy) ==
  LET lines == ToonLines(rendered.result, policy.max_inline_lines)
  IN  Rendered("Toon", rendered.result, lines,
               \/ rendered.cut
               \/ render_policy_fallback_reason(r, rendered.result)
               \/ \E i \in DOMAIN lines : lines[i][1] = "notice")

\* One line: every text in it is freed of line breaks.
render_text(r, rendered) ==
  Rendered("Text", rendered.result, <<<<"text", 0>>>>,
           rendered.cut \/ render_policy_fallback_reason(r, rendered.result))

\* Pretty if its lines fit, and one line otherwise: max_inline_lines is never 0.
\* The pretty form has two brackets and at least a line for each member.
render_json(r, rendered, policy, pretty) ==
  LET fits == pretty /\ policy.max_inline_lines >= 14
  IN  Rendered("Json", rendered.result,
               [i \in 1..(IF fits THEN policy.max_inline_lines ELSE 1) |-> <<"json", i>>],
               \/ rendered.cut \/ ~fits
               \/ render_policy_fallback_reason(r, rendered.result))

RenderedIn(format, r, rendered, policy, pretty) ==
  CASE rendered.error # "None" -> [error |-> rendered.error]
    [] rendered.error = "None" /\ format = "Toon" -> render_toon(r, rendered, policy)
    [] rendered.error = "None" /\ format = "Text" -> render_text(r, rendered)
    [] rendered.error = "None" /\ format = "Json" -> render_json(r, rendered, policy, pretty)

\* pretty: whether the lines of the pretty form fit.
render_tool_result_with_policy(r, policy, pretty) ==
  RenderedIn(policy.render_options.format, r, renderable_result(r, policy), policy, pretty)

----------------------------------------------------------------------------
(* The run: the result is rendered, bounded, stored and, if it changed,    *)
(* rendered again.                                                         *)

Refers(id) == [kind |-> "string", texts |-> <<[i \in 1..RefBytes |-> 1]>>, ref |-> {id}]

\* Fields over a threshold are moved to artifacts; a threshold of 0 is none.
spill_large_tool_result_fields(r, max) ==
  LET large == {i \in DOMAIN r.fields : max # 0 /\ oversized_field_bytes(r.fields[i], max) # {}}
  IN  IF large = {} THEN r
      ELSE [r EXCEPT
              !.fields = [i \in DOMAIN @ |->
                            IF i \in large THEN [@[i] EXCEPT !.value = Refers(i)] ELSE @[i]],
              !.output_refs = @ \cup large,
              !.truncation = merge_runtime_truncation(@,
                 Truncation(MapThenSumSet(LAMBDA i : string_list_byte_len(r.fields[i].value.texts), large),
                            RefBytes * Cardinality(large)))]

\* What is stored, under the run's own spillover or else the policy.
Bounded(r, d, spillover) ==
  IF spillover # {} THEN spill_large_tool_result_fields(r, CHOOSE n \in spillover : TRUE)
  ELSE CASE d.oversize_policy = "SpillToArtifactRef" -> spill_large_tool_result_fields(r, d.max_inline_bytes)
         [] d.oversize_policy = "RejectOversize" -> r
         [] d.oversize_policy = "TruncateWithMetadata" ->
              truncate_oversized_tool_result_fields(r, d.max_inline_bytes)

\* The first rendering is answered unless the result was changed since.
RunAnswer(r, bounded, policy, pretty) ==
  render_tool_result_with_policy(IF bounded = r THEN r ELSE bounded, policy, pretty)

Run(requested, spillover, pretty) ==
  /\ ran = {}
  /\ \E policy \in {render_policy_with_render_options(defaults, requested)},
        bounded \in {Bounded(result, defaults, spillover)} :
       LET rejected == /\ defaults.oversize_policy = "RejectOversize"
                       /\ reject_oversized_tool_result(result, defaults.max_inline_bytes)
       IN  \E out \in {IF rejected THEN [error |-> "ToolOutputTooLarge"]
                       ELSE RunAnswer(result, bounded, policy, pretty)} :
             /\ ran' = {[defaults |-> defaults, policy |-> policy, spillover |-> spillover,
                         pretty |-> pretty, out |-> out]}
             /\ stored' = IF out.error = "None" THEN {bounded} ELSE {}
             /\ artifacts' = IF rejected THEN {} ELSE bounded.output_refs \ result.output_refs
  /\ UNCHANGED <<result, defaults, answer, updates>>

----------------------------------------------------------------------------
(* Requests.                                                               *)

update_tool_output_defaults(d) ==
  /\ updates < MaxUpdates /\ d # defaults
  /\ defaults' = d /\ updates' = updates + 1
  /\ UNCHANGED <<result, stored, artifacts, ran, answer>>

render_tool_output(format, pretty) ==
  /\ answer' = {[policy |-> p, pretty |-> pretty,
                 out |-> render_tool_result_with_policy(r, p, pretty)] :
                r \in stored,
                p \in {render_policy_with_render_options(defaults,
                         {[defaults.render_options EXCEPT !.format = format]})}}
  /\ UNCHANGED <<result, defaults, stored, artifacts, ran, updates>>

----------------------------------------------------------------------------

Init ==
  /\ result \in Results /\ defaults \in Defaults
  /\ stored = {} /\ artifacts = {} /\ ran = {} /\ answer = {} /\ updates = 0

Next ==
  \/ \E o \in Options, s \in Spillovers, pretty \in BOOLEAN : Run(o, s, pretty)
  \/ \E d \in Defaults : update_tool_output_defaults(d)
  \/ \E f \in {"Toon", "Text", "Json"}, pretty \in BOOLEAN : render_tool_output(f, pretty)

Spec == Init /\ [][Next]_vars

----------------------------------------------------------------------------
(* Properties.                                                             *)

\* Answers that a client got, each with the policy it was rendered under.
Answers == {a \in ran \cup answer : a.out.error = "None"}

Bytes(field) == string_list_byte_len(field.value.texts)

FieldsOf(r) == {r.fields[i] : i \in DOMAIN r.fields}

\* Bytes that fields of `after` have lost, or won, since `before`.
LostBytes(before, after) ==
  MapThenSumSet(LAMBDA g : MapThenSumSet(LAMBDA f : Bytes(f) - Bytes(g),
                                         {f \in FieldsOf(before) : f.key = g.key}),
                FieldsOf(after))

Missing(truncation) ==
  MapThenSumSet(LAMBDA t : t.original_bytes - t.retained_bytes, truncation)

\* The truncation that comes with an answer or a stored result accounts, to
\* the byte, for what its fields lost on the way from the tool: in the tool
\* itself, when the run bounded the result, and when a rendering cut it again.
TruncationAccountsForBytes ==
  \A s \in stored :
    /\ Missing(s.truncation) = Missing(result.truncation) + LostBytes(result, s)
    /\ \A a \in Answers :
         Missing(a.out.truncation) = Missing(s.truncation) + LostBytes(s, a.out.result)

\* An answer keeps to the budgets in force when it was rendered, whatever
\* budgets the result was stored under: its lines to max_inline_lines, each of
\* its fields to max_inline_bytes.
AnswersFit ==
  \A a \in Answers :
    /\ Len(a.out.lines) <= a.policy.max_inline_lines
    /\ ~reject_oversized_tool_result(a.out.result, a.policy.max_inline_bytes)

\* The lines that stand for parts of a result, in the TOON form.
ItemLines(lines) == {i \in DOMAIN lines : lines[i][1] \notin {"notice", "truncation"}}

\* A client can tell that an answer does not show all that is stored: if
\* fields, references or redactions are left out, or a line of the TOON form is
\* displaced, the answer has a fallback reason; if a text is cut, a truncation.
OmissionsAreReported ==
  \A a \in Answers, s \in stored :
    /\ \/ a.out.fallback_reason
       \/ /\ {f.key : f \in FieldsOf(a.out.result)} = {f.key : f \in FieldsOf(s)}
          /\ <<a.out.result.evidence_refs, a.out.result.output_refs, a.out.result.redactions>>
               = <<s.evidence_refs, s.output_refs, s.redactions>>
          /\ a.out.format = "Toon" =>
               Cardinality(ItemLines(a.out.lines)) =
                 Len(Prelude(s)) + Len(FlattenSeq(toon_sections([s EXCEPT !.truncation = {}])))
    /\ FieldsOf(a.out.result) \subseteq FieldsOf(s) \/ a.out.truncation # {}

\* What a run answers is what it stored: under unchanged settings a later
\* request for the same rendering is answered the same, and a result stored
\* with truncate_with_metadata is not cut a second time.
RunAnswersWhatItStored ==
  \A r \in ran, s \in stored :
    /\ \A a \in answer :
         (a.policy = r.policy /\ a.pretty = r.pretty) => a.out = r.out
    /\ (r.spillover = {} /\ r.defaults.oversize_policy = "TruncateWithMetadata") =>
         r.out.truncation = s.truncation

\* No text is lost by a spill: where a stored field names an artifact, the
\* artifact was written and is among the result's output references, and every
\* other field is as the tool returned it.
SpilledTextIsKept ==
  \A r \in ran, s \in stored :
    (r.spillover # {} \/ r.defaults.oversize_policy = "SpillToArtifactRef") =>
      \A i \in DOMAIN s.fields :
        IF s.fields[i].value.ref = {} THEN s.fields[i] = result.fields[i]
        ELSE s.fields[i].value.ref \subseteq artifacts \cap s.output_refs

\* What a client is shown of a result is within its budgets, is what the run stored, and
\* tells what is missing: the properties above together.
AnswersTellTheResult ==
  /\ TruncationAccountsForBytes /\ AnswersFit /\ OmissionsAreReported
  /\ RunAnswersWhatItStored /\ SpilledTextIsKept

=============================================================================
