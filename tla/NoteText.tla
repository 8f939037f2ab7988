------------------------------ MODULE NoteText ------------------------------
(***************************************************************************)
(* The text of a daily note, and what a save does to it: the line-oriented *)
(* parser of crates/sinks/sink-markdown-file/src/markers.rs, the splice of *)
(* one day's block and the rendering back to text.  The user types any     *)
(* text, markers and code fences included; saves come in between.          *)
(*                                                                         *)
(* A note is a sequence of lines.  Of a line only what the parser looks at *)
(* is kept: which kind of line it is, and how it ends.                     *)
(***************************************************************************)
EXTENDS Naturals, Sequences, SequencesExt, FiniteSets

CONSTANTS
    Days,        \* the dates a block can carry
    Drafts,      \* the run ids a block can carry
    Kinds,       \* the kinds of line the user types
    Eols,        \* the line endings the user's editor writes
    None,
    MaxTyped,    \* bound: lines the user types
    MaxSaves     \* bound: saves

\* A fence of three or four backticks, bare or with an info string.
Fences == {"fence3", "fence4", "info3", "info4"}

\* "badbegin": a begin marker without one of its attributes.  "blank" is the
\* separator render_block_into writes.
LineKinds == {"text", "blank", "begin", "badbegin", "end"} \cup Fences

ASSUME KindsAreKnown == Kinds \subseteq LineKinds
ASSUME EolsAreKnown == Eols \subseteq {"lf", "crlf"}

\* The lines of a frontmatter.  "delim" is ---, without blanks.  "date" (with
\* template and template_version) and "generated" are the sink's keys, "tag" a key
\* of the user's; "nested" and "nesteddate" are keys below another one.
FrontKinds == {"delim", "date", "generated", "tag", "nested", "nesteddate", "text"}

\* A line; eol "none" is the end of a file without a final newline.
TextLine == [kind : LineKinds \cup FrontKinds, day : Days \cup {None},
             draft : Drafts \cup {None}, eol : {"lf", "crlf", "none"}]

ASSUME NoneIsNothing ==
    None \notin Days /\ None \notin Drafts /\ None \notin Fences /\ None \notin TextLine
ASSUME SomeReport == Days # {} /\ Drafts # {}

VARIABLES
    note,        \* the text of the file
    typed,       \* lines typed so far
    saves,       \* saves attempted so far
    refused      \* the last save was refused

noteVars == <<note, typed, saves, refused>>

\* `day` and `draft` are the attributes date and run_id of a begin marker.
Line(kind, day, draft, eol) ==
    [kind |-> kind, day |-> day, draft |-> draft, eol |-> eol]

Plain(kind, eol) == Line(kind, None, None, eol)

(***************************************************************************)
(* parse                                                                   *)
(***************************************************************************)

\* A parsed document: a sequence of prose and block segments.
Prose(lines) == [type |-> "prose", lines |-> lines]

Block(day, draft, eol, lines) ==
    [type |-> "block", day |-> day, draft |-> draft, eol |-> eol, lines |-> lines]

\* FenceSentinel::detect_open and ::line_closes.
FenceLength(kind) == IF kind \in {"fence3", "info3"} THEN 3 ELSE 4

Closes(kind, fence) ==
    kind \in {"fence3", "fence4"} /\ FenceLength(kind) >= FenceLength(fence)

\* The locals of parse: the segments so far, the prose not yet in one, the
\* begin marker of the open block, its body, the open fence.
ParserStart ==
    [segments |-> <<>>, prose |-> <<>>, open |-> None, body |-> <<>>,
     fence |-> None, error |-> FALSE]

\* A line that is no marker goes into the open block, or into the prose.
Keep(p, line) ==
    IF p.open = None THEN [p EXCEPT !.prose = Append(@, line)]
                     ELSE [p EXCEPT !.body = Append(@, line)]

Fail(p) == [p EXCEPT !.error = TRUE]

FlushProse(p) ==
    IF p.prose = <<>> THEN p
    ELSE [p EXCEPT !.segments = Append(@, Prose(p.prose)), !.prose = <<>>]

OpenBlock(p, line) == [FlushProse(p) EXCEPT !.open = line]

CloseBlock(p) ==
    [p EXCEPT !.segments =
                 Append(@, Block(p.open.day, p.open.draft, p.open.eol, p.body)),
              !.open = None, !.body = <<>>]

\* Outside any fence a marker line opens or closes a block, or is an error.
ParseMarkerLine(p, line) ==
    CASE p.open # None /\ line.kind = "end" -> CloseBlock(p)
      [] p.open # None /\ line.kind \in {"begin", "badbegin"} -> Fail(p)
      [] p.open = None /\ line.kind = "begin" -> OpenBlock(p, line)
      [] p.open = None /\ line.kind \in {"badbegin", "end"} -> Fail(p)
      [] OTHER -> Keep(p, line)

ParseLine(p, line) ==
    IF p.error THEN p
    ELSE IF p.fence # None
    THEN LET q == Keep(p, line) IN
         IF Closes(line.kind, p.fence) THEN [q EXCEPT !.fence = None] ELSE q
    ELSE IF line.kind \in Fences
    THEN [Keep(p, line) EXCEPT !.fence = line.kind]
    ELSE ParseMarkerLine(p, line)

AtEnd(text) == FoldLeft(ParseLine, ParserStart, text)

\* A file that ends inside a block is malformed.
Malformed(text) == LET p == AtEnd(text) IN p.error \/ p.open # None

\* The segments of a text that is not.
Parse(text) == FlushProse(AtEnd(text)).segments

(***************************************************************************)
(* splice                                                                  *)
(***************************************************************************)

IsBlockOf(day, segment) == segment.type = "block" /\ segment.day = day

\* ensure_trailing_newline
WithFinalNewline(segments) ==
    IF segments = <<>> \/ Last(segments).type = "block" THEN segments
    ELSE LET lines == Last(segments).lines IN
         IF Last(lines).eol # "none" THEN segments
         ELSE ReplaceAt(segments, Len(segments),
                        Prose(ReplaceAt(lines, Len(lines),
                                        [Last(lines) EXCEPT !.eol = "lf"])))

\* Variant: looks at the last segment only.
SpliceAtEnd(segments, new) ==
    IF segments # <<>> /\ IsBlockOf(new.day, Last(segments))
    THEN ReplaceAt(segments, Len(segments), [new EXCEPT !.eol = Last(segments).eol])
    ELSE Append(WithFinalNewline(segments), new)

\* Replaces the first block of the day, which keeps its line ending, or
\* appends the new one.
Splice(segments, new) ==
    LET i == SelectInSeq(segments, LAMBDA s : IsBlockOf(new.day, s)) IN
    IF i = 0 THEN Append(WithFinalNewline(segments), new)
    ELSE ReplaceAt(segments, i, [new EXCEPT !.eol = segments[i].eol])

(***************************************************************************)
(* render                                                                  *)
(***************************************************************************)

\* Bytes are concatenated: a line without a newline swallows the next one.
Concat(text, more) ==
    IF text = <<>> \/ more = <<>> \/ Last(text).eol # "none" THEN text \o more
    ELSE Front(text) \o <<Plain("text", Head(more).eol)>> \o Tail(more)

\* ends_with_compatible_newline
Compatible(eol, markerEol) ==
    \/ eol = "crlf"
    \/ eol = "lf" /\ markerEol = "lf"

\* render_block_into: its body is followed by a line break of the marker's kind.
RenderBlock(b) ==
    LET separator ==
            IF b.lines = <<>> \/ Compatible(Last(b.lines).eol, b.eol)
            THEN <<>> ELSE <<Plain("blank", b.eol)>>
    IN  <<Line("begin", b.day, b.draft, b.eol)>> \o b.lines \o separator
            \o <<Plain("end", b.eol)>>

RenderSegment(s) == IF s.type = "prose" THEN s.lines ELSE RenderBlock(s)

Render(segments) ==
    FoldLeft(LAMBDA text, s : Concat(text, RenderSegment(s)), <<>>, segments)

(***************************************************************************)
(* The note                                                                *)
(***************************************************************************)

\* markdown::render_body: never a marker, never a fence, LF line endings.
Report(day, draft) == Block(day, draft, "lf", <<Plain("text", "lf")>>)

\* write_one, for a note that parses.
Saved(text, day, draft) == Render(Splice(Parse(text), Report(day, draft)))

UserLines ==
    {Plain(k, e) : k \in Kinds \ {"begin"}, e \in Eols \cup {"none"}} \cup
    {Line("begin", d, None, e) : d \in Days, e \in Eols}

NoteInit ==
    /\ note = <<>>
    /\ typed = 0 /\ saves = 0
    /\ refused = FALSE

\* The user adds a line at the end.
Type(line) ==
    /\ typed < MaxTyped
    /\ note # <<>> => Last(note).eol # "none"
    /\ note' = Append(note, line)
    /\ typed' = typed + 1
    /\ UNCHANGED <<saves, refused>>

SaveReport(day, draft) ==
    /\ saves < MaxSaves
    /\ ~Malformed(note)
    /\ note' = Saved(note, day, draft)
    /\ saves' = saves + 1
    /\ refused' = FALSE
    /\ UNCHANGED typed

\* SINK_MALFORMED_MARKER: nothing is written.
RefuseSave ==
    /\ saves < MaxSaves
    /\ Malformed(note)
    /\ saves' = saves + 1
    /\ refused' = TRUE
    /\ UNCHANGED <<note, typed>>

NoteNext ==
    \/ \E line \in UserLines : Type(line)
    \/ \E day \in Days, draft \in Drafts : SaveReport(day, draft)
    \/ RefuseSave

(***************************************************************************)
(* Properties                                                              *)
(***************************************************************************)

\* The step is a save of `draft` for `day` that was not refused.
Saves(day, draft) == saves' # saves /\ SaveReport(day, draft)

\* The note ends inside a code fence the user has not closed (yet).
EndsInFence(text) == AtEnd(text).fence # None

\* What a reader sees of a text, line endings and blank separators aside.
Visible(text) ==
    FoldLeft(LAMBDA shown, l : IF l.kind = "blank" THEN shown
                               ELSE Append(shown, [l EXCEPT !.eol = "lf"]), <<>>, text)

\* The lines are one block of the day, and nothing else.
IsOneBlockOf(day, lines) ==
    ~Malformed(lines) /\ Len(Parse(lines)) = 1 /\ IsBlockOf(day, Parse(lines)[1])

\* markers.rs: `splice` replaces only the block whose date matches.  Whatever
\* the note holds, a save changes one stretch of lines: nothing at its end, or
\* the lines that are one block of the day.
SaveKeepsTheRest ==
    [][\A day \in Days, draft \in Drafts : Saves(day, draft) =>
        \E i \in 0..Len(note) : \E j \in i..Len(note) :
            /\ \/ i = Len(note)
               \/ IsOneBlockOf(day, SubSeq(note, i + 1, j))
            /\ Visible(note') =
                  Visible(SubSeq(note, 1, i) \o RenderBlock(Report(day, draft))
                             \o SubSeq(note, j + 1, Len(note)))]_noteVars

\* The places of a day's blocks in a note.
BlocksOf(day, text) ==
    LET segments == Parse(text) IN {i \in DOMAIN segments : IsBlockOf(day, segments[i])}

\* Unless it ends in an open fence, the saved note holds the new block as the
\* first of its day, and no more blocks of that day than before (or one).
\* Saving the same draft again changes nothing.
SaveIsIdempotent ==
    [][\A day \in Days, draft \in Drafts :
        Saves(day, draft) /\ ~EndsInFence(note) =>
            LET before == BlocksOf(day, note)
                after  == BlocksOf(day, note')
            IN  /\ \E i \in after : Parse(note')[i].draft = draft /\ \A j \in after : i <= j
                /\ Cardinality(after) = IF before = {} THEN 1 ELSE Cardinality(before)
                /\ Saved(note', day, draft) = note']_noteVars

(***************************************************************************)
(* The frontmatter at the top of a note, and a whole save of the note      *)
(* (crates/sinks/sink-markdown-file: frontmatter.rs and write_one of       *)
(* adapter.rs): the block is split off, the report goes into the rest, and *)
(* the block is written back, merged with the sink's own keys if the sink  *)
(* is set up so.  One day, one draft; the user types anything first.       *)
(***************************************************************************)

CONSTANTS MaxFront      \* bound: lines the user types before the first save

FrontDay == CHOOSE d \in Days : TRUE
FrontDraft == CHOOSE d \in Drafts : TRUE

VARIABLES
    file,      \* the text of the note
    editor,    \* how the user's editor ends a line
    want,      \* SinkConfig::MarkdownFile::frontmatter
    stage      \* saves so far: "typing", "saved", "twice" or "refused"

frontVars == <<file, editor, want, stage>>

FrontInit == file = <<>> /\ editor \in Eols /\ want \in BOOLEAN /\ stage = "typing"

\* find_delim_line
FindDelimLine(text) == SelectInSeq(text, LAMBDA l : l.kind = "delim")

\* split: the block, both delimiters included, and the rest.
Split(text) ==
    LET close == IF text = <<>> THEN 0 ELSE FindDelimLine(Tail(text)) IN
    IF /\ text # <<>> /\ Head(text).kind = "delim" /\ Head(text).eol # "none"
       /\ close # 0
    THEN [front |-> SubSeq(text, 1, close + 1),
          body |-> SubSeq(text, close + 2, Len(text))]
    ELSE [front |-> <<>>, body |-> text]

\* parse_line: a nested key loses its indentation.
ParseEntry(line) ==
    [kind |-> CASE line.kind = "nested" -> "tag"
                [] line.kind = "nesteddate" -> "date"
                [] OTHER -> line.kind,
     day |-> line.day, draft |-> None, eol |-> "lf"]

\* parse_flat: behind an opening line that ends in CRLF the block's first
\* delimiter is taken for its last.
ParseFlat(block) ==
    IF block = <<>> \/ Head(block).eol = "crlf" THEN <<>>
    ELSE [i \in 1 .. Len(block) - 2 |-> ParseEntry(block[i + 1])]

\* A line of the sink's, its value the draft's.
Field(key) == Line(key, FrontDay, None, "lf")

\* upsert
Upsert(entries, key) ==
    LET i == SelectInSeq(entries, LAMBDA e : e.kind = key) IN
    IF i = 0 THEN Append(entries, Field(key)) ELSE ReplaceAt(entries, i, Field(key))

\* merge
Merge(block) ==
    <<Plain("delim", "lf")>>
       \o Upsert(Upsert(ParseFlat(block), "date"), "generated")
       \o <<Plain("delim", "lf")>>

\* The end of write_one.
Composed(text) ==
    LET parts == Split(text) IN
    Concat(IF want THEN Merge(parts.front) ELSE parts.front,
           Saved(parts.body, FrontDay, FrontDraft))

TypeFront ==
    /\ stage = "typing" /\ Len(file) < MaxFront
    /\ file # <<>> => Last(file).eol # "none"
    /\ \E kind \in FrontKinds, eol \in {editor, "none"} :
         file' = Append(file, Plain(kind, eol))
    /\ UNCHANGED <<editor, want, stage>>

\* write_one
WriteOne ==
    /\ stage \in {"typing", "saved"}
    /\ IF Malformed(Split(file).body)
       THEN stage' = "refused" /\ UNCHANGED file
       ELSE /\ file' = Composed(file)
            /\ stage' = IF stage = "typing" THEN "saved" ELSE "twice"
    /\ UNCHANGED <<editor, want>>

FrontNext == TypeFront \/ WriteOne

(***************************************************************************)
(* Properties                                                              *)
(***************************************************************************)

FrontSaved == stage # stage' /\ stage' \in {"saved", "twice"}

FrontOf(text) == Split(text).front
FrontEntries(text) == IF FrontOf(text) = <<>> THEN <<>> ELSE SubSeq(FrontOf(text), 2, Len(FrontOf(text)) - 1)
HowMany(kinds, text) ==
    Cardinality({i \in DOMAIN FrontEntries(text) : FrontEntries(text)[i].kind \in kinds})

\* The kinds of the entries that are not the sink's, in order.
UserEntries(text) ==
    FoldLeft(LAMBDA kinds, l : IF l.kind \in {"tag", "nested", "text"} THEN Append(kinds, l.kind)
                               ELSE kinds, <<>>, FrontEntries(text))

\* The note ends right behind the closing delimiter.
EndsAtDelimiter == FrontOf(file) # <<>> /\ Last(FrontOf(file)).eol = "none"

\* frontmatter.rs:13-25, adapter.rs:251-275: a save with frontmatter on leaves
\* one block with each of the sink's keys once, or as often as the user had
\* it, and, in a flat block with LF line ends, every other entry as it was; a
\* save with it off leaves the block as it is.  The report goes into the rest
\* alone, and saving it again changes nothing.
FrontmatterIsApart ==
    [][FrontSaved /\ (want \/ ~EndsAtDelimiter) =>
         /\ Split(file').body = Saved(Split(file).body, FrontDay, FrontDraft)
         /\ Composed(file') = file'
         /\ ~want => FrontOf(file') = FrontOf(file)
         /\ want =>
              /\ FrontOf(file') # <<>>
              /\ \A keys \in {{"date", "nesteddate"}, {"generated"}} :
                   \/ HowMany(keys, file') = 1
                   \/ HowMany(keys, file') = HowMany(keys, file)
              /\ editor = "lf" /\ HowMany({"nested"}, file) = 0 =>
                   UserEntries(file') = UserEntries(file)]_frontVars

\* frontmatter.rs:19-20, 26-28: "Every existing key is preserved verbatim
\* (including unknown keys the user may have added by hand for personal
\* workflows)"; here only that as many of them are there as before.
UserKeysSurvive ==
    [][FrontSaved /\ want =>
         HowMany({"tag", "nested"}, file') = HowMany({"tag", "nested"}, file)]_frontVars

\* adapter.rs:267-269: "Preserve existing frontmatter verbatim if the user wrote
\* one by hand but the sink is configured without `frontmatter = true`."
HandwrittenFrontStays ==
    [][FrontSaved /\ ~want => FrontOf(file') = FrontOf(file)]_frontVars

=============================================================================
