----------------------------- MODULE NoteProofs -----------------------------
(***************************************************************************)
(* What a save does to a daily note, for any text the user types, any      *)
(* number of lines, days, drafts and saves (NoteText); and that this is so *)
(* in every behaviour of the desktop.                                      *)
(*                                                                         *)
(* What the parser has read explains the text: its segments, rendered,     *)
(* show the lines read so far, and each segment is what its own lines      *)
(* parse to (Explains, Good).  So a save that replaces a segment, or adds  *)
(* one behind them, changes the lines of that segment alone, and the       *)
(* rendering parses to the segments it was made of (Reparsed): a second    *)
(* save of the report finds it in its place and writes the same text.      *)
(***************************************************************************)
EXTENDS Desktop, FiniteSetTheorems, SequenceTheorems, WellFoundedInduction, TLAPS

(***************************************************************************)
(* The note: what parse, render and a reader make of one line, or of one   *)
(* segment, more.                                                          *)
(***************************************************************************)

RenderOnto(text, s) == Concat(text, RenderSegment(s))

ShowLine(shown, l) == IF l.kind = "blank" THEN shown ELSE Append(shown, [l EXCEPT !.eol = "lf"])

Parsing == INSTANCE FoldLemmas WITH op <- ParseLine
Rendering == INSTANCE FoldLemmas WITH op <- RenderOnto
Showing == INSTANCE FoldLemmas WITH op <- ShowLine

\* A set of sequences that has the empty one and each longer one has them all.
LEMMA SeqInduction ==
    ASSUME NEW T, NEW G \in SUBSET Seq(T), <<>> \in G, \A s \in G, e \in T : Append(s, e) \in G
    PROVE  G = Seq(T)
<1> DEFINE S == {n \in Nat : \A s \in Seq(T) : Len(s) = n => s \in G}
<1>1. 0 \in S
  OBVIOUS
<1>2. ASSUME NEW n \in S PROVE n + 1 \in S
  <2> SUFFICES ASSUME NEW s \in Seq(T), Len(s) = n + 1 PROVE s \in G
    OBVIOUS
  <2>1. PICK front \in Seq(T), e \in T : s = Append(front, e)
    <3>1. s # <<>>
      OBVIOUS
    <3> QED BY <3>1, SequenceEmptyOrAppend
  <2>2. Len(front) = n
    BY <2>1
  <2> QED BY <2>1, <2>2
<1>3. S = Nat
  <2>1. S \in SUBSET Nat
    OBVIOUS
  <2> HIDE DEF S
  <2> QED BY <1>1, <1>2, <2>1, Parsing!Induction
<1>4. ASSUME NEW s \in Seq(T) PROVE s \in G
  <2>1. Len(s) \in S
    BY <1>3
  <2> QED BY <2>1
<1> QED BY <1>4

LEMMA AtEndOfNothing == AtEnd(<<>>) = ParserStart
<1>1. AtEnd(<<>>) = Parsing!Fold(ParserStart, <<>>)
  BY DEF AtEnd, Parsing!Fold, Parsing!MapThenFoldSet, Parsing!Greatest,
         FoldLeft, MapThenFoldSet, Max
<1> QED BY <1>1, Parsing!FoldLeftOfNothing

LEMMA AtEndAppends ==
    ASSUME NEW T, NEW text \in Seq(T), NEW l \in T
    PROVE  AtEnd(Append(text, l)) = ParseLine(AtEnd(text), l)
<1>1. \A t : AtEnd(t) = Parsing!Fold(ParserStart, t)
  BY DEF AtEnd, Parsing!Fold, Parsing!MapThenFoldSet, Parsing!Greatest,
         FoldLeft, MapThenFoldSet, Max
<1> QED BY <1>1, Parsing!FoldLeftAppends

LEMMA RenderOfNothing == Render(<<>>) = <<>>
<1>1. Render(<<>>) = Rendering!Fold(<<>>, <<>>)
  BY DEF Render, RenderOnto, Rendering!Fold, Rendering!MapThenFoldSet, Rendering!Greatest,
         FoldLeft, MapThenFoldSet, Max
<1> QED BY <1>1, Rendering!FoldLeftOfNothing

LEMMA RenderAppends ==
    ASSUME NEW T, NEW segments \in Seq(T), NEW s \in T
    PROVE  Render(Append(segments, s)) = Concat(Render(segments), RenderSegment(s))
<1>1. \A t : Render(t) = Rendering!Fold(<<>>, t)
  BY DEF Render, RenderOnto, Rendering!Fold, Rendering!MapThenFoldSet, Rendering!Greatest,
         FoldLeft, MapThenFoldSet, Max
<1> QED BY <1>1, Rendering!FoldLeftAppends DEF RenderOnto

LEMMA VisibleOfNothing == Visible(<<>>) = <<>>
<1>1. Visible(<<>>) = Showing!Fold(<<>>, <<>>)
  BY DEF Visible, ShowLine, Showing!Fold, Showing!MapThenFoldSet, Showing!Greatest,
         FoldLeft, MapThenFoldSet, Max
<1> QED BY <1>1, Showing!FoldLeftOfNothing

LEMMA VisibleAppends ==
    ASSUME NEW T, NEW text \in Seq(T), NEW l \in T
    PROVE  Visible(Append(text, l)) =
             IF l.kind = "blank" THEN Visible(text) ELSE Append(Visible(text), [l EXCEPT !.eol = "lf"])
<1>1. \A t : Visible(t) = Showing!Fold(<<>>, t)
  BY DEF Visible, ShowLine, Showing!Fold, Showing!MapThenFoldSet, Showing!Greatest,
         FoldLeft, MapThenFoldSet, Max
<1>2. Showing!Fold(<<>>, Append(text, l)) = ShowLine(Showing!Fold(<<>>, text), l)
  BY Showing!FoldLeftAppends
<1> QED BY <1>1, <1>2 DEF ShowLine

\* The lines a note is made of: an end marker has no attributes; all but the
\* last line of a note are whole.
NoteLine == {l \in TextLine : l.kind = "end" => l.day = None /\ l.draft = None}
WholeLine == {l \in NoteLine : l.eol # "none"}

LEMMA LineFields ==
    ASSUME NEW l \in TextLine
    PROVE  /\ l = [kind |-> l.kind, day |-> l.day, draft |-> l.draft, eol |-> l.eol]
           /\ l.kind \in LineKinds \cup FrontKinds /\ l.eol \in {"lf", "crlf", "none"}
           /\ l.day \in Days \cup {None} /\ l.draft \in Drafts \cup {None}
           /\ l # None
BY NoneIsNothing DEF TextLine

LEMMA PlainIsLine ==
    ASSUME NEW k \in LineKinds \cup FrontKinds, NEW e \in {"lf", "crlf", "none"}
    PROVE  /\ Plain(k, e) \in NoteLine /\ (e # "none" => Plain(k, e) \in WholeLine)
           /\ Plain(k, e).kind = k /\ Plain(k, e).eol = e
BY DEF Plain, Line, NoteLine, WholeLine, TextLine

LEMMA BeginIsLine ==
    ASSUME NEW d \in Days \cup {None}, NEW r \in Drafts \cup {None}, NEW e \in {"lf", "crlf"}
    PROVE  /\ Line("begin", d, r, e) \in WholeLine
           /\ Line("begin", d, r, e).kind = "begin" /\ Line("begin", d, r, e).eol = e
           /\ Line("begin", d, r, e).day = d /\ Line("begin", d, r, e).draft = r
BY DEF Line, NoteLine, WholeLine, TextLine, LineKinds

LEMMA VisibleIsLines == ASSUME NEW text \in Seq(TextLine) PROVE Visible(text) \in Seq(TextLine)
<1> DEFINE G == {t \in Seq(TextLine) : Visible(t) \in Seq(TextLine)}
<1>1. <<>> \in G
  BY VisibleOfNothing, EmptySeq
<1>2. ASSUME NEW s \in G, NEW l \in TextLine PROVE Append(s, l) \in G
  <2>1. Visible(Append(s, l)) = IF l.kind = "blank" THEN Visible(s)
                                ELSE Append(Visible(s), [l EXCEPT !.eol = "lf"])
    BY VisibleAppends
  <2>2. [l EXCEPT !.eol = "lf"] \in TextLine
    BY DEF TextLine
  <2>3. Visible(s) \in Seq(TextLine) /\ s \in Seq(TextLine) /\ Append(s, l) \in Seq(TextLine)
    OBVIOUS
  <2>4. Visible(Append(s, l)) \in Seq(TextLine)
    BY <2>1, <2>2, <2>3
  <2> QED BY <2>3, <2>4
<1> HIDE DEF G
<1>3. G = Seq(TextLine)
  <2>1. G \in SUBSET Seq(TextLine)
    BY DEF G
  <2> QED BY <1>1, <1>2, <2>1, SeqInduction
<1> QED BY <1>3 DEF G

LEMMA AppendToConcat ==
    ASSUME NEW T, NEW s \in Seq(T), NEW t \in Seq(T), NEW e \in T
    PROVE  s \o Append(t, e) = Append(s \o t, e)
<1>1. Append(t, e) = t \o <<e>> /\ Append(s \o t, e) = (s \o t) \o <<e>> /\ <<e>> \in Seq(T)
  BY AppendIsConcat, ConcatProperties
<1> QED BY <1>1, ConcatAssociative

LEMMA TextAssociative ==
    ASSUME NEW x \in Seq(TextLine), NEW y \in Seq(TextLine), NEW z \in Seq(TextLine)
    PROVE  (x \o y) \o z = x \o (y \o z)
BY ConcatAssociative

LEMMA VisibleOfBoth ==
    ASSUME NEW s \in Seq(TextLine), NEW t \in Seq(TextLine)
    PROVE  Visible(s \o t) = Visible(s) \o Visible(t)
<1> DEFINE G == {x \in Seq(TextLine) : Visible(s \o x) = Visible(s) \o Visible(x)}
<1>1. <<>> \in G
  <2>1. s \o <<>> = s /\ Visible(s) \o <<>> = Visible(s)
    BY ConcatEmptySeq, VisibleIsLines
  <2> QED BY <2>1, VisibleOfNothing, EmptySeq
<1>2. ASSUME NEW x \in G, NEW l \in TextLine PROVE Append(x, l) \in G
  <2> DEFINE m == [l EXCEPT !.eol = "lf"]
  <2>1. m \in TextLine
    BY DEF TextLine
  <2> HIDE DEF m
  <2>2. s \o Append(x, l) = Append(s \o x, l) /\ s \o x \in Seq(TextLine)
    BY AppendToConcat, ConcatProperties
  <2>3. Visible(Append(s \o x, l)) = IF l.kind = "blank" THEN Visible(s \o x)
                                     ELSE Append(Visible(s \o x), m)
    BY <2>2, VisibleAppends DEF m
  <2>4. Visible(Append(x, l)) = IF l.kind = "blank" THEN Visible(x) ELSE Append(Visible(x), m)
    BY VisibleAppends DEF m
  <2>5. Visible(s) \o Append(Visible(x), m) = Append(Visible(s) \o Visible(x), m)
    BY <2>1, AppendToConcat, VisibleIsLines
  <2>6. Append(x, l) \in Seq(TextLine)
    OBVIOUS
  <2> QED BY <2>2, <2>3, <2>4, <2>5, <2>6
<1> HIDE DEF G
<1>3. G = Seq(TextLine)
  <2>1. G \in SUBSET Seq(TextLine)
    BY DEF G
  <2> QED BY <1>1, <1>2, <2>1, SeqInduction
<1> QED BY <1>3 DEF G

\* A reader sees no line's ending.
LEMMA VisibleLine ==
    ASSUME NEW l \in TextLine
    PROVE  Visible(<<l>>) = IF l.kind = "blank" THEN <<>> ELSE <<[l EXCEPT !.eol = "lf"]>>
<1> DEFINE none == <<>>
<1>1. <<l>> = Append(none, l) /\ none \in Seq(TextLine)
  BY EmptySeq
<1>2. Visible(none) = <<>>
  BY VisibleOfNothing
<1> HIDE DEF none
<1>3. Visible(Append(none, l)) = IF l.kind = "blank" THEN Visible(none)
                                 ELSE Append(Visible(none), [l EXCEPT !.eol = "lf"])
  BY <1>1, VisibleAppends
<1>4. Append(<<>>, [l EXCEPT !.eol = "lf"]) = <<[l EXCEPT !.eol = "lf"]>>
  OBVIOUS
<1> QED BY <1>1, <1>2, <1>3, <1>4

(***************************************************************************)
(* Segments whose lines are whole                                          *)
(***************************************************************************)

ProseSegment == [type : {"prose"}, lines : Seq(WholeLine) \ {<<>>}]
BlockSegment == [type : {"block"}, day : Days \cup {None}, draft : Drafts \cup {None},
                 eol : {"lf", "crlf"}, lines : Seq(WholeLine)]
Segment == ProseSegment \cup BlockSegment

\* The line break between a body and its end marker.
Separator(b) ==
    IF b.lines = <<>> \/ Compatible(Last(b.lines).eol, b.eol) THEN <<>> ELSE <<Plain("blank", b.eol)>>

Begin(b) == Line("begin", b.day, b.draft, b.eol)

LEMMA RenderBlockParts ==
    ASSUME NEW b
    PROVE  RenderBlock(b) = <<Begin(b)>> \o b.lines \o Separator(b) \o <<Plain("end", b.eol)>>
BY DEF RenderBlock, Separator, Begin

LEMMA WholeLineIsLine == /\ WholeLine \subseteq NoteLine /\ NoteLine \subseteq TextLine
                         /\ Seq(WholeLine) \subseteq Seq(TextLine) /\ Seq(NoteLine) \subseteq Seq(TextLine)
                         /\ Seq(WholeLine) \subseteq Seq(NoteLine)
<1>1. WholeLine \subseteq NoteLine /\ NoteLine \subseteq TextLine /\ WholeLine \subseteq TextLine
  BY DEF WholeLine, NoteLine
<1> QED BY <1>1, SeqMonotonic

LEMMA BlockLines ==
    ASSUME NEW b \in BlockSegment
    PROVE  /\ Begin(b) \in WholeLine /\ Plain("end", b.eol) \in WholeLine
           /\ <<Begin(b)>> \in Seq(WholeLine) /\ <<Plain("end", b.eol)>> \in Seq(WholeLine)
           /\ b.lines \in Seq(WholeLine) /\ Separator(b) \in Seq(WholeLine)
           /\ Separator(b) = <<>> \/ Separator(b) = <<Plain("blank", b.eol)>>
           /\ b.lines \o Separator(b) \in Seq(WholeLine)
           /\ <<Begin(b)>> \o b.lines \in Seq(WholeLine)
<1>1. /\ b.eol \in {"lf", "crlf"} /\ b.day \in Days \cup {None} /\ b.draft \in Drafts \cup {None}
      /\ b.lines \in Seq(WholeLine) /\ b.type = "block"
  BY DEF BlockSegment
<1>2. {"end", "blank"} \subseteq LineKinds \cup FrontKinds
  BY DEF LineKinds
<1>3. /\ Begin(b) \in WholeLine /\ Plain("end", b.eol) \in WholeLine
      /\ Plain("blank", b.eol) \in WholeLine
  BY <1>1, <1>2, BeginIsLine, PlainIsLine DEF Begin
<1>4. /\ <<Begin(b)>> \in Seq(WholeLine) /\ <<Plain("end", b.eol)>> \in Seq(WholeLine)
      /\ <<Plain("blank", b.eol)>> \in Seq(WholeLine)
  BY <1>3
<1>5. /\ Separator(b) \in Seq(WholeLine)
      /\ Separator(b) = <<>> \/ Separator(b) = <<Plain("blank", b.eol)>>
  BY <1>4, EmptySeq DEF Separator
<1> QED BY <1>1, <1>3, <1>4, <1>5, ConcatProperties

LEMMA RenderBlockIsWhole ==
    ASSUME NEW b \in BlockSegment
    PROVE  RenderBlock(b) \in Seq(WholeLine) /\ RenderBlock(b) # <<>>
<1> DEFINE x == Begin(b)
           y == b.lines
           z == Separator(b)
           w == Plain("end", b.eol)
<1>1. x \in WholeLine /\ y \in Seq(WholeLine) /\ z \in Seq(WholeLine) /\ w \in WholeLine
  BY BlockLines
<1>2. RenderBlock(b) = <<x>> \o y \o z \o <<w>>
  BY RenderBlockParts
<1> HIDE DEF x, y, z, w
<1>3. <<x>> \in Seq(WholeLine) /\ <<w>> \in Seq(WholeLine) /\ Len(<<w>>) = 1
  BY <1>1
<1>4. <<x>> \o y \in Seq(WholeLine)
  BY <1>1, <1>3, ConcatProperties
<1>5. <<x>> \o y \o z \in Seq(WholeLine)
  BY <1>1, <1>4, ConcatProperties
<1>6. /\ <<x>> \o y \o z \o <<w>> \in Seq(WholeLine)
      /\ Len(<<x>> \o y \o z \o <<w>>) = Len(<<x>> \o y \o z) + 1
  BY <1>3, <1>5, ConcatProperties
<1>7. Len(<<x>> \o y \o z) \in Nat
  BY <1>5
<1> QED BY <1>2, <1>6, <1>7, EmptySeq

LEMMA RenderSegmentIsWhole ==
    ASSUME NEW s \in Segment
    PROVE  RenderSegment(s) \in Seq(WholeLine) /\ RenderSegment(s) # <<>>
BY RenderBlockIsWhole DEF RenderSegment, Segment, ProseSegment, BlockSegment

\* What is written behind whole lines swallows none of them.
LEMMA ConcatOfWhole ==
    ASSUME NEW text \in Seq(WholeLine), NEW more
    PROVE  Concat(text, more) = text \o more
<1>1. CASE text = <<>>
  BY <1>1 DEF Concat
<1>2. CASE text # <<>>
  <2>1. Last(text) \in WholeLine
    BY <1>2 DEF Last
  <2> QED BY <2>1 DEF Concat, WholeLine
<1> QED BY <1>1, <1>2

LEMMA RenderIsWhole ==
    ASSUME NEW segments \in Seq(Segment)
    PROVE  Render(segments) \in Seq(WholeLine)
<1> DEFINE G == {t \in Seq(Segment) : Render(t) \in Seq(WholeLine)}
<1>1. <<>> \in G
  BY RenderOfNothing, EmptySeq
<1>2. ASSUME NEW t \in G, NEW s \in Segment PROVE Append(t, s) \in G
  <2>1. Render(Append(t, s)) = Render(t) \o RenderSegment(s)
    BY RenderAppends, ConcatOfWhole
  <2>2. Append(t, s) \in Seq(Segment)
    BY AppendProperties
  <2> QED BY <2>1, <2>2, RenderSegmentIsWhole, ConcatProperties
<1> HIDE DEF G
<1>3. G = Seq(Segment)
  <2>1. G \in SUBSET Seq(Segment)
    BY DEF G
  <2> QED BY <1>1, <1>2, <2>1, SeqInduction
<1> QED BY <1>3 DEF G

LEMMA RenderOneMore ==
    ASSUME NEW segments \in Seq(Segment), NEW s
    PROVE  Render(Append(segments, s)) = Render(segments) \o RenderSegment(s)
<1>1. segments \in Seq(Segment \cup {s})
  BY SeqMonotonic
<1>2. Render(Append(segments, s)) = Concat(Render(segments), RenderSegment(s))
  BY <1>1, RenderAppends
<1> QED BY <1>2, RenderIsWhole, ConcatOfWhole

LEMMA RenderOfBoth ==
    ASSUME NEW a \in Seq(Segment), NEW b \in Seq(Segment)
    PROVE  Render(a \o b) = Render(a) \o Render(b)
<1> DEFINE G == {t \in Seq(Segment) : Render(a \o t) = Render(a) \o Render(t)}
<1>1. <<>> \in G
  BY RenderOfNothing, EmptySeq, ConcatEmptySeq, RenderIsWhole
<1>2. ASSUME NEW t \in G, NEW s \in Segment PROVE Append(t, s) \in G
  <2>1. a \o Append(t, s) = Append(a \o t, s) /\ a \o t \in Seq(Segment)
    BY AppendToConcat, ConcatProperties
  <2>2. Render(Append(a \o t, s)) = (Render(a) \o Render(t)) \o RenderSegment(s)
    BY <2>1, RenderOneMore
  <2>3. Render(Append(t, s)) = Render(t) \o RenderSegment(s)
    BY RenderOneMore
  <2>4. (Render(a) \o Render(t)) \o RenderSegment(s) = Render(a) \o (Render(t) \o RenderSegment(s))
    BY RenderIsWhole, RenderSegmentIsWhole, ConcatAssociative
  <2>5. Append(t, s) \in Seq(Segment)
    BY AppendProperties
  <2> QED BY <2>1, <2>2, <2>3, <2>4, <2>5
<1> HIDE DEF G
<1>3. G = Seq(Segment)
  <2>1. G \in SUBSET Seq(Segment)
    BY DEF G
  <2> QED BY <1>1, <1>2, <2>1, SeqInduction
<1> QED BY <1>3 DEF G

(***************************************************************************)
(* The parser, one line at a time.  What it makes of a line does not hang  *)
(* on the segments it has behind it.                                       *)
(***************************************************************************)

StateOf(lines) == [segments : Seq(Segment), prose : Seq(lines), open : {None} \cup lines,
                   body : Seq(lines), fence : {None} \cup Fences, error : BOOLEAN]

\* The state p with segments before its own.
From(pre, p) == [p EXCEPT !.segments = pre \o @]

LEMMA StateFields ==
    ASSUME NEW L, NEW p \in StateOf(L)
    PROVE  /\ p = [segments |-> p.segments, prose |-> p.prose, open |-> p.open,
                   body |-> p.body, fence |-> p.fence, error |-> p.error]
           /\ p.segments \in Seq(Segment) /\ p.prose \in Seq(L) /\ p.open \in {None} \cup L
           /\ p.body \in Seq(L) /\ p.fence \in {None} \cup Fences /\ p.error \in BOOLEAN
BY DEF StateOf

LEMMA StartIsState == ParserStart \in StateOf(WholeLine)
BY EmptySeq DEF ParserStart, StateOf

LEMMA WholeStateIsState == StateOf(WholeLine) \subseteq StateOf(NoteLine)
<1> SUFFICES ASSUME NEW p \in StateOf(WholeLine) PROVE p \in StateOf(NoteLine)
  OBVIOUS
<1> QED BY StateFields, WholeLineIsLine DEF StateOf

LEMMA OpenIsBlock ==
    ASSUME NEW p \in StateOf(WholeLine), p.open # None
    PROVE  Block(p.open.day, p.open.draft, p.open.eol, p.body) \in BlockSegment
<1>1. p.open \in WholeLine /\ p.body \in Seq(WholeLine)
  BY StateFields
<1>2. p.open \in TextLine /\ p.open.eol # "none"
  BY <1>1, WholeLineIsLine DEF WholeLine
<1>3. /\ p.open.eol \in {"lf", "crlf"} /\ p.open.day \in Days \cup {None}
      /\ p.open.draft \in Drafts \cup {None}
  BY <1>2, LineFields
<1> QED BY <1>1, <1>3 DEF Block, BlockSegment

LEMMA CloseIsState ==
    ASSUME NEW p \in StateOf(WholeLine), p.open # None
    PROVE  CloseBlock(p) \in StateOf(WholeLine)
<1> DEFINE b == Block(p.open.day, p.open.draft, p.open.eol, p.body)
<1>1. b \in Segment
  BY OpenIsBlock DEF Segment
<1>2. CloseBlock(p) = [p EXCEPT !.segments = Append(@, b), !.open = None, !.body = <<>>]
  BY DEF CloseBlock
<1> HIDE DEF b
<1>3. Append(p.segments, b) \in Seq(Segment)
  BY <1>1, StateFields
<1>4. CloseBlock(p) = [segments |-> Append(p.segments, b), prose |-> p.prose, open |-> None,
                       body |-> <<>>, fence |-> p.fence, error |-> p.error]
  BY <1>2, StateFields
<1> QED BY <1>3, <1>4, StateFields, EmptySeq DEF StateOf

LEMMA StateEqual ==
    ASSUME NEW L, NEW p \in StateOf(L), NEW q \in StateOf(L),
           p.segments = q.segments, p.prose = q.prose, p.open = q.open, p.body = q.body,
           p.fence = q.fence, p.error = q.error
    PROVE  p = q
<1> DEFINE made(s) == [segments |-> s.segments, prose |-> s.prose, open |-> s.open,
                       body |-> s.body, fence |-> s.fence, error |-> s.error]
<1>1. p = made(p)
  BY StateFields
<1>2. q = made(q)
  BY StateFields
<1>3. made(p) = made(q)
  OBVIOUS
<1> HIDE DEF made
<1> QED BY <1>1, <1>2, <1>3

LEMMA FromFields ==
    ASSUME NEW pre \in Seq(Segment), NEW L, NEW p \in StateOf(L)
    PROVE  /\ From(pre, p) \in StateOf(L)
           /\ From(pre, p).segments = pre \o p.segments
           /\ From(pre, p).prose = p.prose /\ From(pre, p).open = p.open
           /\ From(pre, p).body = p.body /\ From(pre, p).fence = p.fence
           /\ From(pre, p).error = p.error
<1>1. pre \o p.segments \in Seq(Segment)
  BY StateFields, ConcatProperties
<1> DEFINE v == pre \o p.segments
<1>2. From(pre, p) = [p EXCEPT !.segments = v]
  BY DEF From
<1> HIDE DEF v
<1> QED BY <1>1, <1>2, StateFields DEF StateOf, v

LEMMA KeepFields ==
    ASSUME NEW L, NEW p \in StateOf(L), NEW l \in L
    PROVE  /\ Keep(p, l) \in StateOf(L)
           /\ Keep(p, l).segments = p.segments
           /\ Keep(p, l).prose = IF p.open = None THEN Append(p.prose, l) ELSE p.prose
           /\ Keep(p, l).open = p.open
           /\ Keep(p, l).body = IF p.open = None THEN p.body ELSE Append(p.body, l)
           /\ Keep(p, l).fence = p.fence /\ Keep(p, l).error = p.error
<1>1. CASE p.open = None
  <2> DEFINE v == Append(p.prose, l)
  <2>1. Keep(p, l) = [p EXCEPT !.prose = v] /\ v \in Seq(L)
    BY <1>1, StateFields DEF Keep
  <2> HIDE DEF v
  <2>2. Keep(p, l) \in StateOf(L) /\ Keep(p, l).prose = v
    BY <2>1, StateFields DEF StateOf
  <2> QED BY <1>1, <2>1, <2>2, StateFields DEF v
<1>2. CASE p.open # None
  <2> DEFINE v == Append(p.body, l)
  <2>1. Keep(p, l) = [p EXCEPT !.body = v] /\ v \in Seq(L)
    BY <1>2, StateFields DEF Keep
  <2> HIDE DEF v
  <2> QED BY <1>2, <2>1, StateFields DEF StateOf, v
<1> QED BY <1>1, <1>2

LEMMA FencedFields ==
    ASSUME NEW L, NEW p \in StateOf(L), NEW f \in {None} \cup Fences
    PROVE  LET q == [p EXCEPT !.fence = f] IN
           /\ q \in StateOf(L)
           /\ q.segments = p.segments /\ q.prose = p.prose /\ q.open = p.open
           /\ q.body = p.body /\ q.fence = f /\ q.error = p.error
BY StateFields DEF StateOf

LEMMA FailFields ==
    ASSUME NEW L, NEW p \in StateOf(L)
    PROVE  /\ Fail(p) \in StateOf(L)
           /\ Fail(p).segments = p.segments /\ Fail(p).prose = p.prose /\ Fail(p).open = p.open
           /\ Fail(p).body = p.body /\ Fail(p).fence = p.fence /\ Fail(p).error
BY StateFields DEF StateOf, Fail

LEMMA FlushFields ==
    ASSUME NEW p \in StateOf(WholeLine)
    PROVE  LET q == FlushProse(p) IN
           /\ q \in StateOf(WholeLine)
           /\ q.segments = IF p.prose = <<>> THEN p.segments ELSE Append(p.segments, Prose(p.prose))
           /\ q.prose = <<>> /\ q.open = p.open /\ q.body = p.body /\ q.fence = p.fence
           /\ q.error = p.error
<1>1. CASE p.prose = <<>>
  BY <1>1 DEF FlushProse
<1>2. CASE p.prose # <<>>
  <2> DEFINE v == Append(p.segments, Prose(p.prose))
             r == [p EXCEPT !.segments = v]
  <2>1. Prose(p.prose) \in Segment
    BY <1>2, StateFields DEF Prose, Segment, ProseSegment
  <2>2. v \in Seq(Segment)
    BY <2>1, StateFields
  <2>3. FlushProse(p) = [r EXCEPT !.prose = <<>>]
    BY <1>2 DEF FlushProse
  <2> HIDE DEF v
  <2>4. /\ r \in StateOf(WholeLine)
        /\ r.segments = v /\ r.open = p.open /\ r.body = p.body /\ r.fence = p.fence
        /\ r.error = p.error
    BY <2>2, StateFields DEF StateOf
  <2> HIDE DEF r
  <2>5. <<>> \in Seq(WholeLine)
    BY EmptySeq
  <2> QED BY <1>2, <2>3, <2>4, <2>5, StateFields DEF StateOf, v
<1> QED BY <1>1, <1>2

LEMMA OpenFields ==
    ASSUME NEW p \in StateOf(WholeLine), NEW l \in NoteLine
    PROVE  LET q == OpenBlock(p, l) IN
           /\ q \in StateOf(NoteLine) /\ (l \in WholeLine => q \in StateOf(WholeLine))
           /\ q.segments = FlushProse(p).segments
           /\ q.prose = <<>> /\ q.open = l /\ q.body = p.body /\ q.fence = p.fence
           /\ q.error = p.error
<1> DEFINE r == FlushProse(p)
<1>1. /\ r \in StateOf(WholeLine) /\ r.prose = <<>> /\ r.open = p.open /\ r.body = p.body
      /\ r.fence = p.fence /\ r.error = p.error
  BY FlushFields
<1>2. r \in StateOf(NoteLine)
  BY <1>1, WholeStateIsState
<1>3. OpenBlock(p, l) = [r EXCEPT !.open = l]
  BY DEF OpenBlock
<1> HIDE DEF r
<1>4. /\ OpenBlock(p, l) \in StateOf(NoteLine)
      /\ l \in WholeLine => OpenBlock(p, l) \in StateOf(WholeLine)
  BY <1>1, <1>2, <1>3, StateFields DEF StateOf
<1> QED BY <1>1, <1>3, <1>4, StateFields DEF r

LEMMA CloseFields ==
    ASSUME NEW p \in StateOf(WholeLine), p.open # None
    PROVE  LET q == CloseBlock(p)
               b == Block(p.open.day, p.open.draft, p.open.eol, p.body) IN
           /\ q \in StateOf(WholeLine) /\ b \in BlockSegment /\ b \in Segment
           /\ q.segments = Append(p.segments, b)
           /\ q.prose = p.prose /\ q.open = None /\ q.body = <<>> /\ q.fence = p.fence
           /\ q.error = p.error
<1> DEFINE b == Block(p.open.day, p.open.draft, p.open.eol, p.body)
<1>1. b \in BlockSegment /\ b \in Segment
  BY OpenIsBlock DEF Segment
<1>2. CloseBlock(p) = [segments |-> Append(p.segments, b), prose |-> p.prose, open |-> None,
                       body |-> <<>>, fence |-> p.fence, error |-> p.error]
  <2>1. CloseBlock(p) = [p EXCEPT !.segments = Append(@, b), !.open = None, !.body = <<>>]
    BY DEF CloseBlock
  <2> HIDE DEF b
  <2> QED BY <2>1, StateFields
<1> HIDE DEF b
<1>3. CloseBlock(p) \in StateOf(WholeLine)
  BY CloseIsState
<1> QED BY <1>1, <1>2, <1>3 DEF b

\* What a line does: it is kept, it ends a block or begins one, or it is an error.
LEMMA ParseCases ==
    ASSUME NEW p \in StateOf(WholeLine), ~p.error, NEW l \in NoteLine
    PROVE  \/ ParseLine(p, l) = Fail(p)
           \/ \E f \in {None} \cup Fences : ParseLine(p, l) = [Keep(p, l) EXCEPT !.fence = f]
           \/ p.open # None /\ l.kind = "end" /\ p.fence = None /\ ParseLine(p, l) = CloseBlock(p)
           \/ p.open = None /\ l.kind = "begin" /\ p.fence = None /\ ParseLine(p, l) = OpenBlock(p, l)
<1>1. CASE p.fence # None
  <2> DEFINE q == Keep(p, l)
             f == IF Closes(l.kind, p.fence) THEN None ELSE p.fence
  <2>1. ParseLine(p, l) = IF Closes(l.kind, p.fence) THEN [q EXCEPT !.fence = None] ELSE q
    BY <1>1 DEF ParseLine
  <2>2. q = [q EXCEPT !.fence = p.fence]
    BY StateFields DEF Keep
  <2>3. f \in {None} \cup Fences
    BY StateFields
  <2> QED BY <2>1, <2>2, <2>3
<1>2. CASE p.fence = None /\ l.kind \in Fences
  <2>1. ParseLine(p, l) = [Keep(p, l) EXCEPT !.fence = l.kind]
    BY <1>2 DEF ParseLine
  <2> QED BY <1>2, <2>1
<1>3. CASE p.fence = None /\ l.kind \notin Fences
  <2>1. ParseLine(p, l) = ParseMarkerLine(p, l)
    BY <1>3 DEF ParseLine
  <2>2. Keep(p, l) = [Keep(p, l) EXCEPT !.fence = None]
    BY <1>3, StateFields DEF Keep
  <2> QED BY <1>3, <2>1, <2>2 DEF ParseMarkerLine
<1> QED BY <1>1, <1>2, <1>3

LEMMA ParseIsState ==
    ASSUME NEW p \in StateOf(WholeLine), NEW l \in NoteLine
    PROVE  ParseLine(p, l) \in StateOf(NoteLine) /\ (l \in WholeLine => ParseLine(p, l) \in StateOf(WholeLine))
<1>1. p \in StateOf(NoteLine)
  BY WholeStateIsState
<1>2. CASE p.error
  BY <1>1, <1>2 DEF ParseLine
<1>3. CASE ~p.error
  <2>1. CASE ParseLine(p, l) = Fail(p)
    BY <1>1, <2>1, FailFields
  <2>2. CASE \E f \in {None} \cup Fences : ParseLine(p, l) = [Keep(p, l) EXCEPT !.fence = f]
    <3>1. Keep(p, l) \in StateOf(NoteLine) /\ (l \in WholeLine => Keep(p, l) \in StateOf(WholeLine))
      BY <1>1, KeepFields
    <3> QED BY <2>2, <3>1, FencedFields
  <2>3. CASE p.open # None /\ ParseLine(p, l) = CloseBlock(p)
    BY <2>3, CloseFields, WholeStateIsState
  <2>4. CASE ParseLine(p, l) = OpenBlock(p, l)
    BY <2>4, OpenFields
  <2> QED BY <1>3, <2>1, <2>2, <2>3, <2>4, ParseCases
<1> QED BY <1>2, <1>3

LEMMA ParseIsLocal ==
    ASSUME NEW pre \in Seq(Segment), NEW p \in StateOf(WholeLine), NEW l \in NoteLine
    PROVE  ParseLine(From(pre, p), l) = From(pre, ParseLine(p, l))
<1> DEFINE q == From(pre, p)
<1>0. /\ q \in StateOf(WholeLine) /\ q.prose = p.prose /\ q.open = p.open /\ q.body = p.body
      /\ q.fence = p.fence /\ q.error = p.error /\ q.segments = pre \o p.segments
  BY FromFields
<1>a. p \in StateOf(NoteLine) /\ q \in StateOf(NoteLine)
  BY <1>0, WholeStateIsState
<1>1. Keep(q, l) = From(pre, Keep(p, l))
  <2> HIDE DEF q
  <2>1. Keep(p, l) \in StateOf(NoteLine) /\ Keep(q, l) \in StateOf(NoteLine)
    BY <1>a, KeepFields
  <2>2. From(pre, Keep(p, l)) \in StateOf(NoteLine)
    BY <2>1, FromFields
  <2> DEFINE k == Keep(p, l)
             j == Keep(q, l)
  <2>3. /\ k.segments = p.segments /\ k.open = p.open /\ k.fence = p.fence /\ k.error = p.error
        /\ k.prose = IF p.open = None THEN Append(p.prose, l) ELSE p.prose
        /\ k.body = IF p.open = None THEN p.body ELSE Append(p.body, l)
    BY <1>a, KeepFields
  <2>4. /\ j.segments = q.segments /\ j.open = q.open /\ j.fence = q.fence /\ j.error = q.error
        /\ j.prose = IF q.open = None THEN Append(q.prose, l) ELSE q.prose
        /\ j.body = IF q.open = None THEN q.body ELSE Append(q.body, l)
    BY <1>a, KeepFields
  <2> HIDE DEF k, j
  <2>5. k \in StateOf(NoteLine) /\ j \in StateOf(NoteLine)
    BY <2>1 DEF k, j
  <2>6. /\ From(pre, k).segments = pre \o k.segments /\ From(pre, k).prose = k.prose
        /\ From(pre, k).open = k.open /\ From(pre, k).body = k.body
        /\ From(pre, k).fence = k.fence /\ From(pre, k).error = k.error
        /\ From(pre, k) \in StateOf(NoteLine)
    BY <2>5, FromFields
  <2>7. j = From(pre, k)
    <3>1. /\ j.segments = From(pre, k).segments /\ j.open = From(pre, k).open
          /\ j.fence = From(pre, k).fence /\ j.error = From(pre, k).error
          /\ j.prose = From(pre, k).prose /\ j.body = From(pre, k).body
      BY <1>0, <2>3, <2>4, <2>6
    <3> QED BY <2>5, <2>6, <3>1, StateEqual
  <2> QED BY <2>7 DEF k, j
<1>2. Fail(q) = From(pre, Fail(p))
  <2> HIDE DEF q
  <2>1. Fail(p) \in StateOf(NoteLine) /\ Fail(q) \in StateOf(NoteLine)
    BY <1>a, FailFields
  <2>2. From(pre, Fail(p)) \in StateOf(NoteLine)
    BY <2>1, FromFields
  <2>3. /\ Fail(q).segments = From(pre, Fail(p)).segments
        /\ Fail(q).prose = From(pre, Fail(p)).prose
        /\ Fail(q).open = From(pre, Fail(p)).open
        /\ Fail(q).body = From(pre, Fail(p)).body
        /\ Fail(q).fence = From(pre, Fail(p)).fence
    <3> DEFINE c == Fail(p)
               d == Fail(q)
    <3>1. /\ c.segments = p.segments /\ c.prose = p.prose /\ c.open = p.open
          /\ c.body = p.body /\ c.fence = p.fence
      BY <1>a, FailFields
    <3>2. /\ d.segments = q.segments /\ d.prose = q.prose /\ d.open = q.open
          /\ d.body = q.body /\ d.fence = q.fence
      BY <1>a, FailFields
    <3>3. c \in StateOf(NoteLine)
      BY <2>1
    <3> HIDE DEF c, d
    <3>4. /\ From(pre, c).segments = pre \o c.segments /\ From(pre, c).prose = c.prose
          /\ From(pre, c).open = c.open /\ From(pre, c).body = c.body
          /\ From(pre, c).fence = c.fence
      BY <3>3, FromFields
    <3>5. /\ d.segments = From(pre, c).segments /\ d.prose = From(pre, c).prose
          /\ d.open = From(pre, c).open /\ d.body = From(pre, c).body
          /\ d.fence = From(pre, c).fence
      BY <1>0, <3>1, <3>2, <3>4
    <3> QED BY <3>5 DEF c, d
  <2>4. Fail(q).error = From(pre, Fail(p)).error
    <3>1. Fail(p).error = TRUE /\ Fail(q).error = TRUE
      BY <1>a, StateFields DEF Fail
    <3> QED BY <2>1, <3>1, FromFields
  <2> QED BY <2>1, <2>2, <2>3, <2>4, StateEqual
<1>3. ASSUME p.open # None PROVE CloseBlock(q) = From(pre, CloseBlock(p))
  <2> DEFINE b == Block(p.open.day, p.open.draft, p.open.eol, p.body)
             c == CloseBlock(p)
             d == CloseBlock(q)
  <2>1. /\ c \in StateOf(WholeLine) /\ b \in Segment
        /\ c.segments = Append(p.segments, b)
        /\ c.prose = p.prose /\ c.open = None /\ c.body = <<>> /\ c.fence = p.fence
        /\ c.error = p.error
    BY <1>3, CloseFields
  <2>2. /\ d \in StateOf(WholeLine)
        /\ d.segments = Append(q.segments, b)
        /\ d.prose = q.prose /\ d.open = None /\ d.body = <<>> /\ d.fence = q.fence
        /\ d.error = q.error
    <3> HIDE DEF q
    <3> QED BY <1>0, <1>3, CloseFields
  <2> HIDE DEF b, c, d, q
  <2>3. pre \o Append(p.segments, b) = Append(pre \o p.segments, b)
    BY <2>1, StateFields, AppendToConcat
  <2>4. /\ From(pre, c) \in StateOf(WholeLine) /\ From(pre, c).segments = pre \o c.segments
        /\ From(pre, c).prose = c.prose /\ From(pre, c).open = c.open /\ From(pre, c).body = c.body
        /\ From(pre, c).fence = c.fence /\ From(pre, c).error = c.error
    BY <2>1, FromFields
  <2>5. d = From(pre, c)
    <3>1. d.segments = From(pre, c).segments
      BY <1>0, <2>1, <2>2, <2>3, <2>4
    <3>2. /\ d.prose = From(pre, c).prose /\ d.open = From(pre, c).open
          /\ d.body = From(pre, c).body /\ d.fence = From(pre, c).fence
          /\ d.error = From(pre, c).error
      BY <1>0, <2>1, <2>2, <2>4
    <3> QED BY <2>2, <2>4, <3>1, <3>2, StateEqual
  <2> QED BY <2>5 DEF c, d, q
<1>4. OpenBlock(q, l) = From(pre, OpenBlock(p, l))
  <2> DEFINE c == OpenBlock(p, l)
             d == OpenBlock(q, l)
  <2>1. /\ c \in StateOf(NoteLine) /\ c.segments = FlushProse(p).segments
        /\ c.prose = <<>> /\ c.open = l /\ c.body = p.body /\ c.fence = p.fence
        /\ c.error = p.error
    BY OpenFields
  <2> HIDE DEF q
  <2>2. /\ d \in StateOf(NoteLine) /\ d.segments = FlushProse(q).segments
        /\ d.prose = <<>> /\ d.open = l /\ d.body = q.body /\ d.fence = q.fence
        /\ d.error = q.error
    BY <1>0, OpenFields
  <2>3. FlushProse(p).segments = IF p.prose = <<>> THEN p.segments ELSE Append(p.segments, Prose(p.prose))
    BY FlushFields
  <2>4. FlushProse(q).segments = IF q.prose = <<>> THEN q.segments ELSE Append(q.segments, Prose(q.prose))
    BY <1>0, FlushFields
  <2>5. p.prose # <<>> => Prose(p.prose) \in Segment
    BY StateFields DEF Prose, Segment, ProseSegment
  <2>6. p.prose # <<>> =>
          pre \o Append(p.segments, Prose(p.prose)) = Append(pre \o p.segments, Prose(p.prose))
    BY <2>5, StateFields, AppendToConcat
  <2>7. /\ From(pre, c) \in StateOf(NoteLine) /\ From(pre, c).segments = pre \o c.segments
        /\ From(pre, c).prose = c.prose /\ From(pre, c).open = c.open /\ From(pre, c).body = c.body
        /\ From(pre, c).fence = c.fence /\ From(pre, c).error = c.error
    BY <2>1, FromFields
  <2> HIDE DEF c, d
  <2>8. d = From(pre, c)
    <3>1. d.segments = From(pre, c).segments
      BY <1>0, <2>1, <2>2, <2>3, <2>4, <2>6, <2>7
    <3>2. /\ d.prose = From(pre, c).prose /\ d.open = From(pre, c).open
          /\ d.body = From(pre, c).body /\ d.fence = From(pre, c).fence
          /\ d.error = From(pre, c).error
      BY <1>0, <2>1, <2>2, <2>7
    <3> QED BY <2>2, <2>7, <3>1, <3>2, StateEqual
  <2> QED BY <2>8 DEF c, d, q
<1>5. ASSUME NEW f PROVE [Keep(q, l) EXCEPT !.fence = f] = From(pre, [Keep(p, l) EXCEPT !.fence = f])
  <2> DEFINE k == Keep(p, l)
  <2>1. k \in StateOf(NoteLine)
    BY <1>a, KeepFields
  <2> DEFINE v == pre \o k.segments
  <2>2. From(pre, k) = [k EXCEPT !.segments = v]
    BY DEF From
  <2>3. From(pre, [k EXCEPT !.fence = f]) = [[k EXCEPT !.fence = f] EXCEPT !.segments = v]
    BY <2>1, StateFields DEF From
  <2>4. Keep(q, l) = From(pre, k)
    BY <1>1
  <2> HIDE DEF k, v
  <2>5. [[k EXCEPT !.segments = v] EXCEPT !.fence = f] = [[k EXCEPT !.fence = f] EXCEPT !.segments = v]
    OBVIOUS
  <2>6. [Keep(q, l) EXCEPT !.fence = f] = From(pre, [k EXCEPT !.fence = f])
    BY <2>2, <2>3, <2>4, <2>5
  <2> QED BY <2>6 DEF k
<1> HIDE DEF q
<1>6. ParseMarkerLine(q, l) = From(pre, ParseMarkerLine(p, l))
  <2>1. CASE p.open = None
    BY <1>0, <1>1, <1>2, <1>4, <2>1 DEF ParseMarkerLine
  <2>2. CASE p.open # None
    BY <1>0, <1>1, <1>2, <1>3, <2>2 DEF ParseMarkerLine
  <2> QED BY <2>1, <2>2
<1>7. CASE p.error
  <2>1. ParseLine(q, l) = q
    BY <1>0, <1>7 DEF ParseLine
  <2>2. ParseLine(p, l) = p
    BY <1>7 DEF ParseLine
  <2> QED BY <2>1, <2>2 DEF q
<1>8. CASE ~p.error /\ p.fence # None
  <2>1. ParseLine(q, l) = IF Closes(l.kind, p.fence) THEN [Keep(q, l) EXCEPT !.fence = None] ELSE Keep(q, l)
    BY <1>0, <1>8 DEF ParseLine
  <2>2. ParseLine(p, l) = IF Closes(l.kind, p.fence) THEN [Keep(p, l) EXCEPT !.fence = None] ELSE Keep(p, l)
    BY <1>8 DEF ParseLine
  <2>3. ParseLine(q, l) = From(pre, ParseLine(p, l))
    BY <1>1, <1>5, <2>1, <2>2
  <2> QED BY <2>3 DEF q
<1>9. CASE ~p.error /\ p.fence = None
  <2>1. ParseLine(q, l) = IF l.kind \in Fences THEN [Keep(q, l) EXCEPT !.fence = l.kind] ELSE ParseMarkerLine(q, l)
    BY <1>0, <1>9 DEF ParseLine
  <2>2. ParseLine(p, l) = IF l.kind \in Fences THEN [Keep(p, l) EXCEPT !.fence = l.kind] ELSE ParseMarkerLine(p, l)
    BY <1>9 DEF ParseLine
  <2>3. ParseLine(q, l) = From(pre, ParseLine(p, l))
    BY <1>5, <1>6, <2>1, <2>2
  <2> QED BY <2>3 DEF q
<1>10. p.error \in BOOLEAN
  BY StateFields
<1> QED BY <1>7, <1>8, <1>9, <1>10 DEF q

LEMMA AtEndIsState == ASSUME NEW t \in Seq(WholeLine) PROVE AtEnd(t) \in StateOf(WholeLine)
<1> DEFINE G == {x \in Seq(WholeLine) : AtEnd(x) \in StateOf(WholeLine)}
<1>1. <<>> \in G
  BY AtEndOfNothing, StartIsState, EmptySeq
<1>2. ASSUME NEW x \in G, NEW l \in WholeLine PROVE Append(x, l) \in G
  <2>1. AtEnd(Append(x, l)) = ParseLine(AtEnd(x), l) /\ Append(x, l) \in Seq(WholeLine)
    BY AtEndAppends, AppendProperties
  <2> QED BY <2>1, ParseIsState, WholeLineIsLine
<1> HIDE DEF G
<1>3. G = Seq(WholeLine)
  <2>1. G \in SUBSET Seq(WholeLine)
    BY DEF G
  <2> QED BY <1>1, <1>2, <2>1, SeqInduction
<1> QED BY <1>3 DEF G

LEMMA AtEndOneMore ==
    ASSUME NEW t \in Seq(WholeLine), NEW l \in NoteLine
    PROVE  /\ AtEnd(Append(t, l)) = ParseLine(AtEnd(t), l)
           /\ AtEnd(Append(t, l)) \in StateOf(NoteLine)
<1>1. t \in Seq(NoteLine)
  BY WholeLineIsLine
<1> QED BY <1>1, AtEndAppends, AtEndIsState, ParseIsState

\* A text that leaves the parser where another one does, but for the segments
\* behind it, leaves it there after the same lines more.
LEMMA AtEndResumes ==
    ASSUME NEW pre \in Seq(Segment), NEW x \in Seq(WholeLine), NEW y \in Seq(WholeLine),
           AtEnd(x) = From(pre, AtEnd(y)), NEW z \in Seq(WholeLine)
    PROVE  AtEnd(x \o z) = From(pre, AtEnd(y \o z))
<1> DEFINE G == {t \in Seq(WholeLine) : AtEnd(x \o t) = From(pre, AtEnd(y \o t))}
<1>1. <<>> \in G
  BY ConcatEmptySeq, EmptySeq
<1>2. ASSUME NEW t \in G, NEW l \in WholeLine PROVE Append(t, l) \in G
  <2>1. /\ x \o Append(t, l) = Append(x \o t, l) /\ y \o Append(t, l) = Append(y \o t, l)
        /\ x \o t \in Seq(WholeLine) /\ y \o t \in Seq(WholeLine)
    BY AppendToConcat, ConcatProperties
  <2>2. /\ AtEnd(Append(x \o t, l)) = ParseLine(AtEnd(x \o t), l)
        /\ AtEnd(Append(y \o t, l)) = ParseLine(AtEnd(y \o t), l)
        /\ AtEnd(y \o t) \in StateOf(WholeLine)
    BY <2>1, AtEndAppends, AtEndIsState
  <2>3. ParseLine(From(pre, AtEnd(y \o t)), l) = From(pre, ParseLine(AtEnd(y \o t), l))
    BY <2>2, ParseIsLocal, WholeLineIsLine
  <2>4. Append(t, l) \in Seq(WholeLine)
    BY AppendProperties
  <2> QED BY <2>1, <2>2, <2>3, <2>4
<1> HIDE DEF G
<1>3. G = Seq(WholeLine)
  <2>1. G \in SUBSET Seq(WholeLine)
    BY DEF G
  <2> QED BY <1>1, <1>2, <2>1, SeqInduction
<1> QED BY <1>3 DEF G

\* A sequence around one of its places.
Ahead(s, m) == SubSeq(s, 1, m - 1)
Beyond(s, m) == SubSeq(s, m + 1, Len(s))

LEMMA ThreeParts ==
    ASSUME NEW T, NEW a \in Seq(T), NEW c \in Seq(T), NEW e \in T
    PROVE  /\ a \o <<e>> \o c \in Seq(T)
           /\ Len(a \o <<e>> \o c) = Len(a) + 1 + Len(c)
           /\ \A k \in 1 .. Len(a) + 1 + Len(c) :
                (a \o <<e>> \o c)[k] = IF k <= Len(a) THEN a[k]
                                       ELSE IF k = Len(a) + 1 THEN e ELSE c[k - Len(a) - 1]
<1> DEFINE one == <<e>>
<1>1. one \in Seq(T) /\ Len(one) = 1 /\ one[1] = e
  OBVIOUS
<1> HIDE DEF one
<1> DEFINE b == a \o one
<1>2. /\ b \in Seq(T) /\ Len(b) = Len(a) + 1
      /\ \A k \in 1 .. Len(a) + 1 : b[k] = IF k <= Len(a) THEN a[k] ELSE one[k - Len(a)]
  BY <1>1, ConcatProperties
<1> HIDE DEF b
<1>3. /\ b \o c \in Seq(T) /\ Len(b \o c) = Len(b) + Len(c)
      /\ \A k \in 1 .. Len(b) + Len(c) : (b \o c)[k] = IF k <= Len(b) THEN b[k] ELSE c[k - Len(b)]
  BY <1>2, ConcatProperties
<1>4. Len(a) \in Nat /\ Len(c) \in Nat
  BY LenProperties
<1>5. ASSUME NEW k \in 1 .. Len(a) + 1 + Len(c)
      PROVE  (b \o c)[k] = IF k <= Len(a) THEN a[k]
                           ELSE IF k = Len(a) + 1 THEN e ELSE c[k - Len(a) - 1]
  <2>1. k \in 1 .. Len(b) + Len(c) /\ k - Len(a) - 1 = k - Len(b)
    BY <1>2, <1>4
  <2>2. CASE k <= Len(a)
    BY <1>2, <1>3, <1>4, <2>1, <2>2
  <2>3. CASE k = Len(a) + 1
    <3>1. k - Len(a) = 1
      BY <1>4, <2>3
    <3> QED BY <1>1, <1>2, <1>3, <1>4, <2>1, <2>3, <3>1
  <2>4. CASE k > Len(a) + 1
    <3>1. ~(k <= Len(b)) /\ ~(k <= Len(a)) /\ k # Len(a) + 1
      BY <1>2, <1>4, <2>4
    <3>2. (b \o c)[k] = c[k - Len(b)]
      BY <1>3, <2>1, <3>1
    <3> QED BY <2>1, <3>1, <3>2
  <2>5. k <= Len(a) \/ k = Len(a) + 1 \/ k > Len(a) + 1
    BY <1>4
  <2> QED BY <2>2, <2>3, <2>4, <2>5, Zenon
<1> QED BY <1>2, <1>3, <1>4, <1>5 DEF b, one

LEMMA Around ==
    ASSUME NEW T, NEW s \in Seq(T), NEW m \in 1 .. Len(s)
    PROVE  /\ Ahead(s, m) \in Seq(T) /\ Beyond(s, m) \in Seq(T)
           /\ Len(Ahead(s, m)) = m - 1 /\ Len(Beyond(s, m)) = Len(s) - m
           /\ \A k \in 1 .. m - 1 : Ahead(s, m)[k] = s[k]
           /\ \A k \in 1 .. Len(s) - m : Beyond(s, m)[k] = s[k + m]
           /\ s = Ahead(s, m) \o <<s[m]>> \o Beyond(s, m)
<1> DEFINE a == Ahead(s, m)
           c == Beyond(s, m)
<1>1. /\ a \in Seq(T) /\ c \in Seq(T) /\ Len(a) = m - 1 /\ Len(c) = Len(s) - m
      /\ \A k \in 1 .. m - 1 : a[k] = s[k]
      /\ \A k \in 1 .. Len(s) - m : c[k] = s[k + m]
  BY DEF Ahead, Beyond
<1> HIDE DEF a, c
<1> DEFINE t == a \o <<s[m]>> \o c
<1>2. t \in Seq(T) /\ Len(t) = Len(s)
  BY <1>1
<1>3. ASSUME NEW k \in 1 .. Len(s) PROVE s[k] = t[k]
  <2>1. CASE k < m
    BY <1>1, <2>1
  <2>2. CASE k = m
    BY <1>1, <2>2
  <2>3. CASE k > m
    <3>1. k - m \in 1 .. Len(s) - m /\ (k - m) + m = k
      BY <2>3
    <3> DEFINE u == a \o <<s[m]>>
    <3>2. u \in Seq(T) /\ Len(u) = m /\ t = u \o c
      BY <1>1
    <3>3. c[k - m] = s[k]
      BY <1>1, <3>1
    <3> HIDE DEF u, t
    <3>4. (u \o c)[k] = c[k - m]
      BY <1>1, <2>3, <3>1, <3>2
    <3> QED BY ONLY <3>2, <3>3, <3>4
  <2>4. k < m \/ k = m \/ k > m
    OBVIOUS
  <2> HIDE DEF t
  <2> QED BY <2>1, <2>2, <2>3, <2>4, Zenon
<1> HIDE DEF t
<1>4. s = t
  BY <1>2, <1>3, SeqEqual
<1> QED BY <1>1, <1>4 DEF a, c, t

LEMMA AroundReplaced ==
    ASSUME NEW T, NEW s \in Seq(T), NEW m \in 1 .. Len(s), NEW e
    PROVE  ReplaceAt(s, m, e) = Ahead(s, m) \o <<e>> \o Beyond(s, m)
<1> DEFINE a == Ahead(s, m)
           c == Beyond(s, m)
           r == ReplaceAt(s, m, e)
           t == a \o <<e>> \o c
           U == T \cup {e}
<1>1. /\ a \in Seq(T) /\ c \in Seq(T) /\ Len(a) = m - 1 /\ Len(c) = Len(s) - m
      /\ \A k \in 1 .. m - 1 : a[k] = s[k]
      /\ \A k \in 1 .. Len(s) - m : c[k] = s[k + m]
  BY Around
<1>2. r = [k \in 1 .. Len(s) |-> IF k = m THEN e ELSE s[k]]
  BY DEF ReplaceAt
<1> HIDE DEF a, c, r
<1>3. r \in Seq(U) /\ Len(r) = Len(s)
  <2>1. \A k \in 1 .. Len(s) : r[k] \in U
    BY <1>2
  <2> QED BY <1>2, <2>1
<1>4. a \in Seq(U) /\ c \in Seq(U) /\ e \in U
  BY <1>1
<1>5. /\ t \in Seq(U) /\ Len(t) = Len(a) + 1 + Len(c)
      /\ \A k \in 1 .. Len(a) + 1 + Len(c) :
           t[k] = IF k <= Len(a) THEN a[k]
                  ELSE IF k = Len(a) + 1 THEN e ELSE c[k - Len(a) - 1]
  <2> HIDE DEF U
  <2> QED BY <1>4, ThreeParts
<1> HIDE DEF t, U
<1>6. ASSUME NEW k \in 1 .. Len(s) PROVE r[k] = t[k]
  <2>1. Len(s) \in Nat /\ k \in 1 .. Len(a) + 1 + Len(c) /\ Len(a) = m - 1
    BY <1>1
  <2>2. CASE k <= m - 1
    BY <1>1, <1>2, <1>5, <2>1, <2>2
  <2>3. CASE k = m
    BY <1>1, <1>2, <1>5, <2>1, <2>3
  <2>4. CASE k > m
    <3>1. t[k] = c[k - m] /\ k - m \in 1 .. Len(s) - m
      <4>1. /\ ~(k <= Len(a)) /\ k # Len(a) + 1 /\ k - Len(a) - 1 = k - m
            /\ k - m \in 1 .. Len(s) - m
        BY <2>1, <2>4
      <4>2. t[k] = IF k <= Len(a) THEN a[k]
                   ELSE IF k = Len(a) + 1 THEN e ELSE c[k - Len(a) - 1]
        BY <1>5, <2>1
      <4> QED BY <4>1, <4>2
    <3>2. c[k - m] = s[(k - m) + m] /\ (k - m) + m = k
      BY <1>1, <2>1, <3>1
    <3>3. r[k] = s[k]
      BY <1>2, <2>4
    <3> QED BY <3>1, <3>2, <3>3
  <2> QED BY <2>1, <2>2, <2>3, <2>4
<1>7. Len(t) = Len(s)
  <2>1. Len(s) \in Nat /\ m \in Nat
    OBVIOUS
  <2> QED BY <1>1, <1>5, <2>1
<1>8. r = t
  BY <1>3, <1>5, <1>6, <1>7, SeqEqual
<1> QED BY <1>8 DEF a, c, r, t

LEMMA AroundAppended ==
    ASSUME NEW T, NEW s \in Seq(T), NEW e \in T
    PROVE  /\ \A m \in 1 .. Len(s) : /\ Ahead(Append(s, e), m) = Ahead(s, m)
                                      /\ Beyond(Append(s, e), m) = Append(Beyond(s, m), e)
                                      /\ Append(s, e)[m] = s[m]
           /\ Ahead(Append(s, e), Len(s) + 1) = s
           /\ Beyond(Append(s, e), Len(s) + 1) = <<>>
           /\ Append(s, e)[Len(s) + 1] = e
           /\ Len(Append(s, e)) = Len(s) + 1
<1>1. ASSUME NEW m \in 1 .. Len(s)
      PROVE  /\ Ahead(Append(s, e), m) = Ahead(s, m)
             /\ Beyond(Append(s, e), m) = Append(Beyond(s, m), e)
             /\ Append(s, e)[m] = s[m]
  <2>1. Ahead(Append(s, e), m) = Ahead(s, m)
    BY DEF Ahead
  <2>2. Beyond(Append(s, e), m) = Append(Beyond(s, m), e)
    <3> DEFINE x == Beyond(Append(s, e), m)
               y == Append(Beyond(s, m), e)
    <3>1. /\ x \in Seq(T) /\ Len(x) = Len(s) + 1 - m
          /\ \A k \in 1 .. Len(s) + 1 - m : x[k] = Append(s, e)[k + m]
      BY DEF Beyond
    <3>2. /\ Beyond(s, m) \in Seq(T) /\ Len(Beyond(s, m)) = Len(s) - m
          /\ \A k \in 1 .. Len(s) - m : Beyond(s, m)[k] = s[k + m]
      BY Around
    <3>3. y \in Seq(T) /\ Len(y) = Len(s) + 1 - m
      BY <3>2
    <3>4. ASSUME NEW k \in 1 .. Len(s) + 1 - m PROVE x[k] = y[k]
      <4>1. CASE k = Len(s) + 1 - m
        <5>1. x[k] = Append(s, e)[Len(s) + 1]
          BY <3>1, <4>1
        <5>2. y[k] = e
          BY <3>2, <4>1
        <5> QED BY <5>1, <5>2
      <4>2. CASE k # Len(s) + 1 - m
        <5>1. k \in 1 .. Len(s) - m /\ k + m \in 1 .. Len(s)
          BY <4>2
        <5>2. x[k] = s[k + m]
          BY <3>1, <5>1
        <5>3. y[k] = s[k + m]
          BY <3>2, <5>1
        <5> QED BY <5>2, <5>3
      <4> QED BY <4>1, <4>2
    <3> HIDE DEF x, y
    <3>5. x = y
      BY <3>1, <3>3, <3>4, SeqEqual
    <3> QED BY <3>5 DEF x, y
  <2> QED BY <2>1, <2>2
<1>2. Ahead(Append(s, e), Len(s) + 1) = s /\ Beyond(Append(s, e), Len(s) + 1) = <<>>
  BY DEF Ahead, Beyond
<1> QED BY <1>1, <1>2

(***************************************************************************)
(* What a parser in state p has made of a text                             *)
(***************************************************************************)

\* The lines not yet in a segment, and the state they alone lead to.
PendingLines(p) == IF p.open = None THEN p.prose ELSE <<p.open>> \o p.body
Alone(p) == [p EXCEPT !.segments = <<>>]

\* The lines are the text of one segment, parsed and rendered.
Makes(s, lines) == AtEnd(lines) = [ParserStart EXCEPT !.segments = <<s>>]

\* A block that was rendered has its separator in its body.
Separated(s) == IF s.type = "prose" THEN s ELSE [s EXCEPT !.lines = @ \o Separator(s)]

Sound(s) ==
    IF s.type = "prose" THEN AtEnd(s.lines) = [ParserStart EXCEPT !.prose = s.lines]
    ELSE Makes(Separated(s), RenderBlock(s))

Good(segments) ==
    /\ \A k \in 1 .. Len(segments) : Sound(segments[k])
    /\ \A k \in 1 .. Len(segments) - 1 : segments[k].type = "prose" => segments[k + 1].type = "block"

Shape(p) ==
    /\ p.open = None =>
         /\ p.body = <<>>
         /\ p.segments # <<>> => p.segments[Len(p.segments)].type = "block"
    /\ p.open # None => p.prose = <<>> /\ p.open.kind = "begin"

\* A reader sees the segments, and behind them the pending lines.
Told(text, p) ==
    \E a \in Seq(NoteLine) : text = a \o PendingLines(p) /\ Visible(a) = Visible(Render(p.segments))

\* One stretch of the text is the block, between what the others show.
Found(text, p, m) ==
    \E a \in Seq(NoteLine), b \in Seq(NoteLine), c \in Seq(NoteLine) :
        /\ text = a \o b \o c
        /\ Makes(p.segments[m], b)
        /\ Visible(a) = Visible(Render(Ahead(p.segments, m)))
        /\ Visible(c) = Visible(Render(Beyond(p.segments, m))) \o Visible(PendingLines(p))

Explains(text, p) ==
    /\ Shape(p)
    /\ Good(p.segments)
    /\ AtEnd(PendingLines(p)) = Alone(p)
    /\ Told(text, p)
    /\ \A m \in 1 .. Len(p.segments) : p.segments[m].type = "block" => Found(text, p, m)

LEMMA PendingIsLines ==
    ASSUME NEW L, NEW p \in StateOf(L)
    PROVE  PendingLines(p) \in Seq(L)
<1>1. CASE p.open = None
  BY <1>1, StateFields DEF PendingLines
<1>2. CASE p.open # None
  <2>1. <<p.open>> \in Seq(L) /\ p.body \in Seq(L)
    BY <1>2, StateFields
  <2> QED BY <1>2, <2>1, ConcatProperties DEF PendingLines
<1> QED BY <1>1, <1>2

LEMMA AloneFields ==
    ASSUME NEW L, NEW p \in StateOf(L)
    PROVE  /\ Alone(p) \in StateOf(L) /\ Alone(p).segments = <<>>
           /\ Alone(p).prose = p.prose /\ Alone(p).open = p.open /\ Alone(p).body = p.body
           /\ Alone(p).fence = p.fence /\ Alone(p).error = p.error
           /\ p = From(p.segments, Alone(p))
<1>0. <<>> \in Seq(Segment)
  BY EmptySeq
<1>1. /\ Alone(p) \in StateOf(L) /\ Alone(p).segments = <<>>
      /\ Alone(p).prose = p.prose /\ Alone(p).open = p.open /\ Alone(p).body = p.body
      /\ Alone(p).fence = p.fence /\ Alone(p).error = p.error
  BY <1>0, StateFields DEF StateOf, Alone
<1> DEFINE q == Alone(p)
<1>2. p.segments \in Seq(Segment) /\ p.segments \o <<>> = p.segments
  BY StateFields, ConcatEmptySeq
<1> HIDE DEF q
<1>3. /\ From(p.segments, q) \in StateOf(L) /\ From(p.segments, q).segments = p.segments \o q.segments
      /\ From(p.segments, q).prose = q.prose /\ From(p.segments, q).open = q.open
      /\ From(p.segments, q).body = q.body /\ From(p.segments, q).fence = q.fence
      /\ From(p.segments, q).error = q.error
  BY <1>1, <1>2, FromFields DEF q
<1>4. p = From(p.segments, q)
  BY <1>1, <1>2, <1>3, StateEqual DEF q
<1> QED BY <1>1, <1>4 DEF q

\* What a line does behind the segments it does behind none.
LEMMA AloneParse ==
    ASSUME NEW p \in StateOf(WholeLine), NEW l \in NoteLine,
           ParseLine(p, l).segments = p.segments
    PROVE  ParseLine(Alone(p), l) = Alone(ParseLine(p, l))
<1> DEFINE q == ParseLine(p, l)
           o == Alone(p)
           r == ParseLine(o, l)
           pre == p.segments
<1>1. /\ o \in StateOf(WholeLine) /\ p = From(pre, o) /\ pre \in Seq(Segment)
      /\ q \in StateOf(NoteLine)
  BY AloneFields, StateFields, ParseIsState
<1>2. r \in StateOf(NoteLine) /\ q = From(pre, r)
  <2> HIDE DEF o, pre
  <2> QED BY <1>1, ParseIsState, ParseIsLocal
<1>3. q.segments = pre
  OBVIOUS
<1>4. /\ Alone(q) \in StateOf(NoteLine) /\ Alone(q).segments = <<>>
      /\ Alone(q).prose = q.prose /\ Alone(q).open = q.open /\ Alone(q).body = q.body
      /\ Alone(q).fence = q.fence /\ Alone(q).error = q.error
  <2> HIDE DEF q
  <2> QED BY <1>1, AloneFields
<1> HIDE DEF q, o, r, pre
<1>5. /\ q.segments = pre \o r.segments /\ q.prose = r.prose /\ q.open = r.open
      /\ q.body = r.body /\ q.fence = r.fence /\ q.error = r.error
  BY <1>1, <1>2, FromFields
<1>6. r.segments = <<>>
  <2>1. r.segments \in Seq(Segment)
    BY <1>2, StateFields
  <2> QED BY <1>1, <1>3, <1>5, <2>1, ConcatEqualIffEmpty
<1>7. r = Alone(q)
  BY <1>2, <1>4, <1>5, <1>6, StateEqual
<1> QED BY <1>7 DEF q, o, r

LEMMA EndIsVisible ==
    ASSUME NEW l \in NoteLine, l.kind = "end", NEW e \in {"lf", "crlf", "none"}
    PROVE  Visible(<<l>>) = Visible(<<Plain("end", e)>>)
<1>1. l \in TextLine /\ l.day = None /\ l.draft = None
  BY DEF NoteLine
<1>2. Plain("end", e) \in TextLine /\ Plain("end", e).kind = "end"
  BY PlainIsLine, WholeLineIsLine DEF LineKinds
<1>3. [l EXCEPT !.eol = "lf"] = [Plain("end", e) EXCEPT !.eol = "lf"]
  BY <1>1, LineFields DEF Plain, Line
<1> QED BY <1>1, <1>2, <1>3, VisibleLine

\* A reader sees of a block its begin marker, its body and its end marker.
LEMMA VisibleBlock ==
    ASSUME NEW b \in BlockSegment
    PROVE  Visible(RenderBlock(b)) = Visible(<<Begin(b)>> \o b.lines) \o Visible(<<Plain("end", b.eol)>>)
<1> DEFINE x == <<Begin(b)>> \o b.lines
           z == Separator(b)
           w == <<Plain("end", b.eol)>>
<1>1. x \in Seq(TextLine) /\ z \in Seq(TextLine) /\ w \in Seq(TextLine)
  BY BlockLines, WholeLineIsLine
<1>2. RenderBlock(b) = x \o z \o w
  BY RenderBlockParts
<1>3. Visible(z) = <<>>
  <2>1. CASE z = <<>>
    BY <2>1, VisibleOfNothing
  <2>2. CASE z = <<Plain("blank", b.eol)>>
    <3>1. b.eol \in {"lf", "crlf", "none"} /\ "blank" \in LineKinds
      BY DEF BlockSegment, LineKinds
    <3>2. Plain("blank", b.eol) \in TextLine /\ Plain("blank", b.eol).kind = "blank"
      BY <3>1, PlainIsLine, WholeLineIsLine
    <3> QED BY <2>2, <3>2, VisibleLine
  <2> QED BY <2>1, <2>2, BlockLines
<1> HIDE DEF x, z, w
<1>4. Visible(x \o z) = Visible(x) \o Visible(z) /\ x \o z \in Seq(TextLine)
  BY <1>1, VisibleOfBoth, ConcatProperties
<1>5. Visible(x) \o <<>> = Visible(x)
  BY <1>1, VisibleIsLines, ConcatEmptySeq
<1>6. Visible(x \o z \o w) = Visible(x \o z) \o Visible(w)
  BY <1>1, <1>4, VisibleOfBoth
<1> QED BY <1>2, <1>3, <1>4, <1>5, <1>6 DEF x, w

LEMMA StartWithProse ==
    ASSUME NEW L, NEW x \in Seq(L)
    PROVE  LET r == [ParserStart EXCEPT !.prose = x] IN
           /\ r \in StateOf(L) /\ r.segments = <<>> /\ r.prose = x /\ r.open = None
           /\ r.body = <<>> /\ r.fence = None /\ r.error = FALSE
BY EmptySeq DEF ParserStart, StateOf

LEMMA StartWithSegments ==
    ASSUME NEW L, NEW x \in Seq(Segment)
    PROVE  LET r == [ParserStart EXCEPT !.segments = x] IN
           /\ r \in StateOf(L) /\ r.segments = x /\ r.prose = <<>> /\ r.open = None
           /\ r.body = <<>> /\ r.fence = None /\ r.error = FALSE
BY EmptySeq DEF ParserStart, StateOf

\* A block found is found behind one line more, if a reader sees it there.
LEMMA FoundStays ==
    ASSUME NEW t \in Seq(WholeLine), NEW l \in NoteLine,
           NEW p \in StateOf(WholeLine), NEW q \in StateOf(NoteLine),
           NEW m \in 1 .. Len(p.segments), Found(t, p, m), m \in 1 .. Len(q.segments),
           q.segments[m] = p.segments[m],
           Ahead(q.segments, m) = Ahead(p.segments, m),
           Visible(Render(Beyond(q.segments, m))) \o Visible(PendingLines(q))
             = Visible(Render(Beyond(p.segments, m))) \o (Visible(PendingLines(p)) \o Visible(<<l>>))
    PROVE  Found(Append(t, l), q, m)
<1> DEFINE pre == Ahead(p.segments, m)
           post == Beyond(p.segments, m)
<1>1. PICK a \in Seq(NoteLine), b \in Seq(NoteLine), c \in Seq(NoteLine) :
        /\ t = a \o b \o c
        /\ Makes(p.segments[m], b)
        /\ Visible(a) = Visible(Render(pre))
        /\ Visible(c) = Visible(Render(post)) \o Visible(PendingLines(p))
  BY DEF Found
<1>2. a \o b \in Seq(NoteLine) /\ Append(c, l) \in Seq(NoteLine)
  BY ConcatProperties, AppendProperties
<1>3. Append(t, l) = (a \o b) \o Append(c, l)
  <2>1. (a \o b) \o Append(c, l) = Append((a \o b) \o c, l)
    <3> DEFINE x == a \o b
    <3>1. x \in Seq(NoteLine) /\ c \in Seq(NoteLine) /\ l \in NoteLine
      BY <1>1, <1>2
    <3> HIDE DEF x
    <3>2. x \o Append(c, l) = Append(x \o c, l)
      BY ONLY <3>1, AppendToConcat
    <3> QED BY <3>2 DEF x
  <2> QED BY <1>1, <2>1
<1>4. /\ c \in Seq(TextLine) /\ <<l>> \in Seq(TextLine) /\ Append(c, l) = c \o <<l>>
      /\ PendingLines(p) \in Seq(TextLine)
  BY WholeLineIsLine, AppendIsConcat, PendingIsLines
<1>5. post \in Seq(Segment)
  BY StateFields, Around
<1>6. Render(post) \in Seq(TextLine)
  BY <1>5, RenderIsWhole, WholeLineIsLine
<1> HIDE DEF pre, post
<1>7. Visible(Append(c, l)) = (Visible(Render(post)) \o Visible(PendingLines(p))) \o Visible(<<l>>)
  BY <1>1, <1>4, VisibleOfBoth
<1>8. Visible(Append(c, l)) = Visible(Render(post)) \o (Visible(PendingLines(p)) \o Visible(<<l>>))
  <2> DEFINE x == Visible(Render(post))
             y == Visible(PendingLines(p))
             z == Visible(<<l>>)
  <2>1. x \in Seq(TextLine) /\ y \in Seq(TextLine) /\ z \in Seq(TextLine)
    BY <1>4, <1>6, VisibleIsLines
  <2> HIDE DEF x, y, z
  <2>2. (x \o y) \o z = x \o (y \o z)
    BY ONLY <2>1, TextAssociative
  <2> QED BY <1>7, <2>2 DEF x, y, z
<1> QED BY <1>1, <1>2, <1>3, <1>8 DEF Found, pre, post

LEMMA KeptIsExplained ==
    ASSUME NEW t \in Seq(WholeLine), NEW l \in NoteLine, NEW p \in StateOf(WholeLine),
           p = AtEnd(t), Explains(t, p), NEW f \in {None} \cup Fences,
           ParseLine(p, l) = [Keep(p, l) EXCEPT !.fence = f]
    PROVE  Explains(Append(t, l), ParseLine(p, l))
<1> DEFINE q == ParseLine(p, l)
           k == Keep(p, l)
<1>1. /\ k \in StateOf(NoteLine) /\ k.segments = p.segments
      /\ k.prose = IF p.open = None THEN Append(p.prose, l) ELSE p.prose
      /\ k.open = p.open
      /\ k.body = IF p.open = None THEN p.body ELSE Append(p.body, l)
  BY WholeStateIsState, KeepFields
<1>2. /\ q \in StateOf(NoteLine) /\ q.segments = p.segments /\ q.open = p.open
      /\ q.prose = IF p.open = None THEN Append(p.prose, l) ELSE p.prose
      /\ q.body = IF p.open = None THEN p.body ELSE Append(p.body, l)
  <2> HIDE DEF k
  <2>1. q = [k EXCEPT !.fence = f]
    BY DEF k
  <2>2. /\ q \in StateOf(NoteLine) /\ q.segments = k.segments /\ q.prose = k.prose
        /\ q.open = k.open /\ q.body = k.body
    <3> HIDE DEF q
    <3>1. k \in StateOf(NoteLine)
      BY <1>1
    <3>2. [k EXCEPT !.fence = f] \in StateOf(NoteLine)
      BY <3>1, FencedFields
    <3>3. k = [segments |-> k.segments, prose |-> k.prose, open |-> k.open,
               body |-> k.body, fence |-> k.fence, error |-> k.error]
      BY <3>1, StateFields
    <3> QED BY <2>1, <3>2, <3>3
  <2> HIDE DEF q
  <2> QED BY <1>1, <2>2
<1>3. /\ Alone(q) = ParseLine(Alone(p), l)
  BY <1>2, AloneParse
<1> HIDE DEF q, k
<1>4. /\ p.prose \in Seq(NoteLine) /\ p.body \in Seq(NoteLine) /\ p.open \in {None} \cup NoteLine
      /\ p.segments \in Seq(Segment)
  BY WholeStateIsState, StateFields
<1>5. PendingLines(q) = Append(PendingLines(p), l)
  <2>1. CASE p.open = None
    BY <1>2, <2>1 DEF PendingLines
  <2>2. CASE p.open # None
    <3>1. <<p.open>> \in Seq(NoteLine)
      BY <1>4, <2>2
    <3>2. <<p.open>> \o Append(p.body, l) = Append(<<p.open>> \o p.body, l)
      BY <1>4, <3>1, AppendToConcat
    <3> QED BY <1>2, <2>2, <3>2 DEF PendingLines
  <2> QED BY <2>1, <2>2
<1>6. PendingLines(p) \in Seq(WholeLine) /\ PendingLines(p) \in Seq(NoteLine) /\ PendingLines(p) \in Seq(TextLine)
  BY PendingIsLines, WholeLineIsLine
<1>7. Shape(q)
  BY <1>2 DEF Explains, Shape
<1>8. Good(q.segments)
  BY <1>2 DEF Explains
<1>9. AtEnd(PendingLines(q)) = Alone(q)
  BY <1>3, <1>5, <1>6, AtEndAppends DEF Explains
<1>10. Told(Append(t, l), q)
  <2>1. PICK a \in Seq(NoteLine) : t = a \o PendingLines(p) /\ Visible(a) = Visible(Render(p.segments))
    BY DEF Explains, Told
  <2>2. a \in Seq(NoteLine)
    OBVIOUS
  <2>3. Append(t, l) = a \o PendingLines(q)
    <3>1. a \o Append(PendingLines(p), l) = Append(a \o PendingLines(p), l)
      BY <1>6, <2>2, AppendToConcat
    <3> QED BY <1>5, <2>1, <3>1
  <2> QED BY <1>2, <2>1, <2>3 DEF Told
<1>11. ASSUME NEW m \in 1 .. Len(q.segments), q.segments[m].type = "block"
       PROVE  Found(Append(t, l), q, m)
  <2>1. m \in 1 .. Len(p.segments) /\ Found(t, p, m)
    BY <1>2, <1>11 DEF Explains
  <2>2. /\ <<l>> \in Seq(TextLine) /\ Append(PendingLines(p), l) = PendingLines(p) \o <<l>>
    <3>1. l \in TextLine
      BY WholeLineIsLine
    <3> QED BY <1>6, <3>1, AppendIsConcat
  <2>3. Visible(PendingLines(q)) = Visible(PendingLines(p)) \o Visible(<<l>>)
    BY <1>5, <1>6, <2>2, VisibleOfBoth
  <2> QED BY <1>2, <2>1, <2>3, FoundStays
<1>12. Explains(Append(t, l), q)
  BY <1>7, <1>8, <1>9, <1>10, <1>11 DEF Explains
<1> QED BY <1>12 DEF q

\* Nothing shows nothing.
LEMMA VisibleNothing ==
    ASSUME NEW x \in Seq(TextLine)
    PROVE  Visible(x) \o Visible(<<>>) = Visible(x) /\ Visible(<<>>) \o Visible(x) = Visible(x)
BY VisibleOfNothing, VisibleIsLines, ConcatEmptySeq

LEMMA BeginIsExplained ==
    ASSUME NEW t \in Seq(WholeLine), NEW l \in NoteLine, NEW p \in StateOf(WholeLine),
           p = AtEnd(t), Explains(t, p), ~p.error, p.open = None, p.fence = None, l.kind = "begin",
           ParseLine(p, l) = OpenBlock(p, l)
    PROVE  Explains(Append(t, l), ParseLine(p, l))
<1> DEFINE q == ParseLine(p, l)
           s == Prose(p.prose)
<1>1. /\ q \in StateOf(NoteLine) /\ q.segments = FlushProse(p).segments
      /\ q.prose = <<>> /\ q.open = l /\ q.body = p.body /\ q.fence = p.fence
      /\ q.error = p.error
  BY OpenFields
<1>2. q.segments = IF p.prose = <<>> THEN p.segments ELSE Append(p.segments, s)
  BY <1>1, FlushFields
<1> HIDE DEF q
<1>3. p.segments \in Seq(Segment) /\ p.prose \in Seq(WholeLine) /\ p.error \in BOOLEAN
  BY StateFields
<1>4. p.prose # <<>> => s \in Segment /\ s.type = "prose" /\ s.lines = p.prose /\ RenderSegment(s) = p.prose
  BY <1>3 DEF Prose, Segment, ProseSegment, RenderSegment
<1> HIDE DEF s
<1>5. PendingLines(p) = p.prose /\ p.body = <<>>
  BY DEF PendingLines, Explains, Shape
<1>6. l # None /\ l \in TextLine /\ <<l>> \in Seq(TextLine) /\ <<l>> \in Seq(NoteLine)
  BY WholeLineIsLine, LineFields
<1>7. PendingLines(q) = <<l>>
  <2>1. <<l>> \o <<>> = <<l>>
    BY <1>6, ConcatEmptySeq
  <2> QED BY <1>1, <1>5, <1>6, <2>1 DEF PendingLines
<1>8. Shape(q)
  BY <1>1, <1>6 DEF Shape
<1>9. Good(q.segments)
  <2>1. CASE p.prose = <<>>
    BY <1>2, <2>1 DEF Explains
  <2>2. CASE p.prose # <<>>
    <3>1. Good(p.segments) /\ (p.segments # <<>> => p.segments[Len(p.segments)].type = "block")
      BY DEF Explains, Shape
    <3>2. Alone(p) = [ParserStart EXCEPT !.prose = p.prose]
      <4>1. /\ Alone(p) \in StateOf(WholeLine) /\ Alone(p).segments = <<>>
            /\ Alone(p).prose = p.prose /\ Alone(p).open = p.open /\ Alone(p).body = p.body
            /\ Alone(p).fence = p.fence /\ Alone(p).error = p.error
        BY AloneFields
      <4> DEFINE r == [ParserStart EXCEPT !.prose = p.prose]
      <4>2. /\ r \in StateOf(WholeLine) /\ r.segments = <<>> /\ r.prose = p.prose /\ r.open = None
            /\ r.body = <<>> /\ r.fence = None /\ r.error = FALSE
        BY <1>3, StartWithProse
      <4> HIDE DEF r
      <4>3. Alone(p) = r
        BY <1>3, <1>5, <4>1, <4>2, StateEqual
      <4> QED BY <4>3 DEF r
    <3>3. Sound(s)
      BY <1>4, <1>5, <2>2, <3>2 DEF Sound, Explains
    <3>4. /\ \A m \in 1 .. Len(p.segments) : Append(p.segments, s)[m] = p.segments[m]
          /\ Append(p.segments, s)[Len(p.segments) + 1] = s
          /\ Len(Append(p.segments, s)) = Len(p.segments) + 1
      BY <1>3, <1>4, <2>2, AroundAppended
    <3>5. Len(p.segments) \in Nat /\ (Len(p.segments) > 0 => p.segments # <<>>)
      BY <1>3
    <3>6. ASSUME NEW k \in 1 .. Len(p.segments) + 1 PROVE Sound(Append(p.segments, s)[k])
      BY <3>1, <3>3, <3>4, <3>5 DEF Good
    <3>7. ASSUME NEW k \in 1 .. Len(p.segments), Append(p.segments, s)[k].type = "prose"
          PROVE  Append(p.segments, s)[k + 1].type = "block"
      <4>1. CASE k = Len(p.segments)
        BY <3>1, <3>4, <3>5, <3>7, <4>1
      <4>2. CASE k # Len(p.segments)
        <5>1. k + 1 \in 1 .. Len(p.segments) /\ k \in 1 .. Len(p.segments) - 1
          BY <3>5, <4>2
        <5> QED BY <3>1, <3>4, <3>7, <5>1 DEF Good
      <4> QED BY <4>1, <4>2
    <3>8. Len(p.segments) + 1 - 1 = Len(p.segments)
      BY <3>5
    <3> DEFINE x == Append(p.segments, s)
    <3>9. q.segments = x /\ Len(x) = Len(p.segments) + 1 /\ Len(x) - 1 = Len(p.segments)
      BY <1>2, <2>2, <3>4, <3>8
    <3>10. /\ \A k \in 1 .. Len(p.segments) + 1 : Sound(x[k])
           /\ \A k \in 1 .. Len(p.segments) : x[k].type = "prose" => x[k + 1].type = "block"
      BY <3>6, <3>7
    <3> HIDE DEF x
    <3> QED BY <3>9, <3>10 DEF Good
  <2> QED BY <2>1, <2>2
<1>10. AtEnd(PendingLines(q)) = Alone(q)
  <2> DEFINE none == <<>>
             r == OpenBlock(ParserStart, l)
  <2>1. <<l>> = Append(none, l) /\ none \in Seq(WholeLine)
    BY EmptySeq
  <2>2. ParserStart.prose = <<>> /\ ParserStart.open = None /\ ParserStart.fence = None
        /\ ParserStart.segments = <<>> /\ ParserStart.body = <<>> /\ ParserStart.error = FALSE
    BY DEF ParserStart
  <2>3. AtEnd(<<l>>) = ParseLine(ParserStart, l)
    BY <2>1, AtEndOneMore, AtEndOfNothing
  <2>4. l.kind \notin Fences /\ l.kind # "end" /\ l.kind # "badbegin"
    BY DEF Fences
  <2>5. ParseLine(ParserStart, l) = r
    BY <2>2, <2>4 DEF ParseLine, ParseMarkerLine
  <2>6. /\ r \in StateOf(NoteLine) /\ r.segments = FlushProse(ParserStart).segments
        /\ r.prose = <<>> /\ r.open = l /\ r.body = <<>> /\ r.fence = None
        /\ r.error = FALSE
    BY <2>2, StartIsState, OpenFields
  <2>7. r.segments = <<>>
    BY <2>2, <2>6 DEF FlushProse
  <2>8. /\ Alone(q) \in StateOf(NoteLine) /\ Alone(q).segments = <<>>
        /\ Alone(q).prose = q.prose /\ Alone(q).open = q.open /\ Alone(q).body = q.body
        /\ Alone(q).fence = q.fence /\ Alone(q).error = q.error
    BY <1>1, AloneFields
  <2> HIDE DEF r
  <2>9. r = Alone(q)
    BY <1>1, <1>3, <1>5, <2>6, <2>7, <2>8, StateEqual
  <2> QED BY <1>7, <2>3, <2>5, <2>9
<1>11. /\ q.segments \in Seq(Segment) /\ Render(p.segments) \in Seq(TextLine)
       /\ p.prose \in Seq(TextLine) /\ t \in Seq(TextLine)
  BY <1>1, <1>3, StateFields, RenderIsWhole, WholeLineIsLine
<1>12. \A x \in Seq(Segment) :
         p.prose # <<>> => Visible(Render(Append(x, s))) = Visible(Render(x)) \o Visible(p.prose)
  <2> SUFFICES ASSUME NEW x \in Seq(Segment), p.prose # <<>>
               PROVE  Visible(Render(Append(x, s))) = Visible(Render(x)) \o Visible(p.prose)
    OBVIOUS
  <2>1. Render(x) \in Seq(TextLine) /\ Render(Append(x, s)) = Render(x) \o p.prose
    BY <1>4, RenderOneMore, RenderIsWhole, WholeLineIsLine
  <2> QED BY <1>11, <2>1, VisibleOfBoth
<1>13. Told(Append(t, l), q)
  <2>1. PICK a \in Seq(NoteLine) : t = a \o p.prose /\ Visible(a) = Visible(Render(p.segments))
    BY <1>5 DEF Explains, Told
  <2>2. a \in Seq(TextLine)
    BY WholeLineIsLine
  <2>3. Visible(t) = Visible(Render(p.segments)) \o Visible(p.prose)
    BY <1>11, <2>1, <2>2, VisibleOfBoth
  <2>4. Visible(t) = Visible(Render(q.segments))
    BY <1>2, <1>3, <1>11, <1>12, <2>3, VisibleNothing
  <2>5. Append(t, l) = t \o <<l>>
    BY AppendIsConcat, WholeLineIsLine
  <2>6. t \in Seq(NoteLine)
    BY WholeLineIsLine
  <2> QED BY <1>7, <2>4, <2>5, <2>6 DEF Told
<1>14. ASSUME NEW m \in 1 .. Len(q.segments), q.segments[m].type = "block"
       PROVE  Found(Append(t, l), q, m)
  <2> DEFINE post == Beyond(p.segments, m)
  <2>1. CASE p.prose = <<>>
    <3>1. m \in 1 .. Len(p.segments) /\ Found(t, p, m) /\ q.segments = p.segments
      BY <1>2, <1>14, <2>1 DEF Explains
    <3>2. Visible(p.prose) \o Visible(<<l>>) = Visible(<<l>>)
      BY <1>6, <2>1, VisibleNothing
    <3> QED BY <1>1, <1>5, <1>7, <3>1, <3>2, FoundStays
  <2>2. CASE p.prose # <<>>
    <3>1. /\ \A k \in 1 .. Len(p.segments) : /\ Ahead(Append(p.segments, s), k) = Ahead(p.segments, k)
                                             /\ Beyond(Append(p.segments, s), k) = Append(Beyond(p.segments, k), s)
                                             /\ Append(p.segments, s)[k] = p.segments[k]
          /\ Append(p.segments, s)[Len(p.segments) + 1] = s
          /\ Len(Append(p.segments, s)) = Len(p.segments) + 1
      BY <1>3, <1>4, <2>2, AroundAppended
    <3>2. q.segments = Append(p.segments, s) /\ Len(p.segments) \in Nat
      BY <1>2, <1>3, <2>2
    <3>3. m # Len(p.segments) + 1
      BY <1>4, <1>14, <2>2, <3>1, <3>2
    <3>4. m \in 1 .. Len(p.segments)
      BY <3>1, <3>2, <3>3
    <3>5. p.segments[m].type = "block" /\ Found(t, p, m)
      BY <1>14, <3>1, <3>2, <3>4 DEF Explains
    <3>6. post \in Seq(Segment)
      BY <1>3, <3>4, Around
    <3>7. Render(post) \in Seq(TextLine)
      BY <3>6, RenderIsWhole, WholeLineIsLine
    <3>8. Beyond(q.segments, m) = Append(post, s) /\ Ahead(q.segments, m) = Ahead(p.segments, m)
          /\ q.segments[m] = p.segments[m]
      BY <3>1, <3>2, <3>4
    <3> HIDE DEF post
    <3>9. Visible(Render(Beyond(q.segments, m))) = Visible(Render(post)) \o Visible(p.prose)
      BY <1>12, <2>2, <3>6, <3>8
    <3>10. (Visible(Render(post)) \o Visible(p.prose)) \o Visible(<<l>>)
             = Visible(Render(post)) \o (Visible(p.prose) \o Visible(<<l>>))
      <4> DEFINE x == Visible(Render(post))
                 y == Visible(p.prose)
                 z == Visible(<<l>>)
      <4>1. x \in Seq(TextLine) /\ y \in Seq(TextLine) /\ z \in Seq(TextLine)
        BY <1>6, <1>11, <3>7, VisibleIsLines
      <4> HIDE DEF x, y, z
      <4>2. (x \o y) \o z = x \o (y \o z)
        BY <4>1, ConcatAssociative
      <4> QED BY <4>2 DEF x, y, z
    <3>11. Visible(Render(Beyond(q.segments, m))) \o Visible(PendingLines(q))
             = Visible(Render(Beyond(p.segments, m))) \o (Visible(PendingLines(p)) \o Visible(<<l>>))
      BY <1>5, <1>7, <3>9, <3>10 DEF post
    <3> QED BY <1>1, <1>14, <3>4, <3>5, <3>8, <3>11, FoundStays
  <2> QED BY <2>1, <2>2
<1>15. Explains(Append(t, l), q)
  BY <1>8, <1>9, <1>10, <1>13, <1>14 DEF Explains
<1> QED BY <1>15 DEF q


\* An end marker behind one open block makes the block.
LEMMA CloseMakes ==
    ASSUME NEW o \in StateOf(WholeLine), o.segments = <<>>, o.prose = <<>>, o.open # None,
           o.fence = None, ~o.error, NEW l \in NoteLine, l.kind = "end"
    PROVE  LET b == Block(o.open.day, o.open.draft, o.open.eol, o.body) IN
           /\ b \in BlockSegment /\ b \in Segment
           /\ ParseLine(o, l) = [ParserStart EXCEPT !.segments = <<b>>]
<1> DEFINE b == Block(o.open.day, o.open.draft, o.open.eol, o.body)
           q == CloseBlock(o)
           none == <<>>
           r == [ParserStart EXCEPT !.segments = <<b>>]
<1>1. ParseLine(o, l) = q
  <2>1. l.kind \notin Fences /\ l.kind # "begin" /\ l.kind # "badbegin"
    BY DEF Fences
  <2> QED BY <2>1 DEF ParseLine, ParseMarkerLine
<1>2. /\ q \in StateOf(WholeLine) /\ b \in BlockSegment /\ b \in Segment
      /\ q.segments = Append(o.segments, b)
      /\ q.prose = o.prose /\ q.open = None /\ q.body = <<>> /\ q.fence = o.fence
      /\ q.error = o.error
  BY CloseFields
<1>3. Append(none, b) = <<b>> /\ <<b>> \in Seq(Segment) /\ o.error \in BOOLEAN
  BY <1>2, StateFields
<1>4. /\ r \in StateOf(WholeLine) /\ r.segments = <<b>> /\ r.prose = <<>> /\ r.open = None
      /\ r.body = <<>> /\ r.fence = None /\ r.error = FALSE
  <2> HIDE DEF b
  <2> QED BY <1>3, StartWithSegments
<1> HIDE DEF b, q, r
<1>5. q.segments = <<b>>
  BY <1>2, <1>3
<1> HIDE DEF none
<1>6. q = r
  BY <1>2, <1>3, <1>4, <1>5, StateEqual
<1> QED BY <1>1, <1>2, <1>6 DEF b, r

\* The block in which a parser is, closed there, is rendered as a text that
\* makes the same block again, its separator in its body.
LEMMA OpenIsSound ==
    ASSUME NEW p \in StateOf(WholeLine), ~p.error, p.open # None, p.fence = None, p.prose = <<>>,
           p.open.kind = "begin", AtEnd(PendingLines(p)) = Alone(p)
    PROVE  LET b == Block(p.open.day, p.open.draft, p.open.eol, p.body) IN
           /\ PendingLines(p) = <<Begin(b)>> \o b.lines
           /\ Sound(b)
<1> DEFINE b == Block(p.open.day, p.open.draft, p.open.eol, p.body)
           x == PendingLines(p)
           z == Separator(b)
           w == Plain("end", b.eol)
           o == Alone(p)
<1>1. /\ b \in BlockSegment /\ b.day = p.open.day /\ b.draft = p.open.draft /\ b.eol = p.open.eol
      /\ b.lines = p.body /\ b.type = "block"
  BY OpenIsBlock DEF Block
<1>2. p.open \in TextLine
  BY StateFields, WholeLineIsLine
<1>3. Begin(b) = p.open
  <2>1. p.open = Line("begin", p.open.day, p.open.draft, p.open.eol)
    BY <1>2, LineFields DEF Line
  <2> HIDE DEF b
  <2> QED BY <1>1, <2>1 DEF Begin
<1>4. x = <<Begin(b)>> \o b.lines
  <2> HIDE DEF b
  <2> QED BY <1>1, <1>3 DEF PendingLines
<1>5. /\ w \in WholeLine /\ z \in Seq(WholeLine) /\ (z = <<>> \/ z = <<Plain("blank", b.eol)>>)
      /\ w.kind = "end" /\ x \in Seq(WholeLine)
  <2> HIDE DEF b
  <2> QED BY <1>1, BlockLines, PendingIsLines DEF Plain, Line
<1>6. /\ o \in StateOf(WholeLine) /\ o.segments = <<>> /\ o.prose = <<>> /\ o.open = p.open
      /\ o.body = p.body /\ o.fence = None /\ ~o.error
  BY AloneFields
<1>7. RenderBlock(b) = x \o z \o <<w>>
  <2> HIDE DEF b
  <2> QED BY <1>4, RenderBlockParts
<1> HIDE DEF b, x, z, w, o
<1>8. /\ AtEnd(x \o z) \in StateOf(WholeLine) /\ x \o z \in Seq(WholeLine)
      /\ AtEnd(x \o z).segments = <<>> /\ AtEnd(x \o z).prose = <<>> /\ AtEnd(x \o z).open = p.open
      /\ AtEnd(x \o z).body = p.body \o z /\ AtEnd(x \o z).fence = None /\ ~AtEnd(x \o z).error
  <2>1. CASE z = <<>>
    <3>1. x \o z = x /\ p.body \o z = p.body
      BY <1>5, <2>1, StateFields, ConcatEmptySeq
    <3> QED BY <1>5, <1>6, <3>1 DEF x, o
  <2>2. CASE z # <<>>
    <3> DEFINE l == Plain("blank", b.eol)
    <3>1. z = <<l>> /\ l \in WholeLine /\ l.kind = "blank"
      <4>1. "blank" \in LineKinds \cup FrontKinds /\ b.eol \in {"lf", "crlf"}
        BY <1>1 DEF LineKinds, BlockSegment
      <4> QED BY <1>5, <2>2, <4>1, PlainIsLine
    <3> HIDE DEF l
    <3>2. l \in NoteLine /\ l.kind \notin Fences
      BY <3>1, WholeLineIsLine DEF Fences
    <3>3. x \o z = Append(x, l) /\ p.body \o z = Append(p.body, l)
      BY <1>5, <3>1, StateFields, AppendIsConcat
    <3>4. AtEnd(x \o z) = ParseLine(o, l)
      BY <1>5, <3>2, <3>3, AtEndOneMore DEF x, o
    <3>5. ParseLine(o, l) = Keep(o, l)
      <4>1. l.kind # "end" /\ l.kind \notin {"begin", "badbegin"} /\ l.kind \notin {"badbegin", "end"}
        BY <3>1
      <4> QED BY <1>6, <3>2, <4>1 DEF ParseLine, ParseMarkerLine
    <3>6. /\ Keep(o, l) \in StateOf(WholeLine)
          /\ Keep(o, l).segments = o.segments /\ Keep(o, l).prose = o.prose
          /\ Keep(o, l).open = o.open /\ Keep(o, l).body = Append(o.body, l)
          /\ Keep(o, l).fence = o.fence /\ Keep(o, l).error = o.error
      BY <1>6, <3>1, KeepFields
    <3>7. Append(x, l) \in Seq(WholeLine)
      BY <1>5, <3>1, AppendProperties
    <3> QED BY <1>6, <3>3, <3>4, <3>5, <3>6, <3>7
  <2> QED BY <2>1, <2>2
<1> DEFINE y == x \o z
           u == AtEnd(y)
           s == Block(u.open.day, u.open.draft, u.open.eol, u.body)
<1>9. /\ y \in Seq(WholeLine) /\ w \in NoteLine
      /\ y \o <<w>> = Append(y, w) /\ AtEnd(Append(y, w)) = ParseLine(u, w)
  <2> HIDE DEF y
  <2>1. y \in Seq(WholeLine) /\ w \in NoteLine
    BY <1>5, <1>8, WholeLineIsLine DEF y
  <2> QED BY <1>5, <2>1, AppendIsConcat, AtEndOneMore
<1>10. ParseLine(u, w) = [ParserStart EXCEPT !.segments = <<s>>]
  <2> HIDE DEF u
  <2>1. /\ u \in StateOf(WholeLine) /\ u.segments = <<>> /\ u.prose = <<>> /\ u.open # None
        /\ u.fence = None /\ ~u.error
    BY <1>8 DEF u
  <2> QED BY <1>5, <1>9, <2>1, CloseMakes
<1>11. s = Separated(b)
  <2>1. s = Block(p.open.day, p.open.draft, p.open.eol, p.body \o z)
    BY <1>8
  <2>2. Separated(b) = [b EXCEPT !.lines = b.lines \o z]
    BY <1>1 DEF Separated, z
  <2> DEFINE v == p.body \o z
  <2>3. Separated(b) = [b EXCEPT !.lines = v]
    BY <1>1, <2>2
  <2> HIDE DEF v, s
  <2>4. [b EXCEPT !.lines = v] = Block(p.open.day, p.open.draft, p.open.eol, v)
    BY DEF b, Block
  <2> QED BY <2>1, <2>3, <2>4 DEF v
<1>12. Sound(b)
  BY <1>1, <1>7, <1>9, <1>10, <1>11 DEF Sound, Makes
<1> QED BY <1>4, <1>12 DEF b, x

LEMMA GoodAppends ==
    ASSUME NEW x \in Seq(Segment), Good(x), NEW s \in Segment, Sound(s),
           s.type = "block" \/ x = <<>> \/ x[Len(x)].type = "block"
    PROVE  Good(Append(x, s))
<1> DEFINE y == Append(x, s)
<1>1. /\ \A m \in 1 .. Len(x) : y[m] = x[m]
      /\ y[Len(x) + 1] = s
      /\ Len(y) = Len(x) + 1
  BY AroundAppended
<1>2. Len(x) \in Nat /\ (Len(x) > 0 => x # <<>>)
  OBVIOUS
<1> HIDE DEF y
<1>3. ASSUME NEW k \in 1 .. Len(x) + 1 PROVE Sound(y[k])
  BY <1>1, <1>2 DEF Good
<1>4. ASSUME NEW k \in 1 .. Len(x), y[k].type = "prose" PROVE y[k + 1].type = "block"
  <2>1. CASE k = Len(x)
    <3>1. x[k].type = "prose" /\ y[k + 1] = s /\ x # <<>>
      BY <1>1, <1>2, <1>4, <2>1
    <3> QED BY <2>1, <3>1
  <2>2. CASE k # Len(x)
    <3>1. k + 1 \in 1 .. Len(x) /\ k \in 1 .. Len(x) - 1
      BY <1>2, <2>2
    <3> QED BY <1>1, <1>4, <3>1 DEF Good
  <2> QED BY <2>1, <2>2
<1>5. Len(y) - 1 = Len(x)
  BY <1>1, <1>2
<1>6. Good(y)
  BY <1>1, <1>3, <1>4, <1>5 DEF Good
<1> QED BY <1>6 DEF y

LEMMA EndIsExplained ==
    ASSUME NEW t \in Seq(WholeLine), NEW l \in NoteLine, NEW p \in StateOf(WholeLine),
           p = AtEnd(t), Explains(t, p), ~p.error, p.open # None, p.fence = None, l.kind = "end",
           ParseLine(p, l) = CloseBlock(p)
    PROVE  Explains(Append(t, l), ParseLine(p, l))
<1> DEFINE q == ParseLine(p, l)
           b == Block(p.open.day, p.open.draft, p.open.eol, p.body)
           x == PendingLines(p)
           none == <<>>
<1>1. /\ q \in StateOf(WholeLine) /\ b \in BlockSegment /\ b \in Segment
      /\ q.segments = Append(p.segments, b)
      /\ q.prose = p.prose /\ q.open = None /\ q.body = <<>> /\ q.fence = p.fence
      /\ q.error = p.error
  BY CloseFields
<1>2. x = <<Begin(b)>> \o b.lines /\ Sound(b)
  BY OpenIsSound DEF Explains, Shape
<1>3. b.type = "block"
  BY DEF Block
<1>4. /\ p.segments \in Seq(Segment) /\ p.error \in BOOLEAN /\ p.prose = <<>>
      /\ Len(p.segments) \in Nat
  BY StateFields DEF Explains, Shape
<1>5. /\ \A m \in 1 .. Len(p.segments) : /\ Ahead(Append(p.segments, b), m) = Ahead(p.segments, m)
                                         /\ Beyond(Append(p.segments, b), m) = Append(Beyond(p.segments, m), b)
                                         /\ Append(p.segments, b)[m] = p.segments[m]
      /\ Ahead(Append(p.segments, b), Len(p.segments) + 1) = p.segments
      /\ Beyond(Append(p.segments, b), Len(p.segments) + 1) = <<>>
      /\ Append(p.segments, b)[Len(p.segments) + 1] = b
      /\ Len(Append(p.segments, b)) = Len(p.segments) + 1
  <2> HIDE DEF b
  <2> QED BY <1>1, <1>4, AroundAppended
<1>6. x \in Seq(WholeLine) /\ x \in Seq(TextLine) /\ x \in Seq(NoteLine)
  BY PendingIsLines, WholeLineIsLine
<1>7. /\ l \in TextLine /\ <<l>> \in Seq(TextLine) /\ <<l>> \in Seq(NoteLine)
      /\ t \in Seq(TextLine) /\ t \in Seq(NoteLine)
      /\ Append(t, l) \in Seq(NoteLine) /\ Append(x, l) \in Seq(NoteLine)
  BY <1>6, WholeLineIsLine, AppendProperties
<1>8. Makes(b, Append(x, l))
  <2> DEFINE o == Alone(p)
  <2>1. /\ o \in StateOf(WholeLine) /\ o.segments = <<>> /\ o.prose = <<>> /\ o.open = p.open
        /\ o.body = p.body /\ o.fence = None /\ ~o.error
    BY <1>4, AloneFields
  <2>2. b = Block(o.open.day, o.open.draft, o.open.eol, o.body)
    BY <2>1
  <2>3. AtEnd(x) = o
    BY DEF Explains
  <2> HIDE DEF o, x, b
  <2>4. AtEnd(Append(x, l)) = ParseLine(o, l)
    BY <1>6, <2>3, AtEndOneMore
  <2>5. ParseLine(o, l) = [ParserStart EXCEPT !.segments = <<b>>]
    BY <2>1, <2>2, CloseMakes
  <2> QED BY <2>4, <2>5 DEF Makes
<1>9. Visible(<<l>>) = Visible(<<Plain("end", b.eol)>>)
  <2>1. b.eol \in {"lf", "crlf", "none"}
    BY <1>1 DEF BlockSegment
  <2> HIDE DEF b
  <2> QED BY <2>1, EndIsVisible
<1>10. Visible(RenderBlock(b)) = Visible(x) \o Visible(<<l>>)
  <2> HIDE DEF b, x
  <2> QED BY <1>1, <1>2, <1>9, VisibleBlock
<1>11. RenderSegment(b) = RenderBlock(b)
  BY <1>3 DEF RenderSegment
<1>12. PendingLines(q) = <<>>
  BY <1>1, <1>4 DEF PendingLines
<1> HIDE DEF q, b, x
<1>13. \A y \in Seq(Segment) :
         /\ Visible(Render(Append(y, b))) = Visible(Render(y)) \o (Visible(x) \o Visible(<<l>>))
         /\ Render(y) \in Seq(TextLine) /\ Render(Append(y, b)) \in Seq(TextLine)
  <2> SUFFICES ASSUME NEW y \in Seq(Segment)
               PROVE  /\ Visible(Render(Append(y, b))) = Visible(Render(y)) \o Visible(RenderBlock(b))
                      /\ Render(y) \in Seq(TextLine) /\ Render(Append(y, b)) \in Seq(TextLine)
    BY <1>10
  <2>1. Render(Append(y, b)) = Render(y) \o RenderBlock(b) /\ Append(y, b) \in Seq(Segment)
    BY <1>1, <1>11, RenderOneMore, AppendProperties
  <2>2. Render(y) \in Seq(TextLine) /\ RenderBlock(b) \in Seq(TextLine) /\ Render(Append(y, b)) \in Seq(TextLine)
    BY <1>1, <2>1, RenderIsWhole, RenderBlockIsWhole, WholeLineIsLine
  <2> QED BY <2>1, <2>2, VisibleOfBoth
<1>14. Shape(q)
  <2>1. Append(p.segments, b)[Len(Append(p.segments, b))] = b
    BY <1>5
  <2> QED BY <1>1, <1>3, <2>1 DEF Shape
<1>15. Good(q.segments)
  BY <1>1, <1>2, <1>3, <1>4, GoodAppends DEF Explains
<1>16. AtEnd(PendingLines(q)) = Alone(q)
  <2>1. /\ Alone(q) \in StateOf(WholeLine) /\ Alone(q).segments = <<>>
        /\ Alone(q).prose = q.prose /\ Alone(q).open = q.open /\ Alone(q).body = q.body
        /\ Alone(q).fence = q.fence /\ Alone(q).error = q.error
    BY <1>1, AloneFields
  <2>2. ParserStart.prose = <<>> /\ ParserStart.open = None /\ ParserStart.fence = None
        /\ ParserStart.segments = <<>> /\ ParserStart.body = <<>> /\ ParserStart.error = FALSE
    BY DEF ParserStart
  <2>3. ParserStart = Alone(q)
    BY <1>1, <1>4, <2>1, <2>2, StartIsState, StateEqual
  <2> QED BY <1>12, <2>3, AtEndOfNothing
<1>17. PICK a \in Seq(NoteLine) : t = a \o x /\ Visible(a) = Visible(Render(p.segments))
  BY DEF Explains, Told, x
<1>18. Append(t, l) = a \o Append(x, l)
  <2>1. a \o Append(x, l) = Append(a \o x, l)
    BY <1>6, AppendToConcat
  <2> QED BY <1>17, <2>1
<1>19. a \in Seq(TextLine)
  BY WholeLineIsLine
<1>20. Visible(Append(t, l)) = Visible(Render(q.segments))
  <2>1. Visible(Append(x, l)) = Visible(x) \o Visible(<<l>>) /\ Append(x, l) \in Seq(TextLine)
    <3>1. Append(x, l) = x \o <<l>> /\ Append(x, l) \in Seq(TextLine)
      BY <1>6, <1>7, AppendIsConcat, AppendProperties
    <3> QED BY <1>6, <1>7, <3>1, VisibleOfBoth
  <2>2. Visible(a \o Append(x, l)) = Visible(a) \o Visible(Append(x, l))
    BY <1>19, <2>1, VisibleOfBoth
  <2> QED BY <1>1, <1>4, <1>13, <1>17, <1>18, <2>1, <2>2
<1>21. Told(Append(t, l), q)
  <2>1. Append(t, l) \o <<>> = Append(t, l)
    BY <1>7, ConcatEmptySeq
  <2> QED BY <1>7, <1>12, <1>20, <2>1 DEF Told
<1>22. ASSUME NEW m \in 1 .. Len(q.segments), q.segments[m].type = "block"
       PROVE  Found(Append(t, l), q, m)
  <2>1. CASE m = Len(p.segments) + 1
    <3>1. /\ q.segments[m] = b /\ Ahead(q.segments, m) = p.segments /\ Beyond(q.segments, m) = <<>>
      BY <1>1, <1>5, <2>1
    <3>2. none \in Seq(NoteLine) /\ a \o Append(x, l) \o none = Append(t, l)
      <4>1. Append(t, l) \o <<>> = Append(t, l)
        BY <1>7, ConcatEmptySeq
      <4> QED BY <1>18, <4>1, EmptySeq
    <3>3. Visible(none) = Visible(Render(Beyond(q.segments, m))) \o Visible(PendingLines(q))
      <4>1. Visible(none) = <<>> /\ Render(none) = <<>>
        BY VisibleOfNothing, RenderOfNothing
      <4>2. none \o none = none
        OBVIOUS
      <4> QED BY <1>12, <3>1, <4>1, <4>2
    <3> HIDE DEF none
    <3> QED BY <1>7, <1>8, <1>17, <1>18, <3>1, <3>2, <3>3 DEF Found
  <2>2. CASE m # Len(p.segments) + 1
    <3>1. m \in 1 .. Len(p.segments)
      BY <1>1, <1>4, <1>5, <2>2
    <3>2. /\ Ahead(q.segments, m) = Ahead(p.segments, m)
          /\ Beyond(q.segments, m) = Append(Beyond(p.segments, m), b)
          /\ q.segments[m] = p.segments[m]
      BY <1>1, <1>5, <3>1
    <3>3. Found(t, p, m)
      BY <1>22, <3>1, <3>2 DEF Explains
    <3>4. Beyond(p.segments, m) \in Seq(Segment)
      BY <1>4, <3>1, Around
    <3>5. /\ Visible(Render(Beyond(q.segments, m)))
               = Visible(Render(Beyond(p.segments, m))) \o (Visible(x) \o Visible(<<l>>))
          /\ Render(Beyond(q.segments, m)) \in Seq(TextLine)
      BY <1>13, <3>2, <3>4
    <3>6. Visible(Render(Beyond(q.segments, m))) \o Visible(PendingLines(q)) = Visible(Render(Beyond(q.segments, m)))
      BY <1>12, <3>5, VisibleNothing
    <3>7. q \in StateOf(NoteLine)
      BY <1>1, WholeStateIsState
    <3>8. Visible(Render(Beyond(q.segments, m))) \o Visible(PendingLines(q))
            = Visible(Render(Beyond(p.segments, m))) \o (Visible(PendingLines(p)) \o Visible(<<l>>))
      BY <3>5, <3>6 DEF x
    <3> QED BY <1>22, <3>1, <3>2, <3>3, <3>7, <3>8, FoundStays
  <2> QED BY <2>1, <2>2
<1>23. Explains(Append(t, l), q)
  BY <1>14, <1>15, <1>16, <1>21, <1>22 DEF Explains
<1> QED BY <1>23 DEF q

LEMMA StepIsExplained ==
    ASSUME NEW t \in Seq(WholeLine), NEW l \in NoteLine,
           ~AtEnd(t).error => Explains(t, AtEnd(t)), ~AtEnd(Append(t, l)).error
    PROVE  Explains(Append(t, l), AtEnd(Append(t, l)))
<1> DEFINE p == AtEnd(t)
<1>1. /\ p \in StateOf(WholeLine) /\ AtEnd(Append(t, l)) = ParseLine(p, l)
      /\ (~p.error => Explains(t, p)) /\ p = AtEnd(t) /\ ~ParseLine(p, l).error
  BY AtEndIsState, AtEndOneMore
<1> HIDE DEF p
<1>2. ~p.error
  BY <1>1 DEF ParseLine
<1>3. ParseLine(p, l) # Fail(p)
  BY <1>1, FailFields
<1>4. CASE \E f \in {None} \cup Fences : ParseLine(p, l) = [Keep(p, l) EXCEPT !.fence = f]
  BY <1>1, <1>2, <1>4, KeptIsExplained
<1>5. CASE p.open # None /\ l.kind = "end" /\ p.fence = None /\ ParseLine(p, l) = CloseBlock(p)
  BY <1>1, <1>2, <1>5, EndIsExplained
<1>6. CASE p.open = None /\ l.kind = "begin" /\ p.fence = None /\ ParseLine(p, l) = OpenBlock(p, l)
  BY <1>1, <1>2, <1>6, BeginIsExplained
<1> QED BY <1>1, <1>2, <1>3, <1>4, <1>5, <1>6, ParseCases

LEMMA StartIsExplained == Explains(<<>>, ParserStart)
<1> DEFINE none == <<>>
<1>1. ParserStart.prose = <<>> /\ ParserStart.open = None /\ ParserStart.fence = None
      /\ ParserStart.segments = <<>> /\ ParserStart.body = <<>> /\ ParserStart.error = FALSE
  BY DEF ParserStart
<1>2. Len(none) = 0 /\ none \o none = none /\ none \in Seq(NoteLine) /\ Render(none) = none
      /\ 1 .. Len(none) = {} /\ 1 .. Len(none) - 1 = {}
  BY RenderOfNothing, EmptySeq
<1>3. PendingLines(ParserStart) = none /\ Alone(ParserStart) = ParserStart
  BY <1>1 DEF PendingLines, Alone, ParserStart
<1> HIDE DEF none
<1>4. Shape(ParserStart)
  BY <1>1 DEF Shape
<1>5. Good(none)
  BY <1>2 DEF Good
<1>6. Told(none, ParserStart)
  BY <1>1, <1>2, <1>3 DEF Told, none
<1> QED BY <1>1, <1>2, <1>3, <1>4, <1>5, <1>6, AtEndOfNothing DEF Explains, none

LEMMA WholeIsExplained ==
    ASSUME NEW t \in Seq(WholeLine), ~AtEnd(t).error
    PROVE  Explains(t, AtEnd(t))
<1> DEFINE G == {x \in Seq(WholeLine) : ~AtEnd(x).error => Explains(x, AtEnd(x))}
<1>1. <<>> \in G
  BY StartIsExplained, AtEndOfNothing, EmptySeq
<1>2. ASSUME NEW x \in G, NEW l \in WholeLine PROVE Append(x, l) \in G
  <2>1. l \in NoteLine /\ Append(x, l) \in Seq(WholeLine)
    BY WholeLineIsLine, AppendProperties
  <2> QED BY <2>1, StepIsExplained
<1> HIDE DEF G
<1>3. G = Seq(WholeLine)
  <2>1. G \in SUBSET Seq(WholeLine)
    BY DEF G
  <2> QED BY <1>1, <1>2, <2>1, SeqInduction
<1> QED BY <1>3 DEF G

\* The lines of a note: all but the last are whole.
NoteOf(t) == t \in Seq(NoteLine) /\ \A k \in 1 .. Len(t) - 1 : t[k] \in WholeLine

LEMMA NoteIsExplained ==
    ASSUME NEW t, NoteOf(t), ~AtEnd(t).error
    PROVE  AtEnd(t) \in StateOf(NoteLine) /\ Explains(t, AtEnd(t))
<1>1. CASE t = <<>>
  BY <1>1, StartIsExplained, AtEndOfNothing, StartIsState, WholeStateIsState
<1>2. CASE t # <<>>
  <2> DEFINE f == Front(t)
             l == t[Len(t)]
  <2>1. t \in Seq(NoteLine) /\ Len(t) \in Nat \ {0} /\ l \in NoteLine
    BY <1>2 DEF NoteOf
  <2>2. f \in Seq(WholeLine) /\ t = Append(f, l)
    <3>1. f = SubSeq(t, 1, Len(t) - 1)
      BY DEF Front
    <3>2. \A k \in 1 .. Len(t) - 1 : t[k] \in WholeLine
      BY DEF NoteOf
    <3> HIDE DEF f, l
    <3>3. f \in Seq(WholeLine)
      BY <2>1, <3>1, <3>2, SubSeqProperties
    <3>4. t = Append(f, l)
      BY <2>1, <3>1 DEF l
    <3> QED BY <3>3, <3>4
  <2> HIDE DEF f, l
  <2> QED BY <2>1, <2>2, WholeIsExplained, StepIsExplained, AtEndOneMore
<1> QED BY <1>1, <1>2

(***************************************************************************)
(* What a save makes of a note                                             *)
(***************************************************************************)

LEMMA LessIsRelated == ASSUME NEW x \in Nat, NEW y \in Nat, y < x PROVE <<y, x>> \in OpToRel(<, Nat)
BY DEF OpToRel

LEMMA FirstPlace ==
    ASSUME NEW n \in Nat, NEW S \in SUBSET (1 .. n), S # {}
    PROVE  Min(S) \in S /\ \A y \in S : Min(S) <= y
<1>0. S \subseteq Nat
  OBVIOUS
<1>1. PICK x \in S : \A y \in S : ~(<<y, x>> \in OpToRel(<, Nat))
  BY <1>0, WFMin, NatLessThanWellFounded
<1>2. \A y \in S : x <= y
  <2> SUFFICES ASSUME NEW y \in S PROVE x <= y
    OBVIOUS
  <2>1. x \in Nat /\ y \in Nat
    OBVIOUS
  <2>2. y < x => <<y, x>> \in OpToRel(<, Nat)
    BY <2>1, LessIsRelated
  <2>3. ~(y < x)
    BY <1>1, <2>2, Zenon
  <2> QED BY <2>1, <2>3
<1>3. \E z \in S : \A y \in S : z =< y
  BY <1>2
<1> QED BY <1>3 DEF Min

\* Where the first block of a day is.
FirstBlockOf(day, s) == SelectInSeq(s, LAMBDA x : IsBlockOf(day, x))

LEMMA FirstBlock ==
    ASSUME NEW T, NEW s \in Seq(T), NEW day
    PROVE  \/ FirstBlockOf(day, s) = 0 /\ \A k \in 1 .. Len(s) : ~IsBlockOf(day, s[k])
           \/ /\ FirstBlockOf(day, s) \in 1 .. Len(s)
              /\ IsBlockOf(day, s[FirstBlockOf(day, s)])
              /\ \A k \in 1 .. Len(s) : IsBlockOf(day, s[k]) => FirstBlockOf(day, s) <= k
<1> DEFINE I == {k \in 1 .. Len(s) : IsBlockOf(day, s[k])}
<1>1. FirstBlockOf(day, s) = IF I # {} THEN Min(I) ELSE 0
  BY DEF FirstBlockOf, SelectInSeq
<1>2. I # {} => Min(I) \in I /\ \A y \in I : Min(I) <= y
  <2>1. Len(s) \in Nat /\ I \in SUBSET (1 .. Len(s))
    OBVIOUS
  <2> HIDE DEF I
  <2> QED BY <2>1, FirstPlace
<1> QED BY <1>1, <1>2

\* A prose whose last line need not be whole.
LooseProse == [type : {"prose"}, lines : Seq(NoteLine) \ {<<>>}]

\* ensure_trailing_newline, of the lines behind the last block.
Terminated(lines) ==
    IF lines = <<>> \/ Last(lines).eol # "none" THEN lines
    ELSE ReplaceAt(lines, Len(lines), [Last(lines) EXCEPT !.eol = "lf"])

LEMMA NoteLast ==
    ASSUME NEW t, NoteOf(t), t # <<>>
    PROVE  /\ Front(t) \in Seq(WholeLine) /\ Last(t) \in NoteLine /\ t = Append(Front(t), Last(t))
           /\ Last(t) = t[Len(t)] /\ Len(t) \in Nat \ {0} /\ Len(Front(t)) = Len(t) - 1
<1> DEFINE f == Front(t)
           l == t[Len(t)]
<1>1. t \in Seq(NoteLine) /\ Len(t) \in Nat \ {0} /\ l \in NoteLine
  BY DEF NoteOf
<1>2. f = SubSeq(t, 1, Len(t) - 1) /\ Last(t) = l
  BY DEF Front, Last
<1>3. \A k \in 1 .. Len(t) - 1 : t[k] \in WholeLine
  BY DEF NoteOf
<1> HIDE DEF f, l
<1>4. f \in Seq(WholeLine) /\ Len(f) = Len(t) - 1
  <2> DEFINE n == Len(t) - 1
  <2>0. n \in Nat
    BY <1>1
  <2> HIDE DEF n
  <2>1. n \in Nat /\ n \in Int /\ 1 \in Int /\ (IF 1 <= n THEN n - 1 + 1 ELSE 0) = n
    BY <2>0
  <2>2. /\ SubSeq(t, 1, n) \in Seq(WholeLine)
        /\ Len(SubSeq(t, 1, n)) = (IF 1 <= n THEN n - 1 + 1 ELSE 0)
    <3>1. \A k \in 1 .. n : t[k] \in WholeLine
      BY <1>3 DEF n
    <3> QED BY <2>1, <3>1, SubSeqProperties
  <2> QED BY <1>2, <2>1, <2>2 DEF n
<1>5. t = Append(f, l)
  BY <1>1, <1>2 DEF l
<1> QED BY <1>1, <1>2, <1>4, <1>5 DEF f, l

LEMMA WholeIsNote ==
    ASSUME NEW t \in Seq(WholeLine)
    PROVE  NoteOf(t)
BY WholeLineIsLine DEF NoteOf

LEMMA WholeThenNote ==
    ASSUME NEW t \in Seq(WholeLine), NEW x, NoteOf(x)
    PROVE  NoteOf(t \o x)
<1>1. x \in Seq(NoteLine) /\ t \in Seq(NoteLine) /\ Len(t) \in Nat /\ Len(x) \in Nat
  BY WholeLineIsLine DEF NoteOf
<1>2. /\ t \o x \in Seq(NoteLine) /\ Len(t \o x) = Len(t) + Len(x)
      /\ \A k \in 1 .. Len(t) + Len(x) : (t \o x)[k] = IF k <= Len(t) THEN t[k] ELSE x[k - Len(t)]
  BY <1>1, ConcatProperties
<1>3. ASSUME NEW k \in 1 .. Len(t) + Len(x) - 1 PROVE (t \o x)[k] \in WholeLine
  <2>1. CASE k <= Len(t)
    BY <1>1, <1>2, <2>1
  <2>2. CASE k > Len(t)
    <3>1. k - Len(t) \in 1 .. Len(x) - 1 /\ (t \o x)[k] = x[k - Len(t)]
      BY <1>1, <1>2, <2>2
    <3> QED BY <3>1 DEF NoteOf
  <2> QED BY <1>1, <2>1, <2>2
<1> QED BY <1>2, <1>3 DEF NoteOf

LEMMA NoteParts ==
    ASSUME NEW a \in Seq(NoteLine), NEW x \in Seq(NoteLine), NoteOf(a \o x)
    PROVE  NoteOf(x) /\ (x # <<>> => a \in Seq(WholeLine))
<1> DEFINE t == a \o x
<1>1. /\ Len(t) = Len(a) + Len(x) /\ Len(a) \in Nat /\ Len(x) \in Nat
      /\ \A k \in 1 .. Len(a) + Len(x) : t[k] = IF k <= Len(a) THEN a[k] ELSE x[k - Len(a)]
  BY ConcatProperties
<1>2. \A k \in 1 .. Len(t) - 1 : t[k] \in WholeLine
  BY DEF NoteOf
<1> HIDE DEF t
<1>3. ASSUME NEW k \in 1 .. Len(x) - 1 PROVE x[k] \in WholeLine
  <2>1. /\ Len(a) + k \in 1 .. Len(t) - 1 /\ Len(a) + k \in 1 .. Len(a) + Len(x)
        /\ ~(Len(a) + k <= Len(a)) /\ (Len(a) + k) - Len(a) = k
    BY <1>1
  <2>2. t[Len(a) + k] = x[k]
    BY <1>1, <2>1
  <2> QED BY <1>2, <2>1, <2>2
<1>4. ASSUME x # <<>>, NEW k \in 1 .. Len(a) PROVE a[k] \in WholeLine
  <2>1. Len(x) > 0
    BY <1>1, <1>4
  <2>2. k \in 1 .. Len(t) - 1 /\ t[k] = a[k]
    BY <1>1, <2>1
  <2> QED BY <1>2, <2>2
<1>5. x # <<>> => a \in Seq(WholeLine)
  BY <1>4
<1> QED BY <1>3, <1>5 DEF NoteOf

LEMMA EndedIsWhole ==
    ASSUME NEW x, NoteOf(x)
    PROVE  /\ Terminated(x) \in Seq(WholeLine) /\ Visible(Terminated(x)) = Visible(x)
           /\ Terminated(x) = <<>> <=> x = <<>>
<1>1. CASE x = <<>>
  BY <1>1, EmptySeq DEF Terminated
<1>2. CASE x # <<>>
  <2> DEFINE f == Front(x)
             l == Last(x)
             m == [l EXCEPT !.eol = "lf"]
  <2>1. f \in Seq(WholeLine) /\ l \in NoteLine /\ x = Append(f, l) /\ Len(x) \in Nat \ {0}
        /\ Len(f) = Len(x) - 1
    BY <1>2, NoteLast
  <2>2. m \in WholeLine /\ m.kind = l.kind /\ [m EXCEPT !.eol = "lf"] = [l EXCEPT !.eol = "lf"]
    BY <2>1 DEF WholeLine, NoteLine, TextLine
  <2>3. CASE l.eol # "none"
    <3>1. l \in WholeLine
      BY <2>1, <2>3 DEF WholeLine
    <3>2. x \in Seq(WholeLine)
      <4> HIDE DEF f, l
      <4> QED BY <2>1, <3>1
    <3> QED BY <1>2, <2>3, <3>2 DEF Terminated
  <2>4. CASE l.eol = "none"
    <3>1. Terminated(x) = ReplaceAt(x, Len(x), m)
      BY <1>2, <2>4 DEF Terminated
    <3> HIDE DEF f, l, m
    <3>2. ReplaceAt(x, Len(x), m) = Append(f, m)
      <4>1. x \in Seq(NoteLine) /\ Len(x) \in 1 .. Len(x) /\ f \in Seq(NoteLine) /\ m \in NoteLine
        BY <2>1, <2>2, WholeLineIsLine DEF NoteOf
      <4>2. ReplaceAt(x, Len(x), m) = Ahead(x, Len(x)) \o <<m>> \o Beyond(x, Len(x))
        BY <4>1, AroundReplaced
      <4>3. Len(f) + 1 = Len(x) /\ l \in NoteLine
        BY <2>1
      <4>4. Ahead(x, Len(x)) = f /\ Beyond(x, Len(x)) = <<>>
        BY <2>1, <4>1, <4>3, AroundAppended
      <4>5. f \o <<m>> = Append(f, m) /\ f \o <<m>> \in Seq(NoteLine)
        BY <4>1, AppendIsConcat
      <4>6. (f \o <<m>>) \o <<>> = f \o <<m>>
        BY <4>5, ConcatEmptySeq
      <4> QED BY <4>2, <4>4, <4>5, <4>6
    <3>3. Append(f, m) \in Seq(WholeLine) /\ Append(f, m) # <<>>
      BY <2>1, <2>2
    <3>4. l \in TextLine /\ m \in TextLine /\ f \in Seq(TextLine)
      BY <2>1, <2>2, WholeLineIsLine
    <3>5. Visible(Append(f, m)) = Visible(Append(f, l))
      <4>1. Visible(Append(f, m)) = IF m.kind = "blank" THEN Visible(f)
                                    ELSE Append(Visible(f), [m EXCEPT !.eol = "lf"])
        BY <3>4, VisibleAppends
      <4>2. Visible(Append(f, l)) = IF l.kind = "blank" THEN Visible(f)
                                    ELSE Append(Visible(f), [l EXCEPT !.eol = "lf"])
        BY <3>4, VisibleAppends
      <4> QED BY <2>2, <4>1, <4>2 DEF m
    <3> QED BY <1>2, <2>1, <3>1, <3>2, <3>3, <3>5
  <2> QED BY <2>3, <2>4
<1> QED BY <1>1, <1>2

\* The segments of a note with these lines behind its last block.
Tailed(segments, rest) == IF rest = <<>> THEN segments ELSE Append(segments, Prose(rest))

LEMMA ParsedNote ==
    ASSUME NEW t, NoteOf(t), ~Malformed(t)
    PROVE  LET p == AtEnd(t) IN
           /\ p \in StateOf(NoteLine) /\ Explains(t, p) /\ p.error = FALSE /\ p.open = None
           /\ p.segments \in Seq(Segment) /\ NoteOf(p.prose) /\ PendingLines(p) = p.prose
           /\ p.body = <<>>
           /\ Parse(t) = Tailed(p.segments, p.prose)
<1> DEFINE p == AtEnd(t)
<1>1. ~p.error /\ p.open = None
  BY DEF Malformed
<1>2. p \in StateOf(NoteLine) /\ Explains(t, p)
  BY <1>1, NoteIsExplained
<1>3. Parse(t) = FlushProse(p).segments
  BY DEF Parse
<1> HIDE DEF p
<1>4. p.error = FALSE /\ p.segments \in Seq(Segment) /\ p.prose \in Seq(NoteLine)
  BY <1>1, <1>2, StateFields
<1>5. PendingLines(p) = p.prose /\ p.body = <<>>
  BY <1>1, <1>2 DEF PendingLines, Explains, Shape
<1>6. NoteOf(p.prose)
  <2>1. PICK a \in Seq(NoteLine) : t = a \o p.prose
    BY <1>2, <1>5 DEF Explains, Told
  <2> QED BY <1>4, <2>1, NoteParts
<1>7. FlushProse(p).segments = Tailed(p.segments, p.prose)
  <2>1. CASE p.prose = <<>>
    BY <2>1 DEF FlushProse, Tailed
  <2>2. CASE p.prose # <<>>
    <3> DEFINE v == Append(p.segments, Prose(p.prose))
               r == [p EXCEPT !.segments = v]
    <3>1. FlushProse(p) = [r EXCEPT !.prose = <<>>]
      BY <2>2 DEF FlushProse
    <3> HIDE DEF v
    <3>2. r.segments = v /\ r = [segments |-> v, prose |-> p.prose, open |-> p.open,
                                 body |-> p.body, fence |-> p.fence, error |-> p.error]
      BY <1>2, StateFields
    <3> HIDE DEF r
    <3>3. [r EXCEPT !.prose = <<>>].segments = v
      BY <3>2
    <3> QED BY <2>2, <3>1, <3>3 DEF v, Tailed
  <2> QED BY <2>1, <2>2
<1> QED BY <1>1, <1>2, <1>3, <1>4, <1>5, <1>6, <1>7 DEF p

LEMMA TailedIsSeq ==
    ASSUME NEW segs \in Seq(Segment), NEW rest, NoteOf(rest)
    PROVE  /\ Tailed(segs, rest) \in Seq(Segment \cup LooseProse)
           /\ rest # <<>> => Prose(rest) \in LooseProse
           /\ segs \in Seq(Segment \cup LooseProse)
<1>1. segs \in Seq(Segment \cup LooseProse)
  BY SeqMonotonic
<1>2. ASSUME rest # <<>> PROVE Prose(rest) \in LooseProse
  BY <1>2 DEF NoteOf, Prose, LooseProse
<1>3. rest # <<>> => Append(segs, Prose(rest)) \in Seq(Segment \cup LooseProse)
  BY <1>1, <1>2, AppendProperties
<1> QED BY <1>1, <1>2, <1>3 DEF Tailed

\* The lines behind the last block hold no block.
LEMMA FirstOfTailed ==
    ASSUME NEW segs \in Seq(Segment), NEW rest, NoteOf(rest), NEW day
    PROVE  /\ FirstBlockOf(day, Tailed(segs, rest)) = FirstBlockOf(day, segs)
           /\ FirstBlockOf(day, segs) \in 0 .. Len(segs)
<1> DEFINE s == Tailed(segs, rest)
           i == FirstBlockOf(day, s)
           j == FirstBlockOf(day, segs)
           T == Segment \cup LooseProse
<1>1. s \in Seq(T) /\ segs \in Seq(T) /\ (rest # <<>> => Prose(rest) \in T)
  BY TailedIsSeq
<1>2. \/ i = 0 /\ \A k \in 1 .. Len(s) : ~IsBlockOf(day, s[k])
      \/ /\ i \in 1 .. Len(s) /\ IsBlockOf(day, s[i])
         /\ \A k \in 1 .. Len(s) : IsBlockOf(day, s[k]) => i <= k
  <2> HIDE DEF s
  <2> QED BY <1>1, FirstBlock
<1>3. \/ j = 0 /\ \A k \in 1 .. Len(segs) : ~IsBlockOf(day, segs[k])
      \/ /\ j \in 1 .. Len(segs) /\ IsBlockOf(day, segs[j])
         /\ \A k \in 1 .. Len(segs) : IsBlockOf(day, segs[k]) => j <= k
  BY FirstBlock
<1>4. Len(segs) \in Nat
  OBVIOUS
<1>5. CASE rest = <<>>
  <2>1. s = segs
    BY <1>5 DEF Tailed
  <2> QED BY <1>3, <1>4, <2>1
<1>6. CASE rest # <<>>
  <2>1. s = Append(segs, Prose(rest))
    BY <1>6 DEF Tailed
  <2> HIDE DEF s, T
  <2>2. /\ \A k \in 1 .. Len(segs) : s[k] = segs[k]
        /\ s[Len(segs) + 1] = Prose(rest) /\ Len(s) = Len(segs) + 1
    BY <1>1, <1>6, <2>1, AroundAppended
  <2>3. ~IsBlockOf(day, Prose(rest))
    BY DEF IsBlockOf, Prose
  <2> HIDE DEF i, j
  <2>4. CASE j = 0
    <3>1. \A k \in 1 .. Len(s) : ~IsBlockOf(day, s[k])
      <4> SUFFICES ASSUME NEW k \in 1 .. Len(s) PROVE ~IsBlockOf(day, s[k])
        OBVIOUS
      <4>1. CASE k = Len(segs) + 1
        BY <2>2, <2>3, <4>1
      <4>2. CASE k # Len(segs) + 1
        BY <1>3, <1>4, <2>2, <2>4, <4>2
      <4> QED BY <4>1, <4>2
    <3> QED BY <1>2, <1>4, <2>4, <3>1 DEF s, i, j
  <2>5. CASE j # 0
    <3>1. /\ j \in 1 .. Len(segs) /\ IsBlockOf(day, segs[j])
          /\ \A k \in 1 .. Len(segs) : IsBlockOf(day, segs[k]) => j <= k
      BY <1>3, <2>5
    <3>2. j \in 1 .. Len(s) /\ IsBlockOf(day, s[j])
      BY <1>4, <2>2, <3>1
    <3>3. i \in 1 .. Len(s) /\ IsBlockOf(day, s[i]) /\ i <= j
      BY <1>2, <3>2
    <3>4. i \in 1 .. Len(segs) /\ IsBlockOf(day, segs[i])
      BY <1>4, <2>2, <3>1, <3>3
    <3>5. j <= i
      BY <3>1, <3>4
    <3>6. i = j
      BY <1>4, <3>1, <3>3, <3>5
    <3> QED BY <1>4, <3>1, <3>6 DEF s, i, j
  <2> QED BY <2>4, <2>5
<1> QED BY <1>5, <1>6

\* Where no block of the day is, the new one goes to the end.
LEMMA SpliceMisses ==
    ASSUME NEW segs \in Seq(Segment), NEW rest, NoteOf(rest), NEW new \in BlockSegment,
           FirstBlockOf(new.day, segs) = 0
    PROVE  LET ended == Tailed(segs, Terminated(rest)) IN
           /\ Splice(Tailed(segs, rest), new) = Append(ended, new)
           /\ ended \in Seq(Segment)
           /\ Render(Append(ended, new)) = Render(segs) \o Terminated(rest) \o RenderBlock(new)
<1> DEFINE s == Tailed(segs, rest)
           e == Terminated(rest)
           ended == Tailed(segs, e)
<1>1. FirstBlockOf(new.day, s) = 0
  BY FirstOfTailed
<1>2. Splice(s, new) = Append(WithFinalNewline(s), new)
  BY <1>1 DEF Splice, FirstBlockOf
<1>3. e \in Seq(WholeLine) /\ (e = <<>> <=> rest = <<>>)
  BY EndedIsWhole
<1>4. ended \in Seq(Segment)
  <2> HIDE DEF e
  <2>1. CASE e = <<>>
    BY <2>1 DEF Tailed
  <2>2. CASE e # <<>>
    <3>1. Prose(e) \in Segment
      BY <1>3, <2>2 DEF Prose, Segment, ProseSegment
    <3> QED BY <2>2, <3>1, AppendProperties DEF Tailed
  <2> QED BY <2>1, <2>2
<1>5. WithFinalNewline(s) = ended
  <2>1. CASE rest = <<>>
    <3>1. s = segs /\ ended = segs
      BY <1>3, <2>1 DEF Tailed
    <3>2. CASE segs = <<>> \/ Last(segs).type = "block"
      BY <3>1, <3>2 DEF WithFinalNewline
    <3>3. CASE segs # <<>> /\ Last(segs).type # "block"
      <4>1. Last(segs) = segs[Len(segs)] /\ Len(segs) \in 1 .. Len(segs)
        BY <3>3 DEF Last
      <4>2. Last(segs) \in ProseSegment
        BY <3>3, <4>1 DEF Segment, BlockSegment
      <4>3. Last(segs).lines \in Seq(WholeLine) \ {<<>>}
        BY <4>2 DEF ProseSegment
      <4>4. Last(Last(segs).lines).eol # "none"
        <5> DEFINE x == Last(segs).lines
        <5>1. x \in Seq(WholeLine) /\ x # <<>>
          BY <4>3
        <5> HIDE DEF x
        <5>2. Last(x) \in WholeLine
          BY <5>1 DEF Last
        <5> QED BY <5>2 DEF x, WholeLine
      <4> QED BY <3>1, <3>3, <4>4 DEF WithFinalNewline
    <3> QED BY <3>2, <3>3
  <2>2. CASE rest # <<>>
    <3> DEFINE T == Segment \cup LooseProse
               n == Len(segs) + 1
    <3>1. s = Append(segs, Prose(rest)) /\ ended = Append(segs, Prose(e))
      BY <1>3, <2>2 DEF Tailed
    <3>2. segs \in Seq(T) /\ Prose(rest) \in T /\ Len(segs) \in Nat /\ s \in Seq(T)
      BY <2>2, TailedIsSeq
    <3> HIDE DEF s, e, ended, T
    <3>3. /\ s[n] = Prose(rest) /\ Len(s) = n /\ Ahead(s, n) = segs /\ Beyond(s, n) = <<>>
          /\ Append(segs, Prose(rest)) # <<>>
      BY <3>1, <3>2, AroundAppended
    <3>4. Last(s) = Prose(rest) /\ Last(s).type = "prose" /\ Last(s).lines = rest /\ s # <<>>
      BY <3>1, <3>3 DEF Last, Prose
    <3>5. CASE Last(rest).eol # "none"
      <4>1. WithFinalNewline(s) = s /\ e = rest
        BY <3>4, <3>5 DEF WithFinalNewline, Terminated, e
      <4> QED BY <3>1, <4>1
    <3>6. CASE Last(rest).eol = "none"
      <4>1. WithFinalNewline(s) = ReplaceAt(s, n, Prose(e))
        BY <2>2, <3>3, <3>4, <3>6 DEF WithFinalNewline, Terminated, e
      <4>2. ReplaceAt(s, n, Prose(e)) = segs \o <<Prose(e)>> \o <<>>
        <5>1. n \in 1 .. Len(s)
          BY <3>2, <3>3
        <5> HIDE DEF n
        <5> QED BY <3>2, <3>3, <5>1, AroundReplaced
      <4>3. Prose(e) \in Segment
        BY <1>3, <2>2 DEF Prose, Segment, ProseSegment
      <4>4. segs \o <<Prose(e)>> = Append(segs, Prose(e)) /\ Append(segs, Prose(e)) \in Seq(Segment)
        BY <4>3, AppendIsConcat, AppendProperties
      <4>5. Append(segs, Prose(e)) \o <<>> = Append(segs, Prose(e))
        BY <4>4, ConcatEmptySeq
      <4> QED BY <3>1, <4>1, <4>2, <4>4, <4>5
    <3> QED BY <3>5, <3>6 DEF s, ended, e
  <2> QED BY <2>1, <2>2
<1>6. Render(ended) = Render(segs) \o e
  <2> HIDE DEF e
  <2>1. CASE e = <<>>
    <3>1. Render(segs) \o <<>> = Render(segs)
      BY RenderIsWhole, ConcatEmptySeq
    <3> QED BY <2>1, <3>1 DEF Tailed
  <2>2. CASE e # <<>>
    <3>1. ended = Append(segs, Prose(e)) /\ RenderSegment(Prose(e)) = e
      BY <2>2 DEF Tailed, RenderSegment, Prose
    <3>2. Render(Append(segs, Prose(e))) = Render(segs) \o RenderSegment(Prose(e))
      BY RenderOneMore
    <3> QED BY <3>1, <3>2
  <2> QED BY <2>1, <2>2
<1>7. Render(Append(ended, new)) = Render(ended) \o RenderBlock(new)
  <2>1. RenderSegment(new) = RenderBlock(new)
    BY DEF RenderSegment, BlockSegment
  <2> HIDE DEF ended
  <2>2. Render(Append(ended, new)) = Render(ended) \o RenderSegment(new)
    BY <1>4, RenderOneMore
  <2> QED BY <2>1, <2>2
<1> HIDE DEF s, e, ended
<1>8. /\ Splice(s, new) = Append(ended, new) /\ ended \in Seq(Segment)
      /\ Render(Append(ended, new)) = Render(segs) \o e \o RenderBlock(new)
  BY <1>2, <1>4, <1>5, <1>6, <1>7
<1> QED BY <1>8 DEF s, e, ended

\* Where there is one, the new one goes into its place.
LEMMA SpliceHits ==
    ASSUME NEW segs \in Seq(Segment), NEW rest, NoteOf(rest), NEW new \in BlockSegment,
           FirstBlockOf(new.day, segs) # 0
    PROVE  LET i == FirstBlockOf(new.day, segs)
               one == [new EXCEPT !.eol = segs[i].eol]
               placed == Ahead(segs, i) \o <<one>> \o Beyond(segs, i) IN
           /\ i \in 1 .. Len(segs) /\ segs[i] \in BlockSegment /\ segs[i].day = new.day
           /\ \A k \in 1 .. Len(segs) : IsBlockOf(new.day, segs[k]) => i <= k
           /\ one \in BlockSegment /\ placed \in Seq(Segment)
           /\ Splice(Tailed(segs, rest), new) = Tailed(placed, rest)
           /\ Render(Tailed(placed, rest))
                = Render(Ahead(segs, i)) \o RenderBlock(one) \o Render(Beyond(segs, i)) \o rest
<1> DEFINE i == FirstBlockOf(new.day, segs)
           one == [new EXCEPT !.eol = segs[i].eol]
           a == Ahead(segs, i)
           c == Beyond(segs, i)
           placed == a \o <<one>> \o c
           s == Tailed(segs, rest)
           T == Segment \cup LooseProse
<1>1. /\ i \in 1 .. Len(segs) /\ IsBlockOf(new.day, segs[i])
      /\ \A k \in 1 .. Len(segs) : IsBlockOf(new.day, segs[k]) => i <= k
  BY FirstBlock
<1>2. FirstBlockOf(new.day, s) = i
  BY FirstOfTailed
<1>3. segs[i] \in BlockSegment /\ segs[i].day = new.day
  BY <1>1 DEF IsBlockOf, Segment, ProseSegment
<1>4. one \in BlockSegment /\ one \in Segment
  BY <1>3 DEF BlockSegment, Segment
<1>5. a \in Seq(Segment) /\ c \in Seq(Segment) /\ <<one>> \in Seq(Segment)
  <2>1. <<one>> \in Seq(Segment)
    <3> HIDE DEF one
    <3> QED BY <1>4
  <2>2. i \in 1 .. Len(segs)
    BY <1>1
  <2> HIDE DEF i
  <2>3. a \in Seq(Segment) /\ c \in Seq(Segment)
    BY <2>2, Around
  <2> QED BY <2>1, <2>3
<1>6. s \in Seq(T) /\ segs \in Seq(T) /\ (rest # <<>> => Prose(rest) \in T)
  BY TailedIsSeq
<1>7. Splice(s, new) = ReplaceAt(s, i, [new EXCEPT !.eol = s[i].eol])
  BY <1>1, <1>2 DEF Splice, FirstBlockOf
<1>8. placed \in Seq(Segment) /\ a \o <<one>> \in Seq(Segment)
  BY <1>5, ConcatProperties
<1> HIDE DEF i, one, a, c, T
<1>9. Splice(s, new) = Tailed(placed, rest)
  <2>1. CASE rest = <<>>
    <3>1. s = segs /\ Tailed(placed, rest) = placed
      BY <2>1 DEF Tailed
    <3>2. ReplaceAt(segs, i, one) = placed
      BY <1>1, AroundReplaced DEF a, c
    <3> QED BY <1>7, <3>1, <3>2 DEF one
  <2>2. CASE rest # <<>>
    <3> DEFINE z == Prose(rest)
               d == Append(c, z)
    <3>1. s = Append(segs, z) /\ Tailed(placed, rest) = Append(placed, z)
      BY <2>2 DEF Tailed
    <3>2. z \in T
      BY <1>6, <2>2
    <3> HIDE DEF z, s, placed
    <3>3. s[i] = segs[i] /\ Ahead(s, i) = a /\ Beyond(s, i) = d /\ Len(s) = Len(segs) + 1
      BY <1>1, <1>6, <3>1, <3>2, AroundAppended DEF a, c
    <3>4. i \in 1 .. Len(s)
      BY <1>1, <3>3
    <3>5. ReplaceAt(s, i, one) = a \o <<one>> \o d
      BY <1>6, <3>3, <3>4, AroundReplaced
    <3>6. /\ a \o <<one>> \in Seq(T) /\ c \in Seq(T)
      <4>1. Segment \subseteq T
        BY DEF T
      <4> QED BY <1>5, <1>8, <4>1, SeqMonotonic
    <3>7. (a \o <<one>>) \o d = Append((a \o <<one>>) \o c, z)
      <4> DEFINE x == a \o <<one>>
      <4>1. x \in Seq(T)
        BY <3>6
      <4> HIDE DEF x
      <4>2. x \o Append(c, z) = Append(x \o c, z)
        BY <3>2, <3>6, <4>1, AppendToConcat
      <4> QED BY <4>2 DEF x
    <3> QED BY <1>7, <3>1, <3>3, <3>5, <3>7 DEF one, placed
  <2> QED BY <2>1, <2>2
<1>10. Render(placed) = Render(a) \o RenderBlock(one) \o Render(c)
  <2>1. Render(placed) = Render(a \o <<one>>) \o Render(c)
    BY <1>5, <1>8, RenderOfBoth
  <2>2. a \o <<one>> = Append(a, one)
    BY <1>4, <1>5, AppendIsConcat
  <2>3. Render(Append(a, one)) = Render(a) \o RenderBlock(one)
    <3>1. RenderSegment(one) = RenderBlock(one)
      BY <1>4 DEF RenderSegment, BlockSegment
    <3>2. Render(Append(a, one)) = Render(a) \o RenderSegment(one)
      BY <1>5, RenderOneMore
    <3> QED BY <3>1, <3>2
  <2> QED BY <2>1, <2>2, <2>3
<1> HIDE DEF placed, s
<1>11. Render(Tailed(placed, rest)) = Render(placed) \o rest
  <2>1. CASE rest = <<>>
    <3>1. Render(placed) \o <<>> = Render(placed)
      BY <1>8, RenderIsWhole, ConcatEmptySeq
    <3> QED BY <2>1, <3>1 DEF Tailed
  <2>2. CASE rest # <<>>
    <3>1. Tailed(placed, rest) = Append(placed, Prose(rest)) /\ RenderSegment(Prose(rest)) = rest
      BY <2>2 DEF Tailed, RenderSegment, Prose
    <3>2. Render(Append(placed, Prose(rest))) = Render(placed) \o RenderSegment(Prose(rest))
      BY <1>8, RenderOneMore
    <3> QED BY <3>1, <3>2
  <2> QED BY <2>1, <2>2
<1> QED BY <1>1, <1>3, <1>4, <1>8, <1>9, <1>10, <1>11 DEF i, one, a, c, placed, s

LEMMA Stretches ==
    ASSUME NEW T, NEW a \in Seq(T), NEW b \in Seq(T), NEW c \in Seq(T),
           NEW t, t = a \o b \o c, NEW i, i = Len(a), NEW j, j = Len(a) + Len(b)
    PROVE  /\ i \in 0 .. Len(t) /\ j \in i .. Len(t)
           /\ SubSeq(t, 1, i) = a /\ SubSeq(t, i + 1, j) = b /\ SubSeq(t, j + 1, Len(t)) = c
<1> DEFINE ab == a \o b
<1>1. /\ ab \in Seq(T) /\ Len(ab) = j /\ i \in Nat /\ Len(b) \in Nat /\ Len(c) \in Nat
      /\ \A k \in 1 .. j : ab[k] = IF k <= Len(a) THEN a[k] ELSE b[k - Len(a)]
  BY ConcatProperties
<1>2. /\ t \in Seq(T) /\ Len(t) = j + Len(c)
      /\ \A k \in 1 .. j + Len(c) : t[k] = IF k <= j THEN ab[k] ELSE c[k - j]
  <2>1. t = ab \o c
    OBVIOUS
  <2> HIDE DEF ab
  <2> QED BY <1>1, <2>1, ConcatProperties
<1> HIDE DEF ab
<1>3. i = Len(a) /\ j = i + Len(b) /\ j \in Nat /\ \A k \in 1 .. Len(t) : t[k] \in T
  BY <1>1, <1>2
<1>4. SubSeq(t, 1, i) = a
  <2> DEFINE x == SubSeq(t, 1, i)
  <2>1. x \in Seq(T) /\ Len(x) = i /\ \A k \in 1 .. i : x[k] = t[k]
    BY <1>1, <1>2, <1>3
  <2> HIDE DEF x
  <2>2. ASSUME NEW k \in 1 .. i PROVE x[k] = a[k]
    BY <1>1, <1>2, <1>3, <2>1
  <2>3. x = a
    BY <1>3, <2>1, <2>2, SeqEqual
  <2> QED BY <2>3 DEF x
<1>5. SubSeq(t, i + 1, j) = b
  <2> DEFINE x == SubSeq(t, i + 1, j)
  <2>1. x \in Seq(T) /\ Len(x) = Len(b) /\ \A k \in 1 .. Len(b) : x[k] = t[i + k]
    BY <1>1, <1>2, <1>3
  <2> HIDE DEF x
  <2>2. ASSUME NEW k \in 1 .. Len(b) PROVE x[k] = b[k]
    <3>1. i + k \in 1 .. j /\ i + k \in 1 .. j + Len(c) /\ i + k <= j /\ ~(i + k <= i) /\ (i + k) - i = k
      BY <1>1, <1>3
    <3>2. t[i + k] = ab[i + k]
      BY <1>2, <3>1
    <3>3. ab[i + k] = b[(i + k) - i]
      BY <1>1, <1>3, <3>1
    <3> QED BY <2>1, <3>1, <3>2, <3>3
  <2>3. x = b
    BY <2>1, <2>2, SeqEqual
  <2> QED BY <2>3 DEF x
<1>6. SubSeq(t, j + 1, Len(t)) = c
  <2> DEFINE x == SubSeq(t, j + 1, Len(t))
  <2>1. x \in Seq(T) /\ Len(x) = Len(c) /\ \A k \in 1 .. Len(c) : x[k] = t[j + k]
    BY <1>1, <1>2, <1>3
  <2> HIDE DEF x
  <2>2. ASSUME NEW k \in 1 .. Len(c) PROVE x[k] = c[k]
    <3>1. j + k \in 1 .. j + Len(c) /\ ~(j + k <= j) /\ (j + k) - j = k
      BY <1>1, <1>3
    <3> QED BY <1>2, <2>1, <3>1
  <2>3. x = c
    BY <2>1, <2>2, SeqEqual
  <2> QED BY <2>3 DEF x
<1>7. i \in 0 .. Len(t) /\ j \in i .. Len(t)
  BY <1>1, <1>2, <1>3
<1> QED BY <1>4, <1>5, <1>6, <1>7

LEMMA ReportIsBlock ==
    ASSUME NEW day \in Days, NEW draft \in Drafts
    PROVE  /\ Report(day, draft) \in BlockSegment /\ Report(day, draft).day = day
           /\ Report(day, draft).draft = draft /\ Report(day, draft).eol = "lf"
           /\ Report(day, draft).lines = <<Plain("text", "lf")>>
           /\ <<Plain("text", "lf")>> \in Seq(WholeLine)
<1>1. Plain("text", "lf") \in WholeLine
  BY PlainIsLine DEF LineKinds
<1>2. <<Plain("text", "lf")>> \in Seq(WholeLine)
  BY <1>1
<1> QED BY <1>2 DEF Report, Block, BlockSegment

\* A reader sees no difference between the line endings of two markers.
LEMMA VisibleMarkers ==
    ASSUME NEW b \in BlockSegment, NEW e \in {"lf", "crlf"}
    PROVE  Visible(RenderBlock([b EXCEPT !.eol = e])) = Visible(RenderBlock(b))
<1> DEFINE c == [b EXCEPT !.eol = e]
<1>1. /\ c \in BlockSegment /\ c.lines = b.lines /\ c.day = b.day /\ c.draft = b.draft /\ c.eol = e
      /\ b.eol \in {"lf", "crlf"}
  BY DEF BlockSegment
<1> HIDE DEF c
<1>2. /\ Begin(b) \in TextLine /\ Begin(c) \in TextLine
      /\ <<Begin(b)>> \in Seq(TextLine) /\ <<Begin(c)>> \in Seq(TextLine)
      /\ b.lines \in Seq(TextLine)
  BY <1>1, BlockLines, WholeLineIsLine
<1>3. Visible(<<Begin(b)>>) = Visible(<<Begin(c)>>)
  <2>1. /\ [Begin(b) EXCEPT !.eol = "lf"] = [Begin(c) EXCEPT !.eol = "lf"]
        /\ Begin(b).kind = "begin" /\ Begin(c).kind = "begin"
    BY <1>1 DEF Begin, Line
  <2> QED BY <1>2, <2>1, VisibleLine
<1>4. Visible(<<Plain("end", b.eol)>>) = Visible(<<Plain("end", c.eol)>>)
  <2>1. /\ b.eol \in {"lf", "crlf", "none"} /\ c.eol \in {"lf", "crlf", "none"} /\ "end" \in LineKinds
    BY <1>1 DEF LineKinds
  <2>2. Plain("end", b.eol) \in NoteLine /\ Plain("end", b.eol).kind = "end"
    BY <2>1, PlainIsLine
  <2> QED BY <2>1, <2>2, EndIsVisible
<1>5. Visible(<<Begin(b)>> \o b.lines) = Visible(<<Begin(c)>> \o c.lines)
  <2>1. Visible(<<Begin(b)>> \o b.lines) = Visible(<<Begin(b)>>) \o Visible(b.lines)
    BY <1>2, VisibleOfBoth
  <2>2. Visible(<<Begin(c)>> \o b.lines) = Visible(<<Begin(c)>>) \o Visible(b.lines)
    BY <1>2, VisibleOfBoth
  <2> QED BY <1>1, <1>3, <2>1, <2>2
<1>6. Visible(RenderBlock(c)) = Visible(RenderBlock(b))
  BY <1>1, <1>4, <1>5, VisibleBlock
<1> QED BY <1>6 DEF c

LEMMA MadeIsOneBlock ==
    ASSUME NEW s \in Segment, NEW b, Makes(s, b)
    PROVE  ~Malformed(b) /\ Parse(b) = <<s>>
<1> DEFINE r == [ParserStart EXCEPT !.segments = <<s>>]
<1>1. <<s>> \in Seq(Segment)
  OBVIOUS
<1>2. r.segments = <<s>> /\ r.prose = <<>> /\ r.open = None /\ r.error = FALSE
  BY DEF ParserStart
<1>3. AtEnd(b) = r
  BY DEF Makes
<1> HIDE DEF r
<1> QED BY <1>2, <1>3 DEF Malformed, Parse, FlushProse

LEMMA NoteShows ==
    ASSUME NEW t, NoteOf(t), ~Malformed(t)
    PROVE  Visible(t) = Visible(Render(AtEnd(t).segments)) \o Visible(AtEnd(t).prose)
<1> DEFINE p == AtEnd(t)
<1>1. Explains(t, p) /\ PendingLines(p) = p.prose /\ NoteOf(p.prose)
  BY ParsedNote
<1> HIDE DEF p
<1>2. PICK a \in Seq(NoteLine) : t = a \o p.prose /\ Visible(a) = Visible(Render(p.segments))
  BY <1>1 DEF Explains, Told
<1>3. a \in Seq(TextLine) /\ p.prose \in Seq(TextLine)
  BY <1>1, WholeLineIsLine DEF NoteOf
<1> QED BY <1>2, <1>3, VisibleOfBoth DEF p

\* One stretch of lines of a note is saved over, and the rest stays.
Respected(t, day, draft) ==
    \E i \in 0 .. Len(t) : \E j \in i .. Len(t) :
        /\ \/ i = Len(t)
           \/ IsOneBlockOf(day, SubSeq(t, i + 1, j))
        /\ Visible(Saved(t, day, draft)) =
              Visible(SubSeq(t, 1, i) \o RenderBlock(Report(day, draft)) \o SubSeq(t, j + 1, Len(t)))

LEMMA SavedKeepsTheRest ==
    ASSUME NEW t, NoteOf(t), ~Malformed(t), NEW day \in Days, NEW draft \in Drafts
    PROVE  NoteOf(Saved(t, day, draft)) /\ Respected(t, day, draft)
<1> DEFINE p == AtEnd(t)
           segs == p.segments
           rest == p.prose
           new == Report(day, draft)
           rb == RenderBlock(new)
           saved == Saved(t, day, draft)
<1>1. /\ segs \in Seq(Segment) /\ NoteOf(rest) /\ Explains(t, p) /\ PendingLines(p) = rest
      /\ Parse(t) = Tailed(segs, rest)
  BY ParsedNote
<1>2. new \in BlockSegment /\ new.day = day
  BY ReportIsBlock
<1>3. saved = Render(Splice(Tailed(segs, rest), new))
  BY <1>1 DEF Saved
<1>4. Visible(t) = Visible(Render(segs)) \o Visible(rest)
  BY NoteShows
<1>5. t \in Seq(NoteLine) /\ t \in Seq(TextLine) /\ rest \in Seq(NoteLine) /\ rest \in Seq(TextLine)
  BY <1>1, WholeLineIsLine DEF NoteOf
<1> HIDE DEF p, segs, rest, new
<1>6. rb \in Seq(WholeLine) /\ rb \in Seq(TextLine)
  BY <1>2, RenderBlockIsWhole, WholeLineIsLine
<1>7. Render(segs) \in Seq(WholeLine) /\ Render(segs) \in Seq(TextLine)
  BY <1>1, RenderIsWhole, WholeLineIsLine
<1> HIDE DEF rb, saved
<1>8. CASE FirstBlockOf(day, segs) = 0
  <2> DEFINE e == Terminated(rest)
  <2>1. saved = Render(segs) \o e \o rb
    BY <1>1, <1>2, <1>3, <1>8, SpliceMisses DEF rb
  <2>2. e \in Seq(WholeLine) /\ Visible(e) = Visible(rest) /\ e \in Seq(TextLine)
    BY <1>1, EndedIsWhole, WholeLineIsLine
  <2> HIDE DEF e
  <2>3. Render(segs) \o e \in Seq(WholeLine) /\ saved \in Seq(WholeLine)
        /\ Render(segs) \o e \in Seq(TextLine)
    BY <1>6, <1>7, <2>1, <2>2, ConcatProperties
  <2>4. Visible(saved) = Visible(t) \o Visible(rb)
    <3>1. Visible((Render(segs) \o e) \o rb) = Visible(Render(segs) \o e) \o Visible(rb)
      BY <1>6, <2>3, VisibleOfBoth
    <3>2. Visible(Render(segs) \o e) = Visible(Render(segs)) \o Visible(e)
      BY <1>7, <2>2, VisibleOfBoth
    <3> QED BY <1>4, <2>1, <2>2, <3>1, <3>2
  <2>5. Visible(t \o rb) = Visible(t) \o Visible(rb) /\ t \o rb \in Seq(TextLine)
    BY <1>5, <1>6, VisibleOfBoth, ConcatProperties
  <2>6. /\ SubSeq(t, 1, Len(t)) = t /\ SubSeq(t, Len(t) + 1, Len(t)) = <<>> /\ Len(t) \in Nat
    BY <1>5, SubSeqFull, SubSeqEmpty
  <2>7. (t \o rb) \o <<>> = t \o rb
    BY <2>5, ConcatEmptySeq
  <2>8. Respected(t, day, draft)
    <3>1. Visible(saved) = Visible(SubSeq(t, 1, Len(t)) \o rb \o SubSeq(t, Len(t) + 1, Len(t)))
      BY <2>4, <2>5, <2>6, <2>7
    <3>2. Len(t) \in 0 .. Len(t) /\ Len(t) \in Len(t) .. Len(t)
      BY <2>6
    <3> QED BY <3>1, <3>2 DEF Respected, saved, rb, new
  <2>9. NoteOf(saved)
    BY <2>3, WholeIsNote
  <2> QED BY <2>8, <2>9 DEF saved
<1>9. CASE FirstBlockOf(day, segs) # 0
  <2> DEFINE i == FirstBlockOf(day, segs)
             one == [new EXCEPT !.eol = segs[i].eol]
             ra == Render(Ahead(segs, i))
             rc == Render(Beyond(segs, i))
             ro == RenderBlock(one)
  <2>1. /\ i \in 1 .. Len(segs) /\ segs[i] \in BlockSegment /\ segs[i].day = day
        /\ one \in BlockSegment
        /\ saved = ra \o ro \o rc \o rest
    BY <1>1, <1>2, <1>3, <1>9, SpliceHits
  <2>2. Visible(ro) = Visible(rb)
    <3>1. segs[i].eol \in {"lf", "crlf"}
      BY <2>1 DEF BlockSegment
    <3> HIDE DEF i
    <3> QED BY <1>2, <3>1, VisibleMarkers DEF rb
  <2> HIDE DEF i, one
  <2>3. Ahead(segs, i) \in Seq(Segment) /\ Beyond(segs, i) \in Seq(Segment)
    BY <1>1, <2>1, Around
  <2>4. /\ ra \in Seq(WholeLine) /\ rc \in Seq(WholeLine) /\ ro \in Seq(WholeLine)
        /\ ra \in Seq(TextLine) /\ rc \in Seq(TextLine) /\ ro \in Seq(TextLine)
    BY <2>1, <2>3, RenderIsWhole, RenderBlockIsWhole, WholeLineIsLine
  <2>5. PICK a \in Seq(NoteLine), b \in Seq(NoteLine), c \in Seq(NoteLine) :
          /\ t = a \o b \o c
          /\ Makes(segs[i], b)
          /\ Visible(a) = Visible(ra)
          /\ Visible(c) = Visible(rc) \o Visible(rest)
    <3>1. Found(t, p, i)
      BY <1>1, <2>1 DEF Explains, segs, BlockSegment
    <3> QED BY <1>1, <3>1 DEF Found, segs
  <2> HIDE DEF ra, rc, ro
  <2>6. ra \o ro \in Seq(WholeLine) /\ ra \o ro \o rc \in Seq(WholeLine)
        /\ ra \o ro \in Seq(TextLine) /\ ra \o ro \o rc \in Seq(TextLine)
    BY <2>4, ConcatProperties, WholeLineIsLine
  <2>7. NoteOf(saved)
    BY <1>1, <2>1, <2>6, WholeThenNote
  <2>8. Visible(saved) = ((Visible(a) \o Visible(rb)) \o Visible(rc)) \o Visible(rest)
    <3>1. Visible((ra \o ro \o rc) \o rest) = Visible(ra \o ro \o rc) \o Visible(rest)
      BY <1>5, <2>6, VisibleOfBoth
    <3>2. Visible((ra \o ro) \o rc) = Visible(ra \o ro) \o Visible(rc)
      BY <2>4, <2>6, VisibleOfBoth
    <3>3. Visible(ra \o ro) = Visible(ra) \o Visible(ro)
      BY <2>4, VisibleOfBoth
    <3> QED BY <2>1, <2>2, <2>5, <3>1, <3>2, <3>3
  <2>9. Visible(a \o rb \o c) = (Visible(a) \o Visible(rb)) \o (Visible(rc) \o Visible(rest))
    <3>1. a \in Seq(TextLine) /\ c \in Seq(TextLine)
      BY WholeLineIsLine
    <3>2. a \o rb \in Seq(TextLine)
      BY <1>6, <3>1, ConcatProperties
    <3>3. Visible((a \o rb) \o c) = Visible(a \o rb) \o Visible(c)
      BY <3>1, <3>2, VisibleOfBoth
    <3>4. Visible(a \o rb) = Visible(a) \o Visible(rb)
      BY <1>6, <3>1, VisibleOfBoth
    <3> QED BY <2>5, <3>3, <3>4
  <2>10. Visible(saved) = Visible(a \o rb \o c)
    <3> DEFINE x == Visible(a) \o Visible(rb)
               y == Visible(rc)
               z == Visible(rest)
    <3>1. x \in Seq(TextLine) /\ y \in Seq(TextLine) /\ z \in Seq(TextLine)
      <4>1. Visible(a) \in Seq(TextLine) /\ Visible(rb) \in Seq(TextLine)
        BY <1>6, WholeLineIsLine, VisibleIsLines
      <4> QED BY <1>5, <2>4, <4>1, VisibleIsLines, ConcatProperties
    <3>2. Visible(saved) = (x \o y) \o z /\ Visible(a \o rb \o c) = x \o (y \o z)
      BY <2>8, <2>9
    <3> HIDE DEF x, y, z
    <3> QED BY <3>1, <3>2, TextAssociative
  <2>11. IsOneBlockOf(day, b)
    <3>1. segs[i] \in Segment /\ segs[i].type = "block"
      BY <2>1 DEF Segment, BlockSegment
    <3>2. ~Malformed(b) /\ Parse(b) = <<segs[i]>>
      BY <2>5, <3>1, MadeIsOneBlock
    <3> QED BY <2>1, <3>1, <3>2 DEF IsOneBlockOf, IsBlockOf
  <2>12. Respected(t, day, draft)
    <3>1. PICK m \in 0 .. Len(t) : \E n \in m .. Len(t) :
            SubSeq(t, 1, m) = a /\ SubSeq(t, m + 1, n) = b /\ SubSeq(t, n + 1, Len(t)) = c
      <4>1. t = a \o b \o c
        BY <2>5
      <4> DEFINE m == Len(a)
                 n == Len(a) + Len(b)
      <4>2. m = Len(a) /\ n = Len(a) + Len(b)
        OBVIOUS
      <4> HIDE DEF m, n
      <4>3. /\ m \in 0 .. Len(t) /\ n \in m .. Len(t)
            /\ SubSeq(t, 1, m) = a /\ SubSeq(t, m + 1, n) = b /\ SubSeq(t, n + 1, Len(t)) = c
        BY <4>1, <4>2, Stretches
      <4> QED BY <4>3
    <3> QED BY <2>10, <2>11, <3>1 DEF Respected, saved, rb, new
  <2> QED BY <2>7, <2>12 DEF saved
<1> QED BY <1>8, <1>9

(***************************************************************************)
(* What a parser makes of a rendered text                                  *)
(***************************************************************************)

Settleds(segments) == [k \in 1 .. Len(segments) |-> Separated(segments[k])]

LEMMA SettledFields ==
    ASSUME NEW s \in Segment
    PROVE  /\ Separated(s) \in Segment /\ Separated(s).type = s.type
           /\ RenderSegment(Separated(s)) = RenderSegment(s)
           /\ s.type = "block" => /\ Separated(s).day = s.day /\ Separated(s).draft = s.draft
                                  /\ Separated(s).eol = s.eol
           /\ \A day : IsBlockOf(day, Separated(s)) <=> IsBlockOf(day, s)
<1>1. CASE s.type = "prose"
  BY <1>1 DEF Separated
<1>2. CASE s.type # "prose"
  <2>1. s \in BlockSegment /\ s.type = "block"
    BY <1>2 DEF Segment, ProseSegment, BlockSegment
  <2> DEFINE v == s.lines \o Separator(s)
             c == [s EXCEPT !.lines = v]
  <2>2. Separated(s) = c
    BY <2>1 DEF Separated
  <2>3. v \in Seq(WholeLine)
    BY <2>1, BlockLines
  <2> HIDE DEF v
  <2>4. /\ c \in BlockSegment /\ c.type = "block" /\ c.lines = v /\ c.day = s.day /\ c.draft = s.draft
        /\ c.eol = s.eol
    BY <2>1, <2>3 DEF BlockSegment
  <2> HIDE DEF c
  <2>5. Separator(c) = <<>>
    <3>1. CASE Separator(s) = <<>>
      <4>1. v = s.lines
        BY <2>1, <3>1, ConcatEmptySeq DEF v, BlockSegment
      <4> QED BY <2>4, <3>1, <4>1 DEF Separator
    <3>2. CASE Separator(s) # <<>>
      <4> DEFINE l == Plain("blank", s.eol)
      <4>1. Separator(s) = <<l>> /\ l \in WholeLine
        BY <2>1, <3>2, BlockLines
      <4>2. l.eol = s.eol /\ s.eol \in {"lf", "crlf"}
        BY <2>1 DEF Plain, Line, BlockSegment
      <4> HIDE DEF l
      <4>3. v = Append(s.lines, l) /\ s.lines \in Seq(WholeLine)
        BY <2>1, <4>1, AppendIsConcat DEF v, BlockSegment
      <4>4. v # <<>> /\ Last(v) = l
        BY <4>1, <4>3 DEF Last
      <4>5. Compatible(l.eol, c.eol)
        BY <2>4, <4>2 DEF Compatible
      <4> QED BY <2>4, <4>4, <4>5 DEF Separator
    <3> QED BY <3>1, <3>2
  <2>6. RenderBlock(c) = RenderBlock(s)
    <3> DEFINE x == <<Begin(s)>>
               y == s.lines
               z == Separator(s)
               w == <<Plain("end", s.eol)>>
    <3>1. RenderBlock(s) = x \o y \o z \o w
      BY RenderBlockParts
    <3>2. RenderBlock(c) = x \o (y \o z) \o <<>> \o w
      <4>1. Begin(c) = Begin(s)
        BY <2>4 DEF Begin
      <4> QED BY <2>4, <2>5, <4>1, RenderBlockParts DEF v
    <3>3. x \in Seq(WholeLine) /\ y \in Seq(WholeLine) /\ z \in Seq(WholeLine) /\ w \in Seq(WholeLine)
          /\ y \o z \in Seq(WholeLine)
      BY <2>1, BlockLines
    <3> HIDE DEF x, y, z, w
    <3>4. (x \o y) \o z = x \o (y \o z)
      BY <3>3, ConcatAssociative
    <3>5. x \o (y \o z) \in Seq(WholeLine)
      BY <3>3, ConcatProperties
    <3>6. (x \o (y \o z)) \o <<>> = x \o (y \o z)
      BY <3>5, ConcatEmptySeq
    <3> QED BY <3>1, <3>2, <3>4, <3>6
  <2> QED BY <2>1, <2>2, <2>4, <2>6 DEF Segment, RenderSegment, IsBlockOf
<1> QED BY <1>1, <1>2

LEMMA SettledsFields ==
    ASSUME NEW x \in Seq(Segment)
    PROVE  /\ Settleds(x) \in Seq(Segment) /\ Len(Settleds(x)) = Len(x)
           /\ \A k \in 1 .. Len(x) : Settleds(x)[k] = Separated(x[k])
<1>1. \A k \in 1 .. Len(x) : Separated(x[k]) \in Segment
  BY SettledFields
<1>2. Len(x) \in Nat
  OBVIOUS
<1> QED BY <1>1, <1>2 DEF Settleds

LEMMA SettledsAppend ==
    ASSUME NEW x \in Seq(Segment), NEW s \in Segment
    PROVE  Settleds(Append(x, s)) = Append(Settleds(x), Separated(s))
<1> DEFINE y == Append(x, s)
           a == Settleds(y)
           b == Append(Settleds(x), Separated(s))
<1>1. /\ y \in Seq(Segment) /\ Len(y) = Len(x) + 1 /\ y[Len(x) + 1] = s
      /\ \A k \in 1 .. Len(x) : y[k] = x[k]
  BY AroundAppended, AppendProperties
<1>2. /\ Settleds(x) \in Seq(Segment) /\ Len(Settleds(x)) = Len(x) /\ Separated(s) \in Segment
      /\ \A k \in 1 .. Len(x) : Settleds(x)[k] = Separated(x[k])
  BY SettledsFields, SettledFields
<1>3. /\ b \in Seq(Segment) /\ Len(b) = Len(x) + 1 /\ b[Len(x) + 1] = Separated(s)
      /\ \A k \in 1 .. Len(x) : b[k] = Separated(x[k])
  BY <1>2, AroundAppended, AppendProperties
<1> HIDE DEF y, b
<1>4. a \in Seq(Segment) /\ Len(a) = Len(x) + 1 /\ \A k \in 1 .. Len(x) + 1 : a[k] = Separated(y[k])
  BY <1>1, SettledsFields
<1>5. ASSUME NEW k \in 1 .. Len(a) PROVE a[k] = b[k]
  <2>1. Len(x) \in Nat
    OBVIOUS
  <2>2. CASE k = Len(x) + 1
    BY <1>1, <1>3, <1>4, <2>1, <2>2
  <2>3. CASE k # Len(x) + 1
    BY <1>1, <1>3, <1>4, <2>1, <2>3
  <2> QED BY <2>2, <2>3
<1> HIDE DEF a
<1>6. a = b
  BY <1>3, <1>4, <1>5, SeqEqual
<1> QED BY <1>6 DEF a, b, y

LEMMA SettledsRender == ASSUME NEW x \in Seq(Segment) PROVE Render(Settleds(x)) = Render(x)
<1> DEFINE G == {y \in Seq(Segment) : Render(Settleds(y)) = Render(y)}
<1>1. <<>> \in G
  <2>1. Settleds(<<>>) = <<>>
    <3> DEFINE none == <<>>
    <3>1. none \in Seq(Segment) /\ Len(none) = 0
      BY EmptySeq
    <3> HIDE DEF none
    <3>2. Settleds(none) \in Seq(Segment) /\ Len(Settleds(none)) = 0
      BY <3>1, SettledsFields
    <3>3. Settleds(none) = <<>>
      BY <3>2, EmptySeq
    <3> QED BY <3>3 DEF none
  <2> QED BY <2>1, EmptySeq
<1>2. ASSUME NEW y \in G, NEW s \in Segment PROVE Append(y, s) \in G
  <2>1. Render(Append(Settleds(y), Separated(s))) = Render(Settleds(y)) \o RenderSegment(Separated(s))
    BY SettledsFields, RenderOneMore
  <2>2. Render(Append(y, s)) = Render(y) \o RenderSegment(s)
    BY RenderOneMore
  <2>3. RenderSegment(Separated(s)) = RenderSegment(s) /\ Append(y, s) \in Seq(Segment)
        /\ Settleds(Append(y, s)) = Append(Settleds(y), Separated(s))
    BY SettledFields, SettledsAppend, AppendProperties
  <2> QED BY <2>1, <2>2, <2>3
<1> HIDE DEF G
<1>3. G = Seq(Segment)
  <2>1. G \in SUBSET Seq(Segment)
    BY DEF G
  <2> QED BY <1>1, <1>2, <2>1, SeqInduction
<1> QED BY <1>3 DEF G

LEMMA FirstOfSame ==
    ASSUME NEW x, NEW y, NEW day, Len(x) = Len(y),
           \A k \in 1 .. Len(x) : IsBlockOf(day, x[k]) <=> IsBlockOf(day, y[k])
    PROVE  FirstBlockOf(day, x) = FirstBlockOf(day, y)
<1>1. {k \in 1 .. Len(x) : IsBlockOf(day, x[k])} = {k \in 1 .. Len(y) : IsBlockOf(day, y[k])}
  OBVIOUS
<1>2. \A s : FirstBlockOf(day, s) = LET I == {k \in 1 .. Len(s) : IsBlockOf(day, s[k])}
                               IN  IF I # {} THEN Min(I) ELSE 0
  BY DEF FirstBlockOf, SelectInSeq
<1> QED BY <1>1, <1>2, Zenon

LEMMA AtEndResumesNote ==
    ASSUME NEW pre \in Seq(Segment), NEW x \in Seq(WholeLine), NEW y \in Seq(WholeLine),
           AtEnd(x) = From(pre, AtEnd(y)), NEW z, NoteOf(z)
    PROVE  AtEnd(x \o z) = From(pre, AtEnd(y \o z))
<1>1. CASE z = <<>>
  BY <1>1, ConcatEmptySeq
<1>2. CASE z # <<>>
  <2> DEFINE f == Front(z)
             l == Last(z)
  <2>1. f \in Seq(WholeLine) /\ l \in NoteLine /\ z = Append(f, l) /\ f \in Seq(NoteLine)
        /\ x \in Seq(NoteLine) /\ y \in Seq(NoteLine)
    BY <1>2, NoteLast, WholeLineIsLine
  <2> HIDE DEF f, l
  <2>2. AtEnd(x \o f) = From(pre, AtEnd(y \o f)) /\ x \o f \in Seq(WholeLine) /\ y \o f \in Seq(WholeLine)
    BY <2>1, AtEndResumes, ConcatProperties
  <2>3. x \o Append(f, l) = Append(x \o f, l) /\ y \o Append(f, l) = Append(y \o f, l)
    BY <2>1, AppendToConcat
  <2>4. /\ AtEnd(Append(x \o f, l)) = ParseLine(AtEnd(x \o f), l)
        /\ AtEnd(Append(y \o f, l)) = ParseLine(AtEnd(y \o f), l)
        /\ AtEnd(y \o f) \in StateOf(WholeLine)
    BY <2>1, <2>2, AtEndOneMore, AtEndIsState
  <2>5. ParseLine(From(pre, AtEnd(y \o f)), l) = From(pre, ParseLine(AtEnd(y \o f), l))
    BY <2>1, <2>4, ParseIsLocal
  <2> QED BY <2>1, <2>2, <2>3, <2>4, <2>5
<1> QED BY <1>1, <1>2

LEMMA GoodPrefix ==
    ASSUME NEW x \in Seq(Segment), NEW s \in Segment, Good(Append(x, s))
    PROVE  /\ Good(x) /\ Sound(s)
           /\ s.type = "block" \/ x = <<>> \/ x[Len(x)].type = "block"
<1> DEFINE y == Append(x, s)
<1>1. /\ \A m \in 1 .. Len(x) : y[m] = x[m]
      /\ y[Len(x) + 1] = s
      /\ Len(y) = Len(x) + 1
  BY AroundAppended
<1>2. Len(x) \in Nat /\ (x # <<>> => Len(x) \in 1 .. Len(x))
  OBVIOUS
<1>3. Good(y)
  OBVIOUS
<1> HIDE DEF y
<1>4. Len(y) - 1 = Len(x)
  BY <1>1, <1>2
<1>5. /\ \A k \in 1 .. Len(y) : Sound(y[k])
      /\ \A k \in 1 .. Len(x) : y[k].type = "prose" => y[k + 1].type = "block"
  BY <1>3, <1>4 DEF Good
<1>6. \A k \in 1 .. Len(x) : Sound(x[k])
  BY <1>1, <1>2, <1>5
<1>7. ASSUME NEW k \in 1 .. Len(x) - 1, x[k].type = "prose" PROVE x[k + 1].type = "block"
  <2>1. k \in 1 .. Len(x) /\ k + 1 \in 1 .. Len(x)
    BY <1>2
  <2> QED BY <1>1, <1>5, <1>7, <2>1
<1>8. Sound(s)
  <2>1. Len(x) + 1 \in 1 .. Len(y)
    BY <1>1, <1>2
  <2> QED BY <1>1, <1>5, <2>1
<1>9. ASSUME x # <<>>, x[Len(x)].type # "block" PROVE s.type = "block"
  <2>1. x[Len(x)].type = "prose"
    BY <1>2, <1>9 DEF Segment, ProseSegment, BlockSegment
  <2> QED BY <1>1, <1>2, <1>5, <1>9, <2>1
<1> QED BY <1>6, <1>7, <1>8, <1>9 DEF Good

\* A parser between two blocks, outside any fence.
Between(q) == q.open = None /\ q.body = <<>> /\ q.fence = None /\ q.error = FALSE

\* Behind it a rendered block makes itself one more.
LEMMA BlockAfter ==
    ASSUME NEW x \in Seq(WholeLine), Between(AtEnd(x)), NEW s \in BlockSegment, Sound(s)
    PROVE  /\ FlushProse(AtEnd(x)).segments \in Seq(Segment)
           /\ AtEnd(x \o RenderBlock(s))
                = [ParserStart EXCEPT !.segments = Append(FlushProse(AtEnd(x)).segments, Separated(s))]
<1> DEFINE q == AtEnd(x)
           pre == FlushProse(q).segments
           b == Begin(s)
           z == s.lines \o Separator(s) \o <<Plain("end", s.eol)>>
           o == OpenBlock(q, b)
           u == OpenBlock(ParserStart, b)
           r == [ParserStart EXCEPT !.segments = <<Separated(s)>>]
           v == [ParserStart EXCEPT !.segments = Append(pre, Separated(s))]
           none == <<>>
<1>1. q \in StateOf(WholeLine) /\ Between(q)
  BY AtEndIsState
<1>2. b \in WholeLine /\ z \in Seq(WholeLine) /\ RenderBlock(s) = <<b>> \o z /\ <<b>> \in Seq(WholeLine)
  <2>1. /\ b \in WholeLine /\ <<b>> \in Seq(WholeLine) /\ s.lines \in Seq(WholeLine)
        /\ Separator(s) \in Seq(WholeLine) /\ <<Plain("end", s.eol)>> \in Seq(WholeLine)
        /\ s.lines \o Separator(s) \in Seq(WholeLine)
    BY BlockLines
  <2>2. RenderBlock(s) = <<b>> \o s.lines \o Separator(s) \o <<Plain("end", s.eol)>>
    BY RenderBlockParts
  <2> HIDE DEF b
  <2> DEFINE y1 == s.lines
             y2 == Separator(s)
             y3 == <<Plain("end", s.eol)>>
  <2>3. /\ y1 \in Seq(WholeLine) /\ y2 \in Seq(WholeLine) /\ y3 \in Seq(WholeLine)
        /\ y1 \o y2 \in Seq(WholeLine)
    BY <2>1
  <2> HIDE DEF y1, y2, y3
  <2>4. (<<b>> \o y1) \o y2 = <<b>> \o (y1 \o y2)
    BY <2>1, <2>3, ConcatAssociative
  <2>5. (<<b>> \o (y1 \o y2)) \o y3 = <<b>> \o ((y1 \o y2) \o y3)
    BY <2>1, <2>3, ConcatAssociative
  <2>6. (y1 \o y2) \o y3 \in Seq(WholeLine)
    BY <2>3, ConcatProperties
  <2> QED BY <2>1, <2>2, <2>4, <2>5, <2>6 DEF y1, y2, y3
<1>3. b.kind = "begin" /\ b.kind \notin Fences
  BY DEF Begin, Line, Fences
<1>4. /\ ParserStart.prose = <<>> /\ ParserStart.open = None /\ ParserStart.fence = None
      /\ ParserStart.segments = <<>> /\ ParserStart.body = <<>> /\ ParserStart.error = FALSE
  BY DEF ParserStart
<1>5. s.type = "block" /\ AtEnd(RenderBlock(s)) = r
  BY DEF Sound, Makes, BlockSegment
<1>6. Separated(s) \in Segment
  BY SettledFields DEF Segment
<1>7. pre \in Seq(Segment)
  <2>1. FlushProse(q) \in StateOf(WholeLine)
    <3> HIDE DEF q
    <3> QED BY <1>1, FlushFields
  <2> HIDE DEF q
  <2> QED BY <2>1, StateFields
<1> HIDE DEF b, z
<1>8. ParseLine(q, b) = o /\ ParseLine(ParserStart, b) = u
  <2> HIDE DEF q
  <2>1. ParseLine(q, b) = OpenBlock(q, b)
    BY <1>1, <1>3 DEF ParseLine, ParseMarkerLine, Between
  <2>2. ParseLine(ParserStart, b) = OpenBlock(ParserStart, b)
    BY <1>3, <1>4 DEF ParseLine, ParseMarkerLine
  <2> QED BY <2>1, <2>2
<1>9. /\ o \in StateOf(WholeLine) /\ o.segments = pre
      /\ o.prose = <<>> /\ o.open = b /\ o.body = q.body /\ o.fence = q.fence
      /\ o.error = q.error
  <2> HIDE DEF q
  <2> QED BY <1>1, <1>2, WholeLineIsLine, OpenFields
<1>10. /\ u \in StateOf(WholeLine) /\ u.segments = <<>>
       /\ u.prose = <<>> /\ u.open = b /\ u.body = <<>> /\ u.fence = None
       /\ u.error = FALSE
  <2>1. /\ u \in StateOf(WholeLine) /\ u.segments = FlushProse(ParserStart).segments
        /\ u.prose = <<>> /\ u.open = b /\ u.body = ParserStart.body /\ u.fence = ParserStart.fence
        /\ u.error = ParserStart.error
    BY <1>2, StartIsState, WholeLineIsLine, OpenFields
  <2>2. FlushProse(ParserStart) = ParserStart
    BY <1>4 DEF FlushProse
  <2> QED BY <1>4, <2>1, <2>2
<1> HIDE DEF q, pre, o, u
<1>11. o = From(pre, u)
  <2>1. /\ From(pre, u) \in StateOf(WholeLine)
        /\ From(pre, u).segments = pre \o u.segments
        /\ From(pre, u).prose = u.prose /\ From(pre, u).open = u.open
        /\ From(pre, u).body = u.body /\ From(pre, u).fence = u.fence
        /\ From(pre, u).error = u.error
    BY <1>7, <1>10, FromFields
  <2>2. pre \o <<>> = pre
    BY <1>7, ConcatEmptySeq
  <2>3. o.segments = From(pre, u).segments
    BY <1>9, <1>10, <2>1, <2>2
  <2>4. /\ o.prose = From(pre, u).prose /\ o.open = From(pre, u).open /\ o.body = From(pre, u).body
        /\ o.fence = From(pre, u).fence /\ o.error = From(pre, u).error
    BY <1>1, <1>9, <1>10, <2>1 DEF Between
  <2> QED BY <1>9, <2>1, <2>3, <2>4, StateEqual
<1>12. AtEnd(x \o <<b>>) = o /\ AtEnd(<<b>>) = u /\ x \o <<b>> \in Seq(WholeLine)
  <2>1. x \o <<b>> = Append(x, b) /\ <<b>> = Append(none, b) /\ none \in Seq(WholeLine)
    BY <1>2, AppendIsConcat, EmptySeq
  <2>2. AtEnd(Append(x, b)) = ParseLine(q, b)
    BY <1>2, WholeLineIsLine, AtEndOneMore DEF q
  <2>3. AtEnd(none) = ParserStart
    BY AtEndOfNothing
  <2> HIDE DEF none
  <2>4. AtEnd(Append(none, b)) = ParseLine(ParserStart, b)
    BY <1>2, <2>1, <2>3, WholeLineIsLine, AtEndOneMore
  <2> QED BY <1>2, <1>8, <2>1, <2>2, <2>4, ConcatProperties
<1>13. AtEnd((x \o <<b>>) \o z) = From(pre, AtEnd(<<b>> \o z))
  <2> DEFINE xb == x \o <<b>>
             y == <<b>>
  <2>1. /\ xb \in Seq(WholeLine) /\ y \in Seq(WholeLine) /\ z \in Seq(WholeLine)
        /\ AtEnd(xb) = From(pre, AtEnd(y))
    BY <1>2, <1>11, <1>12
  <2> HIDE DEF xb, y
  <2>2. AtEnd(xb \o z) = From(pre, AtEnd(y \o z))
    BY <1>7, <2>1, AtEndResumes
  <2> QED BY <2>2 DEF xb, y
<1>14. (x \o <<b>>) \o z = x \o (<<b>> \o z)
  BY <1>2, ConcatAssociative
<1>15. AtEnd(x \o RenderBlock(s)) = From(pre, r)
  BY <1>2, <1>5, <1>13, <1>14
<1> HIDE DEF r, v
<1>16. From(pre, r) = v
  <2> DEFINE d == Separated(s)
  <2>1. <<d>> \in Seq(Segment) /\ Append(pre, d) \in Seq(Segment) /\ pre \o <<d>> = Append(pre, d)
    <3>1. d \in Segment
      BY <1>6
    <3> HIDE DEF d
    <3> QED BY <1>7, <3>1, AppendIsConcat, AppendProperties
  <2>2. /\ r \in StateOf(WholeLine) /\ r.segments = <<d>> /\ r.prose = <<>> /\ r.open = None
        /\ r.body = <<>> /\ r.fence = None /\ r.error = FALSE
    BY <2>1, StartWithSegments DEF r
  <2>3. /\ v \in StateOf(WholeLine) /\ v.segments = Append(pre, d) /\ v.prose = <<>> /\ v.open = None
        /\ v.body = <<>> /\ v.fence = None /\ v.error = FALSE
    BY <2>1, StartWithSegments DEF v
  <2>4. /\ From(pre, r) \in StateOf(WholeLine)
        /\ From(pre, r).segments = pre \o r.segments
        /\ From(pre, r).prose = r.prose /\ From(pre, r).open = r.open
        /\ From(pre, r).body = r.body /\ From(pre, r).fence = r.fence
        /\ From(pre, r).error = r.error
    BY <1>7, <2>2, FromFields
  <2> HIDE DEF d
  <2>5. From(pre, r).segments = v.segments
    BY <2>1, <2>2, <2>3, <2>4
  <2> QED BY <2>2, <2>3, <2>4, <2>5, StateEqual
<1> QED BY <1>7, <1>15, <1>16 DEF q, pre, v

\* The text rendered from good segments makes the same segments again, the
\* separators in their bodies.
Reparsed(x) ==
    LET q == AtEnd(Render(x)) IN
    /\ Between(q)
    /\ FlushProse(q).segments = Settleds(x)
    /\ q.prose # <<>> => x # <<>> /\ x[Len(x)].type = "prose"

\* Segments alone: no prose that is not in one.
LEMMA NoProse ==
    ASSUME NEW q \in StateOf(WholeLine), Between(q), q.prose = <<>>
    PROVE  q = [ParserStart EXCEPT !.segments = FlushProse(q).segments]
<1> DEFINE v == [ParserStart EXCEPT !.segments = q.segments]
<1>1. FlushProse(q).segments = q.segments /\ q.segments \in Seq(Segment)
  BY StateFields DEF FlushProse
<1>2. /\ v \in StateOf(WholeLine) /\ v.segments = q.segments /\ v.prose = <<>> /\ v.open = None
      /\ v.body = <<>> /\ v.fence = None /\ v.error = FALSE
  BY <1>1, StartWithSegments
<1> HIDE DEF v
<1>3. q = v
  BY <1>2, StateEqual DEF Between
<1> QED BY <1>1, <1>3 DEF v

\* Prose behind segments.
LEMMA ProseAfter ==
    ASSUME NEW x \in Seq(WholeLine), NEW pre \in Seq(Segment),
           AtEnd(x) = [ParserStart EXCEPT !.segments = pre],
           NEW r, NoteOf(r), AtEnd(r) = [ParserStart EXCEPT !.prose = r]
    PROVE  LET q == AtEnd(x \o r) IN
           /\ Between(q) /\ q.segments = pre /\ q.prose = r
<1> DEFINE none == <<>>
           v == [ParserStart EXCEPT !.segments = pre]
           w == [ParserStart EXCEPT !.prose = r]
<1>1. r \in Seq(NoteLine)
  BY DEF NoteOf
<1>2. /\ v \in StateOf(WholeLine) /\ v.segments = pre /\ v.prose = <<>> /\ v.open = None
      /\ v.body = <<>> /\ v.fence = None /\ v.error = FALSE
  BY StartWithSegments
<1>3. /\ w \in StateOf(NoteLine) /\ w.segments = <<>> /\ w.prose = r /\ w.open = None
      /\ w.body = <<>> /\ w.fence = None /\ w.error = FALSE
  BY <1>1, StartWithProse
<1>4. none \in Seq(WholeLine) /\ none \o r = r /\ AtEnd(none) = ParserStart
  BY <1>1, EmptySeq, ConcatEmptySeq, AtEndOfNothing
<1>5. /\ ParserStart.prose = <<>> /\ ParserStart.open = None /\ ParserStart.fence = None
      /\ ParserStart.segments = <<>> /\ ParserStart.body = <<>> /\ ParserStart.error = FALSE
  BY DEF ParserStart
<1>6. AtEnd(x) = v /\ AtEnd(r) = w
  OBVIOUS
<1>7. pre \o <<>> = pre
  BY ConcatEmptySeq
<1> HIDE DEF v, w, none
<1>8. v = From(pre, ParserStart)
  <2>1. /\ From(pre, ParserStart) \in StateOf(WholeLine)
        /\ From(pre, ParserStart).segments = pre \o ParserStart.segments
        /\ From(pre, ParserStart).prose = ParserStart.prose
        /\ From(pre, ParserStart).open = ParserStart.open
        /\ From(pre, ParserStart).body = ParserStart.body
        /\ From(pre, ParserStart).fence = ParserStart.fence
        /\ From(pre, ParserStart).error = ParserStart.error
    BY StartIsState, FromFields
  <2>2. From(pre, ParserStart).segments = v.segments
    BY <1>2, <1>5, <1>7, <2>1
  <2> QED BY <1>2, <1>5, <2>1, <2>2, StateEqual
<1>9. AtEnd(x \o r) = From(pre, w)
  <2>1. AtEnd(x \o r) = From(pre, AtEnd(none \o r))
    <3>1. AtEnd(x) = From(pre, AtEnd(none))
      BY <1>4, <1>6, <1>8
    <3>2. NoteOf(r) /\ none \in Seq(WholeLine) /\ x \in Seq(WholeLine) /\ pre \in Seq(Segment)
      BY <1>4
    <3> QED BY ONLY <3>1, <3>2, AtEndResumesNote
  <2> QED BY <1>4, <1>6, <2>1
<1>10. /\ From(pre, w).segments = pre \o w.segments
       /\ From(pre, w).prose = w.prose /\ From(pre, w).open = w.open
       /\ From(pre, w).body = w.body /\ From(pre, w).fence = w.fence
       /\ From(pre, w).error = w.error
  BY <1>3, FromFields
<1> QED BY <1>3, <1>7, <1>9, <1>10 DEF Between

LEMMA GoodIsReparsed == ASSUME NEW x \in Seq(Segment), Good(x) PROVE Reparsed(x)
<1> DEFINE G == {y \in Seq(Segment) : Good(y) => Reparsed(y)}
<1>1. <<>> \in G
  <2> DEFINE none == <<>>
  <2>1. none \in Seq(Segment) /\ Render(none) = none /\ AtEnd(none) = ParserStart
    BY EmptySeq, RenderOfNothing, AtEndOfNothing
  <2>2. /\ ParserStart.prose = <<>> /\ Between(ParserStart) /\ FlushProse(ParserStart).segments = none
    BY DEF ParserStart, Between, FlushProse
  <2>3. Settleds(none) = none
    <3>1. Len(none) = 0
      OBVIOUS
    <3> HIDE DEF none
    <3>2. Settleds(none) \in Seq(Segment) /\ Len(Settleds(none)) = 0
      BY <2>1, <3>1, SettledsFields
    <3>3. Settleds(none) = <<>>
      BY <3>2, EmptySeq
    <3> QED BY <3>3 DEF none
  <2> QED BY <2>1, <2>2, <2>3 DEF Reparsed
<1>2. ASSUME NEW y \in G, NEW s \in Segment PROVE Append(y, s) \in G
  <2> SUFFICES ASSUME Good(Append(y, s)) PROVE Reparsed(Append(y, s))
    BY AppendProperties
  <2> DEFINE q == AtEnd(Render(y))
             pre == Settleds(y)
             z == Append(y, s)
             qz == AtEnd(Render(z))
  <2>1. y \in Seq(Segment) /\ Good(y) /\ Sound(s)
        /\ (s.type = "block" \/ y = <<>> \/ y[Len(y)].type = "block")
    BY GoodPrefix
  <2>2. Between(q) /\ FlushProse(q).segments = pre
        /\ (q.prose # <<>> => y # <<>> /\ y[Len(y)].type = "prose")
    BY <2>1 DEF Reparsed
  <2>3. Render(y) \in Seq(WholeLine) /\ q \in StateOf(WholeLine) /\ pre \in Seq(Segment)
    BY <2>1, RenderIsWhole, AtEndIsState, SettledsFields
  <2>4. Render(z) = Render(y) \o RenderSegment(s)
    BY <2>1, RenderOneMore
  <2>5. Settleds(z) = Append(pre, Separated(s)) /\ Append(pre, Separated(s)) \in Seq(Segment)
    BY <2>1, <2>3, SettledsAppend, SettledFields, AppendProperties
  <2>6. z[Len(z)] = s /\ z # <<>>
    BY <2>1
  <2> HIDE DEF q, pre, z
  <2>7. CASE s.type = "block"
    <3>1. s \in BlockSegment /\ RenderSegment(s) = RenderBlock(s)
      BY <2>7 DEF Segment, ProseSegment, RenderSegment
    <3> DEFINE v == [ParserStart EXCEPT !.segments = Append(pre, Separated(s))]
    <3>2. qz = v
      BY <2>1, <2>2, <2>3, <2>4, <3>1, BlockAfter DEF q
    <3>3. v.segments = Append(pre, Separated(s)) /\ v.prose = <<>> /\ v.open = None
          /\ v.body = <<>> /\ v.fence = None /\ v.error = FALSE
      BY <2>5, StartWithSegments
    <3> HIDE DEF qz, v
    <3>4. FlushProse(qz).segments = Append(pre, Separated(s))
      BY <3>2, <3>3 DEF FlushProse
    <3> QED BY <2>5, <3>2, <3>3, <3>4 DEF Reparsed, Between, qz, z
  <2>8. CASE s.type # "block"
    <3>1. s \in ProseSegment /\ s.type = "prose"
      BY <2>8 DEF Segment, BlockSegment, ProseSegment
    <3> DEFINE r == s.lines
    <3>2. /\ r \in Seq(WholeLine) /\ r # <<>> /\ RenderSegment(s) = r /\ Separated(s) = s
          /\ s = Prose(r) /\ AtEnd(r) = [ParserStart EXCEPT !.prose = r]
      BY <2>1, <3>1 DEF ProseSegment, RenderSegment, Separated, Prose, Sound
    <3>3. q.prose = <<>>
      BY <2>1, <2>2, <2>8
    <3>4. q = [ParserStart EXCEPT !.segments = pre]
      BY <2>2, <2>3, <3>3, NoProse
    <3> HIDE DEF r
    <3>5. Between(qz) /\ qz.segments = pre /\ qz.prose = r
      <4> DEFINE a == Render(y)
      <4>1. a \in Seq(WholeLine) /\ AtEnd(a) = [ParserStart EXCEPT !.segments = pre]
        BY <2>3, <3>4 DEF q
      <4>2. NoteOf(r)
        BY <3>2, WholeIsNote
      <4>3. qz = AtEnd(a \o r)
        BY <2>4, <3>2
      <4> HIDE DEF a, qz
      <4>4. Between(AtEnd(a \o r)) /\ AtEnd(a \o r).segments = pre /\ AtEnd(a \o r).prose = r
        BY <2>3, <3>2, <4>1, <4>2, ProseAfter
      <4> QED BY <4>3, <4>4
    <3>6. qz \in StateOf(WholeLine)
      BY <2>1, <2>5, RenderIsWhole, AtEndIsState, AppendProperties DEF z
    <3> HIDE DEF qz
    <3>7. FlushProse(qz).segments = Append(pre, s)
      BY <3>2, <3>5, <3>6, FlushFields
    <3> QED BY <2>5, <2>6, <3>1, <3>2, <3>5, <3>7 DEF Reparsed, qz, z
  <2> QED BY <2>7, <2>8
<1> HIDE DEF G
<1>3. G = Seq(Segment)
  <2>1. G \in SUBSET Seq(Segment)
    BY DEF G
  <2> QED BY <1>1, <1>2, <2>1, SeqInduction
<1> QED BY <1>3 DEF G

\* Good segments up to a block, and lines that are no marker behind them, make
\* themselves again.
LEMMA ReparsedTailed ==
    ASSUME NEW x \in Seq(Segment), Good(x), x = <<>> \/ x[Len(x)].type = "block",
           NEW r, NoteOf(r), AtEnd(r) = [ParserStart EXCEPT !.prose = r]
    PROVE  LET t == Render(x) \o r IN
           /\ NoteOf(t) /\ ~Malformed(t) /\ ~EndsInFence(t)
           /\ Parse(t) = Tailed(Settleds(x), r)
<1> DEFINE t == Render(x) \o r
           q == AtEnd(Render(x))
           p == AtEnd(t)
           pre == Settleds(x)
<1>1. Render(x) \in Seq(WholeLine) /\ q \in StateOf(WholeLine) /\ pre \in Seq(Segment)
  BY RenderIsWhole, AtEndIsState, SettledsFields
<1>2. Between(q) /\ FlushProse(q).segments = pre
      /\ (q.prose # <<>> => x # <<>> /\ x[Len(x)].type = "prose")
  BY GoodIsReparsed DEF Reparsed
<1>3. q = [ParserStart EXCEPT !.segments = pre]
  <2> HIDE DEF q, pre
  <2> QED BY <1>1, <1>2, NoProse
<1>4. Between(p) /\ p.segments = pre /\ p.prose = r
  <2> HIDE DEF pre
  <2> QED BY <1>1, <1>3, ProseAfter
<1>5. NoteOf(t)
  BY <1>1, WholeThenNote
<1> HIDE DEF pre
<1>6. ~Malformed(t) /\ ~EndsInFence(t)
  BY <1>4 DEF Malformed, EndsInFence, Between
<1>7. Parse(t) = Tailed(p.segments, p.prose)
  BY <1>5, <1>6, ParsedNote
<1> QED BY <1>4, <1>5, <1>6, <1>7 DEF pre

LEMMA ReportIsSound ==
    ASSUME NEW b \in BlockSegment, b.lines = <<Plain("text", "lf")>>
    PROVE  Sound(b)
<1> DEFINE w == Begin(b)
           l == Plain("text", "lf")
           none == <<>>
           o == OpenBlock(ParserStart, w)
           u == Keep(o, l)
<1>1. w \in WholeLine /\ w.kind = "begin" /\ w.kind \notin Fences /\ w # None
      /\ w.day = b.day /\ w.draft = b.draft /\ w.eol = b.eol
  <2>1. w \in WholeLine
    BY BlockLines
  <2>2. w # None
    BY <2>1, WholeLineIsLine, LineFields
  <2> QED BY <2>1, <2>2 DEF Begin, Line, Fences
<1>2. l \in WholeLine /\ l.kind = "text" /\ l.kind \notin Fences
  BY PlainIsLine DEF LineKinds, Fences
<1>3. /\ ParserStart.prose = <<>> /\ ParserStart.open = None /\ ParserStart.fence = None
      /\ ParserStart.segments = <<>> /\ ParserStart.body = <<>> /\ ParserStart.error = FALSE
  BY DEF ParserStart
<1> HIDE DEF w, l
<1>4. /\ o \in StateOf(WholeLine) /\ o.segments = <<>>
      /\ o.prose = <<>> /\ o.open = w /\ o.body = <<>> /\ o.fence = None
      /\ o.error = FALSE
  <2>1. /\ o \in StateOf(WholeLine) /\ o.segments = FlushProse(ParserStart).segments
        /\ o.prose = <<>> /\ o.open = w /\ o.body = ParserStart.body /\ o.fence = ParserStart.fence
        /\ o.error = ParserStart.error
    BY <1>1, StartIsState, WholeLineIsLine, OpenFields
  <2>2. FlushProse(ParserStart) = ParserStart
    BY <1>3 DEF FlushProse
  <2> QED BY <1>3, <2>1, <2>2
<1>5. ParseLine(ParserStart, w) = o
  BY <1>1, <1>3 DEF ParseLine, ParseMarkerLine
<1> HIDE DEF o
<1>6. ParseLine(o, l) = u
  <2>1. l.kind # "end" /\ l.kind \notin {"begin", "badbegin"} /\ l.kind \notin {"badbegin", "end"}
    BY <1>2
  <2> QED BY <1>1, <1>2, <1>4, <2>1 DEF ParseLine, ParseMarkerLine
<1>7. /\ u \in StateOf(WholeLine) /\ u.segments = <<>> /\ u.prose = <<>> /\ u.open = w
      /\ u.body = Append(none, l) /\ u.fence = None /\ u.error = FALSE
  BY <1>1, <1>2, <1>4, KeepFields
<1> HIDE DEF u
<1>8. Append(none, l) = <<l>> /\ Append(none, w) = <<w>> /\ none \in Seq(WholeLine)
      /\ AtEnd(none) = ParserStart
  BY EmptySeq, AtEndOfNothing
<1> HIDE DEF none
<1>9. AtEnd(<<w>>) = o /\ <<w>> \in Seq(WholeLine)
  <2>1. w \in NoteLine /\ <<w>> \in Seq(WholeLine)
    BY <1>1, WholeLineIsLine
  <2>2. AtEnd(Append(none, w)) = ParseLine(AtEnd(none), w)
    BY <1>8, <2>1, AtEndOneMore
  <2> QED BY <1>5, <1>8, <2>1, <2>2
<1>10. <<w>> \o <<l>> = Append(<<w>>, l)
  BY <1>2, <1>9, AppendIsConcat
<1>11. AtEnd(<<w>> \o <<l>>) = u
  BY <1>2, <1>6, <1>9, <1>10, WholeLineIsLine, AtEndOneMore
<1>12. PendingLines(u) = <<w>> \o <<l>>
  BY <1>1, <1>7, <1>8 DEF PendingLines
<1>13. Alone(u) = u
  <2>1. /\ Alone(u) \in StateOf(WholeLine) /\ Alone(u).segments = <<>>
        /\ Alone(u).prose = u.prose /\ Alone(u).open = u.open /\ Alone(u).body = u.body
        /\ Alone(u).fence = u.fence /\ Alone(u).error = u.error
    BY <1>7, AloneFields
  <2> QED BY <1>7, <2>1, StateEqual
<1>14. Sound(Block(u.open.day, u.open.draft, u.open.eol, u.body))
  BY <1>1, <1>7, <1>11, <1>12, <1>13, OpenIsSound
<1>15. Block(u.open.day, u.open.draft, u.open.eol, u.body) = b
  <2>1. u.body = b.lines
    BY <1>7, <1>8 DEF l
  <2> QED BY <1>1, <1>7, <2>1 DEF Block, BlockSegment
<1> QED BY <1>14, <1>15

\* A final newline changes nothing about the lines behind the last block.
LEMMA EndedIsProse ==
    ASSUME NEW x, NoteOf(x), AtEnd(x) = [ParserStart EXCEPT !.prose = x]
    PROVE  AtEnd(Terminated(x)) = [ParserStart EXCEPT !.prose = Terminated(x)]
<1>1. CASE x = <<>> \/ Last(x).eol # "none"
  BY <1>1 DEF Terminated
<1>2. CASE x # <<>> /\ Last(x).eol = "none"
  <2> DEFINE f == Front(x)
             l == Last(x)
             m == [l EXCEPT !.eol = "lf"]
             u == AtEnd(f)
             w == [ParserStart EXCEPT !.prose = x]
             e == Append(f, m)
             v == [ParserStart EXCEPT !.prose = e]
  <2>1. f \in Seq(WholeLine) /\ l \in NoteLine /\ x = Append(f, l) /\ Len(x) \in Nat \ {0}
        /\ Len(f) = Len(x) - 1
    BY <1>2, NoteLast
  <2>2. m \in WholeLine /\ m \in NoteLine /\ m.kind = l.kind
    BY <2>1 DEF WholeLine, NoteLine, TextLine
  <2>3. Terminated(x) = ReplaceAt(x, Len(x), m)
    BY <1>2 DEF Terminated
  <2>4. u \in StateOf(WholeLine) /\ u \in StateOf(NoteLine)
    BY <2>1, AtEndIsState, WholeStateIsState
  <2>5. x \in Seq(NoteLine)
    BY DEF NoteOf
  <2>6. /\ w \in StateOf(NoteLine) /\ w.segments = <<>> /\ w.prose = x /\ w.open = None
        /\ w.body = <<>> /\ w.fence = None /\ w.error = FALSE
    BY <2>5, StartWithProse
  <2>7. AtEnd(x) = w
    OBVIOUS
  <2> HIDE DEF f, l, m, w, u
  <2>8. Terminated(x) = e /\ e \in Seq(NoteLine)
    <3>1. x \in Seq(NoteLine) /\ Len(x) \in 1 .. Len(x) /\ f \in Seq(NoteLine)
      BY <2>1, <2>5, WholeLineIsLine
    <3>2. ReplaceAt(x, Len(x), m) = Ahead(x, Len(x)) \o <<m>> \o Beyond(x, Len(x))
      BY <3>1, AroundReplaced
    <3>3. Len(f) + 1 = Len(x)
      BY <2>1
    <3>4. Ahead(x, Len(x)) = f /\ Beyond(x, Len(x)) = <<>>
      BY <2>1, <3>1, <3>3, AroundAppended
    <3>5. f \o <<m>> = Append(f, m) /\ f \o <<m>> \in Seq(NoteLine)
      BY <2>2, <3>1, AppendIsConcat
    <3>6. (f \o <<m>>) \o <<>> = f \o <<m>>
      BY <3>5, ConcatEmptySeq
    <3> QED BY <2>3, <3>2, <3>4, <3>5, <3>6
  <2>9. /\ v \in StateOf(NoteLine) /\ v.segments = <<>> /\ v.prose = e /\ v.open = None
        /\ v.body = <<>> /\ v.fence = None /\ v.error = FALSE
    <3> HIDE DEF e
    <3> QED BY <2>8, StartWithProse
  <2>10. AtEnd(Append(f, l)) = ParseLine(u, l) /\ AtEnd(e) = ParseLine(u, m)
    BY <2>1, <2>2, AtEndOneMore DEF u
  <2> HIDE DEF v, e
  <2>11. ParseLine(u, l) = w
    BY <2>1, <2>7, <2>10
  <2>12. ~u.error
    BY <2>6, <2>11 DEF ParseLine
  <2>13. ParseLine(u, l) # Fail(u)
    BY <2>4, <2>6, <2>11, FailFields
  <2>14. ~(u.open # None /\ ParseLine(u, l) = CloseBlock(u))
    <3> SUFFICES ASSUME u.open # None, ParseLine(u, l) = CloseBlock(u) PROVE FALSE
      OBVIOUS
    <3> DEFINE b == Block(u.open.day, u.open.draft, u.open.eol, u.body)
    <3>1. CloseBlock(u).segments = Append(u.segments, b) /\ u.segments \in Seq(Segment) /\ b \in Segment
      BY <2>4, CloseFields, StateFields
    <3> HIDE DEF b
    <3>2. Append(u.segments, b) # <<>>
      BY <3>1
    <3> QED BY <2>6, <2>11, <3>1, <3>2
  <2>15. ParseLine(u, l) # OpenBlock(u, l)
    <3>1. OpenBlock(u, l).open = l /\ l # None
      BY <2>1, <2>4, OpenFields, WholeLineIsLine, LineFields
    <3> QED BY <2>6, <2>11, <3>1
  <2>16. PICK g \in {None} \cup Fences : ParseLine(u, l) = [Keep(u, l) EXCEPT !.fence = g]
    BY <2>1, <2>4, <2>12, <2>13, <2>14, <2>15, ParseCases
  <2>17. /\ Keep(u, l) \in StateOf(NoteLine) /\ Keep(u, m) \in StateOf(NoteLine)
         /\ Keep(u, l).segments = u.segments /\ Keep(u, m).segments = u.segments
         /\ Keep(u, l).prose = (IF u.open = None THEN Append(u.prose, l) ELSE u.prose)
         /\ Keep(u, m).prose = (IF u.open = None THEN Append(u.prose, m) ELSE u.prose)
         /\ Keep(u, l).open = u.open /\ Keep(u, m).open = u.open
         /\ Keep(u, l).body = (IF u.open = None THEN u.body ELSE Append(u.body, l))
         /\ Keep(u, m).body = (IF u.open = None THEN u.body ELSE Append(u.body, m))
         /\ Keep(u, l).fence = u.fence /\ Keep(u, l).error = u.error
         /\ Keep(u, m).fence = u.fence /\ Keep(u, m).error = u.error
    BY <2>1, <2>2, <2>4, KeepFields
  <2> DEFINE kl == Keep(u, l)
             km == Keep(u, m)
  <2>18. w.open = kl.open /\ w.prose = kl.prose /\ w.segments = kl.segments /\ w.body = kl.body
         /\ w.error = kl.error /\ w.fence = g
    <3>1. w = [kl EXCEPT !.fence = g] /\ kl \in StateOf(NoteLine)
      BY <2>11, <2>16, <2>17
    <3> HIDE DEF kl
    <3> QED BY <3>1, FencedFields
  <2>19. u.open = None /\ u.prose = f /\ u.segments = <<>> /\ u.body = <<>> /\ u.error = FALSE /\ g = None
    <3>1. u.open = None /\ u.segments = <<>> /\ u.error = FALSE /\ g = None
      BY <2>6, <2>17, <2>18
    <3>2. Append(u.prose, l) = x /\ u.body = <<>>
      BY <2>6, <2>17, <2>18, <3>1
    <3>3. u.prose \in Seq(WholeLine)
      BY <2>4, StateFields
    <3>4. u.prose = f
      BY <2>1, <3>2, <3>3
    <3> QED BY <3>1, <3>2, <3>4
  <2>20. ParseLine(u, m) = [km EXCEPT !.fence = None]
    <3>1. kl \in StateOf(NoteLine) /\ km \in StateOf(NoteLine) /\ kl.fence = u.fence /\ km.fence = u.fence
      BY <2>17
    <3>2. ParseLine(u, l) = [kl EXCEPT !.fence = None] /\ [kl EXCEPT !.fence = None].fence = None
      BY <2>6, <2>11, <2>16, <2>18, <2>19
    <3>3. u.fence = None => km = [km EXCEPT !.fence = None]
      <4> HIDE DEF km
      <4> QED BY <3>1, StateFields
    <3>4. CASE u.fence # None
      <4>1. ParseLine(u, l) = IF Closes(l.kind, u.fence) THEN [kl EXCEPT !.fence = None] ELSE kl
        BY <2>12, <3>4 DEF ParseLine
      <4>2. ParseLine(u, m) = IF Closes(l.kind, u.fence) THEN [km EXCEPT !.fence = None] ELSE km
        BY <2>2, <2>12, <3>4 DEF ParseLine
      <4>3. Closes(l.kind, u.fence)
        <5> SUFFICES ASSUME ~Closes(l.kind, u.fence) PROVE FALSE
          OBVIOUS
        <5>1. w = kl
          BY <2>11, <4>1
        <5> HIDE DEF kl
        <5> QED BY <2>6, <3>1, <3>4, <5>1
      <4> QED BY <4>2, <4>3
    <3>5. CASE u.fence = None /\ l.kind \in Fences
      <4>1. ParseLine(u, l) = [kl EXCEPT !.fence = l.kind]
        BY <2>12, <3>5 DEF ParseLine
      <4>2. l.kind = None
        <5>1. l.kind \in {None} \cup Fences
          BY <3>5
        <5>2. w = [kl EXCEPT !.fence = l.kind]
          BY <2>11, <4>1
        <5> HIDE DEF kl
        <5>3. w.fence = l.kind
          BY <3>1, <5>1, <5>2, FencedFields
        <5> QED BY <2>6, <5>3
      <4> QED BY <3>5, <4>2, NoneIsNothing
    <3>6. CASE u.fence = None /\ l.kind \notin Fences
      <4>1. ParseLine(u, l) = ParseMarkerLine(u, l) /\ ParseLine(u, m) = ParseMarkerLine(u, m)
        BY <2>2, <2>12, <3>6 DEF ParseLine
      <4>2. l.kind # "begin"
        BY <2>15, <2>19, <4>1 DEF ParseMarkerLine
      <4>3. l.kind \notin {"badbegin", "end"}
        BY <2>13, <2>19, <4>1 DEF ParseMarkerLine
      <4>4. ParseMarkerLine(u, m) = km
        BY <2>2, <2>19, <4>2, <4>3 DEF ParseMarkerLine
      <4> QED BY <3>3, <3>6, <4>1, <4>4
    <3> QED BY <3>4, <3>5, <3>6
  <2>21. [km EXCEPT !.fence = None] = v
    <3> DEFINE z == [km EXCEPT !.fence = None]
    <3>1. /\ km \in StateOf(NoteLine) /\ km.segments = <<>> /\ km.prose = e /\ km.open = None
          /\ km.body = <<>> /\ km.error = FALSE
      BY <2>17, <2>19 DEF e
    <3> HIDE DEF km
    <3>2. /\ z \in StateOf(NoteLine) /\ z.segments = <<>> /\ z.prose = e /\ z.open = None
          /\ z.body = <<>> /\ z.error = FALSE /\ z.fence = None
      BY <3>1, FencedFields
    <3> HIDE DEF z
    <3>3. z = v
      BY <2>9, <3>2, StateEqual
    <3> QED BY <3>3 DEF z
  <2> QED BY <2>8, <2>10, <2>20, <2>21 DEF v
<1> QED BY <1>1, <1>2

\* The lines behind the last block, where they end in no fence.
LEMMA RestIsProse ==
    ASSUME NEW t, NoteOf(t), ~Malformed(t), ~EndsInFence(t)
    PROVE  LET rest == AtEnd(t).prose IN AtEnd(rest) = [ParserStart EXCEPT !.prose = rest]
<1> DEFINE p == AtEnd(t)
           w == [ParserStart EXCEPT !.prose = p.prose]
<1>1. /\ p \in StateOf(NoteLine) /\ Explains(t, p) /\ p.error = FALSE /\ p.open = None
      /\ PendingLines(p) = p.prose /\ p.body = <<>>
  BY ParsedNote
<1>2. p.fence = None
  BY DEF EndsInFence
<1> HIDE DEF p
<1>3. p.prose \in Seq(NoteLine)
  BY <1>1, StateFields
<1>4. /\ w \in StateOf(NoteLine) /\ w.segments = <<>> /\ w.prose = p.prose /\ w.open = None
      /\ w.body = <<>> /\ w.fence = None /\ w.error = FALSE
  BY <1>3, StartWithProse
<1>5. /\ Alone(p) \in StateOf(NoteLine) /\ Alone(p).segments = <<>>
      /\ Alone(p).prose = p.prose /\ Alone(p).open = p.open /\ Alone(p).body = p.body
      /\ Alone(p).fence = p.fence /\ Alone(p).error = p.error
  BY <1>1, AloneFields
<1>6. AtEnd(p.prose) = Alone(p)
  BY <1>1 DEF Explains
<1> HIDE DEF w
<1>7. Alone(p) = w
  BY <1>1, <1>2, <1>4, <1>5, StateEqual
<1> QED BY <1>6, <1>7 DEF p, w

\* A block in the place of another.
LEMMA GoodPlaced ==
    ASSUME NEW s \in Seq(Segment), Good(s), NEW i \in 1 .. Len(s), s[i].type = "block",
           NEW one \in BlockSegment, Sound(one)
    PROVE  LET g == Ahead(s, i) \o <<one>> \o Beyond(s, i) IN
           /\ g \in Seq(Segment) /\ Len(g) = Len(s) /\ g[i] = one
           /\ \A k \in 1 .. Len(s) : k # i => g[k] = s[k]
           /\ Good(g)
<1> DEFINE g == Ahead(s, i) \o <<one>> \o Beyond(s, i)
<1>1. one \in Segment /\ one.type = "block"
  BY DEF Segment, BlockSegment
<1>2. ReplaceAt(s, i, one) = g
  BY AroundReplaced
<1>3. ReplaceAt(s, i, one) = [k \in 1 .. Len(s) |-> IF k = i THEN one ELSE s[k]]
  BY DEF ReplaceAt
<1>4. Len(s) \in Nat /\ \A k \in 1 .. Len(s) : s[k] \in Segment
  OBVIOUS
<1> HIDE DEF g
<1>5. g \in Seq(Segment) /\ Len(g) = Len(s) /\ \A k \in 1 .. Len(s) : g[k] = IF k = i THEN one ELSE s[k]
  BY <1>1, <1>2, <1>3, <1>4
<1>6. Good(g)
  <2>1. \A k \in 1 .. Len(g) : Sound(g[k])
    BY <1>5 DEF Good
  <2>2. ASSUME NEW k \in 1 .. Len(g) - 1, g[k].type = "prose" PROVE g[k + 1].type = "block"
    <3>1. k \in 1 .. Len(s) /\ k + 1 \in 1 .. Len(s) /\ k \in 1 .. Len(s) - 1
      BY <1>4, <1>5
    <3>2. k # i /\ g[k] = s[k]
      BY <1>1, <1>5, <2>2, <3>1
    <3>3. s[k + 1].type = "block"
      BY <2>2, <3>1, <3>2 DEF Good
    <3> QED BY <1>1, <1>5, <3>1, <3>3
  <2> QED BY <2>1, <2>2 DEF Good
<1> QED BY <1>5, <1>6 DEF g

\* A block behind the last lines.
LEMMA GoodMissed ==
    ASSUME NEW s \in Seq(Segment), Good(s), s = <<>> \/ s[Len(s)].type = "block",
           NEW rest, NoteOf(rest), AtEnd(rest) = [ParserStart EXCEPT !.prose = rest],
           NEW new \in BlockSegment, Sound(new)
    PROVE  LET ended == Tailed(s, Terminated(rest)) IN
           /\ ended \in Seq(Segment) /\ Append(ended, new) \in Seq(Segment)
           /\ Good(Append(ended, new))
<1> DEFINE e == Terminated(rest)
           ended == Tailed(s, e)
<1>1. e \in Seq(WholeLine) /\ AtEnd(e) = [ParserStart EXCEPT !.prose = e]
  BY EndedIsWhole, EndedIsProse
<1>2. new \in Segment /\ new.type = "block"
  BY DEF Segment, BlockSegment
<1> HIDE DEF e
<1>3. ended \in Seq(Segment) /\ Good(ended)
  <2>1. CASE e = <<>>
    BY <2>1 DEF Tailed
  <2>2. CASE e # <<>>
    <3> DEFINE d == Prose(e)
    <3>1. d \in Segment /\ Sound(d)
      BY <1>1, <2>2 DEF Prose, Sound, Segment, ProseSegment
    <3>2. ended = Append(s, d)
      BY <2>2 DEF Tailed
    <3> HIDE DEF d
    <3> QED BY <3>1, <3>2, GoodAppends, AppendProperties
  <2> QED BY <2>1, <2>2
<1> HIDE DEF ended
<1>4. Append(ended, new) \in Seq(Segment) /\ Good(Append(ended, new))
  BY <1>2, <1>3, GoodAppends, AppendProperties
<1> QED BY <1>3, <1>4 DEF e, ended

\* Where the blocks of a day are.
Places(day, s) == {k \in 1 .. Len(s) : IsBlockOf(day, s[k])}

LEMMA PlacesOfTailed ==
    ASSUME NEW s \in Seq(Segment), NEW rest, NoteOf(rest), NEW day
    PROVE  Places(day, Tailed(s, rest)) = Places(day, s)
<1> DEFINE z == Tailed(s, rest)
           T == Segment \cup LooseProse
<1>1. s \in Seq(T) /\ (rest # <<>> => Prose(rest) \in T) /\ Len(s) \in Nat
  BY TailedIsSeq
<1>2. CASE rest = <<>>
  BY <1>2 DEF Tailed
<1>3. CASE rest # <<>>
  <2>1. z = Append(s, Prose(rest))
    BY <1>3 DEF Tailed
  <2>2. Prose(rest) \in T /\ ~IsBlockOf(day, Prose(rest))
    BY <1>1, <1>3 DEF IsBlockOf, Prose
  <2> HIDE DEF z, T
  <2>3. Len(z) = Len(s) + 1 /\ z[Len(s) + 1] = Prose(rest) /\ \A k \in 1 .. Len(s) : z[k] = s[k]
    BY <1>1, <2>1, <2>2, AroundAppended
  <2>4. ASSUME NEW k PROVE k \in Places(day, z) <=> k \in Places(day, s)
    <3>1. CASE k = Len(s) + 1
      BY <1>1, <2>2, <2>3, <3>1 DEF Places
    <3>2. CASE k # Len(s) + 1
      BY <1>1, <2>3, <3>2 DEF Places
    <3> QED BY <3>1, <3>2
  <2> QED BY <2>4 DEF z
<1> QED BY <1>2, <1>3

\* The first of them.
LEMMA FirstOfPlaces ==
    ASSUME NEW s \in Seq(Segment), NEW day
    PROVE  LET i == FirstBlockOf(day, s) IN
           /\ i \in 0 .. Len(s)
           /\ i = 0 <=> Places(day, s) = {}
           /\ i # 0 => i \in Places(day, s) /\ \A k \in Places(day, s) : i <= k
<1> DEFINE i == FirstBlockOf(day, s)
<1>1. \/ i = 0 /\ \A k \in 1 .. Len(s) : ~IsBlockOf(day, s[k])
      \/ /\ i \in 1 .. Len(s) /\ IsBlockOf(day, s[i])
         /\ \A k \in 1 .. Len(s) : IsBlockOf(day, s[k]) => i <= k
  BY FirstBlock
<1>2. Len(s) \in Nat
  OBVIOUS
<1> HIDE DEF i
<1>3. /\ i \in 0 .. Len(s)
      /\ i = 0 <=> Places(day, s) = {}
      /\ i # 0 => i \in Places(day, s) /\ \A k \in Places(day, s) : i <= k
  BY <1>1, <1>2 DEF Places
<1> QED BY <1>3 DEF i

\* A text is rendered from these good segments and the lines behind them, the
\* i-th of them the first of its day.
MadeOf(t, g, r, i, new) ==
    /\ g \in Seq(Segment) /\ Good(g) /\ g[Len(g)].type = "block"
    /\ NoteOf(r) /\ AtEnd(r) = [ParserStart EXCEPT !.prose = r]
    /\ t = Render(g) \o r
    /\ i \in 1 .. Len(g) /\ i = FirstBlockOf(new.day, g)
    /\ g[i] \in BlockSegment /\ g[i] = [new EXCEPT !.eol = g[i].eol]

LEMMA SavedMisses ==
    ASSUME NEW t, NoteOf(t), ~Malformed(t), ~EndsInFence(t), NEW new \in BlockSegment, Sound(new),
           FirstBlockOf(new.day, AtEnd(t).segments) = 0
    PROVE  \E g \in Seq(Segment) : \E r, i :
              /\ MadeOf(Render(Splice(Parse(t), new)), g, r, i, new)
              /\ Places(new.day, Parse(t)) = {} /\ Places(new.day, g) = {i}
<1> DEFINE p == AtEnd(t)
           segs == p.segments
           rest == p.prose
           ended == Tailed(segs, Terminated(rest))
           g == Append(ended, new)
           none == <<>>
           i == Len(ended) + 1
<1>1. /\ p \in StateOf(NoteLine) /\ Explains(t, p) /\ p.open = None
      /\ segs \in Seq(Segment) /\ NoteOf(rest) /\ Parse(t) = Tailed(segs, rest)
  BY ParsedNote
<1>2. AtEnd(rest) = [ParserStart EXCEPT !.prose = rest]
  BY RestIsProse
<1>3. Good(segs) /\ (segs = <<>> \/ segs[Len(segs)].type = "block")
  BY <1>1 DEF Explains, Shape
<1>4. FirstBlockOf(new.day, segs) = 0
  OBVIOUS
<1> HIDE DEF p, segs, rest
<1>5. /\ Splice(Tailed(segs, rest), new) = g /\ ended \in Seq(Segment)
  BY <1>1, <1>4, SpliceMisses
<1>6. g \in Seq(Segment) /\ Good(g)
  BY <1>1, <1>2, <1>3, GoodMissed
<1>7. new \in Segment /\ new.type = "block" /\ IsBlockOf(new.day, new)
      /\ new = [new EXCEPT !.eol = new.eol]
  BY DEF Segment, BlockSegment, IsBlockOf
<1>8. Places(new.day, Tailed(segs, rest)) = {} /\ Places(new.day, segs) = {}
  BY <1>1, <1>4, PlacesOfTailed, FirstOfPlaces
<1>9. Places(new.day, ended) = {}
  <2>1. NoteOf(Terminated(rest))
    <3>1. Terminated(rest) \in Seq(WholeLine)
      BY <1>1, EndedIsWhole
    <3> QED BY <3>1, WholeIsNote
  <2> QED BY <1>1, <1>8, <2>1, PlacesOfTailed
<1> HIDE DEF ended
<1>10. Len(g) = i /\ g[i] = new /\ i \in 1 .. Len(g) /\ \A k \in 1 .. Len(ended) : g[k] = ended[k]
  BY <1>5, <1>7, AppendProperties
<1>11. Places(new.day, g) = {i}
  <2>1. ASSUME NEW k PROVE k \in Places(new.day, g) <=> k = i
    <3>1. Len(ended) \in Nat
      BY <1>5
    <3>2. CASE k = i
      BY <1>7, <1>10, <3>2 DEF Places
    <3>3. CASE k # i
      <4> SUFFICES ASSUME k \in Places(new.day, g) PROVE FALSE
        BY <3>3
      <4>1. k \in 1 .. Len(ended) /\ IsBlockOf(new.day, g[k])
        BY <1>10, <3>1, <3>3 DEF Places
      <4> QED BY <1>9, <1>10, <4>1 DEF Places
    <3> QED BY <3>2, <3>3
  <2> QED BY <2>1
<1>12. FirstBlockOf(new.day, g) = i
  <2> HIDE DEF g, i
  <2> QED BY <1>6, <1>11, FirstOfPlaces
<1>13. NoteOf(none) /\ AtEnd(none) = [ParserStart EXCEPT !.prose = none]
       /\ Render(g) = Render(g) \o none
  <2>1. none \in Seq(WholeLine)
    BY EmptySeq
  <2>2. ParserStart = [ParserStart EXCEPT !.prose = none]
    <3> DEFINE w == [ParserStart EXCEPT !.prose = none]
    <3>1. none \in Seq(WholeLine) /\ ParserStart \in StateOf(WholeLine)
      BY <2>1, StartIsState
    <3>2. /\ ParserStart.segments = <<>> /\ ParserStart.prose = none /\ ParserStart.open = None
          /\ ParserStart.body = <<>> /\ ParserStart.fence = None /\ ParserStart.error = FALSE
      BY DEF ParserStart
    <3>3. /\ w \in StateOf(WholeLine) /\ w.segments = <<>> /\ w.prose = none /\ w.open = None
          /\ w.body = <<>> /\ w.fence = None /\ w.error = FALSE
      BY <3>1, StartWithProse
    <3> HIDE DEF w
    <3>4. ParserStart = w
      BY <3>1, <3>2, <3>3, StateEqual
    <3> QED BY <3>4 DEF w
  <2>3. Render(g) \o <<>> = Render(g)
    BY <1>6, RenderIsWhole, ConcatEmptySeq
  <2> QED BY <2>1, <2>2, <2>3, WholeIsNote, AtEndOfNothing
<1> HIDE DEF g, none, i
<1>14. Render(Splice(Parse(t), new)) = Render(g)
  BY <1>1, <1>5
<1>15. MadeOf(Render(Splice(Parse(t), new)), g, none, i, new)
  BY <1>6, <1>7, <1>10, <1>12, <1>13, <1>14 DEF MadeOf
<1> QED BY <1>1, <1>6, <1>8, <1>11, <1>15

LEMMA SavedHits ==
    ASSUME NEW t, NoteOf(t), ~Malformed(t), ~EndsInFence(t), NEW new \in BlockSegment,
           \A e \in {"lf", "crlf"} : Sound([new EXCEPT !.eol = e]),
           FirstBlockOf(new.day, AtEnd(t).segments) # 0
    PROVE  \E g \in Seq(Segment) : \E r, i :
              /\ MadeOf(Render(Splice(Parse(t), new)), g, r, i, new)
              /\ Places(new.day, Parse(t)) # {} /\ Places(new.day, g) = Places(new.day, Parse(t))
<1> DEFINE p == AtEnd(t)
           segs == p.segments
           rest == p.prose
           i == FirstBlockOf(new.day, segs)
           one == [new EXCEPT !.eol = segs[i].eol]
           g == Ahead(segs, i) \o <<one>> \o Beyond(segs, i)
<1>1. /\ p \in StateOf(NoteLine) /\ Explains(t, p) /\ p.open = None
      /\ segs \in Seq(Segment) /\ NoteOf(rest) /\ Parse(t) = Tailed(segs, rest)
  BY ParsedNote
<1>2. AtEnd(rest) = [ParserStart EXCEPT !.prose = rest]
  BY RestIsProse
<1>3. Good(segs) /\ (segs = <<>> \/ segs[Len(segs)].type = "block")
  BY <1>1 DEF Explains, Shape
<1>4. FirstBlockOf(new.day, segs) # 0
  OBVIOUS
<1> HIDE DEF p, segs, rest
<1>5. /\ i \in 1 .. Len(segs) /\ segs[i] \in BlockSegment /\ segs[i].day = new.day
      /\ one \in BlockSegment
      /\ Splice(Tailed(segs, rest), new) = Tailed(g, rest)
      /\ Render(Tailed(g, rest))
           = Render(Ahead(segs, i)) \o RenderBlock(one) \o Render(Beyond(segs, i)) \o rest
  BY <1>1, <1>4, SpliceHits
<1>6. Sound(one) /\ one.day = new.day /\ one.type = "block" /\ segs[i].type = "block"
      /\ one.eol = segs[i].eol
  <2>1. segs[i].eol \in {"lf", "crlf"} /\ segs[i].type = "block"
    BY <1>5 DEF BlockSegment
  <2> QED BY <2>1 DEF BlockSegment
<1>7. one = [new EXCEPT !.eol = one.eol]
  BY <1>6
<1>8. i = FirstBlockOf(new.day, segs)
  OBVIOUS
<1> HIDE DEF i, one
<1>9. /\ g \in Seq(Segment) /\ Len(g) = Len(segs) /\ g[i] = one
      /\ \A k \in 1 .. Len(segs) : k # i => g[k] = segs[k]
      /\ Good(g)
  BY <1>1, <1>3, <1>5, <1>6, GoodPlaced
<1>10. Render(g) \o rest = Render(Tailed(g, rest))
  <2> HIDE DEF g
  <2>1. CASE rest = <<>>
    <3>1. Render(g) \o <<>> = Render(g)
      BY <1>9, RenderIsWhole, ConcatEmptySeq
    <3> QED BY <2>1, <3>1 DEF Tailed
  <2>2. CASE rest # <<>>
    <3>1. Tailed(g, rest) = Append(g, Prose(rest)) /\ RenderSegment(Prose(rest)) = rest
      BY <2>2 DEF Tailed, RenderSegment, Prose
    <3>2. Render(Append(g, Prose(rest))) = Render(g) \o RenderSegment(Prose(rest))
      BY <1>9, RenderOneMore
    <3> QED BY <3>1, <3>2
  <2> QED BY <2>1, <2>2
<1> HIDE DEF g
<1>11. IsBlockOf(new.day, one) /\ IsBlockOf(new.day, segs[i])
  BY <1>5, <1>6 DEF IsBlockOf
<1>12. \A k \in 1 .. Len(segs) : IsBlockOf(new.day, g[k]) <=> IsBlockOf(new.day, segs[k])
  BY <1>9, <1>11
<1>13. Places(new.day, g) = Places(new.day, segs) /\ FirstBlockOf(new.day, g) = i
  <2>1. Places(new.day, g) = Places(new.day, segs)
    BY <1>9, <1>12 DEF Places
  <2>2. FirstBlockOf(new.day, g) = FirstBlockOf(new.day, segs)
    BY <1>9, <1>12, FirstOfSame
  <2> QED BY <1>8, <2>1, <2>2
<1>14. Places(new.day, Tailed(segs, rest)) = Places(new.day, segs) /\ i \in Places(new.day, segs)
  <2>1. Places(new.day, Tailed(segs, rest)) = Places(new.day, segs)
    BY <1>1, PlacesOfTailed
  <2>2. i \in Places(new.day, segs)
    BY <1>5, <1>11 DEF Places
  <2> QED BY <2>1, <2>2
<1>15. g[Len(g)].type = "block"
  <2>1. Len(segs) \in 1 .. Len(segs) /\ segs # <<>>
    BY <1>1, <1>5
  <2>2. segs[Len(segs)].type = "block"
    BY <1>3, <2>1
  <2>3. CASE i = Len(segs)
    BY <1>6, <1>9, <2>3
  <2>4. CASE i # Len(segs)
    <3>1. g[Len(segs)] = segs[Len(segs)]
      BY <1>9, <2>1, <2>4
    <3> QED BY <1>9, <2>2, <3>1
  <2> QED BY <2>3, <2>4
<1>16. Render(Splice(Parse(t), new)) = Render(g) \o rest
  BY <1>1, <1>5, <1>10 DEF g
<1>17. MadeOf(Render(Splice(Parse(t), new)), g, rest, i, new)
  BY <1>1, <1>2, <1>5, <1>7, <1>9, <1>13, <1>15, <1>16 DEF MadeOf
<1> QED BY <1>1, <1>9, <1>13, <1>14, <1>17

LEMMA SettledsAround ==
    ASSUME NEW g \in Seq(Segment), NEW i \in 1 .. Len(g)
    PROVE  /\ Render(Ahead(Settleds(g), i)) = Render(Ahead(g, i))
           /\ Render(Beyond(Settleds(g), i)) = Render(Beyond(g, i))
<1> DEFINE h == Settleds(g)
           a == Ahead(g, i)
           c == Beyond(g, i)
           ha == Ahead(h, i)
           hc == Beyond(h, i)
           sa == Settleds(a)
           sc == Settleds(c)
<1>1. h \in Seq(Segment) /\ Len(h) = Len(g) /\ \A k \in 1 .. Len(g) : h[k] = Separated(g[k])
  BY SettledsFields
<1>2. /\ a \in Seq(Segment) /\ c \in Seq(Segment)
      /\ Len(a) = i - 1 /\ Len(c) = Len(g) - i
      /\ \A k \in 1 .. i - 1 : a[k] = g[k]
      /\ \A k \in 1 .. Len(g) - i : c[k] = g[k + i]
  BY Around
<1>3. /\ sa \in Seq(Segment) /\ Len(sa) = Len(a) /\ \A k \in 1 .. Len(a) : sa[k] = Separated(a[k])
      /\ sc \in Seq(Segment) /\ Len(sc) = Len(c) /\ \A k \in 1 .. Len(c) : sc[k] = Separated(c[k])
      /\ Render(sa) = Render(a) /\ Render(sc) = Render(c)
  <2> HIDE DEF a, c
  <2> QED BY <1>2, SettledsFields, SettledsRender
<1> HIDE DEF h
<1>4. /\ ha \in Seq(Segment) /\ hc \in Seq(Segment)
      /\ Len(ha) = i - 1 /\ Len(hc) = Len(g) - i
      /\ \A k \in 1 .. i - 1 : ha[k] = h[k]
      /\ \A k \in 1 .. Len(g) - i : hc[k] = h[k + i]
  <2>1. i \in 1 .. Len(h)
    BY <1>1
  <2>2. /\ ha \in Seq(Segment) /\ hc \in Seq(Segment)
        /\ Len(ha) = i - 1 /\ Len(hc) = Len(h) - i
        /\ \A k \in 1 .. i - 1 : ha[k] = h[k]
        /\ \A k \in 1 .. Len(h) - i : hc[k] = h[k + i]
    BY <1>1, <2>1, Around
  <2> QED BY <1>1, <2>2
<1> HIDE DEF a, c, ha, hc, sa, sc
<1>5. ha = sa
  <2>1. \A k \in 1 .. Len(ha) : ha[k] = sa[k]
    BY <1>1, <1>2, <1>3, <1>4
  <2> QED BY <1>2, <1>3, <1>4, <2>1, SeqEqual
<1>6. hc = sc
  <2>1. \A k \in 1 .. Len(hc) : hc[k] = sc[k]
    <3> SUFFICES ASSUME NEW k \in 1 .. Len(hc) PROVE hc[k] = sc[k]
      OBVIOUS
    <3>1. k \in 1 .. Len(g) - i /\ k + i \in 1 .. Len(g)
      BY <1>4
    <3> QED BY <1>1, <1>2, <1>3, <1>4, <3>1
  <2> QED BY <1>2, <1>3, <1>4, <2>1, SeqEqual
<1> QED BY <1>3, <1>5, <1>6 DEF a, c, ha, hc, h

LEMMA RenderAround ==
    ASSUME NEW g \in Seq(Segment), NEW i \in 1 .. Len(g), g[i].type = "block"
    PROVE  Render(g) = Render(Ahead(g, i)) \o RenderBlock(g[i]) \o Render(Beyond(g, i))
<1> DEFINE a == Ahead(g, i)
           c == Beyond(g, i)
           b == g[i]
           ab == Append(a, b)
<1>1. /\ a \in Seq(Segment) /\ c \in Seq(Segment) /\ b \in Segment
      /\ g = a \o <<b>> \o c
  <2>1. b \in Segment
    OBVIOUS
  <2>2. a \in Seq(Segment) /\ c \in Seq(Segment) /\ g = a \o <<b>> \o c
    BY Around
  <2> QED BY <2>1, <2>2
<1>2. RenderSegment(b) = RenderBlock(b)
  BY DEF RenderSegment
<1> HIDE DEF a, b, c
<1>3. a \o <<b>> = ab /\ ab \in Seq(Segment)
  BY <1>1, AppendIsConcat, AppendProperties
<1>4. Render(ab) = Render(a) \o RenderBlock(b)
  BY <1>1, <1>2, RenderOneMore
<1> HIDE DEF ab
<1>5. Render(ab \o c) = Render(ab) \o Render(c)
  BY <1>1, <1>3, RenderOfBoth
<1> QED BY <1>1, <1>3, <1>4, <1>5 DEF a, b, c

\* Saving the block again changes nothing.
LEMMA MadeIsStable ==
    ASSUME NEW t, NEW g, NEW r, NEW i, NEW new \in BlockSegment, MadeOf(t, g, r, i, new)
    PROVE  /\ NoteOf(t) /\ ~Malformed(t) /\ ~EndsInFence(t)
           /\ Places(new.day, Parse(t)) = Places(new.day, g)
           /\ i \in Places(new.day, g) /\ \A k \in Places(new.day, g) : i <= k
           /\ Parse(t)[i].draft = new.draft
           /\ Render(Splice(Parse(t), new)) = t
<1> DEFINE h == Settleds(g)
           one == [new EXCEPT !.eol = h[i].eol]
<1>1. /\ g \in Seq(Segment) /\ Good(g) /\ g[Len(g)].type = "block"
      /\ NoteOf(r) /\ AtEnd(r) = [ParserStart EXCEPT !.prose = r]
      /\ t = Render(g) \o r
      /\ i \in 1 .. Len(g) /\ i = FirstBlockOf(new.day, g)
      /\ g[i] \in BlockSegment /\ g[i] = [new EXCEPT !.eol = g[i].eol]
  BY DEF MadeOf
<1>2. /\ h \in Seq(Segment) /\ Len(h) = Len(g) /\ \A k \in 1 .. Len(g) : h[k] = Separated(g[k])
  BY <1>1, SettledsFields
<1>3. \A k \in 1 .. Len(g) : IsBlockOf(new.day, h[k]) <=> IsBlockOf(new.day, g[k])
  <2> SUFFICES ASSUME NEW k \in 1 .. Len(g)
               PROVE  IsBlockOf(new.day, h[k]) <=> IsBlockOf(new.day, g[k])
    OBVIOUS
  <2>1. g[k] \in Segment /\ h[k] = Separated(g[k])
    BY <1>1, <1>2
  <2> QED BY <2>1, SettledFields
<1>4. /\ NoteOf(t) /\ ~Malformed(t) /\ ~EndsInFence(t) /\ Parse(t) = Tailed(h, r)
  BY <1>1, ReparsedTailed
<1>5. h[i].draft = g[i].draft /\ h[i].eol = g[i].eol /\ g[i].draft = new.draft /\ g[i].type = "block"
  <2>1. g[i] \in Segment /\ g[i].type = "block"
    BY <1>1 DEF BlockSegment, Segment
  <2>2. h[i].draft = g[i].draft /\ h[i].eol = g[i].eol
    BY <1>1, <1>2, <2>1, SettledFields
  <2>3. g[i].draft = new.draft
    BY <1>1 DEF BlockSegment
  <2> QED BY <2>1, <2>2, <2>3
<1> HIDE DEF h
<1>6. FirstBlockOf(new.day, h) = i /\ i # 0
  <2>1. FirstBlockOf(new.day, h) = FirstBlockOf(new.day, g)
    BY <1>2, <1>3, FirstOfSame
  <2> QED BY <1>1, <2>1
<1>7. Places(new.day, Parse(t)) = Places(new.day, g)
  <2>1. Places(new.day, Parse(t)) = Places(new.day, h)
    BY <1>1, <1>2, <1>4, PlacesOfTailed
  <2>2. Places(new.day, h) = Places(new.day, g)
    BY <1>2, <1>3 DEF Places
  <2> QED BY <2>1, <2>2
<1>8. i \in Places(new.day, g) /\ \A k \in Places(new.day, g) : i <= k
  BY <1>1, <1>6, FirstOfPlaces
<1>9. Parse(t)[i] = h[i]
  <2>1. CASE r = <<>>
    BY <1>4, <2>1 DEF Tailed
  <2>2. CASE r # <<>>
    <3> DEFINE T == Segment \cup LooseProse
    <3>1. h \in Seq(T) /\ Prose(r) \in T /\ i \in 1 .. Len(h)
      BY <1>1, <1>2, <2>2, TailedIsSeq
    <3>2. Parse(t) = Append(h, Prose(r))
      BY <1>4, <2>2 DEF Tailed
    <3> HIDE DEF T
    <3> QED BY <3>1, <3>2, AroundAppended
  <2> QED BY <2>1, <2>2
<1>10. Render(Splice(Parse(t), new)) = t
  <2>1. one = g[i]
    BY <1>1, <1>5
  <2>2. Splice(Tailed(h, r), new) = Tailed(Ahead(h, i) \o <<one>> \o Beyond(h, i), r)
        /\ Render(Tailed(Ahead(h, i) \o <<one>> \o Beyond(h, i), r))
             = Render(Ahead(h, i)) \o RenderBlock(one) \o Render(Beyond(h, i)) \o r
    <3> DEFINE j == FirstBlockOf(new.day, h)
               w == [new EXCEPT !.eol = h[j].eol]
    <3>1. /\ Splice(Tailed(h, r), new) = Tailed(Ahead(h, j) \o <<w>> \o Beyond(h, j), r)
          /\ Render(Tailed(Ahead(h, j) \o <<w>> \o Beyond(h, j), r))
               = Render(Ahead(h, j)) \o RenderBlock(w) \o Render(Beyond(h, j)) \o r
      BY <1>1, <1>2, <1>6, SpliceHits
    <3>2. j = i
      BY <1>6
    <3> QED BY <3>1, <3>2
  <2>3. /\ Render(Ahead(h, i)) = Render(Ahead(g, i))
        /\ Render(Beyond(h, i)) = Render(Beyond(g, i))
    BY <1>1, SettledsAround DEF h
  <2>4. Render(g) = Render(Ahead(g, i)) \o RenderBlock(g[i]) \o Render(Beyond(g, i))
    BY <1>1, <1>5, RenderAround
  <2>5. Render(Splice(Parse(t), new))
          = Render(Ahead(h, i)) \o RenderBlock(one) \o Render(Beyond(h, i)) \o r
    BY <1>4, <2>2
  <2> HIDE DEF one
  <2> QED BY <1>1, <2>1, <2>3, <2>4, <2>5
<1> QED BY <1>4, <1>5, <1>7, <1>8, <1>9, <1>10

\* A note that parses and ends in no fence, saved, holds the report as its
\* first block of the day, and saving it again changes nothing.
Refreshed(t, day, draft) ==
    LET before == BlocksOf(day, t)
        after  == BlocksOf(day, Saved(t, day, draft))
    IN  /\ \E i \in after : /\ Parse(Saved(t, day, draft))[i].draft = draft
                            /\ \A j \in after : i <= j
        /\ Cardinality(after) = IF before = {} THEN 1 ELSE Cardinality(before)
        /\ Saved(Saved(t, day, draft), day, draft) = Saved(t, day, draft)

LEMMA ReportsAreSound ==
    ASSUME NEW day \in Days, NEW draft \in Drafts
    PROVE  LET new == Report(day, draft) IN
           /\ new \in BlockSegment /\ Sound(new)
           /\ \A e \in {"lf", "crlf"} : Sound([new EXCEPT !.eol = e])
<1> DEFINE new == Report(day, draft)
<1>1. new \in BlockSegment /\ new.lines = <<Plain("text", "lf")>>
  BY ReportIsBlock
<1> HIDE DEF new
<1>2. ASSUME NEW e \in {"lf", "crlf"} PROVE Sound([new EXCEPT !.eol = e])
  <2> DEFINE b == [new EXCEPT !.eol = e]
  <2>1. b \in BlockSegment /\ b.lines = <<Plain("text", "lf")>>
    BY <1>1 DEF BlockSegment
  <2> HIDE DEF b
  <2>2. Sound(b)
    BY <2>1, ReportIsSound
  <2> QED BY <2>2 DEF b
<1>3. Sound(new)
  BY <1>1, ReportIsSound
<1> QED BY <1>1, <1>2, <1>3 DEF new

LEMMA SavedIsRefreshed ==
    ASSUME NEW t, NoteOf(t), ~Malformed(t), ~EndsInFence(t), NEW day \in Days, NEW draft \in Drafts
    PROVE  /\ Refreshed(t, day, draft)
           /\ ~Malformed(Saved(t, day, draft)) /\ ~EndsInFence(Saved(t, day, draft))
<1> DEFINE new == Report(day, draft)
           s == Saved(t, day, draft)
           b == BlocksOf(day, t)
           a == BlocksOf(day, s)
           segs == AtEnd(t).segments
<1>1. /\ new \in BlockSegment /\ new.day = day /\ new.draft = draft /\ Sound(new)
      /\ \A e \in {"lf", "crlf"} : Sound([new EXCEPT !.eol = e])
  BY ReportIsBlock, ReportsAreSound
<1>2. s = Render(Splice(Parse(t), new)) /\ Saved(s, day, draft) = Render(Splice(Parse(s), new))
  BY DEF Saved
<1> HIDE DEF new, s, segs
<1>3. \E g \in Seq(Segment) : \E r, i :
         /\ MadeOf(s, g, r, i, new)
         /\ \/ Places(day, Parse(t)) = {} /\ Places(day, g) = {i}
            \/ Places(day, Parse(t)) # {} /\ Places(day, g) = Places(day, Parse(t))
  <2>1. CASE FirstBlockOf(new.day, AtEnd(t).segments) = 0
    <3>1. \E g \in Seq(Segment) : \E r, i :
              /\ MadeOf(Render(Splice(Parse(t), new)), g, r, i, new)
              /\ Places(new.day, Parse(t)) = {} /\ Places(new.day, g) = {i}
      BY <1>1, <2>1, SavedMisses
    <3> QED BY <1>1, <1>2, <3>1
  <2>2. CASE FirstBlockOf(new.day, AtEnd(t).segments) # 0
    <3>1. \E g \in Seq(Segment) : \E r, i :
              /\ MadeOf(Render(Splice(Parse(t), new)), g, r, i, new)
              /\ Places(new.day, Parse(t)) # {} /\ Places(new.day, g) = Places(new.day, Parse(t))
      BY <1>1, <2>2, SavedHits
    <3> QED BY <1>1, <1>2, <3>1
  <2> QED BY <2>1, <2>2
<1>4. PICK g, r, i :
         /\ g \in Seq(Segment) /\ MadeOf(s, g, r, i, new)
         /\ \/ Places(day, Parse(t)) = {} /\ Places(day, g) = {i}
            \/ Places(day, Parse(t)) # {} /\ Places(day, g) = Places(day, Parse(t))
  BY <1>3
<1>5. /\ NoteOf(s) /\ ~Malformed(s) /\ ~EndsInFence(s)
      /\ Places(new.day, Parse(s)) = Places(new.day, g)
      /\ i \in Places(new.day, g) /\ \A k \in Places(new.day, g) : i <= k
      /\ Parse(s)[i].draft = new.draft
      /\ Render(Splice(Parse(s), new)) = s
  BY <1>1, <1>4, MadeIsStable
<1>6. b = Places(day, Parse(t)) /\ a = Places(day, Parse(s))
  <2>1. ASSUME NEW x, NoteOf(x), ~Malformed(x) PROVE BlocksOf(day, x) = Places(day, Parse(x))
    <3> DEFINE p == AtEnd(x)
               z == Tailed(p.segments, p.prose)
    <3>1. Parse(x) = z /\ p.segments \in Seq(Segment) /\ NoteOf(p.prose)
      BY <2>1, ParsedNote
    <3> HIDE DEF p
    <3>2. z \in Seq(Segment \cup LooseProse)
      BY <3>1, TailedIsSeq
    <3> HIDE DEF z
    <3> QED BY <3>1, <3>2 DEF BlocksOf, Places
  <2> QED BY <1>5, <2>1
<1> HIDE DEF a, b
<1>7. Cardinality(a) = IF b = {} THEN 1 ELSE Cardinality(b)
  <2>1. Cardinality({i}) = 1
    BY FS_Singleton
  <2> QED BY <1>1, <1>4, <1>5, <1>6, <2>1
<1>8. i \in a /\ Parse(s)[i].draft = draft /\ \A j \in a : i <= j
  BY <1>1, <1>5, <1>6
<1>9. Saved(s, day, draft) = s
  BY <1>2, <1>5
<1> QED BY <1>5, <1>7, <1>8, <1>9 DEF Refreshed, a, b, s

(***************************************************************************)
(* The frontmatter                                                         *)
(***************************************************************************)

\* Where the first line of a kind is.
PlaceOf(kind, s) == SelectInSeq(s, LAMBDA e : e.kind = kind)

LEMMA FirstLine ==
    ASSUME NEW T, NEW s \in Seq(T), NEW kind
    PROVE  \/ PlaceOf(kind, s) = 0 /\ \A k \in 1 .. Len(s) : s[k].kind # kind
           \/ /\ PlaceOf(kind, s) \in 1 .. Len(s)
              /\ s[PlaceOf(kind, s)].kind = kind
              /\ \A k \in 1 .. Len(s) : s[k].kind = kind => PlaceOf(kind, s) <= k
<1> DEFINE I == {k \in 1 .. Len(s) : s[k].kind = kind}
<1>1. PlaceOf(kind, s) = IF I # {} THEN Min(I) ELSE 0
  BY DEF PlaceOf, SelectInSeq
<1>2. I # {} => Min(I) \in I /\ \A y \in I : Min(I) <= y
  <2>1. Len(s) \in Nat /\ I \in SUBSET (1 .. Len(s))
    OBVIOUS
  <2> HIDE DEF I
  <2> QED BY <2>1, FirstPlace
<1> QED BY <1>1, <1>2

\* A text that begins with a frontmatter of n lines.
Fronted(t, n) ==
    /\ n \in 2 .. Len(t)
    /\ t[1].kind = "delim" /\ t[1].eol # "none" /\ t[n].kind = "delim"
    /\ \A k \in 2 .. n - 1 : t[k].kind # "delim"

\* A text that begins with none.
Frontless(t) ==
    \/ t = <<>>
    \/ t[1].kind # "delim"
    \/ t[1].eol = "none"
    \/ \A k \in 2 .. Len(t) : t[k].kind # "delim"

LEMMA SplitCases ==
    ASSUME NEW T, NEW t \in Seq(T)
    PROVE  \/ Frontless(t) /\ Split(t) = [front |-> <<>>, body |-> t]
           \/ \E n \in 2 .. Len(t) :
                 /\ Fronted(t, n)
                 /\ Split(t) = [front |-> SubSeq(t, 1, n), body |-> SubSeq(t, n + 1, Len(t))]
<1>1. CASE t = <<>>
  BY <1>1 DEF Split, Frontless
<1>2. CASE t # <<>>
  <2> DEFINE u == Tail(t)
             c == PlaceOf("delim", u)
  <2>1. /\ u \in Seq(T) /\ Len(t) \in Nat \ {0} /\ Len(u) = Len(t) - 1
        /\ \A k \in 1 .. Len(u) : u[k] = t[k + 1]
        /\ Head(t) = t[1]
    BY <1>2
  <2>2. FindDelimLine(u) = c
    BY DEF FindDelimLine, PlaceOf
  <2> HIDE DEF u
  <2>3. \/ c = 0 /\ \A k \in 1 .. Len(u) : u[k].kind # "delim"
        \/ /\ c \in 1 .. Len(u) /\ u[c].kind = "delim"
           /\ \A k \in 1 .. Len(u) : u[k].kind = "delim" => c <= k
    BY <2>1, FirstLine
  <2>4. Split(t) = IF t[1].kind = "delim" /\ t[1].eol # "none" /\ c # 0
                   THEN [front |-> SubSeq(t, 1, c + 1), body |-> SubSeq(t, c + 2, Len(t))]
                   ELSE [front |-> <<>>, body |-> t]
    BY <1>2, <2>1, <2>2 DEF Split, u
  <2> HIDE DEF c
  <2>5. CASE t[1].kind = "delim" /\ t[1].eol # "none" /\ c # 0
    <3> DEFINE n == c + 1
    <3>1. n \in 2 .. Len(t) /\ c \in Nat /\ t[n].kind = "delim"
      BY <2>1, <2>3, <2>5
    <3>2. ASSUME NEW k \in 2 .. n - 1 PROVE t[k].kind # "delim"
      <4>1. k - 1 \in 1 .. Len(u) /\ k - 1 < c /\ (k - 1) + 1 = k
        BY <2>1, <2>3, <2>5, <3>1
      <4>2. t[k] = u[k - 1]
        BY <2>1, <4>1
      <4> QED BY <2>3, <2>5, <3>1, <4>1, <4>2
    <3>3. c + 2 = n + 1
      BY <3>1
    <3> QED BY <2>4, <2>5, <3>1, <3>2, <3>3 DEF Fronted
  <2>6. CASE ~(t[1].kind = "delim" /\ t[1].eol # "none" /\ c # 0)
    <3>1. ASSUME c = 0, NEW k \in 2 .. Len(t) PROVE t[k].kind # "delim"
      <4>1. k - 1 \in 1 .. Len(u) /\ t[k] = u[k - 1]
        BY <2>1
      <4> QED BY <2>1, <2>3, <3>1, <4>1
    <3> QED BY <2>4, <2>6, <3>1 DEF Frontless
  <2> QED BY <2>5, <2>6
<1> QED BY <1>1, <1>2

LEMMA SplitFronted ==
    ASSUME NEW T, NEW a \in Seq(T), NEW s \in Seq(T), Fronted(a, Len(a))
    PROVE  Split(a \o s) = [front |-> a, body |-> s]
<1> DEFINE t == a \o s
           n == Len(a)
<1>1. /\ t \in Seq(T) /\ Len(t) = n + Len(s) /\ n \in Nat /\ Len(s) \in Nat
      /\ \A k \in 1 .. n : t[k] = a[k]
      /\ \A k \in 1 .. Len(s) : t[n + k] = s[k]
  BY ConcatProperties
<1>2. n \in 2 .. n /\ Fronted(t, n)
  BY <1>1 DEF Fronted
<1> HIDE DEF t
<1>3. ~Frontless(t)
  <2>1. n \in 2 .. Len(t) /\ t # <<>>
    BY <1>1, <1>2 DEF Fronted
  <2> QED BY <1>2, <2>1 DEF Frontless, Fronted
<1>4. PICK m \in 2 .. Len(t) :
         /\ Fronted(t, m)
         /\ Split(t) = [front |-> SubSeq(t, 1, m), body |-> SubSeq(t, m + 1, Len(t))]
  BY <1>1, <1>3, SplitCases
<1>5. m = n
  <2>1. ~(m < n)
    BY <1>1, <1>2, <1>4 DEF Fronted
  <2>2. ~(n < m)
    BY <1>1, <1>2, <1>4 DEF Fronted
  <2> QED BY <1>1, <2>1, <2>2
<1>6. SubSeq(t, 1, n) = a /\ SubSeq(t, n + 1, Len(t)) = s
  <2> DEFINE x == SubSeq(t, 1, n)
             y == SubSeq(t, n + 1, Len(t))
  <2>1. x \in Seq(T) /\ Len(x) = n /\ \A k \in 1 .. n : x[k] = t[k]
    BY <1>1
  <2>2. y \in Seq(T) /\ Len(y) = Len(s) /\ \A k \in 1 .. Len(s) : y[k] = t[n + k]
    BY <1>1
  <2> HIDE DEF x, y
  <2>3. x = a
    BY <1>1, <2>1, SeqEqual
  <2>4. y = s
    BY <1>1, <2>2, SeqEqual
  <2> QED BY <2>3, <2>4 DEF x, y
<1> QED BY <1>4, <1>5, <1>6 DEF t

LEMMA SplitFrontless ==
    ASSUME NEW T, NEW t \in Seq(T), Frontless(t)
    PROVE  Split(t) = [front |-> <<>>, body |-> t]
<1>1. ASSUME NEW n \in 2 .. Len(t), Fronted(t, n) PROVE FALSE
  <2>1. t # <<>> /\ Len(t) \in Nat
    BY <1>1
  <2> QED BY <1>1, <2>1 DEF Fronted, Frontless
<1> QED BY <1>1, SplitCases

\* The lines of a frontmatter and of the notes typed under one; the entries of
\* a frontmatter as the sink reads them.
FrontLine == {l \in TextLine : l.kind \in FrontKinds /\ l.draft = None}
Entry == {l \in FrontLine : l.kind \in {"date", "generated", "tag", "text"} /\ l.eol = "lf"}

LEMMA FrontLineIsLine == FrontLine \subseteq NoteLine /\ Entry \subseteq FrontLine
BY DEF FrontLine, Entry, NoteLine, FrontKinds

LEMMA FieldIsEntry ==
    ASSUME NEW key \in {"date", "generated"}
    PROVE  Field(key) \in Entry /\ Field(key).kind = key
<1>1. FrontDay \in Days
  BY SomeReport DEF FrontDay
<1> QED BY <1>1 DEF Field, Line, Entry, FrontLine, TextLine, FrontKinds

LEMMA EntryIsParsed == ASSUME NEW e \in Entry PROVE ParseEntry(e) = e
<1>1. e = [kind |-> e.kind, day |-> e.day, draft |-> e.draft, eol |-> e.eol]
  BY LineFields DEF Entry, FrontLine
<1>2. e.kind \in {"date", "generated", "tag", "text"} /\ e.draft = None /\ e.eol = "lf"
  BY DEF Entry, FrontLine
<1>3. e.kind # "nested" /\ e.kind # "nesteddate"
  BY <1>2
<1>4. ParseEntry(e) = [kind |-> e.kind, day |-> e.day, draft |-> None, eol |-> "lf"]
  BY <1>3 DEF ParseEntry
<1> QED BY <1>1, <1>2, <1>4

LEMMA ParsedIsEntry ==
    ASSUME NEW l \in FrontLine, l.kind # "delim"
    PROVE  LET e == ParseEntry(l) IN
           /\ e \in Entry
           /\ e.kind = "date" <=> l.kind \in {"date", "nesteddate"}
           /\ e.kind = "generated" <=> l.kind = "generated"
           /\ e.kind \in {"tag", "nested", "text"} <=> l.kind \in {"tag", "nested", "text"}
           /\ l.kind \in {"tag", "text"} => e.kind = l.kind
<1>1. /\ l.kind \in {"date", "generated", "tag", "nested", "nesteddate", "text"}
      /\ l.day \in Days \cup {None}
  BY DEF FrontLine, FrontKinds, TextLine
<1>2. CASE l.kind = "nested"
  <2>1. ParseEntry(l) = [kind |-> "tag", day |-> l.day, draft |-> None, eol |-> "lf"]
    BY <1>2 DEF ParseEntry
  <2> QED BY <1>1, <1>2, <2>1 DEF Entry, FrontLine, TextLine, FrontKinds
<1>3. CASE l.kind = "nesteddate"
  <2>1. ParseEntry(l) = [kind |-> "date", day |-> l.day, draft |-> None, eol |-> "lf"]
    BY <1>3 DEF ParseEntry
  <2> QED BY <1>1, <1>3, <2>1 DEF Entry, FrontLine, TextLine, FrontKinds
<1>4. CASE l.kind \notin {"nested", "nesteddate"}
  <2>1. ParseEntry(l) = [kind |-> l.kind, day |-> l.day, draft |-> None, eol |-> "lf"]
    BY <1>4 DEF ParseEntry
  <2> QED BY <1>1, <1>4, <2>1 DEF Entry, FrontLine, TextLine, FrontKinds
<1> QED BY <1>2, <1>3, <1>4

LEMMA UpsertCases ==
    ASSUME NEW s \in Seq(Entry), NEW key \in {"date", "generated"}
    PROVE  LET u == Upsert(s, key) IN
           /\ u \in Seq(Entry)
           /\ \/ /\ \A k \in 1 .. Len(s) : s[k].kind # key
                 /\ u = Append(s, Field(key)) /\ Len(u) = Len(s) + 1
                 /\ u[Len(s) + 1] = Field(key) /\ \A k \in 1 .. Len(s) : u[k] = s[k]
              \/ \E i \in 1 .. Len(s) :
                    /\ s[i].kind = key /\ \A k \in 1 .. Len(s) : s[k].kind = key => i <= k
                    /\ Len(u) = Len(s)
                    /\ \A k \in 1 .. Len(s) : u[k] = IF k = i THEN Field(key) ELSE s[k]
<1> DEFINE f == Field(key)
           u == Upsert(s, key)
           i == PlaceOf(key, s)
<1>1. f \in Entry /\ f.kind = key
  BY FieldIsEntry
<1>2. u = IF i = 0 THEN Append(s, f) ELSE ReplaceAt(s, i, f)
  BY DEF Upsert, PlaceOf
<1>3. \/ i = 0 /\ \A k \in 1 .. Len(s) : s[k].kind # key
      \/ /\ i \in 1 .. Len(s) /\ s[i].kind = key
         /\ \A k \in 1 .. Len(s) : s[k].kind = key => i <= k
  BY FirstLine
<1> HIDE DEF f, u, i
<1>4. CASE i = 0
  <2>1. u = Append(s, f)
    BY <1>2, <1>4
  <2>2. u \in Seq(Entry) /\ Len(u) = Len(s) + 1 /\ u[Len(s) + 1] = f
        /\ \A k \in 1 .. Len(s) : u[k] = s[k]
    BY <1>1, <2>1, AppendProperties
  <2>3. \A k \in 1 .. Len(s) : s[k].kind # key
    BY <1>3, <1>4
  <2> QED BY <2>1, <2>2, <2>3 DEF u, f
<1>5. CASE i # 0
  <2>1. /\ i \in 1 .. Len(s) /\ s[i].kind = key
        /\ \A k \in 1 .. Len(s) : s[k].kind = key => i <= k
    BY <1>3, <1>5
  <2>2. u = [k \in 1 .. Len(s) |-> IF k = i THEN f ELSE s[k]]
    <3>1. u = ReplaceAt(s, i, f)
      BY <1>2, <1>5
    <3>2. ReplaceAt(s, i, f) = [k \in 1 .. Len(s) |-> IF k = i THEN f ELSE s[k]]
      BY DEF ReplaceAt
    <3> QED BY <3>1, <3>2
  <2>3. Len(s) \in Nat /\ \A k \in 1 .. Len(s) : s[k] \in Entry
    OBVIOUS
  <2>4. u \in Seq(Entry) /\ Len(u) = Len(s)
        /\ \A k \in 1 .. Len(s) : u[k] = IF k = i THEN f ELSE s[k]
    BY <1>1, <2>2, <2>3
  <2> QED BY <2>1, <2>4 DEF u, f
<1> QED BY <1>4, <1>5

\* The first entry of a key is the sink's.
Holds(key, s) ==
    \E i \in 1 .. Len(s) : s[i] = Field(key) /\ \A k \in 1 .. Len(s) : s[k].kind = key => i <= k

LEMMA UpsertHolds ==
    ASSUME NEW s \in Seq(Entry), NEW key \in {"date", "generated"}
    PROVE  Holds(key, Upsert(s, key))
<1> DEFINE u == Upsert(s, key)
<1>1. /\ u \in Seq(Entry)
      /\ \/ /\ \A k \in 1 .. Len(s) : s[k].kind # key
            /\ u = Append(s, Field(key)) /\ Len(u) = Len(s) + 1
            /\ u[Len(s) + 1] = Field(key) /\ \A k \in 1 .. Len(s) : u[k] = s[k]
         \/ \E i \in 1 .. Len(s) :
               /\ s[i].kind = key /\ \A k \in 1 .. Len(s) : s[k].kind = key => i <= k
               /\ Len(u) = Len(s)
               /\ \A k \in 1 .. Len(s) : u[k] = IF k = i THEN Field(key) ELSE s[k]
  BY UpsertCases
<1>2. Len(s) \in Nat
  OBVIOUS
<1> HIDE DEF u
<1>3. CASE /\ \A k \in 1 .. Len(s) : s[k].kind # key
           /\ Len(u) = Len(s) + 1
           /\ u[Len(s) + 1] = Field(key) /\ \A k \in 1 .. Len(s) : u[k] = s[k]
  <2>1. \A k \in 1 .. Len(u) : u[k].kind = key => Len(s) + 1 <= k
    BY <1>2, <1>3
  <2> QED BY <1>2, <1>3, <2>1 DEF Holds, u
<1>4. ASSUME NEW i \in 1 .. Len(s), s[i].kind = key, \A k \in 1 .. Len(s) : s[k].kind = key => i <= k,
             Len(u) = Len(s), \A k \in 1 .. Len(s) : u[k] = IF k = i THEN Field(key) ELSE s[k]
      PROVE  Holds(key, u)
  <2>1. u[i] = Field(key)
    BY <1>4
  <2>2. \A k \in 1 .. Len(u) : u[k].kind = key => i <= k
    BY <1>2, <1>4
  <2> QED BY <1>4, <2>1, <2>2 DEF Holds
<1> QED BY <1>1, <1>3, <1>4 DEF u

LEMMA UpsertKeepsHolds ==
    ASSUME NEW s \in Seq(Entry), NEW key \in {"date", "generated"}, NEW other \in {"date", "generated"},
           key # other, Holds(key, s)
    PROVE  Holds(key, Upsert(s, other))
<1> DEFINE u == Upsert(s, other)
           f == Field(other)
<1>1. /\ u \in Seq(Entry)
      /\ \/ /\ \A k \in 1 .. Len(s) : s[k].kind # other
            /\ u = Append(s, f) /\ Len(u) = Len(s) + 1
            /\ u[Len(s) + 1] = f /\ \A k \in 1 .. Len(s) : u[k] = s[k]
         \/ \E i \in 1 .. Len(s) :
               /\ s[i].kind = other /\ \A k \in 1 .. Len(s) : s[k].kind = other => i <= k
               /\ Len(u) = Len(s)
               /\ \A k \in 1 .. Len(s) : u[k] = IF k = i THEN f ELSE s[k]
  BY UpsertCases
<1>2. Len(s) \in Nat /\ f.kind = other /\ Field(key).kind = key
  BY FieldIsEntry
<1>3. PICK j \in 1 .. Len(s) : s[j] = Field(key) /\ \A k \in 1 .. Len(s) : s[k].kind = key => j <= k
  BY DEF Holds
<1> HIDE DEF u, f
<1>4. CASE /\ Len(u) = Len(s) + 1
           /\ u[Len(s) + 1] = f /\ \A k \in 1 .. Len(s) : u[k] = s[k]
  <2>1. \A k \in 1 .. Len(u) : u[k].kind = key => j <= k
    BY <1>2, <1>3, <1>4
  <2>2. j \in 1 .. Len(u) /\ u[j] = Field(key)
    BY <1>2, <1>3, <1>4
  <2> QED BY <2>1, <2>2 DEF Holds, u
<1>5. ASSUME NEW i \in 1 .. Len(s), s[i].kind = other,
             Len(u) = Len(s), \A k \in 1 .. Len(s) : u[k] = IF k = i THEN f ELSE s[k]
      PROVE  Holds(key, u)
  <2>1. j # i
    BY <1>2, <1>3, <1>5
  <2>2. u[j] = Field(key) /\ j \in 1 .. Len(u)
    BY <1>3, <1>5, <2>1
  <2>3. \A k \in 1 .. Len(u) : u[k].kind = key => j <= k
    BY <1>2, <1>3, <1>5
  <2> QED BY <2>2, <2>3 DEF Holds
<1> QED BY <1>1, <1>4, <1>5 DEF u

\* It is not written over with anything else.
LEMMA UpsertSettles ==
    ASSUME NEW s \in Seq(Entry), NEW key \in {"date", "generated"}, Holds(key, s)
    PROVE  Upsert(s, key) = s
<1> DEFINE u == Upsert(s, key)
           f == Field(key)
<1>1. /\ u \in Seq(Entry)
      /\ \/ /\ \A k \in 1 .. Len(s) : s[k].kind # key
            /\ u = Append(s, f) /\ Len(u) = Len(s) + 1
            /\ u[Len(s) + 1] = f /\ \A k \in 1 .. Len(s) : u[k] = s[k]
         \/ \E i \in 1 .. Len(s) :
               /\ s[i].kind = key /\ \A k \in 1 .. Len(s) : s[k].kind = key => i <= k
               /\ Len(u) = Len(s)
               /\ \A k \in 1 .. Len(s) : u[k] = IF k = i THEN f ELSE s[k]
  BY UpsertCases
<1>2. Len(s) \in Nat /\ f.kind = key
  BY FieldIsEntry
<1>3. PICK j \in 1 .. Len(s) : s[j] = f /\ \A k \in 1 .. Len(s) : s[k].kind = key => j <= k
  BY DEF Holds
<1> HIDE DEF u, f
<1>4. PICK i \in 1 .. Len(s) :
               /\ s[i].kind = key /\ \A k \in 1 .. Len(s) : s[k].kind = key => i <= k
               /\ Len(u) = Len(s)
               /\ \A k \in 1 .. Len(s) : u[k] = IF k = i THEN f ELSE s[k]
  BY <1>1, <1>2, <1>3
<1>5. i = j
  BY <1>2, <1>3, <1>4
<1>6. \A k \in 1 .. Len(u) : u[k] = s[k]
  BY <1>3, <1>4, <1>5
<1>7. u = s
  BY <1>1, <1>4, <1>6, SeqEqual
<1> QED BY <1>7 DEF u

\* The places of the entries of some kinds.
KindsAt(kinds, s) == {k \in 1 .. Len(s) : s[k].kind \in kinds}

LEMMA UpsertCounts ==
    ASSUME NEW s \in Seq(Entry), NEW key \in {"date", "generated"}, NEW kinds
    PROVE  LET u == Upsert(s, key) IN
           /\ key \notin kinds => KindsAt(kinds, u) = KindsAt(kinds, s)
           /\ (key \in kinds /\ \A k \in KindsAt(kinds, s) : s[k].kind = key)
                => \/ KindsAt(kinds, s) # {} /\ KindsAt(kinds, u) = KindsAt(kinds, s)
                   \/ KindsAt(kinds, u) = {Len(s) + 1}
<1> DEFINE u == Upsert(s, key)
           f == Field(key)
<1>1. /\ u \in Seq(Entry)
      /\ \/ /\ \A k \in 1 .. Len(s) : s[k].kind # key
            /\ u = Append(s, f) /\ Len(u) = Len(s) + 1
            /\ u[Len(s) + 1] = f /\ \A k \in 1 .. Len(s) : u[k] = s[k]
         \/ \E i \in 1 .. Len(s) :
               /\ s[i].kind = key /\ \A k \in 1 .. Len(s) : s[k].kind = key => i <= k
               /\ Len(u) = Len(s)
               /\ \A k \in 1 .. Len(s) : u[k] = IF k = i THEN f ELSE s[k]
  BY UpsertCases
<1>2. Len(s) \in Nat /\ f.kind = key
  BY FieldIsEntry
<1> HIDE DEF u, f
<1>3. CASE /\ \A k \in 1 .. Len(s) : s[k].kind # key
           /\ Len(u) = Len(s) + 1
           /\ u[Len(s) + 1] = f /\ \A k \in 1 .. Len(s) : u[k] = s[k]
  <2>1. ASSUME key \notin kinds, NEW k PROVE k \in KindsAt(kinds, u) <=> k \in KindsAt(kinds, s)
    BY <1>2, <1>3, <2>1 DEF KindsAt
  <2>2. ASSUME key \in kinds, \A k \in KindsAt(kinds, s) : s[k].kind = key, NEW k
        PROVE  k \in KindsAt(kinds, u) <=> k = Len(s) + 1
    BY <1>2, <1>3, <2>2 DEF KindsAt
  <2>3. key \notin kinds => KindsAt(kinds, u) = KindsAt(kinds, s)
    BY <2>1
  <2>4. (key \in kinds /\ \A k \in KindsAt(kinds, s) : s[k].kind = key) => KindsAt(kinds, u) = {Len(s) + 1}
    BY <2>2
  <2> QED BY <2>3, <2>4 DEF u
<1>4. ASSUME NEW i \in 1 .. Len(s), s[i].kind = key,
             Len(u) = Len(s), \A k \in 1 .. Len(s) : u[k] = IF k = i THEN f ELSE s[k]
      PROVE  /\ KindsAt(kinds, u) = KindsAt(kinds, s)
             /\ key \in kinds => KindsAt(kinds, s) # {}
  <2>1. \A k \in 1 .. Len(s) : u[k].kind = s[k].kind
    BY <1>2, <1>4
  <2> QED BY <1>4, <2>1 DEF KindsAt
<1> QED BY <1>1, <1>3, <1>4 DEF u

\* The kinds of the entries that are not the sink's.
UserKind == {"tag", "nested", "text"}
KeepUser(kinds, l) == IF l.kind \in UserKind THEN Append(kinds, l.kind) ELSE kinds
UserKinds(s) == FoldLeft(KeepUser, <<>>, s)

Keeping == INSTANCE FoldLemmas WITH op <- KeepUser

LEMMA UserKindsFold == \A s : UserKinds(s) = Keeping!Fold(<<>>, s)
BY DEF UserKinds, KeepUser, Keeping!Fold, Keeping!MapThenFoldSet, Keeping!Greatest,
       FoldLeft, MapThenFoldSet, Max

LEMMA UserEntriesFold == \A t : UserEntries(t) = UserKinds(FrontEntries(t))
BY DEF UserEntries, UserKinds, KeepUser, UserKind, FoldLeft, MapThenFoldSet

LEMMA UserKindsOfNothing == UserKinds(<<>>) = <<>>
BY UserKindsFold, Keeping!FoldLeftOfNothing

LEMMA UserKindsAppends ==
    ASSUME NEW T, NEW s \in Seq(T), NEW l \in T
    PROVE  UserKinds(Append(s, l)) =
             IF l.kind \in UserKind THEN Append(UserKinds(s), l.kind) ELSE UserKinds(s)
<1>1. Keeping!Fold(<<>>, Append(s, l)) = KeepUser(Keeping!Fold(<<>>, s), l)
  BY Keeping!FoldLeftAppends
<1> QED BY <1>1, UserKindsFold DEF KeepUser

\* Two lists of entries that differ only in entries of the sink's have the
\* same ones of the user's.
Alike(x, y) ==
    /\ Len(x) = Len(y)
    /\ \A k \in 1 .. Len(x) :
          /\ x[k].kind \in UserKind <=> y[k].kind \in UserKind
          /\ x[k].kind \in UserKind => x[k].kind = y[k].kind

LEMMA UserKindsAlike ==
    ASSUME NEW T, NEW x \in Seq(T), NEW y \in Seq(T), Alike(x, y)
    PROVE  UserKinds(x) = UserKinds(y)
<1> DEFINE G == {s \in Seq(T) : \A t \in Seq(T) : Alike(s, t) => UserKinds(s) = UserKinds(t)}
<1>1. <<>> \in G
  <2> SUFFICES ASSUME NEW t \in Seq(T), Alike(<<>>, t) PROVE UserKinds(<<>>) = UserKinds(t)
    BY EmptySeq
  <2>1. t = <<>>
    BY EmptySeq DEF Alike
  <2> QED BY <2>1
<1>2. ASSUME NEW s \in G, NEW e \in T PROVE Append(s, e) \in G
  <2>0. s \in Seq(T) /\ Append(s, e) \in Seq(T)
    BY AppendProperties
  <2> SUFFICES ASSUME NEW t \in Seq(T), Alike(Append(s, e), t)
               PROVE  UserKinds(Append(s, e)) = UserKinds(t)
    BY <2>0
  <2> DEFINE a == Append(s, e)
  <2>1. a \in Seq(T) /\ Len(a) = Len(s) + 1 /\ a[Len(s) + 1] = e /\ Len(s) \in Nat
        /\ \A k \in 1 .. Len(s) : a[k] = s[k]
    BY AppendProperties
  <2>2. Alike(a, t)
    OBVIOUS
  <2>3. UserKinds(a) = IF e.kind \in UserKind THEN Append(UserKinds(s), e.kind) ELSE UserKinds(s)
    BY <2>0, UserKindsAppends
  <2> HIDE DEF a
  <2>4. Len(t) = Len(s) + 1
    BY <2>1, <2>2 DEF Alike
  <2>5. PICK u \in Seq(T), d \in T : t = Append(u, d)
    <3>1. t # <<>>
      BY <2>1, <2>4
    <3> QED BY <3>1, SequenceEmptyOrAppend
  <2>6. Len(t) = Len(u) + 1 /\ t[Len(u) + 1] = d /\ Len(u) \in Nat
        /\ \A k \in 1 .. Len(u) : t[k] = u[k]
    BY <2>5, AppendProperties
  <2>7. Len(u) = Len(s)
    BY <2>1, <2>4, <2>6
  <2>8. Alike(s, u)
    BY <2>1, <2>2, <2>6, <2>7 DEF Alike
  <2>9. /\ e.kind \in UserKind <=> d.kind \in UserKind
        /\ e.kind \in UserKind => e.kind = d.kind
    <3>1. Len(a) \in 1 .. Len(a) /\ a[Len(a)] = e /\ t[Len(a)] = d
      BY <2>1, <2>6, <2>7
    <3> QED BY <2>2, <3>1 DEF Alike
  <2>10. UserKinds(t) = IF d.kind \in UserKind THEN Append(UserKinds(u), d.kind) ELSE UserKinds(u)
    BY <2>5, UserKindsAppends
  <2>11. UserKinds(s) = UserKinds(u)
    BY <2>8
  <2>12. UserKinds(a) = UserKinds(t)
    BY <2>3, <2>9, <2>10, <2>11
  <2> QED BY <2>12 DEF a
<1> HIDE DEF G
<1>3. G = Seq(T)
  <2>1. G \in SUBSET Seq(T)
    BY DEF G
  <2> QED BY <1>1, <1>2, <2>1, SeqInduction
<1> QED BY <1>3 DEF G

LEMMA UpsertUsers ==
    ASSUME NEW s \in Seq(Entry), NEW key \in {"date", "generated"}
    PROVE  UserKinds(Upsert(s, key)) = UserKinds(s)
<1> DEFINE u == Upsert(s, key)
           f == Field(key)
<1>1. /\ u \in Seq(Entry)
      /\ \/ /\ \A k \in 1 .. Len(s) : s[k].kind # key
            /\ u = Append(s, f) /\ Len(u) = Len(s) + 1
            /\ u[Len(s) + 1] = f /\ \A k \in 1 .. Len(s) : u[k] = s[k]
         \/ \E i \in 1 .. Len(s) :
               /\ s[i].kind = key /\ \A k \in 1 .. Len(s) : s[k].kind = key => i <= k
               /\ Len(u) = Len(s)
               /\ \A k \in 1 .. Len(s) : u[k] = IF k = i THEN f ELSE s[k]
  BY UpsertCases
<1>2. Len(s) \in Nat /\ f.kind = key /\ key \notin UserKind /\ f \in Entry
  BY FieldIsEntry DEF UserKind
<1> HIDE DEF u, f
<1>3. CASE u = Append(s, f)
  BY <1>2, <1>3, UserKindsAppends DEF u
<1>4. ASSUME NEW i \in 1 .. Len(s), s[i].kind = key,
             Len(u) = Len(s), \A k \in 1 .. Len(s) : u[k] = IF k = i THEN f ELSE s[k]
      PROVE  UserKinds(u) = UserKinds(s)
  <2>1. Alike(u, s)
    BY <1>2, <1>4 DEF Alike
  <2> QED BY <1>1, <2>1, UserKindsAlike
<1> QED BY <1>1, <1>3, <1>4 DEF u

\* Entries between two delimiters; the sink's keys put into entries.
Boxed(entries) == <<Plain("delim", "lf")>> \o entries \o <<Plain("delim", "lf")>>
Keyed(entries) == Upsert(Upsert(entries, "date"), "generated")

LEMMA MergeIsBoxed == \A x : Merge(x) = Boxed(Keyed(ParseFlat(x)))
BY DEF Merge, Boxed, Keyed

LEMMA KeyedFields ==
    ASSUME NEW s \in Seq(Entry)
    PROVE  /\ Keyed(s) \in Seq(Entry) /\ Keyed(Keyed(s)) = Keyed(s)
           /\ UserKinds(Keyed(s)) = UserKinds(s)
<1> DEFINE u == Upsert(s, "date")
           e == Keyed(s)
<1>1. u \in Seq(Entry) /\ Holds("date", u) /\ UserKinds(u) = UserKinds(s)
  BY UpsertCases, UpsertHolds, UpsertUsers
<1>2. e = Upsert(u, "generated")
  BY DEF Keyed
<1> HIDE DEF u, e
<1>3. e \in Seq(Entry) /\ Holds("generated", e) /\ UserKinds(e) = UserKinds(u)
  BY <1>1, <1>2, UpsertCases, UpsertHolds, UpsertUsers
<1>4. Holds("date", e)
  BY <1>1, <1>2, UpsertKeepsHolds
<1>5. Upsert(e, "date") = e /\ Upsert(e, "generated") = e
  BY <1>3, <1>4, UpsertSettles
<1>6. Keyed(e) = e
  BY <1>5 DEF Keyed
<1> QED BY <1>1, <1>3, <1>6 DEF e

LEMMA BoxedFields ==
    ASSUME NEW e \in Seq(Entry)
    PROVE  LET m == Boxed(e) IN
           /\ m \in Seq(FrontLine) /\ m # <<>> /\ Len(m) = Len(e) + 2
           /\ Fronted(m, Len(m)) /\ m[Len(m)].eol = "lf"
           /\ SubSeq(m, 2, Len(m) - 1) = e
           /\ ParseFlat(m) = e
<1> DEFINE d == Plain("delim", "lf")
           one == <<d>>
           x == one \o e
           m == x \o one
<1>1. d \in FrontLine /\ d.kind = "delim" /\ d.eol = "lf"
  BY PlainIsLine, FrontLineIsLine DEF FrontLine, NoteLine, Plain, Line, FrontKinds
<1>2. Boxed(e) = m
  BY DEF Boxed
<1> HIDE DEF d
<1>3. one \in Seq(FrontLine) /\ Len(one) = 1 /\ one[1] = d /\ e \in Seq(FrontLine) /\ Len(e) \in Nat
  BY <1>1, FrontLineIsLine, SeqMonotonic
<1> HIDE DEF one
<1>4. /\ x \in Seq(FrontLine) /\ Len(x) = 1 + Len(e) /\ x[1] = d
      /\ \A k \in 1 .. Len(e) : x[1 + k] = e[k]
  <2>1. /\ x \in Seq(FrontLine) /\ Len(x) = Len(one) + Len(e)
        /\ \A k \in 1 .. Len(one) + Len(e) : x[k] = IF k <= Len(one) THEN one[k] ELSE e[k - Len(one)]
    BY <1>3, ConcatProperties
  <2>2. ASSUME NEW k \in 1 .. Len(e) PROVE x[1 + k] = e[k]
    <3>1. 1 + k \in 1 .. Len(one) + Len(e) /\ ~(1 + k <= Len(one)) /\ 1 + k - Len(one) = k
      BY <1>3
    <3> QED BY <2>1, <3>1
  <2> QED BY <1>3, <2>1, <2>2
<1> HIDE DEF x
<1>5. /\ m \in Seq(FrontLine) /\ Len(m) = Len(e) + 2 /\ m[1] = d /\ m[Len(m)] = d
      /\ \A k \in 1 .. Len(e) : m[1 + k] = e[k]
  <2>1. /\ m \in Seq(FrontLine) /\ Len(m) = Len(x) + Len(one)
        /\ \A k \in 1 .. Len(x) + Len(one) : m[k] = IF k <= Len(x) THEN x[k] ELSE one[k - Len(x)]
    BY <1>3, <1>4, ConcatProperties
  <2>2. Len(m) = Len(e) + 2 /\ Len(m) - Len(x) = 1 /\ ~(Len(m) <= Len(x))
    BY <1>3, <1>4, <2>1
  <2>3. m[1] = d /\ m[Len(m)] = d
    BY <1>3, <1>4, <2>1, <2>2
  <2>4. ASSUME NEW k \in 1 .. Len(e) PROVE m[1 + k] = e[k]
    <3>1. 1 + k \in 1 .. Len(x) + Len(one) /\ 1 + k <= Len(x)
      BY <1>3, <1>4
    <3> QED BY <1>4, <2>1, <3>1
  <2> QED BY <2>1, <2>2, <2>3, <2>4
<1> HIDE DEF m
<1>6. \A k \in 1 .. Len(e) : e[k] \in Entry
  OBVIOUS
<1>7. Fronted(m, Len(m))
  <2>1. ASSUME NEW k \in 2 .. Len(m) - 1 PROVE m[k].kind # "delim"
    <3>1. k - 1 \in 1 .. Len(e) /\ m[k] = e[k - 1]
      BY <1>3, <1>5
    <3>2. e[k - 1] \in Entry
      BY <1>6, <3>1
    <3> QED BY <3>1, <3>2 DEF Entry
  <2> QED BY <1>1, <1>3, <1>5, <2>1 DEF Fronted
<1>8. SubSeq(m, 2, Len(m) - 1) = e
  <2> DEFINE y == SubSeq(m, 2, Len(m) - 1)
  <2>1. y \in Seq(FrontLine) /\ Len(y) = Len(e) /\ \A k \in 1 .. Len(e) : y[k] = m[k + 1]
    BY <1>3, <1>5
  <2> HIDE DEF y
  <2>2. y = e
    BY <1>3, <1>5, <2>1, SeqEqual
  <2> QED BY <2>2 DEF y
<1>9. ParseFlat(m) = e
  <2>1. m # <<>> /\ Head(m) = d
    BY <1>3, <1>5
  <2>2. ParseFlat(m) = [k \in 1 .. Len(m) - 2 |-> ParseEntry(m[k + 1])]
    BY <1>1, <2>1 DEF ParseFlat
  <2>3. \A k \in 1 .. Len(e) : ParseEntry(m[k + 1]) = e[k]
    BY <1>5, <1>6, EntryIsParsed
  <2>4. Len(m) - 2 = Len(e)
    BY <1>3, <1>5
  <2>5. ParseFlat(m) = [k \in 1 .. Len(e) |-> e[k]]
    BY <2>2, <2>3, <2>4
  <2> QED BY <2>5
<1>10. m # <<>>
  BY <1>3, <1>5
<1> QED BY <1>1, <1>2, <1>5, <1>7, <1>8, <1>9, <1>10

LEMMA FlatFields ==
    ASSUME NEW x \in Seq(FrontLine), x = <<>> \/ Fronted(x, Len(x))
    PROVE  LET p == ParseFlat(x) IN
           /\ p \in Seq(Entry)
           /\ \/ p = <<>> /\ (x = <<>> \/ x[1].eol = "crlf")
              \/ /\ x # <<>> /\ Fronted(x, Len(x)) /\ Len(p) = Len(x) - 2
                 /\ \A k \in 1 .. Len(p) : x[k + 1] \in FrontLine /\ x[k + 1].kind # "delim"
                                           /\ p[k] = ParseEntry(x[k + 1])
<1>1. CASE x = <<>> \/ x[1].eol = "crlf"
  <2>1. x # <<>> => Head(x) = x[1]
    OBVIOUS
  <2>2. ParseFlat(x) = <<>>
    BY <1>1, <2>1 DEF ParseFlat
  <2> QED BY <1>1, <2>2, EmptySeq
<1>2. CASE ~(x = <<>> \/ x[1].eol = "crlf")
  <2>1. x # <<>> /\ Head(x) = x[1] /\ Fronted(x, Len(x)) /\ Len(x) \in Nat
    BY <1>2
  <2>2. ParseFlat(x) = [k \in 1 .. Len(x) - 2 |-> ParseEntry(x[k + 1])]
    BY <1>2, <2>1 DEF ParseFlat
  <2>3. ASSUME NEW k \in 1 .. Len(x) - 2
        PROVE  x[k + 1] \in FrontLine /\ x[k + 1].kind # "delim" /\ ParseEntry(x[k + 1]) \in Entry
    <3>1. k + 1 \in 2 .. Len(x) - 1 /\ k + 1 \in 1 .. Len(x)
      BY <2>1
    <3>2. x[k + 1] \in FrontLine /\ x[k + 1].kind # "delim"
      BY <2>1, <3>1 DEF Fronted
    <3> QED BY <3>2, ParsedIsEntry
  <2>4. Len(x) - 2 \in Nat
    BY <2>1 DEF Fronted
  <2>5. ParseFlat(x) \in Seq(Entry) /\ Len(ParseFlat(x)) = Len(x) - 2
    BY <2>2, <2>3, <2>4
  <2> QED BY <2>1, <2>2, <2>3, <2>5
<1> QED BY <1>1, <1>2

LEMMA MergeFields ==
    ASSUME NEW x \in Seq(FrontLine), x = <<>> \/ Fronted(x, Len(x))
    PROVE  LET m == Merge(x)
               e == Keyed(ParseFlat(x)) IN
           /\ m \in Seq(FrontLine) /\ m # <<>> /\ Fronted(m, Len(m)) /\ m[Len(m)].eol = "lf"
           /\ Merge(m) = m
           /\ SubSeq(m, 2, Len(m) - 1) = e /\ e \in Seq(Entry)
<1> DEFINE p == ParseFlat(x)
           e == Keyed(p)
           m == Boxed(e)
<1>1. p \in Seq(Entry)
  BY FlatFields
<1> HIDE DEF p
<1>2. e \in Seq(Entry) /\ Keyed(e) = e
  BY <1>1, KeyedFields
<1> HIDE DEF e
<1>3. /\ m \in Seq(FrontLine) /\ m # <<>> /\ Fronted(m, Len(m)) /\ m[Len(m)].eol = "lf"
      /\ SubSeq(m, 2, Len(m) - 1) = e
      /\ ParseFlat(m) = e
  BY <1>2, BoxedFields
<1> HIDE DEF m
<1>4. Merge(x) = m /\ Merge(m) = m
  BY <1>2, <1>3, MergeIsBoxed DEF m, e, p
<1> QED BY <1>2, <1>3, <1>4 DEF e, p

\* What the user types before the first save: no marker and no fence.
FrontText(t) ==
    /\ t \in Seq(FrontLine)
    /\ \A k \in 1 .. Len(t) - 1 : t[k].eol # "none"

LEMMA FrontTextIsNote == ASSUME NEW t, FrontText(t) PROVE NoteOf(t)
<1>1. t \in Seq(NoteLine)
  BY FrontLineIsLine, SeqMonotonic DEF FrontText
<1>2. ASSUME NEW k \in 1 .. Len(t) - 1 PROVE t[k] \in WholeLine
  <2>1. k \in 1 .. Len(t)
    BY <1>1
  <2> QED BY <1>1, <2>1 DEF FrontText, WholeLine
<1> QED BY <1>1, <1>2 DEF NoteOf

\* All of it is prose.
LEMMA FrontParse == ASSUME NEW t \in Seq(FrontLine) PROVE AtEnd(t) = [ParserStart EXCEPT !.prose = t]
<1> DEFINE G == {s \in Seq(FrontLine) : AtEnd(s) = [ParserStart EXCEPT !.prose = s]}
<1>1. <<>> \in G
  <2> DEFINE none == <<>>
             w == [ParserStart EXCEPT !.prose = none]
  <2>1. none \in Seq(WholeLine) /\ none \in Seq(FrontLine) /\ AtEnd(none) = ParserStart
        /\ ParserStart \in StateOf(WholeLine)
    BY EmptySeq, AtEndOfNothing, StartIsState
  <2>2. /\ ParserStart.segments = <<>> /\ ParserStart.prose = none /\ ParserStart.open = None
        /\ ParserStart.body = <<>> /\ ParserStart.fence = None /\ ParserStart.error = FALSE
    BY DEF ParserStart
  <2> HIDE DEF none
  <2>3. /\ w \in StateOf(WholeLine) /\ w.segments = <<>> /\ w.prose = none /\ w.open = None
        /\ w.body = <<>> /\ w.fence = None /\ w.error = FALSE
    BY <2>1, StartWithProse
  <2> HIDE DEF w
  <2>4. ParserStart = w
    BY <2>1, <2>2, <2>3, StateEqual
  <2> QED BY <2>1, <2>4 DEF w, none
<1>2. ASSUME NEW s \in G, NEW l \in FrontLine PROVE Append(s, l) \in G
  <2> DEFINE a == Append(s, l)
             w == [ParserStart EXCEPT !.prose = s]
             v == [ParserStart EXCEPT !.prose = a]
             q == Keep(w, l)
  <2>1. s \in Seq(FrontLine) /\ AtEnd(s) = w /\ a \in Seq(FrontLine)
    BY AppendProperties
  <2>2. AtEnd(a) = ParseLine(w, l)
    BY <2>1, AtEndAppends
  <2>3. /\ w \in StateOf(FrontLine) /\ w.segments = <<>> /\ w.prose = s /\ w.open = None
        /\ w.body = <<>> /\ w.fence = None /\ w.error = FALSE
    BY <2>1, StartWithProse
  <2>4. /\ v \in StateOf(FrontLine) /\ v.segments = <<>> /\ v.prose = a /\ v.open = None
        /\ v.body = <<>> /\ v.fence = None /\ v.error = FALSE
    <3> HIDE DEF a
    <3> QED BY <2>1, StartWithProse
  <2>5. l.kind \notin Fences /\ l.kind \notin {"begin", "badbegin", "end"}
    BY DEF FrontLine, FrontKinds, Fences
  <2> HIDE DEF w, v
  <2>6. ParseLine(w, l) = q
    <3>1. ParseLine(w, l) = ParseMarkerLine(w, l)
      BY <2>3, <2>5 DEF ParseLine
    <3>2. ParseMarkerLine(w, l) = q
      BY <2>3, <2>5 DEF ParseMarkerLine
    <3> QED BY <3>1, <3>2
  <2>7. /\ q \in StateOf(FrontLine) /\ q.segments = <<>> /\ q.prose = a /\ q.open = None
        /\ q.body = <<>> /\ q.fence = None /\ q.error = FALSE
    <3>1. /\ q \in StateOf(FrontLine) /\ q.segments = w.segments
          /\ q.prose = (IF w.open = None THEN Append(w.prose, l) ELSE w.prose)
          /\ q.open = w.open
          /\ q.body = (IF w.open = None THEN w.body ELSE Append(w.body, l))
          /\ q.fence = w.fence /\ q.error = w.error
      <4>1. w \in StateOf(FrontLine) /\ l \in FrontLine
        BY <2>3
      <4> HIDE DEF a
      <4> QED BY ONLY <4>1, KeepFields
    <3>2. Append(w.prose, l) = a
      BY <2>3
    <3> QED BY <2>3, <3>1, <3>2
  <2> HIDE DEF q, a
  <2>8. q = v
    BY <2>4, <2>7, StateEqual
  <2>9. a \in Seq(FrontLine) /\ AtEnd(a) = v
    BY <2>1, <2>2, <2>6, <2>8
  <2> QED BY <2>9 DEF a, v
<1> HIDE DEF G
<1>3. G = Seq(FrontLine)
  <2>1. G \in SUBSET Seq(FrontLine)
    BY DEF G
  <2> QED BY <1>1, <1>2, <2>1, SeqInduction
<1> QED BY <1>3 DEF G

LEMMA FrontParts ==
    ASSUME NEW t, FrontText(t)
    PROVE  LET x == Split(t).front
               b == Split(t).body IN
           /\ x \in Seq(FrontLine) /\ FrontText(b)
           /\ \/ x = <<>> /\ b = t /\ Frontless(t)
              \/ x # <<>> /\ Fronted(x, Len(x)) /\ t # <<>> /\ x[1] = t[1]
           /\ \A k \in 1 .. Len(x) - 1 : x[k].eol # "none"
           /\ b # <<>> => \A k \in 1 .. Len(x) : x[k].eol # "none"
<1> DEFINE x == Split(t).front
           b == Split(t).body
<1>1. t \in Seq(FrontLine) /\ Len(t) \in Nat
  BY DEF FrontText
<1>2. CASE Frontless(t) /\ Split(t) = [front |-> <<>>, body |-> t]
  <2>1. x = <<>> /\ b = t
    BY <1>2
  <2> QED BY <1>2, <2>1, EmptySeq
<1>3. ASSUME NEW n \in 2 .. Len(t), Fronted(t, n),
             Split(t) = [front |-> SubSeq(t, 1, n), body |-> SubSeq(t, n + 1, Len(t))]
      PROVE  /\ x \in Seq(FrontLine) /\ FrontText(b)
             /\ x # <<>> /\ Fronted(x, Len(x)) /\ t # <<>> /\ x[1] = t[1]
             /\ \A k \in 1 .. Len(x) - 1 : x[k].eol # "none"
             /\ b # <<>> => \A k \in 1 .. Len(x) : x[k].eol # "none"
  <2>1. x = SubSeq(t, 1, n) /\ b = SubSeq(t, n + 1, Len(t))
    BY <1>3
  <2> HIDE DEF x, b
  <2>2. /\ x \in Seq(FrontLine) /\ Len(x) = n /\ \A k \in 1 .. n : x[k] = t[k]
    BY <1>1, <2>1
  <2>3. /\ b \in Seq(FrontLine) /\ Len(b) = Len(t) - n /\ \A k \in 1 .. Len(t) - n : b[k] = t[n + k]
    BY <1>1, <2>1
  <2>4. Fronted(x, Len(x)) /\ x # <<>> /\ t # <<>> /\ x[1] = t[1]
    BY <1>1, <1>3, <2>2 DEF Fronted
  <2>5. \A k \in 1 .. Len(t) - 1 : t[k].eol # "none"
    BY DEF FrontText
  <2>6. ASSUME NEW k \in 1 .. Len(b) - 1 PROVE b[k].eol # "none"
    <3>1. k \in 1 .. Len(t) - n /\ n + k \in 1 .. Len(t) - 1
      BY <1>1, <2>3
    <3> QED BY <2>3, <2>5, <3>1
  <2>7. ASSUME NEW k \in 1 .. Len(x) - 1 PROVE x[k].eol # "none"
    BY <1>1, <2>2, <2>5
  <2>8. ASSUME b # <<>>, NEW k \in 1 .. Len(x) PROVE x[k].eol # "none"
    <3>1. Len(b) # 0
      BY <2>3, <2>8
    <3>2. k \in 1 .. Len(t) - 1
      BY <1>1, <2>2, <2>3, <3>1
    <3> QED BY <2>2, <2>5, <3>2
  <2>9. FrontText(b)
    BY <2>3, <2>6 DEF FrontText
  <2> QED BY <2>2, <2>4, <2>7, <2>8, <2>9
<1> QED BY <1>1, <1>2, <1>3, SplitCases

\* The lines of the report's block.
LEMMA ReportLines ==
    ASSUME NEW day \in Days, NEW draft \in Drafts
    PROVE  LET r == RenderBlock(Report(day, draft)) IN
           /\ r = <<Line("begin", day, draft, "lf"), Plain("text", "lf"), Plain("end", "lf")>>
           /\ r \in Seq(WholeLine)
<1> DEFINE new == Report(day, draft)
<1>1. /\ new \in BlockSegment /\ new.day = day /\ new.draft = draft /\ new.eol = "lf"
      /\ new.lines = <<Plain("text", "lf")>>
  BY ReportIsBlock
<1> HIDE DEF new
<1>2. Separator(new) = <<>>
  <2>1. Last(new.lines) = Plain("text", "lf")
    BY <1>1 DEF Last
  <2>2. Last(new.lines).eol = "lf"
    BY <2>1 DEF Plain, Line
  <2> QED BY <1>1, <2>2 DEF Separator, Compatible
<1>3. RenderBlock(new) = <<Begin(new)>> \o new.lines \o Separator(new) \o <<Plain("end", new.eol)>>
  BY RenderBlockParts
<1>4. Begin(new) = Line("begin", day, draft, "lf")
  BY <1>1 DEF Begin
<1>5. RenderBlock(new) \in Seq(WholeLine)
  BY <1>1, RenderBlockIsWhole
<1> DEFINE b == Line("begin", day, draft, "lf")
           x == Plain("text", "lf")
           e == Plain("end", "lf")
<1>6. RenderBlock(new) = <<b>> \o <<x>> \o <<>> \o <<e>>
  BY <1>1, <1>2, <1>3, <1>4
<1> HIDE DEF b, x, e
<1>7. <<b>> \o <<x>> \o <<>> \o <<e>> = <<b, x, e>>
  <2> DEFINE T == {b, x, e}
  <2>1. <<b>> \in Seq(T) /\ <<b, x>> \in Seq(T) /\ b \in T /\ x \in T /\ e \in T
    OBVIOUS
  <2>2. Append(<<b>>, x) = <<b, x>> /\ Append(<<b, x>>, e) = <<b, x, e>>
    <3>1. Append(<<b>>, x) = <<b, x>>
      <4>1. Len(<<b>>) = 1 /\ Len(<<b, x>>) = 2 /\ <<b, x>>[1] = b /\ <<b, x>>[2] = x /\ <<b>>[1] = b
        OBVIOUS
      <4>2. /\ Append(<<b>>, x) \in Seq(T) /\ Len(Append(<<b>>, x)) = 2
            /\ Append(<<b>>, x)[1] = b /\ Append(<<b>>, x)[2] = x
        BY <2>1, <4>1, AppendProperties
      <4>3. \A k \in 1 .. 2 : k = 1 \/ k = 2
        OBVIOUS
      <4> QED BY <2>1, <4>1, <4>2, <4>3, SeqEqual
    <3>2. Append(<<b, x>>, e) = <<b, x, e>>
      <4>1. Len(<<b, x, e>>) = 3 /\ Len(<<b, x>>) = 2 /\ <<b, x>>[1] = b /\ <<b, x>>[2] = x
            /\ <<b, x, e>>[1] = b /\ <<b, x, e>>[2] = x /\ <<b, x, e>>[3] = e
            /\ <<b, x, e>> \in Seq(T)
        OBVIOUS
      <4>2. /\ Append(<<b, x>>, e) \in Seq(T) /\ Len(Append(<<b, x>>, e)) = 3
            /\ Append(<<b, x>>, e)[1] = b /\ Append(<<b, x>>, e)[2] = x /\ Append(<<b, x>>, e)[3] = e
        BY <2>1, <4>1, AppendProperties
      <4>3. \A k \in 1 .. 3 : k = 1 \/ k = 2 \/ k = 3
        OBVIOUS
      <4> QED BY <2>1, <4>1, <4>2, <4>3, SeqEqual
    <3> QED BY <3>1, <3>2
  <2> HIDE DEF T
  <2>3. <<b>> \o <<x>> = <<b, x>> /\ <<b, x>> \o <<e>> = <<b, x, e>>
    BY <2>1, <2>2, AppendIsConcat
  <2>4. <<b, x>> \o <<>> = <<b, x>>
    BY <2>1, ConcatEmptySeq
  <2> QED BY <2>3, <2>4
<1> QED BY <1>5, <1>6, <1>7 DEF new, b, x, e

LEMMA SaveUnder ==
    ASSUME NEW t, FrontText(t)
    PROVE  LET s == Saved(t, FrontDay, FrontDraft) IN
           /\ ~Malformed(t)
           /\ s = Terminated(t) \o RenderBlock(Report(FrontDay, FrontDraft))
           /\ s \in Seq(WholeLine) /\ s # <<>>
           /\ ~Malformed(s) /\ Saved(s, FrontDay, FrontDraft) = s
<1> DEFINE new == Report(FrontDay, FrontDraft)
           w == [ParserStart EXCEPT !.prose = t]
           none == <<>>
           s == Saved(t, FrontDay, FrontDraft)
<1>1. FrontDay \in Days /\ FrontDraft \in Drafts
  BY SomeReport DEF FrontDay, FrontDraft
<1>2. t \in Seq(FrontLine) /\ NoteOf(t) /\ AtEnd(t) = w
  BY FrontTextIsNote, FrontParse DEF FrontText
<1>3. /\ w.segments = none /\ w.prose = t /\ w.open = None
      /\ w.body = <<>> /\ w.fence = None /\ w.error = FALSE
  BY <1>2, StartWithProse
<1> HIDE DEF w
<1>4. ~Malformed(t) /\ ~EndsInFence(t)
  BY <1>2, <1>3 DEF Malformed, EndsInFence
<1>5. Parse(t) = Tailed(none, t)
  BY <1>2, <1>3, <1>4, ParsedNote
<1>6. none \in Seq(Segment) /\ new \in BlockSegment
  BY <1>1, EmptySeq, ReportIsBlock
<1>7. FirstBlockOf(new.day, none) = 0
  <2>1. FirstBlockOf(new.day, none) \in 0 .. Len(none) /\ Len(none) = 0
    BY <1>6, FirstOfPlaces
  <2> QED BY <2>1
<1>8. s = Render(Splice(Parse(t), new))
  BY DEF Saved
<1>9. Render(none) = <<>>
  BY RenderOfNothing
<1> HIDE DEF none, new
<1>10. s = <<>> \o Terminated(t) \o RenderBlock(new)
  BY <1>2, <1>5, <1>6, <1>7, <1>8, <1>9, SpliceMisses
<1>11. Terminated(t) \in Seq(WholeLine) /\ RenderBlock(new) \in Seq(WholeLine) /\ RenderBlock(new) # <<>>
  BY <1>2, <1>6, EndedIsWhole, RenderBlockIsWhole
<1>12. s = Terminated(t) \o RenderBlock(new) /\ s \in Seq(WholeLine) /\ s # <<>>
  <2> DEFINE e == Terminated(t)
             r == RenderBlock(new)
  <2>1. e \in Seq(WholeLine) /\ r \in Seq(WholeLine) /\ r # <<>> /\ s = <<>> \o e \o r
    BY <1>10, <1>11
  <2> HIDE DEF e, r, s
  <2>2. <<>> \o e = e
    BY <2>1, ConcatEmptySeq
  <2>3. e \o r \in Seq(WholeLine) /\ Len(e \o r) = Len(e) + Len(r) /\ Len(r) # 0 /\ Len(r) \in Nat
        /\ Len(e) \in Nat
    BY <2>1, ConcatProperties
  <2>4. e \o r # <<>>
    BY <2>3
  <2> QED BY <2>1, <2>2, <2>3, <2>4 DEF e, r
<1>13. ~Malformed(s) /\ Saved(s, FrontDay, FrontDraft) = s
  BY <1>1, <1>2, <1>4, SavedIsRefreshed DEF Refreshed
<1> QED BY <1>4, <1>12, <1>13 DEF new, s

LEMMA EndedKinds ==
    ASSUME NEW t, FrontText(t)
    PROVE  LET e == Terminated(t) IN
           /\ e \in Seq(WholeLine) /\ Len(e) = Len(t)
           /\ \A k \in 1 .. Len(t) : e[k].kind = t[k].kind
<1> DEFINE e == Terminated(t)
<1>1. t \in Seq(FrontLine) /\ NoteOf(t) /\ Len(t) \in Nat
  BY FrontTextIsNote DEF FrontText
<1>2. e \in Seq(WholeLine)
  BY <1>1, EndedIsWhole
<1>3. CASE t = <<>> \/ Last(t).eol # "none"
  BY <1>2, <1>3 DEF Terminated
<1>4. CASE t # <<>> /\ Last(t).eol = "none"
  <2> DEFINE m == [Last(t) EXCEPT !.eol = "lf"]
             n == Len(t)
  <2>1. e = ReplaceAt(t, n, m)
    BY <1>4 DEF Terminated
  <2>2. n \in 1 .. n /\ Last(t) = t[n] /\ Last(t) \in TextLine
    <3>1. n \in 1 .. n /\ Last(t) = t[n]
      BY <1>1, <1>4 DEF Last
    <3>2. t[n] \in FrontLine
      BY <1>1, <3>1
    <3> QED BY <3>1, <3>2 DEF FrontLine
  <2>3. m.kind = t[n].kind
    BY <2>2 DEF TextLine
  <2> HIDE DEF e, m
  <2>4. e = [k \in 1 .. n |-> IF k = n THEN m ELSE t[k]]
    <3>1. ReplaceAt(t, n, m) = [k \in 1 .. n |-> IF k = n THEN m ELSE t[k]]
      BY <1>1 DEF ReplaceAt
    <3> QED BY <2>1, <3>1
  <2>5. Len(e) = n
    BY <1>1, <1>2, <2>4
  <2> QED BY <1>2, <2>3, <2>4, <2>5 DEF e
<1> QED BY <1>3, <1>4

\* A note without a frontmatter gets none from the report.
LEMMA FrontlessStays ==
    ASSUME NEW t, FrontText(t), Frontless(t)
    PROVE  Frontless(Saved(t, FrontDay, FrontDraft))
<1> DEFINE e == Terminated(t)
           r == RenderBlock(Report(FrontDay, FrontDraft))
           s == Saved(t, FrontDay, FrontDraft)
           b == Line("begin", FrontDay, FrontDraft, "lf")
           x == Plain("text", "lf")
           z == Plain("end", "lf")
<1>1. s = e \o r /\ s \in Seq(WholeLine)
  BY SaveUnder
<1>2. r = <<b, x, z>> /\ r \in Seq(WholeLine)
  BY SomeReport, ReportLines DEF FrontDay, FrontDraft
<1>3. b.kind # "delim" /\ x.kind # "delim" /\ z.kind # "delim"
  BY DEF Plain, Line
<1>4. e \in Seq(WholeLine) /\ Len(e) = Len(t) /\ (\A k \in 1 .. Len(t) : e[k].kind = t[k].kind)
      /\ Len(t) \in Nat /\ t \in Seq(FrontLine)
  BY EndedKinds DEF FrontText
<1> HIDE DEF e, s
<1>5. Len(r) = 3 /\ \A k \in 1 .. 3 : r[k].kind # "delim"
  <2>1. r[1] = b /\ r[2] = x /\ r[3] = z /\ Len(r) = 3
    BY <1>2
  <2>2. \A k \in 1 .. 3 : k = 1 \/ k = 2 \/ k = 3
    OBVIOUS
  <2> HIDE DEF r, b, x, z
  <2> QED BY <1>3, <2>1, <2>2
<1> HIDE DEF r
<1>6. /\ Len(s) = Len(t) + 3
      /\ \A k \in 1 .. Len(t) : s[k].kind = t[k].kind
      /\ \A k \in 1 .. Len(s) : Len(t) < k => s[k].kind # "delim"
  <2>1. /\ Len(s) = Len(e) + Len(r)
        /\ \A k \in 1 .. Len(e) + Len(r) : s[k] = IF k <= Len(e) THEN e[k] ELSE r[k - Len(e)]
    BY <1>1, <1>2, <1>4, ConcatProperties
  <2>2. \A k \in 1 .. Len(t) : s[k].kind = t[k].kind
    BY <1>4, <1>5, <2>1
  <2>3. ASSUME NEW k \in 1 .. Len(s), Len(t) < k PROVE s[k].kind # "delim"
    <3>1. k - Len(e) \in 1 .. 3 /\ s[k] = r[k - Len(e)]
      BY <1>4, <1>5, <2>1, <2>3
    <3> QED BY <1>5, <3>1
  <2> QED BY <1>4, <1>5, <2>1, <2>2, <2>3
<1>7. CASE t = <<>>
  <2>1. \A k \in 2 .. Len(s) : Len(t) < k
    BY <1>7
  <2> QED BY <1>6, <2>1 DEF Frontless, s
<1>8. CASE t # <<>> /\ t[1].kind # "delim"
  <2>1. 1 \in 1 .. Len(t) /\ s[1].kind # "delim"
    BY <1>4, <1>6, <1>8
  <2> QED BY <2>1 DEF Frontless, s
<1>9. CASE t # <<>> /\ t[1].eol = "none"
  <2>1. Len(t) = 1
    BY <1>4, <1>9 DEF FrontText
  <2>2. \A k \in 2 .. Len(s) : Len(t) < k
    BY <2>1
  <2> QED BY <1>6, <2>2 DEF Frontless, s
<1>10. CASE \A k \in 2 .. Len(t) : t[k].kind # "delim"
  <2>1. ASSUME NEW k \in 2 .. Len(s) PROVE s[k].kind # "delim"
    <3>1. CASE k <= Len(t)
      BY <1>4, <1>6, <1>10, <3>1
    <3>2. CASE Len(t) < k
      BY <1>6, <3>2
    <3> QED BY <1>4, <1>6, <3>1, <3>2
  <2> QED BY <2>1 DEF Frontless, s
<1> QED BY <1>7, <1>8, <1>9, <1>10 DEF Frontless

\* The first save, where it does not write into the closing delimiter's line.
LEMMA FirstSave ==
    ASSUME NEW t, FrontText(t),
           want \/ ~(Split(t).front # <<>> /\ Last(Split(t).front).eol = "none")
    PROVE  LET x == Split(t).front IN
           /\ Split(Composed(t)) = [front |-> IF want THEN Merge(x) ELSE x,
                                    body |-> Saved(Split(t).body, FrontDay, FrontDraft)]
           /\ Composed(Composed(t)) = Composed(t)
           /\ Saved(Split(Composed(t)).body, FrontDay, FrontDraft) = Split(Composed(t)).body
           /\ want => Merge(x) # <<>>
<1> DEFINE x == Split(t).front
           b == Split(t).body
           s == Saved(b, FrontDay, FrontDraft)
           a == IF want THEN Merge(x) ELSE x
           n == Composed(t)
<1>1. /\ x \in Seq(FrontLine) /\ FrontText(b)
      /\ \/ x = <<>> /\ b = t /\ Frontless(t)
         \/ x # <<>> /\ Fronted(x, Len(x)) /\ t # <<>> /\ x[1] = t[1]
  BY FrontParts
<1>2. n = Concat(a, s)
  BY DEF Composed
<1>3. want \/ ~(x # <<>> /\ Last(x).eol = "none")
  OBVIOUS
<1> HIDE DEF x, b
<1>4. /\ s \in Seq(WholeLine) /\ s # <<>> /\ Saved(s, FrontDay, FrontDraft) = s
  BY <1>1, SaveUnder
<1>5. /\ Merge(x) \in Seq(FrontLine) /\ Merge(x) # <<>> /\ Fronted(Merge(x), Len(Merge(x)))
      /\ Merge(x)[Len(Merge(x))].eol = "lf" /\ Merge(Merge(x)) = Merge(x)
  BY <1>1, MergeFields
<1>6. /\ a \in Seq(FrontLine) /\ (want => Merge(a) = a)
      /\ \/ a = <<>> /\ x = <<>> /\ ~want
         \/ a # <<>> /\ Fronted(a, Len(a)) /\ Last(a).eol # "none"
  <2>1. CASE want
    <3>1. Last(Merge(x)) = Merge(x)[Len(Merge(x))]
      BY DEF Last
    <3> QED BY <1>5, <2>1, <3>1
  <2>2. CASE ~want
    BY <1>1, <1>3, <2>2
  <2> QED BY <2>1, <2>2
<1>7. Composed(n) = Concat(IF want THEN Merge(Split(n).front) ELSE Split(n).front,
                           Saved(Split(n).body, FrontDay, FrontDraft))
  BY DEF Composed
<1> HIDE DEF a, n
<1>8. Split(n) = [front |-> a, body |-> s]
  <2>1. CASE a = <<>> /\ x = <<>> /\ ~want
    <3>1. b = t /\ Frontless(b) /\ Frontless(s)
      BY <1>1, <2>1, FrontlessStays
    <3> HIDE DEF s
    <3>2. <<>> \o s = s
      BY <1>4, ConcatEmptySeq
    <3>3. n = s
      BY <1>2, <2>1, <3>2 DEF Concat
    <3>4. Split(s) = [front |-> <<>>, body |-> s]
      BY <1>4, <3>1, SplitFrontless
    <3> QED BY <2>1, <3>3, <3>4
  <2>2. CASE a # <<>> /\ Fronted(a, Len(a)) /\ Last(a).eol # "none"
    <3> HIDE DEF s
    <3>1. n = a \o s
      BY <1>2, <2>2 DEF Concat
    <3>2. a \in Seq(NoteLine) /\ s \in Seq(NoteLine)
      BY <1>4, <1>6, FrontLineIsLine, WholeLineIsLine, SeqMonotonic
    <3>3. Split(a \o s) = [front |-> a, body |-> s]
      BY <2>2, <3>2, SplitFronted
    <3> QED BY <3>1, <3>3
  <2> QED BY <1>6, <2>1, <2>2
<1> HIDE DEF s
<1>9. Split(n).front = a /\ Split(n).body = s
  BY <1>8
<1>10. Composed(n) = n
  BY <1>2, <1>4, <1>6, <1>7, <1>9
<1> QED BY <1>4, <1>5, <1>8, <1>9, <1>10 DEF a, n, s, x, b

\* The end marker of a report written into the closing delimiter's line begins
\* no block.
LEMMA LostFront ==
    ASSUME NEW t, FrontText(t), ~want,
           Split(t).front # <<>>, Last(Split(t).front).eol = "none"
    PROVE  Malformed(Split(Composed(t)).body)
<1> DEFINE x == Split(t).front
           b == Split(t).body
           s == Saved(b, FrontDay, FrontDraft)
           r == RenderBlock(Report(FrontDay, FrontDraft))
           g == Line("begin", FrontDay, FrontDraft, "lf")
           w == Plain("text", "lf")
           z == Plain("end", "lf")
           n == Composed(t)
<1>1. /\ x \in Seq(FrontLine) /\ FrontText(b) /\ x # <<>> /\ Fronted(x, Len(x))
      /\ b # <<>> => \A k \in 1 .. Len(x) : x[k].eol # "none"
      /\ \A k \in 1 .. Len(x) - 1 : x[k].eol # "none"
  BY FrontParts
<1>2. Last(x).eol = "none" /\ Last(x) = x[Len(x)]
  BY DEF Last
<1>3. n = Concat(x, s)
  BY DEF Composed
<1> HIDE DEF x, b
<1>4. b = <<>>
  <2>1. Len(x) \in 1 .. Len(x)
    BY <1>1
  <2> QED BY <1>1, <1>2, <2>1
<1>5. s = Terminated(b) \o r
  BY <1>1, SaveUnder
<1>6. r = <<g, w, z>> /\ r \in Seq(WholeLine)
  BY SomeReport, ReportLines DEF FrontDay, FrontDraft
<1>7. s = <<g, w, z>>
  <2>1. Terminated(b) = <<>>
    BY <1>4 DEF Terminated
  <2>2. <<>> \o r = r
    BY <1>6, ConcatEmptySeq
  <2> QED BY <1>5, <1>6, <2>1, <2>2
<1>8. g.eol = "lf" /\ w \in FrontLine /\ w.kind = "text" /\ z.kind = "end" /\ z \in NoteLine
  <2>1. w \in NoteLine /\ z \in NoteLine
    BY PlainIsLine DEF LineKinds
  <2> QED BY <2>1 DEF Line, Plain, FrontLine, NoteLine, FrontKinds
<1> DEFINE f == Front(x)
           y == <<w, w, z>>
           pre == Append(Append(f, w), w)
<1>9. n = f \o <<w>> \o <<w, z>>
  <2> HIDE DEF s, n
  <2>1. s # <<>> /\ Head(s) = g /\ Tail(s) = <<w, z>>
    <3> HIDE DEF g, w, z
    <3> QED BY <1>7
  <2>2. n = Front(x) \o <<Plain("text", Head(s).eol)>> \o Tail(s)
    BY <1>1, <1>2, <1>3, <2>1 DEF Concat
  <2>3. Plain("text", Head(s).eol) = w
    BY <1>8, <2>1
  <2> QED BY <2>1, <2>2, <2>3
<1> HIDE DEF g, w, z, n, s
<1>10. f \in Seq(FrontLine) /\ Len(f) = Len(x) - 1 /\ Len(x) \in 2 .. Len(x) /\ \A k \in 1 .. Len(f) : f[k] = x[k]
  BY <1>1 DEF Front, Fronted
<1> HIDE DEF f
<1>11. /\ Append(f, w) \in Seq(FrontLine) /\ pre \in Seq(FrontLine) /\ Len(pre) = Len(x) + 1
       /\ \A k \in 1 .. Len(f) : pre[k] = f[k]
       /\ pre[Len(x)] = w /\ pre[Len(x) + 1] = w
  <2> DEFINE c == Append(f, w)
  <2>1. c \in Seq(FrontLine) /\ Len(c) = Len(x) /\ c[Len(x)] = w /\ \A k \in 1 .. Len(f) : c[k] = f[k]
    BY <1>8, <1>10, AppendProperties
  <2> HIDE DEF c
  <2>2. Append(c, w) \in Seq(FrontLine) /\ Len(Append(c, w)) = Len(x) + 1 /\ Append(c, w)[Len(x) + 1] = w
        /\ \A k \in 1 .. Len(c) : Append(c, w)[k] = c[k]
    BY <1>8, <2>1, AppendProperties
  <2> QED BY <1>10, <2>1, <2>2 DEF c
<1>12. n = Append(pre, z)
  <2> DEFINE c == Append(f, w)
             two == <<w, z>>
             one == <<w>>
  <2>1. f \o <<w>> = c /\ c \in Seq(NoteLine) /\ w \in NoteLine /\ c \o <<w>> = Append(c, w)
    <3>1. f \in Seq(NoteLine) /\ w \in NoteLine
      BY <1>8, <1>10, FrontLineIsLine, SeqMonotonic
    <3>2. f \o <<w>> = c /\ c \in Seq(NoteLine)
      BY <3>1, AppendIsConcat, AppendProperties
    <3> HIDE DEF c
    <3>3. c \o <<w>> = Append(c, w)
      BY <3>1, <3>2, AppendIsConcat
    <3> QED BY <3>1, <3>2, <3>3
  <2>2. one \in Seq(NoteLine) /\ Len(one) = 1 /\ one[1] = w
    BY <2>1
  <2>3. two \in Seq(NoteLine) /\ Len(two) = 2 /\ two[1] = w /\ two[2] = z
    BY <1>8, <2>1
  <2> HIDE DEF one, two
  <2>4. Append(one, z) = two
    <3>1. Append(one, z) \in Seq(NoteLine) /\ Len(Append(one, z)) = 2
          /\ Append(one, z)[1] = w /\ Append(one, z)[2] = z
      <4>1. Append(one, z) \in Seq(NoteLine) /\ Len(Append(one, z)) = Len(one) + 1
            /\ Append(one, z)[Len(one) + 1] = z
            /\ \A k \in 1 .. Len(one) : Append(one, z)[k] = one[k]
        <5>1. one \in Seq(NoteLine) /\ z \in NoteLine
          BY <1>8, <2>2
        <5> QED BY ONLY <5>1, AppendProperties
      <4>2. 1 \in 1 .. Len(one) /\ Len(one) + 1 = 2
        BY <2>2
      <4> QED BY <2>2, <4>1, <4>2
    <3>2. \A k \in 1 .. 2 : k = 1 \/ k = 2
      OBVIOUS
    <3> QED BY <2>3, <3>1, <3>2, SeqEqual
  <2> HIDE DEF c
  <2>5. c \o Append(one, z) = Append(c \o one, z)
    BY <1>8, <2>1, <2>2, AppendToConcat
  <2>6. n = c \o two
    BY <1>9, <2>1 DEF two
  <2> QED BY <2>1, <2>4, <2>5, <2>6 DEF c, one
<1> HIDE DEF pre
<1>13. /\ n \in Seq(NoteLine) /\ Len(n) = Len(x) + 2 /\ n[Len(x) + 2] = z
       /\ \A k \in 1 .. Len(x) + 1 : n[k] = pre[k]
  <2>1. pre \in Seq(NoteLine)
    BY <1>11, FrontLineIsLine, SeqMonotonic
  <2> QED BY <1>8, <1>10, <1>11, <1>12, <2>1, AppendProperties
<1>14. Frontless(n)
  <2>1. ASSUME NEW k \in 2 .. Len(n) PROVE n[k].kind # "delim"
    <3>1. CASE k = Len(x) + 2
      BY <1>8, <1>13, <3>1
    <3>2. CASE k = Len(x) + 1 \/ k = Len(x)
      BY <1>8, <1>10, <1>11, <1>13, <3>2
    <3>3. CASE k \notin {Len(x), Len(x) + 1, Len(x) + 2}
      <4>1. k \in 2 .. Len(x) - 1 /\ n[k] = x[k]
        BY <1>10, <1>11, <1>13, <3>3
      <4> QED BY <1>1, <4>1 DEF Fronted
    <3> QED BY <3>1, <3>2, <3>3
  <2> QED BY <2>1 DEF Frontless
<1>15. Split(n).body = n
  <2>1. Split(n) = [front |-> <<>>, body |-> n]
    BY <1>13, <1>14, SplitFrontless
  <2> QED BY <2>1
<1>16. AtEnd(n).error
  <2> DEFINE v == [ParserStart EXCEPT !.prose = pre]
             T == NoteLine
  <2>1. AtEnd(pre) = v /\ v.open = None /\ v.fence = None /\ v.error = FALSE /\ v \in StateOf(FrontLine)
    BY <1>11, FrontParse, StartWithProse
  <2>2. pre \in Seq(NoteLine)
    BY <1>11, FrontLineIsLine, SeqMonotonic
  <2>3. AtEnd(Append(pre, z)) = ParseLine(AtEnd(pre), z)
    BY <1>8, <2>2, AtEndAppends
  <2> HIDE DEF v
  <2>4. ParseLine(v, z) = Fail(v)
    <3>1. z.kind \notin Fences /\ z.kind # "begin" /\ z.kind \in {"badbegin", "end"}
      BY <1>8 DEF Fences
    <3>2. ParseLine(v, z) = ParseMarkerLine(v, z)
      BY <2>1, <3>1 DEF ParseLine
    <3>3. ParseMarkerLine(v, z) = Fail(v)
      BY <2>1, <3>1 DEF ParseMarkerLine
    <3> QED BY <3>2, <3>3
  <2>5. Fail(v).error
    BY <2>1, FailFields
  <2> QED BY <1>12, <2>1, <2>3, <2>4, <2>5
<1> QED BY <1>15, <1>16 DEF Malformed, n

LEMMA HowManyAt ==
    ASSUME NEW kinds, NEW t, NEW T, FrontEntries(t) \in Seq(T)
    PROVE  /\ HowMany(kinds, t) = Cardinality(KindsAt(kinds, FrontEntries(t)))
           /\ HowMany(kinds, t) = 0 => KindsAt(kinds, FrontEntries(t)) = {}
<1> DEFINE e == FrontEntries(t)
           K == KindsAt(kinds, e)
<1>1. {i \in DOMAIN e : e[i].kind \in kinds} = K
  BY DEF KindsAt
<1>2. IsFiniteSet(1 .. Len(e)) /\ K \subseteq 1 .. Len(e)
  <2>1. Len(e) \in Nat
    OBVIOUS
  <2> HIDE DEF e
  <2> QED BY <2>1, FS_Interval DEF KindsAt
<1>3. IsFiniteSet(K)
  BY <1>2, FS_Subset
<1>4. Cardinality(K) = 0 => K = {}
  BY <1>3, FS_EmptySet
<1> QED BY <1>1, <1>4 DEF HowMany

\* The entries before and after a save with the frontmatter on.
LEMMA EntriesAfter ==
    ASSUME NEW t, FrontText(t), NEW n, FrontOf(n) = Merge(FrontOf(t))
    PROVE  LET p == ParseFlat(FrontOf(t))
               i == FrontEntries(t) IN
           /\ FrontEntries(n) = Keyed(p) /\ Keyed(p) \in Seq(Entry) /\ p \in Seq(Entry)
           /\ i \in Seq(FrontLine)
           /\ \/ p = <<>> /\ (i = <<>> \/ (t # <<>> /\ t[1].eol = "crlf"))
              \/ /\ Len(p) = Len(i)
                 /\ \A k \in 1 .. Len(p) : i[k] \in FrontLine /\ i[k].kind # "delim"
                                           /\ p[k] = ParseEntry(i[k])
<1> DEFINE x == FrontOf(t)
           p == ParseFlat(x)
           i == FrontEntries(t)
           m == Merge(x)
<1>1. /\ x \in Seq(FrontLine) /\ (x = <<>> \/ Fronted(x, Len(x)))
      /\ x # <<>> => t # <<>> /\ x[1] = t[1]
  BY FrontParts DEF FrontOf
<1>2. i = IF x = <<>> THEN <<>> ELSE SubSeq(x, 2, Len(x) - 1)
  BY DEF FrontEntries
<1>3. FrontEntries(n) = IF m = <<>> THEN <<>> ELSE SubSeq(m, 2, Len(m) - 1)
  BY DEF FrontEntries
<1> HIDE DEF x
<1>4. /\ m # <<>> /\ SubSeq(m, 2, Len(m) - 1) = Keyed(p) /\ Keyed(p) \in Seq(Entry)
  BY <1>1, MergeFields
<1>5. /\ p \in Seq(Entry)
      /\ \/ p = <<>> /\ (x = <<>> \/ x[1].eol = "crlf")
         \/ /\ x # <<>> /\ Fronted(x, Len(x)) /\ Len(p) = Len(x) - 2
            /\ \A k \in 1 .. Len(p) : x[k + 1] \in FrontLine /\ x[k + 1].kind # "delim"
                                      /\ p[k] = ParseEntry(x[k + 1])
  BY <1>1, FlatFields
<1> HIDE DEF i, m, p
<1>6. i \in Seq(FrontLine) /\ (x # <<>> => /\ Len(i) = Len(x) - 2
                                           /\ \A k \in 1 .. Len(i) : i[k] = x[k + 1])
  <2>1. CASE x = <<>>
    BY <1>2, <2>1, EmptySeq
  <2>2. CASE x # <<>>
    <3>1. i = SubSeq(x, 2, Len(x) - 1) /\ Len(x) \in Nat /\ Len(x) >= 2
      BY <1>1, <1>2, <2>2 DEF Fronted
    <3>2. i \in Seq(FrontLine) /\ Len(i) = Len(x) - 2
      <4>1. x \in Seq(FrontLine) /\ Len(x) - 1 <= Len(x) /\ 2 <= Len(x)
        BY <1>1, <3>1
      <4>2. \A k \in 2 .. Len(x) - 1 : x[k] \in FrontLine
        BY <1>1, <3>1
      <4> DEFINE h == Len(x) - 1
      <4>3. h \in Int /\ 2 \in Int /\ \A k \in 2 .. h : x[k] \in FrontLine
        BY <3>1, <4>2
      <4> HIDE DEF h
      <4>4. /\ SubSeq(x, 2, h) \in Seq(FrontLine)
            /\ Len(SubSeq(x, 2, h)) = IF 2 <= h THEN h - 2 + 1 ELSE 0
        BY ONLY <4>3, SubSeqProperties
      <4>5. (IF 2 <= h THEN h - 2 + 1 ELSE 0) = Len(x) - 2
        <5>1. h \in Int /\ h >= 1 /\ Len(x) - 2 = h - 1
          BY <3>1 DEF h
        <5> QED BY ONLY <5>1
      <4> QED BY <3>1, <4>4, <4>5 DEF h
    <3>3. ASSUME NEW k \in 1 .. Len(i) PROVE i[k] = x[k + 1]
      BY <1>1, <3>1, <3>2
    <3> QED BY <2>2, <3>2, <3>3
  <2> QED BY <2>1, <2>2
<1>7. \/ p = <<>> /\ (i = <<>> \/ (t # <<>> /\ t[1].eol = "crlf"))
      \/ /\ Len(p) = Len(i)
         /\ \A k \in 1 .. Len(p) : i[k] \in FrontLine /\ i[k].kind # "delim"
                                   /\ p[k] = ParseEntry(i[k])
  <2>1. CASE p = <<>> /\ x = <<>>
    BY <1>2, <2>1
  <2>2. CASE p = <<>> /\ x # <<>> /\ x[1].eol = "crlf"
    BY <1>1, <2>2
  <2>3. CASE /\ x # <<>> /\ Len(p) = Len(x) - 2
             /\ \A k \in 1 .. Len(p) : x[k + 1] \in FrontLine /\ x[k + 1].kind # "delim"
                                       /\ p[k] = ParseEntry(x[k + 1])
    BY <1>6, <2>3
  <2> QED BY <1>5, <2>1, <2>2, <2>3
<1> QED BY <1>3, <1>4, <1>5, <1>6, <1>7 DEF x, p, i

LEMMA CountsAfter ==
    ASSUME NEW t, FrontText(t), NEW n, FrontOf(n) = Merge(FrontOf(t)),
           NEW keys \in {{"date", "nesteddate"}, {"generated"}}
    PROVE  HowMany(keys, n) = 1 \/ HowMany(keys, n) = HowMany(keys, t)
<1> DEFINE p == ParseFlat(FrontOf(t))
           i == FrontEntries(t)
           u == Upsert(p, "date")
           e == Keyed(p)
<1>1. /\ FrontEntries(n) = e /\ e \in Seq(Entry) /\ p \in Seq(Entry) /\ i \in Seq(FrontLine)
      /\ \/ p = <<>>
         \/ /\ Len(p) = Len(i)
            /\ \A k \in 1 .. Len(p) : i[k] \in FrontLine /\ i[k].kind # "delim"
                                      /\ p[k] = ParseEntry(i[k])
  BY EntriesAfter
<1>2. e = Upsert(u, "generated")
  BY DEF Keyed
<1>3. HowMany(keys, n) = Cardinality(KindsAt(keys, e)) /\ HowMany(keys, t) = Cardinality(KindsAt(keys, i))
  BY <1>1, HowManyAt
<1> HIDE DEF p, i, e
<1>4. u \in Seq(Entry)
  BY <1>1, UpsertCases
<1>5. \A k \in 1 .. Len(p) : p[k].kind \in {"date", "generated", "tag", "text"}
  <2>1. \A k \in 1 .. Len(p) : p[k] \in Entry
    BY <1>1
  <2> QED BY <2>1 DEF Entry
<1>6. \A k \in 1 .. Len(u) : u[k].kind \in {"date", "generated", "tag", "text"}
  <2>1. \A k \in 1 .. Len(u) : u[k] \in Entry
    BY <1>4
  <2> QED BY <2>1 DEF Entry
<1>7. \/ KindsAt(keys, p) # {} /\ KindsAt(keys, e) = KindsAt(keys, p)
      \/ \E k : KindsAt(keys, e) = {k}
  <2>1. CASE keys = {"date", "nesteddate"}
    <3>1. "date" \in keys /\ "generated" \notin keys /\ \A k \in KindsAt(keys, p) : p[k].kind = "date"
      BY <1>5, <2>1 DEF KindsAt
    <3>2. \/ KindsAt(keys, p) # {} /\ KindsAt(keys, u) = KindsAt(keys, p)
          \/ KindsAt(keys, u) = {Len(p) + 1}
      BY <1>1, <3>1, UpsertCounts
    <3> HIDE DEF u
    <3>3. KindsAt(keys, e) = KindsAt(keys, u)
      BY <1>2, <1>4, <3>1, UpsertCounts
    <3> QED BY <3>2, <3>3
  <2>2. CASE keys = {"generated"}
    <3>1. "generated" \in keys /\ "date" \notin keys /\ \A k \in KindsAt(keys, u) : u[k].kind = "generated"
      BY <1>6, <2>2 DEF KindsAt
    <3>2. KindsAt(keys, u) = KindsAt(keys, p)
      BY <1>1, <3>1, UpsertCounts
    <3> HIDE DEF u
    <3>3. \/ KindsAt(keys, u) # {} /\ KindsAt(keys, e) = KindsAt(keys, u)
          \/ KindsAt(keys, e) = {Len(u) + 1}
      BY <1>2, <1>4, <3>1, UpsertCounts
    <3> QED BY <3>2, <3>3
  <2> QED BY <2>1, <2>2
<1>8. CASE \E k : KindsAt(keys, e) = {k}
  BY <1>3, <1>8, FS_Singleton
<1>9. CASE KindsAt(keys, p) # {} /\ KindsAt(keys, e) = KindsAt(keys, p)
  <2>1. p # <<>>
    BY <1>9 DEF KindsAt
  <2>2. Len(p) = Len(i) /\ \A k \in 1 .. Len(p) : i[k] \in FrontLine /\ i[k].kind # "delim"
                                                  /\ p[k] = ParseEntry(i[k])
    BY <1>1, <2>1
  <2>3. ASSUME NEW k \in 1 .. Len(p) PROVE p[k].kind \in keys <=> i[k].kind \in keys
    <3> DEFINE l == i[k]
               d == ParseEntry(l)
    <3>1. l \in FrontLine /\ l.kind # "delim" /\ p[k] = d
      BY <2>2
    <3> HIDE DEF l
    <3>2. /\ d.kind = "date" <=> l.kind \in {"date", "nesteddate"}
          /\ d.kind = "generated" <=> l.kind = "generated"
      BY <3>1, ParsedIsEntry
    <3>3. d.kind \in {"date", "generated", "tag", "text"}
      BY <1>5, <3>1
    <3> QED BY <3>1, <3>2, <3>3 DEF l
  <2>4. KindsAt(keys, p) = KindsAt(keys, i)
    BY <2>2, <2>3 DEF KindsAt
  <2> QED BY <1>3, <1>9, <2>4
<1> QED BY <1>7, <1>8, <1>9

LEMMA UsersAfter ==
    ASSUME NEW t, FrontText(t), NEW n, FrontOf(n) = Merge(FrontOf(t)),
           t # <<>> => t[1].eol # "crlf", HowMany({"nested"}, t) = 0
    PROVE  UserEntries(n) = UserEntries(t)
<1> DEFINE p == ParseFlat(FrontOf(t))
           i == FrontEntries(t)
           e == Keyed(p)
<1>1. /\ FrontEntries(n) = e /\ p \in Seq(Entry) /\ i \in Seq(FrontLine)
      /\ \/ p = <<>> /\ i = <<>>
         \/ /\ Len(p) = Len(i)
            /\ \A k \in 1 .. Len(p) : i[k] \in FrontLine /\ i[k].kind # "delim"
                                      /\ p[k] = ParseEntry(i[k])
  BY EntriesAfter
<1>2. KindsAt({"nested"}, i) = {}
  BY <1>1, HowManyAt
<1>3. UserEntries(n) = UserKinds(e) /\ UserEntries(t) = UserKinds(i)
  BY <1>1, UserEntriesFold
<1>4. UserKinds(e) = UserKinds(p)
  BY <1>1, KeyedFields
<1> HIDE DEF p, i, e
<1>5. UserKinds(p) = UserKinds(i)
  <2>1. CASE p = <<>> /\ i = <<>>
    BY <2>1
  <2>2. CASE Len(p) = Len(i) /\ \A k \in 1 .. Len(p) : i[k] \in FrontLine /\ i[k].kind # "delim"
                                                       /\ p[k] = ParseEntry(i[k])
    <3>1. ASSUME NEW k \in 1 .. Len(p)
          PROVE  /\ p[k].kind \in UserKind <=> i[k].kind \in UserKind
                 /\ p[k].kind \in UserKind => p[k].kind = i[k].kind
      <4> DEFINE l == i[k]
                 d == ParseEntry(l)
      <4>1. l \in FrontLine /\ l.kind # "delim" /\ p[k] = d
        BY <2>2
      <4>2. l.kind # "nested"
        BY <1>2, <2>2 DEF KindsAt
      <4> HIDE DEF l
      <4>3. /\ d.kind \in {"tag", "nested", "text"} <=> l.kind \in {"tag", "nested", "text"}
            /\ l.kind \in {"tag", "text"} => d.kind = l.kind
        BY <4>1, ParsedIsEntry
      <4> QED BY <4>1, <4>2, <4>3 DEF l, UserKind
    <3>2. Alike(p, i)
      BY <2>2, <3>1 DEF Alike
    <3>3. p \in Seq(FrontLine)
      BY <1>1, FrontLineIsLine, SeqMonotonic
    <3> QED BY <1>1, <3>2, <3>3, UserKindsAlike
  <2> QED BY <1>1, <2>1, <2>2
<1> QED BY <1>3, <1>4, <1>5

(***************************************************************************)
(* The saves of a note with a frontmatter                                  *)
(***************************************************************************)

\* write_one with the frontmatter on or off.
ComposedIf(on, t) ==
    Concat(IF on THEN Merge(Split(t).front) ELSE Split(t).front,
           Saved(Split(t).body, FrontDay, FrontDraft))

\* A save writes the same text again.
Stays(on, t) ==
    /\ ComposedIf(on, t) = t
    /\ Saved(Split(t).body, FrontDay, FrontDraft) = Split(t).body
    /\ on => Split(t).front # <<>>

FrontInv ==
    /\ editor \in Eols
    /\ stage = "typing" =>
         /\ FrontText(file)
         /\ \A k \in 1 .. Len(file) : file[k].eol \in {editor, "none"}
    /\ stage = "saved" => Malformed(Split(file).body) \/ Stays(want, file)

LEMMA ComposedIsIf == \A t : Composed(t) = ComposedIf(want, t)
BY DEF Composed, ComposedIf

LEMMA FrontInvStarts == FrontInit => FrontInv
<1> SUFFICES ASSUME FrontInit PROVE FrontInv
  OBVIOUS
<1>1. file = <<>> /\ editor \in Eols /\ stage = "typing"
  BY DEF FrontInit
<1>2. FrontText(<<>>)
  BY EmptySeq DEF FrontText
<1>3. FrontText(file) /\ \A k \in 1 .. Len(file) : file[k].eol \in {editor, "none"}
  BY <1>1, <1>2
<1> QED BY <1>1, <1>3 DEF FrontInv

LEMMA TypeKeepsFront == ASSUME FrontInv, TypeFront PROVE FrontInv'
<1>1. /\ stage = "typing" /\ stage' = "typing" /\ editor' = editor /\ editor \in {"lf", "crlf"}
      /\ editor \in Eols
      /\ FrontText(file) /\ \A k \in 1 .. Len(file) : file[k].eol \in {editor, "none"}
      /\ file # <<>> => Last(file).eol # "none"
  BY EolsAreKnown DEF FrontInv, TypeFront
<1>2. PICK kind \in FrontKinds, eol \in {editor, "none"} : file' = Append(file, Plain(kind, eol))
  BY DEF TypeFront
<1> DEFINE l == Plain(kind, eol)
<1>3. l \in FrontLine /\ l.eol = eol
  <2>1. l \in NoteLine
    BY <1>1, PlainIsLine
  <2> QED BY <2>1 DEF Plain, Line, FrontLine, NoteLine
<1>4. file \in Seq(FrontLine) /\ Len(file) \in Nat
  BY <1>1 DEF FrontText
<1>5. file' = Append(file, l)
  BY <1>2
<1> HIDE DEF l
<1>6. /\ file' \in Seq(FrontLine) /\ Len(file') = Len(file) + 1
      /\ \A k \in 1 .. Len(file) : file'[k] = file[k]
      /\ file'[Len(file) + 1] = l
  BY <1>3, <1>4, <1>5, AppendProperties
<1>7. ASSUME NEW k \in 1 .. Len(file') - 1 PROVE file'[k].eol # "none"
  <2>1. k \in 1 .. Len(file) /\ file'[k] = file[k]
    BY <1>4, <1>6
  <2>2. CASE k = Len(file)
    <3>1. Last(file) = file[k] /\ file # <<>>
      BY <1>4, <2>1, <2>2 DEF Last
    <3> QED BY <1>1, <2>1, <3>1
  <2>3. CASE k # Len(file)
    <3>1. k \in 1 .. Len(file) - 1
      BY <1>4, <2>1, <2>3
    <3> QED BY <1>1, <2>1, <3>1 DEF FrontText
  <2> QED BY <2>2, <2>3
<1>8. FrontText(file')
  BY <1>6, <1>7 DEF FrontText
<1>9. \A k \in 1 .. Len(file') : file'[k].eol \in {editor, "none"}
  BY <1>1, <1>2, <1>3, <1>4, <1>6
<1> QED BY <1>1, <1>8, <1>9 DEF FrontInv

LEMMA FirstSaveStays ==
    ASSUME FrontInv, stage = "typing"
    PROVE  LET n == ComposedIf(want, file) IN
           /\ Malformed(Split(n).body) \/ Stays(want, n)
           /\ (want \/ ~EndsAtDelimiter) =>
                /\ Stays(want, n)
                /\ Split(n).body = Saved(Split(file).body, FrontDay, FrontDraft)
                /\ Split(n).front = IF want THEN Merge(Split(file).front) ELSE Split(file).front
<1> DEFINE n == Composed(file)
<1>1. FrontText(file) /\ n = ComposedIf(want, file)
  BY ComposedIsIf DEF FrontInv
<1>2. CASE want \/ ~EndsAtDelimiter
  <2> DEFINE x == Split(file).front
  <2>1. /\ Split(n) = [front |-> IF want THEN Merge(x) ELSE x,
                       body |-> Saved(Split(file).body, FrontDay, FrontDraft)]
        /\ Composed(n) = n
        /\ Saved(Split(n).body, FrontDay, FrontDraft) = Split(n).body
        /\ want => Merge(x) # <<>>
    BY <1>1, <1>2, FirstSave DEF EndsAtDelimiter, FrontOf
  <2>2. ComposedIf(want, n) = Composed(n)
    BY ComposedIsIf
  <2> HIDE DEF n, x
  <2>3. Stays(want, n)
    BY <2>1, <2>2 DEF Stays
  <2> QED BY <1>1, <2>1, <2>3 DEF x
<1>3. CASE ~(want \/ ~EndsAtDelimiter)
  <2>1. Malformed(Split(n).body)
    BY <1>1, <1>3, LostFront DEF EndsAtDelimiter, FrontOf
  <2> HIDE DEF n
  <2> QED BY <1>1, <1>3, <2>1
<1> QED BY <1>2, <1>3

LEMMA WriteKeepsFront == ASSUME FrontInv, WriteOne PROVE FrontInv'
<1>1. editor' = editor /\ want' = want /\ editor \in Eols /\ stage \in {"typing", "saved"}
  BY DEF WriteOne, FrontInv
<1>2. CASE Malformed(Split(file).body)
  <2>1. stage' = "refused"
    BY <1>2 DEF WriteOne
  <2> QED BY <1>1, <2>1 DEF FrontInv
<1>3. CASE ~Malformed(Split(file).body)
  <2>1. file' = ComposedIf(want, file) /\ stage' = IF stage = "typing" THEN "saved" ELSE "twice"
    BY <1>3, ComposedIsIf DEF WriteOne
  <2>2. CASE stage = "typing"
    <3>1. Malformed(Split(file').body) \/ Stays(want, file')
      BY <2>1, <2>2, FirstSaveStays
    <3>2. stage' = "saved"
      BY <2>1, <2>2
    <3> QED BY <1>1, <3>1, <3>2 DEF FrontInv
  <2>3. CASE stage # "typing"
    <3>1. stage' = "twice"
      BY <2>1, <2>3
    <3> QED BY <1>1, <3>1 DEF FrontInv
  <2> QED BY <2>2, <2>3
<1> QED BY <1>2, <1>3

LEMMA FrontInvIsKept == FrontInv /\ [FrontNext]_frontVars => FrontInv'
<1>1. ASSUME FrontInv, UNCHANGED frontVars PROVE FrontInv'
  BY <1>1 DEF FrontInv, frontVars
<1> QED BY <1>1, TypeKeepsFront, WriteKeepsFront DEF FrontNext

\* What FrontmatterIsApart says of a step.
Apart ==
    FrontSaved /\ (want \/ ~EndsAtDelimiter) =>
         /\ Split(file').body = Saved(Split(file).body, FrontDay, FrontDraft)
         /\ Composed(file') = file'
         /\ ~want => FrontOf(file') = FrontOf(file)
         /\ want =>
              /\ FrontOf(file') # <<>>
              /\ \A keys \in {{"date", "nesteddate"}, {"generated"}} :
                   \/ HowMany(keys, file') = 1
                   \/ HowMany(keys, file') = HowMany(keys, file)
              /\ editor = "lf" /\ HowMany({"nested"}, file) = 0 =>
                   UserEntries(file') = UserEntries(file)

LEMMA FrontStepIsApart == FrontInv /\ [FrontNext]_frontVars => Apart
<1> SUFFICES ASSUME FrontInv, [FrontNext]_frontVars, FrontSaved, want \/ ~EndsAtDelimiter
             PROVE  /\ Split(file').body = Saved(Split(file).body, FrontDay, FrontDraft)
                    /\ Composed(file') = file'
                    /\ ~want => FrontOf(file') = FrontOf(file)
                    /\ want =>
                         /\ FrontOf(file') # <<>>
                         /\ \A keys \in {{"date", "nesteddate"}, {"generated"}} :
                              \/ HowMany(keys, file') = 1
                              \/ HowMany(keys, file') = HowMany(keys, file)
                         /\ editor = "lf" /\ HowMany({"nested"}, file) = 0 =>
                              UserEntries(file') = UserEntries(file)
  BY DEF Apart
<1>1. WriteOne
  <2>1. stage' # stage
    BY DEF FrontSaved
  <2>2. ~TypeFront
    BY <2>1 DEF TypeFront
  <2> QED BY <2>1, <2>2 DEF FrontNext, frontVars
<1>2. /\ stage \in {"typing", "saved"} /\ ~Malformed(Split(file).body)
      /\ file' = ComposedIf(want, file)
  BY <1>1, ComposedIsIf DEF WriteOne, FrontSaved
<1>3. CASE stage = "saved"
  <2>1. Stays(want, file)
    BY <1>2, <1>3 DEF FrontInv
  <2>2. file' = file
    BY <1>2, <2>1 DEF Stays
  <2>3. Composed(file') = file'
    BY <2>1, <2>2, ComposedIsIf DEF Stays
  <2> QED BY <2>1, <2>2, <2>3 DEF Stays, FrontOf
<1>4. CASE stage = "typing"
  <2>1. FrontText(file) /\ \A k \in 1 .. Len(file) : file[k].eol \in {editor, "none"}
    BY <1>4 DEF FrontInv
  <2>2. /\ Stays(want, file')
        /\ Split(file').body = Saved(Split(file).body, FrontDay, FrontDraft)
        /\ Split(file').front = IF want THEN Merge(Split(file).front) ELSE Split(file).front
    BY <1>2, <1>4, FirstSaveStays
  <2>3. Composed(file') = file'
    BY <2>2, ComposedIsIf DEF Stays
  <2>4. ASSUME want
        PROVE  /\ FrontOf(file') # <<>>
               /\ \A keys \in {{"date", "nesteddate"}, {"generated"}} :
                    \/ HowMany(keys, file') = 1
                    \/ HowMany(keys, file') = HowMany(keys, file)
               /\ editor = "lf" /\ HowMany({"nested"}, file) = 0 =>
                    UserEntries(file') = UserEntries(file)
    <3>1. FrontOf(file') = Merge(FrontOf(file))
      BY <2>2, <2>4 DEF FrontOf
    <3>2. FrontOf(file') # <<>>
      BY <2>2, <2>4 DEF FrontOf, Stays
    <3>3. \A keys \in {{"date", "nesteddate"}, {"generated"}} :
                    \/ HowMany(keys, file') = 1
                    \/ HowMany(keys, file') = HowMany(keys, file)
      BY <2>1, <3>1, CountsAfter
    <3>4. ASSUME editor = "lf", HowMany({"nested"}, file) = 0
          PROVE  UserEntries(file') = UserEntries(file)
      <4>1. ASSUME file # <<>> PROVE file[1].eol # "crlf"
        <5>1. file \in Seq(FrontLine)
          BY <2>1 DEF FrontText
        <5>2. 1 \in 1 .. Len(file)
          BY <4>1, <5>1
        <5> QED BY <2>1, <3>4, <5>2
      <4> QED BY <2>1, <3>1, <3>4, <4>1, UsersAfter
    <3> QED BY <3>2, <3>3, <3>4
  <2> QED BY <2>2, <2>3, <2>4 DEF FrontOf
<1> QED BY <1>2, <1>3, <1>4

(***************************************************************************)
(* The behaviours of a note, and of one with a frontmatter                 *)
(***************************************************************************)

\* The user and the saves only ever leave a note.
NoteInv == NoteOf(note)

LEMMA TypeKeepsNote == ASSUME NoteInv, NEW line \in UserLines, Type(line) PROVE NoteInv'
<1>1. line \in NoteLine
  <2>1. CASE \E k \in Kinds \ {"begin"}, e \in Eols \cup {"none"} : line = Plain(k, e)
    <3>1. PICK k \in Kinds \ {"begin"}, e \in Eols \cup {"none"} : line = Plain(k, e)
      BY <2>1
    <3>2. k \in LineKinds \cup FrontKinds /\ e \in {"lf", "crlf", "none"}
      BY KindsAreKnown, EolsAreKnown
    <3> QED BY <3>1, <3>2, PlainIsLine
  <2>2. CASE \E d \in Days, e \in Eols : line = Line("begin", d, None, e)
    <3>1. PICK d \in Days, e \in Eols : line = Line("begin", d, None, e)
      BY <2>2
    <3>2. d \in Days \cup {None} /\ None \in Drafts \cup {None} /\ e \in {"lf", "crlf"}
      BY EolsAreKnown
    <3>3. line \in WholeLine
      BY <3>1, <3>2, BeginIsLine
    <3> QED BY <3>3, WholeLineIsLine
  <2> QED BY <2>1, <2>2 DEF UserLines
<1>2. note \in Seq(NoteLine) /\ Len(note) \in Nat /\ \A k \in 1 .. Len(note) - 1 : note[k] \in WholeLine
  BY DEF NoteInv, NoteOf
<1>3. note' = Append(note, line) /\ (note # <<>> => Last(note).eol # "none")
  BY DEF Type
<1>4. /\ note' \in Seq(NoteLine) /\ Len(note') = Len(note) + 1
      /\ \A k \in 1 .. Len(note) : note'[k] = note[k]
  BY <1>1, <1>2, <1>3, AppendProperties
<1>5. ASSUME NEW k \in 1 .. Len(note') - 1 PROVE note'[k] \in WholeLine
  <2>1. k \in 1 .. Len(note) /\ note'[k] = note[k] /\ note[k] \in NoteLine
    BY <1>2, <1>4
  <2>2. CASE k = Len(note)
    <3>1. Last(note) = note[k] /\ note # <<>>
      BY <1>2, <2>1, <2>2 DEF Last
    <3> QED BY <1>3, <2>1, <3>1 DEF WholeLine
  <2>3. CASE k # Len(note)
    <3>1. k \in 1 .. Len(note) - 1
      BY <1>2, <2>1, <2>3
    <3> QED BY <1>2, <2>1, <3>1
  <2> QED BY <2>2, <2>3
<1> QED BY <1>4, <1>5 DEF NoteInv, NoteOf

LEMMA NoteInvIsKept == NoteInv /\ [NoteNext]_noteVars => NoteInv'
<1> SUFFICES ASSUME NoteInv, [NoteNext]_noteVars PROVE NoteInv'
  OBVIOUS
<1>1. CASE \E line \in UserLines : Type(line)
  BY <1>1, TypeKeepsNote
<1>2. ASSUME NEW day \in Days, NEW draft \in Drafts, SaveReport(day, draft) PROVE NoteInv'
  <2>1. ~Malformed(note) /\ note' = Saved(note, day, draft)
    BY <1>2 DEF SaveReport
  <2>2. NoteOf(Saved(note, day, draft))
    BY <2>1, SavedKeepsTheRest DEF NoteInv
  <2> QED BY <2>1, <2>2 DEF NoteInv
<1>3. CASE RefuseSave \/ UNCHANGED noteVars
  <2>1. note' = note
    BY <1>3 DEF RefuseSave, noteVars
  <2> QED BY <2>1 DEF NoteInv
<1> QED BY <1>1, <1>2, <1>3 DEF NoteNext

NoteSpec == NoteInit /\ [][NoteNext]_noteVars

\* markers.rs, splice and render, under any sequence of the user's lines and of
\* saves: a save changes one stretch of lines, and the same report saved again
\* changes nothing.
THEOREM SavedNotes == NoteSpec => SaveKeepsTheRest /\ SaveIsIdempotent
<1>1. NoteInit => NoteInv
  <2>1. NoteOf(<<>>)
    BY EmptySeq DEF NoteOf
  <2> QED BY <2>1 DEF NoteInit, NoteInv
<1>2. NoteSpec => []NoteInv
  BY <1>1, NoteInvIsKept, PTL DEF NoteSpec
<1>3. ASSUME NoteInv
      PROVE  \A day \in Days, draft \in Drafts : Saves(day, draft) =>
               \E i \in 0..Len(note) : \E j \in i..Len(note) :
                 /\ \/ i = Len(note)
                    \/ IsOneBlockOf(day, SubSeq(note, i + 1, j))
                 /\ Visible(note') =
                       Visible(SubSeq(note, 1, i) \o RenderBlock(Report(day, draft))
                                  \o SubSeq(note, j + 1, Len(note)))
  <2> SUFFICES ASSUME NEW day \in Days, NEW draft \in Drafts, Saves(day, draft)
               PROVE  \E i \in 0..Len(note) : \E j \in i..Len(note) :
                        /\ \/ i = Len(note)
                           \/ IsOneBlockOf(day, SubSeq(note, i + 1, j))
                        /\ Visible(note') =
                              Visible(SubSeq(note, 1, i) \o RenderBlock(Report(day, draft))
                                         \o SubSeq(note, j + 1, Len(note)))
    OBVIOUS
  <2>1. ~Malformed(note) /\ note' = Saved(note, day, draft)
    BY DEF Saves, SaveReport
  <2>2. Respected(note, day, draft)
    BY <1>3, <2>1, SavedKeepsTheRest DEF NoteInv
  <2> QED BY <2>1, <2>2 DEF Respected
<1>4. ASSUME NoteInv
      PROVE  \A day \in Days, draft \in Drafts :
               Saves(day, draft) /\ ~EndsInFence(note) =>
                 LET before == BlocksOf(day, note)
                     after  == BlocksOf(day, note')
                 IN  /\ \E i \in after : Parse(note')[i].draft = draft /\ \A j \in after : i <= j
                     /\ Cardinality(after) = IF before = {} THEN 1 ELSE Cardinality(before)
                     /\ Saved(note', day, draft) = note'
  <2> SUFFICES ASSUME NEW day \in Days, NEW draft \in Drafts,
                      Saves(day, draft), ~EndsInFence(note)
               PROVE  LET before == BlocksOf(day, note)
                          after  == BlocksOf(day, note')
                      IN  /\ \E i \in after : /\ Parse(note')[i].draft = draft
                                              /\ \A j \in after : i <= j
                          /\ Cardinality(after) = IF before = {} THEN 1 ELSE Cardinality(before)
                          /\ Saved(note', day, draft) = note'
    OBVIOUS
  <2>1. ~Malformed(note) /\ note' = Saved(note, day, draft)
    BY DEF Saves, SaveReport
  <2>2. Refreshed(note, day, draft)
    BY <1>4, <2>1, SavedIsRefreshed DEF NoteInv
  <2> QED BY <2>1, <2>2 DEF Refreshed
<1>5. NoteSpec => SaveKeepsTheRest
  BY <1>2, <1>3, PTL DEF SaveKeepsTheRest, NoteSpec
<1>6. NoteSpec => SaveIsIdempotent
  BY <1>2, <1>4, PTL DEF SaveIsIdempotent, NoteSpec
<1> QED BY <1>5, <1>6

FrontSpec == FrontInit /\ [][FrontNext]_frontVars

\* frontmatter.rs, and write_one of adapter.rs, whatever the user typed before
\* the first save: a save merges the sink's keys into the frontmatter, the report
\* goes into the rest alone, and the next save changes nothing.
THEOREM SavedFrontmatter == FrontSpec => FrontmatterIsApart
<1>1. FrontSpec => []FrontInv
  BY FrontInvStarts, FrontInvIsKept, PTL DEF FrontSpec
<1>2. FrontInv /\ [FrontNext]_frontVars => Apart
  BY FrontStepIsApart
<1>3. FrontSpec => [][Apart]_frontVars
  BY <1>1, <1>2, PTL DEF FrontSpec
<1> QED BY <1>3 DEF FrontmatterIsApart, Apart

(***************************************************************************)
(* The desktop                                                             *)
(***************************************************************************)

\* Desktop.tla's steps, seen from a note: its own, or none.
LEMMA SaveSteps ==
    ASSUME [DesktopNext]_desktopVars
    PROVE  [NoteNext]_noteVars /\ [FrontNext]_frontVars
<1>1. CASE UNCHANGED desktopVars
  BY <1>1 DEF desktopVars
<1>2. CASE DesktopNext
  BY <1>2 DEF DesktopNext, NotePart, FrontPart
<1> QED BY <1>1, <1>2

\* What a save leaves of a note (markers.rs, frontmatter.rs, adapter.rs:251-275):
\* all but one stretch of its lines, and its frontmatter but for the sink's keys;
\* the same save again leaves all of it.
THEOREM DesktopSaves == Spec => SaveKeepsTheNote
<1>1. DesktopInit => NoteInit /\ FrontInit
  BY DEF DesktopInit
<1>2. Spec => NoteSpec /\ FrontSpec
  BY <1>1, SaveSteps, PTL DEF Spec, NoteSpec, FrontSpec
<1> QED BY <1>2, SavedNotes, SavedFrontmatter DEF SaveKeepsTheNote

=============================================================================
