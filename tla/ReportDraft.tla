----------------------------- MODULE ReportDraft -----------------------------
(***************************************************************************)
(* From bullets to the sections of a draft, and to the headline and the    *)
(* groups a note shows (dayseam-report: render.rs, sections.rs;            *)
(* sink-markdown-file: markdown.rs, summary_chart.rs).  A section is       *)
(* [id, bullets]; its bullets are a set, for their order is a total order  *)
(* of the code that depends on nothing but their content.  A bullet has    *)
(* the kind of its source, or None.                                        *)
(***************************************************************************)
EXTENDS Activity

\* SourceKind::render_order
RenderOrder == <<"LocalGit", "GitHub", "GitLab", "Jira", "Confluence", "Outlook">>

Rank(kind) == SelectInSeq(RenderOrder, LAMBDA k : k = kind)

\* ReportSection::ALL; a section goes by the payload it is for.
AllSections ==
    <<"CommitSet", "MergeRequest", "Meeting", "JiraIssue", "ConfluencePage", "Unlinked">>

\* A bullet that cites no event.
Remark(section, text) ==
    [section |-> section, artifact |-> [of |-> <<text[1]>>, src |-> 0, date |-> 0],
     ids |-> {}, kind |-> None, text |-> text]

\* meetings_summary_bullet: nothing for no time.
SummaryBullets(minutes) ==
    IF minutes > 0 THEN {Remark("Meeting", <<"total", minutes>>)} ELSE {}

\* build_sections: the empty ones drop out.
BuildSections(bullets, minutes) ==
    LET own(id) == {b \in bullets : b.section = id}
        section(id) == [id |-> id,
                        bullets |-> own(id) \cup IF id = "Meeting" THEN SummaryBullets(minutes) ELSE {}]
    IN Flat([i \in DOMAIN AllSections |->
                IF own(AllSections[i]) = {} THEN <<>> ELSE <<section(AllSections[i])>>])

\* empty_section
EmptySection == [id |-> "CommitSet", bullets |-> {Remark("CommitSet", <<"no activity">>)}]

\* render_sync_issues: a bullet for every source that failed, none of a kind.
RenderSyncIssues(failed) ==
    IF failed = {} THEN <<>>
    ELSE << [id |-> "sync_issues",
             bullets |-> {Remark("sync_issues", <<"failed", s>>) : s \in failed}] >>

(***************************************************************************)
(* The note                                                                *)
(***************************************************************************)

\* group_bullets_by_kind: one subheading per kind, what has none at the end.
GroupBulletsByKind(bullets) ==
    LET of(kind) == {b \in bullets : b.kind = kind}
        kinds == SelectSeq(Append(RenderOrder, None), LAMBDA k : of(k) # {})
    IN [i \in DOMAIN kinds |-> [kind |-> kinds[i], bullets |-> of(kinds[i])]]

\* render_sections
RenderSections(sections) ==
    [i \in DOMAIN sections |->
        [id |-> sections[i].id, groups |-> GroupBulletsByKind(sections[i].bullets)]]

BulletsOf(sections) == UNION {sections[i].bullets : i \in DOMAIN sections}

\* aggregate_by_kind: how many bullets each kind has, the most first.
AggregateByKind(sections) ==
    LET n(kind) == Cardinality({b \in BulletsOf(sections) : b.kind = kind})
    IN SortSeq(SelectSeq([i \in DOMAIN RenderOrder |->
                            [kind |-> RenderOrder[i], n |-> n(RenderOrder[i])]],
                         LAMBDA c : c.n > 0),
               LAMBDA c, d : c.n > d.n \/ (c.n = d.n /\ Rank(c.kind) < Rank(d.kind)))

ClearLeaderPercent == 40

\* whole_percent, rounded half up.
WholePercent(n, total) == IF total = 0 THEN 0 ELSE (200 * n + total) \div (2 * total)

\* render_headline: how the day is put, and the kinds it names.
RenderHeadline(counts) ==
    LET total   == FoldLeft(LAMBDA acc, c : acc + c.n, 0, counts)
        top     == counts[1].n
        leaders == {counts[i].kind : i \in {j \in DOMAIN counts : counts[j].n = top}}
        named   == {counts[i].kind : i \in DOMAIN counts}
    IN CASE counts = <<>>      -> [put |-> "nothing", kinds |-> {}]
         [] Len(counts) = 1    -> [put |-> "all", kinds |-> named]
         [] Len(counts) > 1 /\ Cardinality(leaders) >= 2 /\ top >= 2
                               -> [put |-> "led", kinds |-> leaders]
         [] Len(counts) > 1 /\ ~(Cardinality(leaders) >= 2 /\ top >= 2)
              /\ WholePercent(top, total) >= ClearLeaderPercent
                               -> [put |-> "most", kinds |-> {counts[1].kind}]
         [] OTHER              -> [put |-> "spread", kinds |-> named]

(***************************************************************************)
(* The chart (summary_chart.rs), as it is put: which part of the ring a    *)
(* kind has, in which colour, and where its line of the legend stands.     *)
(***************************************************************************)

\* The accents, of a light and of a dark page.
ConnectorAccentLight ==
    [GitHub |-> "#24292F", GitLab |-> "#FC6D26", Jira |-> "#0052CC",
     Confluence |-> "#172B4D", LocalGit |-> "#F05032", Outlook |-> "#0078D4"]

ConnectorAccentDark ==
    [GitHub |-> "#F0F6FC", GitLab |-> "#FC6D26", Jira |-> "#4C9AFF",
     Confluence |-> "#2684FF", LocalGit |-> "#F05032", Outlook |-> "#0078D4"]

\* donut_paths: each slice starts where the one before ended; a slice that is
\* all there is is a ring, for an arc to where it starts would be none.
DonutPaths(sizes) ==
    LET upTo(i) == FoldLeft(LAMBDA acc, n : acc + n, 0, SubSeq(sizes, 1, i))
    IN [i \in DOMAIN sizes |->
          [from |-> upTo(i - 1), to |-> upTo(i), ring |-> sizes[i] = upTo(Len(sizes))]]

\* format_percent_legend, in tenths of a percent: none are shown from ten up.
FormatPercentLegend(n, total) ==
    IF total = 0 THEN 0
    ELSE IF 10 * n >= total THEN 10 * WholePercent(n, total)
    ELSE (2000 * n + total) \div (2 * total)

ViewBoxHeight == 100
LegendLineSpacing == 14

\* legend_row_baseline_y: the lines stand around the middle of the ring.
LegendRowBaselineY(row, rows) ==
    IF rows = 0 THEN ViewBoxHeight \div 2
    ELSE LET half == ((rows - 1) * LegendLineSpacing) \div 2
             first == IF half > ViewBoxHeight \div 2 THEN 0 ELSE ViewBoxHeight \div 2 - half
         IN first + (row - 1) * LegendLineSpacing

\* render_svg: a path and a line of the legend for every kind counted, and their
\* sum in the middle.
RenderSvg(counts, total) ==
    LET slices == DonutPaths([i \in DOMAIN counts |-> counts[i].n])
    IN [centre |-> total,
        rows |-> [i \in DOMAIN counts |->
                    [kind |-> counts[i].kind, slice |-> slices[i],
                     light |-> ConnectorAccentLight[counts[i].kind],
                     dark |-> ConnectorAccentDark[counts[i].kind],
                     share |-> FormatPercentLegend(counts[i].n, total),
                     y |-> LegendRowBaselineY(i, Len(counts))]]]

\* render_block: a note of nothing counted has neither headline nor chart.
RenderBlock(sections) ==
    LET counts == AggregateByKind(sections)
        total  == FoldLeft(LAMBDA acc, c : acc + c.n, 0, counts)
    IN IF total = 0 THEN <<>>
       ELSE <<RenderHeadline(counts), RenderSvg(counts, total)>>

=============================================================================
