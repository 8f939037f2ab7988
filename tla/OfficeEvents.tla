---------------------------- MODULE OfficeEvents ----------------------------
(***************************************************************************)
(* The events of Jira, Confluence and Outlook: the plain text of an        *)
(* Atlassian document, and what one issue, search hit or meeting becomes.  *)
(***************************************************************************)
EXTENDS Activity, TLC

(***************************************************************************)
(* connector-atlassian-common/src/adf.rs: the plain text of an Atlassian   *)
(* document.  A node is [type, text, id, array, content]: text a sequence  *)
(* of words (attrs.text, attrs.url or text; empty when absent), id what a  *)
(* mention also carries, content a sequence of nodes, which is empty where *)
(* the document has no array there.                                        *)
(***************************************************************************)

LOCAL NL == <<"\n">>
LOCAL Marker == <<"[unsupported content]">>

Ends(text) == text # <<>> /\ Last(text) = "\n"

\* One trailing newline is taken away.
Trimmed(text) == IF Ends(text) THEN Front(text) ELSE text

Closed(text) == IF Ends(text) THEN text ELSE text \o NL

RECURSIVE Walk(_)

\* A mention shows its text only: never the account's id.
Shown(node) == node.text

WalkContent(node) ==
    FoldLeft(LAMBDA acc, child : acc \o Walk(child), <<>>, node.content)

\* A list whose content is no array is a shape the code does not know.
WalkList(node) ==
    IF ~node.array THEN Marker
    ELSE FoldLeft(LAMBDA acc, item : acc \o <<"-">> \o Walk(item) \o NL, <<>>, node.content)

Walk(node) ==
    CASE node.type = "doc"                            -> WalkContent(node)
      [] node.type = "paragraph"                      -> WalkContent(node) \o NL
      [] node.type = "hardBreak"                      -> NL
      [] node.type \in {"bulletList", "orderedList"}  -> WalkList(node)
      [] node.type = "listItem"                       -> Trimmed(WalkContent(node))
      [] node.type = "codeBlock"  -> Closed(<<"fence">> \o NL \o WalkContent(node)) \o <<"fence">> \o NL
      [] node.type = "heading"                        -> <<"#">> \o WalkContent(node) \o NL
      [] node.type = "blockquote"                     -> Closed(<<">">> \o WalkContent(node))
      [] node.type = "rule"                           -> NL \o <<"ruler">> \o NL
      [] node.type \in {"text", "mention", "emoji", "inlineCard", "blockCard"} -> Shown(node)
      [] node.type \in {"media", "mediaGroup", "mediaSingle", "mediaInline"}   -> <<>>
      [] OTHER                                        -> Marker

AdfToPlain(doc) == Trimmed(Walk(doc))

(***************************************************************************)
(* What the text should be, said of the tree                               *)
(***************************************************************************)

Known == {"doc", "paragraph", "bulletList", "orderedList", "listItem", "codeBlock", "heading",
          "blockquote", "text", "mention", "emoji", "inlineCard", "blockCard"}

RECURSIVE WordsOf(_)

\* The words of the nodes that can be shown.
WordsOf(node) ==
    IF node.type \notin Known THEN {}
    ELSE ToSet(node.text) \cup UNION {WordsOf(c) : c \in ToSet(node.content)}

RECURSIVE IdsOf(_)

IdsOf(node) ==
    ToSet(node.id) \cup UNION {IdsOf(c) : c \in ToSet(node.content)}

(***************************************************************************)
(* connector-jira/src/normalise.rs and rollup.rs: one issue of a JQL page  *)
(* becomes the events of its changelog, comments and creation that the     *)
(* user did on the day.  An issue is a record                              *)
(*   [key, project, reporter, created, history, comments, lacks]           *)
(* in which history is a sequence of [who, at, field, from, to], one per   *)
(* changelog item, and comments of [id, who, at, body], body a document.   *)
(* lacks are the parts it comes without, of this row and those below.      *)
(***************************************************************************)

\* An issue without them is an error; whatever else is missing from it is not.
IssueShaped(issue) == issue.lacks \cap {"key", "fields", "project"} = {}

IssueEvent(src, issue, ext, kind, at, who) ==
    [Event(src, ext, kind, at, who)
        EXCEPT !.links  = {<<issue.project, "browse", issue.key>>},
               !.repo   = issue.project,
               !.item   = issue.key,
               !.parent = issue.key]

\* build_transition_event: a transition is known by the millisecond it ended.
TransitionEvent(src, issue, t) ==
    [IssueEvent(src, issue, <<"transition", issue.key, t.at>>, "JiraIssueTransitioned", t.at, Me)
        EXCEPT !.count = t.count]

AssignedEvent(src, issue, h) ==
    IssueEvent(src, issue, <<"assigned", issue.key, h.at>>, "JiraIssueAssigned", h.at, h.who)

UnassignedEvent(src, issue, h) ==
    IssueEvent(src, issue, <<"unassigned", issue.key, h.at>>, "JiraIssueUnassigned", h.at, h.who)

CreatedEvent(src, issue) ==
    IssueEvent(src, issue, <<"created", issue.key, 0>>, "JiraIssueCreated", issue.created,
               issue.reporter)

CommentedEvent(src, issue, c) ==
    [IssueEvent(src, issue, <<"comment", issue.key, c.id>>, "JiraIssueCommented", c.at, c.who)
        EXCEPT !.body = Len(AdfToPlain(c.body)), !.words = AdfToPlain(c.body)]

\* Only what the user did, and only on the day (DayWindow::contains).
Mine(x) == x.who = Me /\ InDay(x.at)

RapidMove(a, b) == b.at - a.at \in 0 .. AMinute

\* A run of transitions goes from its first status to its last, at the time of
\* the last.
MergedMove(run) ==
    [at |-> Last(run).at, from |-> run[1].from, to |-> Last(run).to, count |-> Len(run)]

\* collapse_rapid_transitions: a long chain of quick moves is one event.
CollapseRapidTransitions(transitions) ==
    LET runs == RunsOf(ByTime(transitions), RapidMove)
    IN [i \in DOMAIN runs |-> MergedMove(runs[i])]

\* The changelog's assignee items: taken by, or given away by, the user.
AssigneeEvents(src, issue, h) ==
    CASE h.field # "assignee" -> <<>>
      [] h.field = "assignee" /\ h.to = Me -> <<AssignedEvent(src, issue, h)>>
      [] h.field = "assignee" /\ h.to # Me /\ h.from = Me
                                           -> <<UnassignedEvent(src, issue, h)>>
      [] OTHER -> <<>>

Created(src, issue) ==
    IF issue.reporter = Me /\ InDay(issue.created) THEN <<CreatedEvent(src, issue)>> ELSE <<>>

Changelog(src, issue) ==
    LET mine  == SelectSeq(issue.history, Mine)
        moves == CollapseRapidTransitions(SelectSeq(mine, LAMBDA h : h.field = "status"))
    IN Flat([i \in DOMAIN mine |-> AssigneeEvents(src, issue, mine[i])]) \o
       [i \in DOMAIN moves |-> TransitionEvent(src, issue, moves[i])]

Comments(src, issue) ==
    LET mine == SelectSeq(issue.comments, Mine)
    IN [i \in DOMAIN mine |-> CommentedEvent(src, issue, mine[i])]

NormaliseJira(src, issue) ==
    Created(src, issue) \o Changelog(src, issue) \o Comments(src, issue)

(***************************************************************************)
(* connector-confluence: one hit of the CQL search becomes one event or    *)
(* none, and the walk's edits of one page are then collapsed.  A hit is    *)
(*   [id, type, space, creator, created, version, editor, edited,          *)
(*    ancestors, container, body, lacks]                                   *)
(* in which ancestors goes from root to leaf, container may be None, and   *)
(* body is a document or None.                                             *)
(***************************************************************************)

\* result_link: the search's own path on its base, else the content's webui.
Linked(hit) == ~({"url", "webui"} \subseteq hit.lacks)

\* normalise_result: a hit without them is an error, and so is a page or a
\* comment without a history.
HitShaped(hit) ==
    /\ hit.lacks \cap {"content", "type", "id", "space"} = {} /\ Linked(hit)
    /\ hit.type \in {"page", "comment"} => "history" \notin hit.lacks

\* build_page_event: a creation is known by its page, an edit also by its time.
PageEvent(src, hit, kind, at) ==
    [Event(src,
           IF kind = "ConfluencePageCreated" THEN <<"page created", hit.id, 0>>
                                             ELSE <<"page edited", hit.id, at>>,
           kind, at, Me)
        EXCEPT !.links  = {<<hit.space, "page", hit.id>>},
               !.repo   = hit.space,
               !.item   = hit.id,
               !.parent = <<"page", hit.id>>]

\* normalise_page: the search knows the latest version only.  Version 1 by the
\* user is a creation, a later one by the user an edit.
PageEvents(src, hit) ==
    CASE hit.version = 1 /\ hit.creator = Me /\ InDay(hit.created)
            -> <<PageEvent(src, hit, "ConfluencePageCreated", hit.created)>>
      [] hit.version > 1 /\ hit.editor = Me /\ InDay(hit.edited)
            -> <<PageEvent(src, hit, "ConfluencePageEdited", hit.edited)>>
      [] OTHER -> <<>>

\* comment_parent_page_ref: the last ancestor, unless it has no id; else the
\* container.
ParentPage(hit) ==
    IF hit.ancestors # <<>> /\ Last(hit.ancestors) # None
    THEN Last(hit.ancestors) ELSE hit.container

\* Unlike Jira's, a comment that comes without a document has no text.
CommentText(hit) == IF hit.body = None THEN <<>> ELSE AdfToPlain(hit.body)

\* normalise_comment: a comment without a parent page has no page entity and
\* is marked unattached.
CommentEvents(src, hit) ==
    IF hit.creator = Me /\ InDay(hit.created)
    THEN << [Event(src, <<"comment", hit.id, 0>>, "ConfluenceComment", hit.created, hit.creator)
                EXCEPT !.links  = {<<hit.space, "comment", hit.id>>},
                       !.repo   = hit.space,
                       !.item   = ParentPage(hit),
                       !.parent = IF ParentPage(hit) = None THEN None ELSE <<"page", ParentPage(hit)>>,
                       !.body   = Len(CommentText(hit)),
                       !.words  = CommentText(hit)] >>
    ELSE <<>>

NormaliseConfluence(src, hit) ==
    CASE hit.type = "page"    -> PageEvents(src, hit)
      [] hit.type = "comment" -> CommentEvents(src, hit)
      [] OTHER                -> <<>>

RapidSave(a, b) == b.at - a.at \in 0 .. FiveMinutes

CollapseRapidEdits(edits) ==
    LET runs == RunsOf(ByTime(edits), RapidSave)
    IN [i \in DOMAIN runs |-> [at |-> Last(runs[i]).at, count |-> Len(runs[i])]]

IsEditOf(e, page) == e.kind = "ConfluencePageEdited" /\ e.item = page

\* synthesize_collapsed_edit: the run's event borrows links and entities of the
\* first edit of the page.
RolledUpEdit(events, page, run) ==
    LET template == SelectSeq(events, LAMBDA e : IsEditOf(e, page))[1]
    IN [template EXCEPT !.ext   = <<"page rollup", page, run.at>>,
                        !.at    = run.at,
                        !.who   = Me,
                        !.count = run.count]

\* The collapse of one page: where some run has several saves, every edit of
\* the page is taken out and the runs of several saves are put in.
CollapsePage(events, page) ==
    LET edits == SelectSeq(events, LAMBDA e : IsEditOf(e, page))
        runs  == CollapseRapidEdits(edits)
        long  == SelectSeq(runs, LAMBDA r : r.count > 1)
    IN IF Len(runs) = Len(edits) THEN events
       ELSE SelectSeq(events, LAMBDA e : ~IsEditOf(e, page)) \o
            [i \in DOMAIN long |-> RolledUpEdit(events, page, long[i])]

\* The walk's epilogue, page by page (a HashMap's order, which the final sort
\* forgets).
CollapseEdits(events) ==
    FoldLeft(CollapsePage, events,
             SetToSeq({events[i].item : i \in {j \in DOMAIN events :
                                         events[j].kind = "ConfluencePageEdited"}}))

(***************************************************************************)
(* connector-outlook: the meetings of /me/calendarView the user was in.    *)
(* A row is a record                                                       *)
(*   [n, start, end, cancelled, allDay, free, organizer, response, private,*)
(*    body, lacks]                                                         *)
(* in which response is the user's own answer: "none" if the user is not   *)
(* on the attendee list.                                                   *)
(***************************************************************************)

\* Graph returns what overlaps the window, not what starts in it.
Overlaps(row) == row.start < Midnight /\ row.end > 0

\* user_attendance: the organizer first, then the first matching attendee;
\* whoever did not decline attends.
Attendance(row) ==
    CASE row.organizer = Me                                   -> "Organizer"
      [] row.organizer # Me /\ row.response = "none"          -> "NotInvolved"
      [] row.organizer # Me /\ row.response = "declined"      -> "Declined"
      [] OTHER                                                -> "AcceptedOrTentative"

KeepsMeeting(row) ==
    /\ ~row.cancelled /\ ~row.allDay /\ ~row.free
    /\ Attendance(row) \in {"Organizer", "AcceptedOrTentative"}

\* parse_graph_timestamp: a start that cannot be read drops the meeting.
StartReads(row) == "start" \notin row.lacks

\* normalise_event: a private meeting has neither title nor body, though its
\* entity is still labelled with the subject; its privacy flag stays Normal.
NormaliseOutlook(src, row) ==
    IF ~StartReads(row) THEN <<>>
    ELSE << [Event(src, <<"meeting", row.n>>, "OutlookMeetingAttended", row.start, Me)
                EXCEPT !.links  = {<<"outlook", "meeting", row.n>>},
                       !.until  = row.end,
                       !.item   = row.n,
                       !.parent = <<"meeting", row.n>>,
                       !.body   = IF row.private THEN 0 ELSE row.body] >>

=============================================================================
