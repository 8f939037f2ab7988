------------------------------ MODULE Evidence ------------------------------
(***************************************************************************)
(* Why a bullet is in the report: a run stores its events and then the     *)
(* draft whose bullets cite them (dayseam-orchestrator: generate.rs;       *)
(* dayseam-db: activity_events.rs, drafts.rs, sources.rs), and a bullet's  *)
(* popover asks for the events it cites (StreamingPreview.tsx,             *)
(* BulletEvidencePopover.tsx).  Sources are deleted while runs and         *)
(* popovers are under way.  The runs are of one date.                      *)
(***************************************************************************)
EXTENDS Naturals, FiniteSets, Sequences

CONSTANTS Origins,       \* sources
          EventsOf,      \* [Origins -> the events they may have: <<source, item, kind>>,
                         \*  of which an event's id is a hash]
          Tries,         \* runs
          NoTry,
          MaxOpenings    \* bound: times a popover asks

VARIABLES
    alive,      \* sources that have a row; a deleted one never comes back
    fate,       \* per run: "none", "fetched", "stored", "drafted" or "failed"
    batch,      \* per run: the events its pipeline ended with
    shelf,      \* activity_events: [id, run] by <<source, item, text of the kind>>:
                \* the run whose observation the row holds
    preview,    \* [draft, active, n, events]: the draft shown, the bullet picked,
                \* the number of its last opening, what the popover shows
    answers,    \* calls of activity_events_get under way
    credited    \* bookkeeping: runs whose batch was stored

\* ActivityKind, whose variants the program numbers as it declares them.
ActivityKinds ==
    <<"CommitAuthored", "MrOpened", "MrMerged", "MrClosed", "MrReviewComment", "MrApproved",
      "IssueOpened", "IssueClosed", "IssueComment", "JiraIssueTransitioned",
      "JiraIssueCommented", "JiraIssueAssigned", "JiraIssueUnassigned", "JiraIssueCreated",
      "ConfluencePageCreated", "ConfluencePageEdited", "ConfluenceComment",
      "GitHubPullRequestOpened", "GitHubPullRequestMerged", "GitHubPullRequestClosed",
      "GitHubPullRequestReviewed", "GitHubPullRequestCommented", "GitHubIssueOpened",
      "GitHubIssueClosed", "GitHubIssueCommented", "GitHubIssueAssigned",
      "OutlookMeetingAttended">>

\* An event is of the source it is listed under, and of one of the kinds.
ASSUME EventsAreNamed ==
    /\ DOMAIN EventsOf = Origins
    /\ \A s \in Origins : \A e \in EventsOf[s] :
         e = <<s, e[2], e[3]>> /\ e[3] \in DOMAIN ActivityKinds
    /\ NoTry \notin Tries

\* A column holds a kind's name; a name no kind has cannot be read.
KindToDb(kind) == ActivityKinds[kind]
Readable(text) == \E kind \in DOMAIN ActivityKinds : ActivityKinds[kind] = text
KindFromDb(text) == CHOOSE kind \in DOMAIN ActivityKinds : ActivityKinds[kind] = text

\* The unique key of a row, which only the kind's text is part of.
RowKey(e) == <<e[1], e[2], KindToDb(e[3])>>

evidenceVars == <<alive, fate, batch, shelf, preview, answers, credited>>

AllEvents == UNION {EventsOf[s] : s \in Origins}
OfSources(sources) == UNION {EventsOf[s] : s \in sources}

Unread == [at |-> "asked"]
Hydrated(rows) == [at |-> "read", rows |-> rows]
Shut == [at |-> "shut"]

EvidenceInit ==
    /\ alive = Origins
    /\ fate = [r \in Tries |-> "none"]
    /\ batch = [r \in Tries |-> {}]
    /\ shelf = [key \in {} |-> NoTry]
    /\ preview = [draft |-> NoTry, active |-> {}, n |-> 0, events |-> Shut]
    /\ answers = {} /\ credited = {}

Enter(r, next) == fate' = [fate EXCEPT ![r] = next]

\* The fan-out and the pipeline over what it brought.
GatherEvents(r) ==
    /\ fate[r] = "none"
    /\ \E got \in SUBSET OfSources(alive) : batch' = [batch EXCEPT ![r] = got]
    /\ Enter(r, "fetched")
    /\ UNCHANGED <<alive, shelf, preview, answers, credited>>

\* ON CONFLICT (source_id, external_id, kind) DO UPDATE: everything but the id.
Upserted(events, r) ==
    LET keys == {RowKey(e) : e \in events}
    IN [key \in DOMAIN shelf \cup keys |->
          IF key \notin keys THEN shelf[key]
          ELSE [id |-> IF key \in DOMAIN shelf THEN shelf[key].id
                       ELSE CHOOSE e \in events : RowKey(e) = key,
                run |-> r]]

\* insert_many: one transaction, a row per event that refreshes the one there
\* is.  No event, no call.
InsertMany(r) ==
    /\ fate[r] = "fetched" /\ batch[r] \subseteq OfSources(alive)
    /\ shelf' = Upserted(batch[r], r)
    /\ credited' = credited \cup {r}
    /\ Enter(r, "stored")
    /\ UNCHANGED <<alive, batch, preview, answers>>

\* Variant: every event in a transaction of its own.
Salvaged(r) == Upserted(batch[r] \cap OfSources(alive), r)

\* The transaction is rolled back.
RolledBack(r) == shelf

\* A row that cannot be written, always so when its source is gone: the run
\* fails.
InsertManyFails(r) ==
    /\ fate[r] = "fetched" /\ batch[r] # {}
    /\ shelf' = RolledBack(r)
    /\ Enter(r, "failed")
    /\ UNCHANGED <<alive, batch, preview, answers, credited>>

\* DraftRepo::insert
InsertDraft(r) ==
    /\ fate[r] = "stored"
    /\ Enter(r, "drafted")
    /\ UNCHANGED <<alive, batch, shelf, preview, answers, credited>>

\* The draft is dropped: superseded, or it cannot be written.
NoDraft(r) ==
    /\ fate[r] = "stored"
    /\ Enter(r, "failed")
    /\ UNCHANGED <<alive, batch, shelf, preview, answers, credited>>

\* SourceRepo::delete; its events go with it.
DropOrigin(s) ==
    /\ s \in alive
    /\ alive' = alive \ {s}
    /\ shelf' = [key \in {k \in DOMAIN shelf : k[1] # s} |-> shelf[key]]
    /\ UNCHANGED <<fate, batch, preview, answers, credited>>

(***************************************************************************)
(* The preview.  A bullet's id is a hash of what it cites, so a bullet of  *)
(* the same events has the same id in the next draft.                      *)
(***************************************************************************)

Bullets(r) ==
    IF r = NoTry THEN {} ELSE {batch[r] \cap EventsOf[s] : s \in Origins} \ {{}}

\* The popover of a picked bullet is there while the draft has the bullet; it
\* asks anew whenever either changes, and no answer to an earlier call counts.
Look(draft, active) ==
    LET n == preview.n + 1
        there == active \in Bullets(draft)
    IN /\ there => n <= MaxOpenings
       /\ preview' = [draft |-> draft, active |-> active,
                      n |-> IF there THEN n ELSE preview.n,
                      events |-> IF there THEN Unread ELSE Shut]
       /\ answers' = IF there THEN answers \cup {[n |-> n, ids |-> active, reply |-> Unread]}
                     ELSE answers

ShowDraft(r) ==
    /\ fate[r] = "drafted" /\ preview.draft # r
    /\ Look(r, preview.active)
    /\ UNCHANGED <<alive, fate, batch, shelf, credited>>

OpenBullet ==
    /\ \E b \in Bullets(preview.draft) \ {preview.active} : Look(preview.draft, b)
    /\ UNCHANGED <<alive, fate, batch, shelf, credited>>

CloseBullet ==
    /\ preview.events # Shut
    /\ Look(preview.draft, {})
    /\ UNCHANGED <<alive, fate, batch, shelf, credited>>

\* get_many: the rows there are, in the order asked for, each read back by
\* row_to_event.
KeysOf(ids) == {key \in DOMAIN shelf : shelf[key].id \in ids}

RowToEvent(key) == [kind |-> KindFromDb(key[3]), run |-> shelf[key].run]

GetMany(ids) ==
    [id \in {shelf[key].id : key \in KeysOf(ids)} |->
        RowToEvent(CHOOSE key \in KeysOf({id}) : TRUE)]

\* One row that cannot be read fails them all: GetFails.
ActivityEventsGet ==
    /\ \E a \in answers :
         /\ a.reply = Unread /\ \A key \in KeysOf(a.ids) : Readable(key[3])
         /\ answers' = (answers \ {a}) \cup {[a EXCEPT !.reply = Hydrated(GetMany(a.ids))]}
    /\ UNCHANGED <<alive, fate, batch, shelf, preview, credited>>

\* An answer to the popover as it is now, or to none.
Counts(a) == a.n = preview.n /\ preview.events # Shut

HearEvents ==
    /\ \E a \in answers :
         /\ a.reply # Unread
         /\ answers' = answers \ {a}
         /\ preview' = IF Counts(a) THEN [preview EXCEPT !.events = a.reply] ELSE preview
    /\ UNCHANGED <<alive, fate, batch, shelf, credited>>

\* The call fails: an error stands in the popover's place for events.
GetFails ==
    /\ \E a \in answers : answers' = answers \ {a}
    /\ UNCHANGED <<alive, fate, batch, shelf, preview, credited>>

EvidenceNext ==
    \/ \E r \in Tries : \/ GatherEvents(r) \/ InsertMany(r) \/ InsertManyFails(r)
                        \/ InsertDraft(r) \/ NoDraft(r) \/ ShowDraft(r)
    \/ \E s \in Origins : DropOrigin(s)
    \/ OpenBullet \/ CloseBullet \/ ActivityEventsGet \/ HearEvents \/ GetFails

EvidenceSpec == EvidenceInit /\ [][EvidenceNext]_evidenceVars

(***************************************************************************)
(* Properties                                                              *)
(***************************************************************************)

\* generate.rs:412-425 ("a draft whose evidence can't be hydrated is not a
\* draft"), activity_events.rs:46-57, 170-179: every event a draft cites has a
\* row of its own as long as its source is there, whichever runs and deletes
\* it crossed; a batch that could not be stored whole has left nothing; and a
\* popover shows events of its own bullet, all but those whose source is gone,
\* each of the kind it was seen as.
EvidenceIsWhole ==
    /\ \A r \in Tries : fate[r] = "drafted" =>
         batch[r] \cap OfSources(alive) \subseteq {row.id : row \in {shelf[k] : k \in DOMAIN shelf}}
    /\ \A key \in DOMAIN shelf :
         shelf[key].run \in credited /\ shelf[key].id \in batch[shelf[key].run]
    /\ preview.events.at = "read" =>
         LET shown == preview.events.rows
         IN /\ DOMAIN shown \subseteq preview.active
            /\ preview.active \cap OfSources(alive) \subseteq DOMAIN shown
            /\ \A id \in DOMAIN shown : shown[id].kind = id[3]

=============================================================================
