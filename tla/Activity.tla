------------------------------ MODULE Activity ------------------------------
(***************************************************************************)
(* What the connectors produce: an ActivityEvent, its deterministic id and *)
(* the local day a walk covers.  Times are ticks of the day asked for:     *)
(* 0 is local midnight, LastSecond is 23:59:59.0, the tick after it is     *)
(* still inside the day's last second, Midnight is the next day.           *)
(***************************************************************************)
EXTENDS Integers, Sequences, FiniteSets, SequencesExt, FiniteSetsExt

CONSTANTS
    Me,         \* the account the source's identities name
    None        \* an absent optional field

LastSecond == 6
Midnight   == 8

\* day_bounds of the GitHub, Jira, Confluence and Outlook walks: half open.
InDay(t) == 0 <= t /\ t < Midnight

\* GitLab's day_bounds_utc ends at 23:59:59 and its filter keeps t <= end, so
\* what happened later in that last second is in no day at all.
InGitlabDay(t) == 0 <= t /\ t <= LastSecond

\* An event before a connector fills in what its rows carry.
Blank == [body |-> 0, links |-> {}, repo |-> None, item |-> None,
          parent |-> None, private |-> FALSE, count |-> 1, until |-> 0,
          words |-> <<>>]

Event(src, ext, kind, at, who) ==
    Blank @@ [src |-> src, ext |-> ext, kind |-> kind, at |-> at, who |-> who]

\* ActivityEvent::deterministic_id: a hash of source, external id and kind.
IdOf(e) == <<e.src, e.ext, e.kind>>

\* The two windows of the collapsing rules, in ticks.
AMinute     == 1
FiveMinutes == 2

\* op(x), where TLC evaluates x only once.
Once(x, op(_)) == CHOOSE y \in {op(v) : v \in {x}} : TRUE

\* The final sort of every walk; events of one instant are ordered by id, which
\* is a hash: the model keeps their order.
ByTime(s) == SortSeq(s, LAMBDA a, b : a.at < b.at)

\* The three collapsing rules walk a sequence sorted by time and let an event
\* join the run before it when it joins the run's latest member, which is the
\* event just before it: so a run starts wherever an event does not join its
\* predecessor.
RunsOf(s, joins(_, _)) ==
    Once(SelectSeq([i \in DOMAIN s |-> i], LAMBDA i : i = 1 \/ ~joins(s[i - 1], s[i])),
         LAMBDA starts :
            [k \in DOMAIN starts |->
               SubSeq(s, starts[k], IF k < Len(starts) THEN starts[k + 1] - 1 ELSE Len(s))])

Flat(ss) == FoldLeft(LAMBDA acc, s : acc \o s, <<>>, ss)

=============================================================================
