---------------------------- MODULE SourceStore ----------------------------
(***************************************************************************)
(* What the source commands read and write: the `sources`,                 *)
(* `source_identities` and `local_repos` tables (dayseam-db), the keychain *)
(* (dayseam-secrets), and the commands in flight.  Commands are async and  *)
(* run concurrently; a statement, a transaction and a keychain call are    *)
(* each one step.  The sources of one installation interact only within a  *)
(* family (the commands of a kind touch only rows and keys of that kind),  *)
(* so a behaviour has one family, chosen at the start.                     *)
(***************************************************************************)
EXTENDS Naturals, FiniteSets, Sequences, SequencesExt

CONSTANTS Slots,         \* ids minted by Uuid::new_v4, for rows and for keys
          Accounts,      \* upstream users a credential can belong to
          Roots,         \* scan roots, as sequences of path components
          Repos,         \* paths of the repositories on disk
          Commands,      \* invocations that may be in flight at once
          MaxOps,        \* requests in one behaviour (model bound)
          MaxFaults,     \* storage failures and quits in one (model bound)
          None

Families == {"gitlab", "github", "atlassian", "localgit"}

VARIABLES
    family,
    rows,       \* ids in `sources`
    ref,        \* their secret_ref: the id its key was minted under, or None
    conf,       \* their config: GitLab's user_id, the local-git scan root
    bound,      \* external ids of the self person's identities per source
    keys,       \* the keychain: whose credential each key holds
    owner,      \* local_repos.source_id
    private,    \* local_repos.is_private
    used,       \* ids minted so far
    ops,        \* requests so far
    cmd,        \* the commands in flight
    faults,     \* storage failures so far
    hist        \* bookkeeping for the properties, see HistInit

tables == <<rows, ref, conf, bound, owner, private>>
vars == <<family, tables, keys, used, ops, cmd, faults, hist>>

Settings == Accounts \cup Roots

Idle == [op |-> "none", at |-> "idle", slot |-> None, key |-> None,
         account |-> None, value |-> None, patched |-> FALSE, withPat |-> FALSE,
         hadRef |-> FALSE, guarded |-> TRUE, left |-> 0, done |-> <<>>,
         undo |-> <<>>, alone |-> TRUE, undone |-> TRUE]

Running(c) == cmd[c].at # "idle"

\* clean: rows whose add succeeded and overlapped no other command.
\* gone: ids of failed adds that overlapped none and whose undo steps all worked.
\* lone: sources whose config was last written by a command that had overlapped
\* none.  unchecked: keys written by a reconnect that found no identity on file.
\* drifted: GitLab sources whose config changed in a command that then failed.
\* borrowed: rows added under the key of another source.
HistInit == [clean |-> {}, gone |-> {}, lone |-> {}, unchecked |-> {}, drifted |-> {},
             borrowed |-> {}]

StoreInit ==
    /\ family \in Families
    /\ rows = {} /\ used = {} /\ ops = 0
    /\ ref = [s \in Slots |-> None]
    /\ conf = [s \in Slots |-> None]
    /\ bound = [s \in Slots |-> {}]
    /\ keys = [s \in Slots |-> None]
    /\ owner = [r \in Repos |-> None]
    /\ private = [r \in Repos |-> FALSE]
    /\ cmd = [c \in Commands |-> Idle]
    /\ faults = 0
    /\ hist = HistInit

(***************************************************************************)
(* The repositories' statements                                            *)
(***************************************************************************)

\* One more storage call fails.
Fault == faults < MaxFaults /\ faults' = faults + 1

NoFault == UNCHANGED faults

InsertSource(s, key, value) ==
    /\ rows' = rows \cup {s}
    /\ ref' = [ref EXCEPT ![s] = key]
    /\ conf' = [conf EXCEPT ![s] = value]
    /\ UNCHANGED <<bound, owner, private>>

\* DELETE with its cascades over identities and local_repos.
RemoveSource(s) ==
    /\ rows' = rows \ {s}
    /\ ref' = [ref EXCEPT ![s] = None]
    /\ conf' = [conf EXCEPT ![s] = None]
    /\ bound' = [bound EXCEPT ![s] = {}]
    /\ owner' = [r \in Repos |-> IF owner[r] = s THEN None ELSE owner[r]]
    /\ private' = [r \in Repos |-> private[r] /\ owner[r] # s]

\* Variant: the last-reference check of the transaction is gone.
OrphanedUnchecked(s) == ref[s]

\* The key `delete` hands to its caller: the row's own, unless another row
\* still refers to it.
Orphaned(s) ==
    IF \E t \in rows \ {s} : ref[t] = ref[s] THEN None ELSE ref[s]

\* UPDATE of a row that is gone changes nothing and is no error.
UpdateSecretRef(s, key) ==
    /\ ref' = [ref EXCEPT ![s] = IF s \in rows THEN key ELSE None]
    /\ UNCHANGED <<rows, conf, bound, owner, private>>

UpdateConfig(s, value) ==
    /\ conf' = [conf EXCEPT ![s] = IF s \in rows THEN value ELSE None]
    /\ UNCHANGED <<rows, ref, bound, owner, private>>

\* INSERT OR IGNORE; the foreign key refuses a source that is gone (callers
\* test `s \in rows` and take that as a failure).
EnsureIdentity(s, a) ==
    /\ bound' = [bound EXCEPT ![s] = @ \cup {a}]
    /\ UNCHANGED <<rows, ref, conf, owner, private>>

\* Variant: the conflict clause also takes is_private from discovery's row.
ClaimReposPublic(s, found, stale) ==
    /\ owner' = [r \in Repos |-> IF r \in found THEN s
                                 ELSE IF r \in stale THEN None ELSE owner[r]]
    /\ private' = [r \in Repos |-> private[r] /\ r \notin stale /\ r \notin found]
    /\ UNCHANGED <<rows, ref, conf, bound>>

\* ON CONFLICT(path) the row moves to s and keeps is_private; stale rows of s
\* go (reconcile_for_source) or stay (upsert: stale = {}).
ClaimRepos(s, found, stale) ==
    /\ owner' = [r \in Repos |-> IF r \in found THEN s
                                 ELSE IF r \in stale THEN None ELSE owner[r]]
    /\ private' = [r \in Repos |-> private[r] /\ r \notin stale]
    /\ UNCHANGED <<rows, ref, conf, bound>>

(***************************************************************************)
(* Commands in flight                                                      *)
(***************************************************************************)

\* An idle command slot takes a request; from here on it and the commands
\* already running have overlapped.
Begin(c, rec) ==
    /\ ~Running(c)
    /\ ops < MaxOps /\ ops' = ops + 1
    /\ cmd' = [d \in Commands |->
                 IF d = c THEN [rec EXCEPT !.alone = \A e \in Commands : ~Running(e)]
                 ELSE IF Running(d) THEN [cmd[d] EXCEPT !.alone = FALSE]
                 ELSE Idle]

At(c, op, at) == cmd[c].op \in op /\ cmd[c].at = at

Goto(c, at) == cmd' = [cmd EXCEPT ![c].at = at]

Adding(c) == cmd[c].op \in {"add", "borrow"}

\* The command returns; what it leaves behind for the properties.
Finish(c, ok) ==
    /\ cmd' = [cmd EXCEPT ![c] = Idle]
    /\ hist' = LET me == cmd[c]
                   minted == ToSet(me.done) \cup
                             (IF me.op = "add" THEN {me.slot, me.key} \ {None} ELSE {me.slot})
               IN [hist EXCEPT
                     !.clean = IF ok /\ Adding(c) /\ me.alone THEN @ \cup ToSet(me.done) ELSE @,
                     !.gone = IF ~ok /\ Adding(c) /\ me.alone /\ me.undone
                              THEN @ \cup minted ELSE @,
                     !.borrowed = IF ok /\ me.op = "borrow" THEN @ \cup ToSet(me.done) ELSE @,
                     !.drifted = IF ok /\ me.op = "update" /\ me.alone THEN @ \ {me.slot} ELSE @]

\* An error inside an add: the undo steps in the order the kind's rollback
\* takes them (GitLab drops the key first, the others last).
Rollback(c, ownsKey) ==
    LET undoRows == [i \in 1 .. Len(cmd[c].done) |-> <<"row", cmd[c].done[i]>>]
        undoKey == IF ownsKey THEN <<<<"key", cmd[c].key>>>> ELSE <<>>
    IN cmd' = [cmd EXCEPT ![c].at = "undo",
                          ![c].undo = IF family = "gitlab" THEN undoKey \o undoRows
                                      ELSE undoRows \o undoKey]

=============================================================================
