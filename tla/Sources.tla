------------------------------- MODULE Sources -------------------------------
(***************************************************************************)
(* The source commands together: any of them concurrently, quits in the    *)
(* middle of them, and the repairs the next start makes.                   *)
(***************************************************************************)
EXTENDS SourceCommands

ASSUME SourcesAssumption ==
    /\ None \notin Slots \cup Accounts \cup Roots
    /\ Roots \cup Repos \subseteq Seq(STRING)
    /\ MaxFaults \in Nat /\ MaxOps \in Nat

Init == StoreInit

\* backfill_gitlab_self_identities: the configured user of a GitLab row is
\* bound; a row it cannot write is logged and skipped.
BackfillGitlabSelfIdentities(reached) ==
    [s \in Slots |-> IF family = "gitlab" /\ s \in rows \cap reached
                     THEN bound[s] \cup {conf[s]} ELSE bound[s]]

\* backfill_atlassian_self_identities: it asserts an identity on file again, and
\* has nothing to go by for a row that has none.
BackfillAtlassianSelfIdentities(known) ==
    [s \in Slots |-> IF family = "atlassian" /\ s \in rows /\ known[s] # {}
                     THEN known[s] \cup {CHOOSE a \in known[s] : TRUE} ELSE known[s]]

\* audit_orphan_secrets: the sources whose key the keychain no longer holds; a
\* key it cannot probe is passed over.
AuditOrphanSecrets(unreadable) ==
    {s \in rows : ref[s] \notin unreadable \cup {None} /\ keys[ref[s]] = None}

\* The app quits or crashes with commands in flight and starts again: the two
\* backfills run, one after the other, and their errors never stop the start.
\* What the audit after them finds, it only logs.
QuitAndRestart ==
    /\ \E c \in Commands : Running(c)
    /\ faults < MaxFaults
    /\ cmd' = [c \in Commands |-> Idle]
    /\ \E failed \in BOOLEAN :
         /\ faults' = IF failed THEN faults + 2 ELSE faults + 1
         /\ faults' <= MaxFaults
         /\ \E reached \in {IF failed THEN {} ELSE rows} :
              /\ bound' = BackfillAtlassianSelfIdentities(BackfillGitlabSelfIdentities(reached))
              /\ hist' = [hist EXCEPT !.drifted = @ \ reached]
    /\ UNCHANGED <<family, ops, rows, ref, conf, owner, private, keys, used>>

Next ==
    \/ \E c \in Commands : CredentialStep(c) \/ RootStep(c)
    \/ SetPrivate
    \/ QuitAndRestart

Spec == Init /\ [][Next]_vars

(***************************************************************************)
(* Properties                                                              *)
(***************************************************************************)

TypeOK ==
    /\ family \in Families
    /\ rows \subseteq used /\ used \subseteq Slots
    /\ ref \in [Slots -> Slots \cup {None}]
    /\ conf \in [Slots -> Accounts \cup Roots \cup {None}]
    /\ \A s \in Slots : s \notin rows => ref[s] = None /\ conf[s] = None /\ bound[s] = {}
    /\ bound \in [Slots -> SUBSET Accounts]
    /\ keys \in [Slots -> Accounts \cup {None}]
    /\ owner \in [Repos -> rows \cup {None}]
    /\ private \in [Repos -> BOOLEAN]
    /\ faults \in 0 .. MaxFaults

\* A source whose add succeeded without another command in between keeps its
\* credential in the keychain for as long as it has a row, whatever deletes,
\* rollbacks and crashes happen to the sources that share the key:
\* SourceRepo::delete's last-reference check and the "only if we wrote it" of
\* rollback_sources_add (sources.rs:164, atlassian.rs:305): the audit of the next
\* start has nothing to say of it.
SourceKeepsItsSecret ==
    \A s \in hist.clean \cap rows :
        /\ family \in {"gitlab", "github", "atlassian"} => ref[s] # None
        /\ s \notin AuditOrphanSecrets({})

\* An add that fails, and whose undo steps work, leaves neither a row nor a key,
\* at whichever of its writes it failed (commands.rs:1034-1086, github.rs:350-428,
\* atlassian.rs:423-592).  A local-git add has no rollback: an error of the
\* rescan leaves its row.
FailedAddLeavesNothing ==
    \A s \in hist.gone : s \notin rows /\ keys[s] = None

\* Reports keep what the self person did: the user a GitLab source is configured
\* for is among its identities once no command is at work on it and none failed
\* half-way since the last start (commands.rs:1229, startup.rs:232); a GitHub or
\* Atlassian source has an identity, and the credential it uses, through however
\* many rotations of a shared key, is that user's, unless a row with no identity
\* was reconnected (atlassian.rs:804, github.rs:579).
SourceKnowsItsUser ==
    \A s \in hist.clean \cap rows :
        /\ family = "gitlab" /\ s \notin hist.drifted => conf[s] \in bound[s]
        /\ family \in {"github", "atlassian"} /\ ref[s] \notin hist.unchecked
              => keys[ref[s]] \in bound[s]

\* Two sources do not take a repository from each other on every rescan: it leaves
\* a source that still has it under its root only for one whose root was written
\* while that of the first one was (commands.rs:1444, :1722).  A rescan leaves the
\* user's privacy mark on every repository it finds again, also when the row passes
\* to another source (local_repos.rs:38-45); only one that a complete discovery
\* missed loses it with its row.
RescanKeepsRepos ==
    [][\A r \in Repos :
          LET s == owner[r]
              t == owner'[r]
          IN /\ s # None /\ t \notin {s, None} /\ s \in rows' /\ IsPrefix(conf[s], r)
                   => s \notin hist.lone /\ t \notin hist.lone
             /\ private[r] /\ t # None /\ cmd' # cmd => private'[r]]_vars

\* atlassian.rs:386 ("so a stale dialog state cannot write a source row that
\* points at an empty slot"): when nothing failed and nothing is at work, a row
\* added under an existing key finds the key there.
ReusedKeyIsThere ==
    faults = 0 /\ (\A c \in Commands : ~Running(c))
        => \A s \in hist.borrowed \cap rows : keys[ref[s]] # None

=============================================================================
