--------------------------- MODULE SourceCommands ---------------------------
(***************************************************************************)
(* The commands on the sources: those that have a credential, and the      *)
(* local-git ones, which have a scan root.                                 *)
(***************************************************************************)
EXTENDS SourceStore

(***************************************************************************)
(* Adding, editing, reconnecting and deleting a source that has a          *)
(* credential (ipc/commands.rs, ipc/github.rs, ipc/atlassian.rs): the      *)
(* order of the table and keychain writes, and what each error undoes.     *)
(* Arguments the handlers refuse before their first read or write (an      *)
(* empty token, a malformed URL) leave no trace and are left out.          *)
(***************************************************************************)

Credentialed == family \in {"gitlab", "github", "atlassian"}

(***************************************************************************)
(* Add                                                                     *)
(***************************************************************************)

StartWith(c, s, at, a, n) ==
    /\ used' = used \cup {s}
    /\ Begin(c, [Idle EXCEPT !.op = "add", !.at = at,
                             !.slot = s, !.key = s, !.account = a, !.left = n])
    /\ UNCHANGED <<family, tables, keys, faults, hist>>

\* sources_add inserts the row first.
StartAddGitLab(c) ==
    /\ family = "gitlab"
    /\ \E s \in Slots \ used, a \in Accounts : StartWith(c, s, "insert", a, 1)

\* github_sources_add writes the key first, named after the row to come.
StartAddGitHub(c) ==
    /\ family = "github"
    /\ \E s \in Slots \ used, a \in Accounts : StartWith(c, s, "putKey", a, 1)

\* atlassian_sources_add: one or two products under one fresh key.
StartAddAtlassian(c) ==
    /\ family = "atlassian"
    /\ \E s \in Slots \ used, a \in Accounts, n \in 1 .. 2 : StartWith(c, s, "putKey", a, n)

\* The dialog's reuse mode: a product is added under the key, and with the
\* account, of a source it listed.
StartBorrow(c) ==
    /\ family = "atlassian"
    /\ \E s \in Slots \ used, r \in rows : \E a \in bound[r] :
         /\ used' = used \cup {s}
         /\ Begin(c, [Idle EXCEPT
                !.op = "borrow", !.at = "probe",
                !.slot = s, !.key = ref[r], !.account = a, !.left = 1])
    /\ UNCHANGED <<family, tables, keys, faults, hist>>

\* secrets.get: an empty slot ends the command.
ProbeKey(c) ==
    /\ At(c, {"borrow"}, "probe")
    /\ IF keys[cmd[c].key] = None
       THEN Finish(c, FALSE)
       ELSE Goto(c, "insert") /\ UNCHANGED hist
    /\ UNCHANGED <<family, ops, tables, keys, used, faults>>

\* secrets.put of a new or a rotated credential.
PutKey(c) ==
    /\ At(c, {"add", "update", "reconnect"}, "putKey")
    /\ \/ /\ NoFault
          /\ keys' = [keys EXCEPT ![cmd[c].key] = cmd[c].account]
          /\ IF cmd[c].op = "reconnect"
             THEN /\ cmd' = [cmd EXCEPT ![c] = Idle]
                  /\ hist' = IF cmd[c].guarded THEN hist
                             ELSE [hist EXCEPT !.unchecked = @ \cup {cmd[c].key}]
             ELSE /\ Goto(c, IF family = "gitlab" THEN "stamp" ELSE "insert")
                  /\ UNCHANGED hist
       \/ /\ Fault
          /\ IF cmd[c].op = "add" /\ family = "gitlab"
             THEN Rollback(c, FALSE) /\ UNCHANGED hist
             ELSE Finish(c, FALSE)
          /\ UNCHANGED keys
    /\ UNCHANGED <<family, ops, tables, used>>

\* bootstrap_self and the INSERT; an error of either takes the same way out.
InsertRow(c) ==
    /\ Adding(c) /\ cmd[c].at = "insert" /\ Credentialed
    /\ \/ /\ NoFault
          /\ InsertSource(cmd[c].slot,
                          IF family = "gitlab" THEN None ELSE cmd[c].key,
                          cmd[c].account)
          /\ cmd' = [cmd EXCEPT ![c].at = IF family = "gitlab" THEN "putKey" ELSE "identity",
                                ![c].done = Append(@, cmd[c].slot)]
          /\ UNCHANGED hist
       \/ /\ Fault
          /\ IF family = "gitlab"
             THEN Finish(c, FALSE)
             ELSE Rollback(c, cmd[c].op = "add") /\ UNCHANGED hist
          /\ UNCHANGED tables
    /\ UNCHANGED <<family, ops, keys, used>>

\* update_secret_ref (GitLab).
StampRef(c) ==
    /\ At(c, {"add", "update"}, "stamp")
    /\ \/ /\ NoFault
          /\ UpdateSecretRef(cmd[c].slot, cmd[c].key)
          /\ Goto(c, "identity")
          /\ UNCHANGED hist
       \/ /\ Fault
          /\ IF cmd[c].op = "add"
             THEN Rollback(c, TRUE) /\ UNCHANGED hist
             ELSE Finish(c, FALSE)
          /\ UNCHANGED tables
    /\ UNCHANGED <<family, ops, keys, used>>

\* The next product of an Atlassian add.
NextProduct(c) ==
    \E s \in Slots \ used :
        /\ used' = used \cup {s}
        /\ cmd' = [cmd EXCEPT ![c].at = "insert", ![c].slot = s, ![c].left = @ - 1]
        /\ UNCHANGED hist

\* The self identity of the row; then the next product, or the command is done.
\* On an error GitLab reads back whether the row holds a key to drop.
BindIdentity(c) ==
    /\ At(c, {"add", "borrow"}, "identity")
    /\ \/ /\ NoFault
          /\ cmd[c].slot \in rows
          /\ EnsureIdentity(cmd[c].slot, cmd[c].account)
          /\ IF cmd[c].left > 1 THEN NextProduct(c) ELSE Finish(c, TRUE) /\ UNCHANGED used
       \/ /\ IF cmd[c].slot \in rows THEN Fault ELSE NoFault
          /\ Rollback(c, IF family = "gitlab" THEN ref[cmd[c].slot] # None
                         ELSE cmd[c].op = "add")
          /\ UNCHANGED <<tables, used, hist>>
    /\ UNCHANGED <<family, ops, keys>>

\* Variant: the rollback returns at its first error, and after its first step.
UndoFirstOnly(c) ==
    /\ Adding(c) /\ cmd[c].at = "undo"
    /\ NoFault
    /\ IF cmd[c].undo # <<>> /\ Head(cmd[c].undo)[1] = "row"
       THEN RemoveSource(Head(cmd[c].undo)[2])
       ELSE UNCHANGED tables
    /\ Finish(c, FALSE)
    /\ UNCHANGED <<family, ops, keys, used>>

\* rollback_sources_add, or GitLab's own way out: a step that fails is logged
\* and the next one runs.
UndoStep(c) ==
    /\ Adding(c) /\ cmd[c].at = "undo"
    /\ IF cmd[c].undo = <<>>
       THEN Finish(c, FALSE) /\ UNCHANGED <<tables, keys, faults>>
       ELSE /\ \/ /\ NoFault
                  /\ IF Head(cmd[c].undo)[1] = "row"
                     THEN RemoveSource(Head(cmd[c].undo)[2]) /\ UNCHANGED keys
                     ELSE keys' = [keys EXCEPT ![cmd[c].key] = None] /\ UNCHANGED tables
                  /\ cmd' = [cmd EXCEPT ![c].undo = Tail(@)]
               \/ /\ Fault
                  /\ cmd' = [cmd EXCEPT ![c].undo = Tail(@), ![c].undone = FALSE]
                  /\ UNCHANGED <<tables, keys>>
            /\ UNCHANGED hist
    /\ UNCHANGED <<family, ops, used>>

(***************************************************************************)
(* Update (GitLab: a new user_id, a new token, both, or a label)           *)
(***************************************************************************)

StartUpdate(c) ==
    /\ family = "gitlab"
    /\ \E s \in rows, patched, withPat \in BOOLEAN, a \in Accounts :
         /\ ~patched => a = conf[s]
         /\ Begin(c, [Idle EXCEPT
                !.op = "update", !.at = IF patched THEN "config" ELSE "pat",
                !.slot = s, !.key = s, !.account = a, !.hadRef = ref[s] # None,
                !.patched = patched, !.withPat = withPat])
    /\ UNCHANGED <<family, tables, keys, used, faults, hist>>

\* The config is written before the token argument is checked.
WriteConfig(c) ==
    /\ At(c, {"update"}, "config") /\ family = "gitlab"
    /\ \/ /\ NoFault
          /\ UpdateConfig(cmd[c].slot, cmd[c].account)
          /\ Goto(c, "pat")
          /\ hist' = [hist EXCEPT !.drifted = @ \cup {cmd[c].slot}]
       \/ Fault /\ Finish(c, FALSE) /\ UNCHANGED tables
    /\ UNCHANGED <<family, ops, keys, used>>

\* validate_pat_arg: without a token on file a config patch must bring one.
ValidatePat(c) ==
    /\ At(c, {"update"}, "pat")
    /\ CASE cmd[c].withPat -> Goto(c, "putKey") /\ UNCHANGED hist
         [] ~cmd[c].withPat /\ ~cmd[c].hadRef /\ cmd[c].patched -> Finish(c, FALSE)
         [] OTHER -> Goto(c, "identity") /\ UNCHANGED hist
    /\ UNCHANGED <<family, ops, tables, keys, used, faults>>

\* ensure_gitlab_self_identity
EnsureGitlabSelfIdentity(s, user) == EnsureIdentity(s, user)

\* The user of the patch's config, or of the one read at the start, is bound
\* again; identities of earlier users stay.
RebindIdentity(c) ==
    /\ At(c, {"update"}, "identity")
    /\ \/ /\ cmd[c].slot \in rows /\ NoFault
          /\ EnsureGitlabSelfIdentity(cmd[c].slot, cmd[c].account)
          /\ Finish(c, TRUE)
       \/ /\ IF cmd[c].slot \in rows THEN Fault ELSE NoFault
          /\ UNCHANGED tables
          /\ Finish(c, FALSE)
    /\ UNCHANGED <<family, ops, keys, used>>

(***************************************************************************)
(* Reconnect (GitHub, Atlassian)                                           *)
(***************************************************************************)

StartReconnect(c) ==
    /\ \E s \in rows, a \in Accounts :
         Begin(c, [Idle EXCEPT !.op = "reconnect", !.at = "verify",
                               !.slot = s, !.key = ref[s], !.account = a])
    /\ UNCHANGED <<family, tables, keys, used, faults, hist>>

\* get(source), then the probe names the user the pasted token belongs to.
ReconnectGitHub(c) == family = "github" /\ StartReconnect(c)

\* Likewise; the key may serve a second product.
ReconnectAtlassian(c) == family = "atlassian" /\ StartReconnect(c)

\* Variant: any valid token is accepted.
VerifyAnyUser(c) ==
    /\ At(c, {"reconnect"}, "verify")
    /\ cmd' = [cmd EXCEPT ![c].at = IF family = "github" THEN "login" ELSE "putKey"]
    /\ UNCHANGED <<family, ops, tables, keys, used, faults, hist>>

\* A token of another user than the bound one is refused; a source with no
\* identity on file takes any.
VerifyUser(c) ==
    /\ At(c, {"reconnect"}, "verify")
    /\ IF bound[cmd[c].slot] \subseteq {cmd[c].account}
       THEN /\ cmd' = [cmd EXCEPT ![c].at = IF family = "github" THEN "login" ELSE "putKey",
                                  ![c].guarded = bound[cmd[c].slot] # {}]
            /\ UNCHANGED hist
       ELSE Finish(c, FALSE)
    /\ UNCHANGED <<family, ops, tables, keys, used, faults>>

\* GitHub's login row: its foreign key notices a source deleted meanwhile.
EnsureLogin(c) ==
    /\ At(c, {"reconnect"}, "login")
    /\ \/ cmd[c].slot \in rows /\ NoFault /\ Goto(c, "putKey") /\ UNCHANGED hist
       \/ (IF cmd[c].slot \in rows THEN Fault ELSE NoFault) /\ Finish(c, FALSE)
    /\ UNCHANGED <<family, ops, tables, keys, used>>

(***************************************************************************)
(* Delete                                                                  *)
(***************************************************************************)

\* SourceRepo::delete; an error leaves everything as it was.
StartDelete(c) ==
    /\ \E s \in rows :
         /\ RemoveSource(s)
         /\ Begin(c, [Idle EXCEPT !.op = "delete", !.at = "dropKey",
                                  !.slot = s, !.key = Orphaned(s)])
         /\ hist' = [hist EXCEPT !.clean = @ \ {s}, !.lone = @ \ {s},
                                !.drifted = @ \ {s}, !.borrowed = @ \ {s}]
    /\ UNCHANGED <<family, keys, used, faults>>

\* best_effort_delete_secret.
DropKey(c) ==
    /\ At(c, {"delete"}, "dropKey")
    /\ \/ /\ NoFault
          /\ keys' = IF cmd[c].key = None THEN keys ELSE [keys EXCEPT ![cmd[c].key] = None]
       \/ cmd[c].key # None /\ Fault /\ UNCHANGED keys
    /\ Finish(c, TRUE)
    /\ UNCHANGED <<family, ops, tables, used>>

CredentialStep(c) ==
    \/ StartAddGitLab(c) \/ StartAddGitHub(c) \/ StartAddAtlassian(c)
    \/ StartBorrow(c) \/ ProbeKey(c) \/ PutKey(c) \/ InsertRow(c)
    \/ StampRef(c) \/ BindIdentity(c) \/ UndoStep(c)
    \/ StartUpdate(c) \/ WriteConfig(c) \/ ValidatePat(c) \/ RebindIdentity(c)
    \/ ReconnectGitHub(c) \/ ReconnectAtlassian(c) \/ VerifyUser(c) \/ EnsureLogin(c)
    \/ StartDelete(c) \/ DropKey(c)

(***************************************************************************)
(* Local-git sources (ipc/commands.rs: sources_add, sources_update,        *)
(* ensure_local_git_scan_roots_are_disjoint, upsert_discovered_repos): the *)
(* check of the scan root against the other sources, the row, and the      *)
(* reconciliation of local_repos with a fresh discovery.  One root per     *)
(* source.                                                                 *)
(***************************************************************************)

\* Variant: only a root below an existing one counts.
OverlapsBelow(p, q) == IsPrefix(q, p)

\* paths_overlap.
PathsOverlap(p, q) == IsPrefix(p, q) \/ IsPrefix(q, p)

Under(root) == {r \in Repos : IsPrefix(root, r)}

StartAddRoot(c) ==
    /\ family = "localgit"
    /\ \E s \in Slots \ used, root \in Roots :
         /\ used' = used \cup {s}
         /\ Begin(c, [Idle EXCEPT !.op = "add", !.at = "check",
                                  !.slot = s, !.value = root])
    /\ UNCHANGED <<family, tables, keys, faults, hist>>

StartMoveRoot(c) ==
    /\ family = "localgit"
    /\ \E s \in rows, root \in Roots :
         Begin(c, [Idle EXCEPT !.op = "update", !.at = "check",
                               !.slot = s, !.value = root])
    /\ UNCHANGED <<family, tables, keys, used, faults, hist>>

\* The list is read here; the row is written later.
CheckDisjoint(c) ==
    /\ At(c, {"add", "update"}, "check")
    /\ IF \E t \in rows \ {cmd[c].slot} : PathsOverlap(cmd[c].value, conf[t])
       THEN Finish(c, FALSE)
       ELSE Goto(c, "write") /\ UNCHANGED hist
    /\ UNCHANGED <<family, ops, tables, keys, used, faults>>

\* The INSERT of an add, the UPDATE of an edit.
WriteRoot(c) ==
    /\ At(c, {"add", "update"}, "write")
    /\ \/ /\ NoFault
          /\ IF cmd[c].op = "add"
             THEN /\ InsertSource(cmd[c].slot, None, cmd[c].value)
                  /\ cmd' = [cmd EXCEPT ![c].at = "rescan", ![c].done = <<cmd[c].slot>>]
             ELSE /\ UpdateConfig(cmd[c].slot, cmd[c].value)
                  /\ Goto(c, "rescan")
          /\ hist' = [hist EXCEPT !.lone = IF cmd[c].alone THEN @ \cup {cmd[c].slot}
                                           ELSE @ \ {cmd[c].slot}]
       \/ Fault /\ Finish(c, FALSE) /\ UNCHANGED tables
    /\ UNCHANGED <<family, ops, keys, used>>

\* upsert_discovered_repos: a discovery that failed, or found nothing where
\* repositories were known, changes no row; one cut off at max_roots only
\* adds; a complete one replaces what the source had.  The walk sees the
\* repositories it can read now.
Rescan(c) ==
    /\ At(c, {"add", "update"}, "rescan")
    /\ LET s == cmd[c].slot
           known == {r \in Repos : owner[r] = s}
       IN \/ /\ NoFault /\ UNCHANGED tables
             /\ Finish(c, TRUE)
          \/ \E found \in SUBSET Under(cmd[c].value), truncated \in BOOLEAN :
               \/ /\ s \in rows /\ (truncated \/ found # {} \/ known = {})
                  /\ NoFault
                  /\ ClaimRepos(s, found, IF truncated THEN {} ELSE known \ found)
                  /\ Finish(c, TRUE)
               \/ /\ found # {}
                  /\ IF s \in rows THEN Fault ELSE NoFault
                  /\ UNCHANGED tables
                  /\ cmd' = [cmd EXCEPT ![c] = Idle]
                  /\ UNCHANGED hist
    /\ UNCHANGED <<family, ops, keys, used>>

\* local_repos_set_private.
SetPrivate ==
    /\ \E r \in Repos :
         /\ owner[r] # None
         /\ private' = [private EXCEPT ![r] = ~@]
    /\ UNCHANGED <<family, ops, rows, ref, conf, bound, owner, keys, used, cmd, faults, hist>>

RootStep(c) ==
    \/ StartAddRoot(c) \/ StartMoveRoot(c) \/ CheckDisjoint(c) \/ WriteRoot(c)
    \/ Rescan(c)

=============================================================================
