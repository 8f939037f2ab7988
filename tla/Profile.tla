------------------------------- MODULE Profile -------------------------------
(***************************************************************************)
(* The user's own rows: the self person every command bootstraps before it *)
(* touches a source, the identities, and the settings with their mirror in *)
(* memory that the window's close handler reads (ipc/commands.rs,          *)
(* main.rs, dayseam-db's persons, source_identities and settings).         *)
(* A statement is one step; commands interleave between statements.        *)
(***************************************************************************)
EXTENDS Naturals, FiniteSets

CONSTANTS Clerks,        \* commands in flight
          PersonIds,     \* Uuid::new_v4 of new self persons
          IdentityIds,   \* ids of identity rows
          Actors,        \* (source, kind, external id) of an identity
          Nobody,
          MaxErrands     \* commands in one behaviour (model bound)

\* Of the settings, the two kinds of field there are: the one with a mirror,
\* and the others.
SettingsOf(keep, verbose) == [keep |-> keep, verbose |-> verbose]
DefaultSettings == SettingsOf(TRUE, FALSE)

\* The display names the model tells apart: of the legacy row, of a bootstrap,
\* of a rename.
PersonNames == {"old", "Me", "Sam"}

ASSUME NobodyIsNone ==
    /\ \A p \in PersonIds, n \in PersonNames : Nobody # [id |-> p, name |-> n]
    /\ \A k, v \in BOOLEAN : Nobody # SettingsOf(k, v)
    /\ Nobody \notin PersonNames

VARIABLES
    self,       \* persons: the row with is_self = 1, [id, name], or Nobody
    identity,   \* source_identities: the actor of each id, or Nobody
    stored,     \* the settings row, or Nobody
    mirror,     \* AppState::keep_running_when_window_closed
    window,     \* "shown", "hidden" or "gone" with the process
    errand,     \* the commands in flight
    errands,
    answered,   \* bookkeeping: ids bootstrap_self has answered with
    raced       \* bookkeeping: two settings_update overlapped since the start

profileVars == <<self, identity, stored, mirror, window, errand, errands, answered, raced>>

Free == [op |-> "none", at |-> "idle"]

ProfileInit ==
    /\ self \in {Nobody} \cup {[id |-> p, name |-> "old"] : p \in PersonIds}
    /\ identity = [i \in IdentityIds |-> Nobody]
    /\ stored \in {Nobody, SettingsOf(FALSE, TRUE)}
    /\ mirror = IF stored = Nobody THEN TRUE ELSE stored.keep
    /\ window = "shown"
    /\ errand = [c \in Clerks |-> Free]
    /\ errands = 0 /\ answered = {} /\ raced = FALSE

Take(c, record) ==
    /\ window # "gone"
    /\ errand[c] = Free /\ errands < MaxErrands
    /\ errands' = errands + 1
    /\ errand' = [errand EXCEPT ![c] = record]

OnErrand(c, op, at) == errand[c].op = op /\ errand[c].at = at
Turn(c, record) == errand' = [errand EXCEPT ![c] = record] /\ UNCHANGED errands

PersonOnly == UNCHANGED <<identity, stored, mirror, window, raced>>
IdentityOnly == UNCHANGED <<self, stored, mirror, window, answered, raced>>

(***************************************************************************)
(* The self person                                                         *)
(***************************************************************************)

\* The rest of a command that has its person: nothing, or the rename.
AfterBootstrap(c, id) ==
    /\ answered' = answered \cup {id}
    /\ Turn(c, IF errand[c].name = Nobody THEN Free
               ELSE [op |-> "person", at |-> "rename", id |-> id, name |-> errand[c].name])

\* persons_get_self, and every command that bootstraps.
GetSelf(c) ==
    /\ Take(c, [op |-> "person", at |-> "look", name |-> Nobody])
    /\ UNCHANGED <<self, answered>> /\ PersonOnly

\* persons_update_self: an empty name is refused first.
UpdateSelf(c, name) ==
    /\ Take(c, [op |-> "person", at |-> "look", name |-> name])
    /\ UNCHANGED <<self, answered>> /\ PersonOnly

\* bootstrap_self: get_self.
LookForSelf(c) ==
    /\ OnErrand(c, "person", "look")
    /\ IF self # Nobody THEN AfterBootstrap(c, self.id)
       ELSE Turn(c, [errand[c] EXCEPT !.at = "insert"]) /\ UNCHANGED answered
    /\ UNCHANGED self /\ PersonOnly

\* Variant: a conflict is answered with the person that was not inserted.
InsertSelfAnyway(c) ==
    /\ OnErrand(c, "person", "insert")
    /\ \E p \in PersonIds \ (answered \cup (IF self = Nobody THEN {} ELSE {self.id})) :
         /\ self' = IF self = Nobody THEN [id |-> p, name |-> "Me"] ELSE self
         /\ AfterBootstrap(c, p)
    /\ PersonOnly

\* The INSERT (after a look at the legacy table's name): the partial unique
\* index lets one self row through, and the loser reads again.
InsertSelf(c) ==
    /\ OnErrand(c, "person", "insert")
    /\ IF self = Nobody
       THEN \E p \in PersonIds : self' = [id |-> p, name |-> "Me"] /\ AfterBootstrap(c, p)
       ELSE /\ Turn(c, [errand[c] EXCEPT !.at = "look"])
            /\ UNCHANGED <<self, answered>>
    /\ PersonOnly

\* update_display_name and the read of what it wrote.
RenameSelf(c) ==
    /\ OnErrand(c, "person", "rename")
    /\ self' = IF self # Nobody /\ self.id = errand[c].id
               THEN [self EXCEPT !.name = errand[c].name] ELSE self
    /\ Turn(c, Free)
    /\ UNCHANGED answered /\ PersonOnly

(***************************************************************************)
(* Identities                                                              *)
(***************************************************************************)

\* identities_upsert: a delete, then an insert.
UpsertIdentity(c, i, actor) ==
    /\ Take(c, [op |-> "identity", at |-> "delete", id |-> i, actor |-> actor])
    /\ UNCHANGED identity /\ IdentityOnly

DeleteOldIdentity(c) ==
    /\ OnErrand(c, "identity", "delete")
    /\ identity' = [identity EXCEPT ![errand[c].id] = Nobody]
    /\ Turn(c, IF errand[c].actor = Nobody THEN Free ELSE [errand[c] EXCEPT !.at = "insert"])
    /\ IdentityOnly

\* The row's id and its actor are unique; the loser of a race is refused.
InsertIdentity(c) ==
    /\ OnErrand(c, "identity", "insert")
    /\ identity' = IF identity[errand[c].id] = Nobody
                      /\ \A j \in IdentityIds : identity[j] # errand[c].actor
                   THEN [identity EXCEPT ![errand[c].id] = errand[c].actor]
                   ELSE identity
    /\ Turn(c, Free) /\ IdentityOnly

\* identities_delete
DropIdentity(c, i) ==
    /\ Take(c, [op |-> "identity", at |-> "delete", id |-> i, actor |-> Nobody])
    /\ UNCHANGED identity /\ IdentityOnly

(***************************************************************************)
(* Settings                                                                *)
(***************************************************************************)

SettingsOnly == UNCHANGED <<self, identity, window, answered>>

Fields == {"keep", "verbose"}

\* settings_update of one field.
UpdateSettings(c, field, value) ==
    /\ Take(c, [op |-> "settings", at |-> "read", field |-> field, value |-> value])
    /\ raced' = (raced \/ \E d \in Clerks : errand[d].op = "settings")
    /\ UNCHANGED <<stored, mirror>> /\ SettingsOnly

ReadSettings(c) ==
    /\ OnErrand(c, "settings", "read")
    /\ LET current == IF stored = Nobody THEN DefaultSettings ELSE stored IN
       Turn(c, [op |-> "settings", at |-> "write",
                next |-> [current EXCEPT ![errand[c].field] = errand[c].value]])
    /\ UNCHANGED <<stored, mirror, raced>> /\ SettingsOnly

\* SettingsRepo::set may fail; the mirror only follows a write.
WriteSettings(c) ==
    /\ OnErrand(c, "settings", "write")
    /\ \/ /\ stored' = errand[c].next
          /\ Turn(c, [errand[c] EXCEPT !.at = "mirror"])
       \/ Turn(c, Free) /\ UNCHANGED stored
    /\ UNCHANGED <<mirror, raced>> /\ SettingsOnly

\* set_keep_running_when_window_closed
MirrorSettings(c) ==
    /\ OnErrand(c, "settings", "mirror")
    /\ mirror' = errand[c].next.keep
    /\ Turn(c, Free)
    /\ UNCHANGED <<stored, raced>> /\ SettingsOnly

\* on_window_event(CloseRequested) of the main window.
CloseWindow ==
    /\ window = "shown"
    /\ IF mirror
       THEN window' = "hidden" /\ UNCHANGED errand
       ELSE window' = "gone" /\ errand' = [c \in Clerks |-> Free]
    /\ UNCHANGED <<self, identity, stored, mirror, errands, answered, raced>>

\* RunEvent::Reopen
ShowWindow ==
    /\ window = "hidden" /\ window' = "shown"
    /\ UNCHANGED <<self, identity, stored, mirror, errand, errands, answered, raced>>

\* build_app_state seeds the mirror from the row.
StartAgain ==
    /\ window' = "shown"
    /\ mirror' = IF stored = Nobody THEN DefaultSettings.keep ELSE stored.keep
    /\ errand' = [c \in Clerks |-> Free]
    /\ raced' = FALSE
    /\ UNCHANGED <<self, identity, stored, errands, answered>>

ProfileNext ==
    \/ \E c \in Clerks :
         \/ GetSelf(c) \/ UpdateSelf(c, "Sam") \/ LookForSelf(c) \/ InsertSelf(c) \/ RenameSelf(c)
         \/ \E i \in IdentityIds, a \in Actors : UpsertIdentity(c, i, a)
         \/ \E i \in IdentityIds : DropIdentity(c, i)
         \/ DeleteOldIdentity(c) \/ InsertIdentity(c)
         \/ \E f \in Fields, v \in BOOLEAN : UpdateSettings(c, f, v)
         \/ ReadSettings(c) \/ WriteSettings(c) \/ MirrorSettings(c)
    \/ CloseWindow \/ ShowWindow \/ StartAgain

ProfileSpec == ProfileInit /\ [][ProfileNext]_profileVars

(***************************************************************************)
(* Properties                                                              *)
(***************************************************************************)

\* persons.rs:22-29: whichever commands bootstrap at the same time on a fresh
\* database, all of them, ever, get the same person: the one identities hang on.
OneSelf == Cardinality(answered) <= 1 /\ (answered # {} => self # Nobody /\ self.id \in answered)

\* commands.rs:154-165: a window closed between commands does what the stored
\* setting says, a write that failed included (two updates that overlap may
\* store in one order and mirror in the other).
MirrorIsStored ==
    ~raced /\ window # "gone" /\ (\A c \in Clerks : errand[c].op = "settings" => errand[c].at # "mirror") =>
        mirror = IF stored = Nobody THEN DefaultSettings.keep ELSE stored.keep

\* The rows one process has of its user and settings agree with what it told and
\* with what it does (persons.rs:22-29, commands.rs:154-165).
ProfileIsConsistent == OneSelf /\ MirrorIsStored

=============================================================================
