---------------------------- MODULE DesktopProofs ---------------------------
(***************************************************************************)
(* The desktop's parts, and the desktop: what its connectors fetch with    *)
(* (Registry), how a report and a toast reach the window (RunDesk, Toasts), *)
(* how it updates itself (Updater), what it keeps in its tables, for any   *)
(* number of commands, runs and rows: the self person and the settings     *)
(* (Profile), the rows a sweep drops (Retention), the events behind a      *)
(* bullet (Evidence) and the folders of the App Store build (Bookmarks);   *)
(* and that a behaviour of the desktop is one of each part, so that each   *)
(* part's theorem is the desktop's.                                        *)
(***************************************************************************)
EXTENDS Desktop, FiniteSetTheorems, SequenceTheorems, TLAPS

(***************************************************************************)
(* Profile: the self row is never taken away and a bootstrap answers with  *)
(* the row it found or inserted, so all answers are its id.  Unless two    *)
(* updates overlapped, at most one command has settings in hand, and one   *)
(* that stands before the mirror has just stored what it will mirror.      *)
(***************************************************************************)

Settings == [keep : BOOLEAN, verbose : BOOLEAN]

\* What a command in flight may hold.
Errand ==
    {Free}
    \cup [op : {"person"}, at : {"look", "insert"}, name : {Nobody} \cup PersonNames]
    \cup [op : {"person"}, at : {"rename"}, id : PersonIds, name : PersonNames]
    \cup [op : {"identity"}, at : {"delete", "insert"}, id : IdentityIds, actor : {Nobody} \cup Actors]
    \cup [op : {"settings"}, at : {"read"}, field : Fields, value : BOOLEAN]
    \cup [op : {"settings"}, at : {"write", "mirror"}, next : Settings]

ProfileTypeOK ==
    /\ self \in {Nobody} \cup [id : PersonIds, name : PersonNames]
    /\ stored \in {Nobody} \cup Settings
    /\ mirror \in BOOLEAN /\ raced \in BOOLEAN
    /\ window \in {"shown", "hidden", "gone"}
    /\ errand \in [Clerks -> Errand]

\* Every id a bootstrap answered with is the self row's.
SelfInv ==
    /\ self = Nobody => answered = {}
    /\ self # Nobody => answered \subseteq {self.id}

HasSettings(c) == errand[c].op = "settings"

\* Unless two updates overlapped: one command has settings in hand, and what it
\* is about to mirror is what is stored.
SettingsInv ==
    ~raced =>
        /\ \A c, d \in Clerks : HasSettings(c) /\ HasSettings(d) => c = d
        /\ \A c \in Clerks : HasSettings(c) /\ errand[c].at = "mirror" => stored = errand[c].next

ProfileInv == ProfileTypeOK /\ SelfInv /\ SettingsInv /\ MirrorIsStored

\* A step of a command that has nothing to do with settings.
LEMMA ElsewhereStep ==
    ASSUME SettingsInv, MirrorIsStored, UNCHANGED <<stored, mirror, window, raced>>,
           \A c \in Clerks :
              \/ errand'[c] = errand[c]
              \/ errand[c].op # "settings" /\ errand'[c].op # "settings"
    PROVE  SettingsInv' /\ MirrorIsStored'
<1>1. \A c \in Clerks : errand'[c].op = "settings" => errand'[c] = errand[c]
  OBVIOUS
<1>2. \A c \in Clerks : errand[c].op = "settings" => errand'[c] = errand[c]
  OBVIOUS
<1>3. SettingsInv'
  BY <1>1 DEF SettingsInv, HasSettings
<1>4. MirrorIsStored'
  BY <1>2 DEF MirrorIsStored
<1> QED BY <1>3, <1>4

\* The bootstrap and the rename.
LEMMA PersonStep ==
    ASSUME ProfileInv, NEW c \in Clerks,
           \/ GetSelf(c) \/ UpdateSelf(c, "Sam") \/ LookForSelf(c) \/ InsertSelf(c) \/ RenameSelf(c)
    PROVE  ProfileInv'
<1> USE NobodyIsNone DEF ProfileInv, ProfileTypeOK, SelfInv, PersonNames
<1>1. CASE GetSelf(c) \/ UpdateSelf(c, "Sam")
  <2>1. /\ errand[c] = Free
        /\ \E n \in {Nobody, "Sam"} :
              errand' = [errand EXCEPT ![c] = [op |-> "person", at |-> "look", name |-> n]]
        /\ UNCHANGED <<self, stored, mirror, window, answered, raced>>
    BY <1>1 DEF GetSelf, UpdateSelf, Take, PersonOnly
  <2>2. ProfileTypeOK' /\ SelfInv'
    BY <2>1 DEF Errand
  <2>3. SettingsInv' /\ MirrorIsStored'
    BY <2>1, ElsewhereStep DEF Free
  <2> QED BY <2>2, <2>3
<1>2. ASSUME NEW id \in PersonIds, AfterBootstrap(c, id), OnErrand(c, "person", "look")
             \/ OnErrand(c, "person", "insert"), self' # Nobody, self'.id = id,
             self' \in [id : PersonIds, name : PersonNames],
             self = Nobody \/ self' = self,
             UNCHANGED <<stored, mirror, window, raced>>
      PROVE  ProfileInv'
  <2>1. errand[c] \in [op : {"person"}, at : {"look", "insert"}, name : {Nobody} \cup PersonNames]
    BY <1>2 DEF OnErrand, Errand, Free
  <2>2. /\ answered' = answered \cup {id}
        /\ \/ errand' = [errand EXCEPT ![c] = Free]
           \/ \E n \in PersonNames : errand' = [errand EXCEPT
                 ![c] = [op |-> "person", at |-> "rename", id |-> id, name |-> n]]
    BY <1>2, <2>1 DEF AfterBootstrap, Turn
  <2>3. errand' \in [Clerks -> Errand]
    BY <2>2 DEF Errand
  <2>4. ProfileTypeOK' /\ SelfInv'
    BY <1>2, <2>2, <2>3
  <2>5. SettingsInv' /\ MirrorIsStored'
    BY <1>2, <2>1, <2>2, ElsewhereStep DEF Free
  <2> QED BY <2>4, <2>5
<1>3. CASE LookForSelf(c)
  <2>1. CASE self # Nobody
    BY <1>2, <1>3, <2>1 DEF LookForSelf, PersonOnly
  <2>2. CASE self = Nobody
    <3>1. /\ errand[c] \in [op : {"person"}, at : {"look", "insert"}, name : {Nobody} \cup PersonNames]
          /\ errand' = [errand EXCEPT ![c] = [errand[c] EXCEPT !.at = "insert"]]
          /\ UNCHANGED <<self, answered, stored, mirror, window, raced>>
      BY <1>3, <2>2 DEF LookForSelf, PersonOnly, Turn, OnErrand, Errand, Free
    <3>2. ProfileTypeOK' /\ SelfInv'
      BY <3>1 DEF Errand
    <3>3. SettingsInv' /\ MirrorIsStored'
      BY <3>1, ElsewhereStep
    <3> QED BY <3>2, <3>3
  <2> QED BY <2>1, <2>2
<1>4. CASE InsertSelf(c)
  <2>1. CASE self = Nobody
    <3>1. PICK p \in PersonIds : self' = [id |-> p, name |-> "Me"] /\ AfterBootstrap(c, p)
      BY <1>4, <2>1 DEF InsertSelf
    <3>2. self' # Nobody
      BY <3>1
    <3> QED BY <1>2, <1>4, <2>1, <3>1, <3>2 DEF InsertSelf, PersonOnly
  <2>2. CASE self # Nobody
    <3>1. /\ errand[c] \in [op : {"person"}, at : {"look", "insert"}, name : {Nobody} \cup PersonNames]
          /\ errand' = [errand EXCEPT ![c] = [errand[c] EXCEPT !.at = "look"]]
          /\ UNCHANGED <<self, answered, stored, mirror, window, raced>>
      BY <1>4, <2>2 DEF InsertSelf, PersonOnly, Turn, OnErrand, Errand, Free
    <3>2. ProfileTypeOK' /\ SelfInv'
      BY <3>1 DEF Errand
    <3>3. SettingsInv' /\ MirrorIsStored'
      BY <3>1, ElsewhereStep
    <3> QED BY <3>2, <3>3
  <2> QED BY <2>1, <2>2
<1>5. CASE RenameSelf(c)
  <2>1. /\ errand[c] \in [op : {"person"}, at : {"rename"}, id : PersonIds, name : PersonNames]
        /\ errand' = [errand EXCEPT ![c] = Free]
        /\ UNCHANGED <<answered, stored, mirror, window, raced>>
        /\ \/ UNCHANGED self
           \/ self # Nobody /\ self' = [self EXCEPT !.name = errand[c].name]
    BY <1>5 DEF RenameSelf, PersonOnly, Turn, OnErrand, Errand, Free
  <2>2. /\ self = Nobody => self' = Nobody
        /\ self # Nobody => self' \in [id : PersonIds, name : PersonNames] /\ self'.id = self.id
    BY <2>1
  <2>3. self # Nobody => self' # Nobody
    BY <2>2
  <2>4. ProfileTypeOK' /\ SelfInv'
    BY <2>1, <2>2, <2>3 DEF Errand
  <2>5. SettingsInv' /\ MirrorIsStored'
    BY <2>1, ElsewhereStep DEF Free
  <2> QED BY <2>4, <2>5
<1> QED BY <1>1, <1>3, <1>4, <1>5

\* The identities' commands.
LEMMA IdentityStep ==
    ASSUME ProfileInv, NEW c \in Clerks,
           \/ \E i \in IdentityIds, a \in Actors : UpsertIdentity(c, i, a)
           \/ \E i \in IdentityIds : DropIdentity(c, i)
           \/ DeleteOldIdentity(c) \/ InsertIdentity(c)
    PROVE  ProfileInv'
<1> USE DEF ProfileInv, ProfileTypeOK, SelfInv
<1>1. \E r \in {Free} \cup [op : {"identity"}, at : {"delete", "insert"}, id : IdentityIds,
                            actor : {Nobody} \cup Actors] :
        /\ errand' = [errand EXCEPT ![c] = r]
        /\ errand[c].op # "settings"
        /\ UNCHANGED <<self, answered, stored, mirror, window, raced>>
  <2>1. CASE \/ \E i \in IdentityIds, a \in Actors : UpsertIdentity(c, i, a)
             \/ \E i \in IdentityIds : DropIdentity(c, i)
    BY <2>1 DEF UpsertIdentity, DropIdentity, Take, IdentityOnly, Free
  <2>2. CASE DeleteOldIdentity(c) \/ InsertIdentity(c)
    <3>1. errand[c] \in [op : {"identity"}, at : {"delete", "insert"}, id : IdentityIds,
                         actor : {Nobody} \cup Actors]
      BY <2>2 DEF DeleteOldIdentity, InsertIdentity, OnErrand, Errand, Free
    <3> QED BY <2>2, <3>1 DEF DeleteOldIdentity, InsertIdentity, IdentityOnly, Turn
  <2> QED BY <2>1, <2>2
<1>2. PICK r \in {Free} \cup [op : {"identity"}, at : {"delete", "insert"}, id : IdentityIds,
                              actor : {Nobody} \cup Actors] :
        /\ errand' = [errand EXCEPT ![c] = r]
        /\ errand[c].op # "settings"
        /\ UNCHANGED <<self, answered, stored, mirror, window, raced>>
  BY <1>1
<1>3. ProfileTypeOK' /\ SelfInv'
  BY <1>2 DEF Errand
<1>4. SettingsInv' /\ MirrorIsStored'
  BY <1>2, ElsewhereStep DEF Free
<1> QED BY <1>3, <1>4

\* settings_update: read, patch, write, mirror.
LEMMA SettingsStep ==
    ASSUME ProfileInv, NEW c \in Clerks,
           \/ \E f \in Fields, v \in BOOLEAN : UpdateSettings(c, f, v)
           \/ ReadSettings(c) \/ WriteSettings(c) \/ MirrorSettings(c)
    PROVE  ProfileInv'
<1> USE NobodyIsNone DEF ProfileInv, ProfileTypeOK, SelfInv
<1>1. ASSUME NEW f \in Fields, NEW v \in BOOLEAN, UpdateSettings(c, f, v)  PROVE ProfileInv'
  <2>1. /\ errand[c] = Free
        /\ errand' = [errand EXCEPT
              ![c] = [op |-> "settings", at |-> "read", field |-> f, value |-> v]]
        /\ raced' = (raced \/ \E d \in Clerks : errand[d].op = "settings")
        /\ UNCHANGED <<self, answered, stored, mirror, window>>
    BY <1>1 DEF UpdateSettings, Take, SettingsOnly
  <2>2. ProfileTypeOK' /\ SelfInv'
    BY <2>1 DEF Errand
  <2>3. SettingsInv'
    BY <2>1 DEF SettingsInv, HasSettings
  <2>4. MirrorIsStored'
    BY <2>1 DEF MirrorIsStored, Free
  <2> QED BY <2>2, <2>3, <2>4
<1>2. CASE ReadSettings(c)
  <2> DEFINE current == IF stored = Nobody THEN DefaultSettings ELSE stored
             next == [current EXCEPT ![errand[c].field] = errand[c].value]
  <2>1. /\ errand[c] \in [op : {"settings"}, at : {"read"}, field : Fields, value : BOOLEAN]
        /\ errand' = [errand EXCEPT ![c] = [op |-> "settings", at |-> "write", next |-> next]]
        /\ UNCHANGED <<self, answered, stored, mirror, window, raced>>
    BY <1>2 DEF ReadSettings, OnErrand, Turn, SettingsOnly, Errand, Free
  <2>2. next \in Settings
    <3>1. current \in Settings
      BY DEF DefaultSettings, SettingsOf, Settings
    <3>2. CASE errand[c].field = "keep"
      BY <2>1, <3>1, <3>2 DEF Settings
    <3>3. CASE errand[c].field = "verbose"
      BY <2>1, <3>1, <3>3 DEF Settings
    <3> QED BY <2>1, <3>2, <3>3 DEF Fields
  <2> HIDE DEF next
  <2>3. ProfileTypeOK' /\ SelfInv'
    BY <2>1, <2>2 DEF Errand
  <2>4. SettingsInv'
    BY <2>1 DEF SettingsInv, HasSettings
  <2>5. MirrorIsStored'
    BY <2>1 DEF MirrorIsStored
  <2> QED BY <2>3, <2>4, <2>5
<1>3. CASE WriteSettings(c)
  <2>1. /\ errand[c] \in [op : {"settings"}, at : {"write", "mirror"}, next : Settings]
        /\ errand[c].at = "write"
        /\ UNCHANGED <<self, answered, mirror, window, raced>>
        /\ \/ /\ stored' = errand[c].next
              /\ errand' = [errand EXCEPT ![c] = [errand[c] EXCEPT !.at = "mirror"]]
           \/ errand' = [errand EXCEPT ![c] = Free] /\ UNCHANGED stored
    BY <1>3 DEF WriteSettings, OnErrand, Turn, SettingsOnly, Errand, Free
  <2>2. ProfileTypeOK' /\ SelfInv'
    BY <2>1 DEF Errand
  <2>3. SettingsInv'
    BY <2>1 DEF SettingsInv, HasSettings, Free
  <2>4. MirrorIsStored'
    BY <2>1 DEF MirrorIsStored, Free
  <2> QED BY <2>2, <2>3, <2>4
<1>4. CASE MirrorSettings(c)
  <2>1. /\ errand[c] \in [op : {"settings"}, at : {"write", "mirror"}, next : Settings]
        /\ errand[c].at = "mirror"
        /\ mirror' = errand[c].next.keep
        /\ errand' = [errand EXCEPT ![c] = Free]
        /\ UNCHANGED <<self, answered, stored, window, raced>>
    BY <1>4 DEF MirrorSettings, OnErrand, Turn, SettingsOnly, Errand, Free
  <2>2. ProfileTypeOK' /\ SelfInv'
    BY <2>1 DEF Errand, Settings
  <2>3. SettingsInv'
    BY <2>1 DEF SettingsInv, HasSettings, Free
  <2>4. ~raced => stored = errand[c].next /\ stored # Nobody
    BY <2>1 DEF SettingsInv, HasSettings, Settings, SettingsOf
  <2>5. MirrorIsStored'
    BY <2>1, <2>4 DEF MirrorIsStored
  <2> QED BY <2>2, <2>3, <2>5
<1> QED BY <1>1, <1>2, <1>3, <1>4

\* The window, the end of the process and its next start.
LEMMA MainWindowStep ==
    ASSUME ProfileInv, CloseWindow \/ ShowWindow \/ StartAgain
    PROVE  ProfileInv'
<1> USE DEF ProfileInv, ProfileTypeOK, SelfInv
<1>1. CASE CloseWindow
  <2>1. ProfileTypeOK' /\ SelfInv'
    BY <1>1 DEF CloseWindow, Errand
  <2>2. SettingsInv'
    BY <1>1 DEF CloseWindow, SettingsInv, HasSettings, Free
  <2>3. MirrorIsStored'
    BY <1>1 DEF CloseWindow, MirrorIsStored
  <2> QED BY <2>1, <2>2, <2>3
<1>2. CASE ShowWindow
  <2>1. ProfileTypeOK' /\ SelfInv' /\ SettingsInv'
    BY <1>2 DEF ShowWindow, SettingsInv, HasSettings
  <2>2. MirrorIsStored'
    BY <1>2 DEF ShowWindow, MirrorIsStored
  <2> QED BY <2>1, <2>2
<1>3. CASE StartAgain
  <2>1. ProfileTypeOK' /\ SelfInv'
    BY <1>3 DEF StartAgain, Errand, DefaultSettings, SettingsOf, Settings
  <2>2. SettingsInv'
    BY <1>3 DEF StartAgain, SettingsInv, HasSettings, Free
  <2>3. MirrorIsStored'
    BY <1>3 DEF StartAgain, MirrorIsStored
  <2> QED BY <2>1, <2>2, <2>3
<1> QED BY <1>1, <1>2, <1>3

\* The answers, the settings in hand and the mirror agree in every reachable state.
THEOREM ProfileInvariance == ProfileSpec => []ProfileInv
<1>1. ProfileInit => ProfileInv
  <2> SUFFICES ASSUME ProfileInit PROVE ProfileInv
    OBVIOUS
  <2>1. ProfileTypeOK
    <3>1. self \in {Nobody} \cup [id : PersonIds, name : PersonNames]
      BY DEF ProfileInit, PersonNames
    <3>2. stored \in {Nobody} \cup Settings
      <4>1. \A k, v \in BOOLEAN : SettingsOf(k, v) \in Settings
        BY DEF SettingsOf, Settings
      <4>2. SettingsOf(FALSE, TRUE) \in Settings
        BY <4>1
      <4> QED BY <4>2 DEF ProfileInit
    <3>3. mirror \in BOOLEAN
      BY <3>2 DEF ProfileInit, SettingsOf, Settings
    <3>4. raced \in BOOLEAN /\ window = "shown" /\ errand \in [Clerks -> Errand]
      BY DEF ProfileInit, Errand
    <3> QED BY <3>1, <3>2, <3>3, <3>4 DEF ProfileTypeOK
  <2>2. SelfInv
    BY DEF ProfileInit, SelfInv
  <2>3. SettingsInv
    BY DEF ProfileInit, SettingsInv, HasSettings, Free
  <2>4. MirrorIsStored
    BY DEF ProfileInit, MirrorIsStored, DefaultSettings, SettingsOf
  <2> QED BY <2>1, <2>2, <2>3, <2>4 DEF ProfileInv
<1>2. ProfileInv /\ [ProfileNext]_profileVars => ProfileInv'
  <2> SUFFICES ASSUME ProfileInv, [ProfileNext]_profileVars PROVE ProfileInv'
    OBVIOUS
  <2>1. CASE UNCHANGED profileVars
    BY <2>1 DEF profileVars, ProfileInv, ProfileTypeOK, SelfInv, SettingsInv, HasSettings, MirrorIsStored
  <2> QED BY <2>1, PersonStep, IdentityStep, SettingsStep, MainWindowStep DEF ProfileNext
<1> QED BY <1>1, <1>2, PTL DEF ProfileSpec

\* ProfileIsConsistent (persons.rs:22-29, commands.rs:154-165): however many
\* commands bootstrap, update and fail, there is one self, and the window does
\* what is stored.
THEOREM ConsistentProfile == ProfileSpec => []ProfileIsConsistent
<1>1. ProfileInv => ProfileIsConsistent
  <2> SUFFICES ASSUME ProfileInv PROVE ProfileIsConsistent
    OBVIOUS
  <2>1. CASE answered = {}
    BY <2>1, FS_EmptySet DEF ProfileInv, ProfileIsConsistent, OneSelf
  <2>2. CASE answered # {}
    <3>1. self # Nobody /\ answered = {self.id}
      BY <2>2 DEF ProfileInv, SelfInv
    <3>2. Cardinality(answered) = 1
      BY <3>1, FS_Singleton
    <3> QED BY <3>1, <3>2 DEF ProfileInv, ProfileIsConsistent, OneSelf
  <2> QED BY <2>1, <2>2
<1> QED BY <1>1, ProfileInvariance, PTL

(***************************************************************************)
(* Retention.  Spacing: every claim since the last external sweep is at    *)
(* most `last`, and a claim is granted only MinInterval after it.  Window: a *)
(* sweep's clock was read before its statements run, so its cutoff lies at *)
(* or before the window's present start, and whatever is written while it  *)
(* runs lies behind its cutoff.                                            *)
(***************************************************************************)

Sweep ==
    {Idle}
    \cup [at : {"claim", "read"}, by : {"startup", "user", "run"}, now : Int]
    \cup [at : {"payloads", "logs", "note"}, by : {"startup", "user", "run"}, now : Int,
          cutoff : Int]

RetentionTypeOK ==
    /\ clock \in Int
    /\ days \in {Never, DefaultDays}
    /\ payloads \subseteq Int /\ logs \subseteq Int /\ written \subseteq Int
    /\ last \in Int \cup {Never}
    /\ swept \in Int \cup {Never}
    /\ claimed \subseteq Int
    /\ sweeper \in [Sweepers -> Sweep]

\* Every claim lies at or before the last sweep the schedule knows of.
ClaimInv ==
    /\ claimed # {} => last \in Int
    /\ \A t \in claimed : t <= last

\* A sweep looks back from a moment that has passed, by the window.
CutoffInv ==
    \A s \in Sweepers : sweeper[s] # Idle =>
        /\ sweeper[s].now <= clock
        /\ sweeper[s].at \in {"payloads", "logs", "note"} =>
              sweeper[s].cutoff = sweeper[s].now - DefaultDays
        /\ sweeper[s].at = "logs" => \A t \in payloads : t >= sweeper[s].cutoff

\* A finished sweep lies behind the window's start.
SweptInv == swept # Never => swept <= clock

RetentionInv == RetentionTypeOK /\ ClaimInv /\ SweepsAreSpaced /\ CutoffInv /\ SweptInv /\ WindowIsKept

\* Every step keeps the types.
LEMMA RetentionTypeStep ==
    ASSUME RetentionTypeOK, [RetentionNext]_retentionVars
    PROVE  RetentionTypeOK'
<1> USE RetentionAssumption DEF RetentionTypeOK, Sweep, Turned, Rows, Schedule, Is, Idle
<1>1. CASE Tick
  BY <1>1 DEF Tick
<1>2. CASE WriteRow
  BY <1>2 DEF WriteRow
<1>3. CASE QuitSweeping
  BY <1>3 DEF QuitSweeping
<1>4. CASE BootAgain
  BY <1>4 DEF BootAgain
<1>5. ASSUME NEW s \in Sweepers, BeginStartup(s)  PROVE RetentionTypeOK'
  BY <1>5 DEF BeginStartup
<1>6. ASSUME NEW s \in Sweepers, SweepNow(s)  PROVE RetentionTypeOK'
  BY <1>6 DEF SweepNow
<1>7. ASSUME NEW s \in Sweepers, RunEnded(s)  PROVE RetentionTypeOK'
  BY <1>7 DEF RunEnded
<1>8. ASSUME NEW s \in Sweepers, ClaimSweepSlot(s)  PROVE RetentionTypeOK'
  BY <1>8 DEF ClaimSweepSlot
<1>9. ASSUME NEW s \in Sweepers, SweepFails(s)  PROVE RetentionTypeOK'
  BY <1>9 DEF SweepFails, GiveUp
<1>10. ASSUME NEW s \in Sweepers, ResolveCutoff(s)  PROVE RetentionTypeOK'
  BY <1>10 DEF ResolveCutoff
<1>11. ASSUME NEW s \in Sweepers, PrunePayloads(s)  PROVE RetentionTypeOK'
  BY <1>11 DEF PrunePayloads, KeptFrom
<1>12. ASSUME NEW s \in Sweepers, PruneLogs(s)  PROVE RetentionTypeOK'
  BY <1>12 DEF PruneLogs, KeptFrom
<1>13. ASSUME NEW s \in Sweepers, NoteExternalSweep(s)  PROVE RetentionTypeOK'
  BY <1>13 DEF NoteExternalSweep
<1>14. CASE UNCHANGED retentionVars
  BY <1>14 DEF retentionVars
<1> QED
  BY <1>1, <1>2, <1>3, <1>4, <1>5, <1>6, <1>7, <1>8, <1>9, <1>10, <1>11, <1>12,
     <1>13, <1>14 DEF RetentionNext

\* A claim, a note and a restart keep the claims at or before `last`.
LEMMA ClaimStep ==
    ASSUME RetentionTypeOK, ClaimInv, [RetentionNext]_retentionVars
    PROVE  ClaimInv'
<1> USE RetentionAssumption
    DEF RetentionTypeOK, Sweep, Turned, Rows, Schedule, Is, Idle, ClaimInv
<1>1. CASE Tick
  BY <1>1 DEF Tick
<1>2. CASE WriteRow
  BY <1>2 DEF WriteRow
<1>3. CASE QuitSweeping
  BY <1>3 DEF QuitSweeping
<1>4. CASE BootAgain
  BY <1>4 DEF BootAgain
<1>5. ASSUME NEW s \in Sweepers, BeginStartup(s)  PROVE ClaimInv'
  BY <1>5 DEF BeginStartup
<1>6. ASSUME NEW s \in Sweepers, SweepNow(s)  PROVE ClaimInv'
  BY <1>6 DEF SweepNow
<1>7. ASSUME NEW s \in Sweepers, RunEnded(s)  PROVE ClaimInv'
  BY <1>7 DEF RunEnded
<1>8. ASSUME NEW s \in Sweepers, ClaimSweepSlot(s)  PROVE ClaimInv'
  BY <1>8 DEF ClaimSweepSlot
<1>9. ASSUME NEW s \in Sweepers, SweepFails(s)  PROVE ClaimInv'
  BY <1>9 DEF SweepFails, GiveUp
<1>10. ASSUME NEW s \in Sweepers, ResolveCutoff(s)  PROVE ClaimInv'
  BY <1>10 DEF ResolveCutoff
<1>11. ASSUME NEW s \in Sweepers, PrunePayloads(s)  PROVE ClaimInv'
  BY <1>11 DEF PrunePayloads, KeptFrom
<1>12. ASSUME NEW s \in Sweepers, PruneLogs(s)  PROVE ClaimInv'
  BY <1>12 DEF PruneLogs, KeptFrom
<1>13. ASSUME NEW s \in Sweepers, NoteExternalSweep(s)  PROVE ClaimInv'
  BY <1>13 DEF NoteExternalSweep
<1>14. CASE UNCHANGED retentionVars
  BY <1>14 DEF retentionVars
<1> QED
  BY <1>1, <1>2, <1>3, <1>4, <1>5, <1>6, <1>7, <1>8, <1>9, <1>10, <1>11, <1>12,
     <1>13, <1>14 DEF RetentionNext

\* A claim is granted an interval after `last`, and so after every claim.
LEMMA SpacedStep ==
    ASSUME RetentionTypeOK, ClaimInv, SweepsAreSpaced, [RetentionNext]_retentionVars
    PROVE  SweepsAreSpaced'
<1> USE RetentionAssumption
    DEF RetentionTypeOK, Sweep, Turned, Rows, Schedule, Is, Idle, ClaimInv, SweepsAreSpaced
<1>1. CASE Tick
  BY <1>1 DEF Tick
<1>2. CASE WriteRow
  BY <1>2 DEF WriteRow
<1>3. CASE QuitSweeping
  BY <1>3 DEF QuitSweeping
<1>4. CASE BootAgain
  BY <1>4 DEF BootAgain
<1>5. ASSUME NEW s \in Sweepers, BeginStartup(s)  PROVE SweepsAreSpaced'
  BY <1>5 DEF BeginStartup
<1>6. ASSUME NEW s \in Sweepers, SweepNow(s)  PROVE SweepsAreSpaced'
  BY <1>6 DEF SweepNow
<1>7. ASSUME NEW s \in Sweepers, RunEnded(s)  PROVE SweepsAreSpaced'
  BY <1>7 DEF RunEnded
<1>8. ASSUME NEW s \in Sweepers, ClaimSweepSlot(s)  PROVE SweepsAreSpaced'
  BY <1>8 DEF ClaimSweepSlot
<1>9. ASSUME NEW s \in Sweepers, SweepFails(s)  PROVE SweepsAreSpaced'
  BY <1>9 DEF SweepFails, GiveUp
<1>10. ASSUME NEW s \in Sweepers, ResolveCutoff(s)  PROVE SweepsAreSpaced'
  BY <1>10 DEF ResolveCutoff
<1>11. ASSUME NEW s \in Sweepers, PrunePayloads(s)  PROVE SweepsAreSpaced'
  BY <1>11 DEF PrunePayloads, KeptFrom
<1>12. ASSUME NEW s \in Sweepers, PruneLogs(s)  PROVE SweepsAreSpaced'
  BY <1>12 DEF PruneLogs, KeptFrom
<1>13. ASSUME NEW s \in Sweepers, NoteExternalSweep(s)  PROVE SweepsAreSpaced'
  BY <1>13 DEF NoteExternalSweep
<1>14. CASE UNCHANGED retentionVars
  BY <1>14 DEF retentionVars
<1> QED
  BY <1>1, <1>2, <1>3, <1>4, <1>5, <1>6, <1>7, <1>8, <1>9, <1>10, <1>11, <1>12,
     <1>13, <1>14 DEF RetentionNext

\* What is written while a sweep runs lies behind its cutoff.
LEMMA CutoffStep ==
    ASSUME RetentionTypeOK, CutoffInv, [RetentionNext]_retentionVars
    PROVE  CutoffInv'
<1> USE RetentionAssumption
    DEF RetentionTypeOK, Sweep, Turned, Rows, Schedule, Is, Idle, CutoffInv
<1>1. CASE Tick
  BY <1>1 DEF Tick
<1>2. CASE WriteRow
  BY <1>2 DEF WriteRow
<1>3. CASE QuitSweeping
  BY <1>3 DEF QuitSweeping
<1>4. CASE BootAgain
  BY <1>4 DEF BootAgain
<1>5. ASSUME NEW s \in Sweepers, BeginStartup(s)  PROVE CutoffInv'
  BY <1>5 DEF BeginStartup
<1>6. ASSUME NEW s \in Sweepers, SweepNow(s)  PROVE CutoffInv'
  BY <1>6 DEF SweepNow
<1>7. ASSUME NEW s \in Sweepers, RunEnded(s)  PROVE CutoffInv'
  BY <1>7 DEF RunEnded
<1>8. ASSUME NEW s \in Sweepers, ClaimSweepSlot(s)  PROVE CutoffInv'
  BY <1>8 DEF ClaimSweepSlot
<1>9. ASSUME NEW s \in Sweepers, SweepFails(s)  PROVE CutoffInv'
  BY <1>9 DEF SweepFails, GiveUp
<1>10. ASSUME NEW s \in Sweepers, ResolveCutoff(s)  PROVE CutoffInv'
  BY <1>10 DEF ResolveCutoff
<1>11. ASSUME NEW s \in Sweepers, PrunePayloads(s)  PROVE CutoffInv'
  BY <1>11 DEF PrunePayloads, KeptFrom
<1>12. ASSUME NEW s \in Sweepers, PruneLogs(s)  PROVE CutoffInv'
  BY <1>12 DEF PruneLogs, KeptFrom
<1>13. ASSUME NEW s \in Sweepers, NoteExternalSweep(s)  PROVE CutoffInv'
  BY <1>13 DEF NoteExternalSweep
<1>14. CASE UNCHANGED retentionVars
  BY <1>14 DEF retentionVars
<1> QED
  BY <1>1, <1>2, <1>3, <1>4, <1>5, <1>6, <1>7, <1>8, <1>9, <1>10, <1>11, <1>12,
     <1>13, <1>14 DEF RetentionNext

\* A sweep's cutoff has passed.
LEMMA SweptStep ==
    ASSUME RetentionTypeOK, CutoffInv, SweptInv, [RetentionNext]_retentionVars
    PROVE  SweptInv'
<1> USE RetentionAssumption
    DEF RetentionTypeOK, Sweep, Turned, Rows, Schedule, Is, Idle, CutoffInv, SweptInv
<1>1. CASE Tick
  BY <1>1 DEF Tick
<1>2. CASE WriteRow
  BY <1>2 DEF WriteRow
<1>3. CASE QuitSweeping
  BY <1>3 DEF QuitSweeping
<1>4. CASE BootAgain
  BY <1>4 DEF BootAgain
<1>5. ASSUME NEW s \in Sweepers, BeginStartup(s)  PROVE SweptInv'
  BY <1>5 DEF BeginStartup
<1>6. ASSUME NEW s \in Sweepers, SweepNow(s)  PROVE SweptInv'
  BY <1>6 DEF SweepNow
<1>7. ASSUME NEW s \in Sweepers, RunEnded(s)  PROVE SweptInv'
  BY <1>7 DEF RunEnded
<1>8. ASSUME NEW s \in Sweepers, ClaimSweepSlot(s)  PROVE SweptInv'
  BY <1>8 DEF ClaimSweepSlot
<1>9. ASSUME NEW s \in Sweepers, SweepFails(s)  PROVE SweptInv'
  BY <1>9 DEF SweepFails, GiveUp
<1>10. ASSUME NEW s \in Sweepers, ResolveCutoff(s)  PROVE SweptInv'
  BY <1>10 DEF ResolveCutoff
<1>11. ASSUME NEW s \in Sweepers, PrunePayloads(s)  PROVE SweptInv'
  BY <1>11 DEF PrunePayloads, KeptFrom
<1>12. ASSUME NEW s \in Sweepers, PruneLogs(s)  PROVE SweptInv'
  BY <1>12 DEF PruneLogs, KeptFrom
<1>13. ASSUME NEW s \in Sweepers, NoteExternalSweep(s)  PROVE SweptInv'
  BY <1>13 DEF NoteExternalSweep
<1>14. CASE UNCHANGED retentionVars
  BY <1>14 DEF retentionVars
<1> QED
  BY <1>1, <1>2, <1>3, <1>4, <1>5, <1>6, <1>7, <1>8, <1>9, <1>10, <1>11, <1>12,
     <1>13, <1>14 DEF RetentionNext

\* No statement of a sweep deletes inside the window, and the last leaves nothing
\* older than the cutoff.
LEMMA WindowStep ==
    ASSUME RetentionTypeOK, CutoffInv, SweptInv, WindowIsKept, [RetentionNext]_retentionVars
    PROVE  WindowIsKept'
<1> USE RetentionAssumption
    DEF RetentionTypeOK, Sweep, Turned, Rows, Schedule, Is, Idle, CutoffInv, SweptInv, WindowIsKept
<1>1. CASE Tick
  BY <1>1 DEF Tick
<1>2. CASE WriteRow
  BY <1>2 DEF WriteRow
<1>3. CASE QuitSweeping
  BY <1>3 DEF QuitSweeping
<1>4. CASE BootAgain
  BY <1>4 DEF BootAgain
<1>5. ASSUME NEW s \in Sweepers, BeginStartup(s)  PROVE WindowIsKept'
  BY <1>5 DEF BeginStartup
<1>6. ASSUME NEW s \in Sweepers, SweepNow(s)  PROVE WindowIsKept'
  BY <1>6 DEF SweepNow
<1>7. ASSUME NEW s \in Sweepers, RunEnded(s)  PROVE WindowIsKept'
  BY <1>7 DEF RunEnded
<1>8. ASSUME NEW s \in Sweepers, ClaimSweepSlot(s)  PROVE WindowIsKept'
  BY <1>8 DEF ClaimSweepSlot
<1>9. ASSUME NEW s \in Sweepers, SweepFails(s)  PROVE WindowIsKept'
  BY <1>9 DEF SweepFails, GiveUp
<1>10. ASSUME NEW s \in Sweepers, ResolveCutoff(s)  PROVE WindowIsKept'
  BY <1>10 DEF ResolveCutoff
<1>11. ASSUME NEW s \in Sweepers, PrunePayloads(s)  PROVE WindowIsKept'
  BY <1>11 DEF PrunePayloads, KeptFrom
<1>12. ASSUME NEW s \in Sweepers, PruneLogs(s)  PROVE WindowIsKept'
  BY <1>12 DEF PruneLogs, KeptFrom
<1>13. ASSUME NEW s \in Sweepers, NoteExternalSweep(s)  PROVE WindowIsKept'
  BY <1>13 DEF NoteExternalSweep
<1>14. CASE UNCHANGED retentionVars
  BY <1>14 DEF retentionVars
<1> QED
  BY <1>1, <1>2, <1>3, <1>4, <1>5, <1>6, <1>7, <1>8, <1>9, <1>10, <1>11, <1>12,
     <1>13, <1>14 DEF RetentionNext

\* The inductive invariant holds at the start and is kept by every step.
THEOREM RetentionInvariance == RetentionSpec => []RetentionInv
<1>1. RetentionInit => RetentionInv
  BY RetentionAssumption DEF RetentionInit, RetentionInv, RetentionTypeOK, Sweep, Idle, ClaimInv,
     SweepsAreSpaced, CutoffInv, SweptInv, WindowIsKept
<1>2. RetentionInv /\ [RetentionNext]_retentionVars => RetentionInv'
  BY RetentionTypeStep, ClaimStep, SpacedStep, CutoffStep, SweptStep, WindowStep DEF RetentionInv
<1> QED
  BY <1>1, <1>2, PTL DEF RetentionSpec

\* retention.rs:88-102, 176-184: however sweeps interleave, their claims are an
\* interval apart, nothing inside the window goes and nothing too old stays.
THEOREM SoundSweeps == RetentionSpec => []SweepsAreSound
BY RetentionInvariance, PTL DEF RetentionInv, SweepsAreSound

(***************************************************************************)
(* Evidence: a row stands at the key of the one event it is of, and goes   *)
(* only with its source; so a stored batch stays whole, a draft cites stored *)
(* batches, and an answer is of what its draft cited.                      *)
(***************************************************************************)

Shelved == {shelf[k].id : k \in DOMAIN shelf}

EvidenceTypeOK ==
    /\ alive \subseteq Origins
    /\ fate \in [Tries -> {"none", "fetched", "stored", "drafted", "failed"}]
    /\ batch \in [Tries -> SUBSET AllEvents]
    /\ credited \subseteq Tries
    /\ preview.draft \in Tries \cup {NoTry}
    /\ preview.n \in Nat
    /\ preview = [draft |-> preview.draft, active |-> preview.active, n |-> preview.n,
                  events |-> preview.events]
    /\ \A a \in answers : a = [n |-> a.n, ids |-> a.ids, reply |-> a.reply]

\* A row stands at the key of its event, whose source is there, and was brought
\* by a run that stored its batch.
ShelfInv ==
    \A key \in DOMAIN shelf :
        /\ \E s \in alive : shelf[key].id \in EventsOf[s]
        /\ key = RowKey(shelf[key].id)
        /\ shelf[key].run \in credited
        /\ shelf[key].id \in batch[shelf[key].run]

\* A batch that was stored is there as far as its sources are.
StoredInv ==
    /\ \A r \in credited : fate[r] \notin {"none", "fetched"}
    /\ \A r \in Tries : fate[r] \in {"stored", "drafted"} =>
         batch[r] \cap OfSources(alive) \subseteq Shelved

\* What a popover may show for the events `ids`.
Shows(reply, ids) ==
    reply.at = "read" =>
        /\ DOMAIN reply.rows \subseteq ids
        /\ ids \cap OfSources(alive) \subseteq DOMAIN reply.rows
        /\ \A id \in DOMAIN reply.rows : reply.rows[id].kind = id[3]

\* An answer is of events a stored draft cites, and the one that counts is of the
\* bullet that is open.
AnswersInv ==
    /\ preview.draft # NoTry => fate[preview.draft] = "drafted"
    /\ \A a \in answers :
         /\ a.n \in Nat /\ a.n <= preview.n
         /\ \E r \in Tries : fate[r] = "drafted" /\ a.ids \subseteq batch[r]
         /\ a.n = preview.n /\ preview.events # Shut => a.ids = preview.active
         /\ Shows(a.reply, a.ids)
    /\ Shows(preview.events, preview.active)

EvidenceInv == EvidenceTypeOK /\ ShelfInv /\ StoredInv /\ AnswersInv

\* One text per kind.
LEMMA KindsAreApart ==
    \A i, j \in DOMAIN ActivityKinds : ActivityKinds[i] = ActivityKinds[j] => i = j
<1>1. DOMAIN ActivityKinds = 1 .. 27
  BY DEF ActivityKinds
<1> QED BY <1>1 DEF ActivityKinds

\* The unique key of activity_events names one event.
LEMMA OneEventPerRow ==
    ASSUME NEW d \in AllEvents, NEW e \in AllEvents, RowKey(d) = RowKey(e)
    PROVE  d = e
<1>1. PICK s \in Origins : d \in EventsOf[s]
  BY EventsAreNamed DEF AllEvents
<1>2. PICK t \in Origins : e \in EventsOf[t]
  BY EventsAreNamed DEF AllEvents
<1>3. d = <<s, d[2], d[3]>> /\ d[3] \in DOMAIN ActivityKinds
  BY <1>1, EventsAreNamed
<1>4. e = <<t, e[2], e[3]>> /\ e[3] \in DOMAIN ActivityKinds
  BY <1>2, EventsAreNamed
<1>5. s = t /\ d[2] = e[2] /\ ActivityKinds[d[3]] = ActivityKinds[e[3]]
  BY <1>3, <1>4 DEF RowKey, KindToDb
<1> QED BY <1>3, <1>4, <1>5, KindsAreApart

\* Runs: the fan-out, the failures and the draft leave the shelf alone.
LEMMA TryStep ==
    ASSUME EvidenceInv, NEW r \in Tries,
           GatherEvents(r) \/ InsertManyFails(r) \/ InsertDraft(r) \/ NoDraft(r)
    PROVE  EvidenceInv'
<1> USE DEF EvidenceInv, EvidenceTypeOK, Enter
<1>1. /\ UNCHANGED <<alive, shelf, preview, answers, credited>>
      /\ \E next \in {"fetched", "failed", "drafted"} : fate' = [fate EXCEPT ![r] = next]
      /\ fate[r] \notin {"drafted"}
      /\ batch' = batch \/ (fate[r] = "none" /\ \E got \in SUBSET OfSources(alive) :
                                batch' = [batch EXCEPT ![r] = got])
      /\ fate'[r] = "drafted" => fate[r] = "stored" /\ batch' = batch
      /\ fate'[r] = "fetched" => fate[r] = "none"
  BY DEF GatherEvents, InsertManyFails, InsertDraft, NoDraft, RolledBack
<1>2. OfSources(alive) \subseteq AllEvents
  BY DEF OfSources, AllEvents
<1>3. EvidenceTypeOK'
  BY <1>1, <1>2
<1>4. ShelfInv'
  BY <1>1 DEF ShelfInv, StoredInv
<1>5. StoredInv'
  BY <1>1 DEF StoredInv, Shelved, OfSources
<1>6. AnswersInv'
  BY <1>1 DEF AnswersInv, Shows, OfSources
<1> QED BY <1>3, <1>4, <1>5, <1>6

\* The stored batch: each of its events has its row now, and no row is lost.
LEMMA InsertStep ==
    ASSUME EvidenceInv, NEW r \in Tries, InsertMany(r)
    PROVE  EvidenceInv'
<1> USE DEF EvidenceInv, EvidenceTypeOK, Enter
<1> DEFINE keys == {RowKey(e) : e \in batch[r]}
<1>1. /\ UNCHANGED <<alive, batch, preview, answers>>
      /\ fate[r] = "fetched" /\ batch[r] \subseteq OfSources(alive)
      /\ fate' = [fate EXCEPT ![r] = "stored"]
      /\ credited' = credited \cup {r}
      /\ shelf' = Upserted(batch[r], r)
  BY DEF InsertMany
<1>2. DOMAIN shelf' = DOMAIN shelf \cup keys
  BY <1>1 DEF Upserted
<1>3. \A e \in batch[r] : e \in AllEvents
  OBVIOUS
<1>4. \A key \in DOMAIN shelf : shelf[key].id \in AllEvents
  BY DEF ShelfInv, AllEvents
<1>5. \A key \in DOMAIN shelf \ keys : shelf'[key] = shelf[key]
  BY <1>1, <1>2 DEF Upserted
<1>6. \A e \in batch[r] : shelf'[RowKey(e)].id = e /\ shelf'[RowKey(e)].run = r
  <2> SUFFICES ASSUME NEW e \in batch[r]
               PROVE  shelf'[RowKey(e)].id = e /\ shelf'[RowKey(e)].run = r
    OBVIOUS
  <2> DEFINE key == RowKey(e)
  <2>1. key \in keys
    OBVIOUS
  <2>2. shelf'[key] = [id |-> IF key \in DOMAIN shelf THEN shelf[key].id
                              ELSE CHOOSE d \in batch[r] : RowKey(d) = key,
                       run |-> r]
    BY <1>1, <2>1 DEF Upserted
  <2>3. CASE key \in DOMAIN shelf
    <3>1. shelf[key].id = e
      BY <1>3, <1>4, <2>3, OneEventPerRow DEF ShelfInv
    <3> QED BY <2>2, <2>3, <3>1
  <2>4. CASE key \notin DOMAIN shelf
    <3>1. (CHOOSE d \in batch[r] : RowKey(d) = key) = e
      <4> DEFINE d == CHOOSE d \in batch[r] : RowKey(d) = key
      <4>1. d \in batch[r] /\ RowKey(d) = RowKey(e)
        OBVIOUS
      <4> QED BY <1>3, <4>1, OneEventPerRow
    <3> QED BY <2>2, <2>4, <3>1
  <2> QED BY <2>3, <2>4
<1>7. EvidenceTypeOK'
  BY <1>1
<1>8. ShelfInv'
  <2> SUFFICES ASSUME NEW key \in DOMAIN shelf'
               PROVE  /\ \E s \in alive : shelf'[key].id \in EventsOf[s]
                      /\ key = RowKey(shelf'[key].id)
                      /\ shelf'[key].run \in credited'
                      /\ shelf'[key].id \in batch[shelf'[key].run]
    BY <1>1 DEF ShelfInv
  <2>1. CASE key \in keys
    <3>1. PICK e \in batch[r] : key = RowKey(e)
      BY <2>1
    <3>2. shelf'[key].id = e /\ shelf'[key].run = r
      BY <1>6, <3>1
    <3>3. \E s \in alive : e \in EventsOf[s]
      BY <1>1 DEF OfSources
    <3> QED BY <1>1, <3>1, <3>2, <3>3
  <2>2. CASE key \notin keys
    <3>1. key \in DOMAIN shelf /\ shelf'[key] = shelf[key]
      BY <1>2, <1>5, <2>2
    <3> QED BY <1>1, <3>1 DEF ShelfInv
  <2> QED BY <2>1, <2>2
<1>9. batch[r] \subseteq Shelved'
  <2> SUFFICES ASSUME NEW e \in batch[r] PROVE e \in Shelved'
    OBVIOUS
  <2>1. RowKey(e) \in DOMAIN shelf'
    BY <1>2
  <2>2. shelf'[RowKey(e)].id = e
    BY <1>6
  <2> QED BY <2>1, <2>2 DEF Shelved
<1>10. Shelved \subseteq Shelved'
  <2> SUFFICES ASSUME NEW key \in DOMAIN shelf PROVE shelf[key].id \in Shelved'
    BY DEF Shelved
  <2>1. CASE key \in keys
    <3>1. PICK e \in batch[r] : key = RowKey(e)
      BY <2>1
    <3>2. shelf[key].id = e
      BY <1>3, <1>4, <3>1, OneEventPerRow DEF ShelfInv
    <3> QED BY <1>9, <3>2
  <2>2. CASE key \notin keys
    BY <1>2, <1>5, <2>2 DEF Shelved
  <2> QED BY <2>1, <2>2
<1>11. StoredInv'
  BY <1>1, <1>9, <1>10 DEF StoredInv, OfSources
<1>12. AnswersInv'
  BY <1>1 DEF AnswersInv, Shows, OfSources
<1> QED BY <1>7, <1>8, <1>11, <1>12

\* A deleted source takes its own rows and no other.
LEMMA DropStep ==
    ASSUME EvidenceInv, NEW s \in Origins, DropOrigin(s)
    PROVE  EvidenceInv'
<1> USE DEF EvidenceInv, EvidenceTypeOK
<1>1. /\ alive' = alive \ {s}
      /\ shelf' = [key \in {k \in DOMAIN shelf : k[1] # s} |-> shelf[key]]
      /\ UNCHANGED <<fate, batch, preview, answers, credited>>
  BY DEF DropOrigin
<1>2. \A key \in DOMAIN shelf : \A t \in Origins :
         shelf[key].id \in EventsOf[t] => key[1] = t
  BY EventsAreNamed DEF ShelfInv, RowKey
<1>3. DOMAIN shelf' = {k \in DOMAIN shelf : k[1] # s} /\ \A k \in DOMAIN shelf' : shelf'[k] = shelf[k]
  BY <1>1
<1>4. OfSources(alive') \subseteq OfSources(alive)
  BY <1>1 DEF OfSources
<1>5. Shelved \cap OfSources(alive') \subseteq Shelved'
  <2> SUFFICES ASSUME NEW key \in DOMAIN shelf, NEW t \in alive', shelf[key].id \in EventsOf[t]
               PROVE  shelf[key].id \in Shelved'
    BY DEF Shelved, OfSources
  <2>1. key[1] = t /\ t # s
    BY <1>1, <1>2
  <2> QED BY <1>3, <2>1 DEF Shelved
<1>6. EvidenceTypeOK'
  BY <1>1
<1>7. ShelfInv'
  <2> SUFFICES ASSUME NEW key \in DOMAIN shelf'
               PROVE  /\ \E t \in alive' : shelf'[key].id \in EventsOf[t]
                      /\ key = RowKey(shelf'[key].id)
                      /\ shelf'[key].run \in credited
                      /\ shelf'[key].id \in batch[shelf'[key].run]
    BY <1>1 DEF ShelfInv
  <2>1. PICK t \in alive : shelf[key].id \in EventsOf[t]
    BY <1>3 DEF ShelfInv
  <2>2. t # s
    BY <1>2, <1>3, <2>1
  <2> QED BY <1>1, <1>3, <2>1, <2>2 DEF ShelfInv
<1>8. StoredInv'
  BY <1>1, <1>4, <1>5 DEF StoredInv
<1>9. AnswersInv'
  BY <1>1, <1>4 DEF AnswersInv, Shows
<1> QED BY <1>6, <1>7, <1>8, <1>9

\* The popover moves to another bullet, or the draft changes under it: only an
\* answer to its last call counts, and that one asks for its bullet.
LEMMA LookStep ==
    ASSUME EvidenceInv, NEW draft \in Tries \cup {NoTry}, NEW active,
           draft # NoTry => fate[draft] = "drafted",
           Look(draft, active), UNCHANGED <<alive, fate, batch, shelf, credited>>
    PROVE  EvidenceInv'
<1> USE DEF EvidenceInv, EvidenceTypeOK
<1>1. CASE active \in Bullets(draft)
  <2>1. draft \in Tries /\ fate[draft] = "drafted" /\ active \subseteq batch[draft]
    BY <1>1 DEF Bullets
  <2>2. /\ preview' = [draft |-> draft, active |-> active, n |-> preview.n + 1, events |-> Unread]
        /\ answers' = answers \cup {[n |-> preview.n + 1, ids |-> active, reply |-> Unread]}
    BY <1>1 DEF Look
  <2>3. preview'.n = preview.n + 1 /\ preview'.active = active /\ preview'.draft = draft
        /\ preview'.events = Unread
    BY <2>2
  <2>4. EvidenceTypeOK'
    BY <2>1, <2>2, <2>3
  <2>5. ShelfInv' /\ StoredInv'
    BY DEF ShelfInv, StoredInv, Shelved, OfSources
  <2>6. ASSUME NEW a \in answers'
        PROVE  /\ a.n \in Nat /\ a.n <= preview'.n
               /\ \E r \in Tries : fate[r] = "drafted" /\ a.ids \subseteq batch[r]
               /\ a.n = preview'.n => a.ids = active
               /\ Shows(a.reply, a.ids)
    <3>1. CASE a \in answers
      <4>1. a.n \in Nat /\ a.n <= preview.n
        BY <3>1 DEF AnswersInv
      <4>2. a.n # preview'.n /\ a.n <= preview'.n
        BY <2>3, <4>1
      <4> QED BY <3>1, <4>1, <4>2 DEF AnswersInv
    <3>2. CASE a = [n |-> preview.n + 1, ids |-> active, reply |-> Unread]
      <4>1. a.n = preview.n + 1 /\ a.ids = active /\ a.reply = Unread
        BY <3>2
      <4>2. Shows(a.reply, a.ids)
        BY <4>1 DEF Shows, Unread
      <4> QED BY <2>1, <2>3, <4>1, <4>2
    <3> QED BY <2>2, <3>1, <3>2
  <2>7. Shows(preview'.events, preview'.active)
    BY <2>3 DEF Shows, Unread
  <2>8. AnswersInv'
    BY <2>1, <2>3, <2>6, <2>7 DEF AnswersInv, Shows, OfSources
  <2> QED BY <2>4, <2>5, <2>8
<1>2. CASE active \notin Bullets(draft)
  <2>1. /\ preview' = [draft |-> draft, active |-> active, n |-> preview.n, events |-> Shut]
        /\ answers' = answers
    BY <1>2 DEF Look
  <2>2. EvidenceTypeOK'
    BY <2>1
  <2>3. ShelfInv' /\ StoredInv'
    BY DEF ShelfInv, StoredInv, Shelved, OfSources
  <2>4. AnswersInv'
    BY <2>1 DEF AnswersInv, Shows, Shut, OfSources
  <2> QED BY <2>2, <2>3, <2>4
<1> QED BY <1>1, <1>2

\* The rows read back are those asked for that are there, with the kind each
\* was written with.
LEMMA ReadBack ==
    ASSUME EvidenceInv, NEW ids, NEW r \in Tries, fate[r] = "drafted", ids \subseteq batch[r]
    PROVE  Shows(Hydrated(GetMany(ids)), ids)
<1> USE DEF EvidenceInv, EvidenceTypeOK
<1> DEFINE rows == GetMany(ids)
<1>1. Hydrated(rows).rows = rows
  BY DEF Hydrated
<1>2. DOMAIN rows = {shelf[key].id : key \in KeysOf(ids)}
  BY DEF GetMany
<1>3. DOMAIN rows \subseteq ids
  BY <1>2 DEF KeysOf
<1>4. ids \cap OfSources(alive) \subseteq DOMAIN rows
  BY <1>2 DEF StoredInv, Shelved, KeysOf
<1>5. ASSUME NEW id \in DOMAIN rows
      PROVE  rows[id].kind = id[3]
  <2> DEFINE key == CHOOSE key \in KeysOf({id}) : TRUE
  <2>1. \E k : k \in KeysOf({id})
    BY <1>2 DEF KeysOf
  <2>2. key \in DOMAIN shelf /\ shelf[key].id = id
    BY <2>1 DEF KeysOf
  <2>3. rows[id] = RowToEvent(key)
    BY <1>2 DEF GetMany
  <2>4. PICK s \in Origins : id \in EventsOf[s]
    BY <2>2 DEF ShelfInv
  <2>5. id[3] \in DOMAIN ActivityKinds /\ key[3] = ActivityKinds[id[3]]
    BY <2>2, <2>4, EventsAreNamed DEF ShelfInv, RowKey, KindToDb
  <2>6. KindFromDb(key[3]) = id[3]
    BY <2>5, KindsAreApart DEF KindFromDb
  <2> QED BY <2>3, <2>6 DEF RowToEvent
<1> QED BY <1>1, <1>3, <1>4, <1>5 DEF Shows

\* Calls of activity_events_get, their answers and their failures.
LEMMA AnswerStep ==
    ASSUME EvidenceInv, ActivityEventsGet \/ HearEvents \/ GetFails
    PROVE  EvidenceInv'
<1> USE DEF EvidenceInv, EvidenceTypeOK
<1>1. CASE ActivityEventsGet
  <2>1. PICK a \in answers :
          answers' = (answers \ {a}) \cup {[a EXCEPT !.reply = Hydrated(GetMany(a.ids))]}
    BY <1>1 DEF ActivityEventsGet
  <2>2. UNCHANGED <<alive, fate, batch, shelf, preview, credited>>
    BY <1>1 DEF ActivityEventsGet
  <2> DEFINE b == [a EXCEPT !.reply = Hydrated(GetMany(a.ids))]
  <2>3. b = [n |-> a.n, ids |-> a.ids, reply |-> Hydrated(GetMany(a.ids))]
    BY DEF Hydrated
  <2>4. Shows(b.reply, b.ids)
    BY <2>3, ReadBack DEF AnswersInv
  <2>5. EvidenceTypeOK'
    BY <2>1, <2>2, <2>3
  <2>6. ShelfInv' /\ StoredInv'
    BY <2>2 DEF ShelfInv, StoredInv, Shelved, OfSources
  <2>7. AnswersInv'
    BY <2>1, <2>2, <2>3, <2>4 DEF AnswersInv, Shows, OfSources
  <2> QED BY <2>5, <2>6, <2>7
<1>2. CASE HearEvents
  <2>1. PICK a \in answers :
          /\ answers' = answers \ {a}
          /\ preview' = IF Counts(a) THEN [preview EXCEPT !.events = a.reply] ELSE preview
    BY <1>2 DEF HearEvents
  <2>2. UNCHANGED <<alive, fate, batch, shelf, credited>>
    BY <1>2 DEF HearEvents
  <2>3. EvidenceTypeOK'
    BY <2>1, <2>2
  <2>4. ShelfInv' /\ StoredInv'
    BY <2>2 DEF ShelfInv, StoredInv, Shelved, OfSources
  <2>5. AnswersInv'
    <3>1. CASE Counts(a)
      <4>1. /\ preview'.events = a.reply /\ preview'.active = preview.active
            /\ preview'.n = preview.n /\ preview'.draft = preview.draft
        BY <2>1, <3>1
      <4>2. a.ids = preview.active /\ preview.events # Shut
        BY <3>1 DEF Counts, AnswersInv
      <4> QED BY <2>1, <2>2, <4>1, <4>2 DEF AnswersInv, Shows, OfSources
    <3>2. CASE ~Counts(a)
      BY <2>1, <2>2, <3>2 DEF AnswersInv, Shows, OfSources
    <3> QED BY <3>1, <3>2
  <2> QED BY <2>3, <2>4, <2>5
<1>3. CASE GetFails
  BY <1>3 DEF GetFails, ShelfInv, StoredInv, Shelved, OfSources, AnswersInv, Shows
<1> QED BY <1>1, <1>2, <1>3

\* The shelf, the stored batches and the answers hold together at the start and
\* through every step.
LEMMA EvidenceInvariance ==
    /\ EvidenceInit => EvidenceInv
    /\ EvidenceInv /\ [EvidenceNext]_evidenceVars => EvidenceInv'
<1>1. EvidenceInit => EvidenceInv
  BY EventsAreNamed DEF EvidenceInit, EvidenceInv, EvidenceTypeOK, ShelfInv, StoredInv, AnswersInv, Shows, Shut
<1>2. EvidenceInv /\ [EvidenceNext]_evidenceVars => EvidenceInv'
  <2> SUFFICES ASSUME EvidenceInv, [EvidenceNext]_evidenceVars PROVE EvidenceInv'
    OBVIOUS
  <2>1. CASE UNCHANGED evidenceVars
    BY <2>1 DEF evidenceVars, EvidenceInv, EvidenceTypeOK, ShelfInv, StoredInv, Shelved,
                OfSources, AnswersInv, Shows
  <2>2. ASSUME NEW r \in Tries, ShowDraft(r) PROVE EvidenceInv'
    BY <2>2, LookStep DEF ShowDraft
  <2>3. ASSUME OpenBullet \/ CloseBullet PROVE EvidenceInv'
    <3>1. /\ \E b : Look(preview.draft, b)
          /\ UNCHANGED <<alive, fate, batch, shelf, credited>>
      BY <2>3 DEF OpenBullet, CloseBullet
    <3> QED BY <3>1, LookStep DEF EvidenceInv, EvidenceTypeOK, AnswersInv
  <2> QED BY <2>1, <2>2, <2>3, TryStep, InsertStep, DropStep, AnswerStep DEF EvidenceNext
<1> QED BY <1>1, <1>2

\* generate.rs:412-425, activity_events.rs:46-57, 170-179: what a stored draft
\* cites has its row while its source is there, and a popover shows just that,
\* however runs, deletes and openings cross.
THEOREM WholeEvidence == EvidenceSpec => []EvidenceIsWhole
<1>1. EvidenceInv => EvidenceIsWhole
  <2> SUFFICES ASSUME EvidenceInv PROVE EvidenceIsWhole
    OBVIOUS
  <2>1. Shelved = {kept.id : kept \in {shelf[k] : k \in DOMAIN shelf}}
    BY DEF Shelved
  <2> QED BY <2>1 DEF EvidenceInv, ShelfInv, StoredInv, AnswersInv, Shows, EvidenceIsWhole
<1> QED BY <1>1, EvidenceInvariance, PTL DEF EvidenceSpec

(***************************************************************************)
(* Bookmarks: what a command that runs alone has done by each stage; a     *)
(* second one, or the deletion of the owner, ends its being alone for good. *)
(***************************************************************************)

\* The stages of a command before and after its owner's row is written.
Before == {"insert", "config"}
After == {"list", "drop", "count", "place", "make", "replace"}

Command == [at : Before \cup After, op : {"add", "update"}, want : SUBSET Dests,
            seen : SUBSET Dests, left : SUBSET Dests, alone : BOOLEAN, held : SUBSET Dests]

BookmarkTypeOK ==
    /\ chosen \in (SUBSET Dests) \cup {NoOwner}
    /\ marks \in [Dests -> {"none", "empty", "kept"}]
    /\ pick \in [Pickers -> {NoPick} \cup Command]

\* An owner that is gone leaves no row.
OwnerInv == chosen = NoOwner => \A f \in Dests : marks[f] = "none"

\* While `covered` lasts no command has touched a row again.
CoveredInv ==
    covered =>
        /\ \A f \in Dests : marks[f] = IF f \in chosen THEN "kept" ELSE "none"
        /\ \A c \in Pickers : pick[c] # NoPick => pick[c].at \in Before

\* What a command that runs alone has done by each stage.
AloneInv(c) ==
    /\ \A d \in Pickers \ {c} : pick[d] = NoPick
    /\ pick[c].held \subseteq pick[c].want
    /\ \A f \in pick[c].held : marks[f] = "kept"
    /\ pick[c].at = "config" => chosen # NoOwner
    /\ pick[c].at \in After => chosen = pick[c].want
    /\ pick[c].at = "drop" => \A f \in Dests \ pick[c].want : marks[f] # "none" => f \in pick[c].seen
    /\ pick[c].at \in {"count", "place", "make", "replace"} =>
         \A f \in Dests \ pick[c].want : marks[f] = "none"

\* The row a command is about to place is one of its folders.
PlaceInv(c) ==
    /\ pick[c].at = "count" => pick[c].left \subseteq pick[c].want
    /\ pick[c].at = "place" => \E f \in pick[c].want : pick[c].seen = {f}
                                                   /\ pick[c].left \subseteq pick[c].want

BookmarkInv ==
    /\ BookmarkTypeOK
    /\ OwnerInv
    /\ CoveredInv
    /\ \A c \in Pickers : pick[c] # NoPick => PlaceInv(c) /\ (pick[c].alone => AloneInv(c))

\* A command begins: whoever is under way already is no longer alone, and the
\* newcomer is alone if nobody is.
LEMMA PickStep ==
    ASSUME BookmarkInv, NEW c \in Pickers, StartPickNew(c) \/ StartRepick(c)
    PROVE  BookmarkInv'
<1> USE NoOwnerIsNone DEF BookmarkInv, BookmarkTypeOK, Before, After
<1>1. PICK folders \in SUBSET Dests :
        \/ Pick(c, "insert", "add", folders)
        \/ Pick(c, "config", "update", folders) /\ chosen # NoOwner
  BY DEF StartPickNew, StartRepick
<1>2. PICK at \in Before, op \in {"add", "update"} :
        Pick(c, at, op, folders) /\ (at = "config" => chosen # NoOwner)
  BY <1>1
<1> DEFINE quiet == \A d \in Pickers : pick[d] = NoPick
           new == [at |-> at, op |-> op, want |-> folders, seen |-> {}, left |-> {},
                   alone |-> quiet, held |-> {f \in folders : marks[f] = "kept"}]
<1>3. /\ pick[c] = NoPick
      /\ pick' = [d \in Pickers |-> IF d = c THEN new
                                    ELSE IF pick[d] = NoPick THEN NoPick
                                    ELSE [pick[d] EXCEPT !.alone = FALSE]]
  BY <1>2 DEF Pick
<1>4. UNCHANGED <<keeper, chosen, marks, covered>>
  BY DEF StartPickNew, StartRepick
<1>5. new \in Command
  BY DEF Command
<1>6. pick'[c] = new
  BY <1>3
<1>7. \A d \in Pickers \ {c} : pick[d] = NoPick => pick'[d] = NoPick
  BY <1>3
<1>8. \A d \in Pickers \ {c} : pick[d] # NoPick =>
         /\ pick'[d] \in Command
         /\ pick'[d].alone = FALSE
         /\ pick'[d].at = pick[d].at /\ pick'[d].want = pick[d].want
         /\ pick'[d].seen = pick[d].seen /\ pick'[d].left = pick[d].left
  <2> SUFFICES ASSUME NEW d \in Pickers \ {c}, pick[d] # NoPick
               PROVE  LET p == [pick[d] EXCEPT !.alone = FALSE]
                      IN /\ p \in Command /\ p.alone = FALSE
                         /\ p.at = pick[d].at /\ p.want = pick[d].want
                         /\ p.seen = pick[d].seen /\ p.left = pick[d].left
    BY <1>3
  <2>1. pick[d] \in Command
    OBVIOUS
  <2> QED BY <2>1 DEF Command
<1>9. BookmarkTypeOK'
  BY <1>3, <1>4, <1>5, <1>6, <1>7, <1>8
<1>10. OwnerInv'
  BY <1>4 DEF OwnerInv
<1>11. CoveredInv'
  BY <1>4, <1>6, <1>7, <1>8 DEF CoveredInv
<1>12. PlaceInv(c)' /\ (pick'[c].alone => AloneInv(c)')
  BY <1>2, <1>4, <1>6, <1>7 DEF PlaceInv, AloneInv
<1>13. \A d \in Pickers \ {c} : pick'[d] # NoPick => PlaceInv(d)' /\ pick'[d].alone = FALSE
  BY <1>7, <1>8 DEF PlaceInv
<1> QED BY <1>9, <1>10, <1>11, <1>12, <1>13

\* A step of one command: nobody else is alone while it runs.
LEMMA CommandStep ==
    ASSUME BookmarkInv, NEW c \in Pickers, pick[c] # NoPick,
           NEW new \in {NoPick} \cup Command, pick' = [pick EXCEPT ![c] = new],
           chosen' \in (SUBSET Dests) \cup {NoOwner},
           marks' \in [Dests -> {"none", "empty", "kept"}],
           OwnerInv', CoveredInv',
           new # NoPick => PlaceInv(c)' /\ (new.alone => AloneInv(c)')
    PROVE  BookmarkInv'
<1> USE DEF BookmarkInv, BookmarkTypeOK
<1>1. \A d \in Pickers \ {c} : pick'[d] = pick[d]
  OBVIOUS
<1>2. \A d \in Pickers \ {c} : pick[d] # NoPick => ~pick[d].alone
  BY DEF AloneInv
<1>3. \A d \in Pickers \ {c} : pick'[d] # NoPick => PlaceInv(d)' /\ (pick'[d].alone => AloneInv(d)')
  BY <1>1, <1>2 DEF PlaceInv
<1> QED BY <1>3

\* The owner's row, or the end of a command that could not write it.
LEMMA WriteStep ==
    ASSUME BookmarkInv, NEW c \in Pickers, WriteOwner(c)
    PROVE  BookmarkInv'
<1> USE NoOwnerIsNone DEF BookmarkInv, BookmarkTypeOK, Before, After
<1>1. pick[c] \in Command /\ pick[c] # NoPick /\ pick[c].at \in Before
  BY DEF WriteOwner, Picking, NoPick
<1>2. CASE PickEnds(c, FALSE) /\ UNCHANGED chosen
  BY <1>1, <1>2, CommandStep DEF WriteOwner, PickEnds, OwnerInv, CoveredInv
<1>3. CASE Moved(c, "list") /\ covered' = FALSE
           /\ chosen' = IF Picking(c, "config") /\ chosen = NoOwner THEN chosen ELSE pick[c].want
  <2> DEFINE new == [pick[c] EXCEPT !.at = "list"]
  <2>1. new \in Command /\ new.at = "list" /\ new.alone = pick[c].alone /\ new.want = pick[c].want
        /\ new.held = pick[c].held /\ new # NoPick
    BY <1>1 DEF Command, NoPick
  <2>2. pick' = [pick EXCEPT ![c] = new] /\ marks' = marks
    BY <1>3 DEF Moved, WriteOwner
  <2>3. OwnerInv' /\ CoveredInv'
    BY <1>1, <1>3, <2>2 DEF OwnerInv, CoveredInv, Command, WriteOwner
  <2>4. chosen' \in (SUBSET Dests) \cup {NoOwner}
    BY <1>1, <1>3 DEF Command
  <2>5. PlaceInv(c)'
    BY <2>1, <2>2 DEF PlaceInv
  <2>6. new.alone => AloneInv(c)'
    BY <1>1, <1>3, <2>1, <2>2 DEF AloneInv, Picking
  <2> QED BY <1>1, <1>3, <2>1, <2>2, <2>3, <2>4, <2>5, <2>6, CommandStep
<1> QED BY <1>2, <1>3 DEF WriteOwner

\* A command that gives up.
LEMMA AbandonStep ==
    ASSUME BookmarkInv, NEW c \in Pickers, SyncFails(c) \/ RowMissing(c)
    PROVE  BookmarkInv'
<1> USE NoOwnerIsNone DEF BookmarkInv, BookmarkTypeOK
<1>1. pick[c] \in Command /\ pick[c] # NoPick
  BY DEF SyncFails, RowMissing, Picking, NoPick
<1>2. /\ pick' = [pick EXCEPT ![c] = NoPick] /\ covered' = FALSE
      /\ \/ chosen' = NoOwner /\ marks' = [f \in Dests |-> "none"]
         \/ UNCHANGED <<chosen, marks>>
  BY DEF SyncFails, RowMissing, Abandon, PickEnds
<1>3. OwnerInv' /\ CoveredInv'
  BY <1>2 DEF OwnerInv, CoveredInv
<1>4. chosen' \in (SUBSET Dests) \cup {NoOwner}
  <2>1. chosen' = NoOwner \/ chosen' = chosen
    BY <1>2
  <2> QED BY <2>1
<1>5. [f \in Dests |-> "none"] \in [Dests -> {"none", "empty", "kept"}]
  OBVIOUS
<1>6. marks' \in [Dests -> {"none", "empty", "kept"}]
  BY <1>2, <1>5
<1> QED BY <1>1, <1>2, <1>3, <1>4, <1>6, CommandStep

\* The statements between: what is listed, dropped, counted, placed and made.
LEMMA StatementStep ==
    ASSUME BookmarkInv, NEW c \in Pickers,
           ListRows(c) \/ DropStaleRow(c) \/ CountRow(c) \/ PlaceRow(c) \/ MakeBookmarks(c)
    PROVE  BookmarkInv'
<1> USE NoOwnerIsNone DEF BookmarkInv, BookmarkTypeOK, Before, After, Picking, Moved
<1>1. pick[c] \in Command /\ pick[c] # NoPick /\ pick[c].at \in After
  BY DEF ListRows, DropStaleRow, CountRow, PlaceRow, MakeBookmarks, NoPick
<1>2. UNCHANGED <<keeper, chosen, picks, covered>> /\ ~covered
  BY <1>1 DEF ListRows, DropStaleRow, CountRow, PlaceRow, MakeBookmarks, CoveredInv
<1>3. CoveredInv'
  BY <1>2 DEF CoveredInv
<1>4. ASSUME NEW new \in Command, pick' = [pick EXCEPT ![c] = new],
             new # NoPick, new.alone = pick[c].alone, new.want = pick[c].want, new.held = pick[c].held,
             marks' \in [Dests -> {"none", "empty", "kept"}], OwnerInv', PlaceInv(c)',
             pick[c].alone => AloneInv(c)'
      PROVE  BookmarkInv'
  BY <1>1, <1>2, <1>3, <1>4, CommandStep
<1>5. CASE ListRows(c)
  <2>1. CASE pick[c].want = {}
    <3> DEFINE new == [pick[c] EXCEPT !.at = "make"]
    <3>1. /\ new \in Command /\ new # NoPick /\ new.at = "make" /\ new.alone = pick[c].alone
          /\ new.want = pick[c].want /\ new.held = pick[c].held
      BY <1>1 DEF Command, NoPick
    <3>2. pick' = [pick EXCEPT ![c] = new] /\ marks' = [f \in Dests |-> "none"]
      BY <1>5, <2>1 DEF ListRows
    <3>3. OwnerInv' /\ PlaceInv(c)'
      BY <3>1, <3>2 DEF OwnerInv, PlaceInv
    <3>4. pick[c].alone => AloneInv(c)'
      BY <1>1, <1>2, <1>5, <2>1, <3>1, <3>2 DEF AloneInv, ListRows
    <3> QED BY <1>4, <3>1, <3>2, <3>3, <3>4
  <2>2. CASE pick[c].want # {}
    <3> DEFINE new == [pick[c] EXCEPT !.at = "drop", !.seen = RowsNow(c)]
    <3>1. /\ new \in Command /\ new # NoPick /\ new.at = "drop" /\ new.alone = pick[c].alone
          /\ new.want = pick[c].want /\ new.held = pick[c].held /\ new.seen = RowsNow(c)
      BY <1>1 DEF Command, NoPick, RowsNow
    <3>2. pick' = [pick EXCEPT ![c] = new] /\ marks' = marks
      BY <1>5, <2>2 DEF ListRows
    <3>3. OwnerInv' /\ PlaceInv(c)'
      BY <1>2, <3>1, <3>2 DEF OwnerInv, PlaceInv
    <3>4. pick[c].alone => AloneInv(c)'
      BY <1>1, <1>2, <1>5, <3>1, <3>2 DEF AloneInv, ListRows, RowsNow
    <3> QED BY <1>4, <3>1, <3>2, <3>3, <3>4
  <2> QED BY <2>1, <2>2
<1>6. CASE DropStaleRow(c)
  <2>1. CASE StaleRows(c) = {}
    <3> DEFINE new == [pick[c] EXCEPT !.at = "count", !.left = pick[c].want]
    <3>1. /\ new \in Command /\ new # NoPick /\ new.at = "count" /\ new.alone = pick[c].alone
          /\ new.want = pick[c].want /\ new.held = pick[c].held /\ new.left = pick[c].want
      BY <1>1 DEF Command, NoPick
    <3>2. pick' = [pick EXCEPT ![c] = new] /\ marks' = marks
      BY <1>6, <2>1 DEF DropStaleRow
    <3>3. OwnerInv' /\ PlaceInv(c)'
      BY <1>2, <3>1, <3>2 DEF OwnerInv, PlaceInv
    <3>4. pick[c].alone => AloneInv(c)'
      BY <1>1, <1>2, <1>6, <2>1, <3>1, <3>2 DEF AloneInv, DropStaleRow, StaleRows
    <3> QED BY <1>4, <3>1, <3>2, <3>3, <3>4
  <2>2. ASSUME NEW f \in StaleRows(c), marks' = [marks EXCEPT ![f] = "none"],
               pick' = [pick EXCEPT ![c].seen = @ \ {f}]
        PROVE  BookmarkInv'
    <3> DEFINE new == [pick[c] EXCEPT !.seen = @ \ {f}]
    <3>1. /\ new \in Command /\ new # NoPick /\ new.at = "drop" /\ new.alone = pick[c].alone
          /\ new.want = pick[c].want /\ new.held = pick[c].held /\ new.seen = pick[c].seen \ {f}
      BY <1>1, <1>6 DEF Command, NoPick, DropStaleRow
    <3>2. pick' = [pick EXCEPT ![c] = new] /\ f \notin pick[c].want /\ pick[c].at = "drop"
      BY <1>6, <2>2 DEF DropStaleRow, StaleRows
    <3>3. OwnerInv' /\ PlaceInv(c)'
      BY <1>2, <2>2, <3>1, <3>2 DEF OwnerInv, PlaceInv
    <3>4. pick[c].alone => AloneInv(c)'
      BY <1>1, <1>2, <2>2, <3>1, <3>2 DEF AloneInv
    <3> QED BY <1>4, <2>2, <3>1, <3>2, <3>3, <3>4
  <2> QED BY <1>6, <2>1, <2>2 DEF DropStaleRow
<1>7. CASE CountRow(c)
  <2>1. marks' = marks /\ OwnerInv' /\ pick[c].at = "count"
    BY <1>2, <1>7 DEF CountRow, OwnerInv
  <2>2. CASE pick[c].left = {}
    <3> DEFINE new == [pick[c] EXCEPT !.at = "make"]
    <3>1. /\ new \in Command /\ new # NoPick /\ new.at = "make" /\ new.alone = pick[c].alone
          /\ new.want = pick[c].want /\ new.held = pick[c].held
      BY <1>1 DEF Command, NoPick
    <3>2. pick' = [pick EXCEPT ![c] = new]
      BY <1>7, <2>2 DEF CountRow
    <3>3. PlaceInv(c)' /\ (pick[c].alone => AloneInv(c)')
      BY <1>1, <1>2, <2>1, <3>1, <3>2 DEF PlaceInv, AloneInv
    <3> QED BY <1>4, <2>1, <3>1, <3>2, <3>3
  <2>3. ASSUME NEW f \in pick[c].left, marks[f] = "none",
               pick' = [pick EXCEPT ![c].at = "place", ![c].seen = {f}]
        PROVE  BookmarkInv'
    <3> DEFINE new == [pick[c] EXCEPT !.at = "place", !.seen = {f}]
    <3>1. /\ new \in Command /\ new # NoPick /\ new.at = "place" /\ new.alone = pick[c].alone
          /\ new.want = pick[c].want /\ new.held = pick[c].held /\ new.seen = {f}
          /\ new.left = pick[c].left
      BY <1>1 DEF Command, NoPick
    <3>2. pick' = [pick EXCEPT ![c] = new]
      BY <2>3
    <3>3. PlaceInv(c)' /\ (pick[c].alone => AloneInv(c)')
      BY <1>1, <1>2, <2>1, <3>1, <3>2 DEF PlaceInv, AloneInv
    <3> QED BY <1>4, <2>1, <3>1, <3>2, <3>3
  <2>4. ASSUME NEW f \in pick[c].left, pick' = [pick EXCEPT ![c].left = @ \ {f}]
        PROVE  BookmarkInv'
    <3> DEFINE new == [pick[c] EXCEPT !.left = @ \ {f}]
    <3>1. /\ new \in Command /\ new # NoPick /\ new.at = "count" /\ new.alone = pick[c].alone
          /\ new.want = pick[c].want /\ new.held = pick[c].held /\ new.left = pick[c].left \ {f}
      BY <1>1, <2>1 DEF Command, NoPick
    <3>2. pick' = [pick EXCEPT ![c] = new]
      BY <2>4
    <3>3. PlaceInv(c)' /\ (pick[c].alone => AloneInv(c)')
      BY <1>1, <1>2, <2>1, <3>1, <3>2 DEF PlaceInv, AloneInv
    <3> QED BY <1>4, <2>1, <3>1, <3>2, <3>3
  <2> QED BY <1>7, <2>2, <2>3, <2>4 DEF CountRow
<1>8. CASE PlaceRow(c)
  <2>1. PICK f \in pick[c].want : pick[c].seen = {f} /\ pick[c].left \subseteq pick[c].want
    BY <1>1, <1>8 DEF PlaceRow, PlaceInv
  <2>2. /\ marks[f] = "none" /\ chosen # NoOwner
        /\ marks' = [marks EXCEPT ![f] = "empty"]
        /\ pick' = [pick EXCEPT ![c].at = "count", ![c].left = @ \ {f}]
    BY <1>8, <2>1 DEF PlaceRow
  <2> DEFINE new == [pick[c] EXCEPT !.at = "count", !.left = @ \ {f}]
  <2>3. /\ new \in Command /\ new # NoPick /\ new.at = "count" /\ new.alone = pick[c].alone
        /\ new.want = pick[c].want /\ new.held = pick[c].held /\ new.left = pick[c].left \ {f}
    BY <1>1 DEF Command, NoPick
  <2>4. pick' = [pick EXCEPT ![c] = new]
    BY <2>2
  <2>5. OwnerInv' /\ PlaceInv(c)'
    BY <1>2, <2>1, <2>2, <2>3, <2>4 DEF OwnerInv, PlaceInv
  <2>6. pick[c].alone => AloneInv(c)'
    BY <1>1, <1>2, <1>8, <2>1, <2>2, <2>3, <2>4 DEF AloneInv, PlaceRow
  <2> QED BY <1>4, <2>2, <2>3, <2>4, <2>5, <2>6
<1>9. CASE MakeBookmarks(c)
  <2> DEFINE new == [pick[c] EXCEPT !.at = "replace"]
  <2>1. /\ new \in Command /\ new # NoPick /\ new.at = "replace" /\ new.alone = pick[c].alone
        /\ new.want = pick[c].want /\ new.held = pick[c].held
    BY <1>1 DEF Command, NoPick
  <2>2. pick' = [pick EXCEPT ![c] = new] /\ marks' = marks /\ pick[c].at = "make"
    BY <1>9 DEF MakeBookmarks
  <2>3. OwnerInv' /\ PlaceInv(c)'
    BY <1>2, <2>1, <2>2 DEF OwnerInv, PlaceInv
  <2>4. pick[c].alone => AloneInv(c)'
    BY <1>1, <1>2, <2>1, <2>2 DEF AloneInv
  <2> QED BY <1>4, <2>1, <2>2, <2>3, <2>4
<1> QED BY <1>5, <1>6, <1>7, <1>8, <1>9

\* The last statement: undisturbed, it leaves the folders' bookmarks and no more.
LEMMA ReplaceStep ==
    ASSUME BookmarkInv, NEW c \in Pickers, ReplaceBlobs(c)
    PROVE  BookmarkInv'
<1> USE NoOwnerIsNone DEF BookmarkInv, BookmarkTypeOK, Before, After, Picking
<1>1. pick[c] \in Command /\ pick[c] # NoPick /\ pick[c].at = "replace"
  BY DEF ReplaceBlobs, NoPick
<1>2. /\ \A f \in pick[c].want : marks[f] # "none"
      /\ marks' = [f \in Dests |-> IF f \in pick[c].want THEN "kept" ELSE marks[f]]
      /\ pick' = [pick EXCEPT ![c] = NoPick]
      /\ covered' = pick[c].alone /\ chosen' = chosen
  BY <1>1 DEF ReplaceBlobs, PickEnds, Command
<1>3. marks' \in [Dests -> {"none", "empty", "kept"}]
  BY <1>1, <1>2 DEF Command
<1>4. OwnerInv'
  BY <1>1, <1>2 DEF OwnerInv, Command
<1>5. CoveredInv'
  <2> SUFFICES ASSUME pick[c].alone
               PROVE  /\ \A f \in Dests : marks'[f] = IF f \in chosen THEN "kept" ELSE "none"
                      /\ \A d \in Pickers : pick'[d] = NoPick
    BY <1>2 DEF CoveredInv
  <2>1. AloneInv(c)
    BY <1>1
  <2>2. chosen = pick[c].want /\ \A f \in Dests \ pick[c].want : marks[f] = "none"
    BY <1>1, <2>1 DEF AloneInv
  <2>3. \A d \in Pickers : pick'[d] = NoPick
    BY <1>2, <2>1 DEF AloneInv
  <2> QED BY <1>2, <2>2, <2>3
<1> QED BY <1>1, <1>2, <1>3, <1>4, <1>5, CommandStep

\* A deleted source takes its rows, and whoever is under way is disturbed.
LEMMA DropOwnerStep ==
    ASSUME BookmarkInv, DropOwner
    PROVE  BookmarkInv'
<1> USE NoOwnerIsNone DEF BookmarkInv, BookmarkTypeOK
<1>1. /\ chosen' = NoOwner /\ marks' = [f \in Dests |-> "none"] /\ covered' = FALSE
      /\ pick' = [c \in Pickers |-> IF pick[c] = NoPick THEN NoPick
                                    ELSE [pick[c] EXCEPT !.alone = FALSE]]
  BY DEF DropOwner
<1>2. \A d \in Pickers : pick[d] # NoPick =>
         /\ pick'[d] \in Command
         /\ pick'[d].alone = FALSE
         /\ pick'[d].at = pick[d].at /\ pick'[d].want = pick[d].want
         /\ pick'[d].seen = pick[d].seen /\ pick'[d].left = pick[d].left
  <2> SUFFICES ASSUME NEW d \in Pickers, pick[d] # NoPick
               PROVE  LET p == [pick[d] EXCEPT !.alone = FALSE]
                      IN /\ p \in Command /\ p.alone = FALSE
                         /\ p.at = pick[d].at /\ p.want = pick[d].want
                         /\ p.seen = pick[d].seen /\ p.left = pick[d].left
    BY <1>1
  <2>1. pick[d] \in Command
    OBVIOUS
  <2> QED BY <2>1 DEF Command
<1>3. BookmarkTypeOK'
  <2>1. pick' \in [Pickers -> {NoPick} \cup Command]
    BY <1>1, <1>2
  <2>2. marks' \in [Dests -> {"none", "empty", "kept"}]
    BY <1>1
  <2>3. chosen' \in (SUBSET Dests) \cup {NoOwner}
    BY <1>1
  <2> QED BY <2>1, <2>2, <2>3
<1>4. OwnerInv' /\ CoveredInv'
  BY <1>1 DEF OwnerInv, CoveredInv
<1>5. \A d \in Pickers : pick'[d] # NoPick => PlaceInv(d)' /\ ~pick'[d].alone
  BY <1>1, <1>2 DEF PlaceInv
<1> QED BY <1>3, <1>4, <1>5

\* Every statement of every command, and the owner's deletion, keeps the invariant.
LEMMA BookmarkInvariance ==
    /\ BookmarkInit => BookmarkInv
    /\ BookmarkInv /\ [BookmarkNext]_bookmarkVars => BookmarkInv'
<1>1. BookmarkInit => BookmarkInv
  <2> SUFFICES ASSUME BookmarkInit PROVE BookmarkInv
    OBVIOUS
  <2>1. chosen \in (SUBSET Dests) \cup {NoOwner}
    BY DEF BookmarkInit
  <2>2. BookmarkTypeOK
    BY <2>1 DEF BookmarkInit, BookmarkTypeOK
  <2>3. \A c \in Pickers : pick[c] = NoPick
    BY DEF BookmarkInit
  <2>4. OwnerInv /\ CoveredInv
    BY DEF BookmarkInit, OwnerInv, CoveredInv
  <2> QED BY <2>2, <2>3, <2>4 DEF BookmarkInv
<1>2. BookmarkInv /\ [BookmarkNext]_bookmarkVars => BookmarkInv'
  <2> SUFFICES ASSUME BookmarkInv, [BookmarkNext]_bookmarkVars PROVE BookmarkInv'
    OBVIOUS
  <2>1. CASE UNCHANGED bookmarkVars
    BY <2>1 DEF bookmarkVars, BookmarkInv, BookmarkTypeOK, OwnerInv, CoveredInv, AloneInv, PlaceInv
  <2> QED BY <2>1, PickStep, WriteStep, AbandonStep, StatementStep, ReplaceStep, DropOwnerStep
          DEF BookmarkNext
<1> QED BY <1>1, <1>2

\* security_scoped_bookmarks.rs:77-81, 313-316: an owner that is gone has no rows,
\* and an undisturbed command leaves the bookmarks of its folders.
THEOREM MarkedFolders == BookmarkSpec => []BookmarksFollowFolders
<1>1. BookmarkInv => BookmarksFollowFolders
  BY DEF BookmarkInv, OwnerInv, CoveredInv, AloneInv, BookmarksFollowFolders
<1> QED BY <1>1, BookmarkInvariance, PTL DEF BookmarkSpec

(***************************************************************************)
(* Registry: a row is as its dialog left it until it is edited, its        *)
(* connector was made of it, and ids are never given twice; a change is    *)
(* announced by the end of its command, or the rows of its kind need none. *)
(* A call holds a credential it read, and every answer of every connector is *)
(* told by a case of the error tables.                                     *)
(***************************************************************************)

(***************************************************************************)
(* Addresses                                                               *)
(***************************************************************************)

\* The final slash goes onto a path without changing it.
LEMMA PaddedAddress ==
    ASSUME NEW a \in Addresses
    PROVE  /\ Parses(a) /\ Padded(a) \in Addresses
           /\ Padded(a).slash = TRUE /\ Padded(a).segments = a.segments
BY DEF Addresses, Parses, Padded

\* The origin of an address is one, with an empty path.
LEMMA CanonicalAddress ==
    ASSUME NEW a \in Addresses
    PROVE  /\ CanonicalWorkspaceUrl(a) \in Addresses
           /\ CanonicalWorkspaceUrl(a).segments = <<>>
<1>1. <<>> \in Seq(UrlWords)
  OBVIOUS
<1> QED BY <1>1 DEF Addresses, CanonicalWorkspaceUrl

\* Of what may be typed only addresses parse.
LEMMA TextForms ==
    ASSUME NEW text \in AnyText, Parses(text)
    PROVE  text \in Addresses
BY DEF AnyText, Parses, NoAddress, Unparsable

\* The folders are addresses.
LEMMA FolderForms == Base \in Addresses /\ Folders \subseteq Addresses
<1>1. <<>> \in Seq(UrlWords)
  OBVIOUS
<1>2. <<"gitlab">> = Append(<<>>, "gitlab") /\ "gitlab" \in UrlWords /\ "https" \in UrlWords
  BY DEF UrlWords
<1>3. <<"gitlab">> \in Seq(UrlWords)
  BY <1>1, <1>2
<1>4. Base \in Addresses
  BY <1>1, <1>2 DEF Base, Addresses
<1>5. [Base EXCEPT !.segments = <<"gitlab">>] \in Addresses
  BY <1>3, <1>4 DEF Addresses
<1> QED BY <1>4, <1>5 DEF Folders

\* What an add dialog accepted is an address, and so is what its row keeps.
LEMMA KeptForms ==
    ASSUME NEW kind \in SourceKinds, NEW text \in AnyText, Accepts(kind, text)
    PROVE  text \in Addresses /\ Kept(kind, text) \in Addresses
<1>1. text \in Addresses
  BY TextForms, FolderForms DEF Accepts, SourceKinds, ParseGitlabBaseUrl, ParseApiBaseUrl, ParseWorkspaceUrl
<1> QED BY <1>1, PaddedAddress, CanonicalAddress DEF Kept, CanonicalApiBaseUrl

\* The connector made of an accepted address asks where the probe asked.
LEMMA AcceptedIsFetched ==
    ASSUME NEW kind \in SourceKinds, NEW text \in AnyText, Accepts(kind, text),
           NEW r, r.kind = kind, r.address = Kept(kind, text)
    PROVE  /\ Registered(r) \in Addresses
           /\ HealthPath(kind, Registered(r)) = ProbePath(kind, text)
<1>1. text \in Addresses /\ Kept(kind, text) \in Addresses
  BY KeptForms
<1> HIDE DEF Addresses
<1>2. CASE kind \in {"LocalGit", "GitLab"}
  BY <1>1, <1>2 DEF Registered, LocalGitRegistered, GitlabRegistered, Kept, HealthPath, ProbePath
<1>3. CASE kind = "Outlook"
  BY <1>1, <1>3, FolderForms DEF Accepts, Registered, OutlookRegistered, HealthPath, ProbePath
<1>4. CASE kind = "GitHub"
  <2>1. Registered(r) = Padded(Padded(text))
    BY <1>1, <1>4, PaddedAddress DEF Registered, GithubRegistered, GithubFromRaw, Kept, CanonicalApiBaseUrl
  <2>2. /\ Padded(Padded(text)) \in Addresses /\ Padded(Padded(text)).segments = text.segments
        /\ Padded(Padded(text)).slash = TRUE /\ Padded(text).segments = text.segments
        /\ Padded(text).slash = TRUE
    BY <1>1, PaddedAddress
  <2> QED BY <1>4, <2>1, <2>2 DEF HealthPath, ProbePath, Join
<1>5. CASE kind \in {"Jira", "Confluence"}
  <2>1. Registered(r) = Padded(CanonicalWorkspaceUrl(text))
    BY <1>1, <1>5, PaddedAddress DEF Registered, JiraRegistered, ConfluenceRegistered,
       JiraFromRaw, ConfluenceFromRaw, Kept
  <2>2. Padded(CanonicalWorkspaceUrl(text)) \in Addresses
        /\ Padded(CanonicalWorkspaceUrl(text)).segments = <<>>
    BY <1>1, CanonicalAddress, PaddedAddress
  <2>3. text.segments = <<>>
    BY <1>5 DEF Accepts, ParseWorkspaceUrl
  <2> QED BY <1>5, <2>1, <2>2, <2>3 DEF HealthPath, ProbePath, Join
<1> QED BY <1>2, <1>3, <1>4, <1>5 DEF SourceKinds

\* A connector is made of the kind and the address of its row.
LEMMA RegisteredOfAddress ==
    ASSUME NEW q, NEW r, q.kind = r.kind, q.address = r.address
    PROVE  Registered(q) = Registered(r)
BY DEF Registered, GitlabRegistered, JiraRegistered, ConfluenceRegistered, GithubRegistered,
       OutlookRegistered, LocalGitRegistered

(***************************************************************************)
(* Errors                                                                  *)
(***************************************************************************)

\* A walk the service turned away asks to reconnect, no other does, and the
\* error is of the kind's family.
LEMMA WalkTells ==
    ASSUME NEW kind \in SourceKinds, NEW answer \in Answers
    PROVE  /\ kind # "LocalGit" /\ answer \in {"unauthorized", "forbidden"} =>
                WalkError(kind, answer) \in ReconnectErrors
           /\ WalkError(kind, answer).variant = "Auth" => answer \in {"unauthorized", "forbidden"}
           /\ WalkError(kind, answer) # Done => WalkError(kind, answer).code \in FamilyCodes(kind)
<1> USE DEF Error, Done, SendError, TransportError, PassedOn, Answers, GivenUp, Broken,
            WalkError, ReconnectErrors, FamilyCodes, SdkCodes
<1>1. CASE kind = "GitLab"
  BY <1>1 DEF GitlabWalk, GitlabStatus, GitlabUpstreamError, GitlabCodes
<1>2. CASE kind = "GitHub"
  BY <1>2 DEF GithubWalk, GithubStatus, GithubUpstreamError, GithubCodes
<1>3. CASE kind = "Outlook"
  BY <1>3 DEF OutlookWalk, OutlookStatus, OutlookUpstreamError, OutlookCodes
<1>4. CASE kind = "Jira"
  BY <1>4 DEF JiraWalk, AtlassianStatus, AtlassianError, AtlassianCodes, JiraCodes
<1>5. CASE kind = "Confluence"
  BY <1>5 DEF ConfluenceWalk, AtlassianStatus, AtlassianError, AtlassianCodes, ConfluenceCodes
<1>6. CASE kind = "LocalGit"
  BY <1>6 DEF LocalGitWalk, LocalGitCodes
<1> QED BY <1>1, <1>2, <1>3, <1>4, <1>5, <1>6 DEF SourceKinds

\* A healthcheck's error is of the kind's family.
LEMMA HealthTells ==
    ASSUME NEW kind \in SourceKinds, NEW answer \in Answers, HealthError(kind, answer) # Done
    PROVE  HealthError(kind, answer).code \in FamilyCodes(kind)
<1> USE DEF Error, Done, Healthy, IsSuccess, SendError, TransportError, PassedOn, Answers,
            GivenUp, Broken, HealthError, FamilyCodes, SdkCodes
<1>1. CASE kind = "GitLab"
  BY <1>1 DEF GitlabHealth
<1>2. CASE kind = "GitHub"
  BY <1>2 DEF GithubHealth, GithubStatus, GithubUpstreamError, GithubCodes
<1>3. CASE kind = "Outlook"
  BY <1>3 DEF OutlookHealth, OutlookStatus, OutlookUpstreamError, OutlookCodes
<1>4. CASE kind = "Jira"
  BY <1>4 DEF JiraHealth
<1>5. CASE kind = "Confluence"
  BY <1>5 DEF ConfluenceHealth
<1>6. CASE kind = "LocalGit"
  BY <1>6 DEF LocalGitWalk, LocalGitCodes
<1> QED BY <1>1, <1>2, <1>3, <1>4, <1>5, <1>6 DEF SourceKinds

\* The probe of a dialog, whatever account it found; Confluence's asks Jira.
LEMMA ProbeTells ==
    ASSUME NEW kind \in SourceKinds \ {"LocalGit"}, NEW answer \in Answers, NEW account \in Accounts
    PROVE  /\ answer \in {"unauthorized", "forbidden"} =>
                ProbeError(kind, answer, account) \in ReconnectErrors
           /\ ProbeError(kind, answer, account).variant = "Auth" =>
                answer \in {"unauthorized", "forbidden"}
           /\ ProbeError(kind, answer, account) # Done =>
                ProbeError(kind, answer, account).code \in
                    FamilyCodes(IF kind = "Confluence" THEN "Jira" ELSE kind)
<1> USE DEF Error, Done, FirstOf, SendError, TransportError, PassedOn, Answers, GivenUp, Broken,
            Accounts, ProbeError, ReconnectErrors, FamilyCodes, SdkCodes
<1>1. CASE kind = "GitLab"
  BY <1>1 DEF ValidateGitlab, GitlabStatus, GitlabUpstreamError, GitlabCodes
<1>2. CASE kind = "GitHub"
  BY <1>2 DEF ValidateGithub, GithubIdentities, GithubStatus, GithubUpstreamError, GithubCodes
<1>3. CASE kind = "Outlook"
  BY <1>3 DEF ValidateOutlook, OutlookIdentities, OutlookStatus, OutlookUpstreamError, OutlookCodes
<1>4. CASE kind \in {"Jira", "Confluence"}
  BY <1>4 DEF DiscoverCloud, AtlassianIdentities, AtlassianStatus, AtlassianError, AtlassianCodes,
     JiraCodes
<1> QED BY <1>1, <1>2, <1>3, <1>4 DEF SourceKinds

(***************************************************************************)
(* The inductive invariant                                                 *)
(***************************************************************************)

RegistryTypeOK ==
    /\ place \in Workplaces
    /\ row \in [SourceIds -> SourceRows \cup {NoSource}]
    /\ keychain \in [SourceIds -> Worths]
    /\ refreshKey \in [SourceIds -> Worths]
    /\ past = [minted |-> past.minted, probed |-> past.probed, patched |-> past.patched]
    /\ past.probed = [s \in SourceIds |-> past.probed[s]]

\* An id a row or a connector has is never given again.
MintedInv ==
    \A s \in SourceIds : Exists(s) \/ live[s] # NoSource => s \in past.minted

\* A row as its dialog left it, and a connector, if any, made of it.
Probed(s) ==
    /\ \E text \in AnyText :
         /\ Accepts(row[s].kind, text)
         /\ row[s].address = Kept(row[s].kind, text)
         /\ past.probed[s] = ProbePath(row[s].kind, text)
    /\ live[s] \in {NoSource, Registered(row[s])}

ProbedInv ==
    \A s \in SourceIds : Exists(s) /\ past.probed[s] # NoSource => Probed(s)

\* Before the toast of a command that shows none, all is announced already.
AnnouncedInv ==
    /\ edit = NoEdit \/ edit.at = "written"
    /\ edit = NoEdit \/ ~edit.toast =>
         \A s \in SourceIds : Pending(s) /\ s \notin past.patched => s \in told

\* A call under way holds a credential it read or was given.
CallInv ==
    /\ call.at \in {"idle", "auth", "dispatch", "token", "asked", "ended"}
    /\ call.at = "auth" =>
         /\ call.source \in SourceIds /\ call.row \in SourceRows
         /\ call.purpose \in {"sync", "healthcheck"}
    /\ call.at \in {"dispatch", "token", "asked"} =>
         /\ call = [at |-> call.at, source |-> call.source, row |-> call.row,
                    purpose |-> call.purpose, worth |-> call.worth]
         /\ call.row.kind \in SourceKinds
         /\ call.worth \in Worths \ {"none"}
         /\ \/ call.purpose \in {"sync", "healthcheck"}
            \/ call.purpose = "probe" /\ call.row.kind # "LocalGit"
    /\ call.at \in {"dispatch", "token"} => call.source \in SourceIds
    /\ call.at = "token" => call.row.kind = "Outlook"
    /\ FailureTellsTheTruth

RegistryInv == RegistryTypeOK /\ MintedInv /\ ProbedInv /\ AnnouncedInv /\ CallInv

(***************************************************************************)
(* Commands                                                                *)
(***************************************************************************)

\* What a command has to show: it leaves connectors and calls alone.
LEMMA EditStep ==
    ASSUME RegistryInv, call.at # "ended", NEW toast, NEW drop, BeginEdit(toast, drop), Untouched,
           RegistryTypeOK',
           past.minted \subseteq past'.minted,
           \A s \in SourceIds : Exists(s)' => s \in past'.minted,
           ProbedInv',
           ~toast => \A s \in SourceIds : Pending(s)' /\ s \notin past'.patched => s \in told'
    PROVE  RegistryInv'
<1>1. MintedInv'
  BY DEF RegistryInv, MintedInv, Untouched
<1>2. AnnouncedInv'
  BY DEF AnnouncedInv, BeginEdit, NoEdit
<1>3. CallInv'
  <2>1. call.at # "ended" /\ call' = call
    BY DEF Untouched
  <2> QED BY <2>1 DEF RegistryInv, CallInv, FailureTellsTheTruth,
             RejectedCredentialAsksToReconnect, FailureNamesItsProduct
<1> QED BY <1>1, <1>2, <1>3 DEF RegistryInv

\* A row whose kind and address stay wants the same connector.
LEMMA SameWish ==
    ASSUME RegistryTypeOK, NEW s \in SourceIds, live' = live, Exists(s)' <=> Exists(s),
           Exists(s) => row'[s].kind = row[s].kind /\ row'[s].address = row[s].address
    PROVE  (Pending(s)' <=> Pending(s))
           /\ (Exists(s) /\ Probed(s) /\ past'.probed[s] = past.probed[s] => Probed(s)')
<1>1. Exists(s) => Registered(row'[s]) = Registered(row[s])
  BY RegisteredOfAddress
<1>2. Wanted(s)' = Wanted(s)
  BY <1>1 DEF Wanted
<1>3. Pending(s)' <=> Pending(s)
  BY <1>2 DEF Pending
<1>4. ASSUME Exists(s), Probed(s), past'.probed[s] = past.probed[s] PROVE Probed(s)'
  BY <1>1, <1>4 DEF Probed
<1> QED BY <1>3, <1>4

\* Every add: fresh ids, rows as the dialog keeps them, a toast to come.
LEMMA InsertRows ==
    ASSUME RegistryInv, call.at # "ended", NEW new \in SUBSET SourceIds, NEW kinds,
           NEW text \in AnyText, NEW ref \in SourceIds \cup {NoSource},
           new \cap past.minted = {},
           \A s \in new : kinds[s] \in SourceKinds /\ Accepts(kinds[s], text),
           BeginEdit(TRUE, NoSource), Untouched, Insert(new, kinds, text, ref),
           keychain' \in [SourceIds -> Worths], refreshKey' \in [SourceIds -> Worths]
    PROVE  RegistryInv'
<1>1. /\ past'.minted = past.minted \cup new \cup {ref}
      /\ past'.patched = past.patched
      /\ \A s \in SourceIds :
           past'.probed[s] = IF s \in new THEN ProbePath(kinds[s], text) ELSE past.probed[s]
  BY DEF RegistryInv, RegistryTypeOK, Insert
<1>2. \A s \in SourceIds :
        row'[s] = IF s \in new THEN Row(kinds[s], Kept(kinds[s], text), TRUE, ref) ELSE row[s]
  BY DEF Insert
<1>3. \A s \in new : Row(kinds[s], Kept(kinds[s], text), TRUE, ref) \in SourceRows
  <2> SUFFICES ASSUME NEW s \in new PROVE Row(kinds[s], Kept(kinds[s], text), TRUE, ref) \in SourceRows
    OBVIOUS
  <2>1. Kept(kinds[s], text) \in AnyText
    BY KeptForms DEF AnyText
  <2> QED BY <2>1 DEF SourceRows, Row
<1>4. RegistryTypeOK'
  <2>1. row' \in [SourceIds -> SourceRows \cup {NoSource}]
    BY <1>3 DEF Insert, RegistryInv, RegistryTypeOK
  <2>2. past' = [minted |-> past'.minted, probed |-> past'.probed, patched |-> past'.patched]
        /\ past'.probed = [s \in SourceIds |-> past'.probed[s]]
    BY DEF RegistryInv, RegistryTypeOK, Insert
  <2> QED BY <2>1, <2>2 DEF RegistryInv, RegistryTypeOK, Untouched
<1>5. ProbedInv'
  <2> SUFFICES ASSUME NEW s \in SourceIds, Exists(s)', past'.probed[s] # NoSource PROVE Probed(s)'
    BY DEF ProbedInv
  <2>1. CASE s \in new
    <3>0. row'[s] = Row(kinds[s], Kept(kinds[s], text), TRUE, ref)
      BY <1>2, <2>1
    <3>1. /\ row'[s].kind = kinds[s] /\ row'[s].address = Kept(kinds[s], text)
          /\ past'.probed[s] = ProbePath(kinds[s], text)
      BY <1>1, <2>1, <3>0 DEF Row
    <3>2. live'[s] = NoSource
      BY <2>1 DEF RegistryInv, MintedInv, Untouched
    <3> QED BY <2>1, <3>1, <3>2 DEF Probed
  <2>2. CASE s \notin new
    <3>1. row'[s] = row[s] /\ past'.probed[s] = past.probed[s]
      BY <1>1, <1>2, <2>2
    <3>2. Exists(s) /\ Probed(s)
      BY <3>1 DEF Exists, RegistryInv, ProbedInv
    <3>3. (Exists(s)' <=> Exists(s)) /\ live' = live
      BY <3>1 DEF Exists, Untouched
    <3> QED BY <3>1, <3>2, <3>3, SameWish DEF RegistryInv
  <2> QED BY <2>1, <2>2
<1>6. \A s \in SourceIds : Exists(s)' => s \in past'.minted
  BY <1>1, <1>2 DEF Exists, RegistryInv, MintedInv
<1> QED BY <1>1, <1>4, <1>5, <1>6, EditStep

\* sources_add and github_sources_add: one row.
LEMMA AddStep ==
    ASSUME RegistryInv, call.at # "ended", NEW s \in SourceIds, NEW text \in Texts[place],
           NEW worth \in {"good", "narrow"},
           AddSource(s, text, worth) \/ AddGithub(s, text, worth)
    PROVE  RegistryInv'
<1> DEFINE ref == IF place = "GitLab" THEN s ELSE NoSource
<1>1. text \in AnyText
  BY TextsAreAddresses DEF RegistryInv, RegistryTypeOK
<1>2. s \notin past.minted
  BY DEF AddSource, AddGithub, NewId, Unminted
<1>3. keychain' \in [SourceIds -> Worths] /\ refreshKey' \in [SourceIds -> Worths]
  BY DEF AddSource, AddGithub, RegistryInv, RegistryTypeOK, Worths
<1>4. CASE AddSource(s, text, worth)
  <2>1. /\ Accepts(place, text) /\ place \in SourceKinds
        /\ BeginEdit(TRUE, NoSource) /\ Untouched /\ Insert({s}, [i \in {s} |-> place], text, ref)
    BY <1>4 DEF AddSource, SourceKinds
  <2>2. \A i \in {s} : [j \in {s} |-> place][i] \in SourceKinds /\ Accepts([j \in {s} |-> place][i], text)
    BY <2>1
  <2>3. {s} \in SUBSET SourceIds /\ {s} \cap past.minted = {} /\ ref \in SourceIds \cup {NoSource}
    BY <1>2
  <2> HIDE DEF ref
  <2> QED BY <1>1, <1>3, <2>1, <2>2, <2>3, InsertRows
<1>5. CASE AddGithub(s, text, worth)
  <2>1. /\ Accepts("GitHub", text)
        /\ BeginEdit(TRUE, NoSource) /\ Untouched /\ Insert({s}, [i \in {s} |-> "GitHub"], text, s)
    BY <1>5 DEF AddGithub
  <2>2. \A i \in {s} : /\ [j \in {s} |-> "GitHub"][i] \in SourceKinds
                       /\ Accepts([j \in {s} |-> "GitHub"][i], text)
    BY <2>1 DEF SourceKinds
  <2>3. {s} \in SUBSET SourceIds /\ {s} \cap past.minted = {}
    BY <1>2
  <2> QED BY <1>1, <1>3, <2>1, <2>2, <2>3, InsertRows
<1> QED BY <1>4, <1>5

\* The products share a parser, and the reused key is one there is.
LEMMA AtlassianStep ==
    ASSUME RegistryInv, call.at # "ended", NEW new \in SUBSET SourceIds,
           NEW kinds \in [SourceIds -> {"Jira", "Confluence"}],
           NEW s \in SourceIds, NEW kind \in {"Jira", "Confluence"}, NEW of \in SourceIds,
           NEW text \in Texts[place], NEW worth \in {"good", "narrow"},
           AddAtlassian(new, kinds, text, worth) \/ ReuseAtlassian(s, kind, text, of)
    PROVE  RegistryInv'
<1>1. text \in AnyText
  BY TextsAreAddresses DEF RegistryInv, RegistryTypeOK
<1>2. CASE AddAtlassian(new, kinds, text, worth)
  <2>1. PICK ref \in new : Insert(new, kinds, text, ref) /\ keychain' = [keychain EXCEPT ![ref] = worth]
    BY <1>2 DEF AddAtlassian
  <2>2. /\ new \cap past.minted = {} /\ BeginEdit(TRUE, NoSource) /\ Untouched
        /\ Accepts("Jira", text) /\ refreshKey' = refreshKey
    BY <1>2 DEF AddAtlassian
  <2>3. \A i \in new : kinds[i] \in SourceKinds /\ Accepts(kinds[i], text)
    BY <2>2 DEF Accepts, SourceKinds
  <2>4. keychain' \in [SourceIds -> Worths] /\ refreshKey' \in [SourceIds -> Worths]
    BY <2>1, <2>2 DEF RegistryInv, RegistryTypeOK, Worths
  <2> QED BY <1>1, <2>1, <2>2, <2>3, <2>4, InsertRows
<1>3. CASE ReuseAtlassian(s, kind, text, of)
  <2>1. /\ Accepts(kind, text) /\ s \notin past.minted /\ Exists(of)
        /\ BeginEdit(TRUE, NoSource) /\ Untouched
        /\ Insert({s}, [i \in {s} |-> kind], text, row[of].ref)
        /\ keychain' = keychain /\ refreshKey' = refreshKey
    BY <1>3 DEF ReuseAtlassian, NewId, Unminted
  <2>2. \A i \in {s} : [j \in {s} |-> kind][i] \in SourceKinds /\ Accepts([j \in {s} |-> kind][i], text)
    BY <2>1 DEF SourceKinds
  <2>3. {s} \in SUBSET SourceIds /\ {s} \cap past.minted = {}
    BY <2>1
  <2>4. row[of].ref \in SourceIds \cup {NoSource}
    BY <2>1 DEF RegistryInv, RegistryTypeOK, Exists, SourceRows
  <2>5. keychain' \in [SourceIds -> Worths] /\ refreshKey' \in [SourceIds -> Worths]
    BY <2>1 DEF RegistryInv, RegistryTypeOK
  <2> QED BY <1>1, <2>1, <2>2, <2>3, <2>4, <2>5, InsertRows
<1> QED BY <1>2, <1>3

\* outlook_sources_add: a row at the constant address.
LEMMA OutlookStep ==
    ASSUME RegistryInv, call.at # "ended", NEW s \in SourceIds, AddOutlook(s)
    PROVE  RegistryInv'
<1>1. /\ s \notin past.minted /\ BeginEdit(TRUE, NoSource) /\ Untouched
      /\ Insert({s}, [i \in {s} |-> "Outlook"], Base, s)
  BY DEF AddOutlook, NewId, Unminted
<1>2. keychain' \in [SourceIds -> Worths] /\ refreshKey' \in [SourceIds -> Worths]
  BY DEF AddOutlook, RegistryInv, RegistryTypeOK, Worths
<1>3. \A i \in {s} : /\ [j \in {s} |-> "Outlook"][i] \in SourceKinds
                     /\ Accepts([j \in {s} |-> "Outlook"][i], Base)
  BY DEF SourceKinds, Accepts
<1>4. Base \in AnyText /\ {s} \in SUBSET SourceIds /\ {s} \cap past.minted = {}
  BY <1>1, FolderForms DEF AnyText
<1> QED BY <1>1, <1>2, <1>3, <1>4, InsertRows

\* sources_update with a config: only a changed scan root asks for a start.
LEMMA UpdateStep ==
    ASSUME RegistryInv, call.at # "ended", NEW s \in SourceIds, NEW text \in Texts[place],
           NEW email \in BOOLEAN, UpdateSource(s, text, email)
    PROVE  RegistryInv'
<1> DEFINE toast == NeedsRestart(row[s].kind)
<1>1. text \in AnyText
  BY TextsAreAddresses DEF RegistryInv, RegistryTypeOK
<1>2. Exists(s) /\ row[s] \in SourceRows
  BY DEF UpdateSource, Exists, RegistryInv, RegistryTypeOK
<1>3. row'[s] = [row[s] EXCEPT !.address = text, !.email = email]
      /\ \A t \in SourceIds \ {s} : row'[t] = row[t]
  BY DEF UpdateSource, RegistryInv, RegistryTypeOK
<1>4. row'[s] \in SourceRows
  BY <1>1, <1>2, <1>3 DEF SourceRows
<1>5. /\ past'.minted = past.minted
      /\ past'.patched = IF toast THEN past.patched ELSE past.patched \cup {s}
      /\ past'.probed = [past.probed EXCEPT ![s] = NoSource]
  BY DEF UpdateSource, RegistryInv, RegistryTypeOK, NeedsRestart
<1>6. past'.probed[s] = NoSource /\ \A t \in SourceIds \ {s} : past'.probed[t] = past.probed[t]
  BY <1>5 DEF RegistryInv, RegistryTypeOK
<1>7. BeginEdit(toast, NoSource) /\ Untouched /\ told' = told \ {s}
      /\ keychain' = keychain /\ refreshKey' = refreshKey
  BY DEF UpdateSource
<1> HIDE DEF toast
<1>8. RegistryTypeOK'
  <2>1. row' \in [SourceIds -> SourceRows \cup {NoSource}]
    BY <1>3, <1>4 DEF RegistryInv, RegistryTypeOK, UpdateSource
  <2>2. past' = [minted |-> past'.minted, probed |-> past'.probed, patched |-> past'.patched]
    BY DEF UpdateSource, RegistryInv, RegistryTypeOK
  <2>3. past'.probed = [t \in SourceIds |-> past'.probed[t]]
    BY <1>5 DEF RegistryInv, RegistryTypeOK
  <2> QED BY <1>7, <2>1, <2>2, <2>3 DEF RegistryInv, RegistryTypeOK, Untouched
<1>9. \A t \in SourceIds : Exists(t)' => t \in past'.minted
  BY <1>2, <1>3, <1>5 DEF Exists, RegistryInv, MintedInv
<1>10. \A t \in SourceIds \ {s} : (Exists(t)' <=> Exists(t)) /\ (Pending(t)' <=> Pending(t))
                                  /\ (Probed(t) /\ Exists(t) => Probed(t)')
  <2> SUFFICES ASSUME NEW t \in SourceIds \ {s}
               PROVE  /\ (Exists(t)' <=> Exists(t)) /\ (Pending(t)' <=> Pending(t))
                      /\ (Probed(t) /\ Exists(t) => Probed(t)')
    OBVIOUS
  <2>1. row'[t] = row[t] /\ past'.probed[t] = past.probed[t] /\ live' = live
    BY <1>3, <1>6, <1>7 DEF Untouched
  <2>2. Exists(t)' <=> Exists(t)
    BY <2>1 DEF Exists
  <2> QED BY <2>1, <2>2, SameWish DEF RegistryInv
<1>11. ProbedInv'
  BY <1>6, <1>10 DEF ProbedInv, RegistryInv
<1>12. ASSUME ~toast, NEW t \in SourceIds, Pending(t)', t \notin past'.patched PROVE t \in told'
  <2>1. t # s /\ t \notin past.patched
    BY <1>5, <1>12
  <2>2. Pending(t) /\ edit = NoEdit
    BY <1>7, <1>10, <1>12, <2>1 DEF BeginEdit
  <2> QED BY <1>7, <2>1, <2>2 DEF RegistryInv, AnnouncedInv
<1> QED BY <1>5, <1>7, <1>8, <1>9, <1>11, <1>12, EditStep

\* A new secret, and for a new PAT the row's reference: no connector changes.
LEMMA CredentialStep ==
    ASSUME RegistryInv, call.at # "ended", NEW s \in SourceIds, NEW worth \in {"good", "narrow"},
           RotatePat(s, worth) \/ ReconnectGithub(s) \/ ReconnectAtlassian(s)
    PROVE  RegistryInv'
<1>1. Exists(s) /\ row[s] \in SourceRows
  BY DEF RotatePat, ReconnectGithub, ReconnectAtlassian, Exists, RegistryInv, RegistryTypeOK
<1>2. BeginEdit(FALSE, NoSource) /\ Untouched /\ refreshKey' = refreshKey /\ told' = told
      /\ past' = past
  BY DEF RotatePat, ReconnectGithub, ReconnectAtlassian
<1>3. keychain' \in [SourceIds -> Worths]
  BY DEF RotatePat, ReconnectGithub, ReconnectAtlassian, RegistryInv, RegistryTypeOK, Worths
<1>4. row' \in [SourceIds -> SourceRows \cup {NoSource}]
      /\ \A t \in SourceIds : /\ Exists(t)' <=> Exists(t)
                              /\ Exists(t) => row'[t].kind = row[t].kind
                                              /\ row'[t].address = row[t].address
  <2>1. CASE RotatePat(s, worth)
    <3>1. row'[s] = [row[s] EXCEPT !.ref = s]
      BY <2>1 DEF RotatePat, RegistryInv, RegistryTypeOK
    <3>2. row'[s] \in SourceRows /\ row'[s].kind = row[s].kind /\ row'[s].address = row[s].address
      BY <1>1, <3>1 DEF SourceRows
    <3>3. \A t \in SourceIds \ {s} : row'[t] = row[t]
      BY <2>1 DEF RotatePat, RegistryInv, RegistryTypeOK
    <3>4. row' \in [SourceIds -> SourceRows \cup {NoSource}]
      BY <2>1, <3>2, <3>3 DEF RotatePat, RegistryInv, RegistryTypeOK
    <3> QED BY <1>1, <3>2, <3>3, <3>4, NoSourceIsNone DEF Exists
  <2>2. CASE ReconnectGithub(s) \/ ReconnectAtlassian(s)
    BY <2>2 DEF ReconnectGithub, ReconnectAtlassian, RegistryInv, RegistryTypeOK, Exists
  <2> QED BY <2>1, <2>2
<1>5. RegistryTypeOK'
  BY <1>2, <1>3, <1>4 DEF RegistryInv, RegistryTypeOK, Untouched
<1>6. \A t \in SourceIds : (Pending(t)' <=> Pending(t)) /\ (Exists(t) /\ Probed(t) => Probed(t)')
  <2> SUFFICES ASSUME NEW t \in SourceIds
               PROVE  (Pending(t)' <=> Pending(t)) /\ (Exists(t) /\ Probed(t) => Probed(t)')
    OBVIOUS
  <2>1. live' = live /\ past'.probed[t] = past.probed[t]
    BY <1>2 DEF Untouched
  <2> QED BY <1>4, <2>1, SameWish DEF RegistryInv
<1>7. ProbedInv'
  BY <1>2, <1>4, <1>6 DEF ProbedInv, RegistryInv
<1>8. \A t \in SourceIds : Exists(t)' => t \in past'.minted
  BY <1>2, <1>4 DEF RegistryInv, MintedInv
<1>9. \A t \in SourceIds : Pending(t)' /\ t \notin past'.patched => t \in told'
  BY <1>2, <1>6 DEF RegistryInv, AnnouncedInv, BeginEdit
<1>10. past.minted \subseteq past'.minted
  BY <1>2
<1> QED BY <1>2, <1>5, <1>7, <1>8, <1>9, <1>10, EditStep

\* sources_delete: the row goes, its connector stays, and a toast is due.
LEMMA DeleteStep ==
    ASSUME RegistryInv, call.at # "ended", NEW s \in SourceIds, DeleteSource(s)
    PROVE  RegistryInv'
<1>1. PICK drop : BeginEdit(TRUE, drop)
  BY DEF DeleteSource
<1>2. /\ Untouched /\ row' = [row EXCEPT ![s] = NoSource]
      /\ keychain' = keychain /\ refreshKey' = refreshKey
      /\ past' = [past EXCEPT !.probed[s] = NoSource]
  BY DEF DeleteSource
<1>3. /\ past'.minted = past.minted /\ past'.probed = [past.probed EXCEPT ![s] = NoSource]
      /\ past' = [minted |-> past'.minted, probed |-> past'.probed, patched |-> past'.patched]
  BY <1>2 DEF RegistryInv, RegistryTypeOK
<1>4. RegistryTypeOK'
  <2>1. past'.probed = [t \in SourceIds |-> past'.probed[t]]
    BY <1>3 DEF RegistryInv, RegistryTypeOK
  <2>2. row' \in [SourceIds -> SourceRows \cup {NoSource}]
    BY <1>2 DEF RegistryInv, RegistryTypeOK
  <2> QED BY <1>2, <1>3, <2>1, <2>2 DEF RegistryInv, RegistryTypeOK, Untouched
<1>5. ~Exists(s)'
  BY <1>2 DEF Exists, RegistryInv, RegistryTypeOK
<1>6. \A t \in SourceIds \ {s} : row'[t] = row[t] /\ past'.probed[t] = past.probed[t]
  BY <1>2, <1>3 DEF RegistryInv, RegistryTypeOK
<1>7. \A t \in SourceIds : Exists(t)' => t \in past'.minted
  BY <1>3, <1>5, <1>6 DEF Exists, RegistryInv, MintedInv
<1>8. ProbedInv'
  <2> SUFFICES ASSUME NEW t \in SourceIds, Exists(t)', past'.probed[t] # NoSource PROVE Probed(t)'
    BY DEF ProbedInv
  <2>1. t # s /\ row'[t] = row[t] /\ past'.probed[t] = past.probed[t] /\ live' = live
    BY <1>2, <1>5, <1>6 DEF Untouched
  <2>2. (Exists(t)' <=> Exists(t)) /\ Exists(t) /\ Probed(t)
    BY <2>1 DEF Exists, RegistryInv, ProbedInv
  <2> QED BY <2>1, <2>2, SameWish DEF RegistryInv
<1> QED BY <1>1, <1>2, <1>3, <1>4, <1>7, <1>8, EditStep

\* The key goes, the toast shows: no row changes.
LEMMA ReturnStep ==
    ASSUME RegistryInv, call.at # "ended", DropKey \/ RestartToast
    PROVE  RegistryInv'
<1>1. UNCHANGED <<place, row, live, call, refreshKey, past>>
  BY DEF DropKey, RestartToast, Untouched
<1>2. keychain' \in [SourceIds -> Worths]
  BY DEF DropKey, RestartToast, RegistryInv, RegistryTypeOK, Worths
<1>3. RegistryTypeOK' /\ MintedInv' /\ ProbedInv'
  BY <1>1, <1>2 DEF RegistryInv, RegistryTypeOK, MintedInv, ProbedInv, Probed, Exists
<1>4. CallInv'
  BY <1>1 DEF RegistryInv, CallInv, FailureTellsTheTruth, RejectedCredentialAsksToReconnect,
     FailureNamesItsProduct
<1>5. \A s \in SourceIds : Pending(s)' <=> Pending(s)
  BY <1>1 DEF Pending, Wanted, Exists
<1>6. AnnouncedInv'
  <2>1. CASE DropKey
    <3>1. edit'.at = edit.at /\ edit'.toast = edit.toast /\ edit.at = "written" /\ told' = told
      BY <2>1 DEF DropKey
    <3> QED BY <1>1, <1>5, <3>1 DEF RegistryInv, AnnouncedInv, NoEdit
  <2>2. CASE RestartToast
    <3>1. edit' = NoEdit /\ told' = (IF edit.toast THEN told \cup {s \in SourceIds : Pending(s)} ELSE told)
      BY <2>2 DEF RestartToast
    <3> QED BY <1>1, <1>5, <3>1 DEF RegistryInv, AnnouncedInv
  <2> QED BY <2>1, <2>2
<1> QED BY <1>3, <1>4, <1>6 DEF RegistryInv

(***************************************************************************)
(* The start                                                               *)
(***************************************************************************)

\* The repair keeps which rows there are, their kinds and addresses.
LEMMA RepairKeeps ==
    ASSUME NEW rows \in [SourceIds -> SourceRows \cup {NoSource}]
    PROVE  /\ RepairEmails(rows) \in [SourceIds -> SourceRows \cup {NoSource}]
           /\ \A s \in SourceIds :
                /\ RepairEmails(rows)[s] = NoSource <=> rows[s] = NoSource
                /\ rows[s] # NoSource => /\ RepairEmails(rows)[s].kind = rows[s].kind
                                         /\ RepairEmails(rows)[s].address = rows[s].address
<1>1. ASSUME NEW s \in SourceIds
      PROVE  /\ RepairEmails(rows)[s] \in SourceRows \cup {NoSource}
             /\ RepairEmails(rows)[s] = NoSource <=> rows[s] = NoSource
             /\ rows[s] # NoSource => /\ RepairEmails(rows)[s].kind = rows[s].kind
                                      /\ RepairEmails(rows)[s].address = rows[s].address
  <2>1. \/ RepairEmails(rows)[s] = rows[s]
        \/ rows[s] # NoSource /\ RepairEmails(rows)[s] = [rows[s] EXCEPT !.email = TRUE]
    BY DEF RepairEmails
  <2>2. CASE RepairEmails(rows)[s] = rows[s]
    BY <2>2
  <2>3. CASE rows[s] # NoSource /\ RepairEmails(rows)[s] = [rows[s] EXCEPT !.email = TRUE]
    <3>1. rows[s] \in SourceRows
      BY <2>3
    <3>2. [rows[s] EXCEPT !.email = TRUE] \in SourceRows
          /\ [rows[s] EXCEPT !.email = TRUE].kind = rows[s].kind
          /\ [rows[s] EXCEPT !.email = TRUE].address = rows[s].address
      BY <3>1 DEF SourceRows
    <3> QED BY <2>3, <3>2, NoSourceIsNone
  <2> QED BY <2>1, <2>2, <2>3
<1>2. RepairEmails(rows) = [s \in SourceIds |-> RepairEmails(rows)[s]]
  BY DEF RepairEmails
<1> QED BY <1>1, <1>2

\* After a start every connector is the one its row wants.
LEMMA SnapshotIsWanted ==
    ASSUME live = Snapshot(row), NEW s \in SourceIds
    PROVE  ~Pending(s) /\ (live[s] # NoSource => Exists(s))
BY DEF Snapshot, Pending, Wanted, Exists

\* The installation as the first start leaves it.
LEMMA RegistryStart == RegistryInit => RegistryInv
<1> SUFFICES ASSUME RegistryInit PROVE RegistryInv
  OBVIOUS
<1>1. PICK old \in OldRows(place) : row = RepairEmails(old) /\ live = Snapshot(row)
  BY DEF RegistryInit
<1>2. old \in [SourceIds -> SourceRows \cup {NoSource}]
  <2>1. [Base EXCEPT !.cloud = TRUE, !.slash = FALSE] \in AnyText
    BY FolderForms DEF Addresses, AnyText
  <2>2. KindsOf(place) \subseteq SourceKinds
    BY DEF RegistryInit, KindsOf, Workplaces, SourceKinds
  <2>3. \A k \in KindsOf(place), t \in SourceIds :
          Row(k, [Base EXCEPT !.cloud = TRUE, !.slash = FALSE], k = "Jira", t) \in SourceRows
    BY <2>1, <2>2 DEF Row, SourceRows
  <2> QED BY <1>1, <2>3 DEF OldRows
<1>3. row \in [SourceIds -> SourceRows \cup {NoSource}]
  BY <1>1, <1>2, RepairKeeps
<1>4. keychain \in [SourceIds -> Worths] /\ refreshKey \in [SourceIds -> Worths]
  <2>1. PICK o \in OldRows(place) :
          keychain = [k \in SourceIds |->
                        IF \E s \in SourceIds : o[s] # NoSource /\ o[s].ref = k
                        THEN "good" ELSE "none"]
    BY DEF RegistryInit
  <2> QED BY <2>1 DEF RegistryInit, Worths
<1>5. /\ past = [minted |-> past.minted, probed |-> past.probed, patched |-> past.patched]
      /\ past.probed = [s \in SourceIds |-> NoSource]
      /\ past.minted = {s \in SourceIds : row[s] # NoSource \/ keychain[s] # "none"}
  BY DEF RegistryInit
<1>6. RegistryTypeOK
  BY <1>3, <1>4, <1>5 DEF RegistryInit, RegistryTypeOK
<1>7. MintedInv
  BY <1>1, <1>5, SnapshotIsWanted DEF MintedInv, Exists
<1>8. ProbedInv
  BY <1>5 DEF ProbedInv
<1>9. AnnouncedInv
  BY <1>1, SnapshotIsWanted DEF RegistryInit, AnnouncedInv
<1>10. CallInv
  BY DEF RegistryInit, NoCall, CallInv, FailureTellsTheTruth, RejectedCredentialAsksToReconnect,
     FailureNamesItsProduct
<1> QED BY <1>6, <1>7, <1>8, <1>9, <1>10 DEF RegistryInv

\* A start: every connector is its row's.
LEMMA RestartStep ==
    ASSUME RegistryInv, Restart
    PROVE  RegistryInv'
<1>1. /\ row' = RepairEmails(row) /\ live' = Snapshot(row') /\ edit' = NoEdit /\ call' = NoCall
      /\ UNCHANGED <<place, keychain, refreshKey>>
  BY DEF Restart
<1>2. past'.minted = past.minted /\ past'.probed = past.probed
      /\ past' = [minted |-> past'.minted, probed |-> past'.probed, patched |-> past'.patched]
  BY DEF Restart, RegistryInv, RegistryTypeOK
<1>3. /\ row' \in [SourceIds -> SourceRows \cup {NoSource}]
      /\ \A s \in SourceIds :
           /\ Exists(s)' <=> Exists(s)
           /\ Exists(s) => row'[s].kind = row[s].kind /\ row'[s].address = row[s].address
  BY <1>1, RepairKeeps DEF RegistryInv, RegistryTypeOK, Exists
<1>4. \A s \in SourceIds : ~Pending(s)' /\ (live'[s] # NoSource => Exists(s)')
  BY <1>1 DEF Snapshot, Pending, Wanted, Exists
<1>5. RegistryTypeOK'
  BY <1>1, <1>2, <1>3 DEF RegistryInv, RegistryTypeOK
<1>6. MintedInv'
  BY <1>2, <1>3, <1>4 DEF RegistryInv, MintedInv
<1>7. ProbedInv'
  <2> SUFFICES ASSUME NEW s \in SourceIds, Exists(s)', past'.probed[s] # NoSource PROVE Probed(s)'
    BY DEF ProbedInv
  <2>1. Probed(s) /\ row'[s].kind = row[s].kind /\ row'[s].address = row[s].address
    BY <1>2, <1>3 DEF RegistryInv, ProbedInv
  <2>2. live'[s] = Registered(row'[s])
    BY <1>4 DEF Pending, Wanted
  <2> QED BY <1>2, <2>1, <2>2 DEF Probed
<1>8. AnnouncedInv'
  BY <1>1, <1>4 DEF AnnouncedInv
<1>9. CallInv'
  BY <1>1 DEF NoCall, CallInv, FailureTellsTheTruth, RejectedCredentialAsksToReconnect,
     FailureNamesItsProduct
<1> QED BY <1>5, <1>6, <1>7, <1>8, <1>9 DEF RegistryInv

(***************************************************************************)
(* The outside, and calls                                                  *)
(***************************************************************************)

\* What touches secrets and the call only has the call to answer for.
LEMMA CallOnly ==
    ASSUME RegistryInv, UNCHANGED <<place, row, live, told, edit, past>>,
           keychain' \in [SourceIds -> Worths], refreshKey' \in [SourceIds -> Worths], CallInv'
    PROVE  RegistryInv'
<1>1. RegistryTypeOK' /\ MintedInv' /\ ProbedInv'
  BY DEF RegistryInv, RegistryTypeOK, MintedInv, ProbedInv, Probed, Exists
<1>2. AnnouncedInv'
  BY DEF RegistryInv, AnnouncedInv, Pending, Wanted, Exists
<1> QED BY <1>1, <1>2 DEF RegistryInv

\* A credential that is revoked or lost changes no row and no connector.
LEMMA OutsideStep ==
    ASSUME RegistryInv, NEW k \in SourceIds, Revoke(k) \/ LoseKey(k)
    PROVE  RegistryInv'
<1>1. UNCHANGED <<place, row, live, told, edit, past, call>>
  BY DEF Revoke, LoseKey, Outside
<1>2. keychain' \in [SourceIds -> Worths] /\ refreshKey' \in [SourceIds -> Worths]
  BY DEF Revoke, LoseKey, RegistryInv, RegistryTypeOK, Worths
<1>3. CallInv'
  BY <1>1 DEF RegistryInv, CallInv, FailureTellsTheTruth, RejectedCredentialAsksToReconnect,
     FailureNamesItsProduct, Misdirected
<1> QED BY <1>1, <1>2, <1>3, CallOnly

\* A call begins with the row there is.
LEMMA BeginCallStep ==
    ASSUME RegistryInv, NEW s \in SourceIds, NEW purpose \in {"sync", "healthcheck"},
           StartCall(s, purpose)
    PROVE  RegistryInv'
<1>1. UNCHANGED <<place, row, live, told, edit, past, keychain, refreshKey>>
  BY DEF StartCall, Elsewhere
<1>2. keychain' \in [SourceIds -> Worths] /\ refreshKey' \in [SourceIds -> Worths]
  BY <1>1 DEF RegistryInv, RegistryTypeOK
<1>3. row[s] \in SourceRows
  BY DEF StartCall, Exists, RegistryInv, RegistryTypeOK
<1>4. call' = [at |-> "auth", source |-> s, row |-> row[s], purpose |-> purpose]
  BY DEF StartCall
<1>5. CallInv'
  BY <1>3, <1>4 DEF CallInv, FailureTellsTheTruth, RejectedCredentialAsksToReconnect,
     FailureNamesItsProduct
<1> QED BY <1>1, <1>2, <1>5, CallOnly

\* A dialog probes with a credential it was given, never for local git.
LEMMA BeginProbeStep ==
    ASSUME RegistryInv, NEW s, NEW kind \in KindsOf(place), NEW text \in Texts[place],
           NEW worth \in Worths \ {"none"}, StartProbe(s, kind, text, worth)
    PROVE  RegistryInv'
<1>1. UNCHANGED <<place, row, live, told, edit, past, keychain, refreshKey>>
  BY DEF StartProbe, Elsewhere
<1>2. keychain' \in [SourceIds -> Worths] /\ refreshKey' \in [SourceIds -> Worths]
  BY <1>1 DEF RegistryInv, RegistryTypeOK
<1>3. kind \in SourceKinds \ {"LocalGit"}
  BY DEF StartProbe, KindsOf, RegistryInv, RegistryTypeOK, Workplaces, SourceKinds
<1>4. call' = [at |-> "asked", source |-> s, row |-> Row(kind, Kept(kind, text), TRUE, NoSource),
               purpose |-> "probe", worth |-> worth]
  BY DEF StartProbe
<1>5. call'.row.kind = kind
  BY <1>4 DEF Row
<1>6. CallInv'
  BY <1>3, <1>4, <1>5 DEF CallInv, FailureTellsTheTruth, RejectedCredentialAsksToReconnect,
     FailureNamesItsProduct
<1> QED BY <1>1, <1>2, <1>6, CallOnly

\* How a call ends well: with an error that keeps the two promises.
LEMMA EndStep ==
    ASSUME RegistryInv, UNCHANGED <<place, row, live, told, edit, past, keychain, refreshKey>>,
           NEW worth, NEW answer, NEW error, EndCall(worth, answer, error),
           call.purpose # "healthcheck" =>
             /\ answer \in {"unauthorized", "forbidden"} \/ worth = "none" => error \in ReconnectErrors
             /\ error.variant = "Auth" =>
                  \/ worth # "good" \/ Misdirected
                  \/ call.row.kind = "Outlook" /\ answer = "unavailable",
           error # Done =>
             error.code \in IpcSourceCodes \cup
                 FamilyCodes(IF call.purpose = "probe" /\ call.row.kind = "Confluence"
                             THEN "Jira" ELSE call.row.kind)
    PROVE  RegistryInv'
<1>1. /\ call'.at = "ended" /\ call'.source = call.source /\ call'.row = call.row
      /\ call'.purpose = call.purpose /\ call'.worth = worth /\ call'.answer = answer
      /\ call'.error = error
  BY DEF EndCall
<1>2. Misdirected' <=> Misdirected
  BY <1>1 DEF Misdirected
<1>3. FailureTellsTheTruth'
  BY <1>1, <1>2 DEF FailureTellsTheTruth, RejectedCredentialAsksToReconnect, FailureNamesItsProduct
<1>4. CallInv'
  BY <1>1, <1>3 DEF CallInv
<1>5. keychain' \in [SourceIds -> Worths] /\ refreshKey' \in [SourceIds -> Worths]
  BY DEF RegistryInv, RegistryTypeOK
<1> QED BY <1>4, <1>5, CallOnly

\* A source without its secret: an error of its family that asks to reconnect.
LEMMA AuthTells ==
    ASSUME RegistryInv, NEW s \in SourceIds, NEW r \in SourceRows
    PROVE  /\ SourceAuth(s, r) # Done =>
                /\ SourceAuth(s, r) \in ReconnectErrors
                /\ SourceAuth(s, r).code \in FamilyCodes(r.kind)
           /\ SourceAuth(s, r) = Done =>
                CASE r.kind = "LocalGit" -> TRUE
                  [] r.kind = "Outlook"  -> refreshKey[s] \in Worths \ {"none"}
                  [] OTHER               -> keychain[r.ref] \in Worths \ {"none"}
<1>1. r.kind \in SourceKinds /\ r.ref \in SourceIds \cup {NoSource}
  BY DEF SourceRows
<1>2. /\ r.ref # NoSource => keychain[r.ref] \in Worths
      /\ keychain[s] \in Worths /\ refreshKey[s] \in Worths
  BY <1>1 DEF RegistryInv, RegistryTypeOK
<1> USE DEF Error, Done, SourceAuth, ReconnectErrors, FamilyCodes
<1>3. CASE r.kind = "GitLab"
  BY <1>1, <1>2, <1>3 DEF GitlabAuth, GitlabUpstreamError, GitlabCodes
<1>4. CASE r.kind = "GitHub"
  BY <1>1, <1>2, <1>4 DEF GithubAuth, GithubUpstreamError, GithubCodes
<1>5. CASE r.kind \in {"Jira", "Confluence"}
  BY <1>1, <1>2, <1>5 DEF AtlassianAuth, AtlassianError, AtlassianCodes
<1>6. CASE r.kind = "Outlook"
  BY <1>1, <1>2, <1>6 DEF OutlookAuth, OutlookUpstreamError, OutlookCodes
<1>7. CASE r.kind = "LocalGit"
  BY <1>7
<1> QED BY <1>1, <1>3, <1>4, <1>5, <1>6, <1>7 DEF SourceKinds

\* build_source_auth: what it reads, or why it cannot.
LEMMA BuildAuthStep ==
    ASSUME RegistryInv, BuildAuth
    PROVE  RegistryInv'
<1> DEFINE error == SourceAuth(call.source, call.row)
           worth == CASE call.row.kind = "LocalGit" -> "good"
                      [] call.row.kind = "Outlook"  -> refreshKey[call.source]
                      [] OTHER                      -> keychain[call.row.ref]
<1>1. /\ call.source \in SourceIds /\ call.row \in SourceRows
      /\ call.purpose \in {"sync", "healthcheck"}
  BY DEF BuildAuth, RegistryInv, CallInv
<1>2. UNCHANGED <<place, row, live, told, edit, past, keychain, refreshKey>>
  BY DEF BuildAuth, Elsewhere
<1>3. CASE error = Done
  <2>1. worth \in Worths \ {"none"} /\ call.row.kind \in SourceKinds
    BY <1>1, <1>3, AuthTells DEF SourceRows, Worths
  <2>2. call' = [at |-> "dispatch", source |-> call.source, row |-> call.row,
                 purpose |-> call.purpose, worth |-> worth]
    BY <1>3 DEF BuildAuth
  <2> HIDE DEF worth
  <2>3. CallInv'
    BY <1>1, <2>1, <2>2 DEF CallInv, FailureTellsTheTruth, RejectedCredentialAsksToReconnect,
       FailureNamesItsProduct
  <2>4. keychain' \in [SourceIds -> Worths] /\ refreshKey' \in [SourceIds -> Worths]
    BY <1>2 DEF RegistryInv, RegistryTypeOK
  <2> QED BY <1>2, <2>3, <2>4, CallOnly
<1>4. CASE error # Done
  <2>1. EndCall("none", "none", error)
    BY <1>4 DEF BuildAuth
  <2>2. error \in ReconnectErrors /\ error.code \in FamilyCodes(call.row.kind)
    BY <1>1, <1>4, AuthTells
  <2> HIDE DEF error
  <2> QED BY <1>1, <1>2, <2>1, <2>2, EndStep
<1> QED BY <1>3, <1>4

\* The connector of the source, or the error that there is none.
LEMMA DispatchStep ==
    ASSUME RegistryInv, Dispatch
    PROVE  RegistryInv'
<1>1. UNCHANGED <<place, row, live, told, edit, past, keychain, refreshKey>>
  BY DEF Dispatch, Elsewhere
<1>2. /\ call.at = "dispatch" /\ call.source \in SourceIds /\ call.worth \in Worths \ {"none"}
      /\ call = [at |-> call.at, source |-> call.source, row |-> call.row,
                 purpose |-> call.purpose, worth |-> call.worth]
      /\ call.row.kind \in SourceKinds
      /\ \/ call.purpose \in {"sync", "healthcheck"}
         \/ call.purpose = "probe" /\ call.row.kind # "LocalGit"
  BY DEF Dispatch, RegistryInv, CallInv
<1>3. CASE Registers(call.row.kind, call.source)
  <2>1. PICK at \in {"token", "asked"} :
          /\ call' = [call EXCEPT !.at = at]
          /\ at = "token" => call.row.kind = "Outlook"
    BY <1>3 DEF Dispatch
  <2>2. call' = [at |-> at, source |-> call.source, row |-> call.row,
                 purpose |-> call.purpose, worth |-> call.worth]
    BY <1>2, <2>1
  <2>3. CallInv'
    BY <1>2, <2>1, <2>2 DEF CallInv, FailureTellsTheTruth, RejectedCredentialAsksToReconnect,
       FailureNamesItsProduct
  <2>4. keychain' \in [SourceIds -> Worths] /\ refreshKey' \in [SourceIds -> Worths]
    BY <1>1 DEF RegistryInv, RegistryTypeOK
  <2> QED BY <1>1, <2>3, <2>4, CallOnly
<1>4. CASE ~Registers(call.row.kind, call.source)
  <2> DEFINE error == Error("InvalidConfig", "ipc.source.not_found")
  <2>1. EndCall(call.worth, "none", error)
    BY <1>4 DEF Dispatch
  <2>2. error.variant # "Auth" /\ error.code \in IpcSourceCodes
    BY DEF Error, IpcSourceCodes
  <2> HIDE DEF error
  <2> QED BY <1>1, <1>2, <2>1, <2>2, EndStep
<1> QED BY <1>3, <1>4

\* Outlook's refresh: a new token, or one of its three failures.
LEMMA RefreshStep ==
    ASSUME RegistryInv, RefreshFirst
    PROVE  RegistryInv'
<1>1. /\ call.at = "token" /\ call.row.kind = "Outlook" /\ call.source \in SourceIds
      /\ call.worth \in Worths \ {"none"}
      /\ call = [at |-> call.at, source |-> call.source, row |-> call.row,
                 purpose |-> call.purpose, worth |-> call.worth]
      /\ call.row.kind \in SourceKinds
      /\ \/ call.purpose \in {"sync", "healthcheck"}
         \/ call.purpose = "probe" /\ call.row.kind # "LocalGit"
  BY DEF RefreshFirst, RegistryInv, CallInv
<1>2. UNCHANGED <<place, row, live, told, edit, past>>
  BY DEF RefreshFirst, Elsewhere
<1>3. CASE call' = [call EXCEPT !.at = "asked"]
           /\ keychain' = [keychain EXCEPT ![call.source] = "good"]
           /\ refreshKey' = [refreshKey EXCEPT ![call.source] = "good"]
  <2>1. call' = [at |-> "asked", source |-> call.source, row |-> call.row,
                 purpose |-> call.purpose, worth |-> call.worth]
    BY <1>1, <1>3
  <2>2. CallInv'
    BY <1>1, <2>1 DEF CallInv, FailureTellsTheTruth, RejectedCredentialAsksToReconnect,
       FailureNamesItsProduct
  <2>3. keychain' \in [SourceIds -> Worths] /\ refreshKey' \in [SourceIds -> Worths]
    BY <1>3 DEF RegistryInv, RegistryTypeOK, Worths
  <2> QED BY <1>2, <2>2, <2>3, CallOnly
<1> DEFINE rejected == Error("Auth", "oauth.refresh_rejected")
           broken == Error("Network", "http.transport")
<1>4. /\ rejected \in ReconnectErrors /\ rejected.code \in FamilyCodes("Outlook")
      /\ broken.variant # "Auth" /\ broken.code \in FamilyCodes("Outlook")
  BY DEF Error, ReconnectErrors, FamilyCodes, SdkCodes, OauthTokenCodes, OutlookCodes
<1>5. CASE call.worth = "revoked" /\ EndCall(call.worth, "unauthorized", rejected)
           /\ UNCHANGED <<keychain, refreshKey>>
  <2> HIDE DEF rejected
  <2> QED BY <1>1, <1>2, <1>4, <1>5, EndStep
<1>6. CASE EndCall(call.worth, "unavailable", rejected) /\ UNCHANGED <<keychain, refreshKey>>
  <2> HIDE DEF rejected
  <2> QED BY <1>1, <1>2, <1>4, <1>6, EndStep
<1>7. CASE EndCall(call.worth, "connect", broken) /\ UNCHANGED <<keychain, refreshKey>>
  <2> HIDE DEF broken
  <2> QED BY <1>1, <1>2, <1>4, <1>7, EndStep
<1> QED BY <1>3, <1>5, <1>6, <1>7 DEF RefreshFirst

\* The service's answer, if it is the service, fits the credential.
LEMMA AnsweredStep ==
    ASSUME RegistryInv, NEW answer \in Answers, Answered(answer)
    PROVE  RegistryInv'
<1>1. /\ call.at = "asked" /\ call.row.kind \in SourceKinds /\ call.worth \in Worths \ {"none"}
      /\ \/ call.purpose \in {"sync", "healthcheck"}
         \/ call.purpose = "probe" /\ call.row.kind # "LocalGit"
  BY DEF Answered, RegistryInv, CallInv
<1>2. UNCHANGED <<place, row, live, told, edit, past, keychain, refreshKey>>
  BY DEF Answered, Elsewhere
<1>3. answer \in {"unauthorized", "forbidden"} =>
        /\ call.row.kind # "LocalGit"
        /\ call.worth # "good" \/ Misdirected
  BY <1>1 DEF Answered, Replies, Worths, Answers
<1>4. CASE call.purpose = "sync" /\ EndCall(call.worth, answer, WalkError(call.row.kind, answer))
  BY <1>1, <1>2, <1>3, <1>4, WalkTells, EndStep
<1>5. CASE /\ call.purpose = "healthcheck"
           /\ EndCall(call.worth, answer, HealthError(call.row.kind, answer))
  BY <1>1, <1>2, <1>3, <1>5, HealthTells, EndStep
<1>6. CASE /\ call.purpose = "probe"
           /\ \E account \in Accounts :
                EndCall(call.worth, answer, ProbeError(call.row.kind, answer, account))
  <2>1. PICK account \in Accounts :
          EndCall(call.worth, answer, ProbeError(call.row.kind, answer, account))
    BY <1>6
  <2>2. call.row.kind \in SourceKinds \ {"LocalGit"}
    BY <1>1, <1>6
  <2> QED BY <1>1, <1>2, <1>3, <1>6, <2>1, <2>2, ProbeTells, EndStep
<1> QED BY <1>4, <1>5, <1>6 DEF Answered

(***************************************************************************)
(* The theorems                                                            *)
(***************************************************************************)

\* Rows, connectors, toasts and calls through every step.
LEMMA RegistryInvariance == RegistryInv /\ [RegistryNext]_registryVars => RegistryInv'
<1> SUFFICES ASSUME RegistryInv, [RegistryNext]_registryVars PROVE RegistryInv'
  OBVIOUS
<1>1. CASE UNCHANGED registryVars
  BY <1>1 DEF registryVars, RegistryInv, RegistryTypeOK, MintedInv, ProbedInv, Probed, Exists,
     AnnouncedInv, Pending, Wanted, CallInv, FailureTellsTheTruth,
     RejectedCredentialAsksToReconnect, FailureNamesItsProduct, Misdirected
<1>2. CASE RegistryNext
  <2>1. call.at # "ended"
    BY <1>2 DEF RegistryNext
  <2>2. ASSUME NEW s \in SourceIds, NEW text \in Texts[place], NEW worth \in {"good", "narrow"},
               AddSource(s, text, worth) \/ AddGithub(s, text, worth)
        PROVE  RegistryInv'
    BY <2>1, <2>2, AddStep
  <2>3. ASSUME NEW new \in SUBSET SourceIds, NEW kinds \in [SourceIds -> {"Jira", "Confluence"}],
               NEW text \in Texts[place], NEW worth \in {"good", "narrow"},
               AddAtlassian(new, kinds, text, worth)
        PROVE  RegistryInv'
    <3>1. PICK s \in new : TRUE
      BY <2>3 DEF AddAtlassian
    <3>2. s \in SourceIds /\ "Jira" \in {"Jira", "Confluence"}
      OBVIOUS
    <3> QED BY <2>1, <2>3, <3>2, AtlassianStep
  <2>4. ASSUME NEW s \in SourceIds, NEW of \in SourceIds, NEW kind \in {"Jira", "Confluence"},
               NEW text \in Texts[place], ReuseAtlassian(s, kind, text, of)
        PROVE  RegistryInv'
    <3>1. {} \in SUBSET SourceIds /\ "good" \in {"good", "narrow"}
          /\ [i \in SourceIds |-> "Jira"] \in [SourceIds -> {"Jira", "Confluence"}]
      OBVIOUS
    <3> QED BY <2>1, <2>4, <3>1, AtlassianStep
  <2>5. ASSUME NEW s \in SourceIds, NEW text \in Texts[place], NEW email \in BOOLEAN,
               UpdateSource(s, text, email)
        PROVE  RegistryInv'
    BY <2>1, <2>5, UpdateStep
  <2>6. ASSUME NEW s \in SourceIds, NEW worth \in {"good", "narrow"}, RotatePat(s, worth)
        PROVE  RegistryInv'
    BY <2>1, <2>6, CredentialStep
  <2>7. ASSUME NEW s \in SourceIds,
               \/ AddOutlook(s) \/ ReconnectGithub(s) \/ ReconnectAtlassian(s)
               \/ DeleteSource(s) \/ Revoke(s) \/ LoseKey(s)
        PROVE  RegistryInv'
    <3>1. "good" \in {"good", "narrow"}
      OBVIOUS
    <3> QED BY <2>1, <2>7, <3>1, OutlookStep, CredentialStep, DeleteStep, OutsideStep
  <2>8. CASE DropKey \/ RestartToast
    BY <2>1, <2>8, ReturnStep
  <2>9. CASE Restart
    BY <2>9, RestartStep
  <2>10. ASSUME NEW s \in SourceIds, NEW purpose \in {"sync", "healthcheck"}, StartCall(s, purpose)
         PROVE  RegistryInv'
    BY <2>10, BeginCallStep
  <2>11. ASSUME NEW kind \in KindsOf(place), NEW text \in Texts[place],
                NEW worth \in Worths \ {"none"}, NEW s, StartProbe(s, kind, text, worth)
         PROVE  RegistryInv'
    BY <2>11, BeginProbeStep
  <2>12. CASE BuildAuth \/ Dispatch \/ RefreshFirst
    BY <2>12, BuildAuthStep, DispatchStep, RefreshStep
  <2>13. ASSUME NEW answer \in Answers, Answered(answer) PROVE RegistryInv'
    BY <2>13, AnsweredStep
  <2> QED BY <1>2, <2>2, <2>3, <2>4, <2>5, <2>6, <2>7, <2>8, <2>9, <2>10, <2>11, <2>12, <2>13
          DEF RegistryNext
<1> QED BY <1>1, <1>2

\* The dialogs' promises follow from how their rows came about.
LEMMA RegistryKeepsPromises == RegistryInv => ConnectorFollowsRow /\ FailureTellsTheTruth
<1> SUFFICES ASSUME RegistryInv PROVE ConnectorFollowsRow /\ FailureTellsTheTruth
  OBVIOUS
<1>1. PendingChangeIsAnnounced
  BY DEF RegistryInv, AnnouncedInv, PendingChangeIsAnnounced
<1>2. ASSUME NEW s \in SourceIds, Exists(s), past.probed[s] # NoSource
      PROVE  /\ Registered(row[s]) # NoSource
             /\ live[s] # NoSource => HealthPath(row[s].kind, live[s]) = past.probed[s]
  <2>1. Probed(s) /\ row[s].kind \in SourceKinds
    BY <1>2 DEF RegistryInv, ProbedInv, RegistryTypeOK, Exists, SourceRows
  <2>2. PICK text \in AnyText :
          /\ Accepts(row[s].kind, text)
          /\ row[s].address = Kept(row[s].kind, text)
          /\ past.probed[s] = ProbePath(row[s].kind, text)
    BY <2>1 DEF Probed
  <2>3. /\ Registered(row[s]) \in Addresses
        /\ HealthPath(row[s].kind, Registered(row[s])) = past.probed[s]
    BY <2>1, <2>2, AcceptedIsFetched
  <2> QED BY <2>1, <2>3, NoSourceIsNone DEF Probed, AnyText
<1>3. ConnectorFollowsRow
  BY <1>1, <1>2 DEF ConnectorFollowsRow, AddedAddressIsFetched
<1> QED BY <1>3 DEF RegistryInv, CallInv

\* commands.rs:1277-1311, startup.rs:230-420: a change the connectors have not seen
\* is announced, and a connector asks the address its dialog's probe got an
\* answer from, for any addresses, sources and commands.
THEOREM FollowingConnectors == RegistrySpec => []ConnectorFollowsRow
BY RegistryStart, RegistryInvariance, RegistryKeepsPromises, PTL DEF RegistrySpec

\* error_codes.rs:1-8, SourceErrorCard.tsx: a failed sync or probe is of its
\* source's family, and asks to reconnect just when the credential was refused.
THEOREM TruthfulFailures == RegistrySpec => []FailureTellsTheTruth
BY RegistryStart, RegistryInvariance, RegistryKeepsPromises, PTL DEF RegistrySpec

(***************************************************************************)
(* RunDesk: a run's last progress message and every completion under way   *)
(* say how it ended; what the page follows is a call that is out or a run  *)
(* with its tasks; so the end reaches the page in whatever order.          *)
(***************************************************************************)

Ended == Terminal \cup {"panic"}
Words == {"running"} \cup Terminal
Completion == [run : Reports, status : Terminal, draft : BOOLEAN]
Page == [ref : Reports \cup {NoReport}, id : BOOLEAN, stash : Completion \cup {NoReport},
         cancel : BOOLEAN, status : Words \cup {"idle", "starting"}, draft : Reports \cup {NoReport}]

DeskTypeOK ==
    /\ command \in [Reports -> {"none", "called", "refused", "register", "answering", "returned"}]
    /\ run \in [Reports -> {"none", "going"} \cup Ended]
    /\ pipe \in [Reports -> Seq(Words)] /\ wire \in [Reports -> Seq(Words)]
    /\ tasks \in [Reports -> SUBSET {"forward", "complete", "reap"}]
    /\ bell \in Seq(Completion)
    /\ fetched \subseteq Reports
    /\ page \in Page

\* A run has tasks, messages and a place in the registry only once it is started;
\* the completion task outlives it, and the reaper its other tasks.
LifeInv ==
    \A r \in Reports :
        /\ command[r] \in {"none", "called", "refused"} => run[r] = "none"
        /\ run[r] = "none" => /\ command[r] \in {"none", "called", "refused", "returned"}
                              /\ tasks[r] = {} /\ r \notin registry
                              /\ pipe[r] = <<>> /\ wire[r] = <<>>
        /\ run[r] = "going" => "complete" \in tasks[r]
        /\ tasks[r] # {} => "reap" \in tasks[r]

\* What the registry holds, and that a run on its way into it is not there yet.
ListedInv ==
    \A r \in Reports :
        /\ command[r] = "register" => r \notin registry
        /\ r \notin leaked =>
             IF command[r] = "register" THEN tasks[r] # {}
             ELSE r \in registry <=> tasks[r] # {}

Speaks(event) == run[event.run] \in Ended /\ event = CompletionPayload(event.run)

\* Every completion under way tells how its run ended.
EventInv ==
    /\ \A i \in 1 .. Len(bell) : Speaks(bell[i])
    /\ page.stash # NoReport => Speaks(page.stash)

LastOf(seq) == seq[Len(seq)]

\* The last progress message of an ended run says how it ended.
LastInv ==
    \A r \in Reports : run[r] \in Terminal =>
        /\ pipe[r] # <<>> => LastOf(pipe[r]) = run[r]
        /\ pipe[r] = <<>> /\ wire[r] # <<>> => LastOf(wire[r]) = run[r]

\* What the page knows of the call it follows, and what it keeps for later.
PageInv ==
    /\ page.ref = NoReport => ~page.id
    /\ page.ref # NoReport =>
         /\ command[page.ref] # "none"
         /\ page.id <=> command[page.ref] = "returned"
         /\ page.id => run[page.ref] # "none"
         /\ page.cancel => page.ref \in wanted
         /\ page.ref \in wanted => IF page.id THEN page.ref \in cancelled ELSE page.cancel
    /\ page.id => page.stash = NoReport
    /\ \A r \in Reports : command[r] \in {"called", "refused"} =>
         page.ref = r /\ page.status = "starting"
    /\ cancelled \subseteq wanted
    /\ \A r \in Reports : r \in wanted => command[r] # "none"

\* The completion of run r has come and gone.
Heard(r) ==
    /\ run[r] \in Terminal /\ "complete" \notin tasks[r]
    /\ \A i \in 1 .. Len(bell) : bell[i].run # r
    /\ ~(page.stash # NoReport /\ page.stash.run = r)

\* A page that has heard of the end of its run shows it unless more progress is
\* coming, and has or awaits its draft.
ShownInv ==
    page.ref # NoReport /\ page.ref \notin jammed /\ Heard(page.ref) =>
        /\ page.status = run[page.ref] \/ pipe[page.ref] # <<>> \/ wire[page.ref] # <<>>
        /\ run[page.ref] = "Completed" => page.ref \in fetched \/ page.draft # NoReport

DeskInv == DeskTypeOK /\ LifeInv /\ ListedInv /\ EventInv /\ LastInv /\ PageInv /\ ShownInv

\* The ends of a sequence.
LEMMA SeqEnds ==
    ASSUME NEW S, NEW seq \in Seq(S), NEW e \in S
    PROVE  /\ Append(seq, e) \in Seq(S) /\ Append(seq, e) # <<>> /\ LastOf(Append(seq, e)) = e
           /\ seq # <<>> => /\ Head(seq) \in S /\ Tail(seq) \in Seq(S)
                            /\ Tail(seq) = <<>> => Head(seq) = LastOf(seq)
                            /\ Tail(seq) # <<>> => LastOf(Tail(seq)) = LastOf(seq)
<1>1. Append(seq, e) \in Seq(S) /\ Append(seq, e) # <<>> /\ LastOf(Append(seq, e)) = e
  BY DEF LastOf
<1>2. ASSUME seq # <<>>
      PROVE  /\ Head(seq) \in S /\ Tail(seq) \in Seq(S)
             /\ Tail(seq) = <<>> => Head(seq) = LastOf(seq)
             /\ Tail(seq) # <<>> => LastOf(Tail(seq)) = LastOf(seq)
  <2>1. Len(seq) \in Nat /\ Len(seq) # 0 /\ Len(Tail(seq)) = Len(seq) - 1
    BY <1>2
  <2>2. Head(seq) \in S /\ Tail(seq) \in Seq(S) /\ Head(seq) = seq[1]
    BY <1>2
  <2>3. CASE Tail(seq) = <<>>
    <3>1. Len(seq) = 1
      BY <2>1, <2>3
    <3> QED BY <2>2, <2>3, <3>1 DEF LastOf
  <2>4. CASE Tail(seq) # <<>>
    <3>1. Len(Tail(seq)) # 0
      BY <2>2, <2>4, EmptySeq
    <3>2. Tail(seq)[Len(seq) - 1] = seq[Len(seq)]
      BY <2>1, <3>1
    <3> QED BY <2>1, <2>2, <2>4, <3>2 DEF LastOf
  <2> QED BY <2>2, <2>3, <2>4
<1> QED BY <1>1, <1>2

\* An event says how a run ended for as long as its end is not taken back.
LEMMA EventsKept ==
    ASSUME DeskInv, NEW r \in Reports, run[r] \notin Ended, NEW next,
           run' = [run EXCEPT ![r] = next], UNCHANGED <<bell, page>>
    PROVE  EventInv'
<1> USE DEF DeskInv, DeskTypeOK
<1>1. ASSUME NEW e \in Completion, Speaks(e) PROVE Speaks(e)'
  <2>1. e.run \in Reports \ {r}
    BY <1>1 DEF Completion, Speaks
  <2> QED BY <1>1, <2>1 DEF Speaks, CompletionPayload
<1>2. \A i \in 1 .. Len(bell) : bell[i] \in Completion
  OBVIOUS
<1>3. page.stash # NoReport => page.stash \in Completion
  BY DEF Page
<1> QED BY <1>1, <1>2, <1>3 DEF EventInv

\* The core's steps leave the page alone.  First the commands.
LEMMA CommandDeskStep ==
    ASSUME DeskInv, NEW r \in Reports, RefuseGenerate(r) \/ StartRun(r) \/ Register(r)
    PROVE  DeskInv'
<1> USE DEF DeskInv, DeskTypeOK, CoreOnly
<1>1. CASE RefuseGenerate(r)
  <2>1. /\ command[r] = "called" /\ command' = [command EXCEPT ![r] = "refused"]
        /\ UNCHANGED <<run, pipe, tasks, registry, wire, bell, leaked, fetched, page, wanted,
                       cancelled, jammed>>
    BY <1>1 DEF RefuseGenerate
  <2>2. DeskTypeOK'
    BY <2>1
  <2>3. LifeInv'
    BY <2>1 DEF LifeInv
  <2>4. ListedInv'
    BY <2>1 DEF ListedInv
  <2>5. EventInv' /\ LastInv' /\ ShownInv'
    BY <2>1 DEF EventInv, Speaks, CompletionPayload, LastInv, ShownInv, Heard
  <2>6. PageInv'
    BY <2>1 DEF PageInv
  <2> QED BY <2>2, <2>3, <2>4, <2>5, <2>6
<1>2. CASE StartRun(r)
  <2>1. /\ command[r] = "called" /\ run[r] = "none" /\ tasks[r] = {} /\ r \notin registry
        /\ command' = [command EXCEPT ![r] = "register"]
        /\ pipe[r] = <<>> /\ wire[r] = <<>>
        /\ \E next \in {"going", "Failed"} : run' = [run EXCEPT ![r] = next]
        /\ tasks' = [tasks EXCEPT ![r] = {"forward", "complete", "reap"}]
        /\ UNCHANGED <<pipe, registry, wire, bell, leaked, fetched, page, wanted, cancelled, jammed>>
    BY <1>2 DEF StartRun, LifeInv
  <2>2. DeskTypeOK'
    BY <2>1 DEF Ended, Terminal
  <2>3. LifeInv'
    BY <2>1 DEF LifeInv
  <2>4. ListedInv'
    BY <2>1 DEF ListedInv
  <2>5. EventInv'
    BY <2>1, EventsKept DEF Ended, Terminal
  <2>6. LastInv'
    BY <2>1 DEF LastInv
  <2>7. PageInv'
    BY <2>1 DEF PageInv
  <2>8. ShownInv'
    BY <2>1 DEF ShownInv, Heard
  <2> QED BY <2>2, <2>3, <2>4, <2>5, <2>6, <2>7, <2>8
<1>3. CASE Register(r)
  <2>1. /\ command[r] = "register" /\ command' = [command EXCEPT ![r] = "answering"]
        /\ registry' = registry \cup {r}
        /\ UNCHANGED <<run, pipe, tasks, wire, bell, leaked, fetched, page, wanted, cancelled, jammed>>
    BY <1>3 DEF Register
  <2>2. DeskTypeOK'
    BY <2>1
  <2>3. LifeInv'
    BY <2>1 DEF LifeInv
  <2>4. ListedInv'
    BY <2>1 DEF ListedInv
  <2>5. EventInv' /\ LastInv' /\ ShownInv'
    BY <2>1 DEF EventInv, Speaks, CompletionPayload, LastInv, ShownInv, Heard
  <2>6. PageInv'
    BY <2>1 DEF PageInv
  <2> QED BY <2>2, <2>3, <2>4, <2>5, <2>6
<1> QED BY <1>1, <1>2, <1>3

\* The run and its three tasks.
LEMMA TaskStep ==
    ASSUME DeskInv, NEW r \in Reports,
           SendProgress(r) \/ EndRun(r) \/ ForwardProgress(r) \/ EmitCompletion(r) \/ Reap(r)
    PROVE  DeskInv'
<1> USE DEF DeskInv, DeskTypeOK, CoreOnly
<1> "running" \in Words /\ Terminal \subseteq Words
  BY DEF Words
<1>1. CASE SendProgress(r)
  <2>1. /\ run[r] = "going" /\ pipe' = [pipe EXCEPT ![r] = Append(@, "running")]
        /\ UNCHANGED <<command, run, tasks, registry, wire, bell, leaked, fetched, page, wanted,
                       cancelled, jammed>>
    BY <1>1 DEF SendProgress
  <2>2. DeskTypeOK'
    BY <2>1, SeqEnds
  <2>3. LifeInv'
    BY <2>1 DEF LifeInv
  <2>4. ListedInv' /\ EventInv' /\ PageInv'
    BY <2>1 DEF ListedInv, EventInv, Speaks, CompletionPayload, PageInv
  <2>5. LastInv'
    BY <2>1 DEF LastInv, Terminal
  <2>6. ShownInv'
    BY <2>1 DEF ShownInv, Heard, Terminal
  <2> QED BY <2>2, <2>3, <2>4, <2>5, <2>6
<1>2. CASE EndRun(r)
  <2>1. /\ run[r] = "going" /\ "complete" \in tasks[r]
        /\ \/ \E how \in Terminal : /\ run' = [run EXCEPT ![r] = how]
                                    /\ pipe' = [pipe EXCEPT ![r] = Append(@, how)]
           \/ run' = [run EXCEPT ![r] = "panic"] /\ pipe' = pipe
        /\ UNCHANGED <<command, tasks, registry, wire, bell, leaked, fetched, page, wanted,
                       cancelled, jammed>>
    BY <1>2 DEF EndRun, LifeInv
  <2>2. DeskTypeOK'
    <3>1. \A how \in Terminal : Append(pipe[r], how) \in Seq(Words)
      BY SeqEnds
    <3>2. run' \in [Reports -> {"none", "going"} \cup Ended]
      BY <2>1 DEF Ended
    <3>3. \E q \in Seq(Words) : pipe' = [pipe EXCEPT ![r] = q]
      <4>1. pipe[r] \in Seq(Words) /\ pipe = [pipe EXCEPT ![r] = pipe[r]]
        OBVIOUS
      <4> QED BY <2>1, <3>1, <4>1
    <3>4. pipe' \in [Reports -> Seq(Words)]
      BY <3>3
    <3> QED BY <2>1, <3>2, <3>4
  <2>3. LifeInv'
    BY <2>1 DEF LifeInv, Terminal
  <2>4. ListedInv'
    BY <2>1 DEF ListedInv
  <2>5. EventInv'
    BY <2>1, EventsKept DEF Ended, Terminal
  <2>6. LastInv'
    <3> SUFFICES ASSUME NEW q \in Reports, run'[q] \in Terminal
                 PROVE  /\ pipe'[q] # <<>> => LastOf(pipe'[q]) = run'[q]
                        /\ pipe'[q] = <<>> /\ wire'[q] # <<>> => LastOf(wire'[q]) = run'[q]
      BY DEF LastInv
    <3>1. CASE q = r
      <4>1. PICK how \in Terminal : /\ run' = [run EXCEPT ![r] = how]
                                    /\ pipe' = [pipe EXCEPT ![r] = Append(@, how)]
        BY <2>1, <3>1 DEF Terminal
      <4>2. pipe'[r] = Append(pipe[r], how) /\ run'[r] = how
        BY <4>1
      <4> QED BY <3>1, <4>2, SeqEnds
    <3>2. CASE q # r
      BY <2>1, <3>2 DEF LastInv
    <3> QED BY <3>1, <3>2
  <2>7. PageInv'
    BY <2>1 DEF PageInv, Terminal, Page
  <2>8. ShownInv'
    <3>1. ~Heard(r)'
      BY <2>1 DEF Heard
    <3>2. \A q \in Reports \ {r} : run'[q] = run[q] /\ pipe'[q] = pipe[q]
      BY <2>1
    <3>3. ASSUME NEW q \in Reports \ {r}, Heard(q)' PROVE Heard(q)
      BY <2>1, <3>2, <3>3 DEF Heard
    <3> QED BY <2>1, <3>1, <3>2, <3>3 DEF ShownInv, Page
  <2> QED BY <2>2, <2>3, <2>4, <2>5, <2>6, <2>7, <2>8
<1>3. CASE ForwardProgress(r)
  <2>1. UNCHANGED <<command, run, registry, bell, leaked, fetched, page, wanted, cancelled, jammed>>
    BY <1>3 DEF ForwardProgress
  <2>2. CASE pipe[r] # <<>>
    <3>1. /\ wire' = [wire EXCEPT ![r] = Append(@, Head(pipe[r]))]
          /\ pipe' = [pipe EXCEPT ![r] = Tail(@)]
          /\ tasks' = tasks
      BY <1>3, <2>2 DEF ForwardProgress
    <3>2. /\ Head(pipe[r]) \in Words /\ Tail(pipe[r]) \in Seq(Words)
          /\ Tail(pipe[r]) = <<>> => Head(pipe[r]) = LastOf(pipe[r])
          /\ Tail(pipe[r]) # <<>> => LastOf(Tail(pipe[r])) = LastOf(pipe[r])
      BY <2>2, SeqEnds
    <3>3. /\ Append(wire[r], Head(pipe[r])) \in Seq(Words)
          /\ Append(wire[r], Head(pipe[r])) # <<>>
          /\ LastOf(Append(wire[r], Head(pipe[r]))) = Head(pipe[r])
      <4>1. \A e \in Words : /\ Append(wire[r], e) \in Seq(Words) /\ Append(wire[r], e) # <<>>
                             /\ LastOf(Append(wire[r], e)) = e
        BY SeqEnds
      <4> QED BY <3>2, <4>1
    <3>4. DeskTypeOK'
      BY <2>1, <3>1, <3>2, <3>3
    <3>5. LifeInv' /\ ListedInv'
      <4>1. run[r] # "none"
        BY <2>2 DEF LifeInv
      <4>2. \A q \in Reports \ {r} : pipe'[q] = pipe[q] /\ wire'[q] = wire[q]
        BY <3>1
      <4> QED BY <2>1, <3>1, <4>1, <4>2 DEF LifeInv, ListedInv
    <3>6. EventInv' /\ PageInv'
      BY <2>1, <3>1 DEF EventInv, Speaks, CompletionPayload, PageInv
    <3>7. LastInv'
      BY <2>1, <2>2, <3>1, <3>2, <3>3 DEF LastInv
    <3>8. ShownInv'
      BY <2>1, <3>1, <3>3 DEF ShownInv, Heard
    <3> QED BY <3>4, <3>5, <3>6, <3>7, <3>8
  <2>3. CASE pipe[r] = <<>>
    <3>1. /\ run[r] # "going" /\ "forward" \in tasks[r]
          /\ tasks' = [tasks EXCEPT ![r] = @ \ {"forward"}]
          /\ UNCHANGED <<wire, pipe>>
      BY <1>3, <2>3 DEF ForwardProgress
    <3>2. DeskTypeOK'
      BY <2>1, <3>1
    <3>3. LifeInv' /\ ListedInv'
      BY <2>1, <3>1 DEF LifeInv, ListedInv
    <3>4. EventInv' /\ PageInv' /\ LastInv'
      BY <2>1, <3>1 DEF EventInv, Speaks, CompletionPayload, PageInv, LastInv
    <3>5. ShownInv'
      BY <2>1, <3>1 DEF ShownInv, Heard
    <3> QED BY <3>2, <3>3, <3>4, <3>5
  <2> QED BY <2>2, <2>3
<1>4. CASE EmitCompletion(r)
  <2> DEFINE event == CompletionPayload(r)
  <2>1. /\ "complete" \in tasks[r] /\ run[r] # "going"
        /\ bell' = Append(bell, event)
        /\ tasks' = [tasks EXCEPT ![r] = @ \ {"complete"}]
        /\ UNCHANGED <<command, run, pipe, registry, wire, leaked, fetched, page, wanted,
                       cancelled, jammed>>
    BY <1>4 DEF EmitCompletion
  <2>2. run[r] \in Ended
    BY <2>1 DEF LifeInv
  <2>3. event \in Completion /\ event.run = r
    BY <2>2 DEF CompletionPayload, Completion, Ended, Terminal
  <2>4. /\ Len(bell') = Len(bell) + 1
        /\ bell'[Len(bell) + 1] = event
        /\ \A i \in 1 .. Len(bell) : bell'[i] = bell[i]
    BY <2>1, <2>3
  <2>5. DeskTypeOK'
    BY <2>1, <2>3
  <2>6. LifeInv' /\ ListedInv'
    BY <2>1 DEF LifeInv, ListedInv
  <2>7. Speaks(event)
    BY <2>2, <2>3 DEF Speaks
  <2>8. EventInv'
    <3>1. \A e : Speaks(e)' <=> Speaks(e)
      BY <2>1 DEF Speaks, CompletionPayload
    <3>2. \A i \in 1 .. Len(bell') : i = Len(bell) + 1 \/ i \in 1 .. Len(bell)
      <4>1. Len(bell) \in Nat
        OBVIOUS
      <4> QED BY <2>4, <4>1
    <3>3. \A i \in 1 .. Len(bell') : Speaks(bell'[i])
      BY <2>4, <2>7, <3>2 DEF EventInv
    <3> QED BY <2>1, <3>1, <3>3 DEF EventInv
  <2>9. PageInv' /\ LastInv'
    BY <2>1 DEF PageInv, LastInv
  <2>10. ShownInv'
    <3>1. ~Heard(r)'
      <4>1. Len(bell) \in Nat
        OBVIOUS
      <4>2. Len(bell) + 1 \in 1 .. Len(bell')
        BY <2>4, <4>1
      <4>3. bell'[Len(bell) + 1].run = r
        BY <2>3, <2>4
      <4> QED BY <4>2, <4>3 DEF Heard
    <3>2. ASSUME NEW q \in Reports \ {r}, Heard(q)' PROVE Heard(q)
      BY <2>1, <2>4, <3>2 DEF Heard
    <3> QED BY <2>1, <3>1, <3>2 DEF ShownInv, Page
  <2> QED BY <2>5, <2>6, <2>8, <2>9, <2>10
<1>5. CASE Reap(r)
  <2>1. /\ tasks[r] = {"reap"} /\ tasks' = [tasks EXCEPT ![r] = {}]
        /\ registry' = registry \ {r}
        /\ leaked' = IF command[r] = "register" THEN leaked \cup {r} ELSE leaked
        /\ UNCHANGED <<command, run, pipe, wire, bell, fetched, page, wanted, cancelled, jammed>>
    BY <1>5 DEF Reap
  <2>2. DeskTypeOK'
    BY <2>1
  <2>3. LifeInv' /\ ListedInv'
    BY <2>1 DEF LifeInv, ListedInv
  <2>4. EventInv' /\ PageInv' /\ LastInv'
    BY <2>1 DEF EventInv, Speaks, CompletionPayload, PageInv, LastInv
  <2>5. ShownInv'
    BY <2>1 DEF ShownInv, Heard
  <2> QED BY <2>2, <2>3, <2>4, <2>5
<1> QED BY <1>1, <1>2, <1>3, <1>4, <1>5

\* generate(): the page lets go of what it followed.
LEMMA GenerateStep ==
    ASSUME DeskInv, NEW r \in Reports, Generate(r)
    PROVE  DeskInv'
<1> USE NoReportIsNone DEF DeskInv, DeskTypeOK, PageOnly
<1>1. /\ command[r] = "none" /\ command' = [command EXCEPT ![r] = "called"]
      /\ page.status \notin {"starting", "running"}
      /\ UNCHANGED <<run, pipe, tasks, registry, leaked, wire, bell, fetched, wanted, cancelled, jammed>>
  BY DEF Generate
<1>2. /\ page' = [ref |-> r, id |-> FALSE, stash |-> NoReport, cancel |-> FALSE,
                  status |-> "starting", draft |-> NoReport]
      /\ run[r] = "none"
  BY <1>1 DEF Generate, Fresh, IdlePage, LifeInv
<1>3. /\ page'.ref = r /\ page'.id = FALSE /\ page'.stash = NoReport /\ page'.cancel = FALSE
      /\ page'.status = "starting" /\ page'.draft = NoReport
  BY <1>2
<1>4. DeskTypeOK'
  BY <1>1, <1>2 DEF Page
<1>5. LifeInv' /\ ListedInv'
  BY <1>1, <1>2 DEF LifeInv, ListedInv
<1>6. EventInv' /\ LastInv'
  BY <1>1, <1>3 DEF EventInv, Speaks, CompletionPayload, LastInv
<1>7. PageInv'
  BY <1>1, <1>3 DEF PageInv
<1>8. ShownInv'
  BY <1>1, <1>2, <1>3 DEF ShownInv, Heard, Terminal
<1> QED BY <1>4, <1>5, <1>6, <1>7, <1>8

\* The answer of report_generate brings the run's id, and what was kept for it.
LEMMA AnswerDeskStep ==
    ASSUME DeskInv, NEW r \in Reports, Answer(r)
    PROVE  DeskInv'
<1> USE NoReportIsNone DEF DeskInv, DeskTypeOK, PageOnly
<1>1. /\ command[r] = "answering" /\ command' = [command EXCEPT ![r] = "returned"]
      /\ UNCHANGED <<run, pipe, tasks, registry, leaked, wire, bell, wanted>>
  BY DEF Answer
<1>2. run[r] # "none"
  BY <1>1 DEF LifeInv
<1>3. LifeInv' /\ ListedInv' /\ LastInv'
  BY <1>1, <1>2 DEF LifeInv, ListedInv, LastInv
<1>4. \A e : Speaks(e)' <=> Speaks(e)
  BY <1>1 DEF Speaks, CompletionPayload
<1>5. CASE page.ref = r
  <2> DEFINE stashed == page.stash # NoReport /\ page.stash.run = r
             event == page.stash
  <2>1. page.id = FALSE
    BY <1>1, <1>5 DEF PageInv, Page
  <2>2. stashed => event \in Completion /\ Speaks(event)
    BY DEF EventInv, Page
  <2>3. /\ page'.ref = r /\ page'.id = TRUE /\ page'.stash = NoReport /\ page'.cancel = FALSE
        /\ page'.draft = page.draft
        /\ page'.status = IF stashed THEN event.status ELSE page.status
        /\ page' \in Page
    <3> DEFINE known == [page EXCEPT !.id = TRUE, !.stash = NoReport, !.cancel = FALSE]
    <3>1. /\ known.ref = r /\ known.id = TRUE /\ known.stash = NoReport /\ known.cancel = FALSE
          /\ known.draft = page.draft /\ known.status = page.status /\ known \in Page
      BY <1>5 DEF Page
    <3>2. page' = IF stashed THEN [known EXCEPT !.status = event.status] ELSE known
      BY <1>5 DEF Answer, Applied
    <3>3. CASE stashed
      <4>1. event.status \in Words
        BY <2>2, <3>3 DEF Completion, Words
      <4> HIDE DEF known
      <4> QED BY <3>1, <3>2, <3>3, <4>1 DEF Page
    <3>4. CASE ~stashed
      BY <3>1, <3>2, <3>4
    <3> QED BY <3>3, <3>4
  <2>4. /\ fetched' = IF stashed THEN fetched \cup FetchOf(event) ELSE fetched
        /\ cancelled' = IF page.cancel THEN cancelled \cup {r} ELSE cancelled
        /\ jammed' = jammed
    BY <1>5 DEF Answer
  <2>5. DeskTypeOK'
    BY <1>1, <2>2, <2>3, <2>4 DEF FetchOf, Completion
  <2>6. EventInv'
    BY <1>1, <1>4, <2>3 DEF EventInv
  <2>7. PageInv'
    BY <1>1, <1>2, <1>5, <2>1, <2>3, <2>4 DEF PageInv
  <2>8. ShownInv'
    <3> SUFFICES ASSUME r \notin jammed, Heard(r)'
                 PROVE  /\ page'.status = run[r] \/ pipe[r] # <<>> \/ wire[r] # <<>>
                        /\ run[r] = "Completed" => r \in fetched' \/ page'.draft # NoReport
      BY <1>1, <2>3, <2>4 DEF ShownInv
    <3>1. run[r] \in Terminal
      BY <1>1 DEF Heard
    <3>2. CASE stashed
      <4>1. event.status = run[r] /\ event.draft = (run[r] = "Completed") /\ event.run = r
        BY <2>2, <3>1, <3>2 DEF Speaks, CompletionPayload, Terminal
      <4>2. run[r] = "Completed" => r \in fetched'
        BY <2>4, <3>2, <4>1 DEF FetchOf
      <4> QED BY <2>3, <3>2, <4>1, <4>2
    <3>3. CASE ~stashed
      <4>1. Heard(r)
        BY <1>1, <3>3 DEF Heard
      <4> QED BY <1>5, <2>3, <2>4, <3>3, <4>1 DEF ShownInv
    <3> QED BY <3>2, <3>3
  <2> QED BY <1>3, <2>5, <2>6, <2>7, <2>8
<1>6. CASE page.ref # r
  <2>1. /\ page' = [page EXCEPT !.stash = NoReport]
        /\ jammed' = IF page.stash # NoReport THEN jammed \cup {page.stash.run} ELSE jammed
        /\ UNCHANGED <<fetched, cancelled>>
    BY <1>6 DEF Answer
  <2>2. /\ page'.ref = page.ref /\ page'.id = page.id /\ page'.stash = NoReport
        /\ page'.cancel = page.cancel /\ page'.status = page.status /\ page'.draft = page.draft
        /\ page' \in Page
    BY <2>1 DEF Page
  <2>3. DeskTypeOK'
    BY <1>1, <2>1, <2>2
  <2>4. EventInv'
    BY <1>1, <1>4, <2>2 DEF EventInv
  <2>5. PageInv'
    BY <1>1, <1>6, <2>1, <2>2 DEF PageInv, Page
  <2>6. ShownInv'
    <3>1. ASSUME page.ref # NoReport, page.ref \notin jammed', Heard(page.ref)'
          PROVE  Heard(page.ref) /\ page.ref \notin jammed
      BY <1>1, <2>1, <3>1 DEF Heard
    <3> QED BY <1>1, <2>1, <2>2, <3>1 DEF ShownInv
  <2> QED BY <1>3, <2>3, <2>4, <2>5, <2>6
<1> QED BY <1>5, <1>6

\* The rejection of report_generate, and the progress and the draft of a run.
LEMMA HearStep ==
    ASSUME DeskInv, NEW r \in Reports, Reject(r) \/ HearProgress(r) \/ HearDraft(r)
    PROVE  DeskInv'
<1> USE NoReportIsNone DEF DeskInv, DeskTypeOK, PageOnly
<1>1. CASE Reject(r)
  <2>1. /\ command[r] = "refused" /\ command' = [command EXCEPT ![r] = "returned"]
        /\ page.ref = r /\ run[r] = "none"
        /\ UNCHANGED <<run, pipe, tasks, registry, leaked, wire, bell, fetched, wanted, cancelled, jammed>>
    BY <1>1 DEF Reject, PageInv, LifeInv
  <2>2. /\ page'.ref = NoReport /\ page'.id = FALSE /\ page'.stash = NoReport
        /\ page' \in Page
    BY <1>1, <2>1 DEF Reject, Page, Words, Terminal
  <2>3. DeskTypeOK'
    BY <2>1, <2>2
  <2>4. LifeInv' /\ ListedInv' /\ LastInv'
    BY <2>1 DEF LifeInv, ListedInv, LastInv
  <2>5. EventInv' /\ ShownInv'
    BY <2>1, <2>2 DEF EventInv, Speaks, CompletionPayload, ShownInv
  <2>6. PageInv'
    BY <2>1, <2>2 DEF PageInv
  <2> QED BY <2>3, <2>4, <2>5, <2>6
<1>2. CASE HearProgress(r)
  <2>1. /\ wire[r] # <<>> /\ wire' = [wire EXCEPT ![r] = Tail(@)]
        /\ page' = IF page.ref = r THEN [page EXCEPT !.status = Head(wire[r])] ELSE page
        /\ UNCHANGED <<command, run, pipe, tasks, registry, leaked, bell, fetched, wanted, cancelled, jammed>>
    BY <1>2 DEF HearProgress
  <2>2. /\ Head(wire[r]) \in Words /\ Tail(wire[r]) \in Seq(Words)
        /\ Tail(wire[r]) = <<>> => Head(wire[r]) = LastOf(wire[r])
        /\ Tail(wire[r]) # <<>> => LastOf(Tail(wire[r])) = LastOf(wire[r])
    <3>1. wire[r] \in Seq(Words) /\ "running" \in Words
      BY DEF Words
    <3> HIDE DEF DeskInv, DeskTypeOK
    <3> QED BY <2>1, <3>1, SeqEnds
  <2>3. /\ page'.ref = page.ref /\ page'.id = page.id /\ page'.stash = page.stash
        /\ page'.cancel = page.cancel /\ page'.draft = page.draft
        /\ page'.status = IF page.ref = r THEN Head(wire[r]) ELSE page.status
        /\ page' \in Page
    BY <2>1, <2>2 DEF Page
  <2>4. run[r] # "none"
    BY <2>1 DEF LifeInv
  <2>5. DeskTypeOK'
    BY <2>1, <2>2, <2>3
  <2>6. LifeInv' /\ ListedInv'
    BY <2>1, <2>4 DEF LifeInv, ListedInv
  <2>7. EventInv'
    BY <2>1, <2>3 DEF EventInv, Speaks, CompletionPayload
  <2>8. LastInv'
    BY <2>1, <2>2 DEF LastInv
  <2>9. PageInv'
    <3>1. command[r] \notin {"called", "refused"}
      BY <2>4 DEF LifeInv
    <3> QED BY <2>1, <2>3, <3>1 DEF PageInv
  <2>10. ShownInv'
    <3> SUFFICES ASSUME page.ref # NoReport, page.ref \notin jammed, Heard(page.ref)
                 PROVE  /\ page'.status = run[page.ref] \/ pipe[page.ref] # <<>> \/ wire'[page.ref] # <<>>
                        /\ run[page.ref] = "Completed" => page.ref \in fetched \/ page.draft # NoReport
      BY <2>1, <2>3 DEF ShownInv, Heard
    <3>1. CASE page.ref = r
      <4>1. pipe[r] = <<>> /\ Tail(wire[r]) = <<>> => Head(wire[r]) = run[r]
        BY <2>1, <2>2, <3>1 DEF LastInv, Heard
      <4>2. wire'[r] = Tail(wire[r])
        BY <2>1
      <4> QED BY <2>3, <3>1, <4>1, <4>2 DEF ShownInv
    <3>2. CASE page.ref # r
      <4>1. page.ref \in Reports
        BY DEF Page
      <4> QED BY <2>1, <2>3, <3>2, <4>1 DEF ShownInv
    <3> QED BY <3>1, <3>2
  <2> QED BY <2>5, <2>6, <2>7, <2>8, <2>9, <2>10
<1>3. CASE HearDraft(r)
  <2>1. /\ fetched' = fetched \ {r} /\ page' = [page EXCEPT !.draft = r]
        /\ UNCHANGED <<command, run, pipe, tasks, registry, leaked, wire, bell, wanted, cancelled, jammed>>
    BY <1>3 DEF HearDraft
  <2>2. /\ page'.ref = page.ref /\ page'.id = page.id /\ page'.stash = page.stash
        /\ page'.cancel = page.cancel /\ page'.draft = r /\ page'.status = page.status
        /\ page' \in Page
    BY <2>1 DEF Page
  <2>3. DeskTypeOK'
    BY <2>1, <2>2
  <2>4. LifeInv' /\ ListedInv' /\ LastInv'
    BY <2>1 DEF LifeInv, ListedInv, LastInv
  <2>5. EventInv' /\ PageInv'
    BY <2>1, <2>2 DEF EventInv, Speaks, CompletionPayload, PageInv
  <2>6. ShownInv'
    BY <2>1, <2>2 DEF ShownInv, Heard
  <2> QED BY <2>3, <2>4, <2>5, <2>6
<1> QED BY <1>1, <1>2, <1>3

\* Of two completions kept for later the second pushes the first out (jammed).
LEMMA CompletionStep ==
    ASSUME DeskInv, HearCompletion
    PROVE  DeskInv'
<1> USE NoReportIsNone DEF DeskInv, DeskTypeOK, PageOnly
<1> DEFINE event == Head(bell)
<1>1. /\ bell # <<>> /\ bell' = Tail(bell)
      /\ UNCHANGED <<command, run, pipe, tasks, registry, leaked, wire, wanted, cancelled>>
  BY DEF HearCompletion
<1>2. /\ Len(bell) \in Nat /\ Len(bell) >= 1 /\ event = bell[1] /\ event \in Completion
      /\ Len(bell') = Len(bell) - 1
      /\ bell' \in Seq(Completion)
      /\ \A i \in 1 .. Len(bell') : bell'[i] = bell[i + 1]
  BY <1>1, EmptySeq
<1>3. /\ Speaks(event)
      /\ \A e : Speaks(e)' <=> Speaks(e)
      /\ \A i \in 1 .. Len(bell') : Speaks(bell'[i])
  <2>1. \A i \in 1 .. Len(bell') : i + 1 \in 1 .. Len(bell)
    BY <1>2
  <2>2. 1 \in 1 .. Len(bell)
    BY <1>2
  <2> QED BY <1>1, <1>2, <2>1, <2>2 DEF EventInv, Speaks, CompletionPayload
<1>4. \A i \in 1 .. Len(bell) : bell[i] = event \/ i - 1 \in 1 .. Len(bell')
  BY <1>2
<1>5. \A q : (\A i \in 1 .. Len(bell') : bell'[i].run # q) /\ event.run # q =>
         \A i \in 1 .. Len(bell) : bell[i].run # q
  <2> SUFFICES ASSUME NEW q, \A i \in 1 .. Len(bell') : bell'[i].run # q, event.run # q,
                      NEW i \in 1 .. Len(bell), bell[i] # event
               PROVE  bell[i].run # q
    OBVIOUS
  <2>1. i - 1 \in 1 .. Len(bell') /\ (i - 1) + 1 = i
    BY <1>2, <1>4
  <2>2. bell'[i - 1] = bell[i]
    BY <1>2, <2>1
  <2> QED BY <2>1, <2>2
<1>6. LifeInv' /\ ListedInv' /\ LastInv'
  BY <1>1 DEF LifeInv, ListedInv, LastInv
<1>7. CASE page.ref = NoReport \/ (page.id /\ event.run # page.ref)
  <2>1. UNCHANGED <<page, fetched>> /\ jammed' = jammed
    BY <1>7 DEF HearCompletion
  <2>2. DeskTypeOK'
    BY <1>1, <1>2, <2>1
  <2>3. EventInv' /\ PageInv'
    BY <1>1, <1>3, <2>1 DEF EventInv, PageInv
  <2>4. ShownInv'
    BY <1>1, <1>5, <1>7, <2>1 DEF ShownInv, Heard
  <2> QED BY <1>6, <2>2, <2>3, <2>4
<1>8. CASE page.ref # NoReport /\ page.id /\ event.run = page.ref
  <2>1. /\ page' = [page EXCEPT !.status = event.status]
        /\ fetched' = fetched \cup FetchOf(event) /\ jammed' = jammed
    BY <1>8 DEF HearCompletion, Applied
  <2>2. /\ page'.ref = page.ref /\ page'.id = page.id /\ page'.stash = page.stash
        /\ page'.cancel = page.cancel /\ page'.draft = page.draft /\ page'.status = event.status
        /\ page' \in Page
    BY <1>2, <2>1 DEF Page, Completion, Words
  <2>3. DeskTypeOK'
    BY <1>1, <1>2, <2>1, <2>2 DEF FetchOf, Completion
  <2>4. EventInv'
    BY <1>1, <1>3, <2>2 DEF EventInv
  <2>5. PageInv'
    BY <1>1, <1>8, <2>2 DEF PageInv
  <2>6. ShownInv'
    <3>1. run[page.ref] \in Terminal => event.status = run[page.ref]
                                     /\ event.draft = (run[page.ref] = "Completed")
      BY <1>3, <1>8 DEF Speaks, CompletionPayload, Terminal
    <3>2. run[page.ref] = "Completed" => page.ref \in fetched'
      BY <1>8, <2>1, <3>1 DEF Terminal, FetchOf
    <3> QED BY <1>1, <2>2, <3>1, <3>2 DEF ShownInv, Heard
  <2> QED BY <1>6, <2>3, <2>4, <2>5, <2>6
<1>9. CASE page.ref # NoReport /\ ~page.id
  <2>1. /\ page' = [page EXCEPT !.stash = event] /\ fetched' = fetched
        /\ jammed' = IF page.stash # NoReport THEN jammed \cup {page.stash.run} ELSE jammed
    BY <1>9 DEF HearCompletion
  <2>2. /\ page'.ref = page.ref /\ page'.id = page.id /\ page'.stash = event
        /\ page'.cancel = page.cancel /\ page'.draft = page.draft /\ page'.status = page.status
        /\ page' \in Page
    BY <1>2, <2>1 DEF Page
  <2>3. DeskTypeOK'
    BY <1>1, <1>2, <2>1, <2>2
  <2>4. EventInv'
    BY <1>1, <1>3, <2>2 DEF EventInv
  <2>5. PageInv'
    BY <1>1, <1>9, <2>2 DEF PageInv
  <2>6. ShownInv'
    <3>1. event # NoReport
      BY <1>2 DEF Completion
    <3>2. ASSUME page.ref \notin jammed', Heard(page.ref)'
          PROVE  page.ref \notin jammed /\ Heard(page.ref)
      <4>1. event.run # page.ref
        BY <2>2, <3>1, <3>2 DEF Heard
      <4>2. \A i \in 1 .. Len(bell) : bell[i].run # page.ref
        <5>1. \A i \in 1 .. Len(bell') : bell'[i].run # page'.ref
          BY <3>2 DEF Heard
        <5>2. page'.ref = page.ref
          BY <2>2
        <5>3. \A i \in 1 .. Len(bell') : bell'[i].run # page.ref
          BY ONLY <5>1, <5>2
        <5> HIDE DEF event
        <5> QED BY ONLY <1>5, <4>1, <5>3
      <4>3. ~(page.stash # NoReport /\ page.stash.run = page.ref) /\ page.ref \notin jammed
        BY <2>1, <3>2
      <4>4. run[page.ref] \in Terminal /\ "complete" \notin tasks[page.ref]
        BY <1>1, <2>2, <3>2 DEF Heard
      <4> QED BY <4>2, <4>3, <4>4 DEF Heard
    <3> QED BY <1>1, <2>1, <2>2, <3>2 DEF ShownInv
  <2> QED BY <1>6, <2>3, <2>4, <2>5, <2>6
<1> QED BY <1>7, <1>8, <1>9

\* cancel(): at once, or kept until the run has its id.
LEMMA CancelStep ==
    ASSUME DeskInv, Cancel
    PROVE  DeskInv'
<1> USE NoReportIsNone DEF DeskInv, DeskTypeOK, PageOnly
<1>1. /\ page.ref # NoReport /\ wanted' = wanted \cup {page.ref}
      /\ UNCHANGED <<command, run, pipe, tasks, registry, leaked, wire, bell, fetched, jammed>>
      /\ \/ page.id /\ cancelled' = cancelled \cup {page.ref} /\ page' = page
         \/ ~page.id /\ page' = [page EXCEPT !.cancel = TRUE] /\ cancelled' = cancelled
  BY DEF Cancel
<1>2. /\ page'.ref = page.ref /\ page'.id = page.id /\ page'.stash = page.stash
      /\ page'.draft = page.draft /\ page'.status = page.status
      /\ page'.cancel = IF page.id THEN page.cancel ELSE TRUE
      /\ page' \in Page
  BY <1>1 DEF Page
<1>3. DeskTypeOK'
  BY <1>1, <1>2
<1>4. LifeInv' /\ ListedInv' /\ LastInv'
  BY <1>1 DEF LifeInv, ListedInv, LastInv
<1>5. EventInv' /\ ShownInv'
  BY <1>1, <1>2 DEF EventInv, Speaks, CompletionPayload, ShownInv, Heard
<1>6. PageInv'
  BY <1>1, <1>2 DEF PageInv
<1> QED BY <1>3, <1>4, <1>5, <1>6

\* No command, task, message or click takes the page from its run.
LEMMA DeskInvariance ==
    /\ DeskInit => DeskInv
    /\ DeskInv /\ [DeskNext]_deskVars => DeskInv'
<1>1. DeskInit => DeskInv
  <2> SUFFICES ASSUME DeskInit PROVE DeskInv
    OBVIOUS
  <2> USE NoReportIsNone DEF DeskInit, IdlePage
  <2>1. DeskTypeOK
    BY DEF DeskTypeOK, Page
  <2>2. LifeInv /\ ListedInv /\ EventInv /\ LastInv
    BY DEF LifeInv, ListedInv, EventInv, LastInv, Terminal
  <2>3. PageInv /\ ShownInv
    BY DEF PageInv, ShownInv
  <2> QED BY <2>1, <2>2, <2>3 DEF DeskInv
<1>2. DeskInv /\ [DeskNext]_deskVars => DeskInv'
  <2> SUFFICES ASSUME DeskInv, [DeskNext]_deskVars PROVE DeskInv'
    OBVIOUS
  <2>1. CASE UNCHANGED deskVars
    BY <2>1 DEF deskVars, DeskInv, DeskTypeOK, LifeInv, ListedInv, EventInv, Speaks,
                CompletionPayload, LastInv, PageInv, ShownInv, Heard
  <2> QED BY <2>1, CommandDeskStep, TaskStep, GenerateStep, AnswerDeskStep, HearStep,
             CompletionStep, CancelStep DEF DeskNext
<1> QED BY <1>1, <1>2

\* useReport.ts, run_forwarder.rs, state.rs: the page ends with its run's end and
\* draft, and the registry with the runs that are alive, in whatever order the
\* answers, the progress and the completions arrive.
THEOREM FollowingDesk == DeskSpec => []DeskFollowsRun
<1>1. DeskInv => DeskFollowsRun
  <2> SUFFICES ASSUME DeskInv PROVE DeskFollowsRun
    OBVIOUS
  <2> USE DEF DeskInv
  <2>1. FollowedRunIsShown
    <3> SUFFICES ASSUME page.ref # NoReport, Settled(page.ref), run[page.ref] # "panic",
                        page.ref \notin jammed
                 PROVE  /\ page.status = run[page.ref]
                        /\ run[page.ref] = "Completed" => page.draft # NoReport
      BY DEF FollowedRunIsShown
    <3>1. page.ref \in Reports
      BY DEF DeskTypeOK, Page
    <3>2. page.id /\ page.stash = NoReport
      BY DEF Settled, PageInv
    <3>3. "complete" \notin tasks[page.ref]
      BY DEF Settled
    <3>4. run[page.ref] \in Terminal
      BY <3>1, <3>3 DEF DeskTypeOK, Settled, LifeInv, Ended
    <3>5. Heard(page.ref)
      BY <3>2, <3>3, <3>4 DEF Heard, Settled
    <3> QED BY <3>5 DEF ShownInv, Settled
  <2>2. CancelHitsItsRun
    BY DEF PageInv, CancelHitsItsRun
  <2>3. RegisteredRunIsAlive
    BY DEF ListedInv, RegisteredRunIsAlive
  <2> QED BY <2>1, <2>2, <2>3 DEF DeskFollowsRun
<1> QED BY <1>1, DeskInvariance, PTL DEF DeskSpec

(***************************************************************************)
(* Toasts: a sum over what was published.                                  *)
(***************************************************************************)

\* The sum is kept by every step, and a forwarder that has ended owes nothing.
ToastInv ==
    /\ published \in Nat /\ cursor \in Nat /\ emitted \in Nat /\ pending \in Nat
    /\ logged \in Nat /\ unheard \in Nat /\ unlogged \in Nat
    /\ cursor <= published
    /\ LaggedToastsAreCounted

\* Each branch of the forwarder's loop, and each toast published, keeps the sum.
LEMMA ToastInvariance ==
    /\ ToastInit => ToastInv
    /\ ToastInv /\ [ToastNext]_toastVars => ToastInv'
<1> USE RingHoldsAToast DEF ToastInv, LaggedToastsAreCounted, Behind
<1>1. ToastInit => ToastInv
  BY DEF ToastInit
<1>2. ToastInv /\ [ToastNext]_toastVars => ToastInv'
  <2> SUFFICES ASSUME ToastInv, [ToastNext]_toastVars PROVE ToastInv'
    OBVIOUS
  <2>1. CASE PublishToast
    BY <2>1 DEF PublishToast
  <2>2. CASE SpawnForwarder
    BY <2>2 DEF SpawnForwarder
  <2>3. CASE PassTime
    BY <2>3 DEF PassTime
  <2>4. CASE EmitToast
    BY <2>4 DEF EmitToast
  <2>5. ASSUME NEW count \in Nat, Flush(count) \/ KeepPending(count)
        PROVE  /\ pending' \in Nat /\ logged' \in Nat /\ unlogged' \in Nat
               /\ pending' + unlogged' + logged' = count + unlogged + logged
    BY <2>5 DEF Flush, KeepPending
  <2>6. CASE Lagged
    <3>1. cursor' = published - Capacity /\ Behind - Capacity \in Nat
          /\ UNCHANGED <<published, emitted, forwarder, unheard>> /\ forwarder = "up"
      BY <2>6 DEF Lagged
    <3>2. Flush(pending + (Behind - Capacity)) \/ KeepPending(pending + (Behind - Capacity))
      BY <2>6 DEF Lagged, Record
    <3>3. pending + (Behind - Capacity) \in Nat
      BY <3>1
    <3> QED BY <2>5, <3>1, <3>2, <3>3
  <2>7. CASE FlushTimer
    <3>1. Flush(pending) /\ UNCHANGED <<published, cursor, emitted, forwarder, unheard>>
          /\ forwarder = "up"
      BY <2>7 DEF FlushTimer
    <3> QED BY <2>5, <3>1
  <2>8. CASE CloseBus
    <3>1. /\ UNCHANGED <<published, cursor, emitted, unheard>>
          /\ IF pending > 0 THEN Flush(pending) ELSE KeepPending(pending)
      BY <2>8 DEF CloseBus
    <3>2. pending' = 0
      BY <3>1 DEF Flush, KeepPending
    <3> QED BY <2>5, <3>1, <3>2
  <2>9. CASE UNCHANGED toastVars
    BY <2>9 DEF toastVars
  <2> QED BY <2>1, <2>2, <2>3, <2>4, <2>6, <2>7, <2>8, <2>9 DEF ToastNext
<1> QED BY <1>1, <1>2

\* broadcast_forwarder.rs:102-127: every toast published is shown, still due, or
\* counted as lost, however late the forwarder is.
THEOREM CountedToasts == ToastSpec => []LaggedToastsAreCounted
<1>1. ToastInv => LaggedToastsAreCounted
  BY DEF ToastInv
<1> QED BY <1>1, ToastInvariance, PTL DEF ToastSpec

(***************************************************************************)
(* Updater.  The hook's one reference is the last handle a check gave it, and every  *)
(* step that gives it another closes the one before: so what is open is    *)
(* what is held, mounted or not.  The offer is only ever "available" with  *)
(* the version of the handle that came with it, and loses that word in     *)
(* every step that drops the handle of a mounted hook.                     *)
(***************************************************************************)

\* What keeps OfferIsHeld: the counters are numbers within the bound, and
\* nothing is open but what is held, whether or not the hook is mounted.
HeldInv ==
    /\ given \in 0 .. MaxAsks
    /\ open \subseteq {held} \ {NoHandle}
    /\ mounted /\ offer.kind = "available" => held # NoHandle /\ held.version = offer.version

\* Every step of the hook, its answers and its clean-up keeps the invariant.
LEMMA HeldStep ==
    ASSUME HeldInv, [UpdaterNext]_updaterVars
    PROVE  HeldInv'
<1> USE DEF HeldInv, Status, AtRest
<1>1. CASE Mount
  BY <1>1 DEF Mount, RunCheck
<1>2. CASE MenuCheck
  BY <1>2 DEF MenuCheck, RunCheck
<1>3. CASE Retry
  BY <1>3 DEF Retry, RunCheck
<1>4. CASE AnswerNothing
  BY <1>4 DEF AnswerNothing, Release
<1>5. CASE AnswerUpdate
  <2>1. PICK v \in Versions :
          /\ held' = [id |-> given, version |-> v]
          /\ open' = (open \ {held}) \cup {[id |-> given, version |-> v]}
          /\ offer' = Status("available", v)
    BY <1>5 DEF AnswerUpdate
  <2>2. held' # NoHandle
    BY <2>1, NoHandleIsNone
  <2>3. open' \subseteq {held'}
    BY <2>1
  <2>4. given' \in 0 .. MaxAsks
    BY <1>5, NoHandleIsNone DEF AnswerUpdate
  <2> QED
    BY <2>1, <2>2, <2>3, <2>4
<1>6. CASE AnswerError
  BY <1>6 DEF AnswerError
<1>7. CASE Install
  BY <1>7 DEF Install
<1>8. CASE DownloadEvent
  BY <1>8 DEF DownloadEvent
<1>9. CASE InstallFails
  BY <1>9 DEF InstallFails
<1>10. CASE Relaunch
  BY <1>10 DEF Relaunch
<1>11. CASE SkipCurrent
  BY <1>11 DEF SkipCurrent
<1>12. CASE Quieten
  BY <1>12 DEF Quieten
<1>13. CASE Unmount
  BY <1>13 DEF Unmount, Release
<1>14. CASE UNCHANGED updaterVars
  BY <1>14 DEF updaterVars
<1> QED
  BY <1>1, <1>2, <1>3, <1>4, <1>5, <1>6, <1>7, <1>8, <1>9, <1>10, <1>11, <1>12,
     <1>13, <1>14 DEF UpdaterNext

\* useUpdater.ts:135-150, 193-222: the version on offer is the one that would be
\* installed, and a mounted hook has lost hold of no handle.
THEOREM HeldOffer == UpdaterSpec => []OfferIsHeld
<1>1. UpdaterInit => HeldInv
  BY NoHandleIsNone DEF UpdaterInit, HeldInv, AtRest, Status
<1>2. HeldInv /\ [UpdaterNext]_updaterVars => HeldInv'
  BY HeldStep
<1>3. HeldInv => OfferIsHeld
  BY DEF HeldInv, OfferIsHeld
<1> QED
  BY <1>1, <1>2, <1>3, PTL DEF UpdaterSpec

(***************************************************************************)
(* The desktop.  A step of a part leaves the variables of the others, so   *)
(* to each part the desktop's behaviours are its own.                      *)
(***************************************************************************)

\* Desktop.tla's steps, seen from a part: its own, or none.
LEMMA PartSteps ==
    ASSUME [DesktopNext]_desktopVars
    PROVE  /\ [RegistryNext]_registryVars
           /\ [ProfileNext]_profileVars
           /\ [DeskNext]_deskVars
           /\ [ToastNext]_toastVars
           /\ [RetentionNext]_retentionVars
           /\ [BookmarkNext]_bookmarkVars
           /\ [EvidenceNext]_evidenceVars
           /\ [UpdaterNext]_updaterVars
<1>1. CASE UNCHANGED desktopVars
  BY <1>1 DEF desktopVars
<1>2. CASE DesktopNext
  BY <1>2 DEF DesktopNext, RegistryPart, ProfilePart, DeskPart, ToastPart, RetentionPart,
     DiscoveryPart, BookmarkPart, NotePart, FrontPart, EvidencePart, UpdaterPart, TextPart
<1> QED BY <1>1, <1>2

\* A behaviour of the desktop is one of each part.
LEMMA PartsRun ==
    Spec => /\ RegistrySpec /\ ProfileSpec /\ DeskSpec /\ ToastSpec
            /\ RetentionSpec /\ BookmarkSpec /\ EvidenceSpec /\ UpdaterSpec
<1>1. DesktopInit => /\ RegistryInit /\ ProfileInit /\ DeskInit /\ ToastInit
                     /\ RetentionInit /\ BookmarkInit /\ EvidenceInit /\ UpdaterInit
  BY DEF DesktopInit
<1> QED BY <1>1, PartSteps, PTL DEF Spec, RegistrySpec, ProfileSpec, DeskSpec, ToastSpec,
           RetentionSpec, BookmarkSpec, EvidenceSpec, UpdaterSpec

\* What the desktop fetches with and what it says of a failure (commands.rs,
\* startup.rs, error_codes.rs): the connectors follow the rows as far as the user
\* was told, and a failure tells the truth.
THEOREM DesktopFetches == Spec => [](ConnectorFollowsRow /\ FailureTellsTheTruth)
BY PartsRun, FollowingConnectors, TruthfulFailures, PTL

\* What the window shows (useReport.ts, broadcast_forwarder.rs, useUpdater.ts): the
\* end of the run it follows, every toast or its count, the version it would
\* install.
THEOREM DesktopShows == Spec => [](DeskFollowsRun /\ LaggedToastsAreCounted /\ OfferIsHeld)
BY PartsRun, FollowingDesk, CountedToasts, HeldOffer, PTL

\* What the desktop stores (persons.rs, retention.rs, activity_events.rs,
\* security_scoped_bookmarks.rs): one self and the settings last written, what is
\* in the window, the evidence of every draft, the bookmarks of the folders.
THEOREM DesktopStores ==
    Spec => []( /\ ProfileIsConsistent /\ SweepsAreSound
                /\ EvidenceIsWhole /\ BookmarksFollowFolders )
BY PartsRun, ConsistentProfile, SoundSweeps, WholeEvidence, MarkedFolders, PTL

=============================================================================
