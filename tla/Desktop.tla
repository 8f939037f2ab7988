------------------------------- MODULE Desktop -------------------------------
(***************************************************************************)
(* The desktop application around a run: what it fetches with (Registry),  *)
(* whom for (Profile), how a report reaches the window (RunDesk, Toasts),  *)
(* what old rows it drops (Retention), where it looks for repositories     *)
(* (Discovery) and with whose leave (Bookmarks), and what a save does to a *)
(* note (NoteText), what a bullet's evidence is (Evidence), how it updates *)
(* itself (Updater), and what it reads in a title or a path (TextScan).    *)
(*                                                                         *)
(* These parts share no state a step of one could disturb in another, so   *)
(* a behaviour is one of a single part; the others stay as they start.     *)
(***************************************************************************)
EXTENDS Registry, Profile, RunDesk, Toasts, Retention, Discovery, Bookmarks,
        NoteText, Evidence, Updater, TextScan

VARIABLE part

Parts == {"registry", "profile", "desk", "toasts", "retention", "discovery", "bookmarks",
          "note", "front", "evidence", "updater", "text"}

desktopVars == <<part, registryVars, profileVars, deskVars, toastVars, retentionVars,
                 discoveryVars, bookmarkVars, noteVars, frontVars, evidenceVars, updaterVars,
                 textVars>>

\* A part that stands still has one start.
DesktopInit ==
    /\ part \in Parts
    /\ DiscoveryInit
    /\ part # "discovery" => roots = <<>> /\ ~scoped /\ \A d \in Dirs : kindOf[d] = "plain"
    /\ BookmarkInit
    /\ part # "bookmarks" => keeper = "sink"
    /\ RegistryInit
    /\ part # "registry" => place = "LocalGit" /\ row = [s \in SourceIds |-> NoSource]
    /\ ProfileInit
    /\ part # "profile" => self = Nobody /\ stored = Nobody
    /\ RetentionInit
    /\ part # "retention" => days = Never
    /\ FrontInit
    /\ part # "front" => want /\ editor = CHOOSE e \in Eols : TRUE
    /\ UpdaterInit
    /\ part # "updater" => direct
    /\ TextInit
    /\ part # "text" => alphabet = CHOOSE a \in Alphabets : TRUE
    /\ DeskInit /\ ToastInit /\ NoteInit /\ EvidenceInit

RegistryPart == part = "registry" /\ RegistryNext
ProfilePart == part = "profile" /\ ProfileNext
DeskPart == part = "desk" /\ DeskNext
ToastPart == part = "toasts" /\ ToastNext
RetentionPart == part = "retention" /\ RetentionNext
DiscoveryPart == part = "discovery" /\ DiscoveryNext
BookmarkPart == part = "bookmarks" /\ BookmarkNext
NotePart == part = "note" /\ NoteNext
FrontPart == part = "front" /\ FrontNext
EvidencePart == part = "evidence" /\ EvidenceNext
UpdaterPart == part = "updater" /\ UpdaterNext
TextPart == part = "text" /\ TextNext

DesktopNext ==
    /\ UNCHANGED part
    /\ \/ /\ RegistryPart
          /\ UNCHANGED <<profileVars, deskVars, toastVars, retentionVars, discoveryVars, bookmarkVars,
                        noteVars, frontVars, evidenceVars, updaterVars, textVars>>
       \/ /\ ProfilePart
          /\ UNCHANGED <<registryVars, deskVars, toastVars, retentionVars, discoveryVars, bookmarkVars,
                        noteVars, frontVars, evidenceVars, updaterVars, textVars>>
       \/ /\ DeskPart
          /\ UNCHANGED <<registryVars, profileVars, toastVars, retentionVars, discoveryVars, bookmarkVars,
                        noteVars, frontVars, evidenceVars, updaterVars, textVars>>
       \/ /\ ToastPart
          /\ UNCHANGED <<registryVars, profileVars, deskVars, retentionVars, discoveryVars, bookmarkVars,
                        noteVars, frontVars, evidenceVars, updaterVars, textVars>>
       \/ /\ RetentionPart
          /\ UNCHANGED <<registryVars, profileVars, deskVars, toastVars, discoveryVars, bookmarkVars,
                        noteVars, frontVars, evidenceVars, updaterVars, textVars>>
       \/ /\ DiscoveryPart
          /\ UNCHANGED <<registryVars, profileVars, deskVars, toastVars, retentionVars, bookmarkVars,
                        noteVars, frontVars, evidenceVars, updaterVars, textVars>>
       \/ /\ BookmarkPart
          /\ UNCHANGED <<registryVars, profileVars, deskVars, toastVars, retentionVars, discoveryVars,
                        noteVars, frontVars, evidenceVars, updaterVars, textVars>>
       \/ /\ NotePart
          /\ UNCHANGED <<registryVars, profileVars, deskVars, toastVars, retentionVars, discoveryVars,
                        bookmarkVars, frontVars, evidenceVars, updaterVars, textVars>>
       \/ /\ FrontPart
          /\ UNCHANGED <<registryVars, profileVars, deskVars, toastVars, retentionVars, discoveryVars,
                        bookmarkVars, noteVars, evidenceVars, updaterVars, textVars>>
       \/ /\ EvidencePart
          /\ UNCHANGED <<registryVars, profileVars, deskVars, toastVars, retentionVars, discoveryVars,
                        bookmarkVars, noteVars, frontVars, updaterVars, textVars>>
       \/ /\ UpdaterPart
          /\ UNCHANGED <<registryVars, profileVars, deskVars, toastVars, retentionVars, discoveryVars,
                        bookmarkVars, noteVars, frontVars, evidenceVars, textVars>>
       \/ /\ TextPart
          /\ UNCHANGED <<registryVars, profileVars, deskVars, toastVars, retentionVars, discoveryVars,
                        bookmarkVars, noteVars, frontVars, evidenceVars, updaterVars>>

Spec == DesktopInit /\ [][DesktopNext]_desktopVars

\* What the program looks for by walking, in a tree (discovery.rs:86-190) or in a
\* title (enrich.rs:340-514), it finds all of and nothing else; and what it wrote
\* it finds again (commands.rs:2175-2229).
SearchesAreExact == DiscoveryIsExact /\ ScansAreExact /\ NotesOpen

\* A save puts its report into the note and its keys into the frontmatter, and
\* touches nothing else of either (markers.rs, frontmatter.rs, adapter.rs:251-275).
SaveKeepsTheNote == SaveKeepsTheRest /\ SaveIsIdempotent /\ FrontmatterIsApart

=============================================================================
