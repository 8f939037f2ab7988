------------------------------ MODULE TextScan ------------------------------
(***************************************************************************)
(* Text the program takes apart by hand: the two scanners of               *)
(* dayseam-report/src/enrich.rs, and the guard before a saved note is      *)
(* opened (ipc/commands.rs: shell_open).  Over classes of characters: "A"  *)
(* upper case, "a" any other letter, "9" a digit, "-" a hyphen, "/" a      *)
(* slash, " " anything else; the words "pull" and "github.com", which are  *)
(* letters to either scanner; and ".." and "#", as they stand in a path.   *)
(* A title, or a path, grows piece by piece.                               *)
(***************************************************************************)
EXTENDS Integers, Sequences, SequencesExt, FiniteSets

CONSTANTS
    Alphabets,      \* sets of pieces a title is put together from
    MaxPieces,      \* bound: how many
    KeyPrefix       \* how long a project's key may be: 2..10 in the code

VARIABLES
    alphabet,       \* the pieces of this title
    pieces,         \* how many it has
    title           \* a sequence of characters

textVars == <<alphabet, pieces, title>>

Alnum(c) == c \in {"A", "a", "9", "pull", "github.com"}

\* is_url_ident
UrlIdent(c) == c \notin {"/", " ", "#"}

At(text, i) == IF i \in DOMAIN text THEN text[i] ELSE " "

\* The first place at or after i where what holds of a character ends.
EndOfRun(text, i, class) ==
    CHOOSE j \in i .. Len(text) + 1 :
        /\ \A k \in i .. j - 1 : text[k] \in class
        /\ At(text, j) \notin class

\* Variant: nothing is looked at around a key.
DetachedAnyway(c) == TRUE

\* Neither a letter nor a digit is attached to a key.
Detached(c) == ~Alnum(c)

\* scan_ticket_keys: letters, a hyphen and a number; after a failure the scan
\* goes on where it stopped.
ScanTicketKeys(text) ==
    LET scan[i \in 1 .. Len(text) + 1] ==
            LET hyphen == EndOfRun(text, i, {"A"})
                end    == EndOfRun(text, hyphen + 1, {"9"})
            IN IF i > Len(text) THEN <<>>
               ELSE IF text[i] # "A" \/ ~Detached(At(text, i - 1)) THEN scan[i + 1]
               ELSE IF hyphen - i \notin KeyPrefix \/ At(text, hyphen) # "-" THEN scan[hyphen]
               ELSE IF end = hyphen + 1 \/ ~Detached(At(text, end)) THEN scan[end]
               ELSE <<SubSeq(text, i, end - 1)>> \o scan[end]
    IN scan[1]

\* rfind_byte: the last slash before a place, or 0.
SlashBefore(text, i) == SelectLastInSubSeq(text, 1, i - 1, LAMBDA c : c = "/")

Needle == <<"/", "pull", "/">>

\* What stands between two places is a name.
IsName(text, from, to) == from < to - 1 /\ \A k \in from + 1 .. to - 1 : UrlIdent(text[k])

\* The address that ends with the needle at i, if one does: its repository and
\* its number, of all the digits that follow.
PullRequestAt(text, i) ==
    LET beforeRepo  == SlashBefore(text, i)
        beforeOwner == SlashBefore(text, beforeRepo)
        beforeHost  == SlashBefore(text, beforeOwner)
        end         == EndOfRun(text, i + Len(Needle), {"9"})
    IN IF /\ beforeHost > 0
          /\ SubSeq(text, beforeHost + 1, beforeOwner - 1) = <<"github.com">>
          /\ IsName(text, beforeOwner, beforeRepo) /\ IsName(text, beforeRepo, i)
          /\ end > i + Len(Needle)
       THEN << [repo |-> SubSeq(text, beforeRepo + 1, i - 1),
                number |-> SubSeq(text, i + Len(Needle), end - 1), end |-> end] >>
       ELSE <<>>

\* scan_github_pr_urls: past a needle that ends no address the scan goes on
\* after it.
ScanGithubPrUrls(text) ==
    LET scan[i \in 1 .. Len(text) + 1] ==
            IF i + Len(Needle) > Len(text) + 1 THEN <<>>
            ELSE IF SubSeq(text, i, i + 2) # Needle THEN scan[i + 1]
            ELSE LET pr == PullRequestAt(text, i)
                 IN IF pr = <<>> THEN scan[i + Len(Needle)]
                    ELSE pr \o scan[pr[1].end]
    IN scan[1]

(***************************************************************************)
(* Opening the note a save has written                                     *)
(***************************************************************************)

\* encodeURI: blanks are escaped, the start of a fragment is not.
EncodeUri(path) == [i \in DOMAIN path |-> IF path[i] = " " THEN "%20" ELSE path[i]]

Unescaped(text) == [i \in DOMAIN text |-> IF text[i] = "%20" THEN " " ELSE text[i]]

\* The path of a URL ends where its fragment begins.
UrlPath(url) == SubSeq(url, 1, SelectInSeq(url \o <<"#">>, LAMBDA c : c = "#") - 1)

\* A step up is a segment of its own, not the tail of a name.
StepsUp(text) ==
    \E i \in DOMAIN text :
        /\ text[i] = ".."
        /\ i = 1 \/ text[i - 1] = "/"
        /\ i = Len(text) \/ text[i + 1] = "/"

\* validate_file_url_path: file:/// and no step up.
ValidFileUrlPath(url) == url # <<>> /\ url[1] = "/" /\ ~StepsUp(url)

\* shell_open of file://{url}: the file the system opens, or none.
ShellOpen(url) == IF ValidFileUrlPath(url) THEN Unescaped(UrlPath(url)) ELSE <<>>

TextInit == alphabet \in Alphabets /\ pieces = 0 /\ title = <<>>

Write(piece) ==
    /\ pieces < MaxPieces
    /\ title' = title \o piece
    /\ pieces' = pieces + 1
    /\ UNCHANGED alphabet

TextNext == \E piece \in alphabet : Write(piece)

(***************************************************************************)
(* Properties                                                              *)
(***************************************************************************)

\* The tokens of the form KEY-1 that nothing alphanumeric is attached to.
TicketKeysIn(text) ==
    {span \in (1 .. Len(text)) \X (1 .. Len(text)) :
        LET i == span[1]
            j == span[2] IN
        /\ ~Alnum(At(text, i - 1)) /\ ~Alnum(At(text, j + 1))
        /\ \E h \in i .. j - 1 :
              /\ h - i \in KeyPrefix
              /\ \A k \in i .. h - 1 : text[k] = "A"
              /\ text[h] = "-"
              /\ \A k \in h + 1 .. j : text[k] = "9"}

\* The addresses host/owner/name/pull/number; a name "pull" is missed, unless
\* the owner has it, too.
PullRequestsIn(text) ==
    {span \in (1 .. Len(text)) \X (1 .. Len(text)) :
        LET i == span[1]
            j == span[2] IN
        /\ text[j] = "9" /\ At(text, j + 1) # "9"
        /\ \E o, r, p \in i + 1 .. j - 1 :
              /\ o < r /\ r < p /\ p + 2 < j
              /\ SubSeq(text, i, o) = <<"/", "github.com", "/">>
              /\ IsName(text, o, r) /\ text[r] = "/"
              /\ IsName(text, r, p)
              /\ SubSeq(text, r, p) = Needle => SubSeq(text, o, r) = Needle
              /\ SubSeq(text, p, p + 2) = Needle
              /\ \A k \in p + 3 .. j : text[k] = "9"}

\* A title's issue keys and pull requests are found wherever they stand in it,
\* one after the other or glued to others' tails, and nothing else is taken for
\* one: the scanners walk bytes by hand and go on from where a failed match
\* left them (enrich.rs:340-427, 472-514).
ScansAreExact ==
    /\ LET keys == TicketKeysIn(title)
       IN /\ ToSet(ScanTicketKeys(title)) = {SubSeq(title, k[1], k[2]) : k \in keys}
          /\ Len(ScanTicketKeys(title)) = Cardinality(keys)
    /\ Len(ScanGithubPrUrls(title)) = Cardinality(PullRequestsIn(title))

\* commands.rs:2149-2229, SaveReportDialog.tsx:82-84: a saved note opens at its
\* own path, whatever its names are made of, unless the path steps up; one with
\* a "#" in it, which the dialog leaves in the address, is cut there.
NotesOpen ==
    title # <<>> /\ title[1] = "/" /\ "#" \notin ToSet(title)
      => ShellOpen(EncodeUri(title)) = IF StepsUp(title) THEN <<>> ELSE title

=============================================================================
