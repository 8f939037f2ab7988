----------------------------- MODULE MCDesktop -----------------------------
(* Desktop for TLC: the addresses, the directory tree and the scan roots.   *)
EXTENDS Desktop, TLC

\* Per workplace an address as expected, one below a path, one with a query or
\* none at all.
MCTexts ==
    [LocalGit |-> Folders,
     Outlook |-> {Base},
     GitLab |-> {Base, Url("https", FALSE, <<"gitlab">>, TRUE, FALSE),
                 Url("https", FALSE, <<>>, TRUE, TRUE)},
     GitHub |-> {Url("https", FALSE, <<"api", "v3">>, FALSE, FALSE),
                 Url("https", FALSE, <<>>, TRUE, TRUE), Unparsable},
     Atlassian |-> {Url("https", TRUE, <<>>, TRUE, FALSE), Url("https", TRUE, <<"wiki">>, TRUE, FALSE)}]

\* 1 holds 2 and 3, 2 holds 4, 4 holds 5.
MCParentOf == <<0, 1, 1, 2, 4>>

MCRootLists == {<<>>, <<1>>, <<1, 2>>, <<4, 1>>}

\* One source has two events of one item, neighbours in the table of kinds, the
\* others a commit.
MCEventsOf ==
    [s \in Origins |-> IF s = CHOOSE o \in Origins : TRUE THEN {<<s, 1, 21>>, <<s, 1, 22>>}
                       ELSE {<<s, 1, 1>>}]

\* Titles with issue keys, titles with addresses, and paths.
MCAlphabets ==
    {{<<"A">>, <<"A", "A">>, <<"a">>, <<"9">>, <<"-">>, <<" ">>},
     {<<"/">>, <<"pull">>, <<"a">>, <<"9">>, <<" ">>, <<"github.com">>,
      <<"/", "github.com", "/", "a">>, <<"/", "pull", "/">>},
     {<<"/">>, <<"..">>, <<"a">>, <<" ">>, <<"#">>}}

=============================================================================
