------------------------- MODULE OutlookTokensProofs -------------------------
(***************************************************************************)
(* LoginIsSound, NoTokenSentTwice and PairFollowsSource for any number of  *)
(* logins, adds, sources, reports, faults and refresh tokens.              *)
(*                                                                         *)
(* A session has its pair from the store to the take and not before, and a *)
(* cancel that comes while the driver selects is the only thing that can   *)
(* happen to the driver afterwards.  Every token anybody holds is one that *)
(* was handed out, so a new one is none that an OAuthAuth has spent.       *)
(***************************************************************************)
EXTENDS OutlookTokens, TLAPS

AddRecord ==
    [at : {"idle", "lookup", "take", "putAccess", "putRefresh", "insert", "identities",
           "undo", "over"},
     login : Logins \cup {None}, src : Sources \cup {None}, token : Nat,
     undo : Seq({"row", "access", "refresh"}), undone : BOOLEAN]

AuthRecord ==
    [at : {"none", "reading", "ready", "sending", "persistAccess", "persistRefresh"},
     src : Sources \cup {None}, token : Nat, fresh : BOOLEAN, new : Nat, spent : SUBSET Nat]

\* The types the proof needs; LoginTypeOK and TypeOK also bound the tokens.
TypeInv ==
    /\ session \in [Logins -> {"none", "Pending", "Completed", "Failed", "Cancelled", "taken"}]
    /\ pair \in [Logins -> Nat] /\ got \in [Logins -> Nat]
    /\ fired \in [Logins -> BOOLEAN] /\ early \in [Logins -> BOOLEAN]
    /\ driver \in [Logins -> {"off", "select", "callback", "exchange", "store", "report", "ended"}]
    /\ sent \in [Logins -> Tabs \cup {"none"}]
    /\ issued \in Nat
    /\ rows \subseteq Sources
    /\ refresh \in [Sources -> Nat]
    /\ add \in [Adds -> AddRecord]
    /\ auth \in [Auths -> AuthRecord]

\* A session has its pair from the store to the take, and an early cancel leaves
\* its driver nothing but the end.
LoginInv ==
    \A l \in Logins :
        /\ sent[l] \in {"none", l}
        /\ driver[l] \in {"off", "select", "callback", "exchange"} => got[l] = 0
        /\ driver[l] = "store" => got[l] # 0
        /\ driver[l] \in {"off", "select", "callback", "exchange", "store"} => pair[l] = 0
        /\ driver[l] = "report" /\ got[l] # 0 /\ Exists(l) => pair[l] # 0
        /\ session[l] = "Completed" => pair[l] # 0
        /\ early[l] => /\ fired[l] /\ driver[l] \in {"select", "ended"}
                       /\ got[l] = 0 /\ pair[l] = 0 /\ session[l] = "Cancelled"

\* Nobody holds a token that was not handed out.
IssuedInv ==
    /\ \A l \in Logins : pair[l] <= issued /\ got[l] <= issued
    /\ \A s \in Sources : refresh[s] <= issued
    /\ \A a \in Adds : add[a].token <= issued
    /\ \A o \in Auths : auth[o].token <= issued /\ \A t \in auth[o].spent : t <= issued

\* No OAuthAuth holds a token it was given another for.
SpentInv == \A o \in Auths : auth[o].token \notin auth[o].spent

\* An add knows the session it takes its pair from, and then its source; an
\* OAuthAuth between its two reads knows its source.
AddKnows(r) ==
    /\ r.at \in {"lookup", "take"} => r.login \in Logins
    /\ r.at \in {"putAccess", "putRefresh", "insert", "identities", "undo"} => r.src \in Sources

AuthKnows(r) == r.at = "reading" => r.src \in Sources

KnowInv == (\A a \in Adds : AddKnows(add[a])) /\ \A o \in Auths : AuthKnows(auth[o])

IInv == TypeInv /\ LoginInv /\ IssuedInv /\ SpentInv /\ KnowInv

\* The code a callback brings is this login's own.
LEMMA OwnCode ==
    ASSUME NEW l \in Logins, NEW r \in Requests
    PROVE  CodeFor(l, ExtractQuery(ReadRequestLine(r))) \in {"none", l}
BY DEF CodeFor, ExtractQuery, ReadRequestLine, AuthorizeUrl, Requests

\* The session, its driver and the browser.
LEMMA LoginKeeps ==
    ASSUME IInv, NEW l \in Logins, LoginStep(l), UNCHANGED outlookVars
    PROVE  IInv'
<1> USE DEF IInv, TypeInv, LoginInv, IssuedInv, SpentInv, KnowInv, Exists, Drive,
            idpVars, outlookVars, keychain
<1>1. CASE BeginLogin(l)
  BY <1>1 DEF BeginLogin
<1>2. CASE CancelLogin(l)
  BY <1>2 DEF CancelLogin
<1>3. CASE CeilingPasses(l)
  BY <1>3 DEF CeilingPasses
<1>4. CASE SelectCancel(l)
  BY <1>4 DEF SelectCancel
<1>5. CASE SelectTimeout(l)
  BY <1>5 DEF SelectTimeout
<1>6. CASE Accept(l)
  BY <1>6 DEF Accept
<1>7. CASE Exchange(l)
  <2>1. CASE Drive(l, "report") /\ UNCHANGED <<got, idpVars>>
    BY <1>7, <2>1 DEF Exchange
  <2>2. CASE Issue({}) /\ got' = [got EXCEPT ![l] = issued + 1] /\ Drive(l, "store")
    <3>1. /\ issued' = issued + 1 /\ driver[l] = "exchange"
          /\ UNCHANGED <<session, pair, fired, sent, early, refresh, add, auth, rows>>
      BY <1>7, <2>2 DEF Exchange, Issue
    <3>2. TypeInv' /\ SpentInv'
      BY <2>2, <3>1
    <3>3. LoginInv'
      BY <2>2, <3>1
    <3>4. /\ got'[l] <= issued' /\ \A k \in Logins \ {l} : got'[k] = got[k]
      BY <2>2, <3>1
    <3>5. \A n \in Nat : n <= issued => n <= issued'
      BY <3>1
    <3>6. /\ \A k \in Logins : pair'[k] <= issued' /\ got'[k] <= issued'
          /\ \A s \in Sources : refresh'[s] <= issued'
      BY <3>1, <3>4, <3>5
    <3>7. /\ \A a \in Adds : add[a].token \in Nat
          /\ \A o \in Auths : auth[o].token \in Nat /\ auth[o].spent \subseteq Nat
      BY DEF AddRecord, AuthRecord
    <3>8. /\ \A a \in Adds : add'[a].token <= issued'
          /\ \A o \in Auths : auth'[o].token <= issued' /\ \A t \in auth'[o].spent : t <= issued'
      BY <3>1, <3>5, <3>7
    <3> QED BY <3>1, <3>2, <3>3, <3>6, <3>8
  <2> QED BY <1>7, <2>1, <2>2 DEF Exchange
<1>8. CASE StorePair(l)
  BY <1>8 DEF StorePair
<1>9. CASE Report(l)
  BY <1>9 DEF Report
<1>10. CASE ReadCallback(l)
  <2>1. PICK code \in {"none", l} :
          /\ sent' = [sent EXCEPT ![l] = code]
          /\ Drive(l, IF code = "none" THEN "report" ELSE "exchange")
    BY <1>10, OwnCode DEF ReadCallback
  <2> QED BY <1>10, <2>1 DEF ReadCallback, Tabs
<1> QED BY <1>1, <1>2, <1>3, <1>4, <1>5, <1>6, <1>7, <1>8, <1>9, <1>10 DEF LoginStep, DriverStep

\* A step that leaves the logins and the tokens upstream alone, and gives an add
\* or an OAuthAuth no token that was not already about.
LEMMA HolderKeeps ==
    ASSUME IInv, UNCHANGED <<session, pair, fired, driver, got, sent, early, issued>>,
           add' \in [Adds -> AddRecord], auth' \in [Auths -> AuthRecord],
           refresh' \in [Sources -> Nat], rows' \subseteq Sources,
           \A s \in Sources : refresh'[s] <= issued,
           \A a \in Adds : add'[a].token <= issued,
           \A o \in Auths : auth'[o].token <= issued /\ \A t \in auth'[o].spent : t <= issued,
           \A o \in Auths : auth'[o].token \notin auth'[o].spent,
           \A a \in Adds : AddKnows(add'[a]), \A o \in Auths : AuthKnows(auth'[o])
    PROVE  IInv'
<1>1. TypeInv'
  BY DEF IInv, TypeInv
<1>2. LoginInv'
  BY DEF IInv, LoginInv, Exists
<1>3. IssuedInv' /\ SpentInv' /\ KnowInv'
  BY DEF IInv, IssuedInv, SpentInv, KnowInv
<1> QED BY <1>1, <1>2, <1>3 DEF IInv

\* An add at another step: with its token, and not back before the take.
LEMMA AddMoves ==
    ASSUME IInv, NEW a \in Adds, NEW r \in AddRecord,
           add' = [add EXCEPT ![a] = r], r.token = add[a].token,
           AddKnows(r),
           UNCHANGED <<session, pair, fired, driver, got, sent, early, issued, auth>>,
           refresh' \in [Sources -> Nat], \A s \in Sources : refresh'[s] <= issued,
           rows' \subseteq Sources
    PROVE  IInv'
<1>1. add' \in [Adds -> AddRecord]
  BY DEF IInv, TypeInv
<1>2. /\ \A b \in Adds : add'[b].token <= issued
      /\ \A b \in Adds : AddKnows(add'[b])
  BY DEF IInv, TypeInv, IssuedInv, KnowInv
<1> QED BY <1>1, <1>2, HolderKeeps DEF IInv, TypeInv, IssuedInv, SpentInv, KnowInv

\* The pair moves from the session to the add, once.
LEMMA TakeKeeps ==
    ASSUME IInv, NEW a \in Adds, TakePair(a)
    PROVE  IInv'
<1> DEFINE l == add[a].login
<1> USE DEF idpVars, keychain
<1>1. add[a].at = "take" /\ l \in Logins /\ add[a] \in AddRecord
  BY DEF TakePair, IInv, TypeInv, KnowInv, AddKnows
<1>2. CASE Exists(l) /\ pair[l] # 0
  <2>1. PICK s \in Sources :
          add' = [add EXCEPT ![a].at = "putAccess", ![a].src = s, ![a].token = pair[l]]
    BY <1>2 DEF TakePair
  <2>2. /\ session' = [session EXCEPT ![l] = "taken"] /\ pair' = [pair EXCEPT ![l] = 0]
        /\ UNCHANGED <<fired, driver, got, sent, early, issued, refresh, auth, rows>>
    BY <1>2 DEF TakePair
  <2> DEFINE r == [add[a] EXCEPT !.at = "putAccess", !.src = s, !.token = pair[l]]
  <2>3. r \in AddRecord /\ r.token = pair[l] /\ AddKnows(r)
    BY <1>1, <2>1 DEF AddRecord, AddKnows, IInv, TypeInv
  <2>4. add' = [add EXCEPT ![a] = r]
    BY <2>1 DEF IInv, TypeInv
  <2> HIDE DEF r
  <2>5. TypeInv'
    BY <1>1, <2>2, <2>3, <2>4 DEF IInv, TypeInv
  <2>6. LoginInv'
    BY <1>1, <1>2, <2>2 DEF IInv, TypeInv, LoginInv, Exists
  <2>7. IssuedInv' /\ SpentInv' /\ KnowInv'
    BY <1>1, <2>2, <2>3, <2>4 DEF IInv, TypeInv, IssuedInv, SpentInv, KnowInv
  <2> QED BY <2>5, <2>6, <2>7 DEF IInv
<1>3. CASE ~(Exists(l) /\ pair[l] # 0)
  <2>1. /\ add' = [add EXCEPT ![a] = [add[a] EXCEPT !.at = "over"]]
        /\ UNCHANGED <<session, pair, fired, driver, got, sent, early, issued, refresh, auth, rows>>
    BY <1>3 DEF TakePair, AddTo, IInv, TypeInv
  <2>2. [add[a] EXCEPT !.at = "over"] \in AddRecord
    BY <1>1 DEF AddRecord
  <2> QED BY <1>1, <2>1, <2>2, AddMoves DEF AddRecord, AddKnows, IInv, TypeInv, IssuedInv
<1> QED BY <1>2, <1>3

\* outlook_sources_add, step by step, and its rollback.
LEMMA AddKeeps ==
    ASSUME IInv, NEW a \in Adds, AddStep(a)
    PROVE  IInv'
<1> USE DEF idpVars, keychain, ledger, loginVars
<1>1. /\ add[a] \in AddRecord /\ refresh \in [Sources -> Nat] /\ AddKnows(add[a])
      /\ rows' \subseteq Sources
  <2>1. /\ add[a] \in AddRecord /\ rows \subseteq Sources /\ refresh \in [Sources -> Nat]
        /\ AddKnows(add[a])
    BY DEF IInv, TypeInv, KnowInv
  <2>2. \/ UNCHANGED rows
        \/ rows' = rows \cup {add[a].src} /\ add[a].at = "insert"
        \/ rows' = rows \ {add[a].src}
    BY DEF AddStep, StartAdd, LookupAccount, TakePair, PutAccess, PutRefresh, InsertSource,
           BindIdentities, UndoStep
  <2> QED BY <2>1, <2>2 DEF AddKnows
<1>2. ASSUME NEW at \in {"over", "take", "putRefresh", "insert", "identities"}, AddTo(a, at),
             at = "take" => add[a].at = "lookup",
             at \in {"putRefresh", "insert", "identities"} => add[a].src \in Sources,
             UNCHANGED <<session, pair, fired, driver, got, sent, early, issued, auth>>,
             refresh' \in [Sources -> Nat], \A s \in Sources : refresh'[s] <= issued,
             rows' \subseteq Sources
      PROVE  IInv'
  <2>1. add' = [add EXCEPT ![a] = [add[a] EXCEPT !.at = at]]
    BY <1>2 DEF AddTo, IInv, TypeInv
  <2>2. [add[a] EXCEPT !.at = at] \in AddRecord
    BY <1>1, <1>2 DEF AddRecord
  <2> QED BY <1>1, <1>2, <2>1, <2>2, AddMoves DEF AddRecord, AddKnows
<1>3. ASSUME NEW u \in Seq({"row", "access", "refresh"}), NEW z \in BOOLEAN,
             add' = [add EXCEPT ![a] = [add[a] EXCEPT !.at = "undo", !.undo = u, !.undone = z]],
             add[a].src \in Sources,
             UNCHANGED <<session, pair, fired, driver, got, sent, early, issued, auth>>,
             refresh' \in [Sources -> Nat], \A s \in Sources : refresh'[s] <= issued,
             rows' \subseteq Sources
      PROVE  IInv'
  <2>1. [add[a] EXCEPT !.at = "undo", !.undo = u, !.undone = z] \in AddRecord
    BY <1>1, <1>3 DEF AddRecord
  <2> QED BY <1>1, <1>3, <2>1, AddMoves DEF AddRecord, AddKnows
<1>4. \A s \in Sources : refresh[s] <= issued
  BY DEF IInv, IssuedInv
<1>5. CASE StartAdd(a)
  <2>1. PICK l \in Logins : add' = [add EXCEPT ![a].at = "lookup", ![a].login = l]
    BY <1>5 DEF StartAdd
  <2> DEFINE r == [add[a] EXCEPT !.at = "lookup", !.login = l]
  <2>2. /\ add' = [add EXCEPT ![a] = r]
        /\ r \in AddRecord /\ r.token = add[a].token /\ r.login = l
    BY <1>1, <2>1 DEF AddRecord, IInv, TypeInv
  <2>3. AddKnows(r)
    BY <1>1 DEF AddKnows, AddRecord
  <2> HIDE DEF r
  <2> QED BY <1>1, <1>4, <1>5, <2>2, <2>3, AddMoves DEF StartAdd
<1>6. CASE LookupAccount(a)
  BY <1>1, <1>2, <1>4, <1>6 DEF LookupAccount
<1>7. CASE PutAccess(a)
  BY <1>1, <1>2, <1>4, <1>7 DEF PutAccess, AddKnows
<1>8. CASE PutRefresh(a)
  <2>1. CASE UndoFrom(a, <<"access">>) /\ UNCHANGED refresh
    <3>1. add' = [add EXCEPT ![a] = [add[a] EXCEPT !.at = "undo", !.undo = <<"access">>,
                                                    !.undone = add[a].undone]]
      BY <1>1, <2>1 DEF UndoFrom, AddRecord, IInv, TypeInv
    <3>2. /\ <<"access">> \in Seq({"row", "access", "refresh"}) /\ add[a].undone \in BOOLEAN
          /\ add[a].src \in Sources
          /\ UNCHANGED <<session, pair, fired, driver, got, sent, early, issued, auth>>
      BY <1>1, <1>8 DEF PutRefresh, AddRecord, AddKnows
    <3> QED BY <1>1, <1>3, <1>4, <2>1, <3>1, <3>2
  <2>2. CASE refresh' = [refresh EXCEPT ![add[a].src] = add[a].token] /\ AddTo(a, "insert")
    <3>1. refresh' \in [Sources -> Nat] /\ \A s \in Sources : refresh'[s] <= issued
      BY <1>1, <1>4, <2>2 DEF AddRecord, IInv, IssuedInv
    <3>2. UNCHANGED <<session, pair, fired, driver, got, sent, early, issued, auth>>
      BY <1>8 DEF PutRefresh
    <3>3. add[a].src \in Sources
      BY <1>1, <1>8 DEF PutRefresh, AddKnows
    <3> QED BY <1>1, <1>2, <2>2, <3>1, <3>2, <3>3
  <2> QED BY <1>8, <2>1, <2>2 DEF PutRefresh
<1>9. CASE InsertSource(a) \/ BindIdentities(a)
  <2>1. UNCHANGED <<session, pair, fired, driver, got, sent, early, issued, auth, refresh>>
    BY <1>9 DEF InsertSource, BindIdentities
  <2>4. add[a].src \in Sources
    BY <1>1, <1>9 DEF InsertSource, BindIdentities, AddKnows
  <2>2. CASE AddTo(a, "identities") \/ AddTo(a, "over")
    BY <1>1, <1>2, <1>4, <2>1, <2>2, <2>4
  <2>3. ASSUME NEW u \in {<<"access", "refresh">>, <<"row", "access", "refresh">>}, UndoFrom(a, u)
        PROVE  IInv'
    <3>1. add' = [add EXCEPT ![a] = [add[a] EXCEPT !.at = "undo", !.undo = u,
                                                    !.undone = add[a].undone]]
      BY <1>1, <2>3 DEF UndoFrom, AddRecord, IInv, TypeInv
    <3>2. u \in Seq({"row", "access", "refresh"})
      <4>1. <<"access", "refresh">> \in Seq({"row", "access", "refresh"})
        OBVIOUS
      <4>2. <<"row", "access", "refresh">> \in Seq({"row", "access", "refresh"})
        OBVIOUS
      <4> QED BY <2>3, <4>1, <4>2
    <3>3. add[a].undone \in BOOLEAN
      BY <1>1 DEF AddRecord
    <3> QED BY <1>1, <1>3, <1>4, <2>1, <2>4, <3>1, <3>2, <3>3
  <2> QED BY <1>9, <2>2, <2>3 DEF InsertSource, BindIdentities
<1>10. CASE UndoStep(a)
  <2>1. UNCHANGED <<session, pair, fired, driver, got, sent, early, issued, auth>>
    BY <1>10 DEF UndoStep
  <2>2. CASE add[a].undo = <<>>
    BY <1>1, <1>2, <1>4, <1>10, <2>1, <2>2 DEF UndoStep
  <2>3. CASE add[a].undo # <<>>
    <3>1. Tail(add[a].undo) \in Seq({"row", "access", "refresh"}) /\ add[a].undone \in BOOLEAN
      BY <1>1, <2>3 DEF AddRecord
    <3>2. refresh' \in [Sources -> Nat] /\ \A s \in Sources : refresh'[s] <= issued
      <4>1. \/ UNCHANGED refresh
            \/ \E n \in {0, refresh[add[a].src]} :
                  refresh' = [refresh EXCEPT ![add[a].src] = n]
        BY <1>10, <2>3 DEF UndoStep
      <4>2. 0 <= issued
        BY DEF IInv, TypeInv
      <4> QED BY <1>1, <1>4, <4>1, <4>2
    <3>3. \E z \in BOOLEAN : add' = [add EXCEPT
             ![a] = [add[a] EXCEPT !.at = "undo", !.undo = Tail(add[a].undo), !.undone = z]]
      <4>1. \/ add' = [add EXCEPT ![a].undo = Tail(@)]
            \/ add' = [add EXCEPT ![a].undo = Tail(@), ![a].undone = FALSE]
        BY <1>10, <2>3 DEF UndoStep
      <4>2. add[a].at = "undo" /\ a \in DOMAIN add
        BY <1>10 DEF UndoStep, IInv, TypeInv
      <4>3. CASE add' = [add EXCEPT ![a].undo = Tail(@)]
        <5>1. [add[a] EXCEPT !.undo = Tail(add[a].undo)]
                = [add[a] EXCEPT !.at = "undo", !.undo = Tail(add[a].undo), !.undone = add[a].undone]
          BY <1>1, <4>2 DEF AddRecord
        <5>2. add' = [add EXCEPT ![a] = [add[a] EXCEPT !.undo = Tail(add[a].undo)]]
          BY <4>3
        <5> QED BY <3>1, <5>1, <5>2
      <4>4. CASE add' = [add EXCEPT ![a].undo = Tail(@), ![a].undone = FALSE]
        <5>1. [add[a] EXCEPT !.undo = Tail(add[a].undo), !.undone = FALSE]
                = [add[a] EXCEPT !.at = "undo", !.undo = Tail(add[a].undo), !.undone = FALSE]
          BY <1>1, <4>2 DEF AddRecord
        <5>2. add' = [add EXCEPT
                 ![a] = [add[a] EXCEPT !.undo = Tail(add[a].undo), !.undone = FALSE]]
          BY <1>1, <4>2, <4>4 DEF AddRecord
        <5> QED BY <5>1, <5>2
      <4> QED BY <4>1, <4>3, <4>4
    <3>4. add[a].src \in Sources
      BY <1>1, <1>10 DEF UndoStep, AddKnows
    <3> QED BY <1>1, <1>3, <2>1, <3>1, <3>2, <3>3, <3>4
  <2> QED BY <2>2, <2>3
<1> QED BY <1>5, <1>6, <1>7, <1>8, <1>9, <1>10, TakeKeeps DEF AddStep

\* An OAuthAuth at another step, with a token and spent ones that were handed out.
LEMMA AuthMoves ==
    ASSUME IInv, NEW o \in Auths, NEW r \in AuthRecord,
           auth' = [auth EXCEPT ![o] = r], AuthKnows(r),
           r.token <= issued, \A t \in r.spent : t <= issued, r.token \notin r.spent,
           UNCHANGED <<session, pair, fired, driver, got, sent, early, issued, add, rows>>,
           refresh' \in [Sources -> Nat], \A s \in Sources : refresh'[s] <= issued
    PROVE  IInv'
<1>1. auth' \in [Auths -> AuthRecord]
  BY DEF IInv, TypeInv
<1>2. \A p \in Auths : /\ auth'[p].token <= issued /\ \A t \in auth'[p].spent : t <= issued
                       /\ auth'[p].token \notin auth'[p].spent /\ AuthKnows(auth'[p])
  BY DEF IInv, TypeInv, IssuedInv, SpentInv, KnowInv
<1> QED BY <1>1, <1>2, HolderKeeps DEF IInv, TypeInv, IssuedInv, KnowInv

\* A refresh that hands out a new token: nobody has spent that one.
LEMMA GrantKeeps ==
    ASSUME IInv, NEW o \in Auths, NEW r \in AuthRecord, issued' = issued + 1,
           auth' = [auth EXCEPT ![o] = r], AuthKnows(r),
           \/ r.token = auth[o].token /\ r.spent = auth[o].spent
           \/ r.token = issued + 1 /\ r.spent = auth[o].spent \cup {auth[o].token},
           UNCHANGED <<session, pair, fired, driver, got, sent, early, add, refresh, rows>>
    PROVE  IInv'
<1>1. issued \in Nat /\ \A n \in Nat : n <= issued => n <= issued'
  BY DEF IInv, TypeInv
<1>2. auth[o].token \in Nat /\ auth[o].spent \subseteq Nat
  BY DEF IInv, TypeInv, AuthRecord
<1>3. /\ auth[o].token <= issued /\ \A t \in auth[o].spent : t <= issued
      /\ auth[o].token \notin auth[o].spent
  BY DEF IInv, IssuedInv, SpentInv
<1>4. /\ r.token <= issued' /\ \A t \in r.spent : t <= issued'
      /\ r.token \notin r.spent
  BY <1>1, <1>2, <1>3
<1>5. TypeInv' /\ KnowInv'
  BY <1>1 DEF IInv, TypeInv, KnowInv, AddKnows
<1>6. LoginInv'
  BY DEF IInv, LoginInv, Exists
<1>7. SpentInv'
  BY <1>4 DEF IInv, TypeInv, SpentInv
<1>8. /\ \A l \in Logins : pair'[l] <= issued' /\ got'[l] <= issued'
      /\ \A s \in Sources : refresh'[s] <= issued'
  BY <1>1 DEF IInv, TypeInv, IssuedInv
<1>9. \A a \in Adds : add'[a].token <= issued'
  <2>1. \A a \in Adds : add[a].token \in Nat
    BY DEF IInv, TypeInv, AddRecord
  <2> QED BY <1>1, <2>1 DEF IInv, IssuedInv
<1>10. \A p \in Auths : auth'[p].token <= issued' /\ \A t \in auth'[p].spent : t <= issued'
  <2>1. ASSUME NEW p \in Auths, p # o
        PROVE  auth'[p].token <= issued' /\ \A t \in auth'[p].spent : t <= issued'
    <3>1. auth'[p] = auth[p] /\ auth[p].token \in Nat /\ auth[p].spent \subseteq Nat
      BY <2>1 DEF IInv, TypeInv, AuthRecord
    <3> QED BY <1>1, <3>1 DEF IInv, IssuedInv
  <2>2. auth'[o] = r
    BY DEF IInv, TypeInv
  <2> QED BY <1>4, <2>1, <2>2
<1> QED BY <1>5, <1>6, <1>7, <1>8, <1>9, <1>10 DEF IInv, IssuedInv

\* An OAuthAuth: its two reads, its refreshes and their two writes.
LEMMA AuthKeeps ==
    ASSUME IInv, NEW o \in Auths, AuthStep(o)
    PROVE  IInv'
<1> USE DEF idpVars, keychain, ledger, loginVars
<1>1. /\ auth[o] \in AuthRecord /\ refresh \in [Sources -> Nat] /\ issued \in Nat
      /\ auth[o].token <= issued /\ \A t \in auth[o].spent : t <= issued
      /\ auth[o].token \notin auth[o].spent
      /\ \A s \in Sources : refresh[s] <= issued
  BY DEF IInv, TypeInv, IssuedInv, SpentInv
<1>2. /\ NoAuth \in AuthRecord /\ NoAuth.token = 0 /\ NoAuth.spent = {}
      /\ NoAuth.at = "none" /\ 0 <= issued
  BY <1>1 DEF NoAuth, AuthRecord
<1>3. ASSUME NEW at \in {"reading", "ready", "sending", "persistRefresh"},
             NEW s \in Sources \cup {None}, NEW f \in BOOLEAN,
             at = "reading" => s \in Sources,
             auth' = [auth EXCEPT ![o] = [auth[o] EXCEPT !.at = at, !.src = s, !.fresh = f]],
             UNCHANGED <<session, pair, fired, driver, got, sent, early, issued, add, rows>>,
             refresh' \in [Sources -> Nat], \A q \in Sources : refresh'[q] <= issued
      PROVE  IInv'
  <2> DEFINE r == [auth[o] EXCEPT !.at = at, !.src = s, !.fresh = f]
  <2>1. r \in AuthRecord /\ r.token = auth[o].token /\ r.spent = auth[o].spent /\ AuthKnows(r)
    BY <1>1, <1>3 DEF AuthRecord, AuthKnows
  <2> HIDE DEF r
  <2> QED BY <1>1, <1>3, <2>1, AuthMoves DEF r
<1>4. ASSUME NEW at \in {"ready", "sending", "persistRefresh"}, AuthTo(o, at),
             UNCHANGED <<session, pair, fired, driver, got, sent, early, issued, add, rows>>,
             refresh' \in [Sources -> Nat], \A q \in Sources : refresh'[q] <= issued
      PROVE  IInv'
  <2>1. auth' = [auth EXCEPT ![o] =
                   [auth[o] EXCEPT !.at = at, !.src = auth[o].src, !.fresh = auth[o].fresh]]
    BY <1>1, <1>4 DEF AuthTo, AuthRecord, IInv, TypeInv
  <2>2. auth[o].src \in Sources \cup {None} /\ auth[o].fresh \in BOOLEAN
    BY <1>1 DEF AuthRecord
  <2> QED BY <1>3, <1>4, <2>1, <2>2
<1>5. CASE ReadAccess(o)
  <2>1. PICK s \in Sources :
          auth' = [auth EXCEPT ![o].at = "reading", ![o].src = s]
    BY <1>5 DEF ReadAccess, IInv, TypeInv
  <2>2. auth[o].fresh \in BOOLEAN
    BY <1>1 DEF AuthRecord
  <2>3. auth' = [auth EXCEPT ![o] =
                   [auth[o] EXCEPT !.at = "reading", !.src = s, !.fresh = auth[o].fresh]]
    BY <1>1, <2>1 DEF AuthRecord, IInv, TypeInv
  <2> QED BY <1>1, <1>3, <1>5, <2>2, <2>3 DEF ReadAccess
<1>6. CASE ReadRefresh(o) \/ DropAuth(o)
  <2>1. UNCHANGED <<session, pair, fired, driver, got, sent, early, issued, add, rows, refresh>>
    BY <1>6 DEF ReadRefresh, DropAuth
  <2>2. CASE auth' = [auth EXCEPT ![o] = NoAuth]
    BY <1>1, <1>2, <2>1, <2>2, AuthMoves DEF AuthKnows
  <2>3. CASE ReadRefresh(o) /\ refresh[auth[o].src] # 0
    <3> DEFINE r == [NoAuth EXCEPT !.at = "ready", !.src = auth[o].src,
                                   !.token = refresh[auth[o].src]]
    <3>1. auth' = [auth EXCEPT ![o] = r]
      BY <2>3 DEF ReadRefresh, IInv, TypeInv
    <3>2. auth[o].src \in Sources
      BY <2>3 DEF ReadRefresh, IInv, KnowInv, AuthKnows
    <3>3. /\ r \in AuthRecord /\ r.token = refresh[auth[o].src] /\ r.spent = {}
          /\ AuthKnows(r)
      BY <1>1, <3>2 DEF NoAuth, AuthRecord, AuthKnows
    <3> HIDE DEF r
    <3> QED BY <1>1, <2>1, <3>1, <3>2, <3>3, AuthMoves
  <2> QED BY <1>6, <2>2, <2>3 DEF ReadRefresh, DropAuth, IInv, TypeInv
<1>7. CASE Serve(o) \/ PersistAccess(o)
  BY <1>1, <1>4, <1>7 DEF Serve, PersistAccess, Fails
<1>8. CASE Expire(o)
  <2>1. auth[o].at = "ready" /\ auth[o].src \in Sources \cup {None}
    BY <1>1, <1>8 DEF Expire, AuthRecord
  <2>2. [auth[o] EXCEPT !.fresh = FALSE]
          = [auth[o] EXCEPT !.at = "ready", !.src = auth[o].src, !.fresh = FALSE]
    BY <1>1, <2>1 DEF AuthRecord
  <2>3. auth' = [auth EXCEPT ![o] = [auth[o] EXCEPT !.fresh = FALSE]]
    BY <1>8 DEF Expire, IInv, TypeInv
  <2> QED BY <1>1, <1>3, <1>8, <2>1, <2>2, <2>3 DEF Expire
<1>9. CASE PersistRefresh(o)
  <2>1. UNCHANGED <<session, pair, fired, driver, got, sent, early, issued, add, rows>>
    BY <1>9 DEF PersistRefresh
  <2>2. refresh' \in [Sources -> Nat] /\ \A q \in Sources : refresh'[q] <= issued
    <3>1. auth[o].token \in Nat
      BY <1>1 DEF AuthRecord
    <3> QED BY <1>1, <1>9, <3>1 DEF PersistRefresh
  <2> QED BY <1>4, <1>9, <2>1, <2>2 DEF PersistRefresh, Fails
<1>10. CASE Refresh(o)
  <2>1. UNCHANGED <<session, pair, fired, driver, got, sent, early, add, rows, refresh>>
    BY <1>10 DEF Refresh
  <2>2. CASE Fails(o) /\ UNCHANGED issued
    BY <1>1, <1>4, <2>1, <2>2 DEF Fails
  <2>3. CASE Fails(o) /\ issued' = issued + 1
    <3> DEFINE r == [auth[o] EXCEPT !.at = "ready"]
    <3>1. r \in AuthRecord /\ r.token = auth[o].token /\ r.spent = auth[o].spent /\ AuthKnows(r)
      BY <1>1 DEF AuthRecord, AuthKnows
    <3>2. auth' = [auth EXCEPT ![o] = r]
      BY <1>1, <2>3 DEF Fails, AuthTo, IInv, TypeInv
    <3> HIDE DEF r
    <3> QED BY <2>1, <2>3, <3>1, <3>2, GrantKeeps
  <2>4. CASE Grant(o, issued + 1) /\ issued' = issued + 1
    <3> DEFINE r == [auth[o] EXCEPT !.at = "persistAccess", !.fresh = TRUE, !.new = issued + 1,
                                    !.token = issued + 1, !.spent = @ \cup {auth[o].token}]
    <3>1. issued + 1 # 0
      BY <1>1
    <3>2. /\ r \in AuthRecord /\ r.token = issued + 1 /\ AuthKnows(r)
          /\ r.spent = auth[o].spent \cup {auth[o].token}
      <4>1. issued + 1 \in Nat /\ auth[o].spent \cup {auth[o].token} \in SUBSET Nat
        BY <1>1 DEF AuthRecord
      <4> QED BY <1>1, <4>1 DEF AuthRecord, AuthKnows
    <3>3. auth' = [auth EXCEPT ![o] = r]
      BY <1>1, <2>4, <3>1 DEF Grant, IInv, TypeInv
    <3> HIDE DEF r
    <3> QED BY <2>1, <2>4, <3>2, <3>3, GrantKeeps
  <2>5. CASE Grant(o, 0) /\ UNCHANGED issued
    <3> DEFINE r == [auth[o] EXCEPT !.at = "persistAccess", !.fresh = TRUE, !.new = 0]
    <3>1. r \in AuthRecord /\ r.token = auth[o].token /\ r.spent = auth[o].spent /\ AuthKnows(r)
      BY <1>1 DEF AuthRecord, AuthKnows
    <3>2. auth' = [auth EXCEPT ![o] = r]
      BY <1>1, <2>5 DEF Grant, IInv, TypeInv, AuthRecord
    <3> HIDE DEF r
    <3> QED BY <1>1, <2>1, <2>5, <3>1, <3>2, AuthMoves
  <2> QED BY <1>10, <2>2, <2>3, <2>4, <2>5 DEF Refresh, Issue
<1> QED BY <1>5, <1>6, <1>7, <1>8, <1>9, <1>10 DEF AuthStep

\* The quit: memory is lost, tables and keychain stay.
LEMMA QuitKeeps ==
    ASSUME IInv, Quit
    PROVE  IInv'
<1> USE DEF idpVars, keychain
<1>1. /\ UNCHANGED <<issued, refresh, rows, fired>>
      /\ session' = [l \in Logins |-> IF session[l] = "none" THEN "none" ELSE "taken"]
      /\ driver' = [l \in Logins |-> IF driver[l] = "off" THEN "off" ELSE "ended"]
      /\ pair' = [l \in Logins |-> 0] /\ got' = [l \in Logins |-> 0]
      /\ sent' = [l \in Logins |-> "none"] /\ early' = [l \in Logins |-> FALSE]
      /\ auth' = [o \in Auths |-> NoAuth]
      /\ add' = [a \in Adds |-> IF add[a].at = "idle" THEN NoAdd ELSE [add[a] EXCEPT !.at = "over"]]
  BY DEF Quit
<1>2. NoAuth \in AuthRecord /\ NoAuth.token = 0 /\ NoAuth.spent = {} /\ AuthKnows(NoAuth)
  BY DEF NoAuth, AuthRecord, AuthKnows
<1>3. ASSUME NEW a \in Adds
      PROVE  /\ add'[a] \in AddRecord /\ AddKnows(add'[a])
             /\ add'[a].token \in {0, add[a].token}
  <2>1. add[a] \in AddRecord
    BY DEF IInv, TypeInv
  <2>2. NoAdd \in AddRecord /\ AddKnows(NoAdd) /\ NoAdd.token = 0
    BY DEF NoAdd, AddRecord, AddKnows
  <2>3. /\ [add[a] EXCEPT !.at = "over"] \in AddRecord
        /\ [add[a] EXCEPT !.at = "over"].token = add[a].token
        /\ AddKnows([add[a] EXCEPT !.at = "over"])
    BY <2>1 DEF AddRecord, AddKnows
  <2> QED BY <1>1, <2>2, <2>3
<1>4. issued \in Nat
  BY DEF IInv, TypeInv
<1>5. TypeInv'
  <2>1. add' \in [Adds -> AddRecord] /\ auth' \in [Auths -> AuthRecord]
    BY <1>1, <1>2, <1>3
  <2>2. early' \in [Logins -> BOOLEAN]
    BY <1>1
  <2> QED BY <1>1, <2>1, <2>2 DEF IInv, TypeInv
<1>6. LoginInv'
  BY <1>1 DEF IInv, TypeInv, LoginInv, Exists
<1>7. IssuedInv' /\ SpentInv' /\ KnowInv'
  <2>1. SpentInv' /\ KnowInv'
    BY <1>1, <1>2, <1>3 DEF SpentInv, KnowInv
  <2>2. \A a \in Adds : add'[a].token <= issued'
    <3>1. ASSUME NEW a \in Adds  PROVE add'[a].token <= issued
      <4>1. add[a].token <= issued /\ 0 <= issued
        BY <1>4 DEF IInv, IssuedInv
      <4> QED BY <1>3, <4>1
    <3> QED BY <1>1, <3>1
  <2>3. /\ \A l \in Logins : pair'[l] <= issued' /\ got'[l] <= issued'
        /\ \A s \in Sources : refresh'[s] <= issued'
    BY <1>1, <1>4 DEF IInv, IssuedInv
  <2>4. \A o \in Auths : auth'[o].token <= issued' /\ \A t \in auth'[o].spent : t <= issued'
    BY <1>1, <1>2, <1>4
  <2> QED BY <2>1, <2>2, <2>3, <2>4 DEF IssuedInv
<1> QED BY <1>5, <1>6, <1>7 DEF IInv

\* In every reachable state the sessions, their drivers and the tokens agree.
THEOREM TokensInvariance == Spec => []IInv
<1>1. Init => IInv
  <2> SUFFICES ASSUME Init PROVE IInv
    OBVIOUS
  <2>1. NoAdd \in AddRecord /\ AddKnows(NoAdd) /\ NoAdd.token = 0
    BY DEF NoAdd, AddRecord, AddKnows
  <2>2. NoAuth \in AuthRecord /\ AuthKnows(NoAuth) /\ NoAuth.token = 0 /\ NoAuth.spent = {}
    BY DEF NoAuth, AuthRecord, AuthKnows
  <2>3. TypeInv
    <3>1. fired \in [Logins -> BOOLEAN] /\ early \in [Logins -> BOOLEAN]
      BY DEF Init, LoginInit
    <3> QED BY <2>1, <2>2, <3>1 DEF Init, LoginInit, TypeInv
  <2>4. LoginInv
    BY DEF Init, LoginInit, LoginInv
  <2>5. IssuedInv /\ SpentInv /\ KnowInv
    BY <2>1, <2>2 DEF Init, LoginInit, IssuedInv, SpentInv, KnowInv
  <2> QED BY <2>3, <2>4, <2>5 DEF IInv
<1>2. IInv /\ [Next]_vars => IInv'
  <2> SUFFICES ASSUME IInv, [Next]_vars PROVE IInv'
    OBVIOUS
  <2>1. CASE (\E s \in Sources : DeleteSource(s) \/ DropKey(s)) \/ UNCHANGED vars
    <3>1. /\ UNCHANGED <<session, pair, fired, driver, got, sent, early, issued, add, auth, refresh>>
          /\ rows' \subseteq rows
      BY <2>1 DEF DeleteSource, DropKey, vars, loginVars, idpVars, keychain
    <3> QED BY <3>1, HolderKeeps DEF IInv, TypeInv, IssuedInv, SpentInv, KnowInv
  <2> QED BY <2>1, LoginKeeps, AddKeeps, AuthKeeps, QuitKeeps DEF Next
<1> QED BY <1>1, <1>2, PTL DEF Spec

\* LoginIsSound (oauth.rs:26-29, :391, :421, :515): Completed means tokens, an
\* early cancel none, and no other tab's code is spent.
THEOREM SoundLogins == Spec => []LoginIsSound
<1>1. IInv => LoginIsSound
  BY DEF IInv, LoginInv, LoginIsSound
<1> QED BY <1>1, TokensInvariance, PTL

\* NoTokenSentTwice (auth.rs:683-690): the token an OAuthAuth sends is never one
\* it was given another for.
THEOREM TokensSentOnce == Spec => []NoTokenSentTwice
<1>1. IInv => NoTokenSentTwice
  BY DEF IInv, SpentInv, NoTokenSentTwice
<1> QED BY <1>1, TokensInvariance, PTL

(***************************************************************************)
(* PairFollowsSource.  A refresh token is with one session, one add or one *)
(* source, and the OAuthAuths of a source share it: while upstream rotates *)
(* at most one of the tokens they hold is live, and the one whose pair is  *)
(* being written back is the only holder of it.  An id is minted once, so  *)
(* what an add finds under its own is what it wrote itself, unless a run   *)
(* has picked the row up, and its rollback knows what is left to take back.*)
(***************************************************************************)

Persisting(o) == auth[o].at \in {"persistAccess", "persistRefresh"}

\* The source s has, uses or will be given the token t.
Holds(s, t) ==
    /\ t # 0
    /\ \/ refresh[s] = t
       \/ \E o \in Auths : auth[o].src = s /\ auth[o].token = t
       \/ \E a \in Adds : add[a].src = s /\ add[a].token = t

AuthShape(r) ==
    /\ r.at = "none" => r.src = None
    /\ r.at \in {"none", "reading"} => r.token = 0
    /\ r.at # "none" => r.src \in Sources

AddShape(r) ==
    /\ r.at \in {"idle", "lookup", "take"} => r.src = None /\ r.token = 0
    /\ r.token # 0 => r.src \in Sources

ShapeInv ==
    /\ access \in [Sources -> BOOLEAN] /\ live \subseteq Nat
    /\ \A o \in Auths : AuthShape(auth[o])
    /\ \A a \in Adds : AddShape(add[a])

\* No token is with two of the sessions and sources.
OneHolder ==
    /\ \A s, q \in Sources : \A t \in Nat : Holds(s, t) /\ Holds(q, t) => s = q
    /\ \A l \in Logins, s \in Sources :
          ~Holds(s, pair[l]) /\ (driver[l] = "store" => ~Holds(s, got[l]))
    /\ \A l, k \in Logins : l # k =>
          /\ pair[l] # 0 => pair[l] # pair[k] /\ (driver[k] = "store" => pair[l] # got[k])
          /\ driver[l] = "store" /\ driver[k] = "store" => got[l] # got[k]

\* Upstream honours the tokens nobody has used; without rotation all of them, with
\* it one of each source's.
LiveInv ==
    /\ \A t \in live : 1 <= t /\ t <= issued
    /\ \A l \in Logins : /\ pair[l] # 0 => pair[l] \in live
                         /\ driver[l] = "store" => got[l] \in live
    /\ policy # "rotates" => \A s \in Sources, t \in Nat : Holds(s, t) => t \in live
    /\ policy = "rotates" =>
          \A s \in Sources : \A t, u \in live : Holds(s, t) /\ Holds(s, u) => t = u

\* A token on its way to the keychain is live, and under rotation nowhere else.
PersistInv ==
    \A o \in Auths : Persisting(o) =>
        /\ auth[o].token \in live
        /\ policy = "rotates" =>
              /\ refresh[auth[o].src] # auth[o].token
              /\ \A p \in Auths : p # o /\ auth[p].src = auth[o].src
                                    => auth[p].token # auth[o].token

Whole == <<"row", "access", "refresh">>
Keys == <<"access", "refresh">>

\* What is in the table and the keychain under the id of an add in flight, when no
\* run has picked the row up.
Stage(a) ==
    LET s == add[a].src
    IN /\ add[a].at \in {"putAccess", "putRefresh", "insert", "identities", "undo"} =>
             s \notin gone /\ \A o \in Auths : auth[o].src = s => s \in touched
       /\ add[a].at \in {"putAccess", "putRefresh", "insert"} =>
             s \notin rows /\ \A o \in Auths : auth[o].src # s
       /\ add[a].at \in {"putAccess", "putRefresh"} => refresh[s] = 0
       /\ add[a].at = "putAccess" => ~access[s]
       /\ add[a].at = "undo" =>
             /\ add[a].undo \in {Whole, Keys, <<"refresh">>, <<"access">>, <<>>}
             /\ add[a].undone /\ s \in rows => add[a].undo = Whole
             /\ add[a].undone /\ s \notin touched /\ access[s]
                   => add[a].undo \in {Whole, Keys, <<"access">>}
             /\ add[a].undone /\ s \notin touched /\ refresh[s] # 0
                   => add[a].undo \in {Whole, Keys, <<"refresh">>}

\* The token of an add is live until its row is there.
AddLive(a) ==
    /\ add[a].at \in {"putAccess", "putRefresh"} => add[a].token \in live
    /\ add[a].at = "insert" => refresh[add[a].src] \in live

\* Every id is one add's.
MintInv ==
    /\ \A a, b \in Adds : a # b /\ add[a].src # None => add[a].src # add[b].src
    /\ \A s \in rows \cup gone : s \in Sources /\ \E a \in Adds : add[a].src = s
    /\ \A o \in Auths : auth[o].src # None => \E a \in Adds : add[a].src = auth[o].src

Clean(s) ==
    /\ s \notin rows /\ ~access[s] /\ refresh[s] = 0
    /\ \A o \in Auths : auth[o].src # s

LedgerInv ==
    /\ \A a \in Adds : Stage(a)
    /\ \A s \in gone \ touched : Clean(s)

\* What StoredTokenIsLive says of one row.
LiveAt(s) ==
    (/\ \A o \in Auths : auth[o].src = s => ~Persisting(o)
     /\ \A a \in Adds : add[a].src = s => add[a].undone)
    => refresh[s] \in live

StoreInv ==
    /\ \A a \in Adds : AddLive(a)
    /\ \A s \in rows \ stale : LiveAt(s)

PairInv ==
    ShapeInv /\ OneHolder /\ LiveInv /\ PersistInv /\ MintInv /\ LedgerInv /\ StoreInv

LEMMA PairImplies == PairInv => PairFollowsSource
<1>1. StoreInv => StoredTokenIsLive
  BY DEF StoreInv, LiveAt, Persisting, StoredTokenIsLive
<1>2. LedgerInv => FailedAddLeavesNothing
  BY DEF LedgerInv, Clean, FailedAddLeavesNothing
<1> QED BY <1>1, <1>2 DEF PairInv, PairFollowsSource

\* Nobody comes by a token that was not his: no token gets a second holder.
LEMMA FewerHolders ==
    ASSUME PairInv, UNCHANGED <<policy, live, issued>>,
           \A s \in Sources, t \in Nat : Holds(s, t)' => Holds(s, t),
           pair' \in [Logins -> Nat], got' \in [Logins -> Nat],
           \A l \in Logins :
              /\ pair'[l] \in {0, pair[l]}
              /\ driver'[l] = "store" => driver[l] = "store" /\ got'[l] = got[l]
    PROVE  OneHolder' /\ LiveInv'
<1> USE DEF PairInv
<1>1. \A s \in Sources : ~Holds(s, 0)'
  BY DEF Holds
<1>2. OneHolder'
  BY <1>1 DEF OneHolder
<1>3. LiveInv'
  BY DEF LiveInv, ShapeInv
<1> QED BY <1>2, <1>3

\* An add that writes its own token or takes it back.
LEMMA AddHolds ==
    ASSUME NEW a \in Adds, UNCHANGED auth,
           \A b \in Adds : b # a => add'[b] = add[b],
           add'[a].src = add[a].src, add'[a].token = add[a].token,
           NEW s \in Sources, NEW t \in Nat,
           \/ refresh'[s] \in {0, refresh[s]}
           \/ s = add[a].src /\ refresh'[s] = add[a].token,
           Holds(s, t)'
    PROVE  Holds(s, t)
BY DEF Holds

\* An OAuthAuth that takes over or writes back a token of its source.
LEMMA AuthHolds ==
    ASSUME NEW o \in Auths, UNCHANGED add,
           \A p \in Auths : p # o => auth'[p] = auth[p],
           NEW s \in Sources, NEW t \in Nat,
           auth'[o].src = s /\ auth'[o].token = t /\ t # 0 => Holds(s, t),
           \/ refresh'[s] = refresh[s]
           \/ s = auth[o].src /\ refresh'[s] = auth[o].token,
           Holds(s, t)'
    PROVE  Holds(s, t)
BY DEF Holds

\* A step of an add after the take: what it leaves to show of the add itself and
\* of the row and the keychain under its id.
LEMMA AddSide ==
    ASSUME IInv, IInv', PairInv, NEW a \in Adds,
           UNCHANGED <<auth, policy, live, issued, pair, got, driver, stale, touched>>,
           \A b \in Adds : b # a => add'[b] = add[b],
           add'[a].src = add[a].src, add'[a].token = add[a].token,
           add'[a].undone => add[a].undone,
           AddShape(add'[a]),
           access' \in [Sources -> BOOLEAN],
           \A q \in Sources : q # add[a].src =>
               /\ refresh'[q] = refresh[q] /\ access'[q] = access[q]
               /\ q \in rows' => q \in rows,
           \/ add[a].src \in Sources => refresh'[add[a].src] \in {0, refresh[add[a].src]}
           \/ /\ refresh'[add[a].src] = add[a].token
              /\ \A o \in Auths : auth[o].src # add[a].src,
           Stage(a)', AddLive(a)',
           \/ gone' = gone
           \/ /\ gone' = gone \cup {add[a].src} /\ add[a].src \in Sources
              /\ add'[a].at = "over"
              /\ add[a].src \notin touched => Clean(add[a].src)',
           add[a].src \in gone =>
               /\ add[a].src \in rows' => add[a].src \in rows
               /\ access'[add[a].src] => access[add[a].src]
               /\ refresh'[add[a].src] \in {0, refresh[add[a].src]},
           add[a].src \in rows' \ stale =>
               \/ add[a].src \in rows /\ refresh'[add[a].src] = refresh[add[a].src]
               \/ LiveAt(add[a].src)'
    PROVE  PairInv'
<1> DEFINE s == add[a].src
<1>1. /\ refresh \in [Sources -> Nat] /\ refresh' \in [Sources -> Nat]
      /\ rows \subseteq Sources /\ rows' \subseteq Sources
      /\ pair \in [Logins -> Nat] /\ got \in [Logins -> Nat]
      /\ s \in Sources \cup {None}
  BY DEF IInv, TypeInv, AddRecord
<1>2. ShapeInv'
  BY DEF PairInv, ShapeInv
<1>3. \A q \in Sources, t \in Nat : Holds(q, t)' => Holds(q, t)
  BY <1>1, AddHolds
<1>4. OneHolder' /\ LiveInv'
  <2>1. /\ pair' \in [Logins -> Nat] /\ got' \in [Logins -> Nat]
        /\ \A l \in Logins : /\ pair'[l] \in {0, pair[l]}
                             /\ driver'[l] = "store" => driver[l] = "store" /\ got'[l] = got[l]
    BY <1>1
  <2> QED BY <1>3, <2>1, FewerHolders
<1>5. PersistInv'
  <2>1. \A o \in Auths : Persisting(o)' = Persisting(o)
    BY DEF Persisting
  <2>2. \A o \in Auths : Persisting(o) => auth[o].src \in Sources /\ auth[o].token # 0
    BY DEF PairInv, ShapeInv, AuthShape, PersistInv, LiveInv, Persisting
  <2>3. \A o \in Auths : Persisting(o) => refresh'[auth[o].src] \in {0, refresh[auth[o].src]}
    BY <2>2
  <2> QED BY <2>1, <2>2, <2>3 DEF PairInv, PersistInv
<1>6. MintInv'
  BY <1>1 DEF PairInv, MintInv
<1>7. ASSUME NEW b \in Adds, b # a
      PROVE  /\ add[b].src \in Sources => add[b].src # s
             /\ Stage(b)' /\ AddLive(b)'
  <2>1. add[b].src \in Sources \cup {None} /\ (add[b].src # None => add[b].src # s)
    BY <1>7 DEF PairInv, MintInv, IInv, TypeInv, AddRecord
  <2>2. None \notin Sources
    BY OutlookAssumption
  <2>3. add[b].at \in {"putAccess", "putRefresh", "insert", "identities", "undo"}
          => add[b].src \in Sources
    BY DEF IInv, KnowInv, AddKnows
  <2>4. Stage(b) /\ AddLive(b)
    BY DEF PairInv, LedgerInv, StoreInv
  <2>5. add'[b] = add[b]
    BY <1>7
  <2>6. add[b].src \in Sources => /\ refresh'[add[b].src] = refresh[add[b].src]
                                  /\ access'[add[b].src] = access[add[b].src]
                                  /\ add[b].src \in rows' => add[b].src \in rows
                                  /\ add[b].src \in gone' => add[b].src \in gone
    BY <2>1, <2>2
  <2>7. Stage(b)'
    BY <2>3, <2>4, <2>5, <2>6 DEF Stage
  <2>8. AddLive(b)'
    BY <2>3, <2>4, <2>5, <2>6 DEF AddLive
  <2> QED BY <2>1, <2>2, <2>7, <2>8
<1>8. LedgerInv'
  <2>1. \A b \in Adds : Stage(b)'
    BY <1>7
  <2>2. ASSUME NEW q \in gone \ touched  PROVE Clean(q)'
    <3>1. q \in Sources /\ Clean(q)
      BY DEF PairInv, MintInv, LedgerInv
    <3>2. /\ q \in rows' => q \in rows
          /\ access'[q] => access[q]
          /\ refresh'[q] \in {0, refresh[q]}
      BY <3>1
    <3> QED BY <3>1, <3>2 DEF Clean
  <2> QED BY <2>1, <2>2 DEF LedgerInv
<1>9. StoreInv'
  <2>1. \A b \in Adds : AddLive(b)'
    BY <1>7
  <2>2. ASSUME NEW q \in rows' \ stale  PROVE LiveAt(q)'
    <3>1. CASE q \in rows /\ refresh'[q] = refresh[q]
      <4>1. LiveAt(q)
        BY <2>2, <3>1 DEF PairInv, StoreInv
      <4>2. \A b \in Adds : add'[b].undone => add[b].undone
        OBVIOUS
      <4>3. \A b \in Adds : add'[b].src = add[b].src
        OBVIOUS
      <4> QED BY <3>1, <4>1, <4>2, <4>3 DEF LiveAt, Persisting
    <3>2. CASE q = s
      BY <2>2, <3>1, <3>2
    <3>3. CASE q # s
      BY <1>1, <2>2, <3>1, <3>3
    <3> QED BY <3>2, <3>3
  <2> QED BY <2>1, <2>2 DEF StoreInv
<1> QED BY <1>2, <1>4, <1>5, <1>6, <1>8, <1>9 DEF PairInv

\* An add that only goes to another step.
LEMMA AddTurns ==
    ASSUME IInv, IInv', PairInv, NEW a \in Adds,
           UNCHANGED <<auth, policy, live, issued, pair, got, driver, stale, touched, gone,
                       rows, access, refresh>>,
           \A b \in Adds : b # a => add'[b] = add[b],
           add'[a].src = add[a].src, add'[a].token = add[a].token,
           add'[a].undone = add[a].undone,
           \/ add'[a].at \in {"lookup", "take"} /\ add[a].at \in {"idle", "lookup"}
           \/ add'[a].at = "over"
           \/ add'[a].at = "undo" /\ Stage(a)'
    PROVE  PairInv'
<1>1. AddShape(add[a])
  BY DEF PairInv, ShapeInv
<1>2. AddShape(add'[a])
  BY <1>1 DEF AddShape
<1>3. Stage(a)' /\ AddLive(a)'
  BY DEF Stage, AddLive
<1>4. access' \in [Sources -> BOOLEAN]
  BY DEF PairInv, ShapeInv
<1> QED BY <1>2, <1>3, <1>4, AddSide

LEMMA PutAccessPairs ==
    ASSUME IInv, IInv', PairInv, NEW a \in Adds, PutAccess(a)
    PROVE  PairInv'
<1> USE DEF idpVars, loginVars
<1> DEFINE s == add[a].src
<1>1. /\ add \in [Adds -> AddRecord] /\ add[a].at = "putAccess" /\ s \in Sources
      /\ refresh \in [Sources -> Nat] /\ access \in [Sources -> BOOLEAN]
  BY DEF PutAccess, IInv, TypeInv, KnowInv, AddKnows, PairInv, ShapeInv
<1>2. /\ UNCHANGED <<auth, policy, live, issued, pair, got, driver, stale, touched,
                     rows, refresh>>
  BY DEF PutAccess
<1>3. /\ s \notin gone /\ s \notin rows /\ refresh[s] = 0 /\ ~access[s]
      /\ \A o \in Auths : auth[o].src # s
      /\ AddShape(add[a]) /\ add[a].token \in live
  BY <1>1 DEF PairInv, LedgerInv, Stage, ShapeInv, StoreInv, AddLive
<1>4. CASE access' = [access EXCEPT ![s] = TRUE] /\ AddTo(a, "putRefresh") /\ UNCHANGED gone
  <2>1. /\ add'[a].at = "putRefresh" /\ add'[a].src = s /\ add'[a].token = add[a].token
        /\ add'[a].undone = add[a].undone
        /\ \A b \in Adds : b # a => add'[b] = add[b]
    BY <1>1, <1>4 DEF AddTo, AddRecord
  <2>2. Stage(a)' /\ AddLive(a)' /\ AddShape(add'[a])
    BY <1>1, <1>2, <1>3, <1>4, <2>1 DEF Stage, AddLive, AddShape
  <2>3. /\ access' \in [Sources -> BOOLEAN]
        /\ \A q \in Sources : q # s => access'[q] = access[q]
    BY <1>1, <1>4
  <2> QED BY <1>1, <1>2, <1>3, <1>4, <2>1, <2>2, <2>3, AddSide
<1>5. CASE AddTo(a, "over") /\ gone' = gone \cup {s} /\ UNCHANGED access
  <2>1. /\ add'[a].at = "over" /\ add'[a].src = s /\ add'[a].token = add[a].token
        /\ add'[a].undone = add[a].undone
        /\ \A b \in Adds : b # a => add'[b] = add[b]
    BY <1>1, <1>5 DEF AddTo, AddRecord
  <2>2. Stage(a)' /\ AddLive(a)' /\ AddShape(add'[a])
    BY <1>1, <1>2, <1>3, <1>5, <2>1 DEF Stage, AddLive, AddShape
  <2>3. Clean(s)'
    BY <1>1, <1>2, <1>3, <1>5, <2>1 DEF Clean
  <2> QED BY <1>1, <1>2, <1>3, <1>5, <2>1, <2>2, <2>3, AddSide
<1> QED BY <1>4, <1>5 DEF PutAccess

LEMMA PutRefreshPairs ==
    ASSUME IInv, IInv', PairInv, NEW a \in Adds, PutRefresh(a)
    PROVE  PairInv'
<1> USE DEF idpVars, loginVars
<1> DEFINE s == add[a].src
<1>1. /\ add \in [Adds -> AddRecord] /\ add[a].at = "putRefresh" /\ s \in Sources
      /\ refresh \in [Sources -> Nat] /\ access \in [Sources -> BOOLEAN]
  BY DEF PutRefresh, IInv, TypeInv, KnowInv, AddKnows, PairInv, ShapeInv
<1>2. /\ UNCHANGED <<auth, policy, live, issued, pair, got, driver, stale, touched,
                     rows, access, gone>>
  BY DEF PutRefresh
<1>3. /\ s \notin gone /\ s \notin rows /\ refresh[s] = 0
      /\ \A o \in Auths : auth[o].src # s
      /\ AddShape(add[a]) /\ add[a].token \in live
  BY <1>1 DEF PairInv, LedgerInv, Stage, ShapeInv, StoreInv, AddLive
<1>4. CASE refresh' = [refresh EXCEPT ![s] = add[a].token] /\ AddTo(a, "insert")
  <2>1. /\ add'[a].at = "insert" /\ add'[a].src = s /\ add'[a].token = add[a].token
        /\ add'[a].undone = add[a].undone
        /\ \A b \in Adds : b # a => add'[b] = add[b]
    BY <1>1, <1>4 DEF AddTo, AddRecord
  <2>2. /\ refresh'[s] = add[a].token
        /\ \A q \in Sources : q # s => refresh'[q] = refresh[q]
    BY <1>1, <1>4
  <2>3. Stage(a)' /\ AddLive(a)' /\ AddShape(add'[a])
    BY <1>1, <1>2, <1>3, <2>1, <2>2 DEF Stage, AddLive, AddShape
  <2> QED BY <1>1, <1>2, <1>3, <2>1, <2>2, <2>3, AddSide
<1>5. CASE UndoFrom(a, <<"access">>) /\ UNCHANGED refresh
  <2>1. /\ add'[a].at = "undo" /\ add'[a].src = s /\ add'[a].token = add[a].token
        /\ add'[a].undone = add[a].undone /\ add'[a].undo = <<"access">>
        /\ \A b \in Adds : b # a => add'[b] = add[b]
    BY <1>1, <1>5 DEF UndoFrom, AddRecord
  <2>2. Stage(a)'
    BY <1>1, <1>2, <1>3, <1>5, <2>1 DEF Stage
  <2> QED BY <1>1, <1>2, <1>5, <2>1, <2>2, AddTurns
<1> QED BY <1>4, <1>5 DEF PutRefresh

LEMMA InsertPairs ==
    ASSUME IInv, IInv', PairInv, NEW a \in Adds, InsertSource(a)
    PROVE  PairInv'
<1> USE DEF idpVars, loginVars, keychain
<1> DEFINE s == add[a].src
<1>1. /\ add \in [Adds -> AddRecord] /\ add[a].at = "insert" /\ s \in Sources
      /\ refresh \in [Sources -> Nat] /\ access \in [Sources -> BOOLEAN]
  BY DEF InsertSource, IInv, TypeInv, KnowInv, AddKnows, PairInv, ShapeInv
<1>2. /\ UNCHANGED <<auth, policy, live, issued, pair, got, driver, stale, touched,
                     refresh, access, gone>>
  BY DEF InsertSource
<1>3. /\ s \notin gone /\ s \notin rows
      /\ \A o \in Auths : auth[o].src # s
      /\ AddShape(add[a]) /\ refresh[s] \in live
  BY <1>1 DEF PairInv, LedgerInv, Stage, ShapeInv, StoreInv, AddLive
<1>4. CASE rows' = rows \cup {s} /\ AddTo(a, "identities")
  <2>1. /\ add'[a].at = "identities" /\ add'[a].src = s /\ add'[a].token = add[a].token
        /\ add'[a].undone = add[a].undone
        /\ \A b \in Adds : b # a => add'[b] = add[b]
    BY <1>1, <1>4 DEF AddTo, AddRecord
  <2>2. Stage(a)' /\ AddLive(a)' /\ AddShape(add'[a]) /\ LiveAt(s)'
    BY <1>1, <1>2, <1>3, <2>1 DEF Stage, AddLive, AddShape, LiveAt
  <2> QED BY <1>1, <1>2, <1>3, <1>4, <2>1, <2>2, AddSide
<1>5. CASE UndoFrom(a, <<"access", "refresh">>) /\ UNCHANGED rows
  <2>1. /\ add'[a].at = "undo" /\ add'[a].src = s /\ add'[a].token = add[a].token
        /\ add'[a].undone = add[a].undone /\ add'[a].undo = Keys
        /\ \A b \in Adds : b # a => add'[b] = add[b]
    BY <1>1, <1>5 DEF UndoFrom, AddRecord, Keys
  <2>2. Stage(a)'
    BY <1>1, <1>2, <1>3, <1>5, <2>1 DEF Stage
  <2> QED BY <1>1, <1>2, <1>5, <2>1, <2>2, AddTurns
<1> QED BY <1>4, <1>5 DEF InsertSource

LEMMA BindPairs ==
    ASSUME IInv, IInv', PairInv, NEW a \in Adds, BindIdentities(a)
    PROVE  PairInv'
<1> USE DEF idpVars, loginVars, keychain
<1> DEFINE s == add[a].src
<1>1. /\ add \in [Adds -> AddRecord] /\ add[a].at = "identities" /\ s \in Sources
  BY DEF BindIdentities, IInv, TypeInv, KnowInv, AddKnows
<1>2. /\ UNCHANGED <<auth, policy, live, issued, pair, got, driver, stale, touched,
                     rows, refresh, access, gone>>
  BY DEF BindIdentities
<1>3. s \notin gone /\ \A o \in Auths : auth[o].src = s => s \in touched
  BY <1>1 DEF PairInv, LedgerInv, Stage
<1>4. CASE AddTo(a, "over")
  <2>1. /\ add'[a].at = "over" /\ add'[a].src = s /\ add'[a].token = add[a].token
        /\ add'[a].undone = add[a].undone
        /\ \A b \in Adds : b # a => add'[b] = add[b]
    BY <1>1, <1>4 DEF AddTo, AddRecord
  <2> QED BY <1>2, <2>1, AddTurns
<1>5. CASE UndoFrom(a, <<"row", "access", "refresh">>)
  <2>1. /\ add'[a].at = "undo" /\ add'[a].src = s /\ add'[a].token = add[a].token
        /\ add'[a].undone = add[a].undone /\ add'[a].undo = Whole
        /\ \A b \in Adds : b # a => add'[b] = add[b]
    BY <1>1, <1>5 DEF UndoFrom, AddRecord, Whole
  <2>2. Stage(a)'
    BY <1>1, <1>2, <1>3, <2>1 DEF Stage
  <2> QED BY <1>2, <2>1, <2>2, AddTurns
<1> QED BY <1>4, <1>5 DEF BindIdentities

\* rollback_outlook_sources_add: what is left to take back covers what is there.
LEMMA UndoPairs ==
    ASSUME IInv, IInv', PairInv, NEW a \in Adds, UndoStep(a)
    PROVE  PairInv'
<1> USE DEF idpVars, loginVars, keychain
<1> DEFINE s == add[a].src
<1>1. /\ add \in [Adds -> AddRecord] /\ add[a].at = "undo" /\ s \in Sources
      /\ refresh \in [Sources -> Nat] /\ access \in [Sources -> BOOLEAN] /\ rows \subseteq Sources
  BY DEF UndoStep, IInv, TypeInv, KnowInv, AddKnows, PairInv, ShapeInv
<1>2. UNCHANGED <<auth, policy, live, issued, pair, got, driver, stale, touched>>
  BY DEF UndoStep
<1>3. /\ s \notin gone /\ AddShape(add[a])
      /\ \A o \in Auths : auth[o].src = s => s \in touched
  BY <1>1 DEF PairInv, LedgerInv, Stage, ShapeInv
<1>4. /\ add[a].undo \in {Whole, Keys, <<"refresh">>, <<"access">>, <<>>}
      /\ add[a].undone /\ s \in rows => add[a].undo = Whole
      /\ add[a].undone /\ s \notin touched /\ access[s]
            => add[a].undo \in {Whole, Keys, <<"access">>}
      /\ add[a].undone /\ s \notin touched /\ refresh[s] # 0
            => add[a].undo \in {Whole, Keys, <<"refresh">>}
  BY <1>1 DEF PairInv, LedgerInv, Stage
<1>5. CASE add[a].undo = <<>>
  <2>1. /\ AddTo(a, "over") /\ UNCHANGED <<rows, access, refresh>>
        /\ gone' = IF add[a].undone THEN gone \cup {s} ELSE gone
    BY <1>5 DEF UndoStep
  <2>2. /\ add'[a].at = "over" /\ add'[a].src = s /\ add'[a].token = add[a].token
        /\ add'[a].undone = add[a].undone /\ add[a].undone \in BOOLEAN
        /\ \A b \in Adds : b # a => add'[b] = add[b]
    BY <1>1, <2>1 DEF AddTo, AddRecord
  <2>3. CASE add[a].undone
    <3>1. s \notin rows /\ (s \notin touched => ~access[s] /\ refresh[s] = 0)
      BY <1>1, <1>4, <1>5, <2>3 DEF Whole, Keys
    <3>2. s \notin touched => Clean(s)'
      BY <1>1, <1>2, <1>3, <2>1, <2>2, <3>1 DEF Clean
    <3>3. Stage(a)' /\ AddLive(a)' /\ AddShape(add'[a])
      BY <1>1, <1>3, <2>2 DEF Stage, AddLive, AddShape
    <3> QED BY <1>1, <1>2, <1>3, <2>1, <2>2, <2>3, <3>1, <3>2, <3>3, AddSide
  <2>4. CASE ~add[a].undone
    BY <1>2, <2>1, <2>2, <2>4, AddTurns
  <2> QED BY <2>3, <2>4
<1>6. CASE add[a].undo # <<>>
  <2> DEFINE what == Head(add[a].undo)
  <2>1. UNCHANGED gone
    BY <1>6 DEF UndoStep
  <2>2. /\ add[a].undo = Whole => what = "row" /\ Tail(add[a].undo) = Keys
        /\ add[a].undo = Keys => what = "access" /\ Tail(add[a].undo) = <<"refresh">>
        /\ add[a].undo = <<"refresh">> => what = "refresh" /\ Tail(add[a].undo) = <<>>
        /\ add[a].undo = <<"access">> => what = "access" /\ Tail(add[a].undo) = <<>>
    <3>1. ASSUME NEW u, u = Whole  PROVE Head(u) = "row" /\ Tail(u) = Keys
      BY <3>1 DEF Whole, Keys
    <3>2. ASSUME NEW u, u = Keys  PROVE Head(u) = "access" /\ Tail(u) = <<"refresh">>
      BY <3>2 DEF Keys
    <3>3. ASSUME NEW u, NEW w, u = <<w>>  PROVE Head(u) = w /\ Tail(u) = <<>>
      BY <3>3
    <3> QED BY <3>1, <3>2, <3>3
  <2>3. /\ Whole # Keys /\ Whole # <<"refresh">> /\ Whole # <<"access">> /\ Whole # <<>>
        /\ Keys # <<"refresh">> /\ Keys # <<"access">> /\ Keys # <<>>
        /\ <<"access">> # <<"refresh">>
    BY DEF Whole, Keys
  <2> HIDE DEF what
  <2>4. ASSUME rows' = IF what = "row" THEN rows \ {s} ELSE rows,
               access' = [access EXCEPT ![s] = @ /\ what # "access"],
               refresh' = [refresh EXCEPT ![s] = IF what = "refresh" THEN 0 ELSE @],
               add' = [add EXCEPT ![a].undo = Tail(@)]
        PROVE  PairInv'
    <3>1. /\ add'[a].at = "undo" /\ add'[a].src = s /\ add'[a].token = add[a].token
          /\ add'[a].undone = add[a].undone /\ add'[a].undo = Tail(add[a].undo)
          /\ \A b \in Adds : b # a => add'[b] = add[b]
      BY <1>1, <2>4 DEF AddRecord
    <3>2. /\ access' \in [Sources -> BOOLEAN]
          /\ access'[s] = (access[s] /\ what # "access")
          /\ \A q \in Sources : q # s => access'[q] = access[q]
      BY <1>1, <2>4
    <3>3. /\ refresh'[s] = IF what = "refresh" THEN 0 ELSE refresh[s]
          /\ \A q \in Sources : q # s => refresh'[q] = refresh[q]
      BY <1>1, <2>4
    <3>4. add'[a].undo \in {Keys, <<"refresh">>, <<>>}
      BY <1>4, <1>6, <2>2, <3>1
    <3>5. add'[a].undone => s \notin rows'
      BY <1>4, <2>2, <2>4, <3>1
    <3>6. add'[a].undone /\ s \notin touched /\ access'[s]
            => add'[a].undo \in {Whole, Keys, <<"access">>}
      BY <1>4, <2>2, <3>1, <3>2
    <3>7. add'[a].undone /\ s \notin touched /\ refresh'[s] # 0
            => add'[a].undo \in {Whole, Keys, <<"refresh">>}
      BY <1>4, <2>2, <2>3, <3>1, <3>3
    <3>8. Stage(a)'
      BY <1>2, <1>3, <2>1, <3>1, <3>4, <3>5, <3>6, <3>7 DEF Stage
    <3>9. AddLive(a)' /\ AddShape(add'[a])
      BY <1>1, <1>3, <3>1 DEF AddLive, AddShape
    <3>10. s \in rows' => s \in rows /\ (add[a].undone => FALSE)
      BY <2>4, <3>1, <3>5
    <3>11. s \in rows' \ stale => LiveAt(s)'
      BY <3>1, <3>10 DEF LiveAt
    <3>12. \A q \in Sources : q # s => (q \in rows' => q \in rows)
      BY <2>4
    <3> QED BY <1>1, <1>2, <1>3, <2>1, <3>1, <3>2, <3>3, <3>8, <3>9, <3>11, <3>12, AddSide
  <2>5. ASSUME add' = [add EXCEPT ![a].undo = Tail(@), ![a].undone = FALSE],
               UNCHANGED <<rows, access, refresh>>
        PROVE  PairInv'
    <3>1. /\ add'[a].at = "undo" /\ add'[a].src = s /\ add'[a].token = add[a].token
          /\ add'[a].undone = FALSE /\ add'[a].undo = Tail(add[a].undo)
          /\ \A b \in Adds : b # a => add'[b] = add[b]
      BY <1>1, <2>5 DEF AddRecord
    <3>2. add'[a].undo \in {Keys, <<"refresh">>, <<>>}
      BY <1>4, <1>6, <2>2, <3>1
    <3>3. Stage(a)'
      BY <1>2, <1>3, <2>1, <3>1, <3>2 DEF Stage
    <3>4. AddLive(a)' /\ AddShape(add'[a])
      BY <1>1, <1>3, <3>1 DEF AddLive, AddShape
    <3> QED BY <1>1, <1>2, <1>3, <2>1, <2>5, <3>1, <3>3, <3>4, AddSide
  <2> QED BY <1>6, <2>4, <2>5 DEF UndoStep, what
<1> QED BY <1>5, <1>6

\* take_token_pair: the pair goes from the session to an id nobody has used.
LEMMA TakePairs ==
    ASSUME IInv, IInv', PairInv, NEW a \in Adds, TakePair(a)
    PROVE  PairInv'
<1> USE DEF idpVars, loginVars, keychain, ledger
<1> DEFINE l == add[a].login
<1>1. /\ add \in [Adds -> AddRecord] /\ add[a].at = "take" /\ l \in Logins
      /\ add[a].src = None /\ add[a].token = 0
      /\ refresh \in [Sources -> Nat] /\ access \in [Sources -> BOOLEAN]
      /\ pair \in [Logins -> Nat] /\ got \in [Logins -> Nat] /\ None \notin Sources
  BY OutlookAssumption
     DEF TakePair, IInv, TypeInv, KnowInv, AddKnows, PairInv, ShapeInv, AddShape
<1>2. UNCHANGED <<auth, policy, live, issued, got, driver, stale, touched, gone, rows,
                  access, refresh>>
  BY DEF TakePair
<1>3. CASE ~(Exists(l) /\ pair[l] # 0)
  <2>1. AddTo(a, "over") /\ UNCHANGED pair
    BY <1>3 DEF TakePair
  <2>2. /\ add'[a].at = "over" /\ add'[a].src = add[a].src /\ add'[a].token = add[a].token
        /\ add'[a].undone = add[a].undone
        /\ \A b \in Adds : b # a => add'[b] = add[b]
    BY <1>1, <2>1 DEF AddTo, AddRecord
  <2> QED BY <1>2, <2>1, <2>2, AddTurns
<1>4. CASE Exists(l) /\ pair[l] # 0
  <2>1. PICK s \in Sources :
          /\ s \notin rows \cup gone \cup dropped \cup {add[b].src : b \in Adds}
          /\ ~access[s] /\ refresh[s] = 0
          /\ add' = [add EXCEPT ![a].at = "putAccess", ![a].src = s, ![a].token = pair[l]]
    BY <1>4 DEF TakePair
  <2> DEFINE u == pair[l]
  <2>2. pair' = [pair EXCEPT ![l] = 0]
    BY <1>4 DEF TakePair
  <2>3. /\ add'[a].at = "putAccess" /\ add'[a].src = s /\ add'[a].token = u
        /\ add'[a].undone = add[a].undone
        /\ \A b \in Adds : b # a => add'[b] = add[b]
    BY <1>1, <2>1 DEF AddRecord
  <2>4. /\ s \notin rows /\ s \notin gone /\ \A b \in Adds : add[b].src # s
        /\ \A o \in Auths : auth[o].src # s
        /\ ~access[s] /\ refresh[s] = 0
    BY <1>1, <2>1 DEF PairInv, MintInv
  <2>5. /\ u \in Nat /\ u # 0 /\ u \in live
        /\ \A q \in Sources : ~Holds(q, u)
    BY <1>1, <1>4 DEF PairInv, OneHolder, LiveInv
  <2>6. \A t \in Nat : Holds(s, t)' <=> t = u
    BY <1>2, <2>1, <2>3, <2>4, <2>5 DEF Holds
  <2>7. \A q \in Sources, t \in Nat : q # s => (Holds(q, t)' <=> Holds(q, t))
    BY <1>1, <1>2, <2>3, <2>4, <2>5 DEF Holds
  <2>8. /\ pair'[l] = 0 /\ \A k \in Logins : k # l => pair'[k] = pair[k]
        /\ \A k \in Logins : driver[k] = "store" => got[k] # 0
    BY <1>1, <2>2 DEF IInv, LoginInv
  <2> HIDE DEF u
  <2>9. ShapeInv'
    <3>1. \A b \in Adds : AddShape(add[b])
      BY DEF PairInv, ShapeInv
    <3>2. \A b \in Adds : AddShape(add'[b])
      BY <2>3, <3>1 DEF AddShape
    <3> QED BY <1>2, <3>2 DEF PairInv, ShapeInv
  <2>10. OneHolder'
    <3>1. \A q, r \in Sources : \A t \in Nat : Holds(q, t)' /\ Holds(r, t)' => q = r
      BY <2>5, <2>6, <2>7 DEF PairInv, OneHolder
    <3>2. /\ l \in Logins /\ driver[l] # "store"
          /\ \A k \in Logins : k # l => pair[k] # u /\ (driver[k] = "store" => got[k] # u)
      BY <1>1, <2>5 DEF PairInv, OneHolder, IInv, LoginInv, u
    <3>3. \A k \in Logins, q \in Sources :
             ~Holds(q, pair[k])' /\ (driver'[k] = "store" => ~Holds(q, got[k])')
      <4>1. ASSUME NEW k \in Logins, NEW q \in Sources, NEW t \in Nat,
                   t = pair'[k] \/ (t = got[k] /\ driver[k] = "store")
            PROVE  ~Holds(q, t)'
        <5>1. CASE t = 0
          BY <5>1 DEF Holds
        <5>2. CASE t # 0
          <6>1. t # u /\ (t = pair[k] \/ (t = got[k] /\ driver[k] = "store"))
            BY <2>8, <3>2, <4>1, <5>2
          <6>2. ~Holds(q, t)
            BY <6>1 DEF PairInv, OneHolder
          <6> QED BY <2>6, <2>7, <6>1, <6>2
        <5> QED BY <5>1, <5>2
      <4>2. \A k \in Logins : pair'[k] \in Nat /\ got'[k] = got[k] /\ got[k] \in Nat
        BY <1>1, <1>2, <2>2
      <4>3. ASSUME NEW k \in Logins, NEW q \in Sources  PROVE ~Holds(q, pair[k])'
        <5>1. \A t \in Nat : t = pair'[k] => ~Holds(q, t)'
          BY <4>1
        <5> QED BY <4>2, <5>1 DEF Holds
      <4>4. ASSUME NEW k \in Logins, NEW q \in Sources, driver'[k] = "store"
            PROVE  ~Holds(q, got[k])'
        <5>1. \A t \in Nat : t = got[k] => ~Holds(q, t)'
          BY <1>2, <4>1, <4>4
        <5> QED BY <4>2, <5>1 DEF Holds
      <4> QED BY <4>3, <4>4
    <3>4. \A k, j \in Logins : k # j =>
            /\ pair'[k] # 0 => pair'[k] # pair'[j] /\ (driver[j] = "store" => pair'[k] # got[j])
            /\ driver[k] = "store" /\ driver[j] = "store" => got[k] # got[j]
      BY <2>8 DEF PairInv, OneHolder
    <3>5. UNCHANGED <<driver, got>>
      BY <1>2
    <3> QED BY <3>1, <3>3, <3>4, <3>5 DEF OneHolder
  <2>11. LiveInv'
    <3>1. \A k \in Logins : /\ pair'[k] # 0 => pair'[k] \in live
                            /\ driver[k] = "store" => got[k] \in live
      BY <2>8 DEF PairInv, LiveInv
    <3>2. policy # "rotates" => \A q \in Sources, t \in Nat : Holds(q, t)' => t \in live
      BY <2>5, <2>6, <2>7 DEF PairInv, LiveInv
    <3>3. policy = "rotates" =>
            \A q \in Sources : \A t, v \in live : Holds(q, t)' /\ Holds(q, v)' => t = v
      BY <2>6, <2>7 DEF PairInv, LiveInv, ShapeInv
    <3> QED BY <1>2, <3>1, <3>2, <3>3 DEF PairInv, LiveInv
  <2>12. PersistInv'
    BY <1>2 DEF PairInv, PersistInv, Persisting
  <2>13. MintInv'
    BY <1>1, <1>2, <2>3, <2>4 DEF PairInv, MintInv
  <2>14. LedgerInv'
    <3>1. Stage(a)'
      BY <1>2, <2>3, <2>4 DEF Stage
    <3>2. \A b \in Adds : b # a => Stage(b)'
      BY <1>2, <2>3 DEF PairInv, LedgerInv, Stage
    <3>3. \A q \in gone \ touched : Clean(q)'
      BY <1>2 DEF PairInv, LedgerInv, Clean
    <3> QED BY <1>2, <3>1, <3>2, <3>3 DEF LedgerInv
  <2>15. StoreInv'
    <3>1. AddLive(a)'
      BY <1>2, <2>3, <2>5 DEF AddLive
    <3>2. \A b \in Adds : b # a => AddLive(b)'
      BY <1>2, <2>3 DEF PairInv, StoreInv, AddLive
    <3>3. \A q \in rows \ stale : LiveAt(q)'
      <4>1. \A q \in rows : /\ q # s
                            /\ \A b \in Adds : add[b].src = q => add'[b].src = q
                            /\ \A b \in Adds : add'[b].undone = add[b].undone
        BY <1>1, <2>3, <2>4 DEF PairInv, MintInv
      <4> QED BY <1>2, <4>1 DEF PairInv, StoreInv, LiveAt, Persisting
    <3> QED BY <1>2, <3>1, <3>2, <3>3 DEF StoreInv
  <2> QED BY <2>9, <2>10, <2>11, <2>12, <2>13, <2>14, <2>15 DEF PairInv
<1> QED BY <1>3, <1>4

\* A step that is none of an add's: an id's row and keychain rows change only when
\* an OAuthAuth has picked the source up, or they go.
LEMMA LedgerKeeps ==
    ASSUME IInv, PairInv, UNCHANGED <<add, gone>>, touched \subseteq touched', rows' \subseteq rows,
           \A s \in Sources : /\ access'[s] => access[s] \/ \E p \in Auths : auth[p].src = s
                              /\ refresh'[s] = refresh[s] \/ \E p \in Auths : auth[p].src = s,
           \A p \in Auths :
              \/ auth'[p].src \in {None, auth[p].src}
              \/ /\ auth'[p].src \in rows
                 /\ \A a \in Adds : add[a].src = auth'[p].src /\ add[a].at # "over"
                                      => auth'[p].src \in touched'
    PROVE  MintInv' /\ LedgerInv'
<1>1. None \notin Sources
  BY OutlookAssumption
<1>2. MintInv'
  BY <1>1 DEF PairInv, MintInv
<1>3. ASSUME NEW a \in Adds  PROVE Stage(a)'
  <2> DEFINE s == add[a].src
  <2>1. Stage(a) /\ add'[a] = add[a]
    BY DEF PairInv, LedgerInv
  <2>2. add[a].at \in {"putAccess", "putRefresh", "insert", "identities", "undo"} => s \in Sources
    BY DEF IInv, KnowInv, AddKnows
  <2>3. CASE add[a].at \in {"putAccess", "putRefresh", "insert"}
    <3>1. s \in Sources /\ s \notin gone /\ s \notin rows /\ \A p \in Auths : auth[p].src # s
      BY <2>1, <2>2, <2>3 DEF Stage
    <3>2. \A p \in Auths : auth'[p].src # s
      BY <1>1, <3>1
    <3>3. refresh'[s] = refresh[s] /\ (access'[s] => access[s])
      BY <3>1
    <3> QED BY <2>1, <2>3, <3>1, <3>2, <3>3 DEF Stage
  <2>4. CASE add[a].at \in {"identities", "undo"}
    <3>1. s \in Sources /\ s \notin gone /\ \A p \in Auths : auth[p].src = s => s \in touched
      BY <2>1, <2>2, <2>4 DEF Stage
    <3>2. \A p \in Auths : auth'[p].src = s => s \in touched'
      BY <1>1, <2>4, <3>1
    <3>3. s \notin touched' => refresh'[s] = refresh[s] /\ (access'[s] => access[s])
      BY <3>1
    <3> HIDE DEF s
    <3>4. s \in rows' => s \in rows
      OBVIOUS
    <3> QED BY <2>1, <2>4, <3>1, <3>2, <3>3, <3>4 DEF Stage, s
  <2>5. CASE add[a].at \notin {"putAccess", "putRefresh", "insert", "identities", "undo"}
    BY <2>1, <2>5 DEF Stage
  <2> QED BY <2>3, <2>4, <2>5
<1>4. ASSUME NEW s \in gone \ touched'  PROVE Clean(s)'
  <2>1. s \in gone \ touched /\ s \in Sources /\ Clean(s)
    BY <1>4 DEF PairInv, MintInv, LedgerInv
  <2>2. \A p \in Auths : auth'[p].src # s
    BY <1>1, <2>1 DEF Clean
  <2> QED BY <2>1, <2>2 DEF Clean
<1> QED BY <1>2, <1>3, <1>4 DEF LedgerInv

\* A step of an OAuthAuth that leaves the tokens upstream alone.
LEMMA AuthSide ==
    ASSUME IInv, IInv', PairInv, NEW o \in Auths,
           UNCHANGED <<add, policy, live, issued, pair, got, driver, rows, gone>>,
           \A p \in Auths : p # o => auth'[p] = auth[p],
           AuthShape(auth'[o]),
           access' \in [Sources -> BOOLEAN],
           \A s \in Sources : access'[s] => access[s] \/ s = auth[o].src,
           \/ auth'[o].token = 0
           \/ /\ auth'[o].src = auth[o].src
              /\ auth'[o].token \in {auth[o].token, refresh[auth[o].src]},
           Persisting(o)' =>
              /\ auth'[o].src = auth[o].src /\ auth'[o].token = auth[o].token
              /\ auth[o].token \in live
              /\ Persisting(o) \/ policy = "keeps",
           \/ refresh' = refresh
           \/ /\ Persisting(o) /\ ~Persisting(o)'
              /\ refresh' = [refresh EXCEPT ![auth[o].src] = auth[o].token],
           stale \subseteq stale', touched \subseteq touched',
           Persisting(o) /\ ~Persisting(o)' /\ refresh' = refresh
             => auth[o].src \in stale' \/ refresh[auth[o].src] = auth[o].token,
           \/ auth'[o].src \in {None, auth[o].src}
           \/ /\ auth'[o].src \in rows
              /\ \A a \in Adds : add[a].src = auth'[o].src /\ add[a].at # "over"
                                   => auth'[o].src \in touched'
    PROVE  PairInv'
<1> DEFINE s == auth[o].src
<1>1. /\ refresh \in [Sources -> Nat] /\ refresh' \in [Sources -> Nat]
      /\ rows \subseteq Sources
      /\ pair \in [Logins -> Nat] /\ got \in [Logins -> Nat]
      /\ \A p \in Auths : auth[p].src \in Sources \cup {None} /\ auth[p].token \in Nat
      /\ auth'[o].token \in Nat
  BY DEF IInv, TypeInv, AuthRecord
<1>2. None \notin Sources
  BY OutlookAssumption
<1>3. \A p \in Auths : Persisting(p) => auth[p].src \in Sources /\ auth[p].token # 0
  BY DEF PairInv, ShapeInv, AuthShape, PersistInv, LiveInv, Persisting
<1>4. \A q \in Sources : \/ refresh'[q] = refresh[q]
                         \/ q = s /\ refresh'[q] = auth[o].token
  BY <1>1, <1>3
<1>5. ShapeInv'
  BY DEF PairInv, ShapeInv
<1>6. \A q \in Sources, t \in Nat : Holds(q, t)' => Holds(q, t)
  <2>1. \A q \in Sources, t \in Nat : auth'[o].src = q /\ auth'[o].token = t /\ t # 0 => Holds(q, t)
    BY <1>1, <1>2 DEF Holds
  <2> QED BY <1>4, <2>1, AuthHolds
<1>7. OneHolder' /\ LiveInv'
  <2>1. /\ pair' \in [Logins -> Nat] /\ got' \in [Logins -> Nat]
        /\ \A l \in Logins : /\ pair'[l] \in {0, pair[l]}
                             /\ driver'[l] = "store" => driver[l] = "store" /\ got'[l] = got[l]
    BY <1>1
  <2> QED BY <1>6, <2>1, FewerHolders
<1>8. \A p \in Auths : p # o => Persisting(p)' = Persisting(p)
  BY DEF Persisting
<1>9. PersistInv'
  <2>1. ASSUME NEW p \in Auths, Persisting(p)'
        PROVE  auth'[p].token \in live /\ auth'[p].token = auth[p].token /\ auth'[p].src = auth[p].src
    BY <1>8, <2>1 DEF PairInv, PersistInv
  <2>2. ASSUME NEW p \in Auths, Persisting(p)', policy = "rotates"
        PROVE  /\ refresh'[auth'[p].src] # auth'[p].token
               /\ \A k \in Auths : k # p /\ auth'[k].src = auth'[p].src
                                     => auth'[k].token # auth'[p].token
    <3>1. Persisting(p) /\ auth[p].src \in Sources /\ auth[p].token # 0
      BY <1>3, <1>8, <2>2
    <3>2. /\ refresh[auth[p].src] # auth[p].token
          /\ \A k \in Auths : k # p /\ auth[k].src = auth[p].src => auth[k].token # auth[p].token
      BY <2>2, <3>1 DEF PairInv, PersistInv
    <3>3. p = o => refresh' = refresh
      BY <2>2
    <3>4. refresh'[auth[p].src] # auth[p].token
      BY <1>4, <3>1, <3>2, <3>3
    <3>5. ASSUME NEW k \in Auths, k # p, auth'[k].src = auth[p].src
          PROVE  auth'[k].token # auth[p].token
      <4>1. CASE k # o
        BY <3>2, <3>5, <4>1
      <4>2. CASE k = o /\ auth'[o].token = 0
        BY <3>1, <4>2
      <4>3. CASE k = o /\ auth'[o].src = auth[o].src
        BY <3>1, <3>2, <3>5, <4>2, <4>3
      <4> QED BY <4>1, <4>2, <4>3
    <3> QED BY <2>1, <2>2, <3>4, <3>5
  <2> QED BY <2>1, <2>2 DEF PersistInv
<1>10. MintInv' /\ LedgerInv'
  <2>1. \A q \in Sources : /\ access'[q] => access[q] \/ \E p \in Auths : auth[p].src = q
                           /\ refresh'[q] = refresh[q] \/ \E p \in Auths : auth[p].src = q
    BY <1>4
  <2>2. \A p \in Auths :
           \/ auth'[p].src \in {None, auth[p].src}
           \/ /\ auth'[p].src \in rows
              /\ \A a \in Adds : add[a].src = auth'[p].src /\ add[a].at # "over"
                                   => auth'[p].src \in touched'
    OBVIOUS
  <2> QED BY <2>1, <2>2, LedgerKeeps
<1>11. StoreInv'
  <2>1. ASSUME NEW a \in Adds  PROVE AddLive(a)'
    <3>1. AddLive(a) /\ Stage(a)
      BY DEF PairInv, StoreInv, LedgerInv
    <3>2. add[a].at = "insert" => add[a].src \in Sources /\ add[a].src # s
      BY <3>1 DEF Stage, IInv, KnowInv, AddKnows
    <3> QED BY <1>4, <3>1, <3>2 DEF AddLive
  <2>2. ASSUME NEW q \in rows' \ stale'  PROVE LiveAt(q)'
    <3>1. q \in rows \ stale /\ q \in Sources /\ LiveAt(q)
      BY <1>1, <2>2 DEF PairInv, StoreInv
    <3>2. SUFFICES ASSUME \A p \in Auths : auth'[p].src = q => ~Persisting(p)',
                          \A a \in Adds : add[a].src = q => add[a].undone
                   PROVE  refresh'[q] \in live
      BY DEF LiveAt
    <3>3. CASE Persisting(o) /\ q = s
      <4>1. auth[o].token \in live
        BY <3>3 DEF PairInv, PersistInv
      <4>2. ~Persisting(o)'
        BY <3>2, <3>3
      <4>3. refresh'[q] = auth[o].token
        BY <1>1, <2>2, <3>1, <3>3, <4>2
      <4> QED BY <4>1, <4>3
    <3>4. CASE ~(Persisting(o) /\ q = s)
      <4>1. \A p \in Auths : auth[p].src = q => ~Persisting(p)
        BY <1>8, <3>2, <3>4
      <4>2. refresh'[q] = refresh[q]
        BY <1>1, <3>1, <3>4
      <4> QED BY <3>1, <3>2, <4>1, <4>2 DEF LiveAt
    <3> QED BY <3>3, <3>4
  <2> QED BY <2>1, <2>2 DEF StoreInv
<1> QED BY <1>5, <1>7, <1>9, <1>10, <1>11 DEF PairInv

\* A refresh that upstream answers with a new token, whether or not the answer
\* comes back: nobody holds the new one but the OAuthAuth, and the one it sent was
\* its source's alone.
LEMMA NewToken ==
    ASSUME IInv, IInv', PairInv, NEW o \in Auths,
           UNCHANGED <<add, policy, pair, got, driver, rows, gone, refresh, access, touched>>,
           auth[o].at = "sending", auth[o].token \in live,
           issued' = issued + 1, live' = (live \cup {issued + 1}) \ Spent(o),
           \A p \in Auths : p # o => auth'[p] = auth[p],
           auth'[o].src = auth[o].src, AuthShape(auth'[o]), stale \subseteq stale',
           \/ Persisting(o)' /\ auth'[o].token = issued + 1
           \/ ~Persisting(o)' /\ auth'[o].token = auth[o].token /\ auth[o].src \in stale'
    PROVE  PairInv'
<1> DEFINE s == auth[o].src
           old == auth[o].token
           new == issued + 1
<1>1. /\ refresh \in [Sources -> Nat] /\ rows \subseteq Sources
      /\ pair \in [Logins -> Nat] /\ got \in [Logins -> Nat]
      /\ \A p \in Auths : auth[p].src \in Sources \cup {None} /\ auth[p].token \in Nat
      /\ \A a \in Adds : add[a].src \in Sources \cup {None} /\ add[a].token \in Nat
      /\ issued \in Nat /\ live \subseteq Nat
  BY DEF IInv, TypeInv, AuthRecord, AddRecord, PairInv, ShapeInv
<1>2. /\ s \in Sources /\ old # 0 /\ old \in Nat /\ old \in live /\ ~Persisting(o)
  BY <1>1 DEF PairInv, ShapeInv, AuthShape, LiveInv, Persisting
<1>3. /\ \A l \in Logins : pair[l] <= issued /\ got[l] <= issued
      /\ \A q \in Sources : refresh[q] <= issued
      /\ \A a \in Adds : add[a].token <= issued
      /\ \A p \in Auths : auth[p].token <= issued
      /\ \A t \in live : 1 <= t /\ t <= issued
  BY DEF IInv, IssuedInv, PairInv, LiveInv
<1>4. /\ new \in Nat /\ new \in live' /\ (\A n \in Nat : n <= issued => n # new) /\ new # 0
      /\ old # new
  BY <1>1, <1>2, <1>3 DEF Spent
<1>5. /\ policy # "rotates" => live' = live \cup {new}
      /\ policy = "rotates" => live' = (live \cup {new}) \ {old}
  BY DEF Spent
<1>6. Holds(s, old)
  BY <1>2 DEF Holds
<1> HIDE DEF new, old
<1>7. \A q \in Sources, t \in Nat : Holds(q, t) => t # new
  BY <1>1, <1>3, <1>4 DEF Holds
<1>8. ASSUME NEW q \in Sources, NEW t \in Nat, Holds(q, t)'
      PROVE  Holds(q, t) \/ (q = s /\ t = new)
  <2>1. CASE t = refresh[q] \/ \E a \in Adds : add[a].src = q /\ add[a].token = t
    BY <1>8, <2>1 DEF Holds
  <2>2. CASE \E p \in Auths : auth'[p].src = q /\ auth'[p].token = t
    <3>1. PICK p \in Auths : auth'[p].src = q /\ auth'[p].token = t
      BY <2>2
    <3>2. CASE p # o
      BY <1>8, <3>1, <3>2 DEF Holds
    <3>3. CASE p = o
      BY <1>6, <3>1, <3>3 DEF new, old
    <3> QED BY <3>2, <3>3
  <2> QED BY <1>8, <2>1, <2>2 DEF Holds
<1>9. \A p \in Auths : p # o => Persisting(p)' = Persisting(p)
  BY DEF Persisting
\* What is not the source's keeps being live.
<1>10. ASSUME NEW t \in live, t # old  PROVE t \in live'
  BY <1>5, <1>10
<1>11. ShapeInv'
  <2>1. live' \subseteq Nat
    BY <1>1, <1>4, <1>5
  <2> QED BY <2>1 DEF PairInv, ShapeInv
<1>12. OneHolder'
  <2>1. \A q, r \in Sources : \A t \in Nat : Holds(q, t)' /\ Holds(r, t)' => q = r
    BY <1>7, <1>8 DEF PairInv, OneHolder
  <2>2. ASSUME NEW l \in Logins, NEW q \in Sources
        PROVE  ~Holds(q, pair[l])' /\ (driver[l] = "store" => ~Holds(q, got[l])')
    <3>1. ASSUME NEW t \in Nat, ~Holds(q, t), t <= issued  PROVE ~Holds(q, t)'
      BY <1>4, <1>8, <3>1
    <3>2. /\ ~Holds(q, pair[l]) /\ (driver[l] = "store" => ~Holds(q, got[l]))
          /\ pair[l] \in Nat /\ got[l] \in Nat /\ pair[l] <= issued /\ got[l] <= issued
      BY <1>1, <1>3 DEF PairInv, OneHolder
    <3>3. \A t \in Nat : t = pair[l] => ~Holds(q, t)'
      BY <3>1, <3>2
    <3>4. driver[l] = "store" => \A t \in Nat : t = got[l] => ~Holds(q, t)'
      BY <3>1, <3>2
    <3>5. ~Holds(q, pair[l])'
      BY <3>2, <3>3 DEF Holds
    <3>6. driver[l] = "store" => ~Holds(q, got[l])'
      BY <3>2, <3>4 DEF Holds
    <3> QED BY <3>5, <3>6
  <2>3. UNCHANGED <<pair, got, driver>>
    OBVIOUS
  <2> QED BY <2>1, <2>2, <2>3 DEF PairInv, OneHolder
<1>13. LiveInv'
  <2>1. \A t \in live' : 1 <= t /\ t <= issued'
    <3>1. ASSUME NEW t \in live'  PROVE 1 <= t /\ t <= issued'
      <4>1. t \in live \/ t = new
        BY <1>5
      <4> QED BY <1>1, <1>3, <4>1 DEF new
    <3> QED BY <3>1
  <2>2. \A l \in Logins : /\ pair[l] # 0 => pair[l] \in live'
                          /\ driver[l] = "store" => got[l] \in live'
    <3>1. \A l \in Logins : pair[l] # old /\ (driver[l] = "store" => got[l] # old)
      BY <1>2, <1>6 DEF PairInv, OneHolder
    <3> QED BY <1>10, <3>1 DEF PairInv, LiveInv
  <2>3. policy # "rotates" => \A q \in Sources, t \in Nat : Holds(q, t)' => t \in live'
    BY <1>5, <1>8 DEF PairInv, LiveInv
  <2>4. ASSUME policy = "rotates", NEW q \in Sources, NEW t \in live', NEW u \in live',
               Holds(q, t)', Holds(q, u)'
        PROVE  t = u
    <3>1. /\ t \in Nat /\ u \in Nat
          /\ (t \in live /\ t # old) \/ t = new
          /\ (u \in live /\ u # old) \/ u = new
      BY <1>1, <1>4, <1>5, <2>4
    <3>2. /\ Holds(q, t) \/ (q = s /\ t = new)
          /\ Holds(q, u) \/ (q = s /\ u = new)
      BY <1>8, <2>4, <3>1
    <3>3. \A v, w \in live : Holds(q, v) /\ Holds(q, w) => v = w
      BY <2>4 DEF PairInv, LiveInv
    <3> QED BY <1>2, <1>6, <1>7, <3>1, <3>2, <3>3
  <2> QED BY <2>1, <2>2, <2>3, <2>4 DEF LiveInv
<1>14. PersistInv'
  <2>1. ASSUME NEW p \in Auths, Persisting(p)'
        PROVE  /\ auth'[p].token \in live'
               /\ policy = "rotates" =>
                    /\ refresh[auth'[p].src] # auth'[p].token
                    /\ \A k \in Auths : k # p /\ auth'[k].src = auth'[p].src
                                          => auth'[k].token # auth'[p].token
    <3>1. CASE p = o
      <4>1. auth'[o].token = new /\ auth'[o].src = s
        BY <2>1, <3>1 DEF new
      <4>2. refresh[s] # new /\ \A k \in Auths : k # o => auth'[k].token # new
        BY <1>1, <1>2, <1>3, <1>4
      <4> QED BY <1>4, <3>1, <4>1, <4>2
    <3>2. CASE p # o
      <4>1. /\ Persisting(p) /\ auth'[p] = auth[p] /\ auth[p].token \in live
            /\ auth[p].src \in Sources
        BY <1>9, <2>1, <3>2 DEF PairInv, PersistInv, ShapeInv, AuthShape, Persisting
      <4>2. ASSUME policy = "rotates"  PROVE auth[p].token # old
        <5>1. CASE auth[p].src = s
          BY <3>2, <4>1, <4>2, <5>1 DEF PairInv, PersistInv, old
        <5>2. CASE auth[p].src # s
          <6>1. auth[p].token # 0 => Holds(auth[p].src, auth[p].token)
            BY <4>1 DEF Holds
          <6> QED BY <1>1, <1>2, <1>6, <4>1, <5>2, <6>1 DEF PairInv, OneHolder
        <5> QED BY <5>1, <5>2
      <4>3. auth[p].token \in live'
        BY <1>5, <4>1, <4>2
      <4>4. ASSUME policy = "rotates"
            PROVE  /\ refresh[auth[p].src] # auth[p].token
                   /\ \A k \in Auths : k # p /\ auth'[k].src = auth[p].src
                                         => auth'[k].token # auth[p].token
        <5>1. /\ refresh[auth[p].src] # auth[p].token
              /\ \A k \in Auths : k # p /\ auth[k].src = auth[p].src => auth[k].token # auth[p].token
          BY <4>1, <4>4 DEF PairInv, PersistInv
        <5>2. auth[p].token # new /\ auth[p].token # old
          BY <1>1, <1>3, <1>4, <4>2, <4>4
        <5>3. auth'[o].token \in {new, old}
          BY DEF new, old
        <5> QED BY <5>1, <5>2, <5>3
      <4> QED BY <4>1, <4>3, <4>4
    <3> QED BY <3>1, <3>2
  <2> QED BY <2>1 DEF PersistInv
<1>15. MintInv' /\ LedgerInv'
  BY LedgerKeeps
<1>16. StoreInv'
  <2>1. ASSUME NEW q \in Sources, q # s, refresh[q] \in live  PROVE refresh[q] \in live'
    <3>1. refresh[q] # 0 /\ refresh[q] \in Nat
      BY <1>1, <1>3, <2>1
    <3>2. Holds(q, refresh[q])
      BY <3>1 DEF Holds
    <3>3. refresh[q] # old
      BY <1>2, <1>6, <2>1, <3>1, <3>2 DEF PairInv, OneHolder
    <3> QED BY <1>10, <2>1, <3>3
  <2>2. ASSUME NEW a \in Adds  PROVE AddLive(a)'
    <3>1. AddLive(a) /\ Stage(a) /\ add'[a] = add[a]
      BY DEF PairInv, StoreInv, LedgerInv
    <3>2. add[a].at \in {"putAccess", "putRefresh", "insert"}
            => add[a].src \in Sources /\ add[a].src # s
      BY <3>1 DEF Stage, IInv, KnowInv, AddKnows
    <3>3. add[a].at \in {"putAccess", "putRefresh"} => add[a].token \in live'
      <4>1. SUFFICES ASSUME add[a].at \in {"putAccess", "putRefresh"}
                     PROVE  add[a].token # old
        BY <1>10, <3>1 DEF AddLive
      <4>2. add[a].token \in Nat /\ add[a].token # 0
        BY <1>1, <1>3, <3>1, <4>1 DEF AddLive
      <4>3. Holds(add[a].src, add[a].token)
        BY <4>2 DEF Holds
      <4> QED BY <1>2, <1>6, <3>2, <4>1, <4>2, <4>3 DEF PairInv, OneHolder
    <3> QED BY <2>1, <3>1, <3>2, <3>3 DEF AddLive
  <2>3. ASSUME NEW q \in rows' \ stale'  PROVE LiveAt(q)'
    <3>1. q \in rows \ stale /\ q \in Sources /\ LiveAt(q)
      BY <1>1, <2>3 DEF PairInv, StoreInv
    <3>2. SUFFICES ASSUME \A p \in Auths : auth'[p].src = q => ~Persisting(p)',
                          \A a \in Adds : add[a].src = q => add[a].undone
                   PROVE  refresh[q] \in live'
      BY DEF LiveAt
    <3>3. q # s
      BY <2>3, <3>2
    <3>4. \A p \in Auths : auth[p].src = q => ~Persisting(p)
      BY <1>9, <3>2, <3>3
    <3> QED BY <2>1, <3>1, <3>2, <3>3, <3>4 DEF LiveAt
  <2> QED BY <2>2, <2>3 DEF StoreInv
<1> QED BY <1>11, <1>12, <1>13, <1>14, <1>15, <1>16 DEF PairInv

\* An OAuthAuth that only goes to another step: none that writes back, or the
\* second of the two writes.
LEMMA AuthTurns ==
    ASSUME IInv, IInv', PairInv, NEW o \in Auths, NEW at,
           UNCHANGED <<add, policy, live, issued, pair, got, driver, rows, gone, refresh, touched>>,
           auth[o].at # "none", auth[o].at # "reading",
           at \in {"ready", "sending", "persistRefresh"}, AuthTo(o, at),
           at = "persistRefresh" => Persisting(o),
           access' \in [Sources -> BOOLEAN],
           \A s \in Sources : access'[s] => access[s] \/ s = auth[o].src,
           stale \subseteq stale',
           Persisting(o) /\ at # "persistRefresh" => auth[o].src \in stale'
    PROVE  PairInv'
<1>1. auth \in [Auths -> AuthRecord] /\ AuthShape(auth[o])
  BY DEF IInv, TypeInv, PairInv, ShapeInv
<1>2. /\ auth'[o].at = at /\ auth'[o].src = auth[o].src /\ auth'[o].token = auth[o].token
      /\ \A p \in Auths : p # o => auth'[p] = auth[p]
  BY <1>1 DEF AuthTo, AuthRecord
<1>3. AuthShape(auth'[o])
  BY <1>1, <1>2 DEF AuthShape
<1>4. Persisting(o)' => Persisting(o) /\ auth[o].token \in live
  BY <1>2 DEF Persisting, PairInv, PersistInv
<1>5. Persisting(o) /\ ~Persisting(o)' => auth[o].src \in stale'
  BY <1>2 DEF Persisting
<1> QED BY <1>2, <1>3, <1>4, <1>5, AuthSide

LEMMA AuthPairs ==
    ASSUME IInv, IInv', PairInv, NEW o \in Auths, AuthStep(o)
    PROVE  PairInv'
<1> USE DEF idpVars, keychain, ledger, loginVars
<1>1. /\ auth \in [Auths -> AuthRecord] /\ AuthShape(auth[o])
      /\ refresh \in [Sources -> Nat] /\ access \in [Sources -> BOOLEAN] /\ rows \subseteq Sources
  BY DEF IInv, TypeInv, PairInv, ShapeInv
<1>2. AuthShape(NoAuth) /\ NoAuth.token = 0 /\ NoAuth.src = None /\ NoAuth.at = "none"
  BY DEF NoAuth, AuthShape
<1>3. CASE ReadAccess(o)
  <2>1. PICK s \in rows :
          /\ auth' = [auth EXCEPT ![o].at = "reading", ![o].src = s]
          /\ touched' = IF \E a \in Adds : add[a].src = s /\ add[a].at # "over"
                        THEN touched \cup {s} ELSE touched
    BY <1>3 DEF ReadAccess
  <2>2. /\ auth[o].at = "none"
        /\ UNCHANGED <<add, policy, live, issued, pair, got, driver, rows, gone, refresh, access, stale>>
    BY <1>3 DEF ReadAccess
  <2>3. /\ auth'[o].at = "reading" /\ auth'[o].src = s /\ auth'[o].token = 0
        /\ \A p \in Auths : p # o => auth'[p] = auth[p]
    BY <1>1, <2>1, <2>2 DEF AuthShape, AuthRecord
  <2>4. AuthShape(auth'[o]) /\ ~Persisting(o) /\ ~Persisting(o)'
    BY <1>1, <2>2, <2>3 DEF AuthShape, Persisting
  <2>5. /\ touched \subseteq touched'
        /\ \A a \in Adds : add[a].src = auth'[o].src /\ add[a].at # "over"
                             => auth'[o].src \in touched'
    BY <2>1, <2>3
  <2> QED BY <1>1, <2>2, <2>3, <2>4, <2>5, AuthSide
<1>4. CASE ReadRefresh(o) \/ DropAuth(o)
  <2>1. /\ auth[o].at \in {"reading", "ready"}
        /\ UNCHANGED <<add, policy, live, issued, pair, got, driver, rows, gone, refresh, access,
                       stale, touched>>
    BY <1>4 DEF ReadRefresh, DropAuth
  <2>2. CASE auth' = [auth EXCEPT ![o] = NoAuth]
    <3>1. auth'[o] = NoAuth /\ \A p \in Auths : p # o => auth'[p] = auth[p]
      BY <1>1, <2>2
    <3>2. ~Persisting(o) /\ ~Persisting(o)'
      BY <1>2, <2>1, <3>1 DEF Persisting
    <3> QED BY <1>1, <1>2, <2>1, <3>1, <3>2, AuthSide
  <2>3. CASE ReadRefresh(o) /\ refresh[auth[o].src] # 0
    <3>1. auth' = [auth EXCEPT ![o] = [NoAuth EXCEPT !.at = "ready", !.src = auth[o].src,
                                                     !.token = refresh[auth[o].src]]]
      BY <1>1, <2>3 DEF ReadRefresh
    <3>2. /\ auth'[o].at = "ready" /\ auth'[o].src = auth[o].src
          /\ auth'[o].token = refresh[auth[o].src]
          /\ \A p \in Auths : p # o => auth'[p] = auth[p]
      BY <1>1, <3>1 DEF NoAuth
    <3>3. ~Persisting(o) /\ ~Persisting(o)' /\ AuthShape(auth'[o])
      BY <1>1, <2>1, <3>2 DEF Persisting, AuthShape
    <3> QED BY <1>1, <2>1, <3>2, <3>3, AuthSide
  <2> QED BY <1>1, <1>4, <2>2, <2>3 DEF ReadRefresh, DropAuth
<1>5. CASE Serve(o)
  BY <1>1, <1>5, AuthTurns DEF Serve, Persisting
<1>6. CASE Expire(o)
  <2>1. /\ auth[o].at = "ready"
        /\ UNCHANGED <<add, policy, live, issued, pair, got, driver, rows, gone, refresh, access,
                       stale, touched>>
    BY <1>6 DEF Expire
  <2>2. /\ auth'[o].at = "ready" /\ auth'[o].src = auth[o].src /\ auth'[o].token = auth[o].token
        /\ \A p \in Auths : p # o => auth'[p] = auth[p]
    BY <1>1, <1>6, <2>1 DEF Expire, AuthRecord
  <2>3. ~Persisting(o) /\ ~Persisting(o)' /\ AuthShape(auth'[o])
    BY <1>1, <2>1, <2>2 DEF Persisting, AuthShape
  <2> QED BY <1>1, <2>1, <2>2, <2>3, AuthSide
<1>7. CASE PersistAccess(o)
  <2>1. /\ auth[o].at = "persistAccess" /\ Persisting(o) /\ auth[o].src \in Sources
        /\ UNCHANGED <<add, policy, live, issued, pair, got, driver, rows, gone, refresh, touched>>
    BY <1>1, <1>7 DEF PersistAccess, Persisting, AuthShape
  <2>2. CASE access' = [access EXCEPT ![auth[o].src] = TRUE] /\ AuthTo(o, "persistRefresh")
             /\ UNCHANGED stale
    <3>1. /\ access' \in [Sources -> BOOLEAN]
          /\ \A s \in Sources : access'[s] => access[s] \/ s = auth[o].src
      BY <1>1, <2>1, <2>2
    <3> QED BY <2>1, <2>2, <3>1, AuthTurns
  <2>3. CASE Fails(o) /\ stale' = stale \cup {auth[o].src} /\ UNCHANGED access
    BY <1>1, <2>1, <2>3, AuthTurns DEF Fails
  <2> QED BY <1>7, <2>2, <2>3 DEF PersistAccess
<1>8. CASE PersistRefresh(o)
  <2>1. /\ auth[o].at = "persistRefresh" /\ Persisting(o) /\ auth[o].src \in Sources
        /\ UNCHANGED <<add, policy, live, issued, pair, got, driver, rows, gone, access, touched>>
    BY <1>1, <1>8 DEF PersistRefresh, Persisting, AuthShape
  <2>2. CASE refresh' = [refresh EXCEPT ![auth[o].src] = auth[o].token] /\ AuthTo(o, "ready")
             /\ UNCHANGED stale
    <3>1. /\ auth'[o].at = "ready" /\ auth'[o].src = auth[o].src /\ auth'[o].token = auth[o].token
          /\ \A p \in Auths : p # o => auth'[p] = auth[p]
      BY <1>1, <2>2 DEF AuthTo, AuthRecord
    <3>2. ~Persisting(o)' /\ AuthShape(auth'[o])
      BY <1>1, <2>1, <3>1 DEF Persisting, AuthShape
    <3>3. refresh' = refresh => auth[o].token = refresh[auth[o].src]
      BY <1>1, <2>1, <2>2
    <3> QED BY <1>1, <2>1, <2>2, <3>1, <3>2, <3>3, AuthSide
  <2>3. CASE Fails(o) /\ stale' = stale \cup {auth[o].src} /\ UNCHANGED refresh
    BY <1>1, <2>1, <2>3, AuthTurns DEF Fails
  <2> QED BY <1>8, <2>2, <2>3 DEF PersistRefresh
<1>9. CASE Refresh(o)
  <2>1. /\ auth[o].at = "sending" /\ ~Persisting(o)
        /\ UNCHANGED <<add, policy, pair, got, driver, rows, gone, refresh, access, touched>>
    BY <1>9 DEF Refresh, Persisting
  <2>2. CASE /\ auth[o].token \in live /\ Issue(Spent(o)) /\ Grant(o, issued + 1)
             /\ UNCHANGED stale
    <3>1. issued + 1 # 0
      BY DEF IInv, TypeInv
    <3>2. /\ auth'[o].at = "persistAccess" /\ auth'[o].src = auth[o].src
          /\ auth'[o].token = issued + 1
          /\ \A p \in Auths : p # o => auth'[p] = auth[p]
      BY <1>1, <2>2, <3>1 DEF Grant, AuthRecord
    <3>3. Persisting(o)' /\ AuthShape(auth'[o])
      BY <1>1, <2>1, <3>2 DEF Persisting, AuthShape
    <3> QED BY <2>1, <2>2, <3>2, <3>3, NewToken DEF Issue
  <2>3. CASE /\ auth[o].token \in live /\ policy = "keeps" /\ Grant(o, 0)
             /\ UNCHANGED <<idpVars, stale>>
    <3>1. /\ auth'[o].at = "persistAccess" /\ auth'[o].src = auth[o].src
          /\ auth'[o].token = auth[o].token
          /\ \A p \in Auths : p # o => auth'[p] = auth[p]
      BY <1>1, <2>3 DEF Grant, AuthRecord
    <3>2. AuthShape(auth'[o])
      BY <1>1, <2>1, <3>1 DEF AuthShape
    <3> QED BY <1>1, <2>1, <2>3, <3>1, <3>2, AuthSide
  <2>4. CASE Fails(o) /\ UNCHANGED <<idpVars, stale>>
    BY <1>1, <2>1, <2>4, AuthTurns DEF Fails
  <2>5. CASE /\ auth[o].token \in live /\ Fails(o) /\ stale' = stale \cup {auth[o].src}
             /\ Issue(Spent(o))
    <3>1. /\ auth'[o].at = "ready" /\ auth'[o].src = auth[o].src /\ auth'[o].token = auth[o].token
          /\ \A p \in Auths : p # o => auth'[p] = auth[p]
      BY <1>1, <2>5 DEF Fails, AuthTo, AuthRecord
    <3>2. ~Persisting(o)' /\ AuthShape(auth'[o])
      BY <1>1, <2>1, <3>1 DEF Persisting, AuthShape
    <3> QED BY <2>1, <2>5, <3>1, <3>2, NewToken DEF Issue
  <2>6. CASE Fails(o) /\ stale' = stale \cup {auth[o].src} /\ UNCHANGED idpVars
    BY <1>1, <2>1, <2>6, AuthTurns DEF Fails
  <2> QED BY <1>9, <2>2, <2>3, <2>4, <2>5, <2>6 DEF Refresh
<1> QED BY <1>3, <1>4, <1>5, <1>6, <1>7, <1>8, <1>9 DEF AuthStep

\* sources_delete: the row and its key go, and the tokens stay where they are.
LEMMA DeletePairs ==
    ASSUME IInv, IInv', PairInv, NEW s \in Sources, DeleteSource(s) \/ DropKey(s)
    PROVE  PairInv'
<1> USE DEF idpVars, keychain, ledger, loginVars
<1>1. /\ UNCHANGED <<add, auth, policy, live, issued, pair, got, driver, refresh, gone,
                     stale, touched>>
      /\ rows' \subseteq rows
      /\ access' = access \/ access' = [access EXCEPT ![s] = FALSE]
      /\ pair \in [Logins -> Nat] /\ got \in [Logins -> Nat]
  BY DEF DeleteSource, DropKey, IInv, TypeInv
<1>2. /\ access' \in [Sources -> BOOLEAN]
      /\ \A q \in Sources : access'[q] => access[q]
  BY <1>1 DEF PairInv, ShapeInv
<1>3. ShapeInv'
  BY <1>1, <1>2 DEF PairInv, ShapeInv
<1>4. OneHolder' /\ LiveInv'
  <2>1. \A q \in Sources, t \in Nat : Holds(q, t)' => Holds(q, t)
    BY <1>1 DEF Holds
  <2> QED BY <1>1, <2>1, FewerHolders
<1>5. PersistInv' /\ StoreInv'
  BY <1>1 DEF PairInv, PersistInv, StoreInv, Persisting, AddLive, LiveAt
<1>6. MintInv' /\ LedgerInv'
  BY <1>1, <1>2, LedgerKeeps
<1> QED BY <1>3, <1>4, <1>5, <1>6 DEF PairInv

\* The logins: a new token is the session's own, and nobody else's.
LEMMA LoginPairs ==
    ASSUME IInv, IInv', PairInv, NEW l \in Logins, LoginStep(l), UNCHANGED outlookVars
    PROVE  PairInv'
<1> USE DEF idpVars, keychain, ledger, outlookVars
<1>1. /\ pair \in [Logins -> Nat] /\ got \in [Logins -> Nat] /\ issued \in Nat
      /\ pair' \in [Logins -> Nat] /\ got' \in [Logins -> Nat] /\ live \subseteq Nat
      /\ driver \in [Logins -> {"off", "select", "callback", "exchange", "store", "report", "ended"}]
  BY DEF IInv, TypeInv, PairInv, ShapeInv
<1>2. ASSUME live \subseteq live', live' \subseteq Nat, OneHolder', LiveInv'  PROVE PairInv'
  <2>1. ShapeInv'
    BY <1>2 DEF PairInv, ShapeInv
  <2>2. PersistInv'
    BY <1>2 DEF PairInv, PersistInv, Persisting
  <2>3. MintInv' /\ LedgerInv'
    BY LedgerKeeps
  <2>4. StoreInv'
    BY <1>2 DEF PairInv, StoreInv, Persisting, AddLive, LiveAt
  <2> QED BY <1>2, <2>1, <2>2, <2>3, <2>4 DEF PairInv
<1>3. \A s \in Sources, t \in Nat : Holds(s, t)' <=> Holds(s, t)
  BY DEF Holds
<1>4. ASSUME UNCHANGED <<live, issued, got>>,
             \A k \in Logins : /\ pair'[k] \in {0, pair[k]}
                               /\ driver'[k] = "store" => driver[k] = "store"
      PROVE  PairInv'
  <2>1. OneHolder' /\ LiveInv'
    BY <1>1, <1>3, <1>4, FewerHolders
  <2> QED BY <1>1, <1>2, <1>4, <2>1
<1>5. CASE Exchange(l) /\ driver'[l] = "store"
  <2> DEFINE new == issued + 1
  <2>1. /\ issued' = new /\ live' = live \cup {new} /\ got' = [got EXCEPT ![l] = new]
        /\ driver' = [driver EXCEPT ![l] = "store"] /\ driver[l] = "exchange" /\ pair' = pair
    BY <1>1, <1>5 DEF Exchange, Issue, Drive
  <2>2. /\ new \in Nat /\ new # 0 /\ \A n \in Nat : n <= issued => n # new
        /\ \A k \in Logins : pair[k] <= issued /\ got[k] <= issued
        /\ pair[l] = 0
    BY <1>1 , <2>1 DEF IInv, IssuedInv, LoginInv
  <2>3. \A s \in Sources : ~Holds(s, new)
    <3>1. /\ \A s \in Sources : refresh[s] <= issued /\ refresh[s] \in Nat
          /\ \A a \in Adds : add[a].token <= issued /\ add[a].token \in Nat
          /\ \A o \in Auths : auth[o].token <= issued /\ auth[o].token \in Nat
      BY DEF IInv, IssuedInv, TypeInv, AuthRecord, AddRecord
    <3> QED BY <2>2, <3>1 DEF Holds
  <2>4. /\ got'[l] = new /\ \A k \in Logins : k # l => got'[k] = got[k] /\ driver'[k] = driver[k]
    BY <1>1, <2>1
  <2> HIDE DEF new
  <2>5. OneHolder'
    <3>1. \A s, q \in Sources : \A t \in Nat : Holds(s, t)' /\ Holds(q, t)' => s = q
      BY <1>3 DEF PairInv, OneHolder
    <3>2. ASSUME NEW k \in Logins, NEW s \in Sources
          PROVE  ~Holds(s, pair[k])' /\ (driver'[k] = "store" => ~Holds(s, got[k])')
      <4>1. ~Holds(s, pair[k]) /\ (driver'[k] = "store" /\ k # l => ~Holds(s, got[k]))
        BY <2>4 DEF PairInv, OneHolder
      <4>2. driver'[k] = "store" => ~Holds(s, got'[k])
        BY <2>3, <2>4, <4>1
      <4> QED BY <2>1, <4>1, <4>2 DEF Holds
    <3>3. \A k, j \in Logins : k # j =>
            /\ pair'[k] # 0 => pair'[k] # pair'[j] /\ (driver'[j] = "store" => pair'[k] # got'[j])
            /\ driver'[k] = "store" /\ driver'[j] = "store" => got'[k] # got'[j]
      BY <1>1, <2>1, <2>2, <2>4 DEF PairInv, OneHolder
    <3> QED BY <3>1, <3>2, <3>3 DEF OneHolder
  <2>6. LiveInv'
    <3>1. \A t \in live' : 1 <= t /\ t <= issued'
      <4>1. ASSUME NEW t \in live'  PROVE 1 <= t /\ t <= issued'
        <5>1. (t \in live /\ t \in Nat /\ 1 <= t /\ t <= issued) \/ t = new
          BY <1>1, <2>1 DEF PairInv, LiveInv
        <5> QED BY <1>1, <2>1, <5>1 DEF new
      <4> QED BY <4>1
    <3>2. \A k \in Logins : /\ pair'[k] # 0 => pair'[k] \in live'
                            /\ driver'[k] = "store" => got'[k] \in live'
      BY <2>1, <2>4 DEF PairInv, LiveInv
    <3>3. policy # "rotates" => \A s \in Sources, t \in Nat : Holds(s, t)' => t \in live'
      BY <1>3, <2>1 DEF PairInv, LiveInv
    <3>4. policy = "rotates" =>
            \A s \in Sources : \A t, u \in live' : Holds(s, t)' /\ Holds(s, u)' => t = u
      <4>1. ASSUME policy = "rotates", NEW s \in Sources, NEW t \in live', NEW u \in live',
                   Holds(s, t)', Holds(s, u)'
            PROVE  t = u
        <5>1. /\ t \in Nat /\ u \in Nat /\ t \in live \cup {new} /\ u \in live \cup {new}
          BY <1>1, <2>1, <2>2
        <5>2. Holds(s, t) /\ Holds(s, u)
          BY <1>3, <4>1, <5>1
        <5> QED BY <2>3, <4>1, <5>1, <5>2 DEF PairInv, LiveInv
      <4> QED BY <4>1
    <3>5. UNCHANGED policy
      OBVIOUS
    <3> QED BY <3>1, <3>2, <3>3, <3>4, <3>5 DEF LiveInv
  <2> QED BY <1>1, <1>2, <2>1, <2>2, <2>5, <2>6
<1>6. CASE StorePair(l)
  <2>1. /\ pair' = [pair EXCEPT ![l] = IF Exists(l) THEN got[l] ELSE 0]
        /\ driver' = [driver EXCEPT ![l] = "report"] /\ driver[l] = "store"
        /\ UNCHANGED <<live, issued, got>>
    BY <1>6 DEF StorePair, Drive
  <2>2. /\ pair'[l] \in {0, got[l]} /\ driver'[l] = "report"
        /\ \A k \in Logins : k # l => pair'[k] = pair[k] /\ driver'[k] = driver[k]
    BY <1>1, <2>1
  <2>3. OneHolder'
    <3>1. \A s, q \in Sources : \A t \in Nat : Holds(s, t)' /\ Holds(q, t)' => s = q
      BY <1>3 DEF PairInv, OneHolder
    <3>2. ASSUME NEW k \in Logins, NEW s \in Sources
          PROVE  ~Holds(s, pair[k])' /\ (driver'[k] = "store" => ~Holds(s, got[k])')
      <4>1. ~Holds(s, pair[k]) /\ (driver[k] = "store" => ~Holds(s, got[k])) /\ ~Holds(s, 0)
        BY DEF PairInv, OneHolder, Holds
      <4>2. ~Holds(s, pair'[k]) /\ (driver'[k] = "store" => ~Holds(s, got[k]))
        BY <2>1, <2>2, <4>1
      <4> QED BY <2>1, <4>2 DEF Holds
    <3>3. \A k, j \in Logins : k # j =>
            /\ pair'[k] # 0 => pair'[k] # pair'[j] /\ (driver'[j] = "store" => pair'[k] # got[j])
            /\ driver'[k] = "store" /\ driver'[j] = "store" => got[k] # got[j]
      BY <2>1, <2>2 DEF PairInv, OneHolder
    <3> QED BY <2>1, <3>1, <3>2, <3>3 DEF OneHolder
  <2>4. LiveInv'
    <3>1. \A k \in Logins : /\ pair'[k] # 0 => pair'[k] \in live
                            /\ driver'[k] = "store" => got[k] \in live
      BY <2>1, <2>2 DEF PairInv, LiveInv
    <3>2. policy # "rotates" => \A s \in Sources, t \in Nat : Holds(s, t)' => t \in live
      BY <1>3 DEF PairInv, LiveInv
    <3>3. policy = "rotates" =>
            \A s \in Sources : \A t, u \in live : Holds(s, t)' /\ Holds(s, u)' => t = u
      BY <1>1, <1>3 DEF PairInv, LiveInv
    <3> QED BY <2>1, <3>1, <3>2, <3>3 DEF PairInv, LiveInv
  <2> QED BY <1>1, <1>2, <2>1, <2>3, <2>4
<1>7. CASE LoginStep(l) /\ ~StorePair(l) /\ ~(Exchange(l) /\ driver'[l] = "store")
  <2>1. UNCHANGED <<live, issued, got, pair>>
    BY <1>1, <1>7 DEF LoginStep, DriverStep, BeginLogin, CancelLogin, CeilingPasses, Accept,
         ReadCallback, SelectCancel, SelectTimeout, Exchange, Report, Drive, Issue
  <2>2. driver' = driver \/ \E to : to # "store" /\ driver' = [driver EXCEPT ![l] = to]
    <3>1. CASE Exchange(l)
      BY <1>1, <1>7, <3>1 DEF Exchange, Drive
    <3> QED BY <1>7, <3>1 DEF LoginStep, DriverStep, BeginLogin, CancelLogin, CeilingPasses, Accept,
         ReadCallback, SelectCancel, SelectTimeout, Report, Drive
  <2>3. \A k \in Logins : driver'[k] = "store" => driver[k] = "store"
    BY <1>1, <2>2
  <2> QED BY <1>1, <1>4, <2>1, <2>3
<1> QED BY <1>5, <1>6, <1>7

\* The quit: whoever was writing back leaves a row that may lag behind.
LEMMA QuitPairs ==
    ASSUME IInv, IInv', PairInv, Quit
    PROVE  PairInv'
<1> USE DEF idpVars, keychain
<1>1. /\ UNCHANGED <<policy, live, issued, refresh, access, rows, gone, touched>>
      /\ pair' = [l \in Logins |-> 0] /\ got' = [l \in Logins |-> 0]
      /\ driver' = [l \in Logins |-> IF driver[l] = "off" THEN "off" ELSE "ended"]
      /\ auth' = [o \in Auths |-> NoAuth]
      /\ add' = [a \in Adds |-> IF add[a].at = "idle" THEN NoAdd ELSE [add[a] EXCEPT !.at = "over"]]
  BY DEF Quit
<1>2. stale \subseteq stale' /\ \A o \in Auths : Persisting(o) => auth[o].src \in stale'
  BY DEF Quit, Persisting
<1>3. /\ refresh \in [Sources -> Nat] /\ rows \subseteq Sources
      /\ add \in [Adds -> AddRecord] /\ None \notin Sources
  BY OutlookAssumption DEF IInv, TypeInv
<1>4. \A o \in Auths : /\ auth'[o].at = "none" /\ auth'[o].src = None /\ auth'[o].token = 0
                       /\ ~Persisting(o)' /\ AuthShape(auth'[o])
  BY <1>1 DEF NoAuth, Persisting, AuthShape
<1>5. ASSUME NEW a \in Adds
      PROVE  /\ add'[a].at \in {"idle", "over"} /\ add'[a].src = add[a].src
             /\ add'[a].token = add[a].token /\ AddShape(add'[a])
             /\ add'[a].undone => add[a].undone \/ add[a].src = None
             /\ add[a].undone => add'[a].undone
  <2>1. AddShape(add[a]) /\ add[a] \in AddRecord
    BY <1>3 DEF PairInv, ShapeInv
  <2>2. CASE add[a].at = "idle"
    <3>1. /\ add'[a].at = "idle" /\ add'[a].src = None /\ add'[a].token = 0
          /\ add'[a].undone = TRUE
      BY <1>1, <2>2 DEF NoAdd
    <3> QED BY <2>1, <2>2, <3>1 DEF AddShape
  <2>3. CASE add[a].at # "idle"
    <3>1. add'[a] = [add[a] EXCEPT !.at = "over"]
      BY <1>1, <2>3
    <3> QED BY <2>1, <3>1 DEF AddShape, AddRecord
  <2> QED BY <2>2, <2>3
<1>6. ShapeInv'
  BY <1>1, <1>4, <1>5 DEF PairInv, ShapeInv
<1>7. OneHolder' /\ LiveInv'
  <2>1. \A s \in Sources, t \in Nat : Holds(s, t)' => Holds(s, t)
    <3>1. \A o \in Auths, s \in Sources : auth'[o].src # s
      BY <1>3, <1>4
    <3>2. \A a \in Adds : add'[a].src = add[a].src /\ add'[a].token = add[a].token
      BY <1>5
    <3>3. refresh' = refresh
      BY <1>1
    <3> QED BY <3>1, <3>2, <3>3 DEF Holds
  <2>2. /\ pair' \in [Logins -> Nat] /\ got' \in [Logins -> Nat]
        /\ \A l \in Logins : pair'[l] \in {0, pair[l]} /\ driver'[l] # "store"
    BY <1>1
  <2> QED BY <1>1, <2>1, <2>2, FewerHolders
<1>8. PersistInv'
  BY <1>4 DEF PersistInv
<1>9. MintInv'
  <2>1. UNCHANGED <<rows, gone>> /\ \A a \in Adds : add'[a].src = add[a].src
    BY <1>1, <1>5
  <2>2. \A o \in Auths : auth'[o].src = None
    BY <1>4
  <2> QED BY <2>1, <2>2 DEF PairInv, MintInv
<1>10. LedgerInv'
  <2>1. \A a \in Adds : Stage(a)'
    BY <1>5 DEF Stage
  <2>2. \A s \in gone \ touched : s # None /\ Clean(s)
    BY <1>3 DEF PairInv, MintInv, LedgerInv
  <2>3. \A s \in gone \ touched : Clean(s)'
    BY <1>1, <1>4, <2>2 DEF Clean
  <2> QED BY <1>1, <2>1, <2>3 DEF LedgerInv
<1>11. StoreInv'
  <2>1. \A a \in Adds : AddLive(a)'
    BY <1>5 DEF AddLive
  <2>2. ASSUME NEW s \in rows' \ stale'  PROVE LiveAt(s)'
    <3>1. s \in rows \ stale /\ s \in Sources /\ LiveAt(s)
      BY <1>1, <1>2, <1>3, <2>2 DEF PairInv, StoreInv
    <3>2. \A o \in Auths : auth[o].src = s => ~Persisting(o)
      BY <1>2, <2>2
    <3>3. (\A a \in Adds : add'[a].src = s => add'[a].undone)
            => \A a \in Adds : add[a].src = s => add[a].undone
      BY <1>3, <1>5, <3>1
    <3> QED BY <1>1, <3>1, <3>2, <3>3 DEF LiveAt
  <2> QED BY <2>1, <2>2 DEF StoreInv
<1> QED BY <1>6, <1>7, <1>8, <1>9, <1>10, <1>11 DEF PairInv

\* StartAdd and LookupAccount, and the steps above.
LEMMA AddPairs ==
    ASSUME IInv, IInv', PairInv, NEW a \in Adds, AddStep(a)
    PROVE  PairInv'
<1> USE DEF idpVars, keychain, ledger, loginVars
<1>1. add \in [Adds -> AddRecord]
  BY DEF IInv, TypeInv
<1>2. CASE StartAdd(a)
  <2>1. PICK l \in Logins : add' = [add EXCEPT ![a].at = "lookup", ![a].login = l]
    BY <1>2 DEF StartAdd
  <2>2. /\ add'[a].at = "lookup" /\ add'[a].src = add[a].src /\ add'[a].token = add[a].token
        /\ add'[a].undone = add[a].undone
        /\ \A b \in Adds : b # a => add'[b] = add[b]
    BY <1>1, <2>1 DEF AddRecord
  <2> QED BY <1>2, <2>2, AddTurns DEF StartAdd
<1>3. CASE LookupAccount(a)
  <2>1. PICK at \in {"take", "over"} : AddTo(a, at)
    BY <1>3 DEF LookupAccount
  <2>2. /\ add'[a].at = at /\ add'[a].src = add[a].src /\ add'[a].token = add[a].token
        /\ add'[a].undone = add[a].undone
        /\ \A b \in Adds : b # a => add'[b] = add[b]
    BY <1>1, <2>1 DEF AddRecord, AddTo
  <2> QED BY <1>3, <2>2, AddTurns DEF LookupAccount
<1> QED BY <1>2, <1>3, TakePairs, PutAccessPairs, PutRefreshPairs, InsertPairs, BindPairs, UndoPairs
        DEF AddStep

\* In every reachable state each token has its one holder, and each id its stage.
THEOREM PairsInvariance == Spec => []PairInv
<1>1. Init => PairInv
  <2> SUFFICES ASSUME Init PROVE PairInv
    OBVIOUS
  <2>1. \A a \in Adds : add[a] = NoAdd
    BY DEF Init
  <2>2. \A o \in Auths : auth[o] = NoAuth
    BY DEF Init
  <2>3. ShapeInv
    BY <2>1, <2>2 DEF Init, LoginInit, ShapeInv, NoAdd, NoAuth, AddShape, AuthShape
  <2>4. \A s \in Sources, t \in Nat : ~Holds(s, t)
    BY <2>1, <2>2 DEF Init, Holds, NoAdd, NoAuth
  <2>5. OneHolder /\ LiveInv
    BY <2>4 DEF Init, LoginInit, OneHolder, LiveInv
  <2>6. PersistInv
    BY <2>2 DEF PersistInv, Persisting, NoAuth
  <2>7. MintInv /\ LedgerInv /\ StoreInv
    BY <2>1, <2>2 DEF Init, MintInv, LedgerInv, StoreInv, Stage, AddLive, NoAdd, NoAuth
  <2> QED BY <2>3, <2>5, <2>6, <2>7 DEF PairInv
<1>2. IInv /\ IInv' /\ PairInv /\ [Next]_vars => PairInv'
  <2> SUFFICES ASSUME IInv, IInv', PairInv, [Next]_vars PROVE PairInv'
    OBVIOUS
  <2>1. CASE UNCHANGED vars
    BY <2>1 DEF vars, loginVars, idpVars, keychain, ledger, PairInv, ShapeInv, OneHolder, Holds,
         LiveInv, PersistInv, Persisting, MintInv, LedgerInv, Stage, Clean, StoreInv, AddLive, LiveAt
  <2> QED BY <2>1, LoginPairs, AddPairs, DeletePairs, AuthPairs, QuitPairs DEF Next
<1> QED BY <1>1, <1>2, TokensInvariance, PTL DEF Spec

\* PairFollowsSource (ipc/outlook.rs:37-43, auth.rs:649-700): a source that is there
\* has a token upstream honours, however its reports refresh it, and a failed add
\* leaves nothing behind.
THEOREM LivePairs == Spec => []PairFollowsSource
BY PairsInvariance, PairImplies, PTL

=============================================================================
