---------------------------- MODULE SourcesProofs ----------------------------
(***************************************************************************)
(* The source commands, for any number of sources, keys, roots and         *)
(* commands in flight.  The invariant is built in layers, each inductive   *)
(* over those before it:                                                   *)
(*   Base     the types, and where each kind's command may stand;          *)
(*   RootInv  local roots that nothing overlapped are disjoint;            *)
(*   OwnInv   the ids an add minted are its own until it returns;          *)
(*   LoneInv  how far an add is that no other command has overlapped;      *)
(*   Settled  what is said of the sources: their keys are there, failed    *)
(*            adds left nothing, identity and credential name one user.    *)
(* A command that overlapped another promises nothing of its own rows, but *)
(* must not break what was promised of the others: hence OwnInv is stated  *)
(* for every command and LoneInv only for one that ran alone.              *)
(***************************************************************************)
EXTENDS Sources, SequenceTheorems, TLAPS

Ops == {"none", "add", "borrow", "update", "reconnect", "delete"}
Stages == {"idle", "putKey", "insert", "identity", "undo", "stamp", "probe", "config", "pat",
           "verify", "login", "dropKey", "check", "write", "rescan"}

Invocation ==
    [op : Ops, at : Stages, slot : Slots \cup {None}, key : Slots \cup {None},
     account : Accounts \cup {None}, value : Roots \cup {None},
     patched : BOOLEAN, withPat : BOOLEAN, hadRef : BOOLEAN, guarded : BOOLEAN,
     left : Nat, done : Seq(Slots), undo : Seq({"row", "key"} \X Slots),
     alone : BOOLEAN, undone : BOOLEAN]

Shared == family \in {"github", "atlassian"}

Histories ==
    [clean : SUBSET used, gone : SUBSET used, lone : SUBSET used,
     unchecked : SUBSET Slots, drifted : SUBSET used, borrowed : SUBSET used]

\* A borrowed key is no rollback's to drop.
OnlyRows(c) == \A e \in ToSet(cmd[c].undo) : e[1] = "row"

\* Where each kind's commands may stand, and what they carry.
StageInv(c) ==
    \/ cmd[c] = Idle
    \/ /\ cmd[c].slot \in used /\ cmd[c].key \in used \cup {None}
       /\ ToSet(cmd[c].done) \subseteq used
       /\ \/ /\ family = "gitlab" /\ cmd[c].account \in Accounts /\ cmd[c].key = cmd[c].slot
             /\ \/ /\ cmd[c].op = "add" /\ cmd[c].left = 1
                   /\ cmd[c].at \in {"insert", "putKey", "stamp", "identity", "undo"}
                \/ cmd[c].op = "update" /\ cmd[c].at \in {"config", "pat", "putKey", "stamp", "identity"}
          \/ /\ Shared /\ cmd[c].account \in Accounts /\ cmd[c].key # None
             /\ \/ cmd[c].op = "add" /\ cmd[c].at \in {"putKey", "insert", "identity", "undo"}
                \/ /\ cmd[c].op = "borrow" /\ cmd[c].at \in {"probe", "insert", "identity", "undo"}
                   /\ cmd[c].at = "undo" => OnlyRows(c)
                \/ cmd[c].op = "reconnect" /\ cmd[c].at \in {"verify", "login", "putKey"}
          \/ /\ family = "localgit" /\ cmd[c].value \in Roots /\ cmd[c].key = None
             /\ cmd[c].op \in {"add", "update"} /\ cmd[c].at \in {"check", "write", "rescan"}
          \/ cmd[c].op = "delete" /\ cmd[c].at = "dropKey"

AloneInv ==
    \A c, d \in Commands : Running(c) /\ cmd[c].alone /\ c # d => ~Running(d)

\* What a row of each kind carries, and that an id not minted yet names nothing.
RowsInv ==
    /\ \A s \in Slots \ used : keys[s] = None
    /\ \A s \in Slots : ref[s] \in used \cup {None}
    /\ family = "gitlab" => \A s \in Slots : ref[s] \in {s, None}
    /\ family = "gitlab" => \A s \in rows : conf[s] \in Accounts
    /\ family = "localgit" => \A s \in Slots : ref[s] = None
    /\ family = "localgit" => \A s \in rows : conf[s] \in Roots
    /\ Shared => \A s \in rows : ref[s] # None

CmdInv ==
    /\ cmd \in [Commands -> Invocation]
    /\ \A c \in Commands : StageInv(c)
    /\ AloneInv

Base == TypeOK /\ RowsInv /\ CmdInv /\ hist \in Histories

(***************************************************************************)
(* What a step does to the commands in flight                              *)
(***************************************************************************)

\* The command goes on as it was, except that another may have overlapped it.
Kept(d) ==
    /\ cmd'[d].op = cmd[d].op /\ cmd'[d].at = cmd[d].at
    /\ cmd'[d].slot = cmd[d].slot /\ cmd'[d].key = cmd[d].key
    /\ cmd'[d].account = cmd[d].account /\ cmd'[d].value = cmd[d].value
    /\ cmd'[d].guarded = cmd[d].guarded /\ cmd'[d].left = cmd[d].left
    /\ cmd'[d].done = cmd[d].done /\ cmd'[d].undo = cmd[d].undo
    /\ cmd'[d].undone = cmd[d].undone
    /\ cmd'[d].alone => cmd[d].alone
    /\ cmd[d] = Idle => cmd'[d] = Idle

\* All but its place.
Moved(c, at) ==
    /\ cmd'[c].op = cmd[c].op /\ cmd'[c].at = at
    /\ cmd'[c].slot = cmd[c].slot /\ cmd'[c].key = cmd[c].key
    /\ cmd'[c].account = cmd[c].account /\ cmd'[c].value = cmd[c].value
    /\ cmd'[c].guarded = cmd[c].guarded /\ cmd'[c].left = cmd[c].left
    /\ cmd'[c].done = cmd[c].done /\ cmd'[c].undo = cmd[c].undo
    /\ cmd'[c].undone = cmd[c].undone /\ cmd'[c].alone = cmd[c].alone

Rest(c) == \A d \in Commands \ {c} : Kept(d)

Others(c) == \A d \in Commands \ {c} : cmd'[d] = cmd[d]

LEMMA GotoMoves ==
    ASSUME cmd \in [Commands -> Invocation], NEW c \in Commands, NEW at \in Stages, Goto(c, at)
    PROVE  /\ cmd' \in [Commands -> Invocation]
           /\ Moved(c, at) /\ Others(c)
<1>1. cmd' = [cmd EXCEPT ![c] = [cmd[c] EXCEPT !.at = at]]
  BY DEF Goto
<1>2. cmd'[c] = [cmd[c] EXCEPT !.at = at] /\ Others(c)
  BY <1>1 DEF Others
<1>3. cmd[c] \in Invocation
  OBVIOUS
<1>4. cmd'[c] \in Invocation
  BY <1>2, <1>3 DEF Invocation
<1>5. Moved(c, at)
  BY <1>2, <1>3 DEF Moved, Invocation
<1> QED
  BY <1>1, <1>2, <1>3, <1>4, <1>5

LEMMA IdleInvocation ==
    /\ Idle \in Invocation
    /\ ToSet(Idle.done) = {}
BY EmptySeq DEF Idle, Invocation, Ops, Stages, ToSet

Minted(c) ==
    {cmd[c].slot} \cup ToSet(cmd[c].done) \cup
    (IF cmd[c].op = "add" THEN {cmd[c].key} \ {None} ELSE {})

LEMMA FinishMoves ==
    ASSUME Base, UNCHANGED used, NEW c \in Commands, NEW ok \in BOOLEAN,
           cmd[c] # Idle, Finish(c, ok)
    PROVE  /\ cmd' \in [Commands -> Invocation]
           /\ cmd'[c] = Idle /\ Others(c)
           /\ hist'.clean = IF ok /\ Adding(c) /\ cmd[c].alone
                            THEN hist.clean \cup ToSet(cmd[c].done) ELSE hist.clean
           /\ hist'.gone = IF ~ok /\ Adding(c) /\ cmd[c].alone /\ cmd[c].undone
                           THEN hist.gone \cup Minted(c) ELSE hist.gone
           /\ hist'.drifted = IF ok /\ cmd[c].op = "update" /\ cmd[c].alone
                              THEN hist.drifted \ {cmd[c].slot} ELSE hist.drifted
           /\ hist'.lone = hist.lone /\ hist'.unchecked = hist.unchecked
           /\ hist' \in Histories'
<1>1. cmd' = [cmd EXCEPT ![c] = Idle]
  BY DEF Finish
<1>2. /\ cmd' \in [Commands -> Invocation]
      /\ cmd'[c] = Idle /\ Others(c)
  BY <1>1, IdleInvocation DEF Others, Base, CmdInv
<1>3. /\ cmd[c].slot \in used /\ cmd[c].key \in used \cup {None} /\ ToSet(cmd[c].done) \subseteq used
  BY DEF Base, CmdInv, StageInv
<1> DEFINE minted == ToSet(cmd[c].done) \cup
               (IF cmd[c].op = "add" THEN {cmd[c].slot, cmd[c].key} \ {None} ELSE {cmd[c].slot})
<1>4. minted = Minted(c) /\ Minted(c) \subseteq used
  <2>1. None \notin used
    BY SourcesAssumption DEF Base, TypeOK
  <2> QED
    BY <1>3, <2>1 DEF Minted
<1>5. hist' = [hist EXCEPT
                 !.clean = IF ok /\ Adding(c) /\ cmd[c].alone THEN @ \cup ToSet(cmd[c].done) ELSE @,
                 !.gone = IF ~ok /\ Adding(c) /\ cmd[c].alone /\ cmd[c].undone
                          THEN @ \cup minted ELSE @,
                 !.borrowed = IF ok /\ cmd[c].op = "borrow" THEN @ \cup ToSet(cmd[c].done) ELSE @,
                 !.drifted = IF ok /\ cmd[c].op = "update" /\ cmd[c].alone
                             THEN @ \ {cmd[c].slot} ELSE @]
  BY DEF Finish
<1> HIDE DEF minted
<1>6. hist \in Histories
  BY DEF Base
<1>7. /\ hist'.clean = IF ok /\ Adding(c) /\ cmd[c].alone
                       THEN hist.clean \cup ToSet(cmd[c].done) ELSE hist.clean
      /\ hist'.gone = IF ~ok /\ Adding(c) /\ cmd[c].alone /\ cmd[c].undone
                      THEN hist.gone \cup minted ELSE hist.gone
      /\ hist'.drifted = IF ok /\ cmd[c].op = "update" /\ cmd[c].alone
                         THEN hist.drifted \ {cmd[c].slot} ELSE hist.drifted
      /\ hist'.borrowed = IF ok /\ cmd[c].op = "borrow"
                          THEN hist.borrowed \cup ToSet(cmd[c].done) ELSE hist.borrowed
      /\ hist'.lone = hist.lone /\ hist'.unchecked = hist.unchecked
      /\ DOMAIN hist' = DOMAIN hist
  BY <1>5, <1>6 DEF Histories
<1>8. hist' \in Histories
  <2>1. /\ hist'.clean \in SUBSET used /\ hist'.gone \in SUBSET used /\ hist'.drifted \in SUBSET used
        /\ hist'.borrowed \in SUBSET used /\ hist'.lone \in SUBSET used
        /\ hist'.unchecked \in SUBSET Slots
    BY <1>3, <1>4, <1>6, <1>7 DEF Histories
  <2> QED
    BY <1>5, <1>6, <2>1 DEF Histories
<1>9. hist' \in Histories'
  BY <1>8 DEF Histories
<1> QED
  BY <1>2, <1>4, <1>7, <1>9

LEMMA OthersKept ==
    ASSUME NEW c \in Commands, Others(c)
    PROVE  Rest(c)
BY DEF Others, Rest, Kept

LEMMA ConcatToSet ==
    ASSUME NEW S, NEW p \in Seq(S), NEW q \in Seq(S)
    PROVE  p \o q \in Seq(S) /\ ToSet(p \o q) = ToSet(p) \cup ToSet(q)
<1>1. ToSet(p) = Range(p) /\ ToSet(q) = Range(q) /\ ToSet(p \o q) = Range(p \o q)
  BY DEF ToSet, Range
<1>2. Range(p \o q) = Range(p) \cup Range(q)
  BY RangeConcatenation
<1> QED
  BY <1>1, <1>2, ConcatProperties

LEMMA RollbackMoves ==
    ASSUME Base, NEW c \in Commands, NEW own \in BOOLEAN, own => cmd[c].key \in Slots,
           Rollback(c, own)
    PROVE  /\ cmd' \in [Commands -> Invocation]
           /\ Others(c)
           /\ cmd'[c].op = cmd[c].op /\ cmd'[c].at = "undo"
           /\ cmd'[c].slot = cmd[c].slot /\ cmd'[c].key = cmd[c].key
           /\ cmd'[c].account = cmd[c].account /\ cmd'[c].value = cmd[c].value
           /\ cmd'[c].left = cmd[c].left /\ cmd'[c].done = cmd[c].done
           /\ cmd'[c].undone = cmd[c].undone /\ cmd'[c].alone = cmd[c].alone
           /\ \A s \in ToSet(cmd[c].done) : <<"row", s>> \in ToSet(cmd'[c].undo)
           /\ own => <<"key", cmd[c].key>> \in ToSet(cmd'[c].undo)
           /\ ~own => OnlyRows(c)'
<1> DEFINE undoRows == [i \in 1 .. Len(cmd[c].done) |-> <<"row", cmd[c].done[i]>>]
           undoKey == IF own THEN <<<<"key", cmd[c].key>>>> ELSE <<>>
           undo == IF family = "gitlab" THEN undoKey \o undoRows ELSE undoRows \o undoKey
           Steps == {"row", "key"} \X Slots
<1>1. cmd[c] \in Invocation /\ cmd[c].done \in Seq(Slots)
  BY DEF Base, CmdInv, Invocation
<1>2. undoRows \in Seq(Steps) /\ ToSet(undoRows) = {<<"row", s>> : s \in ToSet(cmd[c].done)}
  <2>1. \A i \in 1 .. Len(cmd[c].done) : <<"row", cmd[c].done[i]>> \in Steps
    BY <1>1
  <2>2. Len(cmd[c].done) \in Nat /\ DOMAIN cmd[c].done = 1 .. Len(cmd[c].done)
    BY <1>1
  <2>3. undoRows \in Seq(Steps)
    BY <2>1, <2>2, IsASeq
  <2> QED
    BY <2>2, <2>3 DEF ToSet
<1>3. /\ undoKey \in Seq(Steps) /\ (own => <<"key", cmd[c].key>> \in ToSet(undoKey))
      /\ ~own => ToSet(undoKey) = {}
  <2>1. CASE own
    <3>1. undoKey = <<<<"key", cmd[c].key>>>> /\ <<"key", cmd[c].key>> \in Steps
      BY <2>1
    <3> QED
      BY <3>1 DEF ToSet
  <2>2. CASE ~own
    BY <2>2, EmptySeq DEF ToSet
  <2> QED
    BY <2>1, <2>2
<1> HIDE DEF undoRows, undoKey, Steps
<1>4. /\ undoKey \o undoRows \in Seq(Steps) /\ undoRows \o undoKey \in Seq(Steps)
      /\ ToSet(undoKey \o undoRows) = ToSet(undoRows) \cup ToSet(undoKey)
      /\ ToSet(undoRows \o undoKey) = ToSet(undoRows) \cup ToSet(undoKey)
  BY <1>2, <1>3, ConcatToSet
<1>5. undo \in Seq(Steps) /\ ToSet(undo) = ToSet(undoRows) \cup ToSet(undoKey)
  BY <1>4
<1>6. cmd' = [cmd EXCEPT ![c] = [cmd[c] EXCEPT !.at = "undo", !.undo = undo]]
  BY DEF Rollback, undoRows, undoKey
<1> HIDE DEF undo
<1>7. cmd'[c] = [cmd[c] EXCEPT !.at = "undo", !.undo = undo] /\ Others(c)
  BY <1>6 DEF Others, Base, CmdInv
<1>8. cmd'[c].undo = undo /\ cmd'[c].undo \in Seq({"row", "key"} \X Slots)
  BY <1>1, <1>5, <1>7 DEF Invocation, Steps
<1>9. cmd'[c] \in Invocation
  BY <1>1, <1>7, <1>8 DEF Invocation, Stages
<1>10. cmd' \in [Commands -> Invocation]
  BY <1>6, <1>7, <1>9 DEF Base, CmdInv
<1>11. /\ cmd'[c].op = cmd[c].op /\ cmd'[c].at = "undo"
       /\ cmd'[c].slot = cmd[c].slot /\ cmd'[c].key = cmd[c].key
       /\ cmd'[c].account = cmd[c].account /\ cmd'[c].value = cmd[c].value
       /\ cmd'[c].left = cmd[c].left /\ cmd'[c].done = cmd[c].done
       /\ cmd'[c].undone = cmd[c].undone /\ cmd'[c].alone = cmd[c].alone
  BY <1>1, <1>7 DEF Invocation
<1>12. ~own => OnlyRows(c)'
  BY <1>2, <1>3, <1>5, <1>8 DEF OnlyRows
<1> QED
  BY <1>2, <1>3, <1>5, <1>7, <1>8, <1>10, <1>11, <1>12

LEMMA BeginMoves ==
    ASSUME Base, NEW c \in Commands, NEW rec \in Invocation, Begin(c, rec)
    PROVE  /\ cmd' \in [Commands -> Invocation]
           /\ cmd[c] = Idle /\ Rest(c)
           /\ cmd'[c].op = rec.op /\ cmd'[c].at = rec.at
           /\ cmd'[c].slot = rec.slot /\ cmd'[c].key = rec.key
           /\ cmd'[c].account = rec.account /\ cmd'[c].value = rec.value
           /\ cmd'[c].guarded = rec.guarded /\ cmd'[c].left = rec.left
           /\ cmd'[c].done = rec.done /\ cmd'[c].undo = rec.undo /\ cmd'[c].undone = rec.undone
           /\ cmd'[c].alone => \A d \in Commands : ~Running(d)
           /\ \A d \in Commands \ {c} : Running(d) => ~cmd'[d].alone
<1>1. cmd' = [d \in Commands |->
                 IF d = c THEN [rec EXCEPT !.alone = \A e \in Commands : ~Running(e)]
                 ELSE IF Running(d) THEN [cmd[d] EXCEPT !.alone = FALSE]
                 ELSE Idle]
  BY DEF Begin
<1>2. cmd'[c] = [rec EXCEPT !.alone = \A e \in Commands : ~Running(e)]
  BY <1>1
<1>3. \A d \in Commands : cmd[d] \in Invocation
  BY DEF Base, CmdInv
<1>4. \A d \in Commands : ~Running(d) => cmd[d] = Idle
  BY DEF Base, CmdInv, StageInv, Running
<1>5. /\ cmd'[c] \in Invocation
      /\ cmd'[c].op = rec.op /\ cmd'[c].at = rec.at
      /\ cmd'[c].slot = rec.slot /\ cmd'[c].key = rec.key
      /\ cmd'[c].account = rec.account /\ cmd'[c].value = rec.value
      /\ cmd'[c].guarded = rec.guarded /\ cmd'[c].left = rec.left
      /\ cmd'[c].done = rec.done /\ cmd'[c].undo = rec.undo /\ cmd'[c].undone = rec.undone
      /\ cmd'[c].alone => \A d \in Commands : ~Running(d)
  BY <1>2 DEF Invocation
<1>6. ASSUME NEW d \in Commands \ {c}, Running(d)
      PROVE  cmd'[d] \in Invocation /\ Kept(d) /\ ~cmd'[d].alone
  <2>1. cmd'[d] = [cmd[d] EXCEPT !.alone = FALSE]
    BY <1>1, <1>6
  <2>2. cmd[d] # Idle
    BY <1>6 DEF Running, Idle
  <2> QED
    BY <1>3, <2>1, <2>2 DEF Kept, Invocation
<1>7. ASSUME NEW d \in Commands \ {c}, ~Running(d)
      PROVE  cmd'[d] \in Invocation /\ Kept(d)
  <2>1. cmd'[d] = Idle
    BY <1>1, <1>7
  <2>2. cmd[d] = Idle
    BY <1>4, <1>7
  <2> QED
    BY <2>1, <2>2, IdleInvocation DEF Kept
<1>8. cmd' \in [Commands -> Invocation]
  <2>1. \A d \in Commands : cmd'[d] \in Invocation
    BY <1>5, <1>6, <1>7
  <2> QED
    BY <1>1, <2>1
<1>9. cmd[c] = Idle
  BY <1>4 DEF Begin
<1>10. Rest(c)
  BY <1>6, <1>7 DEF Rest
<1> QED
  BY <1>5, <1>6, <1>8, <1>9, <1>10

\* Of all the commands, one steps; it overlaps none that it had not overlapped,
\* or begins where it overlaps those that run.
LEMMA CmdFrame ==
    ASSUME Base, NEW c \in Commands, Rest(c), cmd' \in [Commands -> Invocation],
           UNCHANGED family, used \subseteq used', StageInv(c)',
           \/ ~Running(c)'
           \/ Running(c) /\ (cmd'[c].alone => cmd[c].alone)
           \/ /\ cmd'[c].alone => \A d \in Commands : ~Running(d)
              /\ \A d \in Commands \ {c} : Running(d) => ~cmd'[d].alone
    PROVE  CmdInv'
<1>1. ASSUME NEW d \in Commands \ {c}
      PROVE  StageInv(d)'
  <2>1. Kept(d) /\ StageInv(d)
    BY DEF Rest, Base, CmdInv
  <2>2. CASE cmd[d] = Idle
    BY <2>1, <2>2 DEF StageInv, Kept
  <2>3. CASE cmd[d] # Idle
    BY <2>1, <2>3 DEF StageInv, Kept, Shared, OnlyRows
  <2> QED
    BY <2>2, <2>3
<1>2. \A d \in Commands \ {c} : (Running(d)' <=> Running(d)) /\ (cmd'[d].alone => cmd[d].alone)
  BY DEF Rest, Kept, Running
<1>3. AloneInv'
  <2>1. AloneInv
    BY DEF Base, CmdInv
  <2> QED
    BY <1>2, <2>1 DEF AloneInv
<1> QED
  BY <1>1, <1>3 DEF CmdInv

(***************************************************************************)
(* Types, stages and what a row carries                                    *)
(***************************************************************************)

LEMMA FaultsTyped ==
    ASSUME Base, Fault \/ NoFault
    PROVE  faults' \in 0 .. MaxFaults
BY SourcesAssumption DEF Base, TypeOK, Fault, NoFault

LEMMA SameTables ==
    ASSUME Base, UNCHANGED <<family, tables>>, used \subseteq used', used' \subseteq Slots,
           faults' \in 0 .. MaxFaults, keys' \in [Slots -> Accounts \cup {None}],
           \A s \in Slots \ used' : keys'[s] = None
    PROVE  TypeOK' /\ RowsInv'
<1>1. TypeOK'
  BY DEF Base, TypeOK, tables
<1>2. RowsInv'
  BY DEF Base, TypeOK, RowsInv, tables, Shared
<1> QED
  BY <1>1, <1>2

LEMMA InsertTables ==
    ASSUME Base, NEW s \in used, NEW key, NEW value, InsertSource(s, key, value),
           UNCHANGED <<family, keys, used>>, faults' \in 0 .. MaxFaults,
           key \in used \cup {None},
           value \in IF family = "localgit" THEN Roots ELSE Accounts,
           family = "gitlab" => key \in {s, None},
           family = "localgit" => key = None,
           Shared => key # None
    PROVE  TypeOK' /\ RowsInv'
<1>1. TypeOK'
  BY DEF Base, TypeOK, InsertSource
<1>2. RowsInv'
  BY DEF Base, TypeOK, RowsInv, InsertSource, Shared
<1> QED
  BY <1>1, <1>2

LEMMA RemoveTables ==
    ASSUME Base, NEW s \in Slots, RemoveSource(s), UNCHANGED <<family, keys, used>>,
           faults' \in 0 .. MaxFaults
    PROVE  TypeOK' /\ RowsInv'
<1>1. TypeOK'
  <2>1. /\ rows' \subseteq used' /\ used' \subseteq Slots /\ family' \in Families
        /\ ref' \in [Slots -> Slots \cup {None}]
        /\ conf' \in [Slots -> Accounts \cup Roots \cup {None}]
        /\ bound' \in [Slots -> SUBSET Accounts]
        /\ \A t \in Slots : t \notin rows' => ref'[t] = None /\ conf'[t] = None /\ bound'[t] = {}
    BY DEF Base, TypeOK, RemoveSource
  <2>2. owner' \in [Repos -> rows' \cup {None}]
    BY DEF Base, TypeOK, RemoveSource
  <2>3. private' \in [Repos -> BOOLEAN]
    BY DEF Base, TypeOK, RemoveSource
  <2> QED
    BY <2>1, <2>2, <2>3 DEF Base, TypeOK
<1>2. RowsInv'
  BY DEF Base, TypeOK, RowsInv, RemoveSource, Shared
<1> QED
  BY <1>1, <1>2

(***************************************************************************)
(* Requests: a command that takes the place of an idle one                 *)
(***************************************************************************)

\* c is now at its first stage; it overlaps those that run.
Asked(c, op, at, s, key) ==
    /\ cmd' \in [Commands -> Invocation] /\ cmd[c] = Idle /\ Rest(c)
    /\ cmd'[c].op = op /\ cmd'[c].at = at /\ cmd'[c].slot = s /\ cmd'[c].key = key
    /\ ToSet(cmd'[c].done) = {}
    /\ cmd'[c].alone => \A d \in Commands : ~Running(d)
    /\ \A d \in Commands \ {c} : Running(d) => ~cmd'[d].alone

LEMMA Known ==
    ASSUME Base
    PROVE  /\ rows \subseteq used /\ used \subseteq Slots /\ None \notin Slots /\ rows \subseteq Slots
           /\ faults \in 0 .. MaxFaults /\ keys \in [Slots -> Accounts \cup {None}]
           /\ \A s \in Slots \ used : keys[s] = None
           /\ hist \in Histories
           /\ \A s \in Slots : ref[s] \in used \cup {None}
BY SourcesAssumption DEF Base, TypeOK, RowsInv

LEMMA AddRequest ==
    ASSUME Base, NEW c \in Commands, NEW s \in Slots \ used, NEW at \in {"insert", "putKey"},
           NEW a \in Accounts, NEW n \in 1 .. 2, StartWith(c, s, at, a, n)
    PROVE  /\ Asked(c, "add", at, s, s) /\ cmd'[c].account = a /\ cmd'[c].left = n
           /\ used' = used \cup {s} /\ UNCHANGED <<family, tables, keys, faults, hist>>
<1> DEFINE rec == [Idle EXCEPT !.op = "add", !.at = at,
                             !.slot = s, !.key = s, !.account = a, !.left = n]
<1>1. Begin(c, rec) /\ used' = used \cup {s} /\ UNCHANGED <<family, tables, keys, faults, hist>>
  BY DEF StartWith
<1>2. n \in Nat /\ at \in Stages /\ s \in Slots /\ "add" \in Ops
  BY DEF Stages, Ops
<1>3. rec \in Invocation
  BY <1>2, IdleInvocation DEF Invocation
<1>4. /\ rec.op = "add" /\ rec.at = at /\ rec.slot = s /\ rec.key = s /\ rec.account = a
      /\ rec.left = n /\ ToSet(rec.done) = {}
  BY IdleInvocation DEF Idle
<1> HIDE DEF rec
<1> QED
  BY <1>1, <1>3, <1>4, BeginMoves DEF Asked

LEMMA BorrowRequest ==
    ASSUME Base, NEW c \in Commands, StartBorrow(c)
    PROVE  \E s \in Slots \ used, r \in rows : \E a \in bound[r] :
             /\ Asked(c, "borrow", "probe", s, ref[r]) /\ cmd'[c].account = a /\ a \in Accounts
             /\ ref[r] \in used /\ Shared
             /\ used' = used \cup {s} /\ UNCHANGED <<family, tables, keys, faults, hist>>
<1>1. PICK s \in Slots \ used, r \in rows : \E a \in bound[r] :
             /\ used' = used \cup {s}
             /\ Begin(c, [Idle EXCEPT
                    !.op = "borrow", !.at = "probe",
                    !.slot = s, !.key = ref[r], !.account = a, !.left = 1])
  BY DEF StartBorrow
<1>2. PICK a \in bound[r] :
             /\ used' = used \cup {s}
             /\ Begin(c, [Idle EXCEPT
                    !.op = "borrow", !.at = "probe",
                    !.slot = s, !.key = ref[r], !.account = a, !.left = 1])
  BY <1>1
<1> DEFINE rec == [Idle EXCEPT
                  !.op = "borrow", !.at = "probe",
                  !.slot = s, !.key = ref[r], !.account = a, !.left = 1]
<1>3. Begin(c, rec) /\ used' = used \cup {s} /\ UNCHANGED <<family, tables, keys, faults, hist>>
  BY <1>2 DEF StartBorrow
<1>4. Shared /\ ref[r] \in used /\ a \in Accounts
  BY Known DEF StartBorrow, Shared, Base, RowsInv, TypeOK
<1>5. "borrow" \in Ops /\ "probe" \in Stages /\ ref[r] \in Slots
  BY <1>4, Known DEF Ops, Stages
<1>6. rec \in Invocation
  BY <1>4, <1>5, IdleInvocation DEF Invocation
<1>7. /\ rec.op = "borrow" /\ rec.at = "probe" /\ rec.slot = s /\ rec.key = ref[r]
      /\ rec.account = a /\ ToSet(rec.done) = {}
  BY IdleInvocation DEF Idle
<1> HIDE DEF rec
<1>8. Asked(c, "borrow", "probe", s, ref[r]) /\ cmd'[c].account = a
  BY <1>3, <1>6, <1>7, BeginMoves DEF Asked
<1> QED
  BY <1>3, <1>4, <1>8

LEMMA UpdateRequest ==
    ASSUME Base, NEW c \in Commands, StartUpdate(c)
    PROVE  \E s \in rows, at \in {"config", "pat"}, a \in Accounts :
             /\ Asked(c, "update", at, s, s) /\ cmd'[c].account = a
             /\ at = "pat" => a = conf[s]
             /\ family = "gitlab" /\ UNCHANGED <<family, tables, keys, used, faults, hist>>
<1>1. PICK s \in rows, patched \in BOOLEAN, withPat \in BOOLEAN, a \in Accounts :
           /\ ~patched => a = conf[s]
           /\ Begin(c, [Idle EXCEPT
                !.op = "update", !.at = IF patched THEN "config" ELSE "pat",
                !.slot = s, !.key = s, !.account = a, !.hadRef = ref[s] # None,
                !.patched = patched, !.withPat = withPat])
  BY DEF StartUpdate
<1> DEFINE at == IF patched THEN "config" ELSE "pat"
           had == ref[s] # None
           rec == [Idle EXCEPT
              !.op = "update", !.at = at, !.slot = s, !.key = s, !.account = a, !.hadRef = had,
              !.patched = patched, !.withPat = withPat]
<1>2. Begin(c, rec) /\ UNCHANGED <<family, tables, keys, used, faults, hist>>
  BY <1>1 DEF StartUpdate
<1>3. /\ at \in {"config", "pat"} /\ at \in Stages /\ "update" \in Ops /\ had \in BOOLEAN
      /\ s \in Slots /\ (at = "pat" => a = conf[s])
  BY <1>1, Known DEF Stages, Ops
<1>4. family = "gitlab"
  BY DEF StartUpdate
<1> HIDE DEF at, had
<1>5. rec \in Invocation
  BY <1>3, IdleInvocation DEF Invocation
<1>6. /\ rec.op = "update" /\ rec.at = at /\ rec.slot = s /\ rec.key = s
      /\ rec.account = a /\ ToSet(rec.done) = {}
  BY IdleInvocation DEF Idle
<1> HIDE DEF rec
<1>7. Asked(c, "update", at, s, s) /\ cmd'[c].account = a
  BY <1>2, <1>5, <1>6, BeginMoves DEF Asked
<1> QED
  BY <1>2, <1>3, <1>4, <1>7

LEMMA ReconnectRequest ==
    ASSUME Base, NEW c \in Commands, Shared, StartReconnect(c)
    PROVE  \E s \in rows, a \in Accounts :
             /\ Asked(c, "reconnect", "verify", s, ref[s]) /\ cmd'[c].account = a
             /\ ref[s] \in used /\ UNCHANGED <<family, tables, keys, used, faults, hist>>
<1>1. PICK s \in rows, a \in Accounts :
             Begin(c, [Idle EXCEPT !.op = "reconnect", !.at = "verify",
                             !.slot = s, !.key = ref[s], !.account = a])
  BY DEF StartReconnect
<1> DEFINE rec == [Idle EXCEPT !.op = "reconnect", !.at = "verify",
                             !.slot = s, !.key = ref[s], !.account = a]
<1>2. Begin(c, rec) /\ UNCHANGED <<family, tables, keys, used, faults, hist>>
  BY <1>1 DEF StartReconnect
<1>3. ref[s] \in used /\ ref[s] \in Slots /\ s \in Slots
  BY Known DEF Shared, Base, RowsInv
<1>4. "reconnect" \in Ops /\ "verify" \in Stages
  BY DEF Ops, Stages
<1>5. rec \in Invocation
  BY <1>3, <1>4, IdleInvocation DEF Invocation
<1>6. /\ rec.op = "reconnect" /\ rec.at = "verify" /\ rec.slot = s /\ rec.key = ref[s]
      /\ rec.account = a /\ ToSet(rec.done) = {}
  BY IdleInvocation DEF Idle
<1> HIDE DEF rec
<1>7. Asked(c, "reconnect", "verify", s, ref[s]) /\ cmd'[c].account = a
  BY <1>2, <1>5, <1>6, BeginMoves DEF Asked
<1> QED
  BY <1>2, <1>3, <1>7

LEMMA DeleteRequest ==
    ASSUME Base, NEW c \in Commands, StartDelete(c)
    PROVE  \E s \in rows :
             /\ Asked(c, "delete", "dropKey", s, Orphaned(s)) /\ RemoveSource(s)
             /\ Orphaned(s) \in used \cup {None}
             /\ hist'.clean = hist.clean \ {s} /\ hist'.lone = hist.lone \ {s}
             /\ hist'.drifted = hist.drifted \ {s} /\ hist'.gone = hist.gone
             /\ hist'.unchecked = hist.unchecked /\ hist' \in Histories
             /\ UNCHANGED <<family, keys, used, faults>>
<1>1. PICK s \in rows :
         /\ RemoveSource(s)
         /\ Begin(c, [Idle EXCEPT !.op = "delete", !.at = "dropKey",
                                  !.slot = s, !.key = Orphaned(s)])
         /\ hist' = [hist EXCEPT !.clean = @ \ {s}, !.lone = @ \ {s},
                                !.drifted = @ \ {s}, !.borrowed = @ \ {s}]
  BY DEF StartDelete
<1> DEFINE rec == [Idle EXCEPT !.op = "delete", !.at = "dropKey",
                                  !.slot = s, !.key = Orphaned(s)]
<1>2. Begin(c, rec) /\ UNCHANGED <<family, keys, used, faults>>
  BY <1>1 DEF StartDelete
<1>3. Orphaned(s) \in used \cup {None} /\ Orphaned(s) \in Slots \cup {None} /\ s \in Slots
  BY Known DEF Orphaned
<1>4. "delete" \in Ops /\ "dropKey" \in Stages
  BY DEF Ops, Stages
<1>5. rec \in Invocation
  BY <1>3, <1>4, IdleInvocation DEF Invocation
<1>6. /\ rec.op = "delete" /\ rec.at = "dropKey" /\ rec.slot = s /\ rec.key = Orphaned(s)
      /\ ToSet(rec.done) = {}
  BY IdleInvocation DEF Idle
<1> HIDE DEF rec
<1>7. Asked(c, "delete", "dropKey", s, Orphaned(s))
  BY <1>2, <1>5, <1>6, BeginMoves DEF Asked
<1>8. /\ hist'.clean = hist.clean \ {s} /\ hist'.lone = hist.lone \ {s}
      /\ hist'.drifted = hist.drifted \ {s} /\ hist'.gone = hist.gone
      /\ hist'.unchecked = hist.unchecked /\ hist' \in Histories
  BY <1>1, Known DEF Histories
<1> QED
  BY <1>1, <1>2, <1>3, <1>7, <1>8

LEMMA CheckRequest ==
    ASSUME Base, NEW c \in Commands, NEW s \in Slots, NEW op \in {"add", "update"}, NEW root \in Roots,
           Begin(c, [Idle EXCEPT !.op = op, !.at = "check", !.slot = s, !.value = root])
    PROVE  Asked(c, op, "check", s, None) /\ cmd'[c].value = root
<1> DEFINE rec == [Idle EXCEPT !.op = op, !.at = "check", !.slot = s, !.value = root]
<1>1. op \in Ops /\ "check" \in Stages
  BY DEF Ops, Stages
<1>2. rec \in Invocation
  BY <1>1, IdleInvocation DEF Invocation
<1>3. /\ rec.op = op /\ rec.at = "check" /\ rec.slot = s /\ rec.value = root /\ rec.key = None
      /\ ToSet(rec.done) = {}
  BY IdleInvocation DEF Idle
<1>4. Begin(c, rec)
  OBVIOUS
<1> HIDE DEF rec
<1> QED
  BY <1>2, <1>3, <1>4, BeginMoves DEF Asked

LEMMA RootRequest ==
    ASSUME Base, NEW c \in Commands, StartAddRoot(c) \/ StartMoveRoot(c)
    PROVE  \E s \in Slots, op \in {"add", "update"}, root \in Roots :
             /\ Asked(c, op, "check", s, None) /\ cmd'[c].value = root
             /\ family = "localgit" /\ used' = used \cup {s}
             /\ UNCHANGED <<family, tables, keys, faults, hist>>
<1>1. PICK s \in Slots, op \in {"add", "update"}, root \in Roots :
              /\ Begin(c, [Idle EXCEPT !.op = op, !.at = "check", !.slot = s, !.value = root])
              /\ used' = used \cup {s} /\ family = "localgit"
              /\ UNCHANGED <<family, tables, keys, faults, hist>>
  <2>1. CASE StartAddRoot(c)
    BY <2>1 DEF StartAddRoot
  <2>2. CASE StartMoveRoot(c)
    <3>1. PICK s \in rows, root \in Roots :
                Begin(c, [Idle EXCEPT !.op = "update", !.at = "check", !.slot = s, !.value = root])
      BY <2>2 DEF StartMoveRoot
    <3>2. s \in Slots /\ used' = used \cup {s}
      BY <2>2, Known DEF StartMoveRoot
    <3> QED
      BY <2>2, <3>1, <3>2 DEF StartMoveRoot
  <2> QED
    BY <2>1, <2>2
<1> QED
  BY <1>1, CheckRequest

LEMMA AskedCmds ==
    ASSUME Base, NEW c \in Commands, NEW op, NEW at, NEW s, NEW key, Asked(c, op, at, s, key),
           UNCHANGED family, used \subseteq used', StageInv(c)'
    PROVE  CmdInv'
BY CmdFrame DEF Asked

LEMMA RequestsKeepBase ==
    ASSUME Base, NEW c \in Commands,
           \/ StartAddGitLab(c) \/ StartAddGitHub(c) \/ StartAddAtlassian(c) \/ StartBorrow(c)
           \/ StartUpdate(c) \/ (StartReconnect(c) /\ Shared) \/ StartDelete(c)
           \/ StartAddRoot(c) \/ StartMoveRoot(c)
    PROVE  Base'
<1>1. /\ rows \subseteq used /\ used \subseteq Slots /\ None \notin Slots
      /\ faults \in 0 .. MaxFaults /\ keys \in [Slots -> Accounts \cup {None}]
      /\ \A s \in Slots \ used : keys[s] = None
      /\ hist \in Histories
  BY Known
\* Only the request, and the ids it mints.
<1>2. ASSUME NEW s \in Slots, used' = used \cup {s} \/ used' = used,
             UNCHANGED <<family, tables, keys, faults, hist>>, CmdInv'
      PROVE  Base'
  <2>1. TypeOK' /\ RowsInv'
    BY <1>1, <1>2, SameTables
  <2>2. hist' \in Histories'
    BY <1>1, <1>2 DEF Histories
  <2> QED
    BY <1>2, <2>1, <2>2 DEF Base
<1>3. ASSUME NEW s \in Slots \ used, NEW at \in {"insert", "putKey"}, NEW a \in Accounts,
             NEW n \in 1 .. 2, StartWith(c, s, at, a, n),
             \/ family = "gitlab" /\ at = "insert" /\ n = 1
             \/ Shared /\ at = "putKey"
      PROVE  Base'
  <2>1. /\ Asked(c, "add", at, s, s) /\ cmd'[c].account = a /\ cmd'[c].left = n
        /\ used' = used \cup {s} /\ UNCHANGED <<family, tables, keys, faults, hist>>
    BY <1>3, AddRequest
  <2>2. StageInv(c)'
    BY <1>1, <1>3, <2>1 DEF Asked, StageInv, Shared
  <2> QED
    BY <1>2, <2>1, <2>2, AskedCmds
<1>4. CASE StartAddGitLab(c)
  BY <1>3, <1>4 DEF StartAddGitLab
<1>5. CASE StartAddGitHub(c)
  BY <1>3, <1>5 DEF StartAddGitHub, Shared
<1>6. CASE StartAddAtlassian(c)
  BY <1>3, <1>6 DEF StartAddAtlassian, Shared
<1>7. CASE StartBorrow(c)
  <2>1. PICK s \in Slots \ used, r \in rows :
             /\ Asked(c, "borrow", "probe", s, ref[r]) /\ cmd'[c].account \in Accounts
             /\ ref[r] \in used /\ Shared
             /\ used' = used \cup {s} /\ UNCHANGED <<family, tables, keys, faults, hist>>
    BY <1>7, BorrowRequest
  <2>2. StageInv(c)'
    BY <1>1, <2>1 DEF Asked, StageInv, Shared
  <2> QED
    BY <1>2, <2>1, <2>2, AskedCmds
<1>8. CASE StartUpdate(c)
  <2>1. PICK s \in rows, at \in {"config", "pat"} :
             /\ Asked(c, "update", at, s, s) /\ cmd'[c].account \in Accounts
             /\ family = "gitlab" /\ UNCHANGED <<family, tables, keys, used, faults, hist>>
    BY <1>8, UpdateRequest
  <2>2. StageInv(c)'
    BY <1>1, <2>1 DEF Asked, StageInv
  <2> QED
    BY <1>1, <1>2, <2>1, <2>2, AskedCmds
<1>9. CASE StartReconnect(c) /\ Shared
  <2>1. PICK s \in rows :
             /\ Asked(c, "reconnect", "verify", s, ref[s]) /\ cmd'[c].account \in Accounts
             /\ ref[s] \in used /\ UNCHANGED <<family, tables, keys, used, faults, hist>>
    BY <1>9, ReconnectRequest
  <2>2. StageInv(c)'
    BY <1>1, <1>9, <2>1 DEF Asked, StageInv, Shared
  <2> QED
    BY <1>1, <1>2, <2>1, <2>2, AskedCmds
<1>10. CASE StartDelete(c)
  <2>1. PICK s \in rows :
             /\ Asked(c, "delete", "dropKey", s, Orphaned(s)) /\ RemoveSource(s)
             /\ Orphaned(s) \in used \cup {None}
             /\ hist' \in Histories /\ UNCHANGED <<family, keys, used, faults>>
    BY <1>10, DeleteRequest
  <2>2. StageInv(c)'
    BY <1>1, <2>1 DEF Asked, StageInv
  <2>3. TypeOK' /\ RowsInv'
    BY <1>1, <2>1, RemoveTables
  <2>4. hist' \in Histories'
    BY <2>1 DEF Histories
  <2> QED
    BY <2>1, <2>2, <2>3, <2>4, AskedCmds DEF Base
<1>11. CASE StartAddRoot(c) \/ StartMoveRoot(c)
  <2>1. PICK s \in Slots, op \in {"add", "update"} :
             /\ Asked(c, op, "check", s, None) /\ cmd'[c].value \in Roots
             /\ family = "localgit" /\ used' = used \cup {s}
             /\ UNCHANGED <<family, tables, keys, faults, hist>>
    BY <1>11, RootRequest
  <2>2. StageInv(c)'
    BY <1>1, <2>1 DEF Asked, StageInv
  <2> QED
    BY <1>2, <2>1, <2>2, AskedCmds
<1> QED
  BY <1>4, <1>5, <1>6, <1>7, <1>8, <1>9, <1>10, <1>11

LEMMA ReplaceMoves ==
    ASSUME Base, NEW c \in Commands, NEW rec \in Invocation, cmd' = [cmd EXCEPT ![c] = rec]
    PROVE  cmd' \in [Commands -> Invocation] /\ cmd'[c] = rec /\ Others(c)
BY DEF Others, Base, CmdInv

\* The command that stepped moves to a stage it may stand at, or is done.
LEMMA StageStep ==
    ASSUME Base, NEW c \in Commands, Others(c), cmd' \in [Commands -> Invocation],
           UNCHANGED family, used \subseteq used', Running(c), cmd'[c].alone => cmd[c].alone,
           StageInv(c)'
    PROVE  CmdInv'
BY OthersKept, CmdFrame

LEMMA GotoStep ==
    ASSUME Base, NEW c \in Commands, NEW at \in Stages, Goto(c, at), UNCHANGED <<family, used>>,
           Running(c), StageInv(c)'
    PROVE  CmdInv'
<1>1. cmd' \in [Commands -> Invocation] /\ Moved(c, at) /\ Others(c)
  BY GotoMoves DEF Base, CmdInv
<1> QED
  BY <1>1, StageStep DEF Moved

LEMMA RollbackStep ==
    ASSUME Base, NEW c \in Commands, NEW own \in BOOLEAN, own => cmd[c].key \in Slots,
           Rollback(c, own), Running(c), Adding(c), family # "localgit", cmd[c].op = "borrow" => ~own,
           UNCHANGED <<family, used>>
    PROVE  CmdInv'
<1>1. /\ StageInv(c) /\ cmd[c] # Idle
  BY DEF Base, CmdInv, Running, Idle
<1>2. StageInv(c)'
  BY <1>1, RollbackMoves DEF StageInv, Shared, Adding
<1> QED
  BY <1>2, RollbackMoves, StageStep

LEMMA IdleStep ==
    ASSUME Base, NEW c \in Commands, cmd' = [cmd EXCEPT ![c] = Idle], UNCHANGED <<family, used>>
    PROVE  CmdInv' /\ cmd'[c] = Idle /\ Others(c)
<1>1. cmd' \in [Commands -> Invocation] /\ cmd'[c] = Idle /\ Others(c)
  BY ReplaceMoves, IdleInvocation
<1>2. StageInv(c)' /\ ~Running(c)'
  BY <1>1 DEF StageInv, Running, Idle
<1> QED
  BY <1>1, <1>2, OthersKept, CmdFrame

LEMMA FinishStep ==
    ASSUME Base, NEW c \in Commands, NEW ok \in BOOLEAN, Finish(c, ok), Running(c),
           UNCHANGED <<family, used>>
    PROVE  CmdInv' /\ hist' \in Histories'
<1>1. cmd[c] # Idle
  BY DEF Running, Idle
<1>2. cmd' = [cmd EXCEPT ![c] = Idle]
  BY DEF Finish
<1> QED
  BY <1>1, <1>2, FinishMoves, IdleStep

\* A step of a command that leaves the rows and the keys alone.
LEMMA QuietBase ==
    ASSUME Base, UNCHANGED <<family, tables, keys, used>>, Fault \/ NoFault, CmdInv',
           hist' = hist \/ hist' \in Histories'
    PROVE  Base'
<1>1. /\ used \subseteq Slots /\ keys \in [Slots -> Accounts \cup {None}]
      /\ \A s \in Slots \ used : keys[s] = None
      /\ hist \in Histories
  BY DEF Base, TypeOK, RowsInv
<1>2. TypeOK' /\ RowsInv'
  BY <1>1, FaultsTyped, SameTables
<1>3. hist' \in Histories'
  BY <1>1 DEF Histories
<1> QED
  BY <1>2, <1>3 DEF Base

LEMMA StepsKeepBase1 ==
    ASSUME Base, NEW c \in Commands,
           ProbeKey(c) \/ PutKey(c) \/ StampRef(c) \/ WriteConfig(c) \/ ValidatePat(c)
    PROVE  Base'
<1> USE SourcesAssumption
<1>1. /\ used \subseteq Slots /\ None \notin Slots /\ rows \subseteq used
      /\ keys \in [Slots -> Accounts \cup {None}]
      /\ \A s \in Slots \ used : keys[s] = None
      /\ hist \in Histories /\ StageInv(c) /\ cmd[c] \in Invocation
  BY DEF Base, TypeOK, RowsInv, CmdInv
<1>2. Running(c) /\ cmd[c] # Idle
  <2>1. Running(c)
    BY DEF Running, ProbeKey, PutKey, StampRef, WriteConfig, ValidatePat, At
  <2> QED
    BY <2>1 DEF Running, Idle
<1>3. CASE ProbeKey(c)
  <2>1. CmdInv' /\ (hist' = hist \/ hist' \in Histories')
    <3>1. CASE keys[cmd[c].key] = None
      BY <1>2, <1>3, <3>1, FinishStep DEF ProbeKey
    <3>2. CASE keys[cmd[c].key] # None
      <4>1. Goto(c, "insert") /\ UNCHANGED <<family, used, hist>> /\ "insert" \in Stages
        BY <1>3, <3>2 DEF ProbeKey, Stages
      <4>2. Moved(c, "insert")
        BY <4>1, GotoMoves DEF Base, CmdInv
      <4>3. StageInv(c)'
        BY <1>1, <1>2, <1>3, <4>1, <4>2 DEF StageInv, Moved, ProbeKey, At, Shared
      <4> QED
        BY <1>2, <4>1, <4>3, GotoStep
    <3> QED
      BY <3>1, <3>2
  <2> QED
    BY <1>3, <2>1, QuietBase DEF ProbeKey, NoFault
<1>4. CASE PutKey(c)
  <2>1. /\ cmd[c].account \in Accounts /\ cmd[c].key \in used /\ cmd[c].op \in {"add", "update", "reconnect"}
        /\ cmd[c].at = "putKey" /\ UNCHANGED <<family, ops, tables, used>>
    BY <1>1, <1>2, <1>4 DEF PutKey, At, StageInv
  <2>2. CASE Fault /\ UNCHANGED keys
                   /\ (IF cmd[c].op = "add" /\ family = "gitlab"
                       THEN Rollback(c, FALSE) /\ UNCHANGED hist
                       ELSE Finish(c, FALSE))
    <3>1. CASE cmd[c].op = "add" /\ family = "gitlab"
      <4>1. CmdInv'
        BY <1>1, <1>2, <2>1, <2>2, <3>1, RollbackStep DEF Adding
      <4> QED
        BY <2>1, <2>2, <3>1, <4>1, QuietBase
    <3>2. CASE ~(cmd[c].op = "add" /\ family = "gitlab")
      <4>1. CmdInv' /\ hist' \in Histories'
        BY <1>2, <2>1, <2>2, <3>2, FinishStep
      <4> QED
        BY <2>1, <2>2, <4>1, QuietBase
    <3> QED
      BY <3>1, <3>2
  <2>3. CASE /\ NoFault
             /\ keys' = [keys EXCEPT ![cmd[c].key] = cmd[c].account]
             /\ IF cmd[c].op = "reconnect"
                THEN /\ cmd' = [cmd EXCEPT ![c] = Idle]
                     /\ hist' = IF cmd[c].guarded THEN hist
                                ELSE [hist EXCEPT !.unchecked = @ \cup {cmd[c].key}]
                ELSE /\ Goto(c, IF family = "gitlab" THEN "stamp" ELSE "insert")
                     /\ UNCHANGED hist
    <3>1. TypeOK' /\ RowsInv'
      <4>1. /\ keys' \in [Slots -> Accounts \cup {None}]
            /\ \A s \in Slots \ used' : keys'[s] = None
        BY <1>1, <2>1, <2>3
      <4>2. faults' \in 0 .. MaxFaults
        BY <2>3, FaultsTyped
      <4> QED
        BY <1>1, <2>1, <4>1, <4>2, SameTables
    <3>2. CASE cmd[c].op = "reconnect"
      <4>3. cmd' = [cmd EXCEPT ![c] = Idle]
        BY <2>3, <3>2
      <4>1. CmdInv'
        BY <2>1, <4>3, IdleStep
      <4>2. hist' \in Histories'
        BY <1>1, <2>1, <2>3, <3>2 DEF Histories
      <4> QED
        BY <3>1, <4>1, <4>2 DEF Base
    <3>3. CASE cmd[c].op # "reconnect"
      <4> DEFINE at == IF family = "gitlab" THEN "stamp" ELSE "insert"
      <4>1. Goto(c, at) /\ at \in Stages /\ UNCHANGED hist
        BY <2>3, <3>3 DEF Stages
      <4>2. Moved(c, at)
        BY <4>1, GotoMoves DEF Base, CmdInv
      <4>3. StageInv(c)'
        BY <1>1, <1>2, <2>1, <3>3, <4>2 DEF StageInv, Moved, Shared
      <4>4. CmdInv'
        BY <1>2, <2>1, <4>1, <4>3, GotoStep
      <4> QED
        BY <1>1, <2>1, <3>1, <4>1, <4>4 DEF Base, Histories
    <3> QED
      BY <3>2, <3>3
  <2> QED
    BY <1>4, <2>2, <2>3 DEF PutKey
<1>5. CASE StampRef(c)
  <2>1. /\ cmd[c].account \in Accounts /\ cmd[c].key \in used /\ cmd[c].op \in {"add", "update"}
        /\ cmd[c].at = "stamp" /\ UNCHANGED <<family, ops, keys, used>>
        /\ family = "gitlab" /\ cmd[c].slot = cmd[c].key
    BY <1>1, <1>2, <1>5 DEF StampRef, At, StageInv
  <2>2. CASE NoFault /\ UpdateSecretRef(cmd[c].slot, cmd[c].key) /\ Goto(c, "identity") /\ UNCHANGED hist
    <3>1. TypeOK' /\ RowsInv'
      <4>1. faults' \in 0 .. MaxFaults
        BY <2>2, FaultsTyped
      <4>2. TypeOK'
        BY <2>1, <2>2, <4>1 DEF UpdateSecretRef, Base, TypeOK
      <4>3. RowsInv'
        BY <1>1, <2>1, <2>2 DEF UpdateSecretRef, Base, TypeOK, RowsInv, Shared
      <4> QED
        BY <4>2, <4>3
    <3>2. Moved(c, "identity") /\ "identity" \in Stages
      BY <2>2, GotoMoves DEF Base, CmdInv, Stages
    <3>3. StageInv(c)'
      BY <1>1, <1>2, <2>1, <3>2 DEF StageInv, Moved
    <3>4. CmdInv'
      BY <1>2, <2>1, <2>2, <3>2, <3>3, GotoStep
    <3> QED
      BY <1>1, <2>1, <2>2, <3>1, <3>4 DEF Base, Histories
  <2>3. CASE Fault /\ UNCHANGED tables
                   /\ (IF cmd[c].op = "add"
                       THEN Rollback(c, TRUE) /\ UNCHANGED hist
                       ELSE Finish(c, FALSE))
    <3>1. CASE cmd[c].op = "add"
      <4>1. CmdInv'
        BY <1>1, <1>2, <2>1, <2>3, <3>1, RollbackStep DEF Adding
      <4> QED
        BY <2>1, <2>3, <3>1, <4>1, QuietBase
    <3>2. CASE cmd[c].op # "add"
      <4>1. CmdInv' /\ hist' \in Histories'
        BY <1>2, <2>1, <2>3, <3>2, FinishStep
      <4> QED
        BY <2>1, <2>3, <4>1, QuietBase
    <3> QED
      BY <3>1, <3>2
  <2> QED
    BY <1>5, <2>2, <2>3 DEF StampRef
<1>6. CASE WriteConfig(c)
  <2>1. /\ cmd[c].account \in Accounts /\ cmd[c].slot \in used /\ cmd[c].op = "update"
        /\ cmd[c].at = "config" /\ UNCHANGED <<family, ops, keys, used>> /\ family = "gitlab"
    BY <1>1, <1>2, <1>6 DEF WriteConfig, At, StageInv
  <2>2. CASE /\ NoFault /\ UpdateConfig(cmd[c].slot, cmd[c].account) /\ Goto(c, "pat")
             /\ hist' = [hist EXCEPT !.drifted = @ \cup {cmd[c].slot}]
    <3>1. TypeOK' /\ RowsInv'
      <4>1. faults' \in 0 .. MaxFaults
        BY <2>2, FaultsTyped
      <4>2. TypeOK'
        BY <2>1, <2>2, <4>1 DEF UpdateConfig, Base, TypeOK
      <4>3. RowsInv'
        BY <1>1, <2>1, <2>2 DEF UpdateConfig, Base, TypeOK, RowsInv, Shared
      <4> QED
        BY <4>2, <4>3
    <3>2. Moved(c, "pat") /\ "pat" \in Stages
      BY <2>2, GotoMoves DEF Base, CmdInv, Stages
    <3>3. StageInv(c)'
      BY <1>1, <1>2, <2>1, <3>2 DEF StageInv, Moved
    <3>4. CmdInv'
      BY <1>2, <2>1, <2>2, <3>2, <3>3, GotoStep
    <3>5. hist' \in Histories'
      BY <1>1, <2>1, <2>2 DEF Histories
    <3> QED
      BY <3>1, <3>4, <3>5 DEF Base
  <2>3. CASE Fault /\ Finish(c, FALSE) /\ UNCHANGED tables
    BY <1>2, <2>1, <2>3, FinishStep, QuietBase
  <2> QED
    BY <1>6, <2>2, <2>3 DEF WriteConfig
<1>7. CASE ValidatePat(c)
  <2>1. /\ cmd[c].op = "update" /\ cmd[c].at = "pat" /\ UNCHANGED <<family, ops, tables, keys, used, faults>>
    BY <1>7 DEF ValidatePat, At
  <2>2. ASSUME NEW at \in {"putKey", "identity"}, Goto(c, at), UNCHANGED hist
        PROVE  Base'
    <3>1. Moved(c, at) /\ at \in Stages
      BY <2>2, GotoMoves DEF Base, CmdInv, Stages
    <3>2. StageInv(c)'
      BY <1>1, <1>2, <2>1, <3>1 DEF StageInv, Moved, Shared
    <3>3. CmdInv'
      BY <1>2, <2>1, <2>2, <3>1, <3>2, GotoStep
    <3> QED
      BY <2>1, <2>2, <3>3, QuietBase DEF NoFault
  <2>3. CASE Finish(c, FALSE)
    BY <1>2, <2>1, <2>3, FinishStep, QuietBase DEF NoFault
  <2> QED
    BY <1>7, <2>2, <2>3 DEF ValidatePat
<1> QED
  BY <1>3, <1>4, <1>5, <1>6, <1>7

LEMMA InsertMoves ==
    ASSUME Base, NEW c \in Commands, cmd[c].slot \in Slots, NEW at \in Stages,
           cmd' = [cmd EXCEPT ![c].at = at, ![c].done = Append(@, cmd[c].slot)]
    PROVE  /\ cmd' \in [Commands -> Invocation] /\ Others(c)
           /\ cmd'[c].op = cmd[c].op /\ cmd'[c].at = at
           /\ cmd'[c].slot = cmd[c].slot /\ cmd'[c].key = cmd[c].key
           /\ cmd'[c].account = cmd[c].account /\ cmd'[c].value = cmd[c].value
           /\ cmd'[c].left = cmd[c].left
           /\ cmd'[c].undone = cmd[c].undone /\ cmd'[c].alone = cmd[c].alone
           /\ ToSet(cmd'[c].done) = ToSet(cmd[c].done) \cup {cmd[c].slot}
<1> DEFINE done == Append(cmd[c].done, cmd[c].slot)
           rec == [cmd[c] EXCEPT !.at = at, !.done = done]
<1>1. cmd[c] \in Invocation /\ cmd[c].done \in Seq(Slots)
  BY DEF Base, CmdInv, Invocation
<1>2. done \in Seq(Slots) /\ ToSet(done) = ToSet(cmd[c].done) \cup {cmd[c].slot}
  <2>1. done = cmd[c].done \o <<cmd[c].slot>>
    BY <1>1, AppendIsConcat
  <2>2. <<cmd[c].slot>> \in Seq(Slots) /\ ToSet(<<cmd[c].slot>>) = {cmd[c].slot}
    BY DEF ToSet
  <2>3. /\ cmd[c].done \o <<cmd[c].slot>> \in Seq(Slots)
        /\ ToSet(cmd[c].done \o <<cmd[c].slot>>) = ToSet(cmd[c].done) \cup ToSet(<<cmd[c].slot>>)
    BY <1>1, <2>2, ConcatToSet
  <2> HIDE DEF done
  <2> QED
    BY <2>1, <2>2, <2>3
<1>3. cmd' = [cmd EXCEPT ![c] = rec]
  OBVIOUS
<1> HIDE DEF done
<1>4. rec \in Invocation
  BY <1>1, <1>2 DEF Invocation
<1>5. cmd' \in [Commands -> Invocation] /\ cmd'[c] = rec /\ Others(c)
  BY <1>3, <1>4, ReplaceMoves
<1>6. /\ rec.op = cmd[c].op /\ rec.at = at /\ rec.slot = cmd[c].slot /\ rec.key = cmd[c].key
      /\ rec.account = cmd[c].account /\ rec.value = cmd[c].value /\ rec.left = cmd[c].left /\ rec.done = done
      /\ rec.undone = cmd[c].undone /\ rec.alone = cmd[c].alone
  BY <1>1 DEF Invocation
<1> QED
  BY <1>2, <1>5, <1>6

LEMMA NextProductMoves ==
    ASSUME Base, NEW c \in Commands, NEW s \in Slots \ used, cmd[c].left > 1,
           cmd' = [cmd EXCEPT ![c].at = "insert", ![c].slot = s, ![c].left = @ - 1]
    PROVE  /\ cmd' \in [Commands -> Invocation] /\ Others(c)
           /\ cmd'[c].op = cmd[c].op /\ cmd'[c].at = "insert"
           /\ cmd'[c].slot = s /\ cmd'[c].key = cmd[c].key
           /\ cmd'[c].account = cmd[c].account /\ cmd'[c].value = cmd[c].value
           /\ cmd'[c].undone = cmd[c].undone /\ cmd'[c].alone = cmd[c].alone
           /\ cmd'[c].done = cmd[c].done
<1> DEFINE left == cmd[c].left - 1
           rec == [cmd[c] EXCEPT !.at = "insert", !.slot = s, !.left = left]
<1>1. cmd[c] \in Invocation /\ cmd[c].left \in Nat
  BY DEF Base, CmdInv, Invocation
<1>2. left \in Nat
  BY <1>1
<1>3. cmd' = [cmd EXCEPT ![c] = rec]
  OBVIOUS
<1> HIDE DEF left
<1>4. rec \in Invocation
  BY <1>1, <1>2 DEF Invocation, Stages
<1>5. cmd' \in [Commands -> Invocation] /\ cmd'[c] = rec /\ Others(c)
  BY <1>3, <1>4, ReplaceMoves
<1>6. /\ rec.op = cmd[c].op /\ rec.at = "insert" /\ rec.slot = s /\ rec.key = cmd[c].key
      /\ rec.account = cmd[c].account /\ rec.value = cmd[c].value /\ rec.done = cmd[c].done
      /\ rec.undone = cmd[c].undone /\ rec.alone = cmd[c].alone
  BY <1>1 DEF Invocation
<1> QED
  BY <1>5, <1>6

\* The next step of a rollback is taken, or fails and is logged.
LEMMA UndoMoves ==
    ASSUME Base, NEW c \in Commands, cmd[c].undo # <<>>, NEW undone \in BOOLEAN,
           cmd' = [cmd EXCEPT ![c] = [cmd[c] EXCEPT !.undo = Tail(cmd[c].undo), !.undone = undone]]
    PROVE  /\ cmd' \in [Commands -> Invocation] /\ Others(c)
           /\ cmd'[c].op = cmd[c].op /\ cmd'[c].at = cmd[c].at
           /\ cmd'[c].slot = cmd[c].slot /\ cmd'[c].key = cmd[c].key
           /\ cmd'[c].account = cmd[c].account /\ cmd'[c].value = cmd[c].value
           /\ cmd'[c].left = cmd[c].left
           /\ cmd'[c].undone = undone /\ cmd'[c].alone = cmd[c].alone
           /\ cmd'[c].done = cmd[c].done
           /\ ToSet(cmd[c].undo) \subseteq {Head(cmd[c].undo)} \cup ToSet(cmd'[c].undo)
           /\ ToSet(cmd'[c].undo) \subseteq ToSet(cmd[c].undo)
           /\ Head(cmd[c].undo) \in ToSet(cmd[c].undo)
           /\ Head(cmd[c].undo) \in {"row", "key"} \X Slots
<1> DEFINE Steps == {"row", "key"} \X Slots
           undo == Tail(cmd[c].undo)
           rec == [cmd[c] EXCEPT !.undo = undo, !.undone = undone]
<1>1. cmd[c] \in Invocation /\ cmd[c].undo \in Seq(Steps)
  BY DEF Base, CmdInv, Invocation
<1> HIDE DEF Steps
<1>2. undo \in Seq(Steps) /\ Head(cmd[c].undo) \in Steps
  BY <1>1
<1>3. /\ ToSet(cmd[c].undo) \subseteq {Head(cmd[c].undo)} \cup ToSet(undo)
      /\ ToSet(undo) \subseteq ToSet(cmd[c].undo)
      /\ Head(cmd[c].undo) \in ToSet(cmd[c].undo)
  <2>1. ASSUME NEW i \in 1 .. Len(cmd[c].undo)
        PROVE  \/ cmd[c].undo[i] = Head(cmd[c].undo)
               \/ i - 1 \in 1 .. Len(undo) /\ cmd[c].undo[i] = undo[i - 1]
    BY <1>1, <2>1
  <2>2. DOMAIN cmd[c].undo = 1 .. Len(cmd[c].undo) /\ DOMAIN undo = 1 .. Len(undo)
    BY <1>1, <1>2
  <2> HIDE DEF undo
  <2>3. ASSUME NEW i \in DOMAIN cmd[c].undo
        PROVE  cmd[c].undo[i] \in {Head(cmd[c].undo)} \cup ToSet(undo)
    BY <2>1, <2>2 DEF ToSet
  <2>4. ASSUME NEW i \in 1 .. Len(undo)
        PROVE  i + 1 \in 1 .. Len(cmd[c].undo) /\ undo[i] = cmd[c].undo[i + 1]
    BY <1>1, <2>4 DEF undo
  <2>5. 1 \in 1 .. Len(cmd[c].undo) /\ Head(cmd[c].undo) = cmd[c].undo[1]
    BY <1>1
  <2> QED
    BY <2>2, <2>3, <2>4, <2>5 DEF ToSet
<1>4. cmd' = [cmd EXCEPT ![c] = rec]
  OBVIOUS
<1> HIDE DEF undo
<1>5. rec \in Invocation
  BY <1>1, <1>2 DEF Invocation, Steps
<1>6. cmd' \in [Commands -> Invocation] /\ cmd'[c] = rec /\ Others(c)
  BY <1>4, <1>5, ReplaceMoves
<1>7. /\ rec.op = cmd[c].op /\ rec.at = cmd[c].at /\ rec.slot = cmd[c].slot /\ rec.key = cmd[c].key
      /\ rec.account = cmd[c].account /\ rec.value = cmd[c].value /\ rec.left = cmd[c].left /\ rec.done = cmd[c].done
      /\ rec.undone = undone /\ rec.alone = cmd[c].alone /\ rec.undo = undo
  BY <1>1 DEF Invocation
<1> QED
  BY <1>2, <1>3, <1>6, <1>7 DEF Steps

LEMMA VerifyMoves ==
    ASSUME Base, NEW c \in Commands, NEW at \in Stages, NEW guarded \in BOOLEAN,
           cmd' = [cmd EXCEPT ![c].at = at, ![c].guarded = guarded]
    PROVE  /\ cmd' \in [Commands -> Invocation] /\ Others(c)
           /\ cmd'[c].op = cmd[c].op /\ cmd'[c].at = at
           /\ cmd'[c].slot = cmd[c].slot /\ cmd'[c].key = cmd[c].key
           /\ cmd'[c].account = cmd[c].account /\ cmd'[c].guarded = guarded
           /\ cmd'[c].alone = cmd[c].alone /\ cmd'[c].done = cmd[c].done
<1> DEFINE rec == [cmd[c] EXCEPT !.at = at, !.guarded = guarded]
<1>1. cmd[c] \in Invocation
  BY DEF Base, CmdInv
<1>2. cmd' = [cmd EXCEPT ![c] = rec]
  OBVIOUS
<1>3. rec \in Invocation
  BY <1>1 DEF Invocation
<1>4. cmd' \in [Commands -> Invocation] /\ cmd'[c] = rec /\ Others(c)
  BY <1>2, <1>3, ReplaceMoves
<1>5. /\ rec.op = cmd[c].op /\ rec.at = at /\ rec.slot = cmd[c].slot /\ rec.key = cmd[c].key
      /\ rec.account = cmd[c].account /\ rec.guarded = guarded
      /\ rec.done = cmd[c].done /\ rec.alone = cmd[c].alone
  BY <1>1 DEF Invocation
<1> QED
  BY <1>4, <1>5

LEMMA WriteRootMoves ==
    ASSUME Base, NEW c \in Commands, cmd[c].slot \in Slots,
           cmd' = [cmd EXCEPT ![c].at = "rescan", ![c].done = <<cmd[c].slot>>]
    PROVE  /\ cmd' \in [Commands -> Invocation] /\ Others(c)
           /\ cmd'[c].op = cmd[c].op /\ cmd'[c].at = "rescan"
           /\ cmd'[c].slot = cmd[c].slot /\ cmd'[c].key = cmd[c].key
           /\ cmd'[c].value = cmd[c].value
           /\ cmd'[c].alone = cmd[c].alone /\ ToSet(cmd'[c].done) = {cmd[c].slot}
<1> DEFINE done == <<cmd[c].slot>>
           rec == [cmd[c] EXCEPT !.at = "rescan", !.done = done]
<1>1. cmd[c] \in Invocation
  BY DEF Base, CmdInv
<1>2. done \in Seq(Slots) /\ ToSet(done) = {cmd[c].slot}
  BY DEF ToSet
<1>3. cmd' = [cmd EXCEPT ![c] = rec]
  OBVIOUS
<1> HIDE DEF done
<1>4. rec \in Invocation
  BY <1>1, <1>2 DEF Invocation, Stages
<1>5. cmd' \in [Commands -> Invocation] /\ cmd'[c] = rec /\ Others(c)
  BY <1>3, <1>4, ReplaceMoves
<1>6. /\ rec.op = cmd[c].op /\ rec.at = "rescan" /\ rec.slot = cmd[c].slot /\ rec.key = cmd[c].key
      /\ rec.value = cmd[c].value /\ rec.done = done /\ rec.alone = cmd[c].alone
  BY <1>1 DEF Invocation
<1> QED
  BY <1>2, <1>5, <1>6

\* An add at its next stage.
LEMMA AddStage ==
    ASSUME NEW c \in Commands, StageInv(c), cmd[c] # Idle, Adding(c), family # "localgit",
           UNCHANGED family, used \subseteq used',
           cmd'[c].op = cmd[c].op, cmd'[c].key = cmd[c].key, cmd'[c].account = cmd[c].account,
           cmd'[c].slot \in used', ToSet(cmd'[c].done) \subseteq used',
           family = "gitlab" => cmd'[c].slot = cmd[c].slot /\ cmd'[c].left = cmd[c].left,
           cmd'[c].at \in IF family = "gitlab" THEN {"putKey", "stamp", "identity", "undo"}
                          ELSE {"insert", "identity", "undo"},
           cmd'[c].at = "undo" /\ OnlyRows(c) => OnlyRows(c)',
           cmd'[c].at = "undo" => cmd[c].at = "undo"
    PROVE  StageInv(c)'
BY DEF StageInv, Adding, Shared

LEMMA StepsKeepBase2 ==
    ASSUME Base, NEW c \in Commands,
           InsertRow(c) \/ BindIdentity(c) \/ UndoStep(c) \/ RebindIdentity(c)
    PROVE  Base'
<1> USE SourcesAssumption
<1>1. /\ used \subseteq Slots /\ None \notin Slots /\ rows \subseteq used
      /\ keys \in [Slots -> Accounts \cup {None}]
      /\ \A s \in Slots \ used : keys[s] = None
      /\ hist \in Histories /\ StageInv(c) /\ cmd[c] \in Invocation
  BY DEF Base, TypeOK, RowsInv, CmdInv
<1>2. Running(c) /\ cmd[c] # Idle
  <2>1. Running(c)
    BY DEF Running, InsertRow, BindIdentity, UndoStep, RebindIdentity, At
  <2> QED
    BY <2>1 DEF Running, Idle
<1>8. /\ cmd[c].slot \in used /\ ToSet(cmd[c].done) \subseteq used
      /\ family = "gitlab" /\ Adding(c) => cmd[c].left = 1
  BY <1>1, <1>2 DEF StageInv, Adding, Shared
<1>3. CASE InsertRow(c)
  <2>1. /\ Adding(c) /\ cmd[c].at = "insert" /\ family # "localgit"
        /\ cmd[c].account \in Accounts /\ cmd[c].key \in used /\ cmd[c].slot \in used
        /\ family = "gitlab" => cmd[c].key = cmd[c].slot
        /\ UNCHANGED <<family, ops, keys, used>>
    BY <1>1, <1>2, <1>3 DEF InsertRow, StageInv, Adding, Shared, Credentialed
  <2>2. CASE /\ NoFault
             /\ InsertSource(cmd[c].slot, IF family = "gitlab" THEN None ELSE cmd[c].key,
                             cmd[c].account)
             /\ cmd' = [cmd EXCEPT ![c].at = IF family = "gitlab" THEN "putKey" ELSE "identity",
                                   ![c].done = Append(@, cmd[c].slot)]
             /\ UNCHANGED hist
    <3> DEFINE key == IF family = "gitlab" THEN None ELSE cmd[c].key
               at == IF family = "gitlab" THEN "putKey" ELSE "identity"
    <3>1. /\ cmd[c].slot \in Slots
          /\ cmd' = [cmd EXCEPT ![c].at = at, ![c].done = Append(@, cmd[c].slot)]
          /\ InsertSource(cmd[c].slot, key, cmd[c].account)
          /\ faults' \in 0 .. MaxFaults
      BY <1>1, <2>1, <2>2, FaultsTyped
    <3>2. /\ at \in Stages /\ at \in {"putKey", "identity"}
          /\ family = "gitlab" => at = "putKey" /\ key = None
          /\ family # "gitlab" => at = "identity" /\ key = cmd[c].key
      BY DEF Stages
    <3> HIDE DEF key, at
    <3>3. TypeOK' /\ RowsInv'
      BY <1>1, <2>1, <3>1, <3>2, InsertTables DEF Shared
    <3>4. CmdInv'
      <4>1. StageInv(c)'
        <5>1. /\ cmd'[c].op = cmd[c].op /\ cmd'[c].at = at
              /\ cmd'[c].slot = cmd[c].slot /\ cmd'[c].key = cmd[c].key
              /\ cmd'[c].account = cmd[c].account /\ cmd'[c].left = cmd[c].left
              /\ ToSet(cmd'[c].done) = ToSet(cmd[c].done) \cup {cmd[c].slot}
          BY <3>1, <3>2, InsertMoves
        <5>2. family = "gitlab" \/ Shared
          BY <1>1, <1>2, <2>1 DEF StageInv, Adding
        <5> QED
          BY <1>1, <1>2, <1>8, <2>1, <3>2, <5>1, <5>2, AddStage
      <4>2. /\ cmd' \in [Commands -> Invocation] /\ Others(c)
            /\ cmd'[c].alone = cmd[c].alone
        BY <3>1, <3>2, InsertMoves
      <4> QED
        BY <1>2, <2>1, <4>1, <4>2, StageStep
    <3> QED
      BY <1>1, <2>1, <2>2, <3>3, <3>4 DEF Base, Histories
  <2>3. CASE Fault /\ family = "gitlab" /\ Finish(c, FALSE) /\ UNCHANGED tables
    BY <1>2, <2>1, <2>3, FinishStep, QuietBase
  <2>4. CASE /\ Fault /\ family # "gitlab" /\ Rollback(c, cmd[c].op = "add") /\ UNCHANGED hist
             /\ UNCHANGED tables
    <3>1. CmdInv'
      BY <1>1, <1>2, <2>1, <2>4, RollbackStep
    <3> QED
      BY <2>1, <2>4, <3>1, QuietBase
  <2> QED
    BY <1>3, <2>2, <2>3, <2>4 DEF InsertRow
<1>4. CASE BindIdentity(c)
  <2>1. /\ Adding(c) /\ cmd[c].at = "identity" /\ family # "localgit"
        /\ cmd[c].account \in Accounts /\ cmd[c].key \in used /\ cmd[c].slot \in used
        /\ family = "gitlab" => cmd[c].key = cmd[c].slot
        /\ UNCHANGED <<family, ops, keys>>
    BY <1>1, <1>2, <1>4 DEF BindIdentity, StageInv, Adding, At, Shared
  <2>2. CASE /\ NoFault /\ cmd[c].slot \in rows
             /\ EnsureIdentity(cmd[c].slot, cmd[c].account)
             /\ IF cmd[c].left > 1 THEN NextProduct(c) ELSE Finish(c, TRUE) /\ UNCHANGED used
    <3>1. faults' \in 0 .. MaxFaults
      BY <2>2, FaultsTyped
    <3>2. used' \subseteq Slots /\ used \subseteq used'
      BY <1>1, <2>2 DEF NextProduct
    <3>3. TypeOK'
      BY <1>1, <2>1, <2>2, <3>1, <3>2 DEF EnsureIdentity, Base, TypeOK
    <3>4. RowsInv'
      BY <1>1, <2>1, <2>2, <3>2 DEF EnsureIdentity, Base, TypeOK, RowsInv, Shared
    <3>5. CASE cmd[c].left > 1
      <4>1. PICK s \in Slots \ used :
              /\ used' = used \cup {s} /\ UNCHANGED hist
              /\ cmd' = [cmd EXCEPT ![c].at = "insert", ![c].slot = s, ![c].left = @ - 1]
        BY <2>2, <3>5 DEF NextProduct
      <4>2. StageInv(c)'
        <5>1. /\ cmd'[c].op = cmd[c].op /\ cmd'[c].at = "insert"
              /\ cmd'[c].slot = s /\ cmd'[c].key = cmd[c].key
              /\ cmd'[c].account = cmd[c].account /\ cmd'[c].done = cmd[c].done
          BY <3>5, <4>1, NextProductMoves
        <5>2. family # "gitlab"
          BY <1>8, <2>1, <3>5
        <5>3. used \subseteq used' /\ cmd'[c].slot \in used'
          BY <4>1, <5>1
        <5>4. UNCHANGED family /\ StageInv(c)
          BY <1>1, <2>1
        <5>5. ToSet(cmd'[c].done) = ToSet(cmd[c].done)
          BY <5>1
        <5>6. ToSet(cmd'[c].done) \subseteq used'
          BY <1>8, <5>3, <5>5
        <5> QED
          BY <1>2, <2>1, <5>1, <5>2, <5>3, <5>4, <5>6, AddStage
      <4>3. CmdInv'
        <5>1. cmd' \in [Commands -> Invocation] /\ Others(c) /\ cmd'[c].alone = cmd[c].alone
          BY <3>5, <4>1, NextProductMoves
        <5> QED
          BY <1>2, <2>1, <3>2, <4>2, <5>1, StageStep
      <4>4. hist' \in Histories'
        BY <1>1, <4>1 DEF Histories
      <4> QED
        BY <3>3, <3>4, <4>3, <4>4 DEF Base
    <3>6. CASE ~(cmd[c].left > 1)
      <4>1. CmdInv' /\ hist' \in Histories'
        BY <1>2, <2>1, <2>2, <3>6, FinishStep
      <4> QED
        BY <3>3, <3>4, <4>1 DEF Base
    <3> QED
      BY <3>5, <3>6
  <2>3. CASE /\ IF cmd[c].slot \in rows THEN Fault ELSE NoFault
             /\ Rollback(c, IF family = "gitlab" THEN ref[cmd[c].slot] # None
                            ELSE cmd[c].op = "add")
             /\ UNCHANGED <<tables, used, hist>>
    <3> DEFINE own == IF family = "gitlab" THEN ref[cmd[c].slot] # None ELSE cmd[c].op = "add"
    <3>1. own \in BOOLEAN /\ Rollback(c, own) /\ cmd[c].key \in Slots
          /\ (cmd[c].op = "borrow" => ~own)
      BY <1>1, <1>2, <2>1, <2>3 DEF StageInv, Shared
    <3> HIDE DEF own
    <3>2. CmdInv'
      BY <1>2, <2>1, <2>3, <3>1, RollbackStep
    <3> QED
      BY <2>1, <2>3, <3>2, QuietBase
  <2> QED
    BY <1>4, <2>2, <2>3 DEF BindIdentity
<1>5. CASE UndoStep(c)
  <2>1. Adding(c) /\ cmd[c].at = "undo" /\ UNCHANGED <<family, ops, used>>
    BY <1>5 DEF UndoStep
  <2>2. CASE cmd[c].undo = <<>>
    BY <1>2, <1>5, <2>1, <2>2, FinishStep, QuietBase DEF UndoStep, NoFault
  <2>3. CASE cmd[c].undo # <<>>
    <3>1. ASSUME NEW undone \in BOOLEAN,
                 cmd' = [cmd EXCEPT ![c] = [cmd[c] EXCEPT !.undo = Tail(cmd[c].undo), !.undone = undone]]
          PROVE  CmdInv'
      <4>1. StageInv(c)'
        <5>1. /\ cmd'[c].op = cmd[c].op /\ cmd'[c].at = cmd[c].at
              /\ cmd'[c].slot = cmd[c].slot /\ cmd'[c].key = cmd[c].key
              /\ cmd'[c].account = cmd[c].account /\ cmd'[c].done = cmd[c].done
              /\ cmd'[c].left = cmd[c].left /\ (OnlyRows(c) => OnlyRows(c)')
          BY <2>3, <3>1, UndoMoves DEF OnlyRows
        <5>2. family # "localgit"
          BY <1>1, <1>2, <2>1 DEF StageInv, Adding, Shared
        <5> QED
          BY <1>1, <1>2, <1>8, <2>1, <5>1, <5>2, AddStage
      <4>2. /\ cmd' \in [Commands -> Invocation] /\ Others(c) /\ cmd'[c].alone = cmd[c].alone
        BY <2>3, <3>1, UndoMoves
      <4> QED
        BY <1>2, <2>1, <4>1, <4>2, StageStep
    <3>2. CASE /\ Fault /\ UNCHANGED <<tables, keys>>
               /\ cmd' = [cmd EXCEPT ![c].undo = Tail(@), ![c].undone = FALSE]
      <4>1. cmd' = [cmd EXCEPT ![c] = [cmd[c] EXCEPT !.undo = Tail(cmd[c].undo), !.undone = FALSE]]
        BY <3>2
      <4>2. CmdInv'
        BY <3>1, <4>1
      <4> QED
        BY <1>5, <2>1, <2>3, <3>2, <4>2, QuietBase DEF UndoStep
    <3>3. CASE /\ NoFault
               /\ IF Head(cmd[c].undo)[1] = "row"
                  THEN RemoveSource(Head(cmd[c].undo)[2]) /\ UNCHANGED keys
                  ELSE keys' = [keys EXCEPT ![cmd[c].key] = None] /\ UNCHANGED tables
               /\ cmd' = [cmd EXCEPT ![c].undo = Tail(@)]
      <4>1. cmd[c].undone \in BOOLEAN
        BY <1>1 DEF Invocation
      <4>2. cmd' = [cmd EXCEPT ![c] = [cmd[c] EXCEPT !.undo = Tail(cmd[c].undo), !.undone = cmd[c].undone]]
        <5>1. [cmd[c] EXCEPT !.undo = Tail(cmd[c].undo)]
                = [cmd[c] EXCEPT !.undo = Tail(cmd[c].undo), !.undone = cmd[c].undone]
          BY <1>1 DEF Invocation
        <5> QED
          BY <3>3, <5>1
      <4>3. CmdInv' /\ Head(cmd[c].undo) \in {"row", "key"} \X Slots
        BY <2>3, <3>1, <4>1, <4>2, UndoMoves
      <4>4. faults' \in 0 .. MaxFaults
        BY <3>3, FaultsTyped
      <4>5. TypeOK' /\ RowsInv'
        <5>1. CASE Head(cmd[c].undo)[1] = "row"
          BY <2>1, <3>3, <4>3, <4>4, <5>1, RemoveTables
        <5>2. CASE Head(cmd[c].undo)[1] # "row"
          BY <1>1, <2>1, <3>3, <4>4, <5>2, SameTables
        <5> QED
          BY <5>1, <5>2
      <4>6. UNCHANGED hist
        BY <1>5, <2>3 DEF UndoStep
      <4> QED
        BY <1>1, <2>1, <4>3, <4>5, <4>6 DEF Base, Histories
    <3> QED
      BY <1>5, <2>3, <3>2, <3>3 DEF UndoStep
  <2> QED
    BY <2>2, <2>3
<1>6. CASE RebindIdentity(c)
  <2>1. /\ cmd[c].account \in Accounts /\ cmd[c].op = "update" /\ family = "gitlab"
        /\ cmd[c].at = "identity" /\ UNCHANGED <<family, ops, keys, used>>
    BY <1>1, <1>2, <1>6 DEF RebindIdentity, At, StageInv
  <2>2. CASE /\ cmd[c].slot \in rows /\ NoFault
             /\ EnsureGitlabSelfIdentity(cmd[c].slot, cmd[c].account)
             /\ Finish(c, TRUE)
    <3>1. faults' \in 0 .. MaxFaults
      BY <2>2, FaultsTyped
    <3>2. TypeOK'
      BY <1>1, <2>1, <2>2, <3>1 DEF EnsureGitlabSelfIdentity, EnsureIdentity, Base, TypeOK
    <3>3. RowsInv'
      BY <1>1, <2>1, <2>2 DEF EnsureGitlabSelfIdentity, EnsureIdentity, Base, TypeOK, RowsInv, Shared
    <3>4. CmdInv' /\ hist' \in Histories'
      BY <1>2, <2>1, <2>2, FinishStep
    <3> QED
      BY <3>2, <3>3, <3>4 DEF Base
  <2>3. CASE /\ IF cmd[c].slot \in rows THEN Fault ELSE NoFault
             /\ UNCHANGED tables /\ Finish(c, FALSE)
    <3>1. Fault \/ NoFault
      BY <2>3
    <3>2. CmdInv' /\ hist' \in Histories'
      BY <1>2, <2>1, <2>3, FinishStep
    <3> QED
      BY <2>1, <2>3, <3>1, <3>2, QuietBase
  <2> QED
    BY <1>6, <2>2, <2>3 DEF RebindIdentity
<1> QED
  BY <1>3, <1>4, <1>5, <1>6

LEMMA StepsKeepBase3 ==
    ASSUME Base, NEW c \in Commands,
           VerifyUser(c) \/ EnsureLogin(c) \/ DropKey(c) \/ CheckDisjoint(c) \/ WriteRoot(c) \/ Rescan(c)
    PROVE  Base'
<1> USE SourcesAssumption
<1>1. /\ used \subseteq Slots /\ None \notin Slots /\ rows \subseteq used
      /\ keys \in [Slots -> Accounts \cup {None}]
      /\ \A s \in Slots \ used : keys[s] = None
      /\ hist \in Histories /\ StageInv(c) /\ cmd[c] \in Invocation
  BY DEF Base, TypeOK, RowsInv, CmdInv
<1>2. Running(c) /\ cmd[c] # Idle
  <2>1. Running(c)
    BY DEF Running, VerifyUser, EnsureLogin, DropKey, CheckDisjoint, WriteRoot, Rescan, At
  <2> QED
    BY <2>1 DEF Running, Idle
<1>3. CASE VerifyUser(c)
  <2>1. /\ cmd[c].op = "reconnect" /\ cmd[c].at = "verify" /\ Shared
        /\ UNCHANGED <<family, ops, tables, keys, used, faults>>
    BY <1>1, <1>2, <1>3 DEF VerifyUser, At, StageInv
  <2>2. CASE /\ cmd' = [cmd EXCEPT ![c].at = IF family = "github" THEN "login" ELSE "putKey",
                                  ![c].guarded = bound[cmd[c].slot] # {}]
             /\ UNCHANGED hist
    <3> DEFINE at == IF family = "github" THEN "login" ELSE "putKey"
               guarded == bound[cmd[c].slot] # {}
    <3>1. /\ at \in {"login", "putKey"} /\ at \in Stages /\ guarded \in BOOLEAN
          /\ cmd' = [cmd EXCEPT ![c].at = at, ![c].guarded = guarded]
      BY <2>2 DEF Stages
    <3> HIDE DEF at, guarded
    <3>2. /\ cmd' \in [Commands -> Invocation] /\ Others(c)
          /\ cmd'[c].op = cmd[c].op /\ cmd'[c].at = at
          /\ cmd'[c].slot = cmd[c].slot /\ cmd'[c].key = cmd[c].key
          /\ cmd'[c].account = cmd[c].account
          /\ cmd'[c].alone = cmd[c].alone /\ cmd'[c].done = cmd[c].done
      BY <3>1, VerifyMoves
    <3>3. StageInv(c)'
      BY <1>1, <1>2, <2>1, <3>1, <3>2 DEF StageInv, Shared
    <3>4. CmdInv'
      BY <1>2, <2>1, <3>2, <3>3, StageStep
    <3> QED
      BY <2>1, <2>2, <3>4, QuietBase DEF NoFault
  <2>3. CASE Finish(c, FALSE)
    BY <1>2, <2>1, <2>3, FinishStep, QuietBase DEF NoFault
  <2> QED
    BY <1>3, <2>2, <2>3 DEF VerifyUser
<1>4. CASE EnsureLogin(c)
  <2>1. /\ cmd[c].op = "reconnect" /\ cmd[c].at = "login" /\ UNCHANGED <<family, ops, tables, keys, used>>
    BY <1>4 DEF EnsureLogin, At
  <2>2. CASE cmd[c].slot \in rows /\ NoFault /\ Goto(c, "putKey") /\ UNCHANGED hist
    <3>1. Moved(c, "putKey") /\ "putKey" \in Stages
      BY <2>2, GotoMoves DEF Base, CmdInv, Stages
    <3>2. StageInv(c)'
      BY <1>1, <1>2, <2>1, <3>1 DEF StageInv, Moved, Shared
    <3>3. CmdInv'
      BY <1>2, <2>1, <2>2, <3>1, <3>2, GotoStep
    <3> QED
      BY <2>1, <2>2, <3>3, QuietBase
  <2>3. CASE (IF cmd[c].slot \in rows THEN Fault ELSE NoFault) /\ Finish(c, FALSE)
    <3>1. Fault \/ NoFault
      BY <2>3
    <3> QED
      BY <1>2, <2>1, <2>3, <3>1, FinishStep, QuietBase
  <2> QED
    BY <1>4, <2>2, <2>3 DEF EnsureLogin
<1>5. CASE DropKey(c)
  <2>1. UNCHANGED <<family, ops, tables, used>> /\ Finish(c, TRUE) /\ (Fault \/ NoFault)
    BY <1>5 DEF DropKey
  <2>2. CmdInv' /\ hist' \in Histories'
    BY <1>2, <2>1, FinishStep
  <2>3. keys' = keys \/ keys' = [keys EXCEPT ![cmd[c].key] = None]
    BY <1>5 DEF DropKey
  <2>4. TypeOK' /\ RowsInv'
    BY <1>1, <2>1, <2>3, FaultsTyped, SameTables
  <2> QED
    BY <2>2, <2>4 DEF Base
<1>6. CASE CheckDisjoint(c)
  <2>1. /\ family = "localgit" /\ cmd[c].at = "check"
        /\ UNCHANGED <<family, ops, tables, keys, used, faults>>
    BY <1>1, <1>2, <1>6 DEF CheckDisjoint, At, StageInv, Shared
  <2>2. CASE Finish(c, FALSE)
    BY <1>2, <2>1, <2>2, FinishStep, QuietBase DEF NoFault
  <2>3. CASE Goto(c, "write") /\ UNCHANGED hist
    <3>1. Moved(c, "write") /\ "write" \in Stages
      BY <2>3, GotoMoves DEF Base, CmdInv, Stages
    <3>2. StageInv(c)'
      BY <1>1, <1>2, <2>1, <3>1 DEF StageInv, Moved, Shared
    <3>3. CmdInv'
      BY <1>2, <2>1, <2>3, <3>1, <3>2, GotoStep
    <3> QED
      BY <2>1, <2>3, <3>3, QuietBase DEF NoFault
  <2> QED
    BY <1>6, <2>2, <2>3 DEF CheckDisjoint
<1>7. CASE WriteRoot(c)
  <2>1. /\ family = "localgit" /\ cmd[c].at = "write" /\ cmd[c].op \in {"add", "update"}
        /\ cmd[c].value \in Roots /\ cmd[c].slot \in used
        /\ ToSet(cmd[c].done) \subseteq used
        /\ UNCHANGED <<family, ops, keys, used>>
    BY <1>1, <1>2, <1>7 DEF WriteRoot, At, StageInv, Shared
  <2>2. CASE Fault /\ Finish(c, FALSE) /\ UNCHANGED tables
    BY <1>2, <2>1, <2>2, FinishStep, QuietBase
  <2>3. CASE /\ NoFault
             /\ IF cmd[c].op = "add"
                THEN /\ InsertSource(cmd[c].slot, None, cmd[c].value)
                     /\ cmd' = [cmd EXCEPT ![c].at = "rescan", ![c].done = <<cmd[c].slot>>]
                ELSE /\ UpdateConfig(cmd[c].slot, cmd[c].value)
                     /\ Goto(c, "rescan")
             /\ hist' = [hist EXCEPT !.lone = IF cmd[c].alone THEN @ \cup {cmd[c].slot}
                                              ELSE @ \ {cmd[c].slot}]
    <3>1. hist' \in Histories'
      BY <1>1, <2>1, <2>3 DEF Histories
    <3>2. faults' \in 0 .. MaxFaults
      BY <2>3, FaultsTyped
    <3>3. CASE cmd[c].op = "add"
      <4>1. TypeOK' /\ RowsInv'
        BY <1>1, <2>1, <2>3, <3>2, <3>3, InsertTables DEF Shared
      <4>2. /\ cmd' \in [Commands -> Invocation] /\ Others(c)
            /\ cmd'[c].op = cmd[c].op /\ cmd'[c].at = "rescan"
            /\ cmd'[c].slot = cmd[c].slot /\ cmd'[c].key = cmd[c].key
            /\ cmd'[c].value = cmd[c].value
            /\ cmd'[c].alone = cmd[c].alone /\ ToSet(cmd'[c].done) = {cmd[c].slot}
        BY <1>1, <2>1, <2>3, <3>3, WriteRootMoves
      <4>3. StageInv(c)'
        BY <1>1, <1>2, <2>1, <3>3, <4>2 DEF StageInv, Shared
      <4>4. CmdInv'
        BY <1>2, <2>1, <4>2, <4>3, StageStep
      <4> QED
        BY <3>1, <4>1, <4>4 DEF Base
    <3>4. CASE cmd[c].op # "add"
      <4>6. UpdateConfig(cmd[c].slot, cmd[c].value)
        BY <2>3, <3>4
      <4>1. TypeOK'
        BY <1>1, <2>1, <3>2, <4>6 DEF UpdateConfig, Base, TypeOK
      <4>2. RowsInv'
        BY <1>1, <2>1, <2>3, <3>4 DEF UpdateConfig, Base, TypeOK, RowsInv, Shared
      <4>3. Moved(c, "rescan") /\ "rescan" \in Stages
        BY <2>3, <3>4, GotoMoves DEF Base, CmdInv, Stages
      <4>4. StageInv(c)'
        BY <1>1, <1>2, <2>1, <3>4, <4>3 DEF StageInv, Moved, Shared
      <4>5. CmdInv'
        BY <1>2, <2>1, <2>3, <3>4, <4>3, <4>4, GotoStep
      <4> QED
        BY <3>1, <4>1, <4>2, <4>5 DEF Base
    <3> QED
      BY <3>3, <3>4
  <2> QED
    BY <1>7, <2>2, <2>3 DEF WriteRoot
<1>8. CASE Rescan(c)
  <2> DEFINE s == cmd[c].slot
             known == {r \in Repos : owner[r] = s}
  <2>1. UNCHANGED <<family, ops, keys, used>> /\ family = "localgit" /\ cmd[c].slot \in used
    BY <1>1, <1>2, <1>8 DEF Rescan, At, StageInv, Shared
  <2>2. CASE NoFault /\ UNCHANGED tables /\ Finish(c, TRUE)
    BY <1>2, <2>1, <2>2, FinishStep, QuietBase
  <2>3. ASSUME NEW found \in SUBSET Under(cmd[c].value), NEW stale \in SUBSET Repos,
               s \in rows, NoFault, ClaimRepos(s, found, stale), Finish(c, TRUE)
        PROVE  Base'
    <3>1. CmdInv' /\ hist' \in Histories'
      BY <1>2, <2>1, <2>3, FinishStep
    <3>2. faults' \in 0 .. MaxFaults
      BY <2>3, FaultsTyped
    <3>3. TypeOK'
      BY <1>1, <2>1, <2>3, <3>2 DEF ClaimRepos, Base, TypeOK
    <3>4. RowsInv'
      BY <1>1, <2>1, <2>3 DEF ClaimRepos, Base, TypeOK, RowsInv, Shared
    <3> QED
      BY <3>1, <3>3, <3>4 DEF Base
  <2>4. CASE /\ (IF s \in rows THEN Fault ELSE NoFault) /\ UNCHANGED tables
             /\ cmd' = [cmd EXCEPT ![c] = Idle] /\ UNCHANGED hist
    <3>1. Fault \/ NoFault
      BY <2>4
    <3>2. CmdInv'
      BY <2>1, <2>4, IdleStep
    <3> QED
      BY <2>1, <2>4, <3>1, <3>2, QuietBase
  <2>5. \/ NoFault /\ UNCHANGED tables /\ Finish(c, TRUE)
        \/ \E found \in SUBSET Under(cmd[c].value), truncated \in BOOLEAN :
              \/ /\ s \in rows /\ NoFault
                 /\ ClaimRepos(s, found, IF truncated THEN {} ELSE known \ found)
                 /\ Finish(c, TRUE)
              \/ /\ (IF s \in rows THEN Fault ELSE NoFault) /\ UNCHANGED tables
                 /\ cmd' = [cmd EXCEPT ![c] = Idle] /\ UNCHANGED hist
    BY <1>8 DEF Rescan
  <2>6. \A found \in SUBSET Repos, truncated \in BOOLEAN :
           (IF truncated THEN {} ELSE known \ found) \in SUBSET Repos
    OBVIOUS
  <2>7. Under(cmd[c].value) \subseteq Repos
    BY DEF Under
  <2> QED
    BY <2>2, <2>3, <2>4, <2>5, <2>6, <2>7
<1> QED
  BY <1>3, <1>4, <1>5, <1>6, <1>7, <1>8

LEMMA QuitKeepsBase ==
    ASSUME Base, QuitAndRestart
    PROVE  Base'
<1>1. PICK failed \in BOOLEAN, reached \in SUBSET rows :
        /\ faults' = (IF failed THEN faults + 2 ELSE faults + 1) /\ faults' <= MaxFaults
        /\ bound' = BackfillAtlassianSelfIdentities(BackfillGitlabSelfIdentities(reached))
        /\ hist' = [hist EXCEPT !.drifted = @ \ reached]
  BY DEF QuitAndRestart
<1>2. /\ cmd' = [c \in Commands |-> Idle]
      /\ UNCHANGED <<family, ops, rows, ref, conf, owner, private, keys, used>>
  BY DEF QuitAndRestart
<1>3. CmdInv'
  <2>1. cmd' \in [Commands -> Invocation] /\ \A c \in Commands : cmd'[c] = Idle
    BY <1>2, IdleInvocation
  <2>2. Idle.at = "idle"
    BY DEF Idle
  <2> QED
    BY <2>1, <2>2 DEF CmdInv, StageInv, AloneInv, Running
<1>4. faults' \in 0 .. MaxFaults
  BY <1>1, SourcesAssumption DEF Base, TypeOK
<1> DEFINE known == BackfillGitlabSelfIdentities(reached)
<1>5. /\ known \in [Slots -> SUBSET Accounts]
      /\ \A s \in Slots \ rows : known[s] = {}
  BY SourcesAssumption DEF BackfillGitlabSelfIdentities, Base, TypeOK, RowsInv
<1> HIDE DEF known
<1>6. /\ bound' \in [Slots -> SUBSET Accounts]
      /\ \A s \in Slots \ rows : bound'[s] = {}
  BY <1>1, <1>5 DEF BackfillAtlassianSelfIdentities, known
<1>7. TypeOK'
  BY <1>2, <1>4, <1>6 DEF Base, TypeOK
<1>8. RowsInv'
  BY <1>2 DEF Base, RowsInv, Shared
<1>9. hist' \in Histories'
  BY <1>1, <1>2 DEF Base, Histories
<1> QED
  BY <1>3, <1>7, <1>8, <1>9 DEF Base

\* The steps that belong to no command, and those of the commands.
LEMMA BaseStep ==
    ASSUME Base, [Next]_vars
    PROVE  Base'
<1>1. CASE UNCHANGED vars
  BY <1>1 DEF vars, tables, Base, TypeOK, RowsInv, CmdInv, Histories, StageInv, OnlyRows, AloneInv, Running, Shared
<1>2. CASE SetPrivate
  <2>1. /\ UNCHANGED <<family, ops, rows, ref, conf, bound, owner, keys, used, cmd, faults, hist>>
        /\ private' \in [Repos -> BOOLEAN]
    BY <1>2 DEF SetPrivate, Base, TypeOK
  <2>2. TypeOK'
    BY <2>1 DEF Base, TypeOK
  <2>3. RowsInv' /\ CmdInv' /\ hist' \in Histories'
    BY <2>1 DEF Base, RowsInv, CmdInv, Histories, StageInv, OnlyRows, AloneInv, Running, Shared
  <2> QED
    BY <2>2, <2>3 DEF Base
<1>3. CASE QuitAndRestart
  BY <1>3, QuitKeepsBase
<1>4. ASSUME NEW c \in Commands, CredentialStep(c) \/ RootStep(c)
      PROVE  Base'
  <2>1. CASE CredentialStep(c)
    <3>1. ReconnectGitHub(c) \/ ReconnectAtlassian(c) => StartReconnect(c) /\ Shared
      BY DEF ReconnectGitHub, ReconnectAtlassian, Shared
    <3>2. CASE \/ StartAddGitLab(c) \/ StartAddGitHub(c) \/ StartAddAtlassian(c) \/ StartBorrow(c)
               \/ StartUpdate(c) \/ (StartReconnect(c) /\ Shared) \/ StartDelete(c)
      BY <3>2, RequestsKeepBase
    <3>3. CASE ProbeKey(c) \/ PutKey(c) \/ StampRef(c) \/ WriteConfig(c) \/ ValidatePat(c)
      BY <3>3, StepsKeepBase1
    <3>4. CASE InsertRow(c) \/ BindIdentity(c) \/ UndoStep(c) \/ RebindIdentity(c)
      BY <3>4, StepsKeepBase2
    <3>5. CASE VerifyUser(c) \/ EnsureLogin(c) \/ DropKey(c)
      BY <3>5, StepsKeepBase3
    <3> QED
      BY <2>1, <3>1, <3>2, <3>3, <3>4, <3>5 DEF CredentialStep
  <2>2. CASE RootStep(c)
    BY <2>2, RequestsKeepBase, StepsKeepBase3 DEF RootStep
  <2> QED
    BY <1>4, <2>1, <2>2
<1> QED
  BY <1>1, <1>2, <1>3, <1>4 DEF Next

LEMMA BaseInit ==
    ASSUME Init
    PROVE  Base
<1>1. \A c \in Commands : cmd[c] = Idle
  BY DEF Init, StoreInit
<1>2. Idle.at = "idle"
  BY DEF Idle
<1>3. CmdInv
  BY <1>1, <1>2, IdleInvocation DEF CmdInv, StageInv, AloneInv, Running, Init, StoreInit
<1>4. hist \in Histories
  BY DEF Init, StoreInit, HistInit, Histories
<1>5. TypeOK
  BY SourcesAssumption DEF Init, StoreInit, TypeOK
<1>6. RowsInv
  BY DEF Init, StoreInit, RowsInv, Shared
<1> QED
  BY <1>3, <1>4, <1>5, <1>6 DEF Base

\* A source has its columns while it has a row and not after it, whichever commands
\* and quits come between, and a command stands only where its kind has a step.
THEOREM SourcesTypes == Spec => []Base
<1>1. Init => Base
  BY BaseInit
<1>2. Base /\ [Next]_vars => Base'
  BY BaseStep
<1> QED
  BY <1>1, <1>2, PTL DEF Spec

(***************************************************************************)
(* Local git: a root written by a command that nothing overlapped is       *)
(* disjoint from every other, and stays so.                                *)
(***************************************************************************)

LoneRoots ==
    \A s, t \in rows : s # t /\ s \in hist.lone => ~PathsOverlap(conf[s], conf[t])

\* What a command on its way to a rescan has checked.
CheckedRoot(c) ==
    /\ cmd[c].at \in {"write", "rescan"} =>
         \A s \in rows \ {cmd[c].slot} :
             s \in hist.lone => ~PathsOverlap(cmd[c].value, conf[s])
    /\ cmd[c].at = "write" /\ cmd[c].alone =>
         \A s \in rows \ {cmd[c].slot} : ~PathsOverlap(cmd[c].value, conf[s])
    /\ cmd[c].at = "rescan" /\ cmd[c].slot \in hist.lone \cap rows =>
         conf[cmd[c].slot] = cmd[c].value

RootInv ==
    family = "localgit" => LoneRoots /\ \A c \in Commands : CheckedRoot(c)

\* What takes rows away, or overwrites none, keeps what was checked.
LEMMA RootsFrame ==
    ASSUME LoneRoots, \A d \in Commands : CheckedRoot(d), NEW c \in Commands, Rest(c),
           rows' \subseteq rows, \A s \in rows' : conf'[s] = conf[s],
           hist'.lone \cap rows' \subseteq hist.lone,
           cmd'[c].at \notin {"write", "rescan"}
    PROVE  LoneRoots' /\ \A d \in Commands : CheckedRoot(d)'
<1>1. LoneRoots'
  BY DEF LoneRoots
<1>2. ASSUME NEW d \in Commands \ {c}
      PROVE  CheckedRoot(d)'
  <2>1. /\ cmd'[d].at = cmd[d].at /\ cmd'[d].slot = cmd[d].slot /\ cmd'[d].value = cmd[d].value
        /\ cmd'[d].alone => cmd[d].alone
    BY DEF Rest, Kept
  <2> QED
    BY <2>1 DEF CheckedRoot
<1>3. CheckedRoot(c)'
  BY DEF CheckedRoot
<1> QED
  BY <1>1, <1>2, <1>3

LEMMA OverlapsEachOther ==
    ASSUME NEW p, NEW q, PathsOverlap(p, q)
    PROVE  PathsOverlap(q, p)
BY DEF PathsOverlap

LEMMA LocalSteps ==
    ASSUME Base, NEW c \in Commands, family = "localgit", CredentialStep(c) \/ RootStep(c)
    PROVE  StartDelete(c) \/ DropKey(c) \/ RootStep(c)
<1>1. StageInv(c) /\ ~Shared
  BY DEF Base, CmdInv, Shared
<1>2. Running(c) => cmd[c] # Idle
  BY DEF Running, Idle
<1>3. ~StartAddGitLab(c) /\ ~StartAddGitHub(c) /\ ~StartAddAtlassian(c) /\ ~StartBorrow(c)
  BY DEF StartAddGitLab, StartAddGitHub, StartAddAtlassian, StartBorrow
<1>4. ~ProbeKey(c) /\ ~PutKey(c) /\ ~InsertRow(c) /\ ~StampRef(c) /\ ~BindIdentity(c) /\ ~UndoStep(c)
  BY <1>1, <1>2 DEF ProbeKey, PutKey, InsertRow, StampRef, BindIdentity, UndoStep, At, StageInv, Running
<1>5. ~StartUpdate(c) /\ ~WriteConfig(c) /\ ~ReconnectGitHub(c) /\ ~ReconnectAtlassian(c)
  BY DEF StartUpdate, WriteConfig, ReconnectGitHub, ReconnectAtlassian
<1>6. ~ValidatePat(c) /\ ~RebindIdentity(c) /\ ~VerifyUser(c) /\ ~EnsureLogin(c)
  BY <1>1, <1>2 DEF ValidatePat, RebindIdentity, VerifyUser, EnsureLogin, At, StageInv, Running
<1> QED
  BY <1>3, <1>4, <1>5, <1>6 DEF CredentialStep

LEMMA FinishedRoots ==
    ASSUME Base, LoneRoots, \A d \in Commands : CheckedRoot(d), NEW c \in Commands,
           Running(c), NEW ok \in BOOLEAN, Finish(c, ok), UNCHANGED <<rows, conf, used>>
    PROVE  LoneRoots' /\ \A d \in Commands : CheckedRoot(d)'
<1>1. cmd[c] # Idle /\ Idle.at = "idle"
  BY DEF Running, Idle
<1>2. cmd'[c] = Idle /\ Others(c) /\ hist'.lone = hist.lone
  BY <1>1, FinishMoves
<1> QED
  BY <1>1, <1>2, OthersKept, RootsFrame

LEMMA RootStepKeepsRoots ==
    ASSUME Base, family = "localgit", LoneRoots, \A d \in Commands : CheckedRoot(d),
           NEW c \in Commands, WriteRoot(c) \/ CheckDisjoint(c) \/ Rescan(c)
    PROVE  LoneRoots' /\ \A d \in Commands : CheckedRoot(d)'
<1>1. Running(c) /\ cmd[c] # Idle /\ Idle.at = "idle"
  <2>1. Running(c)
    BY DEF Running, WriteRoot, CheckDisjoint, Rescan, At
  <2> QED
    BY <2>1 DEF Running, Idle
<1>2. CASE CheckDisjoint(c)
  <2>1. UNCHANGED <<rows, conf, used>>
    BY <1>2 DEF CheckDisjoint, tables
  <2>2. CASE Finish(c, FALSE)
    BY <1>1, <2>1, <2>2, FinishedRoots
  <2>3. CASE ~Finish(c, FALSE)
    <3>1. /\ ~\E t \in rows \ {cmd[c].slot} : PathsOverlap(cmd[c].value, conf[t])
          /\ Goto(c, "write") /\ UNCHANGED hist
      BY <1>2, <2>3 DEF CheckDisjoint
    <3>2. Moved(c, "write") /\ Others(c)
      BY <3>1, GotoMoves DEF Base, CmdInv, Stages
    <3>3. LoneRoots'
      BY <2>1, <3>1 DEF LoneRoots
    <3>4. CheckedRoot(c)'
      BY <2>1, <3>1, <3>2 DEF CheckedRoot, Moved
    <3>5. ASSUME NEW d \in Commands \ {c}
          PROVE  CheckedRoot(d)'
      <4>1. cmd'[d] = cmd[d]
        BY <3>2 DEF Others
      <4> QED
        BY <2>1, <3>1, <4>1 DEF CheckedRoot
    <3> QED
      BY <3>3, <3>4, <3>5
  <2> QED
    BY <2>2, <2>3
<1>3. CASE WriteRoot(c)
  <2>1. /\ cmd[c].at = "write" /\ cmd[c].slot \in Slots /\ rows \subseteq Slots /\ UNCHANGED used
        /\ cmd[c].key = None /\ hist \in Histories
        /\ conf \in [Slots -> Accounts \cup Roots \cup {None}]
    <3>1. StageInv(c) /\ used \subseteq Slots /\ rows \subseteq used /\ hist \in Histories
          /\ conf \in [Slots -> Accounts \cup Roots \cup {None}]
      BY DEF Base, CmdInv, TypeOK
    <3> QED
      BY <1>1, <1>3, <3>1 DEF WriteRoot, At, StageInv, Shared
  <2>2. CASE Fault /\ Finish(c, FALSE) /\ UNCHANGED tables
    BY <1>1, <2>1, <2>2, FinishedRoots DEF tables
  <2>3. CASE /\ NoFault
             /\ IF cmd[c].op = "add"
                THEN /\ InsertSource(cmd[c].slot, None, cmd[c].value)
                     /\ cmd' = [cmd EXCEPT ![c].at = "rescan", ![c].done = <<cmd[c].slot>>]
                ELSE /\ UpdateConfig(cmd[c].slot, cmd[c].value)
                     /\ Goto(c, "rescan")
             /\ hist' = [hist EXCEPT !.lone = IF cmd[c].alone THEN @ \cup {cmd[c].slot}
                                              ELSE @ \ {cmd[c].slot}]
    <3> DEFINE me == cmd[c].slot
    <3>1. /\ cmd'[c].at = "rescan" /\ cmd'[c].slot = me /\ cmd'[c].value = cmd[c].value
          /\ cmd'[c].alone = cmd[c].alone /\ Others(c)
      <4>1. CASE cmd[c].op = "add"
        BY <2>1, <2>3, <4>1, WriteRootMoves
      <4>2. CASE cmd[c].op # "add"
        <5>1. Goto(c, "rescan")
          BY <2>3, <4>2
        <5>2. Moved(c, "rescan") /\ Others(c)
          BY <5>1, GotoMoves DEF Base, CmdInv, Stages
        <5> QED
          BY <5>2 DEF Moved
      <4> QED
        BY <4>1, <4>2
    <3>2. /\ rows' \subseteq rows \cup {me}
          /\ \A s \in rows' \ {me} : conf'[s] = conf[s]
          /\ me \in rows' => conf'[me] = cmd[c].value
      <4>1. CASE cmd[c].op = "add"
        BY <2>1, <2>3, <4>1 DEF InsertSource
      <4>2. CASE cmd[c].op # "add"
        BY <2>1, <2>3, <4>2 DEF UpdateConfig
      <4> QED
        BY <4>1, <4>2
    <3>3. /\ \A s \in Slots \ {me} : s \in hist'.lone <=> s \in hist.lone
          /\ me \in hist'.lone => cmd[c].alone
      BY <2>1, <2>3 DEF Histories
    <3>4. /\ \A s \in rows \ {me} : s \in hist.lone => ~PathsOverlap(cmd[c].value, conf[s])
          /\ cmd[c].alone => \A s \in rows \ {me} : ~PathsOverlap(cmd[c].value, conf[s])
      BY <2>1 DEF CheckedRoot
    <3> HIDE DEF me
    <3>5. LoneRoots'
      <4> SUFFICES ASSUME NEW s \in rows', NEW t \in rows', s # t, s \in hist'.lone
                   PROVE  ~PathsOverlap(conf'[s], conf'[t])
        BY DEF LoneRoots
      <4>1. CASE s = me
        BY <2>1, <3>2, <3>3, <3>4, <4>1
      <4>2. CASE t = me
        <5>1. s \in rows \ {me} /\ s \in hist.lone
          BY <2>1, <3>2, <3>3, <4>2
        <5>2. ~PathsOverlap(cmd[c].value, conf[s]) /\ conf'[s] = conf[s] /\ conf'[t] = cmd[c].value
          BY <3>2, <3>4, <4>2, <5>1
        <5> QED
          BY <5>2, OverlapsEachOther
      <4>3. CASE s # me /\ t # me
        BY <2>1, <3>2, <3>3, <4>3 DEF LoneRoots
      <4> QED
        BY <4>1, <4>2, <4>3
    <3>6. CheckedRoot(c)'
      BY <2>1, <3>1, <3>2, <3>3, <3>4 DEF CheckedRoot, me
    <3>7. ASSUME NEW d \in Commands \ {c}
          PROVE  CheckedRoot(d)'
      <4>1. cmd'[d] = cmd[d]
        BY <3>1 DEF Others
      <4>2. cmd[d].at \in {"write", "rescan"} => ~cmd[c].alone /\ ~cmd[d].alone
        BY <1>1 DEF Base, CmdInv, AloneInv, Running
      <4>3. cmd[d].at \in {"write", "rescan"} => me \notin hist'.lone
        BY <3>3, <4>2
      <4> QED
        BY <2>1, <3>2, <3>3, <4>1, <4>2, <4>3 DEF CheckedRoot
    <3> QED
      BY <3>5, <3>6, <3>7
  <2> QED
    BY <1>3, <2>2, <2>3 DEF WriteRoot
<1>4. CASE Rescan(c)
  <2>1. UNCHANGED <<rows, conf, used>>
    BY <1>4 DEF Rescan, tables, ClaimRepos
  <2>2. CASE Finish(c, TRUE)
    BY <1>1, <2>1, <2>2, FinishedRoots
  <2>3. CASE cmd' = [cmd EXCEPT ![c] = Idle] /\ UNCHANGED hist
    <3>1. cmd'[c] = Idle /\ Others(c)
      BY <2>3, ReplaceMoves, IdleInvocation
    <3> QED
      BY <1>1, <2>1, <2>3, <3>1, OthersKept, RootsFrame
  <2> QED
    BY <1>4, <2>2, <2>3 DEF Rescan
<1> QED
  BY <1>2, <1>3, <1>4

LEMMA StepKeepsFamily ==
    ASSUME [Next]_vars
    PROVE  UNCHANGED family
<1>1. ASSUME NEW c \in Commands, CredentialStep(c)
      PROVE  UNCHANGED family
  <2>1. CASE StartAddGitLab(c) \/ StartAddGitHub(c) \/ StartAddAtlassian(c) \/ StartBorrow(c)
    BY <2>1 DEF StartAddGitLab, StartAddGitHub, StartAddAtlassian, StartWith, StartBorrow
  <2>2. CASE ProbeKey(c) \/ PutKey(c) \/ InsertRow(c) \/ StampRef(c) \/ BindIdentity(c) \/ UndoStep(c)
    BY <2>2 DEF ProbeKey, PutKey, InsertRow, StampRef, BindIdentity, UndoStep
  <2>3. CASE StartUpdate(c) \/ WriteConfig(c) \/ ValidatePat(c) \/ RebindIdentity(c)
    BY <2>3 DEF StartUpdate, WriteConfig, ValidatePat, RebindIdentity
  <2>4. CASE \/ ReconnectGitHub(c) \/ ReconnectAtlassian(c) \/ VerifyUser(c) \/ EnsureLogin(c)
             \/ StartDelete(c) \/ DropKey(c)
    BY <2>4 DEF ReconnectGitHub, ReconnectAtlassian, StartReconnect, VerifyUser, EnsureLogin,
                StartDelete, DropKey
  <2> QED
    BY <1>1, <2>1, <2>2, <2>3, <2>4 DEF CredentialStep
<1>2. ASSUME NEW c \in Commands, RootStep(c)
      PROVE  UNCHANGED family
  BY <1>2 DEF RootStep, StartAddRoot, StartMoveRoot, CheckDisjoint, WriteRoot, Rescan
<1> QED
  BY <1>1, <1>2 DEF Next, vars, SetPrivate, QuitAndRestart

LEMMA RootsStep ==
    ASSUME Base, RootInv, [Next]_vars
    PROVE  RootInv'
<1> SUFFICES ASSUME family' = "localgit"
             PROVE  LoneRoots' /\ \A d \in Commands : CheckedRoot(d)'
  BY DEF RootInv
<1>1. family = "localgit"
  BY StepKeepsFamily
<1>2. LoneRoots /\ \A d \in Commands : CheckedRoot(d)
  BY <1>1 DEF RootInv
<1>3. CASE UNCHANGED vars
  BY <1>2, <1>3 DEF vars, tables, LoneRoots, CheckedRoot
<1>4. CASE SetPrivate
  BY <1>2, <1>4 DEF SetPrivate, LoneRoots, CheckedRoot
<1>5. CASE QuitAndRestart
  <2>1. /\ UNCHANGED <<rows, conf>> /\ hist'.lone = hist.lone
        /\ \A d \in Commands : cmd'[d].at = "idle"
    BY <1>5, Known DEF QuitAndRestart, Histories, Idle
  <2> QED
    BY <1>2, <2>1 DEF LoneRoots, CheckedRoot
<1>6. ASSUME NEW c \in Commands, CredentialStep(c) \/ RootStep(c)
      PROVE  LoneRoots' /\ \A d \in Commands : CheckedRoot(d)'
  <2>1. CASE StartDelete(c)
    <3>1. PICK s \in rows :
             /\ Asked(c, "delete", "dropKey", s, Orphaned(s)) /\ RemoveSource(s)
             /\ hist'.lone = hist.lone \ {s}
      BY <2>1, DeleteRequest
    <3>2. Rest(c) /\ cmd'[c].at = "dropKey"
      BY <3>1 DEF Asked
    <3>3. rows' \subseteq rows /\ \A t \in rows' : conf'[t] = conf[t]
      BY <3>1, Known DEF RemoveSource, Base, TypeOK
    <3> QED
      BY <1>2, <3>1, <3>2, <3>3, RootsFrame
  <2>2. CASE DropKey(c)
    <3>1. Finish(c, TRUE) /\ Running(c) /\ UNCHANGED <<rows, conf, used>>
      BY <2>2 DEF DropKey, tables, At, Running
    <3> QED
      BY <1>2, <3>1, FinishedRoots
  <2>3. CASE StartAddRoot(c) \/ StartMoveRoot(c)
    <3>1. PICK s \in Slots, op \in {"add", "update"} :
             /\ Asked(c, op, "check", s, None)
             /\ UNCHANGED <<family, tables, keys, faults, hist>>
      BY <2>3, RootRequest
    <3>2. Rest(c) /\ cmd'[c].at = "check" /\ UNCHANGED <<rows, conf, hist>>
      BY <3>1 DEF Asked, tables
    <3> QED
      BY <1>2, <3>2, RootsFrame
  <2>4. CASE WriteRoot(c) \/ CheckDisjoint(c) \/ Rescan(c)
    BY <1>1, <1>2, <2>4, RootStepKeepsRoots
  <2> QED
    BY <1>1, <1>6, <2>1, <2>2, <2>3, <2>4, LocalSteps DEF RootStep
<1> QED
  BY <1>3, <1>4, <1>5, <1>6 DEF Next

LEMMA PrefixesOverlap ==
    ASSUME NEW p \in Seq(STRING), NEW q \in Seq(STRING), NEW r \in Seq(STRING),
           IsPrefix(p, r), IsPrefix(q, r)
    PROVE  PathsOverlap(p, q)
<1>1. /\ Len(p) \in Nat /\ Len(q) \in Nat /\ Len(r) \in Nat
      /\ Len(p) <= Len(r) /\ Len(q) <= Len(r)
      /\ SubSeq(p, 1, Len(p)) = SubSeq(r, 1, Len(p))
      /\ SubSeq(q, 1, Len(q)) = SubSeq(r, 1, Len(q))
  BY DEF IsPrefix
<1>2. \A i \in 1 .. Len(p) : p[i] = r[i]
  BY <1>1, SubSeqProperties
<1>3. \A i \in 1 .. Len(q) : q[i] = r[i]
  BY <1>1, SubSeqProperties
<1>4. CASE Len(p) <= Len(q)
  <2>1. SubSeq(p, 1, Len(p)) = SubSeq(q, 1, Len(p))
    BY <1>1, <1>2, <1>3, <1>4, SubSeqProperties, SeqEqual
  <2> QED
    BY <1>4, <2>1 DEF PathsOverlap, IsPrefix
<1>5. CASE Len(q) <= Len(p)
  <2>1. SubSeq(q, 1, Len(q)) = SubSeq(p, 1, Len(q))
    BY <1>1, <1>2, <1>3, <1>5, SubSeqProperties, SeqEqual
  <2> QED
    BY <1>5, <2>1 DEF PathsOverlap, IsPrefix
<1> QED
  BY <1>1, <1>4, <1>5

\* The repository r keeps its owner unless that no longer has it under its root,
\* and keeps its mark.
RepoKept(r) ==
    LET s == owner[r]
        t == owner'[r]
    IN /\ s # None /\ t \notin {s, None} /\ s \in rows' /\ IsPrefix(conf[s], r)
             => s \notin hist.lone /\ t \notin hist.lone
       /\ private[r] /\ t # None /\ cmd' # cmd => private'[r]

LEMMA UnownedRepos ==
    ASSUME Base, NEW r \in Repos, UNCHANGED <<owner, private>>
    PROVE  RepoKept(r)
BY DEF RepoKept

LEMMA RemovedRepos ==
    ASSUME Base, NEW r \in Repos, NEW s, RemoveSource(s)
    PROVE  RepoKept(r)
<1>1. /\ owner'[r] = (IF owner[r] = s THEN None ELSE owner[r])
      /\ private'[r] = (private[r] /\ owner[r] # s)
  BY DEF RemoveSource
<1> QED
  BY <1>1 DEF RepoKept

LEMMA RescannedRepos ==
    ASSUME Base, RootInv, NEW c \in Commands, Rescan(c), NEW r \in Repos
    PROVE  RepoKept(r)
<1> DEFINE me == cmd[c].slot
           known == {q \in Repos : owner[q] = me}
<1>1. /\ family = "localgit" /\ cmd[c].at = "rescan" /\ cmd[c].value \in Roots
  <2>1. StageInv(c)
    BY DEF Base, CmdInv
  <2>2. cmd[c] # Idle
    BY DEF Rescan, At, Idle
  <2> QED
    BY <2>1, <2>2 DEF Rescan, At, StageInv, Shared
<1>2. CASE UNCHANGED tables
  BY <1>2, UnownedRepos DEF tables
<1>3. ASSUME NEW found \in SUBSET Under(cmd[c].value), NEW stale \in SUBSET (known \ found),
             me \in rows, ClaimRepos(me, found, stale)
      PROVE  RepoKept(r)
  <2>1. /\ owner'[r] = (IF r \in found THEN me ELSE IF r \in stale THEN None ELSE owner[r])
        /\ private'[r] = (private[r] /\ r \notin stale)
        /\ rows' = rows
    BY <1>3 DEF ClaimRepos
  <2>2. ASSUME owner[r] # None, owner'[r] \notin {owner[r], None}, owner[r] \in rows',
               IsPrefix(conf[owner[r]], r)
        PROVE  owner[r] \notin hist.lone /\ owner'[r] \notin hist.lone
    <3>1. owner'[r] = me /\ r \in found /\ owner[r] # me /\ owner[r] \in rows
      BY <2>1, <2>2
    <3>2. IsPrefix(cmd[c].value, r)
      BY <1>3, <3>1 DEF Under
    <3>3. conf[owner[r]] \in Roots
      BY <1>1, <3>1 DEF Base, RowsInv
    <3>4. PathsOverlap(cmd[c].value, conf[owner[r]])
      BY <1>1, <2>2, <3>2, <3>3, SourcesAssumption, PrefixesOverlap
    <3>5. owner[r] \notin hist.lone
      BY <1>1, <3>1, <3>4 DEF RootInv, CheckedRoot
    <3>6. me \in hist.lone => conf[me] = cmd[c].value
      BY <1>1, <1>3 DEF RootInv, CheckedRoot
    <3>7. me \notin hist.lone
      BY <1>1, <1>3, <3>1, <3>4, <3>6 DEF RootInv, LoneRoots
    <3> QED
      BY <3>1, <3>5, <3>7
  <2>3. r \in stale => owner'[r] = None
    BY <2>1
  <2> QED
    BY <2>1, <2>2, <2>3 DEF RepoKept
<1>4. ASSUME NEW found \in SUBSET Under(cmd[c].value), NEW truncated \in BOOLEAN,
             me \in rows, ClaimRepos(me, found, IF truncated THEN {} ELSE known \ found)
      PROVE  RepoKept(r)
  <2>1. (IF truncated THEN {} ELSE known \ found) \in SUBSET (known \ found)
    OBVIOUS
  <2> QED
    BY <1>3, <1>4, <2>1
<1> QED
  BY <1>2, <1>4 DEF Rescan

LEMMA StepKeepsRepos ==
    ASSUME Base, RootInv, Next, NEW r \in Repos
    PROVE  RepoKept(r)
<1>1. CASE SetPrivate
  BY <1>1 DEF SetPrivate, RepoKept
<1>2. CASE QuitAndRestart
  BY <1>2, UnownedRepos DEF QuitAndRestart
<1>3. ASSUME NEW c \in Commands, CredentialStep(c)
      PROVE  RepoKept(r)
  <2>1. CASE StartAddGitLab(c) \/ StartAddGitHub(c) \/ StartAddAtlassian(c) \/ StartBorrow(c)
    BY <2>1, UnownedRepos DEF StartAddGitLab, StartAddGitHub, StartAddAtlassian, StartWith, StartBorrow, tables
  <2>2. CASE ProbeKey(c) \/ PutKey(c)
    BY <2>2, UnownedRepos DEF ProbeKey, PutKey, tables
  <2>3. CASE InsertRow(c)
    BY <2>3, UnownedRepos DEF InsertRow, InsertSource, tables
  <2>4. CASE StampRef(c) \/ WriteConfig(c)
    BY <2>4, UnownedRepos DEF StampRef, UpdateSecretRef, WriteConfig, UpdateConfig, tables
  <2>5. CASE BindIdentity(c) \/ RebindIdentity(c)
    BY <2>5, UnownedRepos DEF BindIdentity, RebindIdentity, EnsureGitlabSelfIdentity, EnsureIdentity, tables
  <2>6. CASE UndoStep(c)
    <3>1. (\E s \in {Head(cmd[c].undo)[2]} : RemoveSource(s)) \/ UNCHANGED tables
      BY <2>6 DEF UndoStep
    <3> QED
      BY <3>1, RemovedRepos, UnownedRepos DEF tables
  <2>7. CASE StartUpdate(c) \/ ValidatePat(c)
    BY <2>7, UnownedRepos DEF StartUpdate, ValidatePat, tables
  <2>8. CASE ReconnectGitHub(c) \/ ReconnectAtlassian(c) \/ VerifyUser(c) \/ EnsureLogin(c) \/ DropKey(c)
    BY <2>8, UnownedRepos DEF ReconnectGitHub, ReconnectAtlassian, StartReconnect, VerifyUser, EnsureLogin,
                DropKey, tables
  <2>9. CASE StartDelete(c)
    BY <2>9, RemovedRepos DEF StartDelete
  <2> QED
    BY <1>3, <2>1, <2>2, <2>3, <2>4, <2>5, <2>6, <2>7, <2>8, <2>9 DEF CredentialStep
<1>4. ASSUME NEW c \in Commands, RootStep(c)
      PROVE  RepoKept(r)
  <2>1. CASE StartAddRoot(c) \/ StartMoveRoot(c) \/ CheckDisjoint(c)
    BY <2>1, UnownedRepos DEF StartAddRoot, StartMoveRoot, CheckDisjoint, tables
  <2>2. CASE WriteRoot(c)
    BY <2>2, UnownedRepos DEF WriteRoot, InsertSource, UpdateConfig, tables
  <2>3. CASE Rescan(c)
    BY <2>3, RescannedRepos
  <2> QED
    BY <1>4, <2>1, <2>2, <2>3 DEF RootStep
<1> QED
  BY <1>1, <1>2, <1>3, <1>4 DEF Next

\* A rescan takes a repository from another source only where one of the two roots
\* was written while another command ran, and it leaves the user's privacy mark on
\* what it finds again (upsert_discovered_repos, local_repos.rs): for any number of
\* roots, repositories and commands.
THEOREM SettledRepos == Spec => RescanKeepsRepos
<1>1. Init => Base /\ RootInv
  <2>1. Init => RootInv
    BY DEF Init, StoreInit, RootInv, LoneRoots, CheckedRoot, Idle
  <2> QED
    BY <2>1, BaseInit
<1>2. Base /\ RootInv /\ [Next]_vars => (Base /\ RootInv)'
  BY BaseStep, RootsStep
<1>3. Base /\ RootInv /\ [Next]_vars =>
        [\A r \in Repos :
          LET s == owner[r]
              t == owner'[r]
          IN /\ s # None /\ t \notin {s, None} /\ s \in rows' /\ IsPrefix(conf[s], r)
                   => s \notin hist.lone /\ t \notin hist.lone
             /\ private[r] /\ t # None /\ cmd' # cmd => private'[r]]_vars
  BY StepKeepsRepos DEF RepoKept
<1> QED
  BY <1>1, <1>2, <1>3, PTL DEF Spec, RescanKeepsRepos

(***************************************************************************)
(* The ids of an add are its own until it returns                          *)
(***************************************************************************)

AddsNow(c) == Running(c) /\ Adding(c)

\* The row of its slot is still to come.
Awaits(c) == AddsNow(c) /\ cmd[c].slot \notin ToSet(cmd[c].done)

OwnInv ==
    /\ \A c \in Commands : AddsNow(c) => Minted(c) \cap (hist.clean \cup hist.gone) = {}
    /\ \A c, d \in Commands : AddsNow(c) /\ AddsNow(d) /\ c # d => Minted(c) \cap Minted(d) = {}
    /\ \A c \in Commands : Awaits(c) =>
         /\ cmd[c].slot \notin rows
         /\ \A d \in Commands \ {c} : Running(d) => cmd[d].slot # cmd[c].slot
    /\ \A c \in Commands :
         /\ AddsNow(c) /\ cmd[c].at \in {"insert", "probe", "check", "write"} => Awaits(c)
         /\ AddsNow(c) /\ Shared /\ cmd[c].at = "putKey" => Awaits(c)

LEMMA KeptRuns ==
    ASSUME NEW d \in Commands, Kept(d), UNCHANGED family
    PROVE  /\ Running(d)' <=> Running(d)
           /\ AddsNow(d)' <=> AddsNow(d)
           /\ Awaits(d)' <=> Awaits(d)
           /\ Minted(d)' = Minted(d)
BY DEF Kept, Running, AddsNow, Adding, Awaits, Minted

LEMMA MintedUsed ==
    ASSUME Base, NEW c \in Commands, Running(c)
    PROVE  Minted(c) \subseteq used /\ cmd[c].slot \in used /\ ToSet(cmd[c].done) \subseteq used
<1>1. StageInv(c) /\ cmd[c] # Idle
  BY DEF Base, CmdInv, Running, Idle
<1>2. /\ cmd[c].slot \in used /\ cmd[c].key \in used \cup {None} /\ ToSet(cmd[c].done) \subseteq used
  BY <1>1 DEF StageInv
<1> QED
  BY <1>2 DEF Minted

\* What a step of c may do to the ids.
LEMMA OwnFrame ==
    ASSUME Base, OwnInv, NEW c \in Commands, Rest(c), UNCHANGED family,
           \/ hist'.clean \cup hist'.gone \subseteq hist.clean \cup hist.gone
           \/ ~Running(c)' /\ \A d \in Commands \ {c} : ~Running(d),
           rows' \subseteq rows \/ (Awaits(c) /\ rows' \subseteq rows \cup {cmd[c].slot}),
           AddsNow(c)' => \A x \in Minted(c)' : x \notin used \/ (AddsNow(c) /\ x \in Minted(c)),
           Running(c)' => \/ cmd'[c].slot \notin used
                          \/ cmd'[c].slot \in rows
                          \/ Running(c) /\ cmd'[c].slot = cmd[c].slot,
           Awaits(c)' => /\ cmd'[c].slot \notin rows'
                         /\ cmd'[c].slot \notin used \/ (Awaits(c) /\ cmd'[c].slot = cmd[c].slot),
           AddsNow(c)' /\ cmd'[c].at \in {"insert", "probe", "check", "write"} => Awaits(c)',
           AddsNow(c)' /\ Shared /\ cmd'[c].at = "putKey" => Awaits(c)'
    PROVE  OwnInv'
<1>1. \A d \in Commands \ {c} :
         /\ Kept(d) /\ (Running(d)' <=> Running(d)) /\ (AddsNow(d)' <=> AddsNow(d))
         /\ (Awaits(d)' <=> Awaits(d)) /\ Minted(d)' = Minted(d) /\ cmd'[d].slot = cmd[d].slot
         /\ cmd'[d].at = cmd[d].at
  BY KeptRuns DEF Rest, Kept
<1>2. hist \in Histories /\ hist.clean \subseteq used /\ hist.gone \subseteq used /\ rows \subseteq used
  BY Known DEF Histories
<1>3. \A d \in Commands : AddsNow(d) => Minted(d) \subseteq used /\ cmd[d].slot \in used
  BY MintedUsed DEF AddsNow
<1>4. ASSUME NEW d \in Commands, AddsNow(d)'
      PROVE  Minted(d)' \cap (hist.clean \cup hist.gone)' = {}
  <2>1. CASE d = c
    BY <1>2, <1>4, <2>1 DEF OwnInv, AddsNow
  <2>2. CASE d # c
    BY <1>1, <1>4, <2>2 DEF OwnInv, AddsNow
  <2> QED
    BY <2>1, <2>2
<1>5. ASSUME NEW d \in Commands, NEW e \in Commands, AddsNow(d)', AddsNow(e)', d # e
      PROVE  Minted(d)' \cap Minted(e)' = {}
  <2>1. CASE d # c /\ e # c
    BY <1>1, <1>5, <2>1 DEF OwnInv
  <2>2. ASSUME NEW f \in Commands \ {c}, AddsNow(f)', AddsNow(c)'
        PROVE  Minted(c)' \cap Minted(f)' = {}
    BY <1>1, <1>3, <2>2 DEF OwnInv
  <2> QED
    BY <1>5, <2>1, <2>2
<1>6. ASSUME NEW d \in Commands, Awaits(d)'
      PROVE  /\ cmd'[d].slot \notin rows'
             /\ \A e \in Commands \ {d} : Running(e)' => cmd'[e].slot # cmd'[d].slot
  <2>1. CASE d = c
    <3>1. ASSUME NEW e \in Commands \ {c}, Running(e)'
          PROVE  cmd'[e].slot # cmd'[c].slot
      <4>1. Running(e) /\ cmd'[e].slot = cmd[e].slot /\ cmd[e].slot \in used
        BY <1>1, <3>1, MintedUsed
      <4> QED
        BY <1>6, <2>1, <4>1 DEF OwnInv
    <3> QED
      BY <1>6, <2>1, <3>1
  <2>2. CASE d # c
    <3>1. Awaits(d) /\ cmd'[d].slot = cmd[d].slot /\ cmd[d].slot \notin rows /\ cmd[d].slot \in used
      BY <1>1, <1>3, <1>6, <2>2 DEF OwnInv, Awaits
    <3>2. cmd[d].slot \notin rows'
      BY <2>2, <3>1 DEF OwnInv, Awaits, AddsNow
    <3>3. ASSUME NEW e \in Commands \ {d}, Running(e)'
          PROVE  cmd'[e].slot # cmd[d].slot
      BY <1>1, <2>2, <3>1, <3>3 DEF OwnInv
    <3> QED
      BY <3>1, <3>2, <3>3
  <2> QED
    BY <2>1, <2>2
<1>7. ASSUME NEW d \in Commands, AddsNow(d)'
      PROVE  /\ cmd'[d].at \in {"insert", "probe", "check", "write"} => Awaits(d)'
             /\ Shared' /\ cmd'[d].at = "putKey" => Awaits(d)'
  <2>1. Shared' <=> Shared
    BY DEF Shared
  <2>2. CASE d = c
    BY <1>7, <2>1, <2>2
  <2>3. CASE d # c
    BY <1>1, <1>7, <2>1, <2>3 DEF OwnInv
  <2> QED
    BY <2>2, <2>3
<1> QED
  BY <1>4, <1>5, <1>6, <1>7 DEF OwnInv

\* A command goes on with the ids it has.
LEMMA OwnGoes ==
    ASSUME Base, OwnInv, NEW c \in Commands, Running(c), Others(c), UNCHANGED family,
           rows' \subseteq rows, hist'.clean = hist.clean, hist'.gone = hist.gone,
           cmd'[c].op = cmd[c].op, cmd'[c].slot = cmd[c].slot, cmd'[c].key = cmd[c].key,
           ToSet(cmd'[c].done) = ToSet(cmd[c].done),
           \/ ~Adding(c)
           \/ Awaits(c)
           \/ /\ cmd'[c].at \notin {"insert", "probe", "check", "write"}
              /\ Shared => cmd'[c].at # "putKey"
    PROVE  OwnInv'
<1>1. /\ AddsNow(c)' => AddsNow(c) /\ Adding(c)
      /\ Minted(c)' = Minted(c)
      /\ Awaits(c)' => Awaits(c)
      /\ Awaits(c) /\ Running(c)' => Awaits(c)'
  BY DEF AddsNow, Adding, Minted, Awaits
<1>2. Awaits(c) => cmd[c].slot \notin rows
  BY DEF OwnInv
<1>3. AddsNow(c)' => Running(c)'
  BY DEF AddsNow
<1> QED
  BY <1>1, <1>2, <1>3, OthersKept, OwnFrame

\* A command returns.
LEMMA OwnIdles ==
    ASSUME Base, OwnInv, NEW c \in Commands, cmd'[c] = Idle, Others(c), UNCHANGED family,
           rows' \subseteq rows,
           \/ hist'.clean = hist.clean /\ hist'.gone = hist.gone
           \/ \A d \in Commands \ {c} : ~Running(d)
    PROVE  OwnInv'
<1>1. ~Running(c)' /\ ~AddsNow(c)' /\ ~Awaits(c)'
  BY DEF Running, Idle, AddsNow, Awaits
<1> QED
  BY <1>1, OthersKept, OwnFrame

LEMMA OwnEnds ==
    ASSUME Base, OwnInv, NEW c \in Commands, Running(c), NEW ok \in BOOLEAN, Finish(c, ok),
           UNCHANGED <<family, used>>, rows' \subseteq rows
    PROVE  OwnInv'
<1>1. cmd[c] # Idle
  BY DEF Running, Idle
<1>2. /\ cmd'[c] = Idle /\ Others(c)
      /\ cmd[c].alone \/ (hist'.clean = hist.clean /\ hist'.gone = hist.gone)
  BY <1>1, FinishMoves
<1>3. cmd[c].alone => \A d \in Commands \ {c} : ~Running(d)
  BY DEF Base, CmdInv, AloneInv
<1> QED
  BY <1>2, <1>3, OwnIdles

LEMMA OwnRollsBack ==
    ASSUME Base, OwnInv, NEW c \in Commands, Running(c), NEW own \in BOOLEAN,
           own => cmd[c].key \in Slots, Rollback(c, own), UNCHANGED <<family, rows, hist>>
    PROVE  OwnInv'
<1>1. /\ Others(c) /\ cmd'[c].at = "undo"
      /\ cmd'[c].op = cmd[c].op /\ cmd'[c].slot = cmd[c].slot /\ cmd'[c].key = cmd[c].key
      /\ cmd'[c].done = cmd[c].done
  BY RollbackMoves
<1> QED
  BY <1>1, OwnGoes

LEMMA OwnGoesTo ==
    ASSUME Base, OwnInv, NEW c \in Commands, Running(c), NEW at \in Stages, Goto(c, at),
           UNCHANGED family, rows' \subseteq rows, hist'.clean = hist.clean, hist'.gone = hist.gone,
           \/ ~Adding(c)
           \/ Awaits(c)
           \/ at \notin {"insert", "probe", "check", "write"} /\ (Shared => at # "putKey")
    PROVE  OwnInv'
<1>1. Moved(c, at) /\ Others(c)
  BY GotoMoves DEF Base, CmdInv
<1> QED
  BY <1>1, OwnGoes DEF Moved

\* A request: the ids it mints are new, or it mints none.
LEMMA OwnAsked ==
    ASSUME Base, OwnInv, NEW c \in Commands, NEW op, NEW at, NEW s \in Slots, NEW key,
           Asked(c, op, at, s, key), UNCHANGED family, rows' \subseteq rows,
           hist'.clean \subseteq hist.clean, hist'.gone \subseteq hist.gone,
           \/ s \notin used
           \/ s \in rows /\ op \notin {"add", "borrow"},
           op = "add" => key \in {s, None}
    PROVE  OwnInv'
<1>1. /\ Rest(c) /\ cmd'[c].op = op /\ cmd'[c].at = at /\ cmd'[c].slot = s /\ cmd'[c].key = key
      /\ ToSet(cmd'[c].done) = {}
  BY DEF Asked
<1>2. AddsNow(c)' => s \notin used /\ Minted(c)' \subseteq {s}
  BY <1>1 DEF AddsNow, Adding, Minted
<1>3. AddsNow(c)' => Awaits(c)'
  BY <1>1 DEF Awaits
<1>4. rows \subseteq used
  BY Known
<1>5. Awaits(c)' => AddsNow(c)'
  BY DEF Awaits
<1> QED
  BY <1>1, <1>2, <1>3, <1>4, <1>5, OwnFrame

LEMMA OwnRequests ==
    ASSUME Base, OwnInv, NEW c \in Commands,
           \/ StartAddGitLab(c) \/ StartAddGitHub(c) \/ StartAddAtlassian(c) \/ StartBorrow(c)
           \/ StartUpdate(c) \/ (StartReconnect(c) /\ Shared) \/ StartDelete(c)
           \/ StartAddRoot(c) \/ StartMoveRoot(c)
    PROVE  OwnInv'
<1>1. rows \subseteq Slots
  BY Known
<1>2. ASSUME NEW s \in Slots \ used, NEW at \in {"insert", "putKey"}, NEW a \in Accounts,
             NEW n \in 1 .. 2, StartWith(c, s, at, a, n)
      PROVE  OwnInv'
  <2>1. Asked(c, "add", at, s, s) /\ UNCHANGED <<family, rows, hist>>
    BY <1>2, AddRequest DEF tables
  <2> QED
    BY <2>1, OwnAsked
<1>3. CASE StartAddGitLab(c) \/ StartAddGitHub(c) \/ StartAddAtlassian(c)
  BY <1>2, <1>3 DEF StartAddGitLab, StartAddGitHub, StartAddAtlassian
<1>4. CASE StartBorrow(c)
  <2>1. PICK s \in Slots \ used, r \in rows :
             Asked(c, "borrow", "probe", s, ref[r]) /\ UNCHANGED <<family, rows, hist>>
    BY <1>4, BorrowRequest DEF tables
  <2> QED
    BY <2>1, OwnAsked
<1>5. CASE StartUpdate(c)
  <2>1. PICK s \in rows, at \in {"config", "pat"} :
             Asked(c, "update", at, s, s) /\ UNCHANGED <<family, rows, hist>>
    BY <1>5, UpdateRequest DEF tables
  <2> QED
    BY <1>1, <2>1, OwnAsked
<1>6. CASE StartReconnect(c) /\ Shared
  <2>1. PICK s \in rows :
             Asked(c, "reconnect", "verify", s, ref[s]) /\ UNCHANGED <<family, rows, hist>>
    BY <1>6, ReconnectRequest DEF tables
  <2> QED
    BY <1>1, <2>1, OwnAsked
<1>7. CASE StartDelete(c)
  <2>1. PICK s \in rows :
             /\ Asked(c, "delete", "dropKey", s, Orphaned(s)) /\ RemoveSource(s)
             /\ hist'.clean = hist.clean \ {s} /\ hist'.gone = hist.gone /\ UNCHANGED family
    BY <1>7, DeleteRequest
  <2>2. rows' \subseteq rows
    BY <2>1 DEF RemoveSource
  <2> QED
    BY <1>1, <2>1, <2>2, OwnAsked
<1>8. CASE StartAddRoot(c)
  <2>1. PICK s \in Slots \ used, root \in Roots :
             /\ Begin(c, [Idle EXCEPT !.op = "add", !.at = "check", !.slot = s, !.value = root])
             /\ UNCHANGED <<family, rows, hist>>
    BY <1>8 DEF StartAddRoot, tables
  <2>2. Asked(c, "add", "check", s, None)
    BY <2>1, CheckRequest
  <2> QED
    BY <2>1, <2>2, OwnAsked
<1>9. CASE StartMoveRoot(c)
  <2>1. PICK s \in rows, root \in Roots :
             /\ Begin(c, [Idle EXCEPT !.op = "update", !.at = "check", !.slot = s, !.value = root])
             /\ UNCHANGED <<family, rows, hist>>
    BY <1>9 DEF StartMoveRoot, tables
  <2>2. Asked(c, "update", "check", s, None)
    BY <1>1, <2>1, CheckRequest
  <2> QED
    BY <1>1, <2>1, <2>2, OwnAsked
<1> QED
  BY <1>3, <1>4, <1>5, <1>6, <1>7, <1>8, <1>9

LEMMA RunsAt ==
    ASSUME Base, NEW c \in Commands, Running(c)
    PROVE  /\ StageInv(c) /\ cmd[c] # Idle /\ cmd[c].slot \in used /\ cmd[c].slot \in Slots
           /\ cmd[c].key \in Slots \cup {None} /\ (Credentialed /\ cmd[c].op # "delete" => cmd[c].key \in used)
           /\ ToSet(cmd[c].done) \subseteq used
<1>1. StageInv(c) /\ cmd[c] # Idle /\ used \subseteq Slots
  BY Known DEF Base, CmdInv, Running, Idle
<1> QED
  BY <1>1 DEF StageInv, Shared, Credentialed

LEMMA OwnWorks1 ==
    ASSUME Base, OwnInv, NEW c \in Commands,
           ProbeKey(c) \/ PutKey(c) \/ InsertRow(c) \/ StampRef(c) \/ BindIdentity(c)
    PROVE  OwnInv'
<1>1. Running(c)
  BY DEF Running, ProbeKey, PutKey, InsertRow, StampRef, BindIdentity, At
<1>2. StageInv(c) /\ cmd[c] # Idle /\ cmd[c].slot \in used /\ cmd[c].slot \in Slots
  BY <1>1, RunsAt
<1>3. CASE ProbeKey(c)
  <2>1. cmd[c].op = "borrow" /\ cmd[c].at = "probe" /\ UNCHANGED <<family, used, rows>>
    BY <1>3 DEF ProbeKey, At, tables
  <2>2. Awaits(c)
    BY <1>1, <2>1 DEF OwnInv, AddsNow, Adding
  <2>3. CASE Finish(c, FALSE)
    BY <1>1, <2>1, <2>3, OwnEnds
  <2>4. CASE Goto(c, "insert") /\ UNCHANGED hist
    BY <1>1, <2>1, <2>2, <2>4, OwnGoesTo DEF Stages
  <2> QED
    BY <1>3, <2>3, <2>4 DEF ProbeKey
<1>4. CASE PutKey(c)
  <2>1. cmd[c].op \in {"add", "update", "reconnect"} /\ cmd[c].at = "putKey"
        /\ UNCHANGED <<family, used, rows>>
    BY <1>4 DEF PutKey, At, tables
  <2>2. CASE /\ cmd' = [cmd EXCEPT ![c] = Idle]
             /\ hist' = IF cmd[c].guarded THEN hist
                        ELSE [hist EXCEPT !.unchecked = @ \cup {cmd[c].key}]
    <3>1. cmd'[c] = Idle /\ Others(c)
      BY <2>2, ReplaceMoves, IdleInvocation
    <3>2. hist'.clean = hist.clean /\ hist'.gone = hist.gone
      BY <2>2, Known DEF Histories
    <3> QED
      BY <2>1, <3>1, <3>2, OwnIdles
  <2>3. CASE Goto(c, IF family = "gitlab" THEN "stamp" ELSE "insert") /\ UNCHANGED hist
             /\ cmd[c].op # "reconnect"
    <3>1. CASE family = "gitlab"
      <4>1. Goto(c, "stamp") /\ "stamp" \in Stages
        BY <2>3, <3>1 DEF Stages
      <4> QED
        BY <1>1, <2>1, <2>3, <3>1, <4>1, OwnGoesTo
    <3>2. CASE family # "gitlab"
      <4>1. Goto(c, "insert") /\ "insert" \in Stages
        BY <2>3, <3>2 DEF Stages
      <4>2. Awaits(c)
        BY <1>1, <1>2, <2>1, <2>3, <3>2 DEF OwnInv, AddsNow, Adding, StageInv
      <4> QED
        BY <1>1, <2>1, <2>3, <4>1, <4>2, OwnGoesTo
    <3> QED
      BY <3>1, <3>2
  <2>4. CASE Rollback(c, FALSE) /\ UNCHANGED hist
    BY <1>1, <2>1, <2>4, OwnRollsBack
  <2>5. CASE Finish(c, FALSE)
    BY <1>1, <2>1, <2>5, OwnEnds
  <2> QED
    BY <1>4, <2>2, <2>3, <2>4, <2>5 DEF PutKey
<1>5. CASE InsertRow(c)
  <2>1. Adding(c) /\ cmd[c].at = "insert" /\ UNCHANGED <<family, used>>
        /\ cmd[c].key \in Slots
    BY <1>1, <1>5, RunsAt, Known DEF InsertRow, Adding
  <2>2. Awaits(c)
    BY <1>1, <2>1 DEF OwnInv, AddsNow
  <2>3. CASE /\ InsertSource(cmd[c].slot, IF family = "gitlab" THEN None ELSE cmd[c].key,
                             cmd[c].account)
             /\ cmd' = [cmd EXCEPT ![c].at = IF family = "gitlab" THEN "putKey" ELSE "identity",
                                   ![c].done = Append(@, cmd[c].slot)]
             /\ UNCHANGED hist
    <3> DEFINE at == IF family = "gitlab" THEN "putKey" ELSE "identity"
    <3>1. cmd' = [cmd EXCEPT ![c].at = at, ![c].done = Append(@, cmd[c].slot)]
      BY <2>3
    <3>2. /\ at \in Stages /\ at \notin {"insert", "probe", "check", "write"}
          /\ Shared => at # "putKey"
      BY DEF Stages, Shared
    <3> HIDE DEF at
    <3>3. /\ Others(c) /\ cmd'[c].at = at
          /\ cmd'[c].op = cmd[c].op /\ cmd'[c].slot = cmd[c].slot /\ cmd'[c].key = cmd[c].key
          /\ ToSet(cmd'[c].done) = ToSet(cmd[c].done) \cup {cmd[c].slot}
      BY <1>2, <3>1, <3>2, InsertMoves
    <3>4. rows' \subseteq rows \cup {cmd[c].slot}
      BY <2>3 DEF InsertSource
    <3>5. /\ ~Awaits(c)'
          /\ Minted(c)' = Minted(c) /\ AddsNow(c)
      BY <1>1, <2>1, <3>3 DEF Awaits, Minted, AddsNow
    <3> QED
      BY <1>1, <2>1, <2>2, <2>3, <3>2, <3>3, <3>4, <3>5, OthersKept, OwnFrame
  <2>4. CASE Finish(c, FALSE) /\ UNCHANGED tables
    BY <1>1, <2>1, <2>4, OwnEnds DEF tables
  <2>5. CASE Rollback(c, cmd[c].op = "add") /\ UNCHANGED <<hist, tables>>
    BY <1>1, <2>1, <2>5, OwnRollsBack DEF tables
  <2> QED
    BY <1>5, <2>3, <2>4, <2>5 DEF InsertRow
<1>6. CASE StampRef(c)
  <2>1. cmd[c].op \in {"add", "update"} /\ cmd[c].at = "stamp" /\ UNCHANGED <<family, used, rows>>
        /\ cmd[c].key \in Slots
    <3>1. cmd[c].key \in Slots
      BY <1>1, <1>2, <1>6, Known DEF StampRef, At, StageInv
    <3> QED
      BY <1>6, <3>1 DEF StampRef, At, tables, UpdateSecretRef
  <2>2. CASE Goto(c, "identity") /\ UNCHANGED hist
    BY <1>1, <2>1, <2>2, OwnGoesTo DEF Stages
  <2>3. CASE Rollback(c, TRUE) /\ UNCHANGED hist
    BY <1>1, <2>1, <2>3, OwnRollsBack
  <2>4. CASE Finish(c, FALSE)
    BY <1>1, <2>1, <2>4, OwnEnds
  <2> QED
    BY <1>6, <2>2, <2>3, <2>4 DEF StampRef
<1>7. CASE BindIdentity(c)
  <2>1. cmd[c].op \in {"add", "borrow"} /\ cmd[c].at = "identity" /\ UNCHANGED <<family, rows>>
        /\ cmd[c].key \in Slots
    <3>1. cmd[c].key \in Slots
      BY <1>1, <1>2, <1>7, Known DEF BindIdentity, At, StageInv
    <3> QED
      BY <1>7, <3>1 DEF BindIdentity, At, tables, EnsureIdentity
  <2>2. CASE cmd[c].left > 1 /\ NextProduct(c)
    <3>1. PICK s \in Slots \ used :
            /\ UNCHANGED hist
            /\ cmd' = [cmd EXCEPT ![c].at = "insert", ![c].slot = s, ![c].left = @ - 1]
      BY <2>2 DEF NextProduct
    <3>2. /\ Others(c) /\ cmd'[c].at = "insert"
          /\ cmd'[c].op = cmd[c].op /\ cmd'[c].slot = s /\ cmd'[c].key = cmd[c].key
          /\ cmd'[c].done = cmd[c].done
      BY <2>2, <3>1, NextProductMoves
    <3>3. /\ AddsNow(c) /\ AddsNow(c)' /\ Minted(c)' \subseteq Minted(c) \cup {s}
          /\ Awaits(c)'
      <4>1. ToSet(cmd[c].done) \subseteq used
        BY <1>1, RunsAt
      <4> QED
        BY <1>1, <2>1, <3>2, <4>1 DEF AddsNow, Adding, Running, Minted, Awaits
    <3>4. rows \subseteq used
      BY Known
    <3> QED
      BY <2>1, <3>1, <3>2, <3>3, <3>4, OthersKept, OwnFrame
  <2>3. CASE Finish(c, TRUE) /\ UNCHANGED used
    BY <1>1, <2>1, <2>3, OwnEnds
  <2>4. CASE /\ Rollback(c, IF family = "gitlab" THEN ref[cmd[c].slot] # None
                            ELSE cmd[c].op = "add")
             /\ UNCHANGED <<tables, used, hist>>
    <3> DEFINE own == IF family = "gitlab" THEN ref[cmd[c].slot] # None ELSE cmd[c].op = "add"
    <3>1. own \in BOOLEAN /\ Rollback(c, own)
      BY <2>4
    <3> HIDE DEF own
    <3> QED
      BY <1>1, <2>1, <2>4, <3>1, OwnRollsBack
  <2> QED
    BY <1>7, <2>2, <2>3, <2>4 DEF BindIdentity
<1> QED
  BY <1>3, <1>4, <1>5, <1>6, <1>7

LEMMA OwnWorks2 ==
    ASSUME Base, OwnInv, NEW c \in Commands,
           UndoStep(c) \/ WriteConfig(c) \/ ValidatePat(c) \/ RebindIdentity(c)
           \/ VerifyUser(c) \/ EnsureLogin(c) \/ DropKey(c)
    PROVE  OwnInv'
<1>1. Running(c)
  BY DEF Running, UndoStep, WriteConfig, ValidatePat, RebindIdentity, VerifyUser, EnsureLogin, DropKey, At
<1>2. cmd[c] \in Invocation
  BY DEF Base, CmdInv
<1>3. CASE UndoStep(c)
  <2>1. Adding(c) /\ cmd[c].at = "undo" /\ UNCHANGED <<family, used>>
    BY <1>3 DEF UndoStep
  <2>2. CASE cmd[c].undo = <<>>
    <3>1. Finish(c, FALSE) /\ UNCHANGED rows
      BY <1>3, <2>2 DEF UndoStep, tables
    <3> QED
      BY <1>1, <2>1, <3>1, OwnEnds
  <2>3. CASE cmd[c].undo # <<>>
    <3>1. rows' \subseteq rows /\ UNCHANGED hist
      BY <1>3, <2>3 DEF UndoStep, RemoveSource, tables
    <3>2. ASSUME NEW undone \in BOOLEAN,
                 cmd' = [cmd EXCEPT ![c] = [cmd[c] EXCEPT !.undo = Tail(cmd[c].undo), !.undone = undone]]
          PROVE  OwnInv'
      <4>1. /\ Others(c) /\ cmd'[c].op = cmd[c].op /\ cmd'[c].at = cmd[c].at
            /\ cmd'[c].slot = cmd[c].slot /\ cmd'[c].key = cmd[c].key /\ cmd'[c].done = cmd[c].done
        BY <2>3, <3>2, UndoMoves
      <4> QED
        BY <1>1, <2>1, <3>1, <4>1, OwnGoes
    <3>3. CASE cmd' = [cmd EXCEPT ![c].undo = Tail(@), ![c].undone = FALSE]
      <4>1. cmd' = [cmd EXCEPT ![c] = [cmd[c] EXCEPT !.undo = Tail(cmd[c].undo), !.undone = FALSE]]
        BY <3>3
      <4> QED
        BY <3>2, <4>1
    <3>4. CASE cmd' = [cmd EXCEPT ![c].undo = Tail(@)]
      <4>1. [cmd[c] EXCEPT !.undo = Tail(cmd[c].undo)]
              = [cmd[c] EXCEPT !.undo = Tail(cmd[c].undo), !.undone = cmd[c].undone]
            /\ cmd[c].undone \in BOOLEAN
        BY <1>2 DEF Invocation
      <4>2. cmd' = [cmd EXCEPT ![c] = [cmd[c] EXCEPT !.undo = Tail(cmd[c].undo), !.undone = cmd[c].undone]]
        BY <3>4, <4>1
      <4> QED
        BY <3>2, <4>1, <4>2
    <3> QED
      BY <1>3, <2>3, <3>3, <3>4 DEF UndoStep
  <2> QED
    BY <2>2, <2>3
<1>4. CASE WriteConfig(c)
  <2>1. cmd[c].op = "update" /\ UNCHANGED <<family, used, rows>>
    BY <1>4 DEF WriteConfig, At, UpdateConfig, tables
  <2>2. CASE Goto(c, "pat") /\ hist' = [hist EXCEPT !.drifted = @ \cup {cmd[c].slot}]
    <3>1. hist'.clean = hist.clean /\ hist'.gone = hist.gone /\ "pat" \in Stages /\ ~Adding(c)
      BY <2>1, <2>2, Known DEF Histories, Stages, Adding
    <3> QED
      BY <1>1, <2>1, <2>2, <3>1, OwnGoesTo
  <2>3. CASE Finish(c, FALSE)
    BY <1>1, <2>1, <2>3, OwnEnds
  <2> QED
    BY <1>4, <2>2, <2>3 DEF WriteConfig
<1>5. CASE ValidatePat(c)
  <2>1. cmd[c].op = "update" /\ UNCHANGED <<family, used, rows>> /\ ~Adding(c)
    BY <1>5 DEF ValidatePat, At, tables, Adding
  <2>2. ASSUME NEW at \in {"putKey", "identity"}, Goto(c, at), UNCHANGED hist
        PROVE  OwnInv'
    BY <1>1, <2>1, <2>2, OwnGoesTo DEF Stages
  <2>3. CASE Finish(c, FALSE)
    BY <1>1, <2>1, <2>3, OwnEnds
  <2> QED
    BY <1>5, <2>2, <2>3 DEF ValidatePat
<1>6. CASE RebindIdentity(c)
  <2>1. UNCHANGED <<family, used, rows>> /\ \E ok \in BOOLEAN : Finish(c, ok)
    BY <1>6 DEF RebindIdentity, EnsureGitlabSelfIdentity, EnsureIdentity, tables
  <2> QED
    BY <1>1, <2>1, OwnEnds
<1>7. CASE VerifyUser(c)
  <2>1. cmd[c].op = "reconnect" /\ UNCHANGED <<family, used, rows>> /\ ~Adding(c)
    BY <1>7 DEF VerifyUser, At, tables, Adding
  <2>2. CASE /\ cmd' = [cmd EXCEPT ![c].at = IF family = "github" THEN "login" ELSE "putKey",
                                  ![c].guarded = bound[cmd[c].slot] # {}]
             /\ UNCHANGED hist
    <3> DEFINE at == IF family = "github" THEN "login" ELSE "putKey"
               guarded == bound[cmd[c].slot] # {}
    <3>1. /\ at \in Stages /\ guarded \in BOOLEAN
          /\ cmd' = [cmd EXCEPT ![c].at = at, ![c].guarded = guarded]
      BY <2>2 DEF Stages
    <3> HIDE DEF at, guarded
    <3>2. /\ Others(c)
          /\ cmd'[c].op = cmd[c].op /\ cmd'[c].slot = cmd[c].slot /\ cmd'[c].key = cmd[c].key
          /\ cmd'[c].done = cmd[c].done
      BY <3>1, VerifyMoves
    <3> QED
      BY <1>1, <2>1, <2>2, <3>2, OwnGoes
  <2>3. CASE Finish(c, FALSE)
    BY <1>1, <2>1, <2>3, OwnEnds
  <2> QED
    BY <1>7, <2>2, <2>3 DEF VerifyUser
<1>8. CASE EnsureLogin(c)
  <2>1. cmd[c].op = "reconnect" /\ UNCHANGED <<family, used, rows>> /\ ~Adding(c)
    BY <1>8 DEF EnsureLogin, At, tables, Adding
  <2>2. CASE Goto(c, "putKey") /\ UNCHANGED hist
    BY <1>1, <2>1, <2>2, OwnGoesTo DEF Stages
  <2>3. CASE Finish(c, FALSE)
    BY <1>1, <2>1, <2>3, OwnEnds
  <2> QED
    BY <1>8, <2>2, <2>3 DEF EnsureLogin
<1>9. CASE DropKey(c)
  <2>1. Finish(c, TRUE) /\ UNCHANGED <<family, used, rows>>
    BY <1>9 DEF DropKey, tables
  <2> QED
    BY <1>1, <2>1, OwnEnds
<1> QED
  BY <1>3, <1>4, <1>5, <1>6, <1>7, <1>8, <1>9

LEMMA OwnWorks3 ==
    ASSUME Base, OwnInv, NEW c \in Commands, CheckDisjoint(c) \/ WriteRoot(c) \/ Rescan(c)
    PROVE  OwnInv'
<1>1. Running(c)
  BY DEF Running, CheckDisjoint, WriteRoot, Rescan, At
<1>2. cmd[c].slot \in Slots /\ cmd[c].slot \in used
  BY <1>1, RunsAt
<1>3. Adding(c) /\ cmd[c].at \in {"check", "write"} => Awaits(c)
  BY <1>1 DEF OwnInv, AddsNow
<1>4. CASE CheckDisjoint(c)
  <2>1. cmd[c].at = "check" /\ UNCHANGED <<family, used, rows>>
    BY <1>4 DEF CheckDisjoint, At, tables
  <2>2. CASE Finish(c, FALSE)
    BY <1>1, <2>1, <2>2, OwnEnds
  <2>3. CASE Goto(c, "write") /\ UNCHANGED hist
    BY <1>1, <1>3, <2>1, <2>3, OwnGoesTo DEF Stages
  <2> QED
    BY <1>4, <2>2, <2>3 DEF CheckDisjoint
<1>5. CASE WriteRoot(c)
  <2>1. cmd[c].at = "write" /\ cmd[c].op \in {"add", "update"} /\ UNCHANGED <<family, used>>
    BY <1>5 DEF WriteRoot, At
  <2>2. CASE Fault /\ Finish(c, FALSE) /\ UNCHANGED tables
    BY <1>1, <2>1, <2>2, OwnEnds DEF tables
  <2>3. CASE /\ IF cmd[c].op = "add"
                THEN /\ InsertSource(cmd[c].slot, None, cmd[c].value)
                     /\ cmd' = [cmd EXCEPT ![c].at = "rescan", ![c].done = <<cmd[c].slot>>]
                ELSE /\ UpdateConfig(cmd[c].slot, cmd[c].value)
                     /\ Goto(c, "rescan")
             /\ hist' = [hist EXCEPT !.lone = IF cmd[c].alone THEN @ \cup {cmd[c].slot}
                                              ELSE @ \ {cmd[c].slot}]
    <3>1. hist'.clean = hist.clean /\ hist'.gone = hist.gone
      BY <2>3, Known DEF Histories
    <3>2. CASE cmd[c].op = "add"
      <4>1. /\ Others(c) /\ cmd'[c].at = "rescan"
            /\ cmd'[c].op = cmd[c].op /\ cmd'[c].slot = cmd[c].slot /\ cmd'[c].key = cmd[c].key
            /\ ToSet(cmd'[c].done) = {cmd[c].slot}
        BY <1>2, <2>3, <3>2, WriteRootMoves
      <4>2. Awaits(c) /\ rows' \subseteq rows \cup {cmd[c].slot}
        BY <1>3, <2>1, <2>3, <3>2 DEF InsertSource, Adding
      <4>3. ~Awaits(c)' /\ Minted(c)' \subseteq Minted(c) /\ AddsNow(c)
        BY <1>1, <3>2, <4>1 DEF Awaits, Minted, AddsNow, Adding
      <4> QED
        BY <1>1, <2>1, <3>1, <4>1, <4>2, <4>3, OthersKept, OwnFrame
    <3>3. CASE cmd[c].op # "add"
      <4>1. Goto(c, "rescan") /\ rows' = rows /\ ~Adding(c)
        BY <2>1, <2>3, <3>3 DEF UpdateConfig, Adding
      <4> QED
        BY <1>1, <2>1, <3>1, <4>1, OwnGoesTo DEF Stages
    <3> QED
      BY <3>2, <3>3
  <2> QED
    BY <1>5, <2>2, <2>3 DEF WriteRoot
<1>6. CASE Rescan(c)
  <2>1. UNCHANGED <<family, used, rows>>
    BY <1>6 DEF Rescan, tables, ClaimRepos
  <2>2. CASE Finish(c, TRUE)
    BY <1>1, <2>1, <2>2, OwnEnds
  <2>3. CASE cmd' = [cmd EXCEPT ![c] = Idle] /\ UNCHANGED hist
    <3>1. cmd'[c] = Idle /\ Others(c)
      BY <2>3, ReplaceMoves, IdleInvocation
    <3> QED
      BY <2>1, <2>3, <3>1, OwnIdles
  <2> QED
    BY <1>6, <2>2, <2>3 DEF Rescan
<1> QED
  BY <1>4, <1>5, <1>6

\* The same division of a step for every invariant that follows.
LEMMA StepCases ==
    ASSUME Base, Next
    PROVE  \/ SetPrivate
           \/ QuitAndRestart
           \/ \E c \in Commands :
                \/ StartAddGitLab(c) \/ StartAddGitHub(c) \/ StartAddAtlassian(c) \/ StartBorrow(c)
                \/ StartUpdate(c) \/ (StartReconnect(c) /\ Shared) \/ StartDelete(c)
                \/ StartAddRoot(c) \/ StartMoveRoot(c)
           \/ \E c \in Commands :
                ProbeKey(c) \/ PutKey(c) \/ InsertRow(c) \/ StampRef(c) \/ BindIdentity(c)
           \/ \E c \in Commands :
                UndoStep(c) \/ WriteConfig(c) \/ ValidatePat(c) \/ RebindIdentity(c)
                \/ VerifyUser(c) \/ EnsureLogin(c) \/ DropKey(c)
           \/ \E c \in Commands : CheckDisjoint(c) \/ WriteRoot(c) \/ Rescan(c)
<1>1. ASSUME NEW c \in Commands, CredentialStep(c)
      PROVE  \/ StartAddGitLab(c) \/ StartAddGitHub(c) \/ StartAddAtlassian(c) \/ StartBorrow(c)
             \/ StartUpdate(c) \/ (StartReconnect(c) /\ Shared) \/ StartDelete(c)
             \/ ProbeKey(c) \/ PutKey(c) \/ InsertRow(c) \/ StampRef(c) \/ BindIdentity(c)
             \/ UndoStep(c) \/ WriteConfig(c) \/ ValidatePat(c) \/ RebindIdentity(c)
             \/ VerifyUser(c) \/ EnsureLogin(c) \/ DropKey(c)
  BY <1>1 DEF CredentialStep, ReconnectGitHub, ReconnectAtlassian, Shared
<1> QED
  BY <1>1 DEF Next, RootStep

LEMMA OwnStep ==
    ASSUME Base, OwnInv, [Next]_vars
    PROVE  OwnInv'
<1>1. CASE UNCHANGED vars
  <2>1. UNCHANGED <<cmd, rows, hist, family>>
    BY <1>1 DEF vars, tables
  <2>2. \A d \in Commands :
          /\ (Running(d)' <=> Running(d)) /\ (AddsNow(d)' <=> AddsNow(d))
          /\ (Awaits(d)' <=> Awaits(d)) /\ Minted(d)' = Minted(d)
    BY <2>1 DEF Running, AddsNow, Adding, Awaits, Minted
  <2> QED
    BY <2>1, <2>2 DEF OwnInv, Shared
<1>2. CASE SetPrivate
  BY <1>2 DEF SetPrivate, OwnInv, AddsNow, Running, Adding, Awaits, Minted, Shared
<1>3. CASE QuitAndRestart
  <2>1. \A c \in Commands : cmd'[c].at = "idle"
    BY <1>3 DEF QuitAndRestart, Idle
  <2> QED
    BY <2>1 DEF OwnInv, AddsNow, Running, Awaits
<1> QED
  BY <1>1, <1>2, <1>3, StepCases, OwnRequests, OwnWorks1, OwnWorks2, OwnWorks3

(***************************************************************************)
(* How far an add is that nothing has overlapped                           *)
(***************************************************************************)

\* Before its first insert.
Untried(c) ==
    \/ family = "gitlab" /\ cmd[c].at = "insert"
    \/ Shared /\ cmd[c].at \in {"putKey", "probe"}
    \/ family = "localgit" /\ cmd[c].at \in {"check", "write"}

LoneAdd(c) ==
    /\ cmd[c].op = "add" => cmd[c].key \in ToSet(cmd[c].done) \cup {cmd[c].slot, None}
    /\ \A r \in rows \ ToSet(cmd[c].done) : ref[r] \notin Minted(c)
    /\ \A s \in Minted(c) : keys[s] # None => cmd[c].op = "add" /\ s = cmd[c].key
    /\ cmd[c].at # "undo" => ToSet(cmd[c].done) \subseteq rows
    /\ Untried(c) => ToSet(cmd[c].done) = {}
    /\ cmd[c].op = "add" /\ family # "localgit" /\ (Untried(c) \/ cmd[c].at = "putKey")
         => keys[cmd[c].key] = None
    /\ cmd[c].at \in {"stamp", "identity"} \/ (Shared /\ cmd[c].at = "insert")
         => keys[cmd[c].key] # None
    /\ cmd[c].at = "identity" => cmd[c].slot \in ToSet(cmd[c].done) /\ ref[cmd[c].slot] = cmd[c].key
    /\ Shared /\ cmd[c].at \in {"insert", "identity"} =>
         \A s \in ToSet(cmd[c].done) : ref[s] = cmd[c].key /\ (s # cmd[c].slot => bound[s] # {})
    /\ family = "gitlab" /\ cmd[c].at \in {"putKey", "stamp", "identity"} =>
         ToSet(cmd[c].done) = {cmd[c].slot} /\ conf[cmd[c].slot] = cmd[c].account
    /\ cmd[c].at = "undo" /\ cmd[c].undone =>
         /\ \A s \in ToSet(cmd[c].done) \cap rows : <<"row", s>> \in ToSet(cmd[c].undo)
         /\ cmd[c].op = "add" /\ keys[cmd[c].key] # None
              => <<"key", cmd[c].key>> \in ToSet(cmd[c].undo)

LoneInv == \A c \in Commands : AddsNow(c) /\ cmd[c].alone => LoneAdd(c)

\* Who runs alone stays alone only by its own steps.
LEMMA LoneFrame ==
    ASSUME Base, LoneInv, NEW c \in Commands, Rest(c), UNCHANGED family,
           Running(c) \/ \A d \in Commands \ {c} : Running(d) => ~cmd'[d].alone,
           AddsNow(c)' /\ cmd'[c].alone => LoneAdd(c)'
    PROVE  LoneInv'
<1>1. ASSUME NEW d \in Commands \ {c}, AddsNow(d)', cmd'[d].alone
      PROVE  FALSE
  <2>1. AddsNow(d) /\ cmd[d].alone
    BY <1>1, KeptRuns DEF Rest, Kept
  <2>2. Running(c)
    BY <1>1, <2>1 DEF AddsNow
  <2> QED
    BY <2>1, <2>2 DEF Base, CmdInv, AloneInv, AddsNow
<1> QED
  BY <1>1 DEF LoneInv

LEMMA LoneElse ==
    ASSUME Base, LoneInv, NEW c \in Commands, Running(c), Others(c), UNCHANGED family,
           (~Adding(c) /\ cmd'[c].op = cmd[c].op) \/ cmd'[c] = Idle
    PROVE  LoneInv'
<1>1. ~AddsNow(c)'
  BY DEF AddsNow, Adding, Running, Idle
<1> QED
  BY <1>1, OthersKept, LoneFrame

LEMMA LoneEnds ==
    ASSUME Base, LoneInv, NEW c \in Commands, Running(c), NEW ok \in BOOLEAN, Finish(c, ok),
           UNCHANGED <<family, used>>
    PROVE  LoneInv'
<1>1. cmd[c] # Idle
  BY DEF Running, Idle
<1>2. cmd'[c] = Idle /\ Others(c)
  BY <1>1, FinishMoves
<1> QED
  BY <1>2, LoneElse

LEMMA LoneGoes ==
    ASSUME Base, LoneInv, NEW c \in Commands, Running(c), NEW at \in Stages, Goto(c, at),
           ~Adding(c), UNCHANGED family
    PROVE  LoneInv'
<1>1. Moved(c, at) /\ Others(c)
  BY GotoMoves DEF Base, CmdInv
<1> QED
  BY <1>1, LoneElse DEF Moved

LEMMA LoneRollsBack ==
    ASSUME Base, LoneInv, NEW c \in Commands, AddsNow(c), NEW own \in BOOLEAN,
           own => cmd[c].key \in Slots, Rollback(c, own), UNCHANGED <<family, tables, keys>>,
           cmd[c].op = "add" /\ keys[cmd[c].key] # None /\ LoneAdd(c) => own
    PROVE  LoneInv'
<1>1. /\ Others(c) /\ cmd'[c].at = "undo"
      /\ cmd'[c].op = cmd[c].op /\ cmd'[c].slot = cmd[c].slot /\ cmd'[c].key = cmd[c].key
      /\ cmd'[c].done = cmd[c].done /\ cmd'[c].alone = cmd[c].alone
      /\ \A s \in ToSet(cmd[c].done) : <<"row", s>> \in ToSet(cmd'[c].undo)
      /\ own => <<"key", cmd[c].key>> \in ToSet(cmd'[c].undo)
  BY RollbackMoves
<1>2. Running(c)
  BY DEF AddsNow
<1>3. UNCHANGED <<rows, ref, conf, bound, keys, family>> /\ Minted(c)' = Minted(c)
  BY <1>1 DEF tables, Minted
<1>4. ASSUME cmd'[c].alone
      PROVE  LoneAdd(c)'
  <2>1. LoneAdd(c)
    BY <1>1, <1>4 DEF LoneInv
  <2>2. ~Untried(c)'
    BY <1>1 DEF Untried
  <2> QED
    BY <1>1, <1>3, <2>1, <2>2 DEF LoneAdd
<1> QED
  BY <1>1, <1>2, <1>4, OthersKept, LoneFrame

\* A request: what it mints is new, and only an add has anything to keep.
LEMMA LoneAsked ==
    ASSUME Base, LoneInv, NEW c \in Commands, NEW op, NEW at, NEW s \in Slots, NEW key,
           Asked(c, op, at, s, key), UNCHANGED <<family, keys>>,
           \/ op \notin {"add", "borrow"}
           \/ /\ UNCHANGED <<rows, ref>> /\ s \notin used /\ Untried(c)'
              /\ at \in {"insert", "putKey", "probe", "check", "write"}
              /\ op = "add" => key \in {s, None}
              /\ op = "add" /\ family # "localgit" => key = s
    PROVE  LoneInv'
<1>1. /\ Rest(c) /\ cmd'[c].op = op /\ cmd'[c].at = at /\ cmd'[c].slot = s /\ cmd'[c].key = key
      /\ ToSet(cmd'[c].done) = {}
      /\ \A d \in Commands \ {c} : Running(d) => ~cmd'[d].alone
  BY DEF Asked
<1>2. ASSUME AddsNow(c)'
      PROVE  LoneAdd(c)'
  <2>1. /\ UNCHANGED <<rows, ref, keys>> /\ s \notin used /\ Untried(c)'
        /\ at \in {"insert", "putKey", "probe", "check", "write"}
        /\ op = "add" => key \in {s, None}
        /\ op = "add" /\ family # "localgit" => key = s
    BY <1>1, <1>2 DEF AddsNow, Adding
  <2>2. keys[s] = None /\ None \notin Slots /\ \A r \in rows : ref[r] # s
    BY <2>1, Known
  <2>3. Minted(c)' = {s}
    BY <1>1, <2>1, <2>2 DEF Minted
  <2>4. op = "add" => keys[key] = None \/ family = "localgit"
    BY <2>1, <2>2
  <2>5. family = "localgit" => at \notin {"putKey", "insert"}
    BY <1>1, <2>1 DEF Untried, Shared
  <2> QED
    BY <1>1, <2>1, <2>2, <2>3, <2>4, <2>5 DEF LoneAdd, Shared, Untried
<1> QED
  BY <1>1, <1>2, LoneFrame

LEMMA LoneRequests ==
    ASSUME Base, LoneInv, NEW c \in Commands,
           \/ StartAddGitLab(c) \/ StartAddGitHub(c) \/ StartAddAtlassian(c) \/ StartBorrow(c)
           \/ StartUpdate(c) \/ (StartReconnect(c) /\ Shared) \/ StartDelete(c)
           \/ StartAddRoot(c) \/ StartMoveRoot(c)
    PROVE  LoneInv'
<1>1. rows \subseteq Slots
  BY Known
<1>2. ASSUME NEW s \in Slots \ used, NEW at \in {"insert", "putKey"}, NEW a \in Accounts,
             NEW n \in 1 .. 2, StartWith(c, s, at, a, n),
             \/ family = "gitlab" /\ at = "insert"
             \/ Shared /\ at = "putKey"
      PROVE  LoneInv'
  <2>1. Asked(c, "add", at, s, s) /\ UNCHANGED <<family, rows, ref, keys>>
    BY <1>2, AddRequest DEF tables
  <2>2. Untried(c)'
    BY <1>2, <2>1 DEF Asked, Untried, Shared
  <2> QED
    BY <1>2, <2>1, <2>2, LoneAsked
<1>3. CASE StartAddGitLab(c) \/ StartAddGitHub(c) \/ StartAddAtlassian(c)
  <2>1. CASE StartAddGitLab(c)
    <3>1. PICK s \in Slots \ used, a \in Accounts : StartWith(c, s, "insert", a, 1)
      BY <2>1 DEF StartAddGitLab
    <3>2. family = "gitlab" /\ 1 \in 1 .. 2 /\ "insert" \in {"insert", "putKey"}
      BY <2>1 DEF StartAddGitLab
    <3> QED
      BY <1>2, <3>1, <3>2
  <2>2. CASE StartAddGitHub(c)
    BY <1>2, <2>2 DEF StartAddGitHub, Shared
  <2>3. CASE StartAddAtlassian(c)
    BY <1>2, <2>3 DEF StartAddAtlassian, Shared
  <2> QED
    BY <1>3, <2>1, <2>2, <2>3
<1>4. CASE StartBorrow(c)
  <2>1. PICK s \in Slots \ used, r \in rows :
             Asked(c, "borrow", "probe", s, ref[r]) /\ UNCHANGED <<family, rows, ref, keys>> /\ Shared
    BY <1>4, BorrowRequest DEF tables
  <2>2. Untried(c)'
    BY <2>1 DEF Asked, Untried, Shared
  <2> QED
    BY <2>1, <2>2, LoneAsked
<1>5. CASE StartUpdate(c)
  <2>1. PICK s \in rows, at \in {"config", "pat"} :
             Asked(c, "update", at, s, s) /\ UNCHANGED <<family, keys>>
    BY <1>5, UpdateRequest
  <2> QED
    BY <1>1, <2>1, LoneAsked
<1>6. CASE StartReconnect(c) /\ Shared
  <2>1. PICK s \in rows : Asked(c, "reconnect", "verify", s, ref[s]) /\ UNCHANGED <<family, keys>>
    BY <1>6, ReconnectRequest
  <2> QED
    BY <1>1, <2>1, LoneAsked
<1>7. CASE StartDelete(c)
  <2>1. PICK s \in rows :
             Asked(c, "delete", "dropKey", s, Orphaned(s)) /\ UNCHANGED <<family, keys>>
    BY <1>7, DeleteRequest
  <2> QED
    BY <1>1, <2>1, LoneAsked
<1>8. CASE StartAddRoot(c)
  <2>1. PICK s \in Slots \ used, root \in Roots :
             /\ Begin(c, [Idle EXCEPT !.op = "add", !.at = "check", !.slot = s, !.value = root])
             /\ family = "localgit" /\ UNCHANGED <<family, rows, ref, keys>>
    BY <1>8 DEF StartAddRoot, tables
  <2>2. Asked(c, "add", "check", s, None)
    BY <2>1, CheckRequest
  <2>3. Untried(c)'
    BY <2>1, <2>2 DEF Asked, Untried
  <2> QED
    BY <2>1, <2>2, <2>3, LoneAsked
<1>9. CASE StartMoveRoot(c)
  <2>1. PICK s \in rows, root \in Roots :
             /\ Begin(c, [Idle EXCEPT !.op = "update", !.at = "check", !.slot = s, !.value = root])
             /\ UNCHANGED <<family, keys>>
    BY <1>9 DEF StartMoveRoot
  <2>2. Asked(c, "update", "check", s, None)
    BY <1>1, <2>1, CheckRequest
  <2> QED
    BY <1>1, <2>1, <2>2, LoneAsked
<1> QED
  BY <1>3, <1>4, <1>5, <1>6, <1>7, <1>8, <1>9

\* An add that goes on, and whose progress fits its next stage.
LEMMA LoneAdvances ==
    ASSUME Base, LoneInv, NEW c \in Commands, AddsNow(c), Rest(c), UNCHANGED family,
           cmd'[c].alone => cmd[c].alone,
           LoneAdd(c) /\ (\A d \in Commands \ {c} : ~Running(d)) => LoneAdd(c)'
    PROVE  LoneInv'
<1>1. Running(c)
  BY DEF AddsNow
<1>2. cmd[c].alone => LoneAdd(c) /\ \A d \in Commands \ {c} : ~Running(d)
  BY <1>1 DEF LoneInv, Base, CmdInv, AloneInv
<1> QED
  BY <1>1, <1>2, LoneFrame

LEMMA LoneWorks1 ==
    ASSUME Base, OwnInv, LoneInv, NEW c \in Commands,
           ProbeKey(c) \/ PutKey(c) \/ InsertRow(c) \/ StampRef(c) \/ BindIdentity(c)
    PROVE  LoneInv'
<1>1. Running(c)
  BY DEF Running, ProbeKey, PutKey, InsertRow, StampRef, BindIdentity, At
<1>2. /\ StageInv(c) /\ cmd[c] # Idle /\ cmd[c].slot \in used /\ cmd[c].slot \in Slots
      /\ None \notin Slots /\ None \notin Accounts
  BY <1>1, RunsAt, Known, SourcesAssumption
<1>3. CASE ProbeKey(c)
  <2>1. cmd[c].op = "borrow" /\ cmd[c].at = "probe" /\ UNCHANGED <<family, tables, keys, used>>
    BY <1>3 DEF ProbeKey, At
  <2>2. CASE Finish(c, FALSE)
    BY <1>1, <2>1, <2>2, LoneEnds
  <2>3. CASE Goto(c, "insert") /\ keys[cmd[c].key] # None
    <3>1. Moved(c, "insert") /\ Others(c)
      BY <2>3, GotoMoves DEF Base, CmdInv, Stages
    <3>2. Shared /\ AddsNow(c) /\ Untried(c)
      BY <1>1, <1>2, <2>1 DEF StageInv, AddsNow, Adding, Untried
    <3>3. UNCHANGED <<rows, ref, conf, bound, keys, family>> /\ Minted(c)' = Minted(c)
      BY <2>1, <3>1 DEF tables, Moved, Minted
    <3>4. ASSUME LoneAdd(c)
          PROVE  LoneAdd(c)'
      BY <2>1, <2>3, <3>1, <3>2, <3>3, <3>4 DEF LoneAdd, Moved, Untried, Shared
    <3> QED
      BY <3>1, <3>2, <3>3, <3>4, OthersKept, LoneAdvances DEF Moved
  <2> QED
    BY <1>3, <2>2, <2>3 DEF ProbeKey
<1>4. CASE PutKey(c)
  <2>1. cmd[c].op \in {"add", "update", "reconnect"} /\ cmd[c].at = "putKey"
        /\ UNCHANGED <<family, used, rows, ref, conf, bound, tables>>
    BY <1>4 DEF PutKey, At, tables
  <2>2. CASE cmd' = [cmd EXCEPT ![c] = Idle]
    <3>1. cmd'[c] = Idle /\ Others(c)
      BY <2>2, ReplaceMoves, IdleInvocation
    <3> QED
      BY <1>1, <2>1, <3>1, LoneElse
  <2>3. CASE /\ Goto(c, IF family = "gitlab" THEN "stamp" ELSE "insert") /\ cmd[c].op # "reconnect"
             /\ keys' = [keys EXCEPT ![cmd[c].key] = cmd[c].account]
    <3> DEFINE at == IF family = "gitlab" THEN "stamp" ELSE "insert"
    <3>1. Goto(c, at) /\ at \in Stages
      BY <2>3 DEF Stages
    <3> HIDE DEF at
    <3>2. Moved(c, at) /\ Others(c)
      BY <3>1, GotoMoves DEF Base, CmdInv
    <3>3. CASE cmd[c].op # "add"
      BY <1>1, <2>1, <2>3, <3>1, <3>3, LoneGoes DEF Adding
    <3>4. CASE cmd[c].op = "add"
      <4>1. /\ AddsNow(c) /\ (Awaits(c) \/ family = "gitlab")
            /\ cmd[c].account \in Accounts /\ cmd[c].key \in Slots /\ family # "localgit"
        BY <1>1, <1>2, <2>1, <3>4, Known DEF StageInv, AddsNow, Adding, OwnInv, Shared
      <4>2. /\ keys'[cmd[c].key] = cmd[c].account /\ keys'[cmd[c].key] # None
            /\ \A s \in Slots : s # cmd[c].key => keys'[s] = keys[s]
        BY <1>2, <2>3, <4>1, Known
      <4>3. Minted(c)' = Minted(c) /\ Minted(c) \subseteq Slots
        BY <1>1, <3>2, MintedUsed, Known DEF Moved, Minted
      <4>4. ASSUME LoneAdd(c)
            PROVE  LoneAdd(c)'
        <5>1. CASE family = "gitlab"
          <6>1. at = "stamp" /\ ~Untried(c)'
            BY <3>2, <5>1 DEF at, Moved, Untried, Shared
          <6> QED
            BY <2>1, <3>2, <3>4, <4>2, <4>3, <4>4, <5>1, <6>1 DEF LoneAdd, Moved, Shared
        <5>2. CASE family # "gitlab"
          <6>1. at = "insert" /\ Shared /\ Untried(c) /\ ~Untried(c)'
            BY <2>1, <3>2, <4>1, <5>2, <1>2 DEF at, Moved, Untried, Shared, StageInv
          <6> QED
            BY <2>1, <3>2, <3>4, <4>2, <4>3, <4>4, <6>1 DEF LoneAdd, Moved, Shared
        <5> QED
          BY <5>1, <5>2
      <4> QED
        BY <1>1, <2>1, <3>2, <3>4, <4>4, OthersKept, LoneAdvances DEF Moved, AddsNow, Adding
    <3> QED
      BY <3>3, <3>4
  <2>4. CASE Rollback(c, FALSE) /\ UNCHANGED keys /\ cmd[c].op = "add" /\ family = "gitlab"
    <3>1. AddsNow(c)
      BY <1>1, <2>4 DEF AddsNow, Adding
    <3>2. LoneAdd(c) => keys[cmd[c].key] = None
      BY <2>1, <2>4 DEF LoneAdd
    <3> QED
      BY <2>1, <2>4, <3>1, <3>2, LoneRollsBack
  <2>5. CASE Finish(c, FALSE)
    BY <1>1, <2>1, <2>5, LoneEnds
  <2> QED
    BY <1>4, <2>2, <2>3, <2>4, <2>5 DEF PutKey
<1>5. CASE InsertRow(c)
  <2>1. Adding(c) /\ AddsNow(c) /\ Awaits(c) /\ cmd[c].at = "insert" /\ cmd[c].key \in Slots
        /\ cmd[c].account \in Accounts /\ UNCHANGED <<family, used, keys>> /\ (family # "gitlab" => Shared)
        /\ family # "localgit"
    <3>1. Adding(c) /\ AddsNow(c) /\ cmd[c].at = "insert" /\ UNCHANGED <<family, used, keys>>
      BY <1>1, <1>5 DEF InsertRow, AddsNow
    <3>2. /\ cmd[c].key \in Slots /\ cmd[c].account \in Accounts /\ family # "localgit"
          /\ family # "gitlab" => Shared
      BY <1>2, <3>1, Known DEF StageInv, Adding, Shared
    <3> QED
      BY <3>1, <3>2 DEF OwnInv
  <2>2. CASE /\ InsertSource(cmd[c].slot, IF family = "gitlab" THEN None ELSE cmd[c].key,
                             cmd[c].account)
             /\ cmd' = [cmd EXCEPT ![c].at = IF family = "gitlab" THEN "putKey" ELSE "identity",
                                   ![c].done = Append(@, cmd[c].slot)]
    <3> DEFINE at == IF family = "gitlab" THEN "putKey" ELSE "identity"
               key == IF family = "gitlab" THEN None ELSE cmd[c].key
    <3>1. cmd' = [cmd EXCEPT ![c].at = at, ![c].done = Append(@, cmd[c].slot)]
          /\ InsertSource(cmd[c].slot, key, cmd[c].account)
      BY <2>2
    <3>2. /\ at \in Stages /\ (family = "gitlab" => at = "putKey" /\ key = None)
          /\ (family # "gitlab" => at = "identity" /\ key = cmd[c].key)
      BY DEF Stages
    <3> HIDE DEF at, key
    <3>3. /\ Others(c) /\ cmd'[c].at = at /\ cmd'[c].alone = cmd[c].alone
          /\ cmd'[c].op = cmd[c].op /\ cmd'[c].slot = cmd[c].slot /\ cmd'[c].key = cmd[c].key
          /\ cmd'[c].account = cmd[c].account
          /\ ToSet(cmd'[c].done) = ToSet(cmd[c].done) \cup {cmd[c].slot}
      BY <1>2, <3>1, <3>2, InsertMoves
    <3>4. /\ rows' = rows \cup {cmd[c].slot} /\ bound' = bound
          /\ ref'[cmd[c].slot] = key /\ conf'[cmd[c].slot] = cmd[c].account
          /\ \A s \in Slots : s # cmd[c].slot => ref'[s] = ref[s] /\ conf'[s] = conf[s]
      BY <1>2, <3>1 DEF InsertSource, Base, TypeOK
    <3>5. /\ Minted(c)' = Minted(c) /\ ~Untried(c)'
          /\ ToSet(cmd[c].done) \subseteq Slots /\ rows \subseteq Slots
          /\ cmd[c].slot \notin ToSet(cmd[c].done)
      BY <1>1, <2>1, <3>2, <3>3, RunsAt, Known DEF Minted, Untried, Shared, Awaits
    <3>6. ASSUME LoneAdd(c)
          PROVE  LoneAdd(c)'
      <4>1. CASE family = "gitlab"
        BY <1>2, <2>1, <3>2, <3>3, <3>4, <3>5, <3>6, <4>1 DEF LoneAdd, Shared, Untried
      <4>2. CASE family # "gitlab"
        <5>1. Shared /\ Shared' /\ at = "identity" /\ key = cmd[c].key
          BY <2>1, <3>2, <4>2 DEF Shared
        <5>2. /\ \A s \in ToSet(cmd[c].done) : ref[s] = cmd[c].key /\ bound[s] # {}
              /\ \A r \in rows \ ToSet(cmd[c].done) : ref[r] \notin Minted(c)
              /\ \A s \in Minted(c) : keys[s] # None => cmd[c].op = "add" /\ s = cmd[c].key
              /\ ToSet(cmd[c].done) \subseteq rows /\ keys[cmd[c].key] # None
              /\ cmd[c].op = "add" => cmd[c].key \in ToSet(cmd[c].done) \cup {cmd[c].slot, None}
          BY <2>1, <3>5, <3>6, <5>1 DEF LoneAdd
        <5>3. \A s \in ToSet(cmd'[c].done) : ref'[s] = cmd[c].key /\ (s # cmd[c].slot => bound'[s] # {})
          BY <1>2, <3>3, <3>4, <3>5, <5>1, <5>2
        <5> QED
          BY <1>2, <2>1, <3>3, <3>4, <3>5, <4>2, <5>1, <5>2, <5>3 DEF LoneAdd
      <4> QED
        BY <4>1, <4>2
    <3> QED
      BY <2>1, <3>3, <3>6, OthersKept, LoneAdvances
  <2>3. CASE Finish(c, FALSE)
    BY <1>1, <2>1, <2>3, LoneEnds
  <2>4. CASE Rollback(c, cmd[c].op = "add") /\ UNCHANGED tables
    BY <2>1, <2>4, LoneRollsBack
  <2> QED
    BY <1>5, <2>2, <2>3, <2>4 DEF InsertRow
<1>6. CASE StampRef(c)
  <2>1. cmd[c].op \in {"add", "update"} /\ cmd[c].at = "stamp" /\ UNCHANGED <<family, used, keys>>
        /\ cmd[c].key \in Slots /\ family = "gitlab"
    <3>1. cmd[c].key \in Slots /\ family = "gitlab"
      BY <1>1, <1>2, <1>6, Known DEF StampRef, At, StageInv
    <3> QED
      BY <1>6, <3>1 DEF StampRef, At
  <2>2. CASE UpdateSecretRef(cmd[c].slot, cmd[c].key) /\ Goto(c, "identity")
    <3>1. CASE cmd[c].op # "add"
      BY <1>1, <2>1, <2>2, <3>1, LoneGoes DEF Adding, Stages
    <3>2. CASE cmd[c].op = "add"
      <4>1. Moved(c, "identity") /\ Others(c)
        BY <2>2, GotoMoves DEF Base, CmdInv, Stages
      <4>2. AddsNow(c) /\ Minted(c)' = Minted(c) /\ ~Untried(c)' /\ ~Shared /\ ~Shared'
        BY <1>1, <2>1, <3>2, <4>1 DEF AddsNow, Adding, Moved, Minted, Untried, Shared
      <4>3. /\ UNCHANGED <<rows, conf, bound>>
            /\ cmd[c].slot \in rows => ref'[cmd[c].slot] = cmd[c].key
            /\ \A s \in Slots : s # cmd[c].slot => ref'[s] = ref[s]
        BY <1>2, <2>2 DEF UpdateSecretRef, Base, TypeOK
      <4>4. ASSUME LoneAdd(c)
            PROVE  LoneAdd(c)'
        <5>1. /\ ToSet(cmd[c].done) = {cmd[c].slot} /\ cmd[c].slot \in rows
              /\ conf[cmd[c].slot] = cmd[c].account /\ keys[cmd[c].key] # None
          BY <2>1, <4>4 DEF LoneAdd
        <5> QED
          BY <1>2, <2>1, <3>2, <4>1, <4>2, <4>3, <4>4, <5>1, Known DEF LoneAdd, Moved
      <4> QED
        BY <2>1, <4>1, <4>2, <4>4, OthersKept, LoneAdvances DEF Moved
    <3> QED
      BY <3>1, <3>2
  <2>3. CASE Rollback(c, TRUE) /\ UNCHANGED tables /\ cmd[c].op = "add"
    BY <1>1, <2>1, <2>3, LoneRollsBack DEF AddsNow, Adding
  <2>4. CASE Finish(c, FALSE)
    BY <1>1, <2>1, <2>4, LoneEnds
  <2> QED
    BY <1>6, <2>2, <2>3, <2>4 DEF StampRef
<1>7. CASE BindIdentity(c)
  <2>1. cmd[c].op \in {"add", "borrow"} /\ cmd[c].at = "identity" /\ UNCHANGED <<family, keys>>
        /\ cmd[c].key \in Slots /\ cmd[c].account \in Accounts /\ AddsNow(c)
        /\ (family = "gitlab" => cmd[c].left = 1 /\ cmd[c].op = "add")
        /\ (family # "gitlab" => Shared)
    <3>1. cmd[c].op \in {"add", "borrow"} /\ cmd[c].at = "identity" /\ UNCHANGED <<family, keys>>
      BY <1>7 DEF BindIdentity, At
    <3> QED
      BY <1>1, <1>2, <3>1, Known DEF StageInv, AddsNow, Adding, Shared
  <2>2. CASE EnsureIdentity(cmd[c].slot, cmd[c].account) /\ cmd[c].left > 1 /\ NextProduct(c)
    <3>1. PICK s \in Slots \ used :
             cmd' = [cmd EXCEPT ![c].at = "insert", ![c].slot = s, ![c].left = @ - 1]
      BY <2>2 DEF NextProduct
    <3>2. /\ Others(c) /\ cmd'[c].at = "insert" /\ cmd'[c].alone = cmd[c].alone
          /\ cmd'[c].op = cmd[c].op /\ cmd'[c].slot = s /\ cmd'[c].key = cmd[c].key
          /\ cmd'[c].done = cmd[c].done
      BY <2>2, <3>1, NextProductMoves
    <3>3. /\ UNCHANGED <<rows, ref, conf>> /\ bound'[cmd[c].slot] # {}
          /\ \A x \in Slots : bound[x] # {} => bound'[x] # {}
      BY <1>2, <2>2 DEF EnsureIdentity, Base, TypeOK
    <3>4. Shared /\ Shared' /\ ~Untried(c)'
      BY <2>1, <2>2, <3>2 DEF Shared, Untried
    <3>5. keys[s] = None /\ rows \subseteq Slots /\ \A r \in rows : ref[r] # s
      BY Known
    <3>6. ASSUME LoneAdd(c)
          PROVE  LoneAdd(c)'
      <4>1. /\ cmd[c].slot \in ToSet(cmd[c].done) /\ ToSet(cmd[c].done) \subseteq rows
            /\ keys[cmd[c].key] # None
            /\ \A x \in ToSet(cmd[c].done) : ref[x] = cmd[c].key
                                             /\ (x # cmd[c].slot => bound[x] # {})
            /\ \A r \in rows \ ToSet(cmd[c].done) : ref[r] \notin Minted(c)
            /\ \A x \in Minted(c) : keys[x] # None => cmd[c].op = "add" /\ x = cmd[c].key
            /\ cmd[c].op = "add" => cmd[c].key \in ToSet(cmd[c].done) \cup {cmd[c].slot, None}
        BY <2>1, <3>4, <3>6 DEF LoneAdd
      <4>2. Minted(c)' \subseteq Minted(c) \cup {s}
        BY <3>2 DEF Minted
      <4>3. \A x \in ToSet(cmd[c].done) : ref'[x] = cmd[c].key /\ bound'[x] # {}
        BY <3>3, <3>5, <4>1
      <4> QED
        BY <1>2, <2>1, <3>2, <3>3, <3>4, <3>5, <4>1, <4>2, <4>3 DEF LoneAdd
    <3> QED
      BY <2>1, <3>2, <3>6, OthersKept, LoneAdvances
  <2>3. CASE Finish(c, TRUE) /\ UNCHANGED used
    BY <1>1, <2>1, <2>3, LoneEnds
  <2>4. CASE /\ Rollback(c, IF family = "gitlab" THEN ref[cmd[c].slot] # None
                            ELSE cmd[c].op = "add")
             /\ UNCHANGED tables
    <3> DEFINE own == IF family = "gitlab" THEN ref[cmd[c].slot] # None ELSE cmd[c].op = "add"
    <3>1. own \in BOOLEAN /\ Rollback(c, own)
      BY <2>4
    <3>2. cmd[c].op = "add" /\ LoneAdd(c) => own
      BY <1>2, <2>1 DEF LoneAdd
    <3> HIDE DEF own
    <3> QED
      BY <2>1, <2>4, <3>1, <3>2, LoneRollsBack
  <2> QED
    BY <1>7, <2>2, <2>3, <2>4 DEF BindIdentity
<1> QED
  BY <1>3, <1>4, <1>5, <1>6, <1>7

\* What a step of a rollback does.
LEMMA UndoCases ==
    ASSUME Base, NEW c \in Commands, UndoStep(c)
    PROVE  /\ Adding(c) /\ cmd[c].at = "undo" /\ AddsNow(c) /\ UNCHANGED <<family, used>>
           /\ \/ cmd[c].undo = <<>> /\ Finish(c, FALSE) /\ UNCHANGED <<tables, keys>>
              \/ /\ UNCHANGED hist /\ Others(c)
                 /\ cmd'[c].op = cmd[c].op /\ cmd'[c].at = cmd[c].at
                 /\ cmd'[c].slot = cmd[c].slot /\ cmd'[c].key = cmd[c].key
                 /\ cmd'[c].account = cmd[c].account /\ cmd'[c].done = cmd[c].done
                 /\ cmd'[c].alone = cmd[c].alone
                 /\ cmd[c].undo # <<>>
                 /\ ToSet(cmd[c].undo) \subseteq {Head(cmd[c].undo)} \cup ToSet(cmd'[c].undo)
                 /\ Head(cmd[c].undo) \in {"row", "key"} \X Slots
                 /\ \/ /\ Head(cmd[c].undo)[1] = "row" /\ RemoveSource(Head(cmd[c].undo)[2])
                       /\ UNCHANGED keys /\ cmd'[c].undone = cmd[c].undone
                    \/ /\ Head(cmd[c].undo)[1] # "row" /\ UNCHANGED tables
                       /\ keys' = [keys EXCEPT ![cmd[c].key] = None] /\ cmd[c].op = "add"
                       /\ cmd'[c].undone = cmd[c].undone
                    \/ UNCHANGED <<tables, keys>> /\ cmd'[c].undone = FALSE
<1>1. Adding(c) /\ cmd[c].at = "undo" /\ AddsNow(c) /\ UNCHANGED <<family, used>>
  BY DEF UndoStep, AddsNow, Running
<1>2. CASE cmd[c].undo = <<>>
  BY <1>1, <1>2 DEF UndoStep
<1>3. CASE cmd[c].undo # <<>>
  <2>1. UNCHANGED hist
    BY <1>3 DEF UndoStep
  <2>2. CASE /\ cmd' = [cmd EXCEPT ![c].undo = Tail(@)]
             /\ \/ /\ Head(cmd[c].undo)[1] = "row" /\ RemoveSource(Head(cmd[c].undo)[2])
                   /\ UNCHANGED keys
                \/ /\ Head(cmd[c].undo)[1] # "row" /\ UNCHANGED tables
                   /\ keys' = [keys EXCEPT ![cmd[c].key] = None]
    <3>1. [cmd[c] EXCEPT !.undo = Tail(cmd[c].undo)]
            = [cmd[c] EXCEPT !.undo = Tail(cmd[c].undo), !.undone = cmd[c].undone]
          /\ cmd[c].undone \in BOOLEAN
      BY DEF Base, CmdInv, Invocation
    <3>2. cmd' = [cmd EXCEPT ![c] = [cmd[c] EXCEPT !.undo = Tail(cmd[c].undo), !.undone = cmd[c].undone]]
      BY <2>2, <3>1
    <3>3. Head(cmd[c].undo)[1] # "row" => cmd[c].op = "add"
      <4>1. StageInv(c) /\ cmd[c] # Idle
        BY <1>1, RunsAt DEF AddsNow
      <4>2. cmd[c].op # "add" => OnlyRows(c)
        BY <1>1, <4>1 DEF StageInv, Adding
      <4>3. Head(cmd[c].undo) \in ToSet(cmd[c].undo)
        BY <1>3, <3>1, <3>2, UndoMoves
      <4> QED
        BY <4>2, <4>3 DEF OnlyRows
    <3> QED
      BY <1>1, <1>3, <2>1, <2>2, <3>1, <3>2, <3>3, UndoMoves
  <2>3. CASE cmd' = [cmd EXCEPT ![c].undo = Tail(@), ![c].undone = FALSE] /\ UNCHANGED <<tables, keys>>
    <3>1. cmd' = [cmd EXCEPT ![c] = [cmd[c] EXCEPT !.undo = Tail(cmd[c].undo), !.undone = FALSE]]
      BY <2>3
    <3> QED
      BY <1>1, <1>3, <2>1, <2>3, <3>1, UndoMoves
  <2> QED
    BY <1>3, <2>2, <2>3 DEF UndoStep
<1> QED
  BY <1>2, <1>3

LEMMA LoneWorks2 ==
    ASSUME Base, LoneInv, NEW c \in Commands,
           UndoStep(c) \/ WriteConfig(c) \/ ValidatePat(c) \/ RebindIdentity(c)
           \/ VerifyUser(c) \/ EnsureLogin(c) \/ DropKey(c)
    PROVE  LoneInv'
<1>1. Running(c)
  BY DEF Running, UndoStep, WriteConfig, ValidatePat, RebindIdentity, VerifyUser, EnsureLogin, DropKey, At
<1>2. CASE UndoStep(c)
  <2>1. AddsNow(c) /\ cmd[c].at = "undo" /\ UNCHANGED <<family, used>>
    BY <1>2, UndoCases
  <2>2. CASE Finish(c, FALSE)
    BY <1>1, <2>1, <2>2, LoneEnds
  <2>3. ASSUME Others(c), cmd'[c].op = cmd[c].op, cmd'[c].at = cmd[c].at,
               cmd'[c].slot = cmd[c].slot, cmd'[c].key = cmd[c].key,
               cmd'[c].done = cmd[c].done, cmd'[c].alone = cmd[c].alone,
               ToSet(cmd[c].undo) \subseteq {Head(cmd[c].undo)} \cup ToSet(cmd'[c].undo),
               Head(cmd[c].undo) \in {"row", "key"} \X Slots,
               \/ /\ Head(cmd[c].undo)[1] = "row" /\ RemoveSource(Head(cmd[c].undo)[2])
                  /\ UNCHANGED keys /\ cmd'[c].undone = cmd[c].undone
               \/ /\ Head(cmd[c].undo)[1] # "row" /\ UNCHANGED tables
                  /\ keys' = [keys EXCEPT ![cmd[c].key] = None]
                  /\ cmd'[c].undone = cmd[c].undone
               \/ UNCHANGED <<tables, keys>> /\ cmd'[c].undone = FALSE
        PROVE  LoneInv'
    <3> DEFINE head == Head(cmd[c].undo)
    <3>1. Minted(c)' = Minted(c) /\ ~Untried(c)' /\ rows \subseteq Slots /\ used \subseteq Slots
          /\ cmd[c].key \in Slots
      <4>1. cmd[c].key \in Slots
        BY <1>1, <2>1, RunsAt, Known DEF StageInv, AddsNow, Adding
      <4> QED
        BY <2>1, <2>3, <4>1, Known DEF Minted, Untried, Shared
    <3>2. CASE head[1] = "row" /\ RemoveSource(head[2]) /\ UNCHANGED keys
               /\ cmd'[c].undone = cmd[c].undone
      <4>1. /\ rows' = rows \ {head[2]}
            /\ \A s \in Slots : s # head[2] => ref'[s] = ref[s]
        BY <2>3, <3>2 DEF RemoveSource, Base, TypeOK
      <4>2. \A s \in ToSet(cmd[c].done) \cap rows' :
                <<"row", s>> \in ToSet(cmd[c].undo) => <<"row", s>> \in ToSet(cmd'[c].undo)
        BY <2>3, <4>1
      <4>3. \A k : <<"key", k>> \in ToSet(cmd[c].undo) => <<"key", k>> \in ToSet(cmd'[c].undo)
        BY <2>3, <3>2
      <4>4. ASSUME LoneAdd(c)
            PROVE  LoneAdd(c)'
        BY <2>1, <2>3, <3>1, <3>2, <4>1, <4>2, <4>3, <4>4 DEF LoneAdd
      <4> QED
        BY <2>1, <2>3, <4>4, OthersKept, LoneAdvances
    <3>3. CASE /\ head[1] # "row" /\ UNCHANGED <<rows, ref, bound>>
               /\ keys' = [keys EXCEPT ![cmd[c].key] = None]
               /\ cmd'[c].undone = cmd[c].undone
      <4>1. keys'[cmd[c].key] = None /\ \A s \in Slots : keys'[s] # None => keys[s] # None
        BY <3>1, <3>3, Known
      <4>2. \A s : <<"row", s>> \in ToSet(cmd[c].undo) => <<"row", s>> \in ToSet(cmd'[c].undo)
        BY <2>3, <3>3
      <4>3. Minted(c) \subseteq Slots
        BY <1>1, <3>1, MintedUsed
      <4>4. ASSUME LoneAdd(c)
            PROVE  LoneAdd(c)'
        BY <2>1, <2>3, <3>1, <3>3, <4>1, <4>2, <4>3, <4>4 DEF LoneAdd
      <4> QED
        BY <2>1, <2>3, <4>4, OthersKept, LoneAdvances
    <3>4. CASE UNCHANGED <<rows, ref, keys>> /\ cmd'[c].undone = FALSE
      <4>1. ASSUME LoneAdd(c)
            PROVE  LoneAdd(c)'
        BY <2>1, <2>3, <3>1, <3>4, <4>1 DEF LoneAdd
      <4> QED
        BY <2>1, <2>3, <4>1, OthersKept, LoneAdvances
    <3> QED
      BY <2>3, <3>2, <3>3, <3>4 DEF tables
  <2> QED
    BY <1>2, <2>2, <2>3, UndoCases
<1>3. CASE WriteConfig(c) \/ ValidatePat(c) \/ RebindIdentity(c) \/ EnsureLogin(c) \/ DropKey(c)
  <2>1. ~Adding(c) /\ UNCHANGED <<family, used>>
    BY <1>3 DEF WriteConfig, ValidatePat, RebindIdentity, EnsureLogin, DropKey, At, Adding
  <2>2. CASE \E ok \in BOOLEAN : Finish(c, ok)
    BY <1>1, <2>1, <2>2, LoneEnds
  <2>3. CASE \E at \in Stages : Goto(c, at)
    BY <1>1, <2>1, <2>3, LoneGoes
  <2>4. (\E ok \in BOOLEAN : Finish(c, ok)) \/ (\E at \in {"pat", "putKey", "identity"} : Goto(c, at))
    BY <1>3 DEF WriteConfig, ValidatePat, RebindIdentity, EnsureLogin, DropKey
  <2>5. {"pat", "putKey", "identity"} \subseteq Stages
    BY DEF Stages
  <2> QED
    BY <2>2, <2>3, <2>4, <2>5
<1>4. CASE VerifyUser(c)
  <2>1. ~Adding(c) /\ UNCHANGED <<family, used>>
    BY <1>4 DEF VerifyUser, At, Adding
  <2>2. CASE cmd' = [cmd EXCEPT ![c].at = IF family = "github" THEN "login" ELSE "putKey",
                               ![c].guarded = bound[cmd[c].slot] # {}]
    <3> DEFINE at == IF family = "github" THEN "login" ELSE "putKey"
               guarded == bound[cmd[c].slot] # {}
    <3>1. /\ at \in Stages /\ guarded \in BOOLEAN
          /\ cmd' = [cmd EXCEPT ![c].at = at, ![c].guarded = guarded]
      BY <2>2 DEF Stages
    <3> HIDE DEF at, guarded
    <3>2. Others(c) /\ cmd'[c].op = cmd[c].op
      BY <3>1, VerifyMoves
    <3> QED
      BY <1>1, <2>1, <3>2, LoneElse
  <2>3. CASE Finish(c, FALSE)
    BY <1>1, <2>1, <2>3, LoneEnds
  <2> QED
    BY <1>4, <2>2, <2>3 DEF VerifyUser
<1> QED
  BY <1>2, <1>3, <1>4

LEMMA LoneWorks3 ==
    ASSUME Base, LoneInv, NEW c \in Commands, CheckDisjoint(c) \/ WriteRoot(c) \/ Rescan(c)
    PROVE  LoneInv'
<1>1. Running(c)
  BY DEF Running, CheckDisjoint, WriteRoot, Rescan, At
<1>2. cmd[c].slot \in Slots /\ UNCHANGED <<family, used, keys>> /\ cmd[c].op \in {"add", "update"}
  BY <1>1, RunsAt DEF CheckDisjoint, WriteRoot, Rescan, At
<1>3. CASE Finish(c, FALSE) \/ Finish(c, TRUE)
  BY <1>1, <1>2, <1>3, LoneEnds
<1>4. CASE cmd' = [cmd EXCEPT ![c] = Idle]
  <2>1. cmd'[c] = Idle /\ Others(c)
    BY <1>4, ReplaceMoves, IdleInvocation
  <2> QED
    BY <1>1, <1>2, <2>1, LoneElse
<1>5. CASE cmd[c].op = "update" /\ \E at \in {"write", "rescan"} : Goto(c, at)
  BY <1>1, <1>2, <1>5, LoneGoes DEF Adding, Stages
<1>6. CASE cmd[c].op = "add" /\ cmd[c].at = "check" /\ Goto(c, "write") /\ UNCHANGED <<rows, ref>>
  <2>1. Moved(c, "write") /\ Others(c)
    BY <1>6, GotoMoves DEF Base, CmdInv, Stages
  <2>2. family = "localgit" /\ AddsNow(c) /\ Minted(c)' = Minted(c) /\ Untried(c)
    BY <1>1, <1>6, <2>1, RunsAt DEF StageInv, Shared, AddsNow, Adding, Moved, Minted, Untried
  <2>3. ASSUME LoneAdd(c)
        PROVE  LoneAdd(c)'
    BY <1>2, <1>6, <2>1, <2>2, <2>3 DEF LoneAdd, Moved, Shared
  <2> QED
    BY <1>2, <2>1, <2>2, <2>3, OthersKept, LoneAdvances DEF Moved
<1>7. CASE /\ cmd[c].op = "add" /\ cmd[c].at = "write"
           /\ InsertSource(cmd[c].slot, None, cmd[c].value)
           /\ cmd' = [cmd EXCEPT ![c].at = "rescan", ![c].done = <<cmd[c].slot>>]
  <2>1. /\ Others(c) /\ cmd'[c].op = cmd[c].op /\ cmd'[c].at = "rescan"
        /\ cmd'[c].slot = cmd[c].slot /\ cmd'[c].key = cmd[c].key
        /\ cmd'[c].alone = cmd[c].alone /\ ToSet(cmd'[c].done) = {cmd[c].slot}
    BY <1>2, <1>7, WriteRootMoves
  <2>2. /\ family = "localgit" /\ AddsNow(c) /\ Untried(c) /\ ~Untried(c)'
        /\ cmd[c].key = None
    BY <1>1, <1>2, <1>7, <2>1, RunsAt DEF StageInv, Shared, AddsNow, Adding, Untried
  <2>3. /\ rows' = rows \cup {cmd[c].slot}
        /\ \A s \in Slots : s # cmd[c].slot => ref'[s] = ref[s]
    BY <1>2, <1>7 DEF InsertSource, Base, TypeOK
  <2>4. Minted(c)' \subseteq Minted(c) /\ rows \subseteq Slots
    BY <2>1, Known DEF Minted
  <2>5. ASSUME LoneAdd(c)
        PROVE  LoneAdd(c)'
    BY <1>2, <1>7, <2>1, <2>2, <2>3, <2>4, <2>5 DEF LoneAdd, Shared
  <2> QED
    BY <1>2, <2>1, <2>2, <2>5, OthersKept, LoneAdvances
<1>8. CASE CheckDisjoint(c)
  BY <1>2, <1>3, <1>5, <1>6, <1>8 DEF CheckDisjoint, At, tables
<1>9. CASE WriteRoot(c)
  BY <1>2, <1>3, <1>5, <1>7, <1>9 DEF WriteRoot, At
<1>10. CASE Rescan(c)
  BY <1>3, <1>4, <1>10 DEF Rescan
<1> QED
  BY <1>8, <1>9, <1>10

LEMMA LoneStep ==
    ASSUME Base, OwnInv, LoneInv, [Next]_vars
    PROVE  LoneInv'
<1>1. CASE UNCHANGED <<cmd, rows, ref, conf, bound, keys, family>>
  <2>1. \A d \in Commands : (AddsNow(d)' <=> AddsNow(d)) /\ Minted(d)' = Minted(d)
                            /\ (Untried(d)' <=> Untried(d))
    BY <1>1 DEF Running, AddsNow, Adding, Minted, Untried, Shared
  <2>2. \A d \in Commands : LoneAdd(d)' <=> LoneAdd(d)
    BY <1>1, <2>1 DEF LoneAdd, Shared
  <2> QED
    BY <1>1, <2>1, <2>2 DEF LoneInv
<1>2. CASE UNCHANGED vars
  BY <1>1, <1>2 DEF vars, tables
<1>3. CASE SetPrivate
  BY <1>1, <1>3 DEF SetPrivate
<1>4. CASE QuitAndRestart
  <2>1. \A c \in Commands : cmd'[c].at = "idle"
    BY <1>4 DEF QuitAndRestart, Idle
  <2> QED
    BY <2>1 DEF LoneInv, AddsNow, Running
<1> QED
  BY <1>2, <1>3, <1>4, StepCases, LoneRequests, LoneWorks1, LoneWorks2, LoneWorks3

(***************************************************************************)
(* The secret of a source, and what a failed add leaves                    *)
(***************************************************************************)

\* A clean source's key is there, and no command on its way will drop it.
SecretInv ==
    family # "localgit" =>
        \A s \in hist.clean \cap rows :
            /\ ref[s] # None /\ keys[ref[s]] # None
            /\ \A c \in Commands :
                 Running(c) /\ cmd[c].op \in {"add", "delete"} => cmd[c].key # ref[s]

\* No row or command comes back to an id that is gone.
GoneInv ==
    /\ \A x \in hist.gone : x \notin rows /\ keys[x] = None
    /\ \A r \in rows : ref[r] \notin hist.gone
    /\ \A c \in Commands : Running(c) => cmd[c].slot \notin hist.gone /\ cmd[c].key \notin hist.gone

LEMMA SecretFrame ==
    ASSUME SecretInv, NEW c \in Commands, Rest(c), UNCHANGED family,
           family # "localgit" =>
             /\ \A s \in hist'.clean \cap rows' :
                    s \in hist.clean \cap rows /\ ref'[s] = ref[s] /\ keys'[ref[s]] # None
             /\ Running(c)' /\ cmd'[c].op \in {"add", "delete"} =>
                    \A s \in hist'.clean \cap rows' : ref'[s] # cmd'[c].key
    PROVE  SecretInv'
<1>1. \A d \in Commands \ {c} :
        (Running(d)' <=> Running(d)) /\ cmd'[d].op = cmd[d].op /\ cmd'[d].key = cmd[d].key
  BY DEF Rest, Kept, Running
<1> QED
  BY <1>1 DEF SecretInv

\* Nothing that the keys of the rows depend on changes.
LEMMA SecretStays ==
    ASSUME SecretInv, NEW c \in Commands, Rest(c), UNCHANGED <<family, ref, keys>>,
           rows' \subseteq rows, hist'.clean \subseteq hist.clean,
           Running(c)' /\ cmd'[c].op \in {"add", "delete"} =>
             \/ Running(c) /\ cmd'[c].op = cmd[c].op /\ cmd'[c].key = cmd[c].key
             \/ \A s \in rows' : ref[s] # cmd'[c].key
    PROVE  SecretInv'
<1>1. ASSUME family # "localgit", NEW s \in hist'.clean \cap rows'
      PROVE  s \in hist.clean \cap rows /\ ref'[s] = ref[s] /\ keys'[ref[s]] # None
  BY <1>1 DEF SecretInv
<1>2. ASSUME family # "localgit", Running(c)', cmd'[c].op \in {"add", "delete"},
             NEW s \in hist'.clean \cap rows'
      PROVE  ref'[s] # cmd'[c].key
  BY <1>1, <1>2 DEF SecretInv
<1> QED
  BY <1>1, <1>2, SecretFrame

LEMMA GoneFrame ==
    ASSUME GoneInv, NEW c \in Commands, Rest(c), hist'.gone = hist.gone,
           \A x \in hist.gone : x \notin rows' /\ keys'[x] = None,
           \A r \in rows' : ref'[r] \notin hist.gone,
           Running(c)' => cmd'[c].slot \notin hist.gone /\ cmd'[c].key \notin hist.gone
    PROVE  GoneInv'
<1>1. \A d \in Commands \ {c} :
        (Running(d)' <=> Running(d)) /\ cmd'[d].slot = cmd[d].slot /\ cmd'[d].key = cmd[d].key
  BY DEF Rest, Kept, Running
<1> QED
  BY <1>1 DEF GoneInv

LEMMA GoneStays ==
    ASSUME GoneInv, NEW c \in Commands, Rest(c), hist'.gone = hist.gone,
           UNCHANGED <<ref, keys>>, rows' \subseteq rows,
           Running(c)' =>
             \/ Running(c) /\ cmd'[c].slot = cmd[c].slot /\ cmd'[c].key = cmd[c].key
             \/ cmd'[c].slot \notin hist.gone /\ cmd'[c].key \notin hist.gone
    PROVE  GoneInv'
<1>1. Running(c)' => cmd'[c].slot \notin hist.gone /\ cmd'[c].key \notin hist.gone
  BY DEF GoneInv
<1>2. /\ \A x \in hist.gone : x \notin rows' /\ keys'[x] = None
      /\ \A r \in rows' : ref'[r] \notin hist.gone
  BY DEF GoneInv
<1> QED
  BY <1>1, <1>2, GoneFrame

(***************************************************************************)
(* Whose credential a source has                                           *)
(***************************************************************************)

\* GitLab: the configured user, and what an update nothing overlapped wrote.
UserInv ==
    family = "gitlab" =>
        /\ \A s \in (hist.clean \cap rows) \ hist.drifted : conf[s] \in bound[s]
        /\ \A c \in Commands : Running(c) /\ cmd[c].op = "update" /\ cmd[c].alone =>
             /\ cmd[c].slot \in rows
             /\ cmd[c].at # "config" => conf[cmd[c].slot] = cmd[c].account

\* It will write or bind the account it has.
Vouches(c) ==
    Running(c) /\ (Adding(c) \/ (cmd[c].op = "reconnect" /\ cmd[c].at # "verify" /\ cmd[c].guarded))

\* a stands for the key k: as the identity of a row under it, with a command that
\* vouches for it, or as the owner of the secret.
Claims(k, a) ==
    \/ \E s \in rows : ref[s] = k /\ a \in bound[s]
    \/ \E c \in Commands : Vouches(c) /\ cmd[c].key = k /\ cmd[c].account = a
    \/ keys[k] = a /\ k \notin hist.unchecked

\* It takes the row of its slot to be under its key.
Relies(c) == (AddsNow(c) /\ cmd[c].at = "identity") \/ (Running(c) /\ cmd[c].op = "reconnect")

AgreeInv ==
    Shared =>
        /\ \A k \in Slots : \A a, b \in Accounts : Claims(k, a) /\ Claims(k, b) => a = b
        /\ \A s \in hist.clean \cap rows : bound[s] # {}
        /\ \A c \in Commands : Relies(c) /\ cmd[c].slot \in rows => ref[cmd[c].slot] = cmd[c].key

LEMMA UserFrame ==
    ASSUME Base, UserInv, NEW c \in Commands, Rest(c), UNCHANGED family,
           Running(c) \/ \A d \in Commands \ {c} : Running(d) => ~cmd'[d].alone,
           family = "gitlab" =>
             /\ \A s \in (hist'.clean \cap rows') \ hist'.drifted : conf'[s] \in bound'[s]
             /\ Running(c)' /\ cmd'[c].op = "update" /\ cmd'[c].alone =>
                  /\ cmd'[c].slot \in rows'
                  /\ cmd'[c].at # "config" => conf'[cmd'[c].slot] = cmd'[c].account
    PROVE  UserInv'
<1>1. ASSUME NEW d \in Commands \ {c}, Running(d)', cmd'[d].alone
      PROVE  FALSE
  <2>1. Running(d) /\ cmd[d].alone
    BY <1>1, KeptRuns DEF Rest, Kept
  <2>2. Running(c)
    BY <1>1, <2>1
  <2> QED
    BY <2>1, <2>2 DEF Base, CmdInv, AloneInv
<1> QED
  BY <1>1 DEF UserInv

LEMMA ClaimsFrame ==
    ASSUME NEW c \in Commands, Rest(c), NEW k, NEW a, Claims(k, a)',
           (\E s \in rows' : ref'[s] = k /\ a \in bound'[s]) => Claims(k, a),
           Vouches(c)' /\ cmd'[c].key = k /\ cmd'[c].account = a => Claims(k, a),
           keys'[k] = a /\ k \notin hist'.unchecked => Claims(k, a)
    PROVE  Claims(k, a)
<1>1. ASSUME NEW d \in Commands \ {c}, Vouches(d)', cmd'[d].key = k, cmd'[d].account = a
      PROVE  Claims(k, a)
  <2>1. Vouches(d) /\ cmd[d].key = k /\ cmd[d].account = a
    BY <1>1 DEF Rest, Kept, Vouches, Running, Adding
  <2> QED
    BY <2>1 DEF Claims
<1> QED
  BY <1>1 DEF Claims

LEMMA AgreeFrame ==
    ASSUME Base, OwnInv, AgreeInv, Shared, NEW c \in Commands, Rest(c), UNCHANGED family,
           rows' \subseteq rows \/ (Awaits(c) /\ rows' \subseteq rows \cup {cmd[c].slot}),
           \A s \in rows' \cap rows : ref'[s] = ref[s],
           \A s \in hist'.clean \cap rows' : bound'[s] # {},
           Relies(c)' /\ cmd'[c].slot \in rows' => ref'[cmd'[c].slot] = cmd'[c].key,
           \A k \in Slots :
             \/ \A a \in Accounts : Claims(k, a)' => Claims(k, a)
             \/ \E b \in Accounts : \A a \in Accounts : Claims(k, a)' => a = b
    PROVE  AgreeInv'
<1>1. \A k \in Slots : \A a, b \in Accounts : Claims(k, a)' /\ Claims(k, b)' => a = b
  BY DEF AgreeInv
<1>2. ASSUME NEW d \in Commands \ {c}, Relies(d)', cmd'[d].slot \in rows'
      PROVE  ref'[cmd'[d].slot] = cmd'[d].key
  <2>1. Relies(d) /\ Running(d) /\ cmd'[d].slot = cmd[d].slot /\ cmd'[d].key = cmd[d].key
    BY <1>2 DEF Rest, Kept, Relies, AddsNow, Adding, Running
  <2>2. Awaits(c) => cmd[d].slot # cmd[c].slot
    BY <2>1 DEF OwnInv
  <2>3. cmd[d].slot \in rows /\ ref[cmd[d].slot] = cmd[d].key
    BY <1>2, <2>1, <2>2 DEF AgreeInv
  <2> QED
    BY <1>2, <2>1, <2>3
<1> QED
  BY <1>1, <1>2 DEF AgreeInv

Settled == SecretInv /\ GoneInv /\ UserInv /\ AgreeInv

LEMMA OtherFamilies ==
    ASSUME UNCHANGED family
    PROVE  /\ ~Shared => AgreeInv'
           /\ family # "gitlab" => UserInv'
           /\ family = "localgit" => SecretInv'
BY DEF AgreeInv, Shared, UserInv, SecretInv

\* A command goes on to its next stage, or is done, with nothing written.
LEMMA Proceeds ==
    ASSUME Base, OwnInv, Settled, NEW c \in Commands, Running(c), Others(c),
           UNCHANGED <<family, rows, ref, conf, bound, keys>>,
           hist'.clean \subseteq hist.clean \/ family = "localgit",
           hist'.gone = hist.gone \/ GoneInv', hist'.unchecked = hist.unchecked,
           hist.drifted \subseteq hist'.drifted,
           \/ cmd'[c] = Idle
           \/ /\ cmd'[c].op = cmd[c].op /\ cmd'[c].slot = cmd[c].slot /\ cmd'[c].key = cmd[c].key
              /\ cmd'[c].account = cmd[c].account /\ cmd'[c].alone = cmd[c].alone
              /\ cmd[c].op = "update" => cmd[c].at # "config"
              /\ cmd[c].op = "reconnect" => cmd[c].at # "verify" /\ cmd'[c].guarded = cmd[c].guarded
              /\ Adding(c) => cmd'[c].at # "identity"
    PROVE  Settled'
<1>1. /\ Rest(c)
      /\ ~Running(c)' \/ cmd'[c] # Idle
  BY OthersKept DEF Running, Idle
<1>2. SecretInv'
  <2>1. CASE hist'.clean \subseteq hist.clean
    BY <1>1, <2>1, SecretStays DEF Settled
  <2>2. CASE family = "localgit"
    BY <2>2, OtherFamilies
  <2> QED
    BY <2>1, <2>2
<1>3. GoneInv'
  BY <1>1, GoneStays DEF Settled
<1>4. UserInv'
  <2>1. CASE family = "gitlab"
    BY <1>1, <2>1, UserFrame DEF Settled, UserInv
  <2> QED
    BY <2>1, OtherFamilies
<1>5. AgreeInv'
  <2>1. CASE Shared
    <3>1. Relies(c)' => Relies(c) /\ cmd'[c].slot = cmd[c].slot /\ cmd'[c].key = cmd[c].key
      BY <1>1 DEF Relies, AddsNow, Adding
    <3>2. Vouches(c)' => Vouches(c) /\ cmd'[c].key = cmd[c].key /\ cmd'[c].account = cmd[c].account
      BY <1>1 DEF Vouches, Adding
    <3>3. ASSUME NEW k \in Slots, NEW a \in Accounts, Claims(k, a)'
          PROVE  Claims(k, a)
      <4>1. Vouches(c)' /\ cmd'[c].key = k /\ cmd'[c].account = a => Claims(k, a)
        BY <3>2 DEF Claims
      <4>2. (\E s \in rows' : ref'[s] = k /\ a \in bound'[s]) => Claims(k, a)
        BY DEF Claims
      <4>3. keys'[k] = a /\ k \notin hist'.unchecked => Claims(k, a)
        BY DEF Claims
      <4> QED
        BY <1>1, <3>3, <4>1, <4>2, <4>3, ClaimsFrame
    <3>4. Relies(c)' /\ cmd'[c].slot \in rows' => ref'[cmd'[c].slot] = cmd'[c].key
      BY <2>1, <3>1 DEF Settled, AgreeInv
    <3>5. \A s \in hist'.clean \cap rows' : bound'[s] # {}
      BY <2>1 DEF Settled, AgreeInv, Shared
    <3> QED
      BY <1>1, <2>1, <3>3, <3>4, <3>5, AgreeFrame DEF Settled
  <2> QED
    BY <2>1, OtherFamilies
<1> QED
  BY <1>2, <1>3, <1>4, <1>5 DEF Settled

LEMMA GoesOn ==
    ASSUME Base, OwnInv, Settled, NEW c \in Commands, Running(c), NEW at \in Stages, Goto(c, at),
           UNCHANGED <<family, tables, keys, hist>>,
           cmd[c].op = "update" => cmd[c].at # "config",
           cmd[c].op = "reconnect" => cmd[c].at # "verify",
           Adding(c) => at # "identity"
    PROVE  Settled'
<1>1. Moved(c, at) /\ Others(c)
  BY GotoMoves DEF Base, CmdInv
<1>2. UNCHANGED <<rows, ref, conf, bound>>
  BY DEF tables
<1> QED
  BY <1>1, <1>2, Proceeds DEF Moved

LEMMA RollsBack ==
    ASSUME Base, OwnInv, Settled, NEW c \in Commands, Running(c), Adding(c), NEW own \in BOOLEAN,
           own => cmd[c].key \in Slots, Rollback(c, own), UNCHANGED <<family, tables, keys, hist>>
    PROVE  Settled'
<1>1. /\ Others(c) /\ cmd'[c].at = "undo"
      /\ cmd'[c].op = cmd[c].op /\ cmd'[c].slot = cmd[c].slot /\ cmd'[c].key = cmd[c].key
      /\ cmd'[c].account = cmd[c].account
      /\ cmd'[c].done = cmd[c].done /\ cmd'[c].alone = cmd[c].alone
  BY RollbackMoves
<1>2. UNCHANGED <<rows, ref, conf, bound>>
  BY DEF tables
<1>3. cmd[c].op # "update" /\ cmd[c].op # "reconnect"
  BY DEF Adding
<1> QED
  BY <1>1, <1>2, <1>3, Proceeds

\* The ids of an add that fails before its first write, or at the end of its undo.
LEMMA AbandonedIds ==
    ASSUME Base, OwnInv, NEW c \in Commands, AddsNow(c), LoneAdd(c), cmd[c].undone,
           Untried(c) \/ (cmd[c].at = "undo" /\ cmd[c].undo = <<>>)
    PROVE  /\ \A x \in Minted(c) : x \notin rows /\ keys[x] = None
           /\ \A r \in rows : ref[r] \notin Minted(c)
<1>1. Minted(c) \subseteq Slots /\ None \notin Slots /\ StageInv(c) /\ cmd[c] # Idle
  BY MintedUsed, Known, RunsAt DEF AddsNow
<1>2. ToSet(<<>>) = {}
  BY EmptySeq DEF ToSet
<1>3. ToSet(cmd[c].done) \cap rows = {}
  BY <1>2 DEF LoneAdd
<1>4. cmd[c].slot \notin rows
  <2>1. cmd[c].slot \in ToSet(cmd[c].done) \/ Awaits(c)
    BY DEF Awaits
  <2> QED
    BY <1>3, <2>1 DEF OwnInv
<1>5. Minted(c) \subseteq ToSet(cmd[c].done) \cup {cmd[c].slot}
  BY DEF Minted, LoneAdd
<1>6. ASSUME NEW x \in Minted(c), keys[x] # None
      PROVE  FALSE
  <2>1. cmd[c].op = "add" /\ x = cmd[c].key
    BY <1>6 DEF LoneAdd
  <2>2. family # "localgit"
    BY <1>1, <2>1 DEF StageInv, Shared
  <2> QED
    BY <1>2, <1>6, <2>1, <2>2 DEF LoneAdd
<1> QED
  BY <1>3, <1>4, <1>5, <1>6 DEF LoneAdd

LEMMA Ends ==
    ASSUME Base, OwnInv, LoneInv, Settled, NEW c \in Commands, Running(c),
           NEW ok \in BOOLEAN, Finish(c, ok), UNCHANGED <<family, tables, keys, used>>,
           \/ ~Adding(c) /\ ~ok
           \/ ~Adding(c) /\ cmd[c].op # "update"
           \/ family = "localgit" /\ (ok \/ ~Adding(c))
           \/ ~ok /\ (Untried(c) \/ (cmd[c].at = "undo" /\ cmd[c].undo = <<>>))
    PROVE  Settled'
<1>1. cmd[c] # Idle
  BY DEF Running, Idle
<1>2. /\ cmd'[c] = Idle /\ Others(c)
      /\ hist'.clean = IF ok /\ Adding(c) /\ cmd[c].alone
                       THEN hist.clean \cup ToSet(cmd[c].done) ELSE hist.clean
      /\ hist'.gone = IF ~ok /\ Adding(c) /\ cmd[c].alone /\ cmd[c].undone
                      THEN hist.gone \cup Minted(c) ELSE hist.gone
      /\ hist'.drifted = IF ok /\ cmd[c].op = "update" /\ cmd[c].alone
                         THEN hist.drifted \ {cmd[c].slot} ELSE hist.drifted
      /\ hist'.unchecked = hist.unchecked
  BY <1>1, FinishMoves
<1>3. UNCHANGED <<rows, ref, conf, bound>>
  BY DEF tables
<1>4. hist'.clean \subseteq hist.clean \/ family = "localgit"
  BY <1>2
<1>5. hist'.gone = hist.gone \/ GoneInv'
  <2>1. CASE ~ok /\ Adding(c) /\ cmd[c].alone /\ cmd[c].undone
    <3>1. AddsNow(c) /\ LoneAdd(c)
      BY <2>1 DEF AddsNow, LoneInv
    <3>2. /\ \A x \in Minted(c) : x \notin rows /\ keys[x] = None
          /\ \A r \in rows : ref[r] \notin Minted(c)
      BY <2>1, <3>1, AbandonedIds
    <3>3. \A d \in Commands : ~Running(d)'
      <4>1. \A d \in Commands \ {c} : ~Running(d)
        BY <2>1 DEF Base, CmdInv, AloneInv
      <4> QED
        BY <1>2, <4>1 DEF Others, Running, Idle
    <3>4. hist'.gone = hist.gone \cup Minted(c)
      BY <1>2, <2>1
    <3> QED
      BY <1>3, <3>2, <3>3, <3>4 DEF Settled, GoneInv
  <2>2. CASE ~(~ok /\ Adding(c) /\ cmd[c].alone /\ cmd[c].undone)
    BY <1>2, <2>2
  <2> QED
    BY <2>1, <2>2
<1>6. CASE hist.drifted \subseteq hist'.drifted
  BY <1>2, <1>3, <1>4, <1>5, <1>6, Proceeds
<1>7. CASE ~(hist.drifted \subseteq hist'.drifted)
  <2>1. ok /\ cmd[c].op = "update" /\ family = "localgit"
    BY <1>2, <1>7 DEF Adding
  <2>2. ~Shared /\ family # "gitlab" /\ hist'.gone = hist.gone /\ ~Running(c)'
    BY <1>2, <2>1 DEF Shared, Running, Idle
  <2>3. GoneInv'
    BY <1>2, <1>3, <2>2, OthersKept, GoneStays DEF Settled
  <2> QED
    BY <2>1, <2>2, <2>3, OtherFamilies DEF Settled
<1> QED
  BY <1>6, <1>7

\* Nobody stands for a key that is not minted yet.
LEMMA FreshClaims ==
    ASSUME Base, NEW s \in Slots \ used, NEW a \in Accounts
    PROVE  ~Claims(s, a)
<1>1. \A d \in Commands : Vouches(d) => cmd[d].key # s
  <2>1. ASSUME NEW d \in Commands, Vouches(d)
        PROVE  cmd[d].key # s
    <3>1. StageInv(d) /\ cmd[d] # Idle /\ None \notin Slots
      BY <2>1, RunsAt, Known DEF Vouches
    <3> QED
      BY <3>1 DEF StageInv
  <2> QED
    BY <2>1
<1>2. keys[s] # a /\ \A r \in rows : ref[r] # s
  BY Known, SourcesAssumption
<1> QED
  BY <1>1, <1>2 DEF Claims

LEMMA SettledAsked ==
    ASSUME Base, OwnInv, Settled, NEW c \in Commands, NEW op, NEW at, NEW s \in Slots, NEW key,
           Asked(c, op, at, s, key), UNCHANGED <<family, tables, keys, hist>>,
           cmd'[c].account \in Accounts \cup {None},
           \/ /\ op = "add" /\ s \notin used /\ at # "identity"
              /\ key = s \/ (key = None /\ family = "localgit")
           \/ /\ op = "borrow" /\ Shared /\ s \notin used /\ at = "probe"
              /\ \E r \in rows : key = ref[r] /\ cmd'[c].account \in bound[r]
           \/ /\ op = "update" /\ ~Shared /\ s \in rows /\ key \in {s, None}
              /\ family = "gitlab" /\ at # "config" => cmd'[c].account = conf[s]
           \/ op = "reconnect" /\ Shared /\ at = "verify" /\ s \in rows /\ key = ref[s]
    PROVE  Settled'
<1>1. /\ Rest(c) /\ cmd'[c].op = op /\ cmd'[c].at = at /\ cmd'[c].slot = s /\ cmd'[c].key = key
      /\ \A d \in Commands \ {c} : Running(d) => ~cmd'[d].alone
      /\ cmd'[c].alone => \A d \in Commands : ~Running(d)
  BY DEF Asked
<1>2. UNCHANGED <<rows, ref, conf, bound>>
  BY DEF tables
<1>3. /\ rows \subseteq used /\ used \subseteq Slots /\ None \notin Slots
      /\ hist.gone \subseteq used /\ \A x \in Slots : ref[x] \in used \cup {None}
  BY Known DEF Histories
<1>4. SecretInv'
  <2>1. CASE family = "localgit"
    BY <2>1, OtherFamilies
  <2>2. CASE family # "localgit"
    <3>1. op = "add" => \A x \in rows : ref[x] # key
      BY <1>3, <2>2
    <3> QED
      BY <1>1, <1>2, <3>1, SecretStays DEF Settled
  <2> QED
    BY <2>1, <2>2
<1>5. GoneInv'
  <2>1. s \notin hist.gone /\ key \notin hist.gone
    BY <1>3 DEF Settled, GoneInv
  <2> QED
    BY <1>1, <1>2, <2>1, GoneStays DEF Settled
<1>6. UserInv'
  <2>1. CASE family = "gitlab"
    <3>1. op = "update" => s \in rows /\ (at # "config" => cmd'[c].account = conf[s])
      BY <2>1
    <3>2. \A x \in (hist'.clean \cap rows') \ hist'.drifted : conf'[x] \in bound'[x]
      BY <1>2, <2>1 DEF Settled, UserInv
    <3> QED
      BY <1>1, <1>2, <3>1, <3>2, UserFrame DEF Settled
  <2> QED
    BY <2>1, OtherFamilies
<1>7. AgreeInv'
  <2>1. CASE Shared
    <3>1. \A x \in hist'.clean \cap rows' : bound'[x] # {}
      BY <1>2, <2>1 DEF Settled, AgreeInv
    <3>2. Relies(c)' => op = "reconnect" /\ key = ref[s]
      BY <1>1 DEF Relies, AddsNow, Adding
    <3>3. Vouches(c)' => op \in {"add", "borrow"}
      BY <1>1 DEF Vouches, Adding
    <3>4. ASSUME NEW k \in Slots, NEW a \in Accounts, Claims(k, a)',
                 Vouches(c)' /\ cmd'[c].key = k /\ cmd'[c].account = a => Claims(k, a)
          PROVE  Claims(k, a)
      <4>1. (\E x \in rows' : ref'[x] = k /\ a \in bound'[x]) => Claims(k, a)
        BY <1>2 DEF Claims
      <4>2. keys'[k] = a /\ k \notin hist'.unchecked => Claims(k, a)
        BY DEF Claims
      <4> QED
        BY <1>1, <3>4, <4>1, <4>2, ClaimsFrame
    <3>5. ASSUME NEW k \in Slots
          PROVE  \/ \A a \in Accounts : Claims(k, a)' => Claims(k, a)
                 \/ \E b \in Accounts : \A a \in Accounts : Claims(k, a)' => a = b
      <4>1. CASE op = "add" /\ k = s
        <5>1. \A a \in Accounts : Claims(s, a)' => a = cmd'[c].account
          BY <1>1, <3>4, <4>1, FreshClaims
        <5>2. CASE cmd'[c].account \in Accounts
          BY <4>1, <5>1, <5>2
        <5>3. CASE cmd'[c].account \notin Accounts
          BY <4>1, <5>1, <5>3
        <5> QED
          BY <5>2, <5>3
      <4>2. CASE op = "add" /\ k # s
        BY <1>1, <2>1, <3>4, <4>2 DEF Shared
      <4>3. CASE op # "add"
        <5>1. ASSUME NEW a \in Accounts, Vouches(c)', key = k, cmd'[c].account = a
              PROVE  Claims(k, a)
          BY <1>1, <3>3, <4>3, <5>1 DEF Claims
        <5> QED
          BY <1>1, <3>4, <5>1
      <4> QED
        BY <4>1, <4>2, <4>3
    <3> QED
      BY <1>1, <1>2, <2>1, <3>1, <3>2, <3>5, AgreeFrame DEF Settled
  <2> QED
    BY <2>1, OtherFamilies
<1> QED
  BY <1>4, <1>5, <1>6, <1>7 DEF Settled

\* A row goes, and with it what its identities stood for.
LEMMA RemovedRow ==
    ASSUME Base, NEW s \in Slots, RemoveSource(s)
    PROVE  /\ rows' = rows \ {s}
           /\ \A x \in rows' : ref'[x] = ref[x] /\ conf'[x] = conf[x] /\ bound'[x] = bound[x]
BY DEF RemoveSource, Base, TypeOK

LEMMA SettledDelete ==
    ASSUME Base, OwnInv, Settled, NEW c \in Commands, StartDelete(c)
    PROVE  Settled'
<1>1. PICK s \in rows :
         /\ Asked(c, "delete", "dropKey", s, Orphaned(s)) /\ RemoveSource(s)
         /\ hist'.clean = hist.clean \ {s} /\ hist'.drifted = hist.drifted \ {s}
         /\ hist'.gone = hist.gone /\ hist'.unchecked = hist.unchecked
         /\ UNCHANGED <<family, keys, used>>
  BY DeleteRequest
<1>2. /\ Rest(c) /\ cmd'[c].op = "delete" /\ cmd'[c].slot = s /\ cmd'[c].key = Orphaned(s)
      /\ \A d \in Commands \ {c} : Running(d) => ~cmd'[d].alone
      /\ ~Relies(c)' /\ ~Vouches(c)'
  BY <1>1 DEF Asked, Relies, Vouches, AddsNow, Adding
<1>3. /\ rows \subseteq Slots /\ None \notin hist.gone /\ s \in Slots
  BY <1>1, Known DEF Histories
<1>4. /\ rows' = rows \ {s}
      /\ \A x \in rows' : ref'[x] = ref[x] /\ conf'[x] = conf[x] /\ bound'[x] = bound[x]
  BY <1>1, <1>3, RemovedRow
<1>5. SecretInv'
  <2>1. CASE family # "localgit"
    <3>1. \A x \in hist'.clean \cap rows' :
            x \in hist.clean \cap rows /\ ref'[x] = ref[x] /\ keys'[ref[x]] # None /\ ref[x] # None
      BY <1>1, <1>4, <2>1 DEF Settled, SecretInv
    <3>2. \A x \in hist'.clean \cap rows' : ref'[x] # cmd'[c].key
      BY <1>2, <1>4, <3>1 DEF Orphaned
    <3> QED
      BY <1>1, <1>2, <3>1, <3>2, SecretFrame DEF Settled
  <2> QED
    BY <1>1, <2>1, OtherFamilies
<1>6. GoneInv'
  <2>1. s \notin hist.gone /\ Orphaned(s) \notin hist.gone
    BY <1>1, <1>3 DEF Settled, GoneInv, Orphaned
  <2>2. /\ \A x \in hist.gone : x \notin rows' /\ keys'[x] = None
        /\ \A r \in rows' : ref'[r] \notin hist.gone
    BY <1>1, <1>4 DEF Settled, GoneInv
  <2> QED
    BY <1>1, <1>2, <2>1, <2>2, GoneFrame DEF Settled
<1>7. UserInv'
  <2>1. CASE family = "gitlab"
    <3>1. \A x \in (hist'.clean \cap rows') \ hist'.drifted : conf'[x] \in bound'[x]
      BY <1>1, <1>4, <2>1 DEF Settled, UserInv
    <3> QED
      BY <1>1, <1>2, <3>1, UserFrame DEF Settled
  <2> QED
    BY <1>1, <2>1, OtherFamilies
<1>8. AgreeInv'
  <2>1. CASE Shared
    <3>1. ASSUME NEW k \in Slots, NEW a \in Accounts, Claims(k, a)'
          PROVE  Claims(k, a)
      <4>1. (\E x \in rows' : ref'[x] = k /\ a \in bound'[x]) => Claims(k, a)
        BY <1>4 DEF Claims
      <4>2. keys'[k] = a /\ k \notin hist'.unchecked => Claims(k, a)
        BY <1>1 DEF Claims
      <4> QED
        BY <1>2, <3>1, <4>1, <4>2, ClaimsFrame
    <3>2. \A x \in hist'.clean \cap rows' : bound'[x] # {}
      BY <1>1, <1>4, <2>1 DEF Settled, AgreeInv
    <3> QED
      BY <1>1, <1>2, <1>4, <2>1, <3>1, <3>2, AgreeFrame DEF Settled
  <2> QED
    BY <1>1, <2>1, OtherFamilies
<1> QED
  BY <1>5, <1>6, <1>7, <1>8 DEF Settled

LEMMA SettledRequests ==
    ASSUME Base, OwnInv, Settled, NEW c \in Commands,
           \/ StartAddGitLab(c) \/ StartAddGitHub(c) \/ StartAddAtlassian(c) \/ StartBorrow(c)
           \/ StartUpdate(c) \/ (StartReconnect(c) /\ Shared) \/ StartDelete(c)
           \/ StartAddRoot(c) \/ StartMoveRoot(c)
    PROVE  Settled'
<1>1. rows \subseteq Slots
  BY Known
<1>2. ASSUME NEW s \in Slots \ used, NEW at \in {"insert", "putKey"}, NEW a \in Accounts,
             NEW n \in 1 .. 2, StartWith(c, s, at, a, n)
      PROVE  Settled'
  <2>1. /\ Asked(c, "add", at, s, s) /\ cmd'[c].account = a
        /\ UNCHANGED <<family, tables, keys, hist>>
    BY <1>2, AddRequest
  <2> QED
    BY <2>1, SettledAsked
<1>3. CASE StartAddGitLab(c)
  BY <1>2, <1>3 DEF StartAddGitLab
<1>4. CASE StartAddGitHub(c)
  BY <1>2, <1>4 DEF StartAddGitHub
<1>5. CASE StartAddAtlassian(c)
  BY <1>2, <1>5 DEF StartAddAtlassian
<1>6. CASE StartBorrow(c)
  <2>1. PICK s \in Slots \ used, r \in rows : \E a \in bound[r] :
             /\ Asked(c, "borrow", "probe", s, ref[r]) /\ cmd'[c].account = a /\ a \in Accounts
             /\ Shared /\ UNCHANGED <<family, tables, keys, hist>>
    BY <1>6, BorrowRequest
  <2> QED
    BY <2>1, SettledAsked
<1>7. CASE StartUpdate(c)
  <2>1. PICK s \in rows, at \in {"config", "pat"}, a \in Accounts :
             /\ Asked(c, "update", at, s, s) /\ cmd'[c].account = a
             /\ at = "pat" => a = conf[s]
             /\ family = "gitlab" /\ UNCHANGED <<family, tables, keys, hist>>
    BY <1>7, UpdateRequest
  <2>2. ~Shared
    BY <2>1 DEF Shared
  <2> QED
    BY <1>1, <2>1, <2>2, SettledAsked
<1>8. CASE StartReconnect(c) /\ Shared
  <2>1. PICK s \in rows, a \in Accounts :
             /\ Asked(c, "reconnect", "verify", s, ref[s]) /\ cmd'[c].account = a
             /\ UNCHANGED <<family, tables, keys, hist>>
    BY <1>8, ReconnectRequest
  <2> QED
    BY <1>1, <1>8, <2>1, SettledAsked
<1>9. CASE StartDelete(c)
  BY <1>9, SettledDelete
<1>10. CASE StartAddRoot(c)
  <2>1. PICK s \in Slots \ used, root \in Roots :
             /\ Begin(c, [Idle EXCEPT !.op = "add", !.at = "check", !.slot = s, !.value = root])
             /\ family = "localgit" /\ UNCHANGED <<family, tables, keys, hist>>
    BY <1>10 DEF StartAddRoot
  <2>2. Asked(c, "add", "check", s, None) /\ cmd'[c].account \in Accounts \cup {None}
    <3>1. Asked(c, "add", "check", s, None)
      BY <2>1, CheckRequest
    <3> QED
      BY <3>1 DEF Asked, Invocation
  <2> QED
    BY <2>1, <2>2, SettledAsked
<1>11. CASE StartMoveRoot(c)
  <2>1. PICK s \in rows, root \in Roots :
             /\ Begin(c, [Idle EXCEPT !.op = "update", !.at = "check", !.slot = s, !.value = root])
             /\ family = "localgit" /\ UNCHANGED <<family, tables, keys, hist>>
    BY <1>11 DEF StartMoveRoot
  <2>2. Asked(c, "update", "check", s, None) /\ cmd'[c].account \in Accounts \cup {None}
    <3>1. Asked(c, "update", "check", s, None)
      BY <1>1, <2>1, CheckRequest
    <3> QED
      BY <3>1 DEF Asked, Invocation
  <2>3. ~Shared
    BY <2>1 DEF Shared
  <2> QED
    BY <1>1, <2>1, <2>2, <2>3, SettledAsked
<1> QED
  BY <1>3, <1>4, <1>5, <1>6, <1>7, <1>8, <1>9, <1>10, <1>11

\* A credential is written.
LEMMA SettledPut ==
    ASSUME Base, OwnInv, Settled, NEW c \in Commands, Running(c), Others(c), cmd[c].at = "putKey",
           cmd[c].key \in Slots, cmd[c].account \in Accounts,
           keys' = [keys EXCEPT ![cmd[c].key] = cmd[c].account],
           UNCHANGED <<family, rows, ref, conf, bound>>,
           hist'.clean = hist.clean, hist'.gone = hist.gone, hist'.drifted = hist.drifted,
           hist.unchecked \subseteq hist'.unchecked,
           Vouches(c) \/ cmd[c].key \in hist'.unchecked \/ ~Shared,
           \/ cmd'[c] = Idle
           \/ /\ cmd'[c].op = cmd[c].op /\ cmd'[c].slot = cmd[c].slot /\ cmd'[c].key = cmd[c].key
              /\ cmd'[c].account = cmd[c].account /\ cmd'[c].alone = cmd[c].alone
              /\ cmd'[c].at \in {"stamp", "insert"} /\ cmd[c].op # "reconnect"
    PROVE  Settled'
<1>1. Rest(c) /\ (cmd'[c] = Idle => ~Running(c)')
  BY OthersKept DEF Running, Idle
<1>2. /\ keys'[cmd[c].key] = cmd[c].account /\ cmd[c].account # None
      /\ \A k \in Slots : k # cmd[c].key => keys'[k] = keys[k]
      /\ rows \subseteq Slots /\ \A s \in Slots : ref[s] \in Slots \cup {None}
      /\ hist.gone \subseteq Slots
  BY Known, SourcesAssumption DEF Histories
<1>3. SecretInv'
  <2>1. CASE family # "localgit"
    <3>1. \A s \in hist'.clean \cap rows' :
            s \in hist.clean \cap rows /\ ref'[s] = ref[s] /\ keys'[ref[s]] # None
      BY <1>2, <2>1 DEF Settled, SecretInv
    <3>2. Running(c)' /\ cmd'[c].op \in {"add", "delete"} =>
                    \A s \in hist'.clean \cap rows' : ref'[s] # cmd'[c].key
      BY <1>1, <2>1, <3>1 DEF Settled, SecretInv
    <3> QED
      BY <1>1, <3>1, <3>2, SecretFrame DEF Settled
  <2> QED
    BY <2>1, OtherFamilies
<1>4. GoneInv'
  <2>1. cmd[c].slot \notin hist.gone /\ cmd[c].key \notin hist.gone
    BY DEF Settled, GoneInv
  <2>2. /\ \A x \in hist.gone : x \notin rows' /\ keys'[x] = None
        /\ \A r \in rows' : ref'[r] \notin hist.gone
    BY <1>2, <2>1 DEF Settled, GoneInv
  <2> QED
    BY <1>1, <2>1, <2>2, GoneFrame DEF Settled
<1>5. UserInv'
  <2>1. CASE family = "gitlab"
    BY <1>1, <2>1, UserFrame DEF Settled, UserInv
  <2> QED
    BY <2>1, OtherFamilies
<1>6. AgreeInv'
  <2>1. CASE Shared
    <3>1. ~Relies(c)'
      BY <1>1 DEF Relies, AddsNow
    <3>2. Vouches(c)' => Vouches(c) /\ cmd'[c].key = cmd[c].key /\ cmd'[c].account = cmd[c].account
      BY <1>1 DEF Vouches, Adding
    <3>3. ASSUME NEW k \in Slots, NEW a \in Accounts, Claims(k, a)'
          PROVE  Claims(k, a)
      <4>1. Vouches(c)' /\ cmd'[c].key = k /\ cmd'[c].account = a => Claims(k, a)
        BY <3>2 DEF Claims
      <4>2. (\E s \in rows' : ref'[s] = k /\ a \in bound'[s]) => Claims(k, a)
        BY DEF Claims
      <4>3. keys'[k] = a /\ k \notin hist'.unchecked => Claims(k, a)
        BY <1>2, <2>1 DEF Claims
      <4> QED
        BY <1>1, <3>3, <4>1, <4>2, <4>3, ClaimsFrame
    <3>4. \A s \in hist'.clean \cap rows' : bound'[s] # {}
      BY <2>1 DEF Settled, AgreeInv
    <3> QED
      BY <1>1, <2>1, <3>1, <3>3, <3>4, AgreeFrame DEF Settled
  <2> QED
    BY <2>1, OtherFamilies
<1> QED
  BY <1>3, <1>4, <1>5, <1>6 DEF Settled

\* A row is inserted under its key, or under none.
LEMMA SettledInsert ==
    ASSUME Base, OwnInv, Settled, NEW c \in Commands, AddsNow(c), Awaits(c), Others(c),
           cmd[c].slot \in Slots, NEW key, NEW value,
           InsertSource(cmd[c].slot, key, value), UNCHANGED <<family, keys>>,
           key \in {cmd[c].key, None}, Shared => key = cmd[c].key,
           hist'.clean = hist.clean, hist'.gone = hist.gone, hist'.drifted = hist.drifted,
           hist'.unchecked = hist.unchecked,
           cmd'[c].op = cmd[c].op, cmd'[c].slot = cmd[c].slot, cmd'[c].key = cmd[c].key,
           cmd'[c].account = cmd[c].account \/ ~Shared, cmd'[c].alone = cmd[c].alone
    PROVE  Settled'
<1>1. Rest(c) /\ Running(c) /\ Adding(c)
  BY OthersKept DEF AddsNow
<1>2. /\ rows' = rows \cup {cmd[c].slot} /\ bound' = bound /\ ref'[cmd[c].slot] = key
      /\ \A s \in rows : s # cmd[c].slot => ref'[s] = ref[s] /\ conf'[s] = conf[s]
      /\ cmd[c].slot \notin rows /\ bound[cmd[c].slot] = {}
      /\ cmd[c].slot \notin hist.clean /\ None \notin hist.gone
  <2>1. cmd[c].slot \notin rows /\ cmd[c].slot \notin hist.clean
    BY DEF OwnInv, Minted
  <2>2. None \notin hist.gone
    BY Known DEF Histories
  <2> QED
    BY <2>1, <2>2 DEF InsertSource, Base, TypeOK
<1>3. SecretInv'
  <2>1. CASE family # "localgit"
    <3>1. \A s \in hist'.clean \cap rows' :
            s \in hist.clean \cap rows /\ ref'[s] = ref[s] /\ keys'[ref[s]] # None
      BY <1>2, <2>1 DEF Settled, SecretInv
    <3>2. Running(c)' /\ cmd'[c].op \in {"add", "delete"} =>
                    \A s \in hist'.clean \cap rows' : ref'[s] # cmd'[c].key
      BY <1>1, <2>1, <3>1 DEF Settled, SecretInv
    <3> QED
      BY <1>1, <3>1, <3>2, SecretFrame DEF Settled
  <2> QED
    BY <2>1, OtherFamilies
<1>4. GoneInv'
  <2>1. cmd[c].slot \notin hist.gone /\ cmd[c].key \notin hist.gone
    BY <1>1 DEF Settled, GoneInv
  <2>2. /\ \A x \in hist.gone : x \notin rows' /\ keys'[x] = None
        /\ \A r \in rows' : ref'[r] \notin hist.gone
    BY <1>2, <2>1 DEF Settled, GoneInv
  <2> QED
    BY <1>1, <2>1, <2>2, GoneFrame DEF Settled
<1>5. UserInv'
  <2>1. CASE family = "gitlab"
    <3>1. \A s \in (hist'.clean \cap rows') \ hist'.drifted : conf'[s] \in bound'[s]
      BY <1>2, <2>1 DEF Settled, UserInv
    <3>2. cmd'[c].op # "update"
      BY <1>1 DEF Adding
    <3> QED
      BY <1>1, <3>1, <3>2, UserFrame DEF Settled
  <2> QED
    BY <2>1, OtherFamilies
<1>6. AgreeInv'
  <2>1. CASE Shared
    <3>1. Vouches(c)' => Vouches(c) /\ cmd'[c].key = cmd[c].key /\ cmd'[c].account = cmd[c].account
      BY <1>1, <2>1 DEF Vouches, Adding
    <3>2. ASSUME NEW k \in Slots, NEW a \in Accounts, Claims(k, a)'
          PROVE  Claims(k, a)
      <4>1. Vouches(c)' /\ cmd'[c].key = k /\ cmd'[c].account = a => Claims(k, a)
        BY <3>1 DEF Claims
      <4>2. (\E s \in rows' : ref'[s] = k /\ a \in bound'[s]) => Claims(k, a)
        BY <1>2 DEF Claims
      <4>3. keys'[k] = a /\ k \notin hist'.unchecked => Claims(k, a)
        BY DEF Claims
      <4> QED
        BY <1>1, <3>2, <4>1, <4>2, <4>3, ClaimsFrame
    <3>3. \A s \in hist'.clean \cap rows' : bound'[s] # {}
      BY <1>2, <2>1 DEF Settled, AgreeInv
    <3> QED
      BY <1>1, <1>2, <2>1, <3>2, <3>3, AgreeFrame DEF Settled
  <2> QED
    BY <2>1, OtherFamilies
<1> QED
  BY <1>3, <1>4, <1>5, <1>6 DEF Settled

\* GitLab's row gets the key that is named after it.
LEMMA SettledStamp ==
    ASSUME Base, OwnInv, Settled, NEW c \in Commands, Running(c), Others(c), family = "gitlab",
           cmd[c].slot \in Slots, cmd[c].key = cmd[c].slot, cmd[c].at = "stamp",
           UpdateSecretRef(cmd[c].slot, cmd[c].key), UNCHANGED <<family, keys, hist>>,
           cmd'[c].op = cmd[c].op, cmd'[c].slot = cmd[c].slot, cmd'[c].key = cmd[c].key,
           cmd'[c].account = cmd[c].account, cmd'[c].alone = cmd[c].alone
    PROVE  Settled'
<1>1. Rest(c) /\ ~Shared
  BY OthersKept DEF Shared
<1>2. /\ UNCHANGED <<rows, conf, bound>> /\ rows \subseteq Slots /\ None \notin hist.gone
      /\ \A s \in rows : ref'[s] = IF s = cmd[c].slot THEN cmd[c].key ELSE ref[s]
      /\ \A s \in rows : ref[s] \in {s, None}
  BY Known DEF UpdateSecretRef, Base, TypeOK, RowsInv, Histories
<1>3. SecretInv'
  <2>1. \A s \in hist'.clean \cap rows' :
          s \in hist.clean \cap rows /\ ref'[s] = ref[s] /\ keys'[ref[s]] # None
    BY <1>2 DEF Settled, SecretInv
  <2>2. Running(c)' /\ cmd'[c].op \in {"add", "delete"} =>
                  \A s \in hist'.clean \cap rows' : ref'[s] # cmd'[c].key
    BY <1>2, <2>1 DEF Settled, SecretInv
  <2> QED
    BY <1>1, <2>1, <2>2, SecretFrame DEF Settled
<1>4. GoneInv'
  <2>1. cmd[c].slot \notin hist.gone /\ cmd[c].key \notin hist.gone
    BY DEF Settled, GoneInv
  <2>2. /\ \A x \in hist.gone : x \notin rows' /\ keys'[x] = None
        /\ \A r \in rows' : ref'[r] \notin hist.gone
    BY <1>2, <2>1 DEF Settled, GoneInv
  <2> QED
    BY <1>1, <2>1, <2>2, GoneFrame DEF Settled
<1>5. UserInv'
  BY <1>1, <1>2, UserFrame DEF Settled, UserInv
<1>6. AgreeInv'
  BY <1>1, OtherFamilies
<1> QED
  BY <1>3, <1>4, <1>5, <1>6 DEF Settled

\* The identity an add binds is the account it vouches for.
LEMMA BoundClaims ==
    ASSUME Base, NEW c \in Commands, Rest(c), Vouches(c), cmd[c].slot \in rows,
           ref[cmd[c].slot] = cmd[c].key, EnsureIdentity(cmd[c].slot, cmd[c].account),
           UNCHANGED keys, hist'.unchecked = hist.unchecked,
           Vouches(c)' => cmd'[c].key = cmd[c].key /\ cmd'[c].account = cmd[c].account,
           NEW k \in Slots, NEW a \in Accounts, Claims(k, a)'
    PROVE  Claims(k, a)
<1>1. UNCHANGED <<rows, ref>> /\ rows \subseteq Slots
  BY Known DEF EnsureIdentity
<1>2. \A s \in rows : bound'[s] = IF s = cmd[c].slot THEN bound[s] \cup {cmd[c].account} ELSE bound[s]
  BY <1>1 DEF EnsureIdentity, Base, TypeOK
<1>3. cmd[c].key = k /\ cmd[c].account = a => Claims(k, a)
  BY DEF Claims
<1>4. (\E s \in rows' : ref'[s] = k /\ a \in bound'[s]) => Claims(k, a)
  BY <1>1, <1>2, <1>3 DEF Claims
<1>5. keys'[k] = a /\ k \notin hist'.unchecked => Claims(k, a)
  BY DEF Claims
<1> QED
  BY <1>3, <1>4, <1>5, ClaimsFrame

\* The identity is bound and the next product of the add is to come.
LEMMA SettledNext ==
    ASSUME Base, OwnInv, Settled, NEW c \in Commands, AddsNow(c), Others(c), Shared,
           cmd[c].at = "identity", cmd[c].slot \in rows,
           EnsureIdentity(cmd[c].slot, cmd[c].account), UNCHANGED <<family, keys, hist>>,
           cmd'[c].op = cmd[c].op, cmd'[c].at = "insert", cmd'[c].slot \notin used,
           cmd'[c].key = cmd[c].key, cmd'[c].account = cmd[c].account, cmd'[c].alone = cmd[c].alone
    PROVE  Settled'
<1>1. Rest(c) /\ Running(c) /\ UNCHANGED <<rows, ref>> /\ family # "gitlab"
  BY OthersKept DEF AddsNow, EnsureIdentity, Shared
<1>2. SecretInv'
  BY <1>1, SecretStays DEF Settled
<1>3. GoneInv'
  <2>1. cmd'[c].slot \notin hist.gone /\ cmd'[c].key \notin hist.gone
    BY <1>1, Known DEF Settled, GoneInv, Histories
  <2> QED
    BY <1>1, <2>1, GoneStays DEF Settled
<1>4. UserInv'
  BY <1>1, OtherFamilies
<1>5. AgreeInv'
  <2>1. Vouches(c) /\ ref[cmd[c].slot] = cmd[c].key
    BY <1>1 DEF Vouches, AddsNow, Settled, AgreeInv, Relies
  <2>2. \A k \in Slots : \A a \in Accounts : Claims(k, a)' => Claims(k, a)
    BY <1>1, <2>1, BoundClaims
  <2>3. ~Relies(c)'
    BY DEF Relies, AddsNow, Adding
  <2>4. \A s \in hist'.clean \cap rows' : bound'[s] # {}
    <3>1. \A s \in rows : bound[s] # {} => bound'[s] # {}
      BY Known DEF EnsureIdentity, Base, TypeOK
    <3> QED
      BY <1>1, <3>1 DEF Settled, AgreeInv
  <2> QED
    BY <1>1, <2>2, <2>3, <2>4, AgreeFrame DEF Settled
<1> QED
  BY <1>2, <1>3, <1>4, <1>5 DEF Settled

\* The identity is bound and the add returns.
LEMMA SettledBound ==
    ASSUME Base, OwnInv, LoneInv, Settled, NEW c \in Commands, AddsNow(c), family # "localgit",
           cmd[c].at = "identity", cmd[c].slot \in rows, cmd[c].account \in Accounts,
           EnsureIdentity(cmd[c].slot, cmd[c].account), Finish(c, TRUE),
           UNCHANGED <<family, keys, used>>
    PROVE  Settled'
<1>1. /\ Running(c) /\ cmd[c] # Idle /\ Adding(c)
      /\ UNCHANGED <<rows, ref, conf>> /\ rows \subseteq Slots
  BY Known DEF AddsNow, Running, Idle, EnsureIdentity
<1>2. /\ cmd'[c] = Idle /\ Others(c)
      /\ hist'.clean = IF cmd[c].alone THEN hist.clean \cup ToSet(cmd[c].done) ELSE hist.clean
      /\ hist'.gone = hist.gone /\ hist'.drifted = hist.drifted /\ hist'.unchecked = hist.unchecked
  BY <1>1, FinishMoves DEF Adding
<1>3. Rest(c) /\ ~Running(c)' /\ ~Vouches(c)' /\ ~Relies(c)'
  BY <1>2, OthersKept DEF Running, Idle, Vouches, Relies, AddsNow
<1>4. \A s \in rows : bound'[s] = IF s = cmd[c].slot THEN bound[s] \cup {cmd[c].account} ELSE bound[s]
  BY <1>1 DEF EnsureIdentity, Base, TypeOK
<1>5. ASSUME cmd[c].alone
      PROVE  LoneAdd(c) /\ \A d \in Commands : ~Running(d)'
  <2>1. \A d \in Commands \ {c} : ~Running(d)
    BY <1>1, <1>5 DEF Base, CmdInv, AloneInv
  <2> QED
    BY <1>2, <1>3, <1>5, <2>1 DEF Others, Running, LoneInv
<1>6. SecretInv'
  <2>1. CASE cmd[c].alone
    <3>1. ASSUME NEW s \in ToSet(cmd[c].done) \cap rows
          PROVE  ref[s] # None /\ keys[ref[s]] # None
      <4>1. CASE Shared
        <5>1. ref[s] = cmd[c].key /\ keys[cmd[c].key] # None
          BY <1>5, <2>1, <3>1, <4>1 DEF LoneAdd
        <5> QED
          BY <4>1, <5>1 DEF Base, RowsInv
      <4>2. CASE family = "gitlab"
        <5>1. /\ s = cmd[c].slot /\ ref[s] = cmd[c].key /\ keys[cmd[c].key] # None
          BY <1>5, <2>1, <3>1, <4>2 DEF LoneAdd
        <5>2. cmd[c].key # None
          BY <1>1, <4>2, Known, RunsAt DEF StageInv, Shared, Adding
        <5> QED
          BY <5>1, <5>2
      <4> QED
        BY <1>1, <4>1, <4>2 DEF Base, TypeOK, Families, Shared
    <3> QED
      BY <1>1, <1>2, <1>5, <2>1, <3>1 DEF Settled, SecretInv
  <2>2. CASE ~cmd[c].alone
    BY <1>1, <1>2, <1>3, <2>2, SecretStays DEF Settled
  <2> QED
    BY <2>1, <2>2
<1>7. GoneInv'
  BY <1>1, <1>2, <1>3, GoneStays DEF Settled
<1>8. UserInv'
  <2>1. CASE family = "gitlab"
    <3>1. \A s \in (hist.clean \cap rows) \ hist.drifted : conf[s] \in bound'[s]
      BY <1>1, <1>4, <2>1 DEF Settled, UserInv
    <3>2. cmd[c].alone => \A s \in ToSet(cmd[c].done) \cap rows : conf[s] \in bound'[s]
      <4>1. cmd[c].alone => ToSet(cmd[c].done) = {cmd[c].slot} /\ conf[cmd[c].slot] = cmd[c].account
        BY <1>5, <2>1 DEF LoneAdd
      <4>2. cmd[c].account \in bound'[cmd[c].slot]
        BY <1>4
      <4> QED
        BY <4>1, <4>2
    <3>3. \A s \in (hist'.clean \cap rows') \ hist'.drifted : conf'[s] \in bound'[s]
      BY <1>1, <1>2, <3>1, <3>2
    <3> QED
      BY <1>1, <1>3, <3>3, UserFrame DEF Settled
  <2> QED
    BY <2>1, OtherFamilies
<1>9. AgreeInv'
  <2>1. CASE Shared
    <3>1. Vouches(c) /\ ref[cmd[c].slot] = cmd[c].key
      BY <1>1, <2>1 DEF Vouches, AddsNow, Settled, AgreeInv, Relies
    <3>2. \A k \in Slots : \A a \in Accounts : Claims(k, a)' => Claims(k, a)
      BY <1>2, <1>3, <3>1, BoundClaims
    <3>3. \A s \in hist.clean \cap rows : bound'[s] # {}
      BY <1>4, <2>1 DEF Settled, AgreeInv
    <3>4. cmd[c].alone => \A s \in ToSet(cmd[c].done) \cap rows : bound'[s] # {}
      BY <1>4, <1>5, <2>1 DEF LoneAdd
    <3>5. \A s \in hist'.clean \cap rows' : bound'[s] # {}
      BY <1>1, <1>2, <3>3, <3>4
    <3> QED
      BY <1>1, <1>3, <2>1, <3>2, <3>5, AgreeFrame DEF Settled
  <2> QED
    BY <2>1, OtherFamilies
<1> QED
  BY <1>6, <1>7, <1>8, <1>9 DEF Settled

\* A step of a rollback: the row of an id it minted.
LEMMA SettledUndoneRow ==
    ASSUME Base, OwnInv, Settled, NEW c \in Commands, AddsNow(c), Others(c), cmd[c].at = "undo",
           NEW s \in Slots, RemoveSource(s), UNCHANGED <<family, keys, hist>>,
           cmd'[c].op = cmd[c].op, cmd'[c].at = cmd[c].at, cmd'[c].slot = cmd[c].slot,
           cmd'[c].key = cmd[c].key, cmd'[c].account = cmd[c].account, cmd'[c].alone = cmd[c].alone
    PROVE  Settled'
<1>1. Rest(c) /\ Running(c) /\ Running(c)' /\ Adding(c)
  BY OthersKept DEF AddsNow, Running
<1>2. /\ rows' = rows \ {s} /\ hist'.clean = hist.clean /\ hist'.gone = hist.gone
      /\ hist'.unchecked = hist.unchecked
      /\ \A x \in rows' : ref'[x] = ref[x] /\ conf'[x] = conf[x] /\ bound'[x] = bound[x]
  BY RemovedRow
<1>3. SecretInv'
  <2>1. CASE family # "localgit"
    <3>1. \A x \in hist'.clean \cap rows' :
            x \in hist.clean \cap rows /\ ref'[x] = ref[x] /\ keys'[ref[x]] # None
      BY <1>2, <2>1 DEF Settled, SecretInv
    <3>2. cmd'[c].op \in {"add", "delete"} => \A x \in hist'.clean \cap rows' : ref'[x] # cmd'[c].key
      BY <1>1, <1>2, <2>1, <3>1 DEF Settled, SecretInv
    <3> QED
      BY <1>1, <3>1, <3>2, SecretFrame DEF Settled
  <2> QED
    BY <2>1, OtherFamilies
<1>4. GoneInv'
  <2>1. /\ \A x \in hist.gone : x \notin rows' /\ keys'[x] = None
        /\ \A r \in rows' : ref'[r] \notin hist.gone
        /\ cmd'[c].slot \notin hist.gone /\ cmd'[c].key \notin hist.gone
    BY <1>1, <1>2 DEF Settled, GoneInv
  <2> QED
    BY <1>1, <1>2, <2>1, GoneFrame DEF Settled
<1>5. UserInv'
  <2>1. CASE family = "gitlab"
    <3>1. \A x \in (hist'.clean \cap rows') \ hist'.drifted : conf'[x] \in bound'[x]
      BY <1>2, <2>1 DEF Settled, UserInv
    <3>2. cmd'[c].op # "update"
      BY <1>1 DEF Adding
    <3> QED
      BY <1>1, <3>1, <3>2, UserFrame DEF Settled
  <2> QED
    BY <2>1, OtherFamilies
<1>6. AgreeInv'
  <2>1. CASE Shared
    <3>1. ASSUME NEW k \in Slots, NEW a \in Accounts, Claims(k, a)'
          PROVE  Claims(k, a)
      <4>1. (\E x \in rows' : ref'[x] = k /\ a \in bound'[x]) => Claims(k, a)
        BY <1>2 DEF Claims
      <4>2. keys'[k] = a /\ k \notin hist'.unchecked => Claims(k, a)
        BY <1>2 DEF Claims
      <4>3. Vouches(c)' /\ cmd'[c].key = k /\ cmd'[c].account = a => Claims(k, a)
        BY <1>1 DEF Claims, Vouches
      <4> QED
        BY <1>1, <3>1, <4>1, <4>2, <4>3, ClaimsFrame
    <3>2. \A x \in hist'.clean \cap rows' : bound'[x] # {}
      BY <1>2, <2>1 DEF Settled, AgreeInv
    <3>3. ~Relies(c)'
      BY <1>1 DEF Relies, AddsNow, Adding
    <3> QED
      BY <1>1, <1>2, <2>1, <3>1, <3>2, <3>3, AgreeFrame DEF Settled
  <2> QED
    BY <2>1, OtherFamilies
<1> QED
  BY <1>3, <1>4, <1>5, <1>6 DEF Settled

\* A credential goes that the command has, and no clean row.
LEMMA SettledDropped ==
    ASSUME Base, OwnInv, Settled, NEW c \in Commands, Running(c), Others(c),
           cmd[c].op \in {"add", "delete"}, cmd[c].key \in Slots,
           keys' = [keys EXCEPT ![cmd[c].key] = None], UNCHANGED <<family, tables>>,
           hist'.clean = hist.clean, hist'.gone = hist.gone, hist'.drifted = hist.drifted,
           hist'.unchecked = hist.unchecked,
           \/ cmd'[c] = Idle
           \/ /\ cmd'[c].op = cmd[c].op /\ cmd'[c].slot = cmd[c].slot /\ cmd'[c].key = cmd[c].key
              /\ cmd'[c].account = cmd[c].account /\ cmd'[c].alone = cmd[c].alone
              /\ cmd'[c].at = "undo"
    PROVE  Settled'
<1>1. Rest(c) /\ (cmd'[c] = Idle => ~Running(c)')
  BY OthersKept DEF Running, Idle
<1>2. /\ UNCHANGED <<rows, ref, conf, bound>>
      /\ keys'[cmd[c].key] = None /\ None \notin Accounts
      /\ \A k \in Slots : k # cmd[c].key => keys'[k] = keys[k]
      /\ rows \subseteq Slots /\ \A s \in Slots : ref[s] \in Slots \cup {None}
      /\ hist.gone \subseteq Slots
  BY Known, SourcesAssumption DEF Histories, tables
<1>3. SecretInv'
  <2>1. CASE family # "localgit"
    <3>1. \A s \in hist'.clean \cap rows' :
            s \in hist.clean \cap rows /\ ref'[s] = ref[s] /\ keys'[ref[s]] # None
      BY <1>2, <2>1 DEF Settled, SecretInv
    <3>2. Running(c)' /\ cmd'[c].op \in {"add", "delete"} =>
                    \A s \in hist'.clean \cap rows' : ref'[s] # cmd'[c].key
      BY <1>1, <2>1, <3>1 DEF Settled, SecretInv
    <3> QED
      BY <1>1, <3>1, <3>2, SecretFrame DEF Settled
  <2> QED
    BY <2>1, OtherFamilies
<1>4. GoneInv'
  <2>1. /\ \A x \in hist.gone : x \notin rows' /\ keys'[x] = None
        /\ \A r \in rows' : ref'[r] \notin hist.gone
        /\ cmd[c].slot \notin hist.gone /\ cmd[c].key \notin hist.gone
    BY <1>2 DEF Settled, GoneInv
  <2> QED
    BY <1>1, <2>1, GoneFrame DEF Settled
<1>5. UserInv'
  <2>1. CASE family = "gitlab"
    BY <1>1, <1>2, <2>1, UserFrame DEF Settled, UserInv
  <2> QED
    BY <2>1, OtherFamilies
<1>6. AgreeInv'
  <2>1. CASE Shared
    <3>1. ~Relies(c)'
      BY <1>1 DEF Relies, AddsNow
    <3>2. Vouches(c)' => Vouches(c) /\ cmd'[c].key = cmd[c].key /\ cmd'[c].account = cmd[c].account
      BY <1>1 DEF Vouches, Adding
    <3>3. ASSUME NEW k \in Slots, NEW a \in Accounts, Claims(k, a)'
          PROVE  Claims(k, a)
      <4>1. Vouches(c)' /\ cmd'[c].key = k /\ cmd'[c].account = a => Claims(k, a)
        BY <3>2 DEF Claims
      <4>2. (\E s \in rows' : ref'[s] = k /\ a \in bound'[s]) => Claims(k, a)
        BY <1>2 DEF Claims
      <4>3. keys'[k] = a /\ k \notin hist'.unchecked => Claims(k, a)
        BY <1>2, <2>1 DEF Claims
      <4> QED
        BY <1>1, <3>3, <4>1, <4>2, <4>3, ClaimsFrame
    <3>4. \A s \in hist'.clean \cap rows' : bound'[s] # {}
      BY <1>2, <2>1 DEF Settled, AgreeInv
    <3> QED
      BY <1>1, <1>2, <2>1, <3>1, <3>3, <3>4, AgreeFrame DEF Settled
  <2> QED
    BY <2>1, OtherFamilies
<1> QED
  BY <1>3, <1>4, <1>5, <1>6 DEF Settled

\* GitLab's config names another user now, and until the update returns nothing
\* is said of the source.
LEMMA SettledConfig ==
    ASSUME Base, OwnInv, Settled, NEW c \in Commands, Running(c), Others(c), family = "gitlab",
           cmd[c].op = "update", cmd[c].slot \in Slots,
           UpdateConfig(cmd[c].slot, cmd[c].account), UNCHANGED <<family, keys>>,
           hist'.clean = hist.clean, hist'.gone = hist.gone, hist'.unchecked = hist.unchecked,
           hist'.drifted = hist.drifted \cup {cmd[c].slot},
           cmd'[c].op = cmd[c].op, cmd'[c].slot = cmd[c].slot, cmd'[c].key = cmd[c].key,
           cmd'[c].account = cmd[c].account, cmd'[c].alone = cmd[c].alone
    PROVE  Settled'
<1>1. Rest(c) /\ ~Shared /\ UNCHANGED <<rows, ref, bound>> /\ rows \subseteq Slots
  BY OthersKept, Known DEF Shared, UpdateConfig
<1>2. \A s \in rows : conf'[s] = IF s = cmd[c].slot THEN cmd[c].account ELSE conf[s]
  BY <1>1 DEF UpdateConfig, Base, TypeOK
<1>3. SecretInv'
  BY <1>1, SecretStays DEF Settled
<1>4. GoneInv'
  BY <1>1, GoneStays DEF Settled
<1>5. UserInv'
  <2>1. \A s \in (hist'.clean \cap rows') \ hist'.drifted : conf'[s] \in bound'[s]
    BY <1>1, <1>2 DEF Settled, UserInv
  <2>2. cmd[c].alone => cmd[c].slot \in rows
    BY DEF Settled, UserInv
  <2> QED
    BY <1>1, <1>2, <2>1, <2>2, UserFrame DEF Settled
<1>6. AgreeInv'
  BY <1>1, OtherFamilies
<1> QED
  BY <1>3, <1>4, <1>5, <1>6 DEF Settled

\* The update binds its user and returns.
LEMMA SettledRebound ==
    ASSUME Base, OwnInv, Settled, NEW c \in Commands, Running(c), family = "gitlab",
           cmd[c].op = "update", cmd[c].at = "identity", cmd[c].slot \in rows,
           EnsureIdentity(cmd[c].slot, cmd[c].account), Finish(c, TRUE),
           UNCHANGED <<family, keys, used>>
    PROVE  Settled'
<1>1. /\ cmd[c] # Idle /\ ~Adding(c) /\ ~Shared
      /\ UNCHANGED <<rows, ref, conf>> /\ rows \subseteq Slots
  BY Known DEF Running, Idle, EnsureIdentity, Adding, Shared
<1>2. /\ cmd'[c] = Idle /\ Others(c)
      /\ hist'.clean = hist.clean /\ hist'.gone = hist.gone
      /\ hist'.drifted = IF cmd[c].alone THEN hist.drifted \ {cmd[c].slot} ELSE hist.drifted
  BY <1>1, FinishMoves
<1>3. Rest(c) /\ ~Running(c)'
  BY <1>2, OthersKept DEF Running, Idle
<1>4. \A s \in rows : bound'[s] = IF s = cmd[c].slot THEN bound[s] \cup {cmd[c].account} ELSE bound[s]
  BY <1>1 DEF EnsureIdentity, Base, TypeOK
<1>5. SecretInv'
  BY <1>1, <1>2, <1>3, SecretStays DEF Settled
<1>6. GoneInv'
  BY <1>1, <1>2, <1>3, GoneStays DEF Settled
<1>7. UserInv'
  <2>1. cmd[c].alone => conf[cmd[c].slot] = cmd[c].account
    BY DEF Settled, UserInv
  <2>2. ASSUME NEW s \in (hist'.clean \cap rows') \ hist'.drifted
        PROVE  conf'[s] \in bound'[s]
    <3>1. CASE s \notin hist.drifted
      <4>1. conf[s] \in bound[s]
        BY <1>1, <1>2, <2>2, <3>1 DEF Settled, UserInv
      <4> QED
        BY <1>1, <1>4, <2>2, <4>1
    <3>2. CASE s \in hist.drifted
      <4>1. s = cmd[c].slot /\ cmd[c].alone
        BY <1>2, <2>2, <3>2
      <4> QED
        BY <1>1, <1>4, <2>1, <4>1
    <3> QED
      BY <3>1, <3>2
  <2> QED
    BY <1>3, <2>2, UserFrame DEF Settled
<1>8. AgreeInv'
  BY <1>1, OtherFamilies
<1> QED
  BY <1>5, <1>6, <1>7, <1>8 DEF Settled

\* The pasted token belongs to the user the source is bound to, or to whomever
\* when it is bound to nobody.
LEMMA SettledVerified ==
    ASSUME Base, OwnInv, Settled, NEW c \in Commands, Running(c), Others(c), Shared,
           cmd[c].op = "reconnect", cmd[c].slot \in Slots, cmd[c].account \in Accounts,
           bound[cmd[c].slot] \subseteq {cmd[c].account},
           cmd'[c].guarded => bound[cmd[c].slot] # {},
           UNCHANGED <<family, tables, keys, hist>>,
           cmd'[c].op = cmd[c].op, cmd'[c].slot = cmd[c].slot, cmd'[c].key = cmd[c].key,
           cmd'[c].account = cmd[c].account, cmd'[c].alone = cmd[c].alone
    PROVE  Settled'
<1>1. Rest(c) /\ family # "gitlab"
  BY OthersKept DEF Shared
<1>2. UNCHANGED <<rows, ref, conf, bound>>
  BY DEF tables
<1>3. SecretInv'
  BY <1>1, <1>2, SecretStays DEF Settled
<1>4. GoneInv'
  BY <1>1, <1>2, GoneStays DEF Settled
<1>5. UserInv'
  BY <1>1, OtherFamilies
<1>6. AgreeInv'
  <2>1. Relies(c) /\ (Relies(c)' => cmd'[c].slot = cmd[c].slot /\ cmd'[c].key = cmd[c].key)
    BY DEF Relies
  <2>2. bound[cmd[c].slot] # {} =>
          cmd[c].slot \in rows /\ ref[cmd[c].slot] = cmd[c].key /\ cmd[c].account \in bound[cmd[c].slot]
    BY <2>1 DEF Settled, AgreeInv, Base, TypeOK
  <2>3. Vouches(c)' => cmd'[c].guarded
    BY DEF Vouches, Adding
  <2>4. ASSUME NEW k \in Slots, NEW a \in Accounts, Claims(k, a)'
        PROVE  Claims(k, a)
    <3>1. Vouches(c)' /\ cmd'[c].key = k /\ cmd'[c].account = a => Claims(k, a)
      BY <2>2, <2>3 DEF Claims
    <3>2. (\E s \in rows' : ref'[s] = k /\ a \in bound'[s]) => Claims(k, a)
      BY <1>2 DEF Claims
    <3>3. keys'[k] = a /\ k \notin hist'.unchecked => Claims(k, a)
      BY DEF Claims
    <3> QED
      BY <1>1, <2>4, <3>1, <3>2, <3>3, ClaimsFrame
  <2>5. Relies(c)' /\ cmd'[c].slot \in rows' => ref'[cmd'[c].slot] = cmd'[c].key
    BY <1>2, <2>1 DEF Settled, AgreeInv
  <2>6. \A s \in hist'.clean \cap rows' : bound'[s] # {}
    BY <1>2 DEF Settled, AgreeInv
  <2> QED
    BY <1>1, <1>2, <2>4, <2>5, <2>6, AgreeFrame DEF Settled
<1> QED
  BY <1>3, <1>4, <1>5, <1>6 DEF Settled

LEMMA SettledWorks1 ==
    ASSUME Base, OwnInv, LoneInv, Settled, NEW c \in Commands,
           ProbeKey(c) \/ PutKey(c) \/ InsertRow(c) \/ StampRef(c) \/ BindIdentity(c)
    PROVE  Settled'
<1>1. Running(c)
  BY DEF Running, ProbeKey, PutKey, InsertRow, StampRef, BindIdentity, At
<1>2. /\ StageInv(c) /\ cmd[c] # Idle /\ cmd[c].slot \in used /\ cmd[c].slot \in Slots
      /\ None \notin Slots /\ None \notin Accounts
  BY <1>1, RunsAt, Known, SourcesAssumption
<1>3. CASE ProbeKey(c)
  <2>1. cmd[c].op = "borrow" /\ cmd[c].at = "probe" /\ UNCHANGED <<family, tables, keys, used>>
        /\ Shared /\ "insert" \in Stages
    BY <1>2, <1>3 DEF ProbeKey, At, StageInv, Stages
  <2>2. CASE Finish(c, FALSE)
    BY <1>1, <2>1, <2>2, Ends DEF Untried
  <2>3. CASE Goto(c, "insert") /\ UNCHANGED hist
    BY <1>1, <2>1, <2>3, GoesOn
  <2> QED
    BY <1>3, <2>2, <2>3 DEF ProbeKey
<1>4. CASE PutKey(c)
  <2>1. /\ cmd[c].op \in {"add", "update", "reconnect"} /\ cmd[c].at = "putKey"
        /\ UNCHANGED <<family, tables, used>> /\ UNCHANGED <<rows, ref, conf, bound>>
        /\ cmd[c].key \in Slots /\ cmd[c].account \in Accounts
        /\ family = "gitlab" \/ Shared
        /\ cmd[c].op = "reconnect" => Shared
    <3>1. /\ cmd[c].op \in {"add", "update", "reconnect"} /\ cmd[c].at = "putKey"
          /\ UNCHANGED <<family, tables, used>> /\ UNCHANGED <<rows, ref, conf, bound>>
      BY <1>4 DEF PutKey, At, tables
    <3> QED
      BY <1>2, <3>1, Known DEF StageInv, Shared
  <2>2. CASE /\ keys' = [keys EXCEPT ![cmd[c].key] = cmd[c].account]
             /\ cmd' = [cmd EXCEPT ![c] = Idle] /\ cmd[c].op = "reconnect"
             /\ hist' = IF cmd[c].guarded THEN hist
                        ELSE [hist EXCEPT !.unchecked = @ \cup {cmd[c].key}]
    <3>1. cmd'[c] = Idle /\ Others(c)
      BY <2>2, ReplaceMoves, IdleInvocation
    <3>2. /\ hist'.clean = hist.clean /\ hist'.gone = hist.gone /\ hist'.drifted = hist.drifted
          /\ hist.unchecked \subseteq hist'.unchecked
          /\ ~cmd[c].guarded => cmd[c].key \in hist'.unchecked
      BY <2>2, Known DEF Histories
    <3>3. cmd[c].guarded => Vouches(c)
      BY <1>1, <2>1, <2>2 DEF Vouches
    <3> QED
      BY <1>1, <2>1, <2>2, <3>1, <3>2, <3>3, SettledPut
  <2>3. CASE /\ Goto(c, IF family = "gitlab" THEN "stamp" ELSE "insert") /\ cmd[c].op # "reconnect"
             /\ keys' = [keys EXCEPT ![cmd[c].key] = cmd[c].account] /\ UNCHANGED hist
    <3> DEFINE at == IF family = "gitlab" THEN "stamp" ELSE "insert"
    <3>1. Goto(c, at) /\ at \in Stages /\ at \in {"stamp", "insert"}
      BY <2>3 DEF Stages
    <3> HIDE DEF at
    <3>2. Moved(c, at) /\ Others(c)
      BY <3>1, GotoMoves DEF Base, CmdInv
    <3>3. Vouches(c) \/ ~Shared
      BY <1>1, <1>2, <2>1, <2>3 DEF Vouches, Adding, StageInv, Shared
    <3> QED
      BY <1>1, <2>1, <2>3, <3>1, <3>2, <3>3, SettledPut DEF Moved
  <2>4. CASE Rollback(c, FALSE) /\ UNCHANGED <<keys, hist>> /\ cmd[c].op = "add"
    BY <1>1, <2>1, <2>4, RollsBack DEF Adding
  <2>5. CASE Finish(c, FALSE) /\ UNCHANGED keys /\ ~(cmd[c].op = "add" /\ family = "gitlab")
    BY <1>1, <2>1, <2>5, Ends DEF Untried, Adding
  <2> QED
    BY <1>4, <2>2, <2>3, <2>4, <2>5 DEF PutKey
<1>5. CASE InsertRow(c)
  <2>1. /\ Adding(c) /\ AddsNow(c) /\ cmd[c].at = "insert" /\ UNCHANGED <<family, used, keys>>
        /\ Awaits(c) /\ (family = "gitlab" \/ Shared)
    BY <1>1, <1>5 DEF InsertRow, AddsNow, OwnInv, Credentialed, Shared
  <2>2. CASE /\ InsertSource(cmd[c].slot, IF family = "gitlab" THEN None ELSE cmd[c].key,
                             cmd[c].account)
             /\ cmd' = [cmd EXCEPT ![c].at = IF family = "gitlab" THEN "putKey" ELSE "identity",
                                   ![c].done = Append(@, cmd[c].slot)]
             /\ UNCHANGED hist
    <3> DEFINE at == IF family = "gitlab" THEN "putKey" ELSE "identity"
               key == IF family = "gitlab" THEN None ELSE cmd[c].key
    <3>1. cmd' = [cmd EXCEPT ![c].at = at, ![c].done = Append(@, cmd[c].slot)]
          /\ InsertSource(cmd[c].slot, key, cmd[c].account)
      BY <2>2
    <3>2. at \in Stages /\ key \in {cmd[c].key, None} /\ (Shared => key = cmd[c].key)
      BY DEF Stages, Shared
    <3> HIDE DEF at, key
    <3>3. /\ Others(c) /\ cmd'[c].alone = cmd[c].alone
          /\ cmd'[c].op = cmd[c].op /\ cmd'[c].slot = cmd[c].slot /\ cmd'[c].key = cmd[c].key
          /\ cmd'[c].account = cmd[c].account
      BY <1>2, <3>1, <3>2, InsertMoves
    <3> QED
      BY <1>2, <2>1, <2>2, <3>1, <3>2, <3>3, SettledInsert
  <2>3. CASE Finish(c, FALSE) /\ UNCHANGED tables /\ family = "gitlab"
    BY <1>1, <2>1, <2>3, Ends DEF Untried
  <2>4. CASE Rollback(c, cmd[c].op = "add") /\ UNCHANGED <<tables, hist>> /\ family # "gitlab"
    <3>1. cmd[c].key \in Slots
      BY <1>2, <2>1, <2>4, Known DEF StageInv, Shared, Adding
    <3> QED
      BY <1>1, <2>1, <2>4, <3>1, RollsBack
  <2> QED
    BY <1>5, <2>2, <2>3, <2>4 DEF InsertRow
<1>6. CASE StampRef(c)
  <2>1. /\ cmd[c].op \in {"add", "update"} /\ cmd[c].at = "stamp" /\ UNCHANGED <<family, used, keys>>
        /\ family = "gitlab" /\ cmd[c].key = cmd[c].slot /\ "identity" \in Stages
    <3>1. cmd[c].op \in {"add", "update"} /\ cmd[c].at = "stamp" /\ UNCHANGED <<family, used, keys>>
      BY <1>6 DEF StampRef, At
    <3> QED
      BY <1>2, <3>1 DEF StageInv, Shared, Stages
  <2>2. CASE UpdateSecretRef(cmd[c].slot, cmd[c].key) /\ Goto(c, "identity") /\ UNCHANGED hist
    <3>1. Moved(c, "identity") /\ Others(c)
      BY <2>1, <2>2, GotoMoves DEF Base, CmdInv
    <3> QED
      BY <1>1, <1>2, <2>1, <2>2, <3>1, SettledStamp DEF Moved
  <2>3. CASE Rollback(c, TRUE) /\ UNCHANGED <<tables, hist>> /\ cmd[c].op = "add"
    BY <1>1, <1>2, <2>1, <2>3, RollsBack DEF Adding
  <2>4. CASE Finish(c, FALSE) /\ UNCHANGED tables /\ cmd[c].op # "add"
    BY <1>1, <2>1, <2>4, Ends DEF Adding
  <2> QED
    BY <1>6, <2>2, <2>3, <2>4 DEF StampRef
<1>7. CASE BindIdentity(c)
  <2>1. /\ cmd[c].op \in {"add", "borrow"} /\ cmd[c].at = "identity" /\ UNCHANGED <<family, keys>>
        /\ cmd[c].key \in Slots /\ cmd[c].account \in Accounts /\ AddsNow(c) /\ Adding(c)
        /\ (family = "gitlab" => cmd[c].left = 1) /\ family # "localgit"
        /\ (family # "gitlab" => Shared)
    <3>1. cmd[c].op \in {"add", "borrow"} /\ cmd[c].at = "identity" /\ UNCHANGED <<family, keys>>
      BY <1>7 DEF BindIdentity, At
    <3> QED
      BY <1>1, <1>2, <3>1, Known DEF StageInv, AddsNow, Adding, Shared
  <2>2. CASE EnsureIdentity(cmd[c].slot, cmd[c].account) /\ cmd[c].left > 1 /\ NextProduct(c)
             /\ cmd[c].slot \in rows
    <3>1. PICK s \in Slots \ used :
             /\ cmd' = [cmd EXCEPT ![c].at = "insert", ![c].slot = s, ![c].left = @ - 1]
             /\ UNCHANGED hist
      BY <2>2 DEF NextProduct
    <3>2. /\ Others(c) /\ cmd'[c].at = "insert" /\ cmd'[c].alone = cmd[c].alone
          /\ cmd'[c].op = cmd[c].op /\ cmd'[c].slot = s /\ cmd'[c].key = cmd[c].key
          /\ cmd'[c].account = cmd[c].account
      BY <2>2, <3>1, NextProductMoves
    <3>3. Shared
      BY <2>1, <2>2
    <3> QED
      BY <2>1, <2>2, <3>1, <3>2, <3>3, SettledNext
  <2>3. CASE EnsureIdentity(cmd[c].slot, cmd[c].account) /\ Finish(c, TRUE) /\ UNCHANGED used
             /\ cmd[c].slot \in rows
    BY <2>1, <2>3, SettledBound
  <2>4. CASE /\ Rollback(c, IF family = "gitlab" THEN ref[cmd[c].slot] # None
                            ELSE cmd[c].op = "add")
             /\ UNCHANGED <<tables, used, hist>>
    <3> DEFINE own == IF family = "gitlab" THEN ref[cmd[c].slot] # None ELSE cmd[c].op = "add"
    <3>1. own \in BOOLEAN /\ Rollback(c, own)
      BY <2>4
    <3> HIDE DEF own
    <3> QED
      BY <1>1, <2>1, <2>4, <3>1, RollsBack
  <2> QED
    BY <1>7, <2>2, <2>3, <2>4 DEF BindIdentity
<1> QED
  BY <1>3, <1>4, <1>5, <1>6, <1>7

LEMMA SettledWorks2 ==
    ASSUME Base, OwnInv, LoneInv, Settled, NEW c \in Commands,
           UndoStep(c) \/ WriteConfig(c) \/ ValidatePat(c) \/ RebindIdentity(c)
           \/ VerifyUser(c) \/ EnsureLogin(c) \/ DropKey(c)
    PROVE  Settled'
<1>1. Running(c)
  BY DEF Running, UndoStep, WriteConfig, ValidatePat, RebindIdentity, VerifyUser, EnsureLogin, DropKey, At
<1>2. /\ StageInv(c) /\ cmd[c] # Idle /\ cmd[c].slot \in used /\ cmd[c].slot \in Slots
      /\ None \notin Slots /\ None \notin Accounts /\ cmd[c].key \in Slots \cup {None}
  BY <1>1, RunsAt, Known, SourcesAssumption
<1>3. CASE UndoStep(c)
  <2>1. Adding(c) /\ cmd[c].at = "undo" /\ AddsNow(c) /\ UNCHANGED <<family, used>>
    BY <1>3, UndoCases
  <2>2. CASE cmd[c].undo = <<>> /\ Finish(c, FALSE) /\ UNCHANGED <<tables, keys>>
    BY <1>1, <2>1, <2>2, Ends
  <2>3. ASSUME UNCHANGED hist, Others(c), cmd'[c].op = cmd[c].op, cmd'[c].at = cmd[c].at,
               cmd'[c].slot = cmd[c].slot, cmd'[c].key = cmd[c].key,
               cmd'[c].account = cmd[c].account, cmd'[c].alone = cmd[c].alone,
               Head(cmd[c].undo) \in {"row", "key"} \X Slots,
               \/ RemoveSource(Head(cmd[c].undo)[2]) /\ UNCHANGED keys
               \/ UNCHANGED tables /\ keys' = [keys EXCEPT ![cmd[c].key] = None] /\ cmd[c].op = "add"
               \/ UNCHANGED <<tables, keys>>
        PROVE  Settled'
    <3>1. CASE RemoveSource(Head(cmd[c].undo)[2]) /\ UNCHANGED keys
      <4>1. Head(cmd[c].undo)[2] \in Slots
        BY <2>3
      <4> QED
        BY <2>1, <2>3, <3>1, <4>1, SettledUndoneRow
    <3>2. CASE UNCHANGED tables /\ keys' = [keys EXCEPT ![cmd[c].key] = None] /\ cmd[c].op = "add"
      <4>1. cmd[c].key \in Slots
        BY <1>2, <2>1, <3>2 DEF StageInv
      <4> QED
        BY <1>1, <2>1, <2>3, <3>2, <4>1, SettledDropped
    <3>3. CASE UNCHANGED <<tables, keys>>
      <4>1. UNCHANGED <<rows, ref, conf, bound>>
        BY <3>3 DEF tables
      <4>2. cmd[c].op # "update" /\ cmd[c].op # "reconnect" /\ cmd'[c].at # "identity"
        BY <2>1, <2>3 DEF Adding
      <4> QED
        BY <1>1, <2>1, <2>3, <3>3, <4>1, <4>2, Proceeds
    <3> QED
      BY <2>3, <3>1, <3>2, <3>3
  <2> QED
    BY <1>3, <2>2, <2>3, UndoCases
<1>4. CASE WriteConfig(c)
  <2>1. /\ cmd[c].op = "update" /\ family = "gitlab" /\ UNCHANGED <<family, used, keys>>
        /\ ~Adding(c) /\ "pat" \in Stages
    BY <1>4 DEF WriteConfig, At, Adding, Stages
  <2>2. CASE /\ UpdateConfig(cmd[c].slot, cmd[c].account) /\ Goto(c, "pat")
             /\ hist' = [hist EXCEPT !.drifted = @ \cup {cmd[c].slot}]
    <3>1. Moved(c, "pat") /\ Others(c)
      BY <2>1, <2>2, GotoMoves DEF Base, CmdInv
    <3>2. /\ hist'.clean = hist.clean /\ hist'.gone = hist.gone /\ hist'.unchecked = hist.unchecked
          /\ hist'.drifted = hist.drifted \cup {cmd[c].slot}
      BY <2>2, Known DEF Histories
    <3> QED
      BY <1>1, <1>2, <2>1, <2>2, <3>1, <3>2, SettledConfig DEF Moved
  <2>3. CASE Finish(c, FALSE) /\ UNCHANGED tables
    BY <1>1, <2>1, <2>3, Ends
  <2> QED
    BY <1>4, <2>2, <2>3 DEF WriteConfig
<1>5. CASE ValidatePat(c)
  <2>1. /\ cmd[c].op = "update" /\ cmd[c].at = "pat" /\ UNCHANGED <<family, used, keys, tables>>
        /\ ~Adding(c)
    BY <1>5 DEF ValidatePat, At, Adding
  <2>2. ASSUME NEW at \in {"putKey", "identity"}, Goto(c, at), UNCHANGED hist
        PROVE  Settled'
    <3>1. at \in Stages
      BY DEF Stages
    <3> QED
      BY <1>1, <2>1, <2>2, <3>1, GoesOn
  <2>3. CASE Finish(c, FALSE)
    BY <1>1, <2>1, <2>3, Ends
  <2> QED
    BY <1>5, <2>2, <2>3 DEF ValidatePat
<1>6. CASE RebindIdentity(c)
  <2>1. /\ cmd[c].op = "update" /\ cmd[c].at = "identity" /\ UNCHANGED <<family, used, keys>>
        /\ ~Adding(c) /\ family = "gitlab"
    <3>1. cmd[c].op = "update" /\ cmd[c].at = "identity" /\ UNCHANGED <<family, used, keys>>
      BY <1>6 DEF RebindIdentity, At
    <3> QED
      BY <1>2, <3>1 DEF StageInv, Adding
  <2>2. CASE cmd[c].slot \in rows /\ EnsureGitlabSelfIdentity(cmd[c].slot, cmd[c].account) /\ Finish(c, TRUE)
    BY <1>1, <2>1, <2>2, SettledRebound DEF EnsureGitlabSelfIdentity
  <2>3. CASE UNCHANGED tables /\ Finish(c, FALSE)
    BY <1>1, <2>1, <2>3, Ends
  <2> QED
    BY <1>6, <2>2, <2>3 DEF RebindIdentity
<1>7. CASE VerifyUser(c)
  <2>1. /\ cmd[c].op = "reconnect" /\ UNCHANGED <<family, used, tables, keys>> /\ ~Adding(c)
        /\ Shared /\ cmd[c].account \in Accounts
    <3>1. cmd[c].op = "reconnect" /\ UNCHANGED <<family, used, tables, keys>>
      BY <1>7 DEF VerifyUser, At
    <3> QED
      BY <1>2, <3>1 DEF StageInv, Adding
  <2>2. CASE /\ bound[cmd[c].slot] \subseteq {cmd[c].account}
             /\ cmd' = [cmd EXCEPT ![c].at = IF family = "github" THEN "login" ELSE "putKey",
                                  ![c].guarded = bound[cmd[c].slot] # {}]
             /\ UNCHANGED hist
    <3> DEFINE at == IF family = "github" THEN "login" ELSE "putKey"
               guarded == bound[cmd[c].slot] # {}
    <3>1. /\ at \in Stages /\ guarded \in BOOLEAN
          /\ cmd' = [cmd EXCEPT ![c].at = at, ![c].guarded = guarded]
          /\ guarded => bound[cmd[c].slot] # {}
      BY <2>2 DEF Stages
    <3> HIDE DEF at, guarded
    <3>2. /\ Others(c) /\ cmd'[c].op = cmd[c].op /\ cmd'[c].slot = cmd[c].slot
          /\ cmd'[c].key = cmd[c].key /\ cmd'[c].account = cmd[c].account
          /\ cmd'[c].alone = cmd[c].alone /\ cmd'[c].guarded = guarded
      BY <3>1, VerifyMoves
    <3>3. cmd'[c].guarded => bound[cmd[c].slot] # {}
      BY <3>1, <3>2
    <3> QED
      BY <1>1, <1>2, <2>1, <2>2, <3>2, <3>3, SettledVerified
  <2>3. CASE Finish(c, FALSE)
    BY <1>1, <2>1, <2>3, Ends
  <2> QED
    BY <1>7, <2>2, <2>3 DEF VerifyUser
<1>8. CASE EnsureLogin(c)
  <2>1. /\ cmd[c].op = "reconnect" /\ cmd[c].at = "login" /\ UNCHANGED <<family, used, tables, keys>>
        /\ ~Adding(c) /\ "putKey" \in Stages
    BY <1>8 DEF EnsureLogin, At, Adding, Stages
  <2>2. CASE Goto(c, "putKey") /\ UNCHANGED hist
    BY <1>1, <2>1, <2>2, GoesOn
  <2>3. CASE Finish(c, FALSE)
    BY <1>1, <2>1, <2>3, Ends
  <2> QED
    BY <1>8, <2>2, <2>3 DEF EnsureLogin
<1>9. CASE DropKey(c)
  <2>1. /\ cmd[c].op = "delete" /\ UNCHANGED <<family, used, tables>> /\ ~Adding(c)
        /\ Finish(c, TRUE)
    BY <1>9 DEF DropKey, At, Adding
  <2>2. CASE UNCHANGED keys
    BY <1>1, <2>1, <2>2, Ends
  <2>3. CASE cmd[c].key # None /\ keys' = [keys EXCEPT ![cmd[c].key] = None]
    <3>1. /\ cmd'[c] = Idle /\ Others(c)
          /\ hist'.clean = hist.clean /\ hist'.gone = hist.gone /\ hist'.drifted = hist.drifted
          /\ hist'.unchecked = hist.unchecked
      BY <1>2, <2>1, FinishMoves
    <3> QED
      BY <1>1, <1>2, <2>1, <2>3, <3>1, SettledDropped
  <2> QED
    BY <1>9, <2>2, <2>3 DEF DropKey
<1> QED
  BY <1>3, <1>4, <1>5, <1>6, <1>7, <1>8, <1>9

\* Of a local-git source nothing is said but that a failed add leaves nothing.
LEMMA SettledRoot ==
    ASSUME GoneInv', family = "localgit", UNCHANGED family
    PROVE  Settled'
<1>1. ~Shared /\ family # "gitlab"
  BY DEF Shared
<1> QED
  BY <1>1, OtherFamilies DEF Settled

LEMMA SettledWorks3 ==
    ASSUME Base, OwnInv, LoneInv, Settled, NEW c \in Commands,
           CheckDisjoint(c) \/ WriteRoot(c) \/ Rescan(c)
    PROVE  Settled'
<1>1. Running(c)
  BY DEF Running, CheckDisjoint, WriteRoot, Rescan, At
<1>2. /\ cmd[c].slot \in Slots /\ UNCHANGED <<family, used, keys>> /\ cmd[c].op \in {"add", "update"}
      /\ cmd[c].at \in {"check", "write", "rescan"} /\ cmd[c] # Idle
      /\ family = "localgit" /\ cmd[c].key = None /\ ~Shared
  <2>1. /\ UNCHANGED <<family, used, keys>> /\ cmd[c].op \in {"add", "update"}
        /\ cmd[c].at \in {"check", "write", "rescan"}
    BY DEF CheckDisjoint, WriteRoot, Rescan, At
  <2>2. StageInv(c) /\ cmd[c] # Idle /\ cmd[c].slot \in Slots
    BY <1>1, RunsAt
  <2> QED
    BY <2>1, <2>2 DEF StageInv, Shared
<1>3. CASE Finish(c, FALSE) /\ UNCHANGED tables /\ cmd[c].at \in {"check", "write"}
  BY <1>1, <1>2, <1>3, Ends DEF Untried
<1>4. CASE Finish(c, TRUE) /\ UNCHANGED <<rows, ref>>
  <2>1. cmd'[c] = Idle /\ Others(c) /\ hist'.gone = hist.gone
    BY <1>2, <1>4, FinishMoves
  <2>2. Rest(c) /\ ~Running(c)'
    BY <2>1, OthersKept DEF Running, Idle
  <2>3. GoneInv'
    BY <1>2, <1>4, <2>1, <2>2, GoneStays DEF Settled
  <2> QED
    BY <1>2, <2>3, SettledRoot
<1>5. CASE cmd' = [cmd EXCEPT ![c] = Idle] /\ UNCHANGED <<tables, hist>>
  <2>1. cmd'[c] = Idle /\ Others(c)
    BY <1>5, ReplaceMoves, IdleInvocation
  <2>2. Rest(c) /\ ~Running(c)' /\ UNCHANGED <<rows, ref>>
    BY <1>5, <2>1, OthersKept DEF Running, Idle, tables
  <2>3. GoneInv'
    BY <1>2, <1>5, <2>2, GoneStays DEF Settled
  <2> QED
    BY <1>2, <2>3, SettledRoot
<1>6. ASSUME NEW at \in {"write", "rescan"}, Goto(c, at), UNCHANGED <<rows, ref>>,
             hist'.gone = hist.gone
      PROVE  Settled'
  <2>1. Moved(c, at) /\ Others(c)
    BY <1>6, GotoMoves DEF Base, CmdInv, Stages
  <2>2. GoneInv'
    BY <1>1, <1>2, <1>6, <2>1, OthersKept, GoneStays DEF Settled, Moved
  <2> QED
    BY <1>2, <2>2, SettledRoot
<1>7. CASE CheckDisjoint(c)
  <2>1. cmd[c].at = "check" /\ UNCHANGED tables /\ UNCHANGED <<rows, ref>>
    BY <1>7 DEF CheckDisjoint, At, tables
  <2> QED
    BY <1>3, <1>6, <1>7, <2>1 DEF CheckDisjoint
<1>8. CASE WriteRoot(c)
  <2>1. cmd[c].at = "write"
    BY <1>8 DEF WriteRoot, At
  <2>2. CASE Finish(c, FALSE) /\ UNCHANGED tables
    BY <1>3, <2>1, <2>2
  <2>3. CASE /\ IF cmd[c].op = "add"
                THEN /\ InsertSource(cmd[c].slot, None, cmd[c].value)
                     /\ cmd' = [cmd EXCEPT ![c].at = "rescan", ![c].done = <<cmd[c].slot>>]
                ELSE /\ UpdateConfig(cmd[c].slot, cmd[c].value)
                     /\ Goto(c, "rescan")
             /\ hist' = [hist EXCEPT !.lone = IF cmd[c].alone THEN @ \cup {cmd[c].slot}
                                              ELSE @ \ {cmd[c].slot}]
    <3>1. /\ hist'.clean = hist.clean /\ hist'.gone = hist.gone /\ hist'.drifted = hist.drifted
          /\ hist'.unchecked = hist.unchecked
      BY <2>3, Known DEF Histories
    <3>2. CASE cmd[c].op = "add"
      <4>1. /\ Others(c)
            /\ cmd'[c].op = cmd[c].op /\ cmd'[c].slot = cmd[c].slot /\ cmd'[c].key = cmd[c].key
            /\ cmd'[c].alone = cmd[c].alone
        BY <1>2, <2>3, <3>2, WriteRootMoves
      <4>2. AddsNow(c) /\ Awaits(c)
        BY <1>1, <2>1, <3>2 DEF AddsNow, Adding, OwnInv
      <4> QED
        BY <1>2, <2>3, <3>1, <3>2, <4>1, <4>2, SettledInsert
    <3>3. CASE cmd[c].op # "add"
      <4>1. Goto(c, "rescan") /\ UNCHANGED <<rows, ref>>
        BY <2>3, <3>3 DEF UpdateConfig
      <4> QED
        BY <1>6, <3>1, <4>1
    <3> QED
      BY <3>2, <3>3
  <2> QED
    BY <1>8, <2>2, <2>3 DEF WriteRoot
<1>9. CASE Rescan(c)
  <2>1. UNCHANGED <<rows, ref>>
    BY <1>9 DEF Rescan, ClaimRepos, tables
  <2>2. Finish(c, TRUE) \/ (cmd' = [cmd EXCEPT ![c] = Idle] /\ UNCHANGED <<tables, hist>>)
    BY <1>9 DEF Rescan
  <2> QED
    BY <1>4, <1>5, <2>1, <2>2
<1> QED
  BY <1>7, <1>8, <1>9

\* A quit: the backfill binds the configured user of a GitLab row, and to the
\* others it adds nothing they did not have.
LEMMA SettledQuit ==
    ASSUME Base, Settled, QuitAndRestart
    PROVE  Settled'
<1>1. PICK failed \in BOOLEAN, reached \in SUBSET rows :
           /\ bound' = BackfillAtlassianSelfIdentities(BackfillGitlabSelfIdentities(reached))
           /\ hist' = [hist EXCEPT !.drifted = @ \ reached]
  <2>1. PICK failed \in BOOLEAN : \E reached \in {IF failed THEN {} ELSE rows} :
              /\ bound' = BackfillAtlassianSelfIdentities(BackfillGitlabSelfIdentities(reached))
              /\ hist' = [hist EXCEPT !.drifted = @ \ reached]
    BY DEF QuitAndRestart
  <2> QED
    BY <2>1
<1>2. /\ hist'.clean = hist.clean /\ hist'.gone = hist.gone /\ hist'.unchecked = hist.unchecked
      /\ hist'.drifted = hist.drifted \ reached
  BY <1>1, Known DEF Histories
<1>3. /\ UNCHANGED <<family, rows, ref, conf, keys>> /\ \A c \in Commands : cmd'[c] = Idle
  BY DEF QuitAndRestart
<1>4. \A c \in Commands : ~Running(c)' /\ ~Vouches(c)' /\ ~Relies(c)'
  BY <1>3 DEF Running, Idle, Vouches, Relies, AddsNow
<1> DEFINE known == BackfillGitlabSelfIdentities(reached)
<1>5. \A s \in rows : bound[s] \subseteq known[s]
                      /\ (family = "gitlab" /\ s \in reached => conf[s] \in known[s])
                      /\ (family # "gitlab" => known[s] = bound[s])
  BY Known DEF BackfillGitlabSelfIdentities
<1> HIDE DEF known
<1>6. \A s \in rows : bound'[s] = known[s]
  <2>1. bound' = BackfillAtlassianSelfIdentities(known)
    BY <1>1 DEF known
  <2>2. ASSUME NEW s \in rows
        PROVE  bound'[s] = known[s]
    <3>1. bound'[s] = IF family = "atlassian" /\ s \in rows /\ known[s] # {}
                      THEN known[s] \cup {CHOOSE a \in known[s] : TRUE} ELSE known[s]
      BY <2>1, Known DEF BackfillAtlassianSelfIdentities
    <3>2. known[s] # {} => (CHOOSE a \in known[s] : TRUE) \in known[s]
      OBVIOUS
    <3> QED
      BY <3>1, <3>2
  <2> QED
    BY <2>2
<1>7. SecretInv' /\ GoneInv'
  BY <1>2, <1>3, <1>4 DEF Settled, SecretInv, GoneInv
<1>8. UserInv'
  <2>1. ASSUME family = "gitlab", NEW s \in (hist'.clean \cap rows') \ hist'.drifted
        PROVE  conf'[s] \in bound'[s]
    <3>1. CASE s \in hist.drifted
      BY <1>2, <1>3, <1>5, <1>6, <2>1, <3>1
    <3>2. CASE s \notin hist.drifted
      BY <1>2, <1>3, <1>5, <1>6, <2>1, <3>2 DEF Settled, UserInv
    <3> QED
      BY <3>1, <3>2
  <2> QED
    BY <1>3, <1>4, <2>1 DEF UserInv
<1>9. AgreeInv'
  <2>1. CASE Shared
    <3>1. \A s \in rows : bound'[s] = bound[s]
      BY <1>5, <1>6, <2>1 DEF Shared
    <3>2. \A k, a : Claims(k, a)' => Claims(k, a)
      BY <1>2, <1>3, <1>4, <3>1 DEF Claims
    <3> QED
      BY <1>2, <1>3, <1>4, <2>1, <3>1, <3>2 DEF Settled, AgreeInv
  <2> QED
    BY <1>3, <2>1, OtherFamilies
<1> QED
  BY <1>7, <1>8, <1>9 DEF Settled

LEMMA SettledStep ==
    ASSUME Base, OwnInv, LoneInv, Settled, [Next]_vars
    PROVE  Settled'
<1>1. CASE UNCHANGED <<cmd, rows, ref, conf, bound, keys, family, hist>>
  <2>1. \A d \in Commands :
          /\ (Running(d)' <=> Running(d)) /\ (Vouches(d)' <=> Vouches(d)) /\ (Relies(d)' <=> Relies(d))
    BY <1>1 DEF Running, Vouches, Relies, AddsNow, Adding
  <2>2. \A k, a : Claims(k, a)' <=> Claims(k, a)
    BY <1>1, <2>1 DEF Claims
  <2>3. SecretInv' /\ GoneInv'
    BY <1>1, <2>1 DEF Settled, SecretInv, GoneInv
  <2>4. UserInv'
    BY <1>1, <2>1 DEF Settled, UserInv
  <2>5. AgreeInv'
    BY <1>1, <2>1, <2>2 DEF Settled, AgreeInv, Shared
  <2> QED
    BY <2>3, <2>4, <2>5 DEF Settled
<1>2. CASE UNCHANGED vars
  BY <1>1, <1>2 DEF vars, tables
<1>3. CASE SetPrivate
  BY <1>1, <1>3 DEF SetPrivate
<1>4. CASE QuitAndRestart
  BY <1>4, SettledQuit
<1> QED
  BY <1>2, <1>3, <1>4, StepCases, SettledRequests, SettledWorks1, SettledWorks2, SettledWorks3

(***************************************************************************)
(* The safety of the credentials                                           *)
(***************************************************************************)

SourcesInv == Base /\ OwnInv /\ LoneInv /\ Settled

\* The types, the ids an add owns, how far an add is that nothing overlapped, and
\* what is said of the sources themselves hold together in every reachable state,
\* whichever commands overlap, fail or are cut off by a quit.
THEOREM SourcesInvariance == Spec => []SourcesInv
<1>1. ASSUME Init
      PROVE  SourcesInv
  <2>1. \A c \in Commands : cmd[c].at = "idle"
    BY <1>1 DEF Init, StoreInit, Idle
  <2>2. OwnInv /\ LoneInv
    BY <2>1 DEF OwnInv, LoneInv, AddsNow, Awaits, Running
  <2>3. Settled
    BY <1>1, <2>1, SourcesAssumption
       DEF Settled, SecretInv, GoneInv, UserInv, AgreeInv, Claims, Vouches, Relies, AddsNow, Running,
           Init, StoreInit, HistInit
  <2> QED
    BY <1>1, <2>2, <2>3, BaseInit DEF SourcesInv
<1>2. SourcesInv /\ [Next]_vars => SourcesInv'
  BY BaseStep, OwnStep, LoneStep, SettledStep DEF SourcesInv
<1> QED
  BY <1>1, <1>2, PTL DEF Spec

\* The key of a source whose add succeeded undisturbed stays in the keychain as
\* long as its row stays: neither the last-reference check of a delete nor the
\* rollback of an add hands out a key that such a row uses (sources.rs:164,
\* atlassian.rs:305).
THEOREM KeptSecrets == Spec => []SourceKeepsItsSecret
<1>1. ASSUME SourcesInv
      PROVE  SourceKeepsItsSecret
  <2>1. rows \subseteq Slots /\ None \notin Slots
    BY <1>1, Known DEF SourcesInv
  <2>2. CASE family = "localgit"
    <3>1. \A s \in rows : ref[s] = None
      BY <1>1, <2>1, <2>2 DEF SourcesInv, Base, RowsInv
    <3> QED
      BY <2>2, <3>1 DEF SourceKeepsItsSecret, AuditOrphanSecrets
  <2>3. CASE family # "localgit"
    BY <1>1, <2>3 DEF SourcesInv, Settled, SecretInv, SourceKeepsItsSecret, AuditOrphanSecrets
  <2> QED
    BY <2>2, <2>3
<1> QED
  BY <1>1, SourcesInvariance, PTL

\* An add that fails undisturbed leaves neither a row nor a key, at whichever of
\* its writes it failed, unless a step of its rollback failed too
\* (commands.rs:1034-1086, github.rs:350-428, atlassian.rs:423-592).
THEOREM CleanFailures == Spec => []FailedAddLeavesNothing
<1>1. SourcesInv => FailedAddLeavesNothing
  BY DEF SourcesInv, Settled, GoneInv, FailedAddLeavesNothing
<1> QED
  BY <1>1, SourcesInvariance, PTL

\* A source's identities name the user of its credential: the one a GitLab source
\* is configured for, and for a GitHub or Atlassian source the one its key belongs
\* to, through every reconnect that checked it (atlassian.rs:804, github.rs:579).
THEOREM KnownUsers == Spec => []SourceKnowsItsUser
<1>1. ASSUME SourcesInv
      PROVE  SourceKnowsItsUser
  <2>1. /\ rows \subseteq Slots /\ None \notin Slots /\ keys \in [Slots -> Accounts \cup {None}]
        /\ \A s \in Slots : ref[s] \in Slots \cup {None}
        /\ \A s \in rows : bound[s] \subseteq Accounts
    BY <1>1, Known DEF SourcesInv, Base, TypeOK
  <2>2. ASSUME NEW s \in hist.clean \cap rows, family = "gitlab", s \notin hist.drifted
        PROVE  conf[s] \in bound[s]
    BY <1>1, <2>2 DEF SourcesInv, Settled, UserInv
  <2>3. ASSUME NEW s \in hist.clean \cap rows, Shared, ref[s] \notin hist.unchecked
        PROVE  keys[ref[s]] \in bound[s]
    <3>1. ref[s] \in Slots /\ keys[ref[s]] \in Accounts
      <4>1. ref[s] # None /\ keys[ref[s]] # None
        BY <1>1, <2>3 DEF SourcesInv, Settled, SecretInv, Shared
      <4> QED
        BY <2>1, <4>1
    <3>2. PICK a \in Accounts : a \in bound[s]
      BY <1>1, <2>1, <2>3 DEF SourcesInv, Settled, AgreeInv
    <3>3. Claims(ref[s], a) /\ Claims(ref[s], keys[ref[s]])
      BY <2>3, <3>2 DEF Claims
    <3>4. a = keys[ref[s]]
      BY <1>1, <2>3, <3>1, <3>2, <3>3 DEF SourcesInv, Settled, AgreeInv
    <3> QED
      BY <3>2, <3>4
  <2> QED
    BY <2>2, <2>3 DEF SourceKnowsItsUser, Shared
<1> QED
  BY <1>1, SourcesInvariance, PTL

=============================================================================
