--------------------------- MODULE SinkWriteProofs ---------------------------
(***************************************************************************)
(* The safety properties of SinkWrite for any number of saves, directories *)
(* and edits, whatever the constructor is given to sweep and whichever     *)
(* system calls may fail.                                                  *)
(*                                                                         *)
(* The sentinel alone does not make a save's read and rename one step: an  *)
(* editor may come in between.  ReadInv says what is left, and needs       *)
(* OneWriterPerTarget to exclude every other save; that needs ProcessInv,  *)
(* because a boot may sweep the sentinel of a save only if none is live.   *)
(***************************************************************************)
EXTENDS SinkWrite, TLAPS

\* No save outlives its process.
ProcessInv == proc = "down" => \A w \in Saves : pc[w] \notin Critical

\* What is renamed is completely written.
TmpInv == \A w \in Saves : pc[w] = "install" => tmp[at[w]][w] = "full"

\* Between read and rename the note only changes by an edit.
ReadInv ==
    \A w \in Saves : pc[w] \in {"create", "write", "install"} =>
        file[at[w]] = base[w] \/ file[at[w]].user > base[w].user

\* A save writes before it reports.
ReportInv ==
    \A w \in Saves :
        /\ pc[w] = "idle" => written[w] = {}
        /\ pc[w] # "done" => result[w] = "none"

IInv ==
    /\ TypeOK /\ ProcessInv /\ OneWriterPerTarget /\ TmpInv /\ TargetIsWhole
    /\ ReadInv /\ ReportInv /\ ReceiptIsTruthful /\ SweptDirIsClean

(***************************************************************************)
(* One step preserves each part of IInv                                    *)
(***************************************************************************)

\* Every step keeps the type; a save is at one of its destinations from the
\* acquire to the release.
LEMMA TypeStep ==
    ASSUME TypeOK, [Next]_vars  PROVE  TypeOK'
<1> USE NoneIsNoSave, MaxEditsIsNat DEF TypeOK, Note, Forms, Control, Critical,
    Calling, Goto, files, call, ghosts
<1>a. Blank \in Note
  BY DEF Blank
<1>1. ASSUME NEW w \in Saves, NEW dests \in SUBSET Dirs, StartSave(w, dests)  PROVE  TypeOK'
  BY <1>1 DEF StartSave
<1>2. ASSUME NEW w \in Saves, LoadDraftFails(w)  PROVE  TypeOK'
  BY <1>2 DEF LoadDraftFails
<1>3. ASSUME NEW w \in Saves, NEW d \in Dirs, AcquireLock(w, d)  PROVE  TypeOK'
  BY <1>3 DEF AcquireLock
<1>4. ASSUME NEW w \in Saves, NEW d \in Dirs, LockRefused(w, d)  PROVE  TypeOK'
  BY <1>4 DEF LockRefused
<1>5. ASSUME NEW w \in Saves, ReadTarget(w)  PROVE  TypeOK'
  BY <1>5 DEF ReadTarget
<1>6. ASSUME NEW w \in Saves, ReadRefused(w)  PROVE  TypeOK'
  BY <1>6 DEF ReadRefused, Refuse
<1>7. ASSUME NEW w \in Saves, CreateTmp(w)  PROVE  TypeOK'
  BY <1>7 DEF CreateTmp, SetTmp
<1>8. ASSUME NEW w \in Saves, CreateRefused(w)  PROVE  TypeOK'
  BY <1>8 DEF CreateRefused, Refuse
<1>9. ASSUME NEW w \in Saves, WriteTmp(w)  PROVE  TypeOK'
  BY <1>9 DEF WriteTmp, SetTmp
<1>10. ASSUME NEW w \in Saves, WriteFails(w)  PROVE  TypeOK'
  BY <1>10 DEF WriteFails, Refuse
<1>11. ASSUME NEW w \in Saves, Install(w)  PROVE  TypeOK'
  <2>1. at[w] \in Dirs /\ base[w] \in Note
    BY <1>11 DEF Install
  <2>2. [Splice(base[w], w) EXCEPT !.whole = (tmp[at[w]][w] = "full")] \in Note
    BY <2>1 DEF Splice
  <2>3. file' \in [Dirs -> Note]
    BY <1>11, <2>1, <2>2 DEF Install
  <2>4. tmp' \in [Dirs -> [Saves -> {"none", "partial", "full"}]]
    BY <1>11, <2>1 DEF Install, SetTmp
  <2> QED
    BY <1>11, <2>3, <2>4 DEF Install
<1>12. ASSUME NEW w \in Saves, InstallFails(w)  PROVE  TypeOK'
  BY <1>12 DEF InstallFails, Refuse
<1>13. ASSUME NEW w \in Saves, ReleaseLock(w)  PROVE  TypeOK'
  BY <1>13, <1>a DEF ReleaseLock
<1>14. ASSUME NEW w \in Saves, FinishSave(w)  PROVE  TypeOK'
  BY <1>14 DEF FinishSave
<1>15. ASSUME NEW d \in Dirs, UserEdit(d)  PROVE  TypeOK'
  BY <1>15 DEF UserEdit
<1>16. ASSUME Crash  PROVE  TypeOK'
  <2>1. pc' \in [Saves -> Control] /\ \A w \in Saves : pc'[w] \notin Critical
    BY <1>16 DEF Crash
  <2> QED
    BY <1>16, <1>a, <2>1 DEF Crash
<1>17. ASSUME NEW old \in SUBSET Dirs, Boot(old)  PROVE  TypeOK'
  BY <1>17 DEF Boot
<1>18. CASE UNCHANGED vars
  BY <1>18 DEF vars
<1> QED
    BY <1>1, <1>2, <1>3, <1>4, <1>5, <1>6, <1>7, <1>8, <1>9, <1>10, <1>11,
     <1>12, <1>13, <1>14, <1>15, <1>16, <1>17, <1>18 DEF Next, Step

\* ProcessInv: only a live process runs saves, and a crash ends all of them.
LEMMA ProcessStep ==
    ASSUME TypeOK, ProcessInv, [Next]_vars  PROVE  ProcessInv'
<1> USE DEF TypeOK, ProcessInv, Control, Critical, Calling, Goto, files, call,
    ghosts
<1>1. ASSUME NEW w \in Saves, NEW dests \in SUBSET Dirs, StartSave(w, dests)  PROVE  ProcessInv'
  BY <1>1 DEF StartSave
<1>2. ASSUME NEW w \in Saves, LoadDraftFails(w)  PROVE  ProcessInv'
  BY <1>2 DEF LoadDraftFails
<1>3. ASSUME NEW w \in Saves, NEW d \in Dirs, AcquireLock(w, d)  PROVE  ProcessInv'
  BY <1>3 DEF AcquireLock
<1>4. ASSUME NEW w \in Saves, NEW d \in Dirs, LockRefused(w, d)  PROVE  ProcessInv'
  BY <1>4 DEF LockRefused
<1>5. ASSUME NEW w \in Saves, ReadTarget(w)  PROVE  ProcessInv'
  BY <1>5 DEF ReadTarget
<1>6. ASSUME NEW w \in Saves, ReadRefused(w)  PROVE  ProcessInv'
  BY <1>6 DEF ReadRefused, Refuse
<1>7. ASSUME NEW w \in Saves, CreateTmp(w)  PROVE  ProcessInv'
  BY <1>7 DEF CreateTmp, SetTmp
<1>8. ASSUME NEW w \in Saves, CreateRefused(w)  PROVE  ProcessInv'
  BY <1>8 DEF CreateRefused, Refuse
<1>9. ASSUME NEW w \in Saves, WriteTmp(w)  PROVE  ProcessInv'
  BY <1>9 DEF WriteTmp, SetTmp
<1>10. ASSUME NEW w \in Saves, WriteFails(w)  PROVE  ProcessInv'
  BY <1>10 DEF WriteFails, Refuse
<1>11. ASSUME NEW w \in Saves, Install(w)  PROVE  ProcessInv'
  BY <1>11 DEF Install, SetTmp, Splice
<1>12. ASSUME NEW w \in Saves, InstallFails(w)  PROVE  ProcessInv'
  BY <1>12 DEF InstallFails, Refuse
<1>13. ASSUME NEW w \in Saves, ReleaseLock(w)  PROVE  ProcessInv'
  BY <1>13 DEF ReleaseLock
<1>14. ASSUME NEW w \in Saves, FinishSave(w)  PROVE  ProcessInv'
  BY <1>14 DEF FinishSave
<1>15. ASSUME NEW d \in Dirs, UserEdit(d)  PROVE  ProcessInv'
  BY <1>15 DEF UserEdit
<1>16. ASSUME Crash  PROVE  ProcessInv'
  BY <1>16 DEF Crash
<1>17. ASSUME NEW old \in SUBSET Dirs, Boot(old)  PROVE  ProcessInv'
  BY <1>17 DEF Boot
<1>18. CASE UNCHANGED vars
  BY <1>18 DEF vars
<1> QED
    BY <1>1, <1>2, <1>3, <1>4, <1>5, <1>6, <1>7, <1>8, <1>9, <1>10, <1>11,
     <1>12, <1>13, <1>14, <1>15, <1>16, <1>17, <1>18 DEF Next, Step

\* The sentinel: acquired only when free, released only by its owner, swept
\* only when no save is live.
LEMMA WriterStep ==
    ASSUME TypeOK, ProcessInv, OneWriterPerTarget, [Next]_vars
    PROVE  OneWriterPerTarget'
<1> USE NoneIsNoSave DEF TypeOK, ProcessInv, OneWriterPerTarget, Control,
    Critical, Calling, Goto, files, call, ghosts
<1>1. ASSUME NEW w \in Saves, NEW dests \in SUBSET Dirs, StartSave(w, dests)  PROVE  OneWriterPerTarget'
  BY <1>1 DEF StartSave
<1>2. ASSUME NEW w \in Saves, LoadDraftFails(w)  PROVE  OneWriterPerTarget'
  BY <1>2 DEF LoadDraftFails
<1>3. ASSUME NEW w \in Saves, NEW d \in Dirs, AcquireLock(w, d)  PROVE  OneWriterPerTarget'
  BY <1>3 DEF AcquireLock
<1>4. ASSUME NEW w \in Saves, NEW d \in Dirs, LockRefused(w, d)  PROVE  OneWriterPerTarget'
  BY <1>4 DEF LockRefused
<1>5. ASSUME NEW w \in Saves, ReadTarget(w)  PROVE  OneWriterPerTarget'
  BY <1>5 DEF ReadTarget
<1>6. ASSUME NEW w \in Saves, ReadRefused(w)  PROVE  OneWriterPerTarget'
  BY <1>6 DEF ReadRefused, Refuse
<1>7. ASSUME NEW w \in Saves, CreateTmp(w)  PROVE  OneWriterPerTarget'
  BY <1>7 DEF CreateTmp, SetTmp
<1>8. ASSUME NEW w \in Saves, CreateRefused(w)  PROVE  OneWriterPerTarget'
  BY <1>8 DEF CreateRefused, Refuse
<1>9. ASSUME NEW w \in Saves, WriteTmp(w)  PROVE  OneWriterPerTarget'
  BY <1>9 DEF WriteTmp, SetTmp
<1>10. ASSUME NEW w \in Saves, WriteFails(w)  PROVE  OneWriterPerTarget'
  BY <1>10 DEF WriteFails, Refuse
<1>11. ASSUME NEW w \in Saves, Install(w)  PROVE  OneWriterPerTarget'
  BY <1>11 DEF Install, SetTmp, Splice
<1>12. ASSUME NEW w \in Saves, InstallFails(w)  PROVE  OneWriterPerTarget'
  BY <1>12 DEF InstallFails, Refuse
<1>13. ASSUME NEW w \in Saves, ReleaseLock(w)  PROVE  OneWriterPerTarget'
  BY <1>13 DEF ReleaseLock
<1>14. ASSUME NEW w \in Saves, FinishSave(w)  PROVE  OneWriterPerTarget'
  BY <1>14 DEF FinishSave
<1>15. ASSUME NEW d \in Dirs, UserEdit(d)  PROVE  OneWriterPerTarget'
  BY <1>15 DEF UserEdit
<1>16. ASSUME Crash  PROVE  OneWriterPerTarget'
  BY <1>16 DEF Crash
<1>17. ASSUME NEW old \in SUBSET Dirs, Boot(old)  PROVE  OneWriterPerTarget'
  BY <1>17 DEF Boot
<1>18. CASE UNCHANGED vars
  BY <1>18 DEF vars
<1> QED
    BY <1>1, <1>2, <1>3, <1>4, <1>5, <1>6, <1>7, <1>8, <1>9, <1>10, <1>11,
     <1>12, <1>13, <1>14, <1>15, <1>16, <1>17, <1>18 DEF Next, Step

\* The temp file of a save is its own, and complete once it is synced.
LEMMA TmpStep ==
    ASSUME TypeOK, ProcessInv, TmpInv, [Next]_vars  PROVE  TmpInv'
<1> USE DEF TypeOK, ProcessInv, TmpInv, Control, Critical, Calling, Goto, files,
    call, ghosts
<1>1. ASSUME NEW w \in Saves, NEW dests \in SUBSET Dirs, StartSave(w, dests)  PROVE  TmpInv'
  BY <1>1 DEF StartSave
<1>2. ASSUME NEW w \in Saves, LoadDraftFails(w)  PROVE  TmpInv'
  BY <1>2 DEF LoadDraftFails
<1>3. ASSUME NEW w \in Saves, NEW d \in Dirs, AcquireLock(w, d)  PROVE  TmpInv'
  BY <1>3 DEF AcquireLock
<1>4. ASSUME NEW w \in Saves, NEW d \in Dirs, LockRefused(w, d)  PROVE  TmpInv'
  BY <1>4 DEF LockRefused
<1>5. ASSUME NEW w \in Saves, ReadTarget(w)  PROVE  TmpInv'
  BY <1>5 DEF ReadTarget
<1>6. ASSUME NEW w \in Saves, ReadRefused(w)  PROVE  TmpInv'
  BY <1>6 DEF ReadRefused, Refuse
<1>7. ASSUME NEW w \in Saves, CreateTmp(w)  PROVE  TmpInv'
  BY <1>7 DEF CreateTmp, SetTmp
<1>8. ASSUME NEW w \in Saves, CreateRefused(w)  PROVE  TmpInv'
  BY <1>8 DEF CreateRefused, Refuse
<1>9. ASSUME NEW w \in Saves, WriteTmp(w)  PROVE  TmpInv'
  BY <1>9 DEF WriteTmp, SetTmp
<1>10. ASSUME NEW w \in Saves, WriteFails(w)  PROVE  TmpInv'
  BY <1>10 DEF WriteFails, Refuse
<1>11. ASSUME NEW w \in Saves, Install(w)  PROVE  TmpInv'
  BY <1>11 DEF Install, SetTmp, Splice
<1>12. ASSUME NEW w \in Saves, InstallFails(w)  PROVE  TmpInv'
  BY <1>12 DEF InstallFails, Refuse
<1>13. ASSUME NEW w \in Saves, ReleaseLock(w)  PROVE  TmpInv'
  BY <1>13 DEF ReleaseLock
<1>14. ASSUME NEW w \in Saves, FinishSave(w)  PROVE  TmpInv'
  BY <1>14 DEF FinishSave
<1>15. ASSUME NEW d \in Dirs, UserEdit(d)  PROVE  TmpInv'
  BY <1>15 DEF UserEdit
<1>16. ASSUME Crash  PROVE  TmpInv'
  BY <1>16 DEF Crash
<1>17. ASSUME NEW old \in SUBSET Dirs, Boot(old)  PROVE  TmpInv'
  BY <1>17 DEF Boot
<1>18. CASE UNCHANGED vars
  BY <1>18 DEF vars
<1> QED
    BY <1>1, <1>2, <1>3, <1>4, <1>5, <1>6, <1>7, <1>8, <1>9, <1>10, <1>11,
     <1>12, <1>13, <1>14, <1>15, <1>16, <1>17, <1>18 DEF Next, Step

\* Only Install and the user touch a note.
LEMMA WholeStep ==
    ASSUME TypeOK, TmpInv, TargetIsWhole, [Next]_vars  PROVE  TargetIsWhole'
<1> USE DEF TypeOK, TmpInv, TargetIsWhole, Note, Critical, Calling, Goto, files,
    call, ghosts
<1>1. ASSUME NEW w \in Saves, NEW dests \in SUBSET Dirs, StartSave(w, dests)  PROVE  TargetIsWhole'
  BY <1>1 DEF StartSave
<1>2. ASSUME NEW w \in Saves, LoadDraftFails(w)  PROVE  TargetIsWhole'
  BY <1>2 DEF LoadDraftFails
<1>3. ASSUME NEW w \in Saves, NEW d \in Dirs, AcquireLock(w, d)  PROVE  TargetIsWhole'
  BY <1>3 DEF AcquireLock
<1>4. ASSUME NEW w \in Saves, NEW d \in Dirs, LockRefused(w, d)  PROVE  TargetIsWhole'
  BY <1>4 DEF LockRefused
<1>5. ASSUME NEW w \in Saves, ReadTarget(w)  PROVE  TargetIsWhole'
  BY <1>5 DEF ReadTarget
<1>6. ASSUME NEW w \in Saves, ReadRefused(w)  PROVE  TargetIsWhole'
  BY <1>6 DEF ReadRefused, Refuse
<1>7. ASSUME NEW w \in Saves, CreateTmp(w)  PROVE  TargetIsWhole'
  BY <1>7 DEF CreateTmp, SetTmp
<1>8. ASSUME NEW w \in Saves, CreateRefused(w)  PROVE  TargetIsWhole'
  BY <1>8 DEF CreateRefused, Refuse
<1>9. ASSUME NEW w \in Saves, WriteTmp(w)  PROVE  TargetIsWhole'
  BY <1>9 DEF WriteTmp, SetTmp
<1>10. ASSUME NEW w \in Saves, WriteFails(w)  PROVE  TargetIsWhole'
  BY <1>10 DEF WriteFails, Refuse
<1>11. ASSUME NEW w \in Saves, Install(w)  PROVE  TargetIsWhole'
  BY <1>11 DEF Install, SetTmp, Splice
<1>12. ASSUME NEW w \in Saves, InstallFails(w)  PROVE  TargetIsWhole'
  BY <1>12 DEF InstallFails, Refuse
<1>13. ASSUME NEW w \in Saves, ReleaseLock(w)  PROVE  TargetIsWhole'
  BY <1>13 DEF ReleaseLock
<1>14. ASSUME NEW w \in Saves, FinishSave(w)  PROVE  TargetIsWhole'
  BY <1>14 DEF FinishSave
<1>15. ASSUME NEW d \in Dirs, UserEdit(d)  PROVE  TargetIsWhole'
  BY <1>15 DEF UserEdit
<1>16. ASSUME Crash  PROVE  TargetIsWhole'
  BY <1>16 DEF Crash
<1>17. ASSUME NEW old \in SUBSET Dirs, Boot(old)  PROVE  TargetIsWhole'
  BY <1>17 DEF Boot
<1>18. CASE UNCHANGED vars
  BY <1>18 DEF vars
<1> QED
    BY <1>1, <1>2, <1>3, <1>4, <1>5, <1>6, <1>7, <1>8, <1>9, <1>10, <1>11,
     <1>12, <1>13, <1>14, <1>15, <1>16, <1>17, <1>18 DEF Next, Step

\* Another save cannot rename over the note this one has read, because both
\* would own the sentinel; an edit makes the note newer than what was read.
LEMMA ReadStep ==
    ASSUME TypeOK, ProcessInv, OneWriterPerTarget, ReadInv, [Next]_vars
    PROVE  ReadInv'
<1> USE MaxEditsIsNat DEF TypeOK, ProcessInv, OneWriterPerTarget, ReadInv, Note,
    Critical, Calling, Goto, files, call, ghosts
<1>1. ASSUME NEW w \in Saves, NEW dests \in SUBSET Dirs, StartSave(w, dests)  PROVE  ReadInv'
  BY <1>1 DEF StartSave
<1>2. ASSUME NEW w \in Saves, LoadDraftFails(w)  PROVE  ReadInv'
  BY <1>2 DEF LoadDraftFails
<1>3. ASSUME NEW w \in Saves, NEW d \in Dirs, AcquireLock(w, d)  PROVE  ReadInv'
  BY <1>3 DEF AcquireLock
<1>4. ASSUME NEW w \in Saves, NEW d \in Dirs, LockRefused(w, d)  PROVE  ReadInv'
  BY <1>4 DEF LockRefused
<1>5. ASSUME NEW w \in Saves, ReadTarget(w)  PROVE  ReadInv'
  BY <1>5 DEF ReadTarget
<1>6. ASSUME NEW w \in Saves, ReadRefused(w)  PROVE  ReadInv'
  BY <1>6 DEF ReadRefused, Refuse
<1>7. ASSUME NEW w \in Saves, CreateTmp(w)  PROVE  ReadInv'
  BY <1>7 DEF CreateTmp, SetTmp
<1>8. ASSUME NEW w \in Saves, CreateRefused(w)  PROVE  ReadInv'
  BY <1>8 DEF CreateRefused, Refuse
<1>9. ASSUME NEW w \in Saves, WriteTmp(w)  PROVE  ReadInv'
  BY <1>9 DEF WriteTmp, SetTmp
<1>10. ASSUME NEW w \in Saves, WriteFails(w)  PROVE  ReadInv'
  BY <1>10 DEF WriteFails, Refuse
<1>11. ASSUME NEW w \in Saves, Install(w)  PROVE  ReadInv'
  BY <1>11 DEF Install, SetTmp, Splice
<1>12. ASSUME NEW w \in Saves, InstallFails(w)  PROVE  ReadInv'
  BY <1>12 DEF InstallFails, Refuse
<1>13. ASSUME NEW w \in Saves, ReleaseLock(w)  PROVE  ReadInv'
  BY <1>13 DEF ReleaseLock
<1>14. ASSUME NEW w \in Saves, FinishSave(w)  PROVE  ReadInv'
  BY <1>14 DEF FinishSave
<1>15. ASSUME NEW d \in Dirs, UserEdit(d)  PROVE  ReadInv'
  BY <1>15 DEF UserEdit
<1>16. ASSUME Crash  PROVE  ReadInv'
  BY <1>16 DEF Crash
<1>17. ASSUME NEW old \in SUBSET Dirs, Boot(old)  PROVE  ReadInv'
  BY <1>17 DEF Boot
<1>18. CASE UNCHANGED vars
  BY <1>18 DEF vars
<1> QED
    BY <1>1, <1>2, <1>3, <1>4, <1>5, <1>6, <1>7, <1>8, <1>9, <1>10, <1>11,
     <1>12, <1>13, <1>14, <1>15, <1>16, <1>17, <1>18 DEF Next, Step

\* The receipt is written with the renames and reported after the last one.
LEMMA ReceiptStep ==
    ASSUME TypeOK, ReportInv, ReceiptIsTruthful, [Next]_vars
    PROVE  ReportInv' /\ ReceiptIsTruthful'
<1> USE DEF TypeOK, ReportInv, ReceiptIsTruthful, Control, Critical, Calling, Goto,
    files, call, ghosts
<1>1. ASSUME NEW w \in Saves, NEW dests \in SUBSET Dirs, StartSave(w, dests)  PROVE  ReportInv' /\ ReceiptIsTruthful'
  BY <1>1 DEF StartSave
<1>2. ASSUME NEW w \in Saves, LoadDraftFails(w)  PROVE  ReportInv' /\ ReceiptIsTruthful'
  BY <1>2 DEF LoadDraftFails
<1>3. ASSUME NEW w \in Saves, NEW d \in Dirs, AcquireLock(w, d)  PROVE  ReportInv' /\ ReceiptIsTruthful'
  BY <1>3 DEF AcquireLock
<1>4. ASSUME NEW w \in Saves, NEW d \in Dirs, LockRefused(w, d)  PROVE  ReportInv' /\ ReceiptIsTruthful'
  BY <1>4 DEF LockRefused
<1>5. ASSUME NEW w \in Saves, ReadTarget(w)  PROVE  ReportInv' /\ ReceiptIsTruthful'
  BY <1>5 DEF ReadTarget
<1>6. ASSUME NEW w \in Saves, ReadRefused(w)  PROVE  ReportInv' /\ ReceiptIsTruthful'
  BY <1>6 DEF ReadRefused, Refuse
<1>7. ASSUME NEW w \in Saves, CreateTmp(w)  PROVE  ReportInv' /\ ReceiptIsTruthful'
  BY <1>7 DEF CreateTmp, SetTmp
<1>8. ASSUME NEW w \in Saves, CreateRefused(w)  PROVE  ReportInv' /\ ReceiptIsTruthful'
  BY <1>8 DEF CreateRefused, Refuse
<1>9. ASSUME NEW w \in Saves, WriteTmp(w)  PROVE  ReportInv' /\ ReceiptIsTruthful'
  BY <1>9 DEF WriteTmp, SetTmp
<1>10. ASSUME NEW w \in Saves, WriteFails(w)  PROVE  ReportInv' /\ ReceiptIsTruthful'
  BY <1>10 DEF WriteFails, Refuse
<1>11. ASSUME NEW w \in Saves, Install(w)  PROVE  ReportInv' /\ ReceiptIsTruthful'
  BY <1>11 DEF Install, SetTmp, Splice
<1>12. ASSUME NEW w \in Saves, InstallFails(w)  PROVE  ReportInv' /\ ReceiptIsTruthful'
  BY <1>12 DEF InstallFails, Refuse
<1>13. ASSUME NEW w \in Saves, ReleaseLock(w)  PROVE  ReportInv' /\ ReceiptIsTruthful'
  BY <1>13 DEF ReleaseLock
<1>14. ASSUME NEW w \in Saves, FinishSave(w)  PROVE  ReportInv' /\ ReceiptIsTruthful'
  BY <1>14 DEF FinishSave
<1>15. ASSUME NEW d \in Dirs, UserEdit(d)  PROVE  ReportInv' /\ ReceiptIsTruthful'
  BY <1>15 DEF UserEdit
<1>16. ASSUME Crash  PROVE  ReportInv' /\ ReceiptIsTruthful'
  BY <1>16 DEF Crash
<1>17. ASSUME NEW old \in SUBSET Dirs, Boot(old)  PROVE  ReportInv' /\ ReceiptIsTruthful'
  BY <1>17 DEF Boot
<1>18. CASE UNCHANGED vars
  BY <1>18 DEF vars
<1> QED
    BY <1>1, <1>2, <1>3, <1>4, <1>5, <1>6, <1>7, <1>8, <1>9, <1>10, <1>11,
     <1>12, <1>13, <1>14, <1>15, <1>16, <1>17, <1>18 DEF Next, Step

\* After a complete sweep only live saves own sentinels and temp files, until
\* the next crash.
LEMMA SweptStep ==
    ASSUME TypeOK, SweptDirIsClean, [Next]_vars  PROVE  SweptDirIsClean'
<1> USE NoneIsNoSave, SweptDirsAreDirs DEF TypeOK, SweptDirIsClean, NoDebris,
    Control, Critical, Calling, Goto, files, call, ghosts
<1>1. ASSUME NEW w \in Saves, NEW dests \in SUBSET Dirs, StartSave(w, dests)  PROVE  SweptDirIsClean'
  BY <1>1 DEF StartSave
<1>2. ASSUME NEW w \in Saves, LoadDraftFails(w)  PROVE  SweptDirIsClean'
  BY <1>2 DEF LoadDraftFails
<1>3. ASSUME NEW w \in Saves, NEW d \in Dirs, AcquireLock(w, d)  PROVE  SweptDirIsClean'
  BY <1>3 DEF AcquireLock
<1>4. ASSUME NEW w \in Saves, NEW d \in Dirs, LockRefused(w, d)  PROVE  SweptDirIsClean'
  BY <1>4 DEF LockRefused
<1>5. ASSUME NEW w \in Saves, ReadTarget(w)  PROVE  SweptDirIsClean'
  BY <1>5 DEF ReadTarget
<1>6. ASSUME NEW w \in Saves, ReadRefused(w)  PROVE  SweptDirIsClean'
  BY <1>6 DEF ReadRefused, Refuse
<1>7. ASSUME NEW w \in Saves, CreateTmp(w)  PROVE  SweptDirIsClean'
  BY <1>7 DEF CreateTmp, SetTmp
<1>8. ASSUME NEW w \in Saves, CreateRefused(w)  PROVE  SweptDirIsClean'
  BY <1>8 DEF CreateRefused, Refuse
<1>9. ASSUME NEW w \in Saves, WriteTmp(w)  PROVE  SweptDirIsClean'
  BY <1>9 DEF WriteTmp, SetTmp
<1>10. ASSUME NEW w \in Saves, WriteFails(w)  PROVE  SweptDirIsClean'
  BY <1>10 DEF WriteFails, Refuse
<1>11. ASSUME NEW w \in Saves, Install(w)  PROVE  SweptDirIsClean'
  BY <1>11 DEF Install, SetTmp, Splice
<1>12. ASSUME NEW w \in Saves, InstallFails(w)  PROVE  SweptDirIsClean'
  BY <1>12 DEF InstallFails, Refuse
<1>13. ASSUME NEW w \in Saves, ReleaseLock(w)  PROVE  SweptDirIsClean'
  BY <1>13 DEF ReleaseLock
<1>14. ASSUME NEW w \in Saves, FinishSave(w)  PROVE  SweptDirIsClean'
  BY <1>14 DEF FinishSave
<1>15. ASSUME NEW d \in Dirs, UserEdit(d)  PROVE  SweptDirIsClean'
  BY <1>15 DEF UserEdit
<1>16. ASSUME Crash  PROVE  SweptDirIsClean'
  BY <1>16 DEF Crash
<1>17. ASSUME NEW old \in SUBSET Dirs, Boot(old)  PROVE  SweptDirIsClean'
  BY <1>17 DEF Boot
<1>18. CASE UNCHANGED vars
  BY <1>18 DEF vars
<1> QED
    BY <1>1, <1>2, <1>3, <1>4, <1>5, <1>6, <1>7, <1>8, <1>9, <1>10, <1>11,
     <1>12, <1>13, <1>14, <1>15, <1>16, <1>17, <1>18 DEF Next, Step

(***************************************************************************)
(* Theorems                                                                *)
(***************************************************************************)

\* The inductive invariant holds in every reachable state.
THEOREM Invariance == Spec => []IInv
<1>1. Init => IInv
  <2> SUFFICES ASSUME Init  PROVE  IInv
    OBVIOUS
  <2>1. Blank \in Note
    BY NoneIsNoSave, MaxEditsIsNat DEF Blank, Note, Forms
  <2>2. TypeOK
    BY <2>1 DEF Init, TypeOK, Control, Critical
  <2>3. ProcessInv /\ OneWriterPerTarget /\ TmpInv /\ ReadInv
    BY DEF Init, ProcessInv, OneWriterPerTarget, TmpInv, ReadInv, Critical
  <2>4. TargetIsWhole
    BY DEF Init, TargetIsWhole, Blank
  <2>5. ReportInv /\ ReceiptIsTruthful /\ SweptDirIsClean
    BY DEF Init, ReportInv, ReceiptIsTruthful, SweptDirIsClean
  <2> QED
    BY <2>2, <2>3, <2>4, <2>5 DEF IInv
<1>2. IInv /\ [Next]_vars => IInv'
  BY TypeStep, ProcessStep, WriterStep, TmpStep, WholeStep, ReadStep,
     ReceiptStep, SweptStep DEF IInv
<1> QED
  BY <1>1, <1>2, PTL DEF Spec

\* Every variable keeps its type.
THEOREM TypeCorrect == Spec => []TypeOK
BY Invariance, PTL DEF IInv

\* lock.rs: a save between acquire and drop owns the sentinel of its note,
\* whatever failed, crashed or was swept.
THEOREM MutualExclusion == Spec => []OneWriterPerTarget
BY Invariance, PTL DEF IInv

\* lock.rs: two saves are never at the same note at once: what the sentinel is
\* for, in terms of the saves alone.
THEOREM OneSaveAtATime ==
    Spec => [](\A w, u \in Saves :
                 pc[w] \in Critical /\ pc[u] \in Critical /\ at[w] = at[u]
                    => w = u)
<1>1. OneWriterPerTarget =>
        \A w, u \in Saves :
            pc[w] \in Critical /\ pc[u] \in Critical /\ at[w] = at[u] => w = u
  BY DEF OneWriterPerTarget
<1> QED
  BY <1>1, MutualExclusion, PTL

\* atomic.rs: no crash and no failed system call leaves half a note.
THEOREM NoTornNote == Spec => []TargetIsWhole
BY Invariance, PTL DEF IInv

\* adapter.rs: a receipt lists exactly the notes that were replaced.
THEOREM TruthfulReceipt == Spec => []ReceiptIsTruthful
BY Invariance, PTL DEF IInv

\* atomic.rs: a directory given to the constructor is clean after a boot that
\* found its leftovers old enough.
THEOREM SweptClean == Spec => []SweptDirIsClean
BY Invariance, PTL DEF IInv

\* lock.rs: no save overwrites what another save wrote after the first one read.
THEOREM Serialised == Spec => SavesAreSerialised
<1> DEFINE Replaces ==
        \A w \in Saves, d \in Dirs : w \in installed'[d] \ installed[d] =>
            file[d] = base[w] \/ file[d].user > base[w].user
<1>1. ASSUME IInv, [Next]_vars  PROVE  [Replaces]_vars
  <2> SUFFICES ASSUME NEW w \in Saves, NEW d \in Dirs,
                      w \in installed'[d] \ installed[d]
               PROVE  file[d] = base[w] \/ file[d].user > base[w].user
    BY DEF Replaces
  <2>1. \E u \in Saves : Install(u)
    BY <1>1 DEF Next, Step, vars, ghosts, StartSave, LoadDraftFails,
       AcquireLock, LockRefused, ReadTarget, ReadRefused, CreateTmp,
       CreateRefused, WriteTmp, WriteFails, InstallFails, Refuse, ReleaseLock,
       FinishSave, UserEdit, Crash, Boot
  <2>2. PICK u \in Saves : Install(u)
    BY <2>1
  <2>3. u = w /\ at[u] = d
    BY <1>1, <2>2 DEF IInv, TypeOK, Install, Calling, Critical
  <2> QED
    BY <1>1, <2>2, <2>3 DEF IInv, ReadInv, Install, Calling
<1> QED
  BY <1>1, Invariance, PTL DEF Spec, SavesAreSerialised, Replaces

\* The sentinel and the rename together.
THEOREM GuardedTarget == Spec => []TargetIsGuarded
BY MutualExclusion, NoTornNote, PTL DEF TargetIsGuarded

=============================================================================
