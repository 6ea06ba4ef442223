------------------------ MODULE PublishTransactionProofs ------------------------
(***************************************************************************)
(* Proofs about PublishTransaction for any number of files, any contents   *)
(* and any number of foreign writes: IInv is inductive, and recoverability   *)
(* and the all-or-nothing of a publication follow from it.                 *)
(***************************************************************************)
EXTENDS PublishTransaction, TLAPS

LEMMA NoRecordIsRecord ==
  /\ NoRecord \in Record /\ Nothing \in Groups
  /\ NoRecord.phase = "none"
BY DEF NoRecord, Record, Nothing, Groups, Digests

LEMMA InitInv == Init => TypeOK /\ StateInv
<1> SUFFICES ASSUME Init PROVE TypeOK /\ StateInv OBVIOUS
<1> USE TransactionAssumption, NoRecordIsRecord DEF Init
<1>1. TypeOK
  <2>1. dir \in BOOLEAN /\ next \in BOOLEAN BY Zenon
  <2>2. journal \in Record /\ rec \in Record /\ backup \in Groups BY Zenon
  <2>3. 1 \in 1 .. FileCount + 1 OBVIOUS
  <2>4. QED BY <2>1, <2>2, <2>3 DEF TypeOK
<1>2. HolderInv BY DEF HolderInv, Preparing
<1>3. \A f \in Files : FileInv(f) /\ ProgressInv(f)
  BY DEF FileInv, ProgressInv, Preparing
<1>4. QED BY <1>1, <1>2, <1>3 DEF StateInv

(* Every action keeps the types. *)
LEMMA TypeStep == ASSUME TypeOK, StateInv, Next PROVE TypeOK'
<1> USE TransactionAssumption, NoRecordIsRecord DEF TypeOK, StateInv, HolderInv
<1>1. CASE Open BY <1>1, Zenon DEF Open, disk, Recovering
<1>2. CASE Stage
  <2>1. i \in Files /\ live[i] \in Digests BY <1>2 DEF Stage, Groups
  <2>2. backup' \in Groups BY <1>2, <2>1 DEF Stage, Groups
  <2>3. rec' \in Record BY <1>2, <2>1 DEF Stage, Record, Groups
  <2>4. QED BY <1>2, <2>1, <2>2, <2>3 DEF Stage, Files, Preparing
<1>3. ASSUME NEW candidate \in [Files -> Contents], Begin(candidate) PROVE TypeOK'
  <2>1. rec' \in Record BY <1>3 DEF Begin, Record, Groups, Digests, Nothing
  <2>2. QED BY <1>3, <2>1 DEF Begin, Preparing
<1>4. CASE WriteNext BY <1>4 DEF WriteNext, run
<1>5. CASE ReplaceJournal
  <2>1. pc' \in {"checking", "cleaning"} /\ i' \in 1 .. FileCount + 1
    BY <1>5 DEF ReplaceJournal
  <2>2. next' \in BOOLEAN BY <1>5, Zenon DEF ReplaceJournal
  <2>3. QED BY <1>5, <2>1, <2>2 DEF ReplaceJournal, Publishing
<1>6. CASE Check BY <1>6 DEF Check, disk, Publishing
<1>7. CASE Replace
  <2>1. i \in Files /\ rec.new[i] \in Digests BY <1>7 DEF Replace, Record, Groups
  <2>2. live' \in Groups BY <1>7, <2>1 DEF Replace, Groups
  <2>3. QED BY <1>7, <2>1, <2>2 DEF Replace, Files, Publishing
<1>8. CASE Verify
  <2>1. rec' \in Record BY <1>8 DEF Verify, Record
  <2>2. QED BY <1>8, <2>1 DEF Verify, disk, Publishing
<1>9. CASE Recover BY <1>9 DEF Recover, disk, Recovering
<1>10. CASE Restore BY <1>10 DEF Restore, disk, Files, Recovering
<1>11. CASE Rewrite
  <2>1. i \in Files /\ rec.old[i] \in Digests BY <1>11 DEF Rewrite, Record, Groups
  <2>2. live' \in Groups BY <1>11, <2>1 DEF Rewrite, Groups
  <2>3. QED BY <1>11, <2>1, <2>2 DEF Rewrite, Files, Recovering
<1>12. CASE Restored
  <2>1. rec' \in Record BY <1>12 DEF Restored, Record
  <2>2. QED BY <1>12, <2>1 DEF Restored, disk, Recovering
<1>13. CASE CleanFile BY <1>13 DEF CleanFile, run, Groups, Digests
<1>14. CASE CleanDirectory BY <1>14 DEF CleanDirectory, run
<1>15. CASE CleanNext BY <1>15 DEF CleanNext, run
<1>16. CASE CleanJournal BY <1>16 DEF CleanJournal
<1>17. CASE Raise BY <1>17 DEF Raise, disk, Recovering
<1>18. CASE Stop BY <1>18 DEF Stop, disk
<1>19. ASSUME NEW f \in Files, Interfere(f) PROVE TypeOK'
  BY <1>19 DEF Interfere, run, Groups
<1>20. ASSUME NEW f \in Files, Damage(f) PROVE TypeOK'
  BY <1>20 DEF Damage, run, Groups
<1>21. QED
  BY <1>1, <1>2, <1>3, <1>4, <1>5, <1>6, <1>7, <1>8, <1>9, <1>10, <1>11, <1>12,
     <1>13, <1>14, <1>15, <1>16, <1>17, <1>18, <1>19, <1>20
     DEF Next, Prepare, Journal, Publish, Undo, Clean, Others

(* The steps before the first file is replaced. *)
LEMMA PrepareStep == ASSUME TypeOK, StateInv, Prepare PROVE StateInv'
<1> USE TransactionAssumption
    DEF StateInv, HolderInv, FileInv, ProgressInv, Preparing, Publishing, Recovering
<1>1. CASE Open BY <1>1 DEF Open, disk, Leftovers
<1>2. CASE Stage
  <2>1. HolderInv' BY <1>2 DEF TypeOK, Stage, Files
  <2>2. ASSUME NEW f \in Files \ touched PROVE FileInv(f)' /\ ProgressInv(f)'
    BY <1>2 DEF TypeOK, Stage, Files, Groups, Record, NoRecord
  <2>3. QED BY <1>2, <2>1, <2>2 DEF Stage
<1>3. ASSUME NEW candidate \in [Files -> Contents], Begin(candidate) PROVE StateInv'
  BY <1>3 DEF Begin, Leftovers, NoRecord, Files
<1>4. QED BY <1>1, <1>2, <1>3 DEF Prepare

(* The journal on disk changes. *)
LEMMA JournalStep == ASSUME TypeOK, StateInv, Journal PROVE StateInv'
<1> USE TransactionAssumption
    DEF StateInv, HolderInv, FileInv, ProgressInv, Preparing, Publishing, Recovering
<1>1. CASE WriteNext BY <1>1 DEF WriteNext, run, Leftovers
<1>2. CASE ReplaceJournal
  <2>1. CASE pc = "journaling"
    <3>1. HolderInv' BY <1>2, <2>1 DEF ReplaceJournal, Leftovers, TypeOK, Files
    <3>2. ASSUME NEW f \in Files \ touched PROVE FileInv(f)' /\ ProgressInv(f)'
      BY <1>2, <2>1 DEF ReplaceJournal, TypeOK, Files
    <3>3. QED BY <1>2, <3>1, <3>2 DEF ReplaceJournal
  <2>2. CASE pc # "journaling"
    <3>1. HolderInv' BY <1>2, <2>2 DEF ReplaceJournal, Leftovers, TypeOK, Record
    <3>2. ASSUME NEW f \in Files \ touched PROVE FileInv(f)' /\ ProgressInv(f)'
      BY <1>2, <2>2 DEF ReplaceJournal, TypeOK, Record
    <3>3. QED BY <1>2, <3>1, <3>2 DEF ReplaceJournal
  <2>3. QED BY <2>1, <2>2
<1>3. QED BY <1>1, <1>2 DEF Journal

LEMMA PublishStep == ASSUME TypeOK, StateInv, Publish PROVE StateInv'
<1> USE TransactionAssumption
    DEF StateInv, HolderInv, FileInv, ProgressInv, Preparing, Publishing, Recovering
<1>1. CASE Check BY <1>1 DEF Check, disk, Leftovers
<1>2. CASE Replace
  <2>1. HolderInv' BY <1>2 DEF Replace, TypeOK, Files, Leftovers
  <2>2. ASSUME NEW f \in Files \ touched PROVE FileInv(f)' /\ ProgressInv(f)'
    BY <1>2 DEF Replace, TypeOK, Files, Groups
  <2>3. QED BY <1>2, <2>1, <2>2 DEF Replace
<1>3. CASE Verify
  <2>1. HolderInv' BY <1>3 DEF Verify, disk, Leftovers
  <2>2. ASSUME NEW f \in Files \ touched PROVE FileInv(f)' /\ ProgressInv(f)'
    BY <1>3 DEF Verify, disk, TypeOK, Record
  <2>3. QED BY <1>3, <2>1, <2>2 DEF Verify, disk
<1>4. QED BY <1>1, <1>2, <1>3 DEF Publish

LEMMA UndoStep == ASSUME TypeOK, StateInv, Undo PROVE StateInv'
<1> USE TransactionAssumption
    DEF StateInv, HolderInv, FileInv, ProgressInv, Preparing, Publishing, Recovering
<1>1. CASE Recover BY <1>1 DEF Recover, disk, Leftovers, Files
<1>2. CASE Restore BY <1>2 DEF Restore, disk, Leftovers, TypeOK, Files
<1>3. CASE Rewrite
  <2>1. HolderInv' BY <1>3 DEF Rewrite, TypeOK, Files, Leftovers
  <2>2. ASSUME NEW f \in Files \ touched PROVE FileInv(f)' /\ ProgressInv(f)'
    BY <1>3 DEF Rewrite, TypeOK, Files, Groups
  <2>3. QED BY <1>3, <2>1, <2>2 DEF Rewrite
<1>4. CASE Restored
  <2>1. HolderInv' BY <1>4 DEF Restored, disk, Leftovers
  <2>2. ASSUME NEW f \in Files \ touched PROVE FileInv(f)' /\ ProgressInv(f)'
    BY <1>4 DEF Restored, disk, TypeOK, Record
  <2>3. QED BY <1>4, <2>1, <2>2 DEF Restored, disk
<1>5. QED BY <1>1, <1>2, <1>3, <1>4 DEF Undo

LEMMA CleanStep == ASSUME TypeOK, StateInv, Clean PROVE StateInv'
<1> USE TransactionAssumption
    DEF StateInv, HolderInv, FileInv, ProgressInv, Preparing, Publishing, Recovering
<1>1. CASE CleanFile BY <1>1 DEF CleanFile, run
<1>2. CASE CleanDirectory BY <1>2 DEF CleanDirectory, run
<1>3. CASE CleanNext BY <1>3 DEF CleanNext, run
<1>4. CASE CleanJournal
  BY <1>4 DEF CleanJournal, NoRecord, Leftovers, TypeOK
<1>5. QED BY <1>1, <1>2, <1>3, <1>4 DEF Clean

(* Failures, and writes of others: these only add the file to touched. *)
LEMMA DisturbanceStep == ASSUME TypeOK, StateInv, Raise \/ Stop \/ Others PROVE StateInv'
<1> USE TransactionAssumption
    DEF StateInv, HolderInv, FileInv, ProgressInv, Preparing, Publishing, Recovering
<1>1. CASE Raise BY <1>1 DEF Raise, disk, NoRecord
<1>2. CASE Stop BY <1>2 DEF Stop, disk
<1>3. ASSUME NEW f \in Files, Interfere(f) PROVE StateInv'
  <2>1. HolderInv' BY <1>3 DEF Interfere, run, Leftovers, TypeOK, Groups
  <2>2. ASSUME NEW g \in Files \ touched, g # f PROVE FileInv(g)' /\ ProgressInv(g)'
    BY <1>3, <2>2 DEF Interfere, run, TypeOK, Groups
  <2>3. QED BY <1>3, <2>1, <2>2 DEF Interfere
<1>4. ASSUME NEW f \in Files, Damage(f) PROVE StateInv'
  <2>1. HolderInv' BY <1>4 DEF Damage, run, Leftovers
  <2>2. ASSUME NEW g \in Files \ touched, g # f PROVE FileInv(g)' /\ ProgressInv(g)'
    BY <1>4, <2>2 DEF Damage, run, TypeOK, Groups
  <2>3. QED BY <1>4, <2>1, <2>2 DEF Damage
<1>5. QED BY <1>1, <1>2, <1>3, <1>4 DEF Others

LEMMA StutterInv ==
  ASSUME TypeOK, StateInv, UNCHANGED vars PROVE TypeOK' /\ StateInv'
BY DEF vars, disk, run, TypeOK, StateInv, HolderInv, FileInv, ProgressInv, Leftovers

LEMMA NextInv == TypeOK /\ StateInv /\ [Next]_vars => TypeOK' /\ StateInv'
BY TypeStep, PrepareStep, JournalStep, PublishStep, UndoStep, CleanStep,
   DisturbanceStep, StutterInv DEF Next

(* The values of the variables, and the inductive invariant: between the runs
   and at every step of one, a file that nobody else wrote holds what the
   journal on disk says, and its backup is there while it is needed. *)
THEOREM TransactionInvariant == Spec => []IInv
BY InitInv, NextInv, PTL DEF Spec, IInv

LEMMA InvRecoverable == TypeOK /\ StateInv => EveryCrashIsRecoverable
BY DEF TypeOK, Record, StateInv, HolderInv, FileInv, EveryCrashIsRecoverable, Recoverable,
       Expected

(* Whatever the moment at which a run dies, _recover_transaction accepts what
   it left, unless somebody else wrote one of the files. *)
THEOREM CrashesAreRecoverable == Spec => []EveryCrashIsRecoverable
BY TransactionInvariant, InvRecoverable, PTL DEF IInv

(* Only two steps of the program write a runtime file, and only two change the
   journal. *)
LEMMA WhoWrites ==
  ASSUME TypeOK, Next, foreign' = foreign
  PROVE  /\ live' # live => Replace \/ Rewrite
         /\ journal' # journal => live' = live /\ (ReplaceJournal \/ CleanJournal)
BY DEF Next, Prepare, Journal, Publish, Undo, Clean, Others, Open, Begin, Stage,
       WriteNext, ReplaceJournal, Check, Replace, Verify, Recover, Restore, Rewrite,
       Restored, CleanFile, CleanDirectory, CleanNext, CleanJournal, Raise, Stop,
       Interfere, Damage, disk, TypeOK

LEMMA StepWritesAhead ==
  ASSUME TypeOK, StateInv, Next, foreign' = foreign, live' # live
  PROVE  /\ journal.phase = "publishing" /\ dir
         /\ \A f \in Files \ touched :
              journal.old[f] # Absent => backup[f] = journal.old[f]
BY WhoWrites DEF Replace, Rewrite, StateInv, HolderInv, FileInv

(* No runtime file is replaced or restored before the "publishing" journal and
   the backups are on disk, nor after they are gone. *)
THEOREM WriteAhead == Spec => LiveMovesUnderJournal
<1>1. TypeOK /\ StateInv /\ [Next]_vars =>
        [foreign' = foreign /\ live' # live =>
           /\ journal.phase = "publishing" /\ dir
           /\ \A f \in Files \ touched :
                journal.old[f] # Absent => backup[f] = journal.old[f]]_vars
  BY StepWritesAhead
<1>2. QED BY <1>1, TransactionInvariant, PTL DEF Spec, IInv, LiveMovesUnderJournal

LEMMA StepSparesOthers ==
  ASSUME TypeOK, StateInv, Next, NEW f \in Files, foreign' = foreign, live'[f] # live[f]
  PROVE  f \in late \/ {live[f], live'[f]} = {journal.old[f], journal.new[f]}
<1>1. Replace \/ Rewrite BY WhoWrites
<1>2. f = i BY <1>1 DEF Replace, Rewrite, TypeOK, Groups
<1>3. CASE Replace
  <2>1. live'[f] = journal.new[f] /\ (f \in late \/ live[f] = journal.old[f])
    BY <1>2, <1>3 DEF Replace, TypeOK, Groups, StateInv, HolderInv
  <2>2. QED BY <2>1
<1>4. CASE Rewrite
  <2>1. live'[f] = journal.old[f] /\ (f \in late \/ live[f] = journal.new[f])
    BY <1>2, <1>4 DEF Rewrite, TypeOK, Groups, StateInv, HolderInv
  <2>2. QED BY <2>1
<1>5. QED BY <1>1, <1>3, <1>4

(* A file is only ever exchanged between its old and its new content, except
   for a write between the look at it and its replacement. *)
THEOREM OthersAreSpared == Spec => ForeignIsNotOverwritten
<1>1. TypeOK /\ StateInv /\ [Next]_vars =>
        [\A f \in Files : foreign' = foreign /\ live'[f] # live[f] =>
           f \in late \/ {live[f], live'[f]} = {journal.old[f], journal.new[f]}]_vars
  BY StepSparesOthers
<1>2. QED BY <1>1, TransactionInvariant, PTL DEF Spec, IInv, ForeignIsNotOverwritten

LEMMA StepIsAllOrNothing ==
  ASSUME TypeOK, StateInv, Next, foreign' = foreign
  PROVE  \/ \A f \in Files \ touched : Effective'[f] = Effective[f]
         \/ /\ journal.phase = "publishing" /\ journal'.phase = "committed"
            /\ \A f \in Files \ late : Effective'[f] = journal.new[f]
<1> USE DEF Effective, StateInv, HolderInv
<1>1. CASE journal' = journal /\ live' = live BY <1>1
<1>2. CASE live' # live
  <2>1. journal.phase = "publishing" /\ journal' = journal
    BY <1>2, WhoWrites DEF Replace, Rewrite
  <2>2. QED BY <2>1
<1>3. CASE live' = live /\ ReplaceJournal
  <2>1. CASE pc = "journaling"
    <3>1. \A f \in Files \ touched : live[f] = rec.old[f]
      BY <2>1, TransactionAssumption DEF ProgressInv, Preparing, Files
    <3>2. journal.phase # "publishing"
      BY <2>1, NoRecordIsRecord DEF Preparing
    <3>3. rec.phase = "publishing" /\ journal' = rec
      BY <1>3, <2>1 DEF Preparing, ReplaceJournal
    <3>4. QED BY <1>3, <3>1, <3>2, <3>3
  <2>2. CASE pc = "committing"
    <3>1. \A f \in Files \ late : live[f] = rec.new[f]
      BY <2>2
    <3>2. rec.phase = "committed" /\ rec.new = journal.new /\ journal' = rec
      BY <1>3, <2>2 DEF ReplaceJournal, TypeOK, Record
    <3>3. QED BY <1>3, <2>2, <3>1, <3>2
  <2>3. CASE pc = "marking"
    <3>1. \A f \in Files \ touched : live[f] = rec.old[f]
      BY <2>3 DEF ProgressInv
    <3>2. rec.phase = "restored" /\ rec.old = journal.old /\ journal' = rec
      BY <1>3, <2>3 DEF ReplaceJournal, TypeOK, Record
    <3>3. QED BY <1>3, <2>3, <3>1, <3>2
  <2>4. QED BY <1>3, <2>1, <2>2, <2>3 DEF ReplaceJournal
<1>4. CASE live' = live /\ CleanJournal
  <2>1. journal.phase # "publishing" /\ journal'.phase # "publishing"
    BY <1>4, NoRecordIsRecord DEF CleanJournal
  <2>2. QED BY <1>4, <2>1
<1>5. QED BY <1>1, <1>2, <1>3, <1>4, WhoWrites

(* Wherever a run dies, the group that a recovery leaves is all old or all new
   for the files nobody else wrote.  It becomes new in the one step that
   replaces the journal by a "committed" one, and not before a look at all
   files, those that others wrote too, has found them new. *)
THEOREM PublicationIsAtomic == Spec => AllOrNothing
<1>1. TypeOK /\ StateInv /\ [Next]_vars =>
        [foreign' = foreign =>
           \/ \A f \in Files \ touched : Effective'[f] = Effective[f]
           \/ /\ journal.phase = "publishing" /\ journal'.phase = "committed"
              /\ \A f \in Files \ late : Effective'[f] = journal.new[f]]_vars
  BY StepIsAllOrNothing
<1>2. QED BY <1>1, TransactionInvariant, PTL DEF Spec, IInv, AllOrNothing

=============================================================================
