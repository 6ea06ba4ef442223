--------------------------- MODULE PublishTransaction ---------------------------
(***************************************************************************)
(* The publication of a group of runtime data files (publish_candidate.py  *)
(* of sm2-randomizer): the new files and backups of the old ones are       *)
(* staged in a transaction directory, a journal beside it is made durable, *)
(* the files are replaced one after the other, and a later run finishes or *)
(* undoes what an earlier one left.  Whatever is not certain is preserved  *)
(* for a person to look at.                                                *)
(*                                                                         *)
(* One run at a time holds the writer lock; pc is where it is, and "idle"  *)
(* means that the lock is free.  Other programs and editors do not take    *)
(* the lock and may write a runtime file, or a backup, at any moment.      *)
(***************************************************************************)
EXTENDS Naturals

CONSTANTS
  FileCount,   \* runtime files in the order they are replaced (3 in the code)
  Contents,    \* what a file may hold, by its digest
  Absent,      \* there is no such file
  MaxForeign   \* bound on the writes of others

ASSUME TransactionAssumption ==
  /\ FileCount \in Nat \ {0} /\ Absent \notin Contents /\ MaxForeign \in Nat

VARIABLES
  live,     \* the runtime files
  dir,      \* does the transaction directory exist
  backup,   \* its old-* files
  journal,  \* .publish-transaction.json
  next,     \* does .publish-transaction.next exist
  pc,       \* the step the run has reached
  i,        \* the file it is at
  rec,      \* record, the journal as the run holds it
  after,    \* where the run goes once it has recovered or cleaned up
  foreign,  \* bound: writes of others so far
  touched,  \* history: files others wrote since the transaction began
  late      \* history: ...since the run last looked at them

disk == <<live, dir, backup, journal, next>>
run  == <<pc, i, rec, after>>
vars == <<disk, run, foreign, touched, late>>

Files    == 1 .. FileCount
Digests  == Contents \cup {Absent}
Groups   == [Files -> Digests]
Nothing  == [f \in Files |-> Absent]
Record   == [phase : {"none", "publishing", "committed", "restored"},
             old : Groups, new : Groups]
NoRecord == [phase |-> "none", old |-> Nothing, new |-> Nothing]

Preparing  == {"staging", "journaling"}
Publishing == {"checking", "replacing", "verifying", "committing"}
Recovering == {"recovering", "restoring", "rewriting", "marking"}

Init ==
  /\ live \in Groups
  /\ dir = FALSE /\ backup = Nothing /\ journal = NoRecord /\ next = FALSE
  /\ pc = "idle" /\ i = 1 /\ rec = NoRecord /\ after = "idle"
  /\ foreign = 0 /\ touched = {} /\ late = {}

Leftovers == dir \/ journal # NoRecord \/ next

-----------------------------------------------------------------------------
(* apply_candidate and the preparation of _publish_group.                   *)

Open ==
  /\ pc = "idle" /\ after' = "ready"
  /\ pc' = IF Leftovers THEN "recovering" ELSE "ready"
  /\ UNCHANGED <<disk, i, rec, foreign, touched, late>>

(* A candidate that passed its validation is published. *)
Begin(candidate) ==
  /\ pc = "ready" /\ pc' = "staging" /\ i' = 1
  /\ dir' = TRUE
  /\ rec' = [phase |-> "publishing", old |-> Nothing, new |-> candidate]
  /\ touched' = {} /\ late' = {}
  /\ UNCHANGED <<live, backup, journal, next, after, foreign>>

(* Faulty: the files are replaced before the journal is on disk. *)
StageWithoutJournal ==
  /\ pc = "staging"
  /\ backup' = [backup EXCEPT ![i] = live[i]]
  /\ rec' = [rec EXCEPT !.old[i] = live[i]]
  /\ IF i = FileCount THEN i' = 1 /\ pc' = "checking" ELSE i' = i + 1 /\ pc' = "staging"
  /\ UNCHANGED <<live, dir, journal, next, after, foreign, touched, late>>

(* new-* is written, the runtime file backed up, both read back and compared. *)
Stage ==
  /\ pc = "staging"
  /\ backup' = [backup EXCEPT ![i] = live[i]]
  /\ rec' = [rec EXCEPT !.old[i] = live[i]]
  /\ i' = i + 1
  /\ pc' = IF i = FileCount THEN "journaling" ELSE "staging"
  /\ UNCHANGED <<live, dir, journal, next, after, foreign, touched, late>>

(* _write_journal, in two steps: the record is written beside the journal... *)
WriteNext ==
  /\ pc \in {"journaling", "committing", "marking"} /\ ~ next
  /\ next' = TRUE
  /\ UNCHANGED <<live, dir, backup, journal, run, foreign, touched, late>>

(* ...and replaces it. *)
ReplaceJournal ==
  /\ pc \in {"journaling", "committing", "marking"} /\ next
  /\ next' = FALSE /\ journal' = rec
  /\ IF pc = "journaling" THEN pc' = "checking" /\ i' = 1
                          ELSE pc' = "cleaning" /\ UNCHANGED i
  /\ after' = IF pc = "committing" THEN "idle" ELSE after
  /\ UNCHANGED <<live, dir, backup, rec, foreign, touched, late>>

-----------------------------------------------------------------------------
(* The replacement of the runtime files.                                    *)

Check ==
  /\ pc = "checking" /\ live[i] = rec.old[i]
  /\ pc' = "replacing" /\ late' = {}
  /\ UNCHANGED <<disk, i, rec, after, foreign, touched>>

Replace ==
  /\ pc = "replacing"
  /\ live' = [live EXCEPT ![i] = rec.new[i]]
  /\ i' = i + 1
  /\ pc' = IF i = FileCount THEN "verifying" ELSE "checking"
  /\ UNCHANGED <<dir, backup, journal, next, rec, after, foreign, touched, late>>

(* Faulty: the hashes after the replacement are not compared. *)
VerifyNothing ==
  /\ pc = "verifying"
  /\ pc' = "committing" /\ rec' = [rec EXCEPT !.phase = "committed"] /\ late' = {}
  /\ UNCHANGED <<disk, i, after, foreign, touched>>

(* The hashes, the validation of the group, and the hashes again. *)
Verify ==
  /\ pc = "verifying" /\ live = rec.new
  /\ pc' = "committing" /\ rec' = [rec EXCEPT !.phase = "committed"] /\ late' = {}
  /\ UNCHANGED <<disk, i, after, foreign, touched>>

-----------------------------------------------------------------------------
(* _recover_transaction, at the start of a run or after a failed one.       *)

Expected(f) ==
  CASE journal.phase = "committed" -> {journal.new[f]}
    [] journal.phase = "restored"  -> {journal.old[f]}
    [] OTHER                       -> {journal.old[f], journal.new[f]}

(* What recovery asks of the disk before it writes anything. *)
Recoverable ==
  /\ journal.phase # "none"
  /\ \A f \in Files : live[f] \in Expected(f)
  /\ journal.phase = "publishing" =>
       /\ dir
       /\ \A f \in Files : journal.old[f] # Absent => backup[f] = journal.old[f]

Recover ==
  /\ pc = "recovering" /\ Recoverable
  /\ rec' = journal /\ i' = 1
  /\ pc' = IF journal.phase = "publishing" THEN "restoring" ELSE "cleaning"
  /\ UNCHANGED <<disk, after, foreign, touched, late>>

(* Faulty: whatever is there is restored. *)
RestoreBlindly ==
  /\ pc = "restoring" /\ i \in Files
  /\ IF live[i] = rec.old[i] THEN i' = i + 1 /\ UNCHANGED <<pc, late>>
     ELSE pc' = "rewriting" /\ late' = {} /\ UNCHANGED i
  /\ UNCHANGED <<disk, rec, after, foreign, touched>>

(* The next file is looked at; one that was replaced is to be rewritten from
   its backup, which is compared once more. *)
Restore ==
  /\ pc = "restoring" /\ i \in Files
  /\ \/ live[i] = rec.old[i] /\ i' = i + 1 /\ UNCHANGED <<pc, late>>
     \/ /\ live[i] = rec.new[i] /\ live[i] # rec.old[i]
        /\ rec.old[i] = Absent \/ backup[i] = rec.old[i]
        /\ pc' = "rewriting" /\ late' = {} /\ UNCHANGED i
  /\ UNCHANGED <<disk, rec, after, foreign, touched>>

Rewrite ==
  /\ pc = "rewriting"
  /\ live' = [live EXCEPT ![i] = rec.old[i]]
  /\ i' = i + 1 /\ pc' = "restoring"
  /\ UNCHANGED <<dir, backup, journal, next, rec, after, foreign, touched, late>>

(* Faulty: the journal is not told that the files are back. *)
RestoredUnmarked ==
  /\ pc = "restoring" /\ i \notin Files /\ live = rec.old
  /\ pc' = "cleaning" /\ rec' = [rec EXCEPT !.phase = "restored"]
  /\ UNCHANGED <<disk, i, after, foreign, touched, late>>

Restored ==
  /\ pc = "restoring" /\ i \notin Files /\ live = rec.old
  /\ pc' = "marking" /\ rec' = [rec EXCEPT !.phase = "restored"]
  /\ UNCHANGED <<disk, i, after, foreign, touched, late>>

-----------------------------------------------------------------------------
(* _clean_transaction: the files, the directory, .next and last the journal. *)

CleanFile ==
  /\ pc = "cleaning" /\ dir
  /\ \E f \in Files : backup[f] # Absent /\ backup' = [backup EXCEPT ![f] = Absent]
  /\ UNCHANGED <<live, dir, journal, next, run, foreign, touched, late>>

CleanDirectory ==
  /\ pc = "cleaning" /\ dir /\ backup = Nothing
  /\ dir' = FALSE
  /\ UNCHANGED <<live, backup, journal, next, run, foreign, touched, late>>

CleanNext ==
  /\ pc = "cleaning" /\ ~ dir /\ next
  /\ next' = FALSE
  /\ UNCHANGED <<live, dir, backup, journal, run, foreign, touched, late>>

CleanJournal ==
  /\ pc = "cleaning" /\ ~ dir /\ ~ next
  /\ journal' = NoRecord
  /\ pc' = after /\ rec' = NoRecord /\ i' = 1
  /\ UNCHANGED <<live, dir, backup, next, after, foreign, touched, late>>

-----------------------------------------------------------------------------
(* Failures.                                                                *)

(* An exception before the first replacement cleans up; one after it, and a
   check that does not hold, recovers. *)
Raise ==
  /\ \/ pc \in Preparing /\ pc' = "cleaning"
     \/ pc \in Publishing /\ pc' = "recovering"
  /\ after' = "idle"
  /\ UNCHANGED <<disk, i, rec, foreign, touched, late>>

(* The process dies or is interrupted, or the exception leaves the run, as it
   does for a check of the recovery that does not hold.  The candidate may
   also be refused before anything is written. *)
Stop ==
  /\ pc # "idle" /\ pc' = "idle"
  /\ rec' = NoRecord /\ i' = 1 /\ after' = "idle"
  /\ UNCHANGED <<disk, foreign, touched, late>>

(* Somebody else writes or removes a runtime file. *)
Interfere(f) ==
  /\ foreign < MaxForeign /\ foreign' = foreign + 1
  /\ \E c \in Digests \ {live[f]} : live' = [live EXCEPT ![f] = c]
  /\ touched' = touched \cup {f} /\ late' = late \cup {f}
  /\ UNCHANGED <<dir, backup, journal, next, run>>

(* ...or damages a backup. *)
Damage(f) ==
  /\ foreign < MaxForeign /\ foreign' = foreign + 1
  /\ backup[f] # Absent
  /\ \E c \in Digests \ {backup[f]} : backup' = [backup EXCEPT ![f] = c]
  /\ touched' = touched \cup {f}
  /\ UNCHANGED <<live, dir, journal, next, run, late>>

-----------------------------------------------------------------------------
Prepare == \/ Open \/ Stage
           \/ \E candidate \in [Files -> Contents] : Begin(candidate)
Journal == WriteNext \/ ReplaceJournal
Publish == Check \/ Replace \/ Verify
Undo    == Recover \/ Restore \/ Rewrite \/ Restored
Clean   == CleanFile \/ CleanDirectory \/ CleanNext \/ CleanJournal
Others  == \E f \in Files : Interfere(f) \/ Damage(f)

Next == Prepare \/ Journal \/ Publish \/ Undo \/ Clean \/ Raise \/ Stop \/ Others

Spec == Init /\ [][Next]_vars

-----------------------------------------------------------------------------
(* Properties.                                                              *)

TypeOK ==
  /\ live \in Groups /\ dir \in BOOLEAN /\ backup \in Groups
  /\ journal \in Record /\ next \in BOOLEAN
  /\ pc \in {"idle", "ready", "cleaning"} \cup Preparing \cup Publishing \cup Recovering
  /\ i \in 1 .. FileCount + 1 /\ rec \in Record /\ after \in {"idle", "ready"}
  /\ foreign \in Nat /\ touched \subseteq Files /\ late \subseteq Files

(* What a file holds once every started transaction has been recovered. *)
Effective ==
  [f \in Files |-> IF journal.phase = "publishing" THEN journal.old[f] ELSE live[f]]

(* Nothing that this program does, and no moment at which it dies, makes the
   recovery refuse: as long as nobody else wrote a runtime file or a backup,
   a journal on disk describes a disk that _recover_transaction accepts. *)
EveryCrashIsRecoverable ==
  touched = {} /\ journal.phase # "none" => Recoverable

(* The group is published as a whole or not at all: for the files that nobody
   else wrote, what a crash at this point would leave after recovery changes
   in one step only, when the journal of _publish_group becomes "committed".
   That step finds all files new, those that others wrote too, but for a write
   after the last comparison of the hashes. *)
AllOrNothing ==
  [][foreign' = foreign =>
       \/ \A f \in Files \ touched : Effective'[f] = Effective[f]
       \/ /\ journal.phase = "publishing" /\ journal'.phase = "committed"
          /\ \A f \in Files \ late : Effective'[f] = journal.new[f]]_vars

(* Write-ahead: a run replaces or restores a runtime file only while the disk
   holds a "publishing" journal and, for every file that nobody else wrote, a
   backup of the old content. *)
LiveMovesUnderJournal ==
  [][foreign' = foreign /\ live' # live =>
       /\ journal.phase = "publishing" /\ dir
       /\ \A f \in Files \ touched :
            journal.old[f] # Absent => backup[f] = journal.old[f]]_vars

(* "A foreign writer ... must never be overwritten": a run replaces the old
   content of a file by the new one or the new one by the old one, and nothing
   else, but for a write that slips in between the look at that file and the
   os.replace right after it. *)
ForeignIsNotOverwritten ==
  [][\A f \in Files : foreign' = foreign /\ live'[f] # live[f] =>
       f \in late \/ {live[f], live'[f]} = {journal.old[f], journal.new[f]}]_vars

-----------------------------------------------------------------------------
(* The invariant the proofs rest on.                                        *)

(* A file that nobody else wrote is where the journal says it may be, and can
   be brought back from its backup. *)
FileInv(f) ==
  /\ journal.phase = "publishing" =>
       /\ live[f] \in {journal.old[f], journal.new[f]}
       /\ journal.old[f] # Absent => backup[f] = journal.old[f]
  /\ journal.phase = "committed" => live[f] = journal.new[f]
  /\ journal.phase = "restored"  => live[f] = journal.old[f]

(* How far the run has come with a file that nobody else wrote. *)
ProgressInv(f) ==
  /\ pc \in Preparing /\ f < i =>
       live[f] = rec.old[f] /\ backup[f] = rec.old[f]
  /\ pc \in {"checking", "replacing"} =>
       live[f] = IF f < i THEN rec.new[f] ELSE rec.old[f]
  /\ pc \in {"verifying", "committing"} => live[f] = rec.new[f]
  /\ pc \in {"restoring", "rewriting"} /\ f < i => live[f] = rec.old[f]
  /\ pc = "marking" => live[f] = rec.old[f]

(* What the run holds and what the disk holds. *)
HolderInv ==
  /\ journal.phase = "publishing" => dir
  /\ pc = "ready" => ~ Leftovers
  /\ pc \in Preparing => journal = NoRecord /\ dir /\ rec.phase = "publishing"
  /\ pc = "staging" => i \in Files
  /\ pc = "journaling" => i = FileCount + 1
  /\ pc \in {"checking", "replacing", "verifying", "restoring", "rewriting"} =>
       rec = journal /\ journal.phase = "publishing"
  /\ pc \in {"checking", "replacing", "rewriting"} => i \in Files
  /\ pc = "committing" =>
       /\ journal.phase = "publishing" /\ rec = [journal EXCEPT !.phase = "committed"]
       /\ \A f \in Files \ late : live[f] = rec.new[f]
  /\ pc = "marking" =>
       journal.phase = "publishing" /\ rec = [journal EXCEPT !.phase = "restored"]
  /\ pc = "cleaning" => journal.phase # "publishing"
  /\ pc = "replacing" => i \in late \/ live[i] = rec.old[i]
  /\ pc = "rewriting" => i \in late \/ live[i] = rec.new[i]
  /\ late \subseteq touched

StateInv == HolderInv /\ \A f \in Files \ touched : FileInv(f) /\ ProgressInv(f)

IInv == TypeOK /\ StateInv

=============================================================================
