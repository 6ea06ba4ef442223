------------------------------ MODULE ReleaseStore ------------------------------
(***************************************************************************)
(* The versioned release store of the Hextech companion: generation        *)
(* directories holding one manifest each, and the single file              *)
(* current.v4.json (the head) that names the current and the previous      *)
(* generation and, independently, the recognition Catalogs.  The App       *)
(* process publishes and sweeps under HEAD_LOCK; the Overlay process opens *)
(* views without any lock; either the App or the disk may fail between any *)
(* two steps.                                                              *)
(*                                                                         *)
(* The step the holder of HEAD_LOCK has reached is pc; pc = "idle" means   *)
(* that the lock is free.  A crash of the App frees it wherever it was.    *)
(***************************************************************************)
EXTENDS Naturals, Sequences, FiniteSets

CONSTANTS
  Generations,   \* generation identities; every candidate draws a fresh one
  SeedGen,       \* the generation shipped with the build
  Contents,      \* content fingerprints
  SeedContent,   \* fingerprint of the shipped generation
  Catalogs,      \* Catalog identities
  CatalogOf,     \* the one Catalog each content is bound to
  Readers,       \* processes that open views without HEAD_LOCK
  Packaged,      \* a frozen build, whose start insists on install_v4_seed
  MaxFaults,     \* bound on the damage the disk suffers
  NoGen, NoContent, NoCatalog   \* the empty references ""/{} of the head

ASSUME StoreAssumption ==
  /\ SeedGen \in Generations /\ SeedContent \in Contents
  /\ CatalogOf \in [Contents -> Catalogs]
  /\ NoGen \notin Generations /\ NoContent \notin Contents
  /\ NoCatalog \notin Catalogs
  /\ Packaged \in BOOLEAN /\ MaxFaults \in Nat

VARIABLES
  head,      \* current.v4.json
  tree,      \* what each generation directory holds
  damage,    \* the deepest fault a generation's files have suffered
  sound,     \* Catalogs whose files still verify
  content,   \* fingerprint written in each generation's manifest
  aged,      \* generations older than the retention age
  app,       \* life of the App process
  pc,        \* step of the holder of HEAD_LOCK
  cand,      \* candidate of the running publication
  seen,      \* generation its open_view returned, or NoGen
  protected, \* references the running sweep collected
  rhead,     \* the head a reader has read and not yet resolved
  view,      \* the view a reader holds
  cache,     \* generations in a reader's query cache, oldest first
  status,    \* generation named by the reader's state file
  faults,    \* bound: damage events so far
  log,       \* history: generations in the order the head committed them
  rejected,  \* history: generations a publication found unreadable
  late       \* history: readers that reported during the running sweep

disk    == <<head, tree, damage, sound, content, aged>>
lock    == <<app, pc, cand, seen, protected>>
readers == <<rhead, view, cache, status>>
history == <<log, rejected, late>>
vars    == <<disk, lock, readers, faults, history>>

GenRef     == Generations \cup {NoGen}
CatalogRef == Catalogs \cup {NoCatalog}
HeadRecord == [exists : BOOLEAN, current : GenRef, previous : GenRef,
               recognition : CatalogRef, previousRecognition : CatalogRef]
NoHead == [exists |-> FALSE, current |-> NoGen, previous |-> NoGen,
           recognition |-> NoCatalog, previousRecognition |-> NoCatalog]
View    == [gen : GenRef, degraded : BOOLEAN]
NoView  == [gen |-> NoGen, degraded |-> FALSE]
Trees   == {"absent", "empty", "partial", "manifest"}
Damages == {"none", "unit", "closure", "manifest"}
Publishing == {"made", "written", "proved", "unwinding"}

Init ==
  /\ head = NoHead
  /\ tree = [g \in Generations |-> "absent"]
  /\ damage = [g \in Generations |-> "none"]
  /\ sound = Catalogs
  /\ content = [g \in Generations |-> NoContent]
  /\ aged = {}
  /\ app = "down" /\ pc = "idle" /\ cand = NoGen /\ seen = NoGen
  /\ protected = {}
  /\ rhead = [r \in Readers |-> NoHead]
  /\ view = [r \in Readers |-> NoView]
  /\ cache = [r \in Readers |-> <<>>]
  /\ status = [r \in Readers |-> NoGen]
  /\ faults = 0 /\ log = <<>> /\ rejected = {} /\ late = {}

-----------------------------------------------------------------------------
(* Opening a generation.                                                   *)

\* A generation resolves when its manifest parses and the reference closure
\* verifies; units are only hashed by the full closure.
Loadable(g) ==
  /\ g \in Generations
  /\ tree[g] = "manifest"
  /\ damage[g] \in {"none", "unit"}
  /\ CatalogOf[content[g]] \in sound

Closed(g) == Loadable(g) /\ damage[g] = "none"

\* The generation open_view serves: current, else previous, else none.
Served ==
  IF Loadable(head.current) THEN head.current
  ELSE IF Loadable(head.previous) THEN head.previous
  ELSE NoGen

-----------------------------------------------------------------------------
(* update_head.                                                            *)

\* Faulty: the replaced reference is kept without verifying it.
DisplacedUnverified == head.recognition

\* The previous recognition Catalog after the identity moves: the first of
\* the two old references that still verifies.
Displaced ==
  IF head.recognition \in sound THEN head.recognition
  ELSE IF head.previousRecognition \in sound THEN head.previousRecognition
  ELSE NoCatalog

WithRecognition(h, c) ==
  IF c = h.recognition THEN h
  ELSE [h EXCEPT !.recognition = c, !.previousRecognition = Displaced]

WithStatistics(h, g, previous) ==
  [h EXCEPT !.exists = TRUE, !.current = g, !.previous = previous]

\* Faulty: update_head's default, which rotates whatever current names.
PublishedHeadRotating ==
  LET h == WithStatistics(head, cand, head.current)
  IN  IF head.recognition = NoCatalog
      THEN WithRecognition(h, CatalogOf[content[cand]])
      ELSE h

\* The head a publication of cand writes.  An absent recognition reference is
\* filled with the candidate's Catalog; a present one is left alone.
PublishedHead ==
  LET h == WithStatistics(head, cand, seen)
  IN  IF head.recognition = NoCatalog
      THEN WithRecognition(h, CatalogOf[content[cand]])
      ELSE h

-----------------------------------------------------------------------------
(* Publication (DataSnapshotPublisher._publish_locked).                    *)

\* The candidate's closure verifies, open_view is consulted, and unless the
\* undegraded current view already has this content the directory is made.
PublishBegin(g, c) ==
  /\ app = "up" /\ pc = "idle"
  /\ content[g] = NoContent /\ tree[g] = "absent" /\ g # SeedGen
  /\ CatalogOf[c] \in sound
  /\ ~ (Loadable(head.current) /\ content[head.current] = c)
  /\ pc' = "made" /\ cand' = g /\ seen' = Served
  /\ tree' = [tree EXCEPT ![g] = "empty"]
  /\ content' = [content EXCEPT ![g] = c]
  /\ rejected' = rejected \cup
       {x \in {head.current, head.previous} \ {NoGen} : ~ Loadable(x)}
  /\ UNCHANGED <<head, damage, sound, aged, app, protected, readers, faults,
                 log, late>>

PublishWrite ==
  /\ pc = "made"
  /\ \/ /\ tree' = [tree EXCEPT ![cand] = "manifest"]
        /\ pc' = "written"
     \/ tree' = tree /\ pc' = "unwinding"
  /\ UNCHANGED <<head, damage, sound, content, aged, app, cand, seen,
                 protected, readers, faults, history>>

\* open_generation of the candidate before anything refers to it.
PublishProve ==
  /\ pc = "written"
  /\ pc' = IF Loadable(cand) THEN "proved" ELSE "unwinding"
  /\ UNCHANGED <<disk, app, cand, seen, protected, readers, faults, history>>

Release == pc' = "idle" /\ cand' = NoGen /\ seen' = NoGen

\* One os.replace commits; an exception may be raised before or after it.
PublishCommit ==
  /\ pc = "proved"
  /\ \/ /\ head' = PublishedHead /\ log' = Append(log, cand)
        /\ \/ Release
           \/ pc' = "unwinding" /\ UNCHANGED <<cand, seen>>
     \/ pc' = "unwinding" /\ UNCHANGED <<head, cand, seen, log>>
  /\ UNCHANGED <<tree, damage, sound, content, aged, app, protected, readers,
                 faults, rejected, late>>

\* Faulty: any exception removes the candidate's directory.
PublishUnwindBlind ==
  /\ pc = "unwinding"
  /\ \E left \in {"absent", "empty"} : tree' = [tree EXCEPT ![cand] = left]
  /\ Release
  /\ UNCHANGED <<head, damage, sound, content, aged, app, protected, readers,
                 faults, history>>

\* The handler re-reads the head: if that fails, or the head owns the
\* candidate, the directory stays; otherwise rmtree removes what it can.
PublishUnwind ==
  /\ pc = "unwinding"
  /\ \/ UNCHANGED tree
     \/ /\ cand \notin {head.current, head.previous}
        /\ \E left \in {"absent", "empty"} : tree' = [tree EXCEPT ![cand] = left]
  /\ Release
  /\ UNCHANGED <<head, damage, sound, content, aged, app, protected, readers,
                 faults, history>>

\* update_head(recognition_catalog = c), after c's files verified.
MoveRecognition(c) ==
  /\ app = "up" /\ pc = "idle"
  /\ c \in sound /\ c # head.recognition
  /\ head' = [WithRecognition(head, c) EXCEPT !.exists = TRUE]
  /\ UNCHANGED <<tree, damage, sound, content, aged, lock, readers, faults,
                 history>>

-----------------------------------------------------------------------------
(* Retention (apply_retention), one directory at a time under HEAD_LOCK.   *)

InHead == {head.current, head.previous} \ {NoGen}

Reported == {status[r] : r \in Readers} \ {NoGen}

\* Every reference is collected and every live closure verified first; any
\* missing or broken one skips the sweep.
SweepBegin ==
  /\ app = "up" /\ pc = "idle" /\ head.exists
  /\ \A g \in InHead : Closed(g)
  /\ \A g \in Reported :
       tree[g] \in {"partial", "manifest"} /\ damage[g] # "manifest"
  /\ pc' = "sweeping" /\ protected' = InHead \cup Reported /\ late' = {}
  /\ UNCHANGED <<disk, app, cand, seen, readers, faults, log, rejected>>

\* Faulty: only the head is spared, not the references of the state files.
SweepRemoveUnreported(g) ==
  /\ pc = "sweeping"
  /\ tree[g] \in {"partial", "manifest"} /\ damage[g] # "manifest"
  /\ g \in aged /\ g \notin InHead
  /\ \E left \in {"absent", "empty"} : tree' = [tree EXCEPT ![g] = left]
  /\ UNCHANGED <<head, damage, sound, content, aged, lock, readers, faults,
                 history>>

\* Only an aged directory holding exactly one parsing manifest is owned.  The
\* unlink may succeed and the rmdir fail.
SweepRemove(g) ==
  /\ pc = "sweeping"
  /\ tree[g] \in {"partial", "manifest"} /\ damage[g] # "manifest"
  /\ g \in aged /\ g \notin protected
  /\ \E left \in {"absent", "empty"} : tree' = [tree EXCEPT ![g] = left]
  /\ UNCHANGED <<head, damage, sound, content, aged, lock, readers, faults,
                 history>>

SweepEnd ==
  /\ pc = "sweeping"
  /\ pc' = "idle" /\ protected' = {}
  /\ UNCHANGED <<disk, app, cand, seen, readers, faults, history>>

-----------------------------------------------------------------------------
(* Start-up (initialize_snapshot, install_v4_seed) and crash of the App.   *)

\* From sources: with a head on disk nothing is installed, whatever open_view
\* answers.
BootInstalled ==
  /\ app = "down" /\ head.exists /\ ~ Packaged
  /\ app' = "up"
  /\ UNCHANGED <<disk, pc, cand, seen, protected, readers, faults, history>>

\* Faulty: the previous reference replaces a broken one unverified.
RecoveredFromPrevious == head.previousRecognition

\* The recognition Catalog that replaces a broken one at the start: the
\* previous reference if it verifies, else the Catalog of the served release.
Recovered ==
  IF head.previousRecognition \in sound THEN head.previousRecognition
  ELSE CatalogOf[content[Served]]

\* A frozen build repairs a recognition reference that does not verify.
BootPackaged ==
  /\ app = "down" /\ head.exists /\ Packaged /\ Served # NoGen
  /\ app' = "up"
  /\ head' = IF head.recognition \in sound THEN head
             ELSE WithRecognition(head, Recovered)
  /\ UNCHANGED <<tree, damage, sound, content, aged, pc, cand, seen, protected,
                 readers, faults, history>>

\* The files of the shipped closure that are already there match it.
SeedCopyable == damage[SeedGen] = "none" /\ CatalogOf[SeedContent] \in sound

\* A frozen build that cannot open a view, or copy the seed, does not start:
\* neither the DataService nor a publication comes up.
BootFails ==
  /\ app = "down" /\ Packaged
  /\ IF head.exists THEN Served = NoGen ELSE ~ SeedCopyable
  /\ UNCHANGED vars

\* Without a head the shipped closure is copied file by file.  A file already
\* there must match the shipped one; from sources a damaged leftover fails the
\* copy and the App comes up without statistics.
BootSeed ==
  /\ app = "down" /\ ~ head.exists
  /\ \/ SeedCopyable /\ app' = "copying"
     \/ ~ SeedCopyable /\ ~ Packaged /\ app' = "up"
  /\ UNCHANGED <<disk, pc, cand, seen, protected, readers, faults, history>>

\* Where an exception in the installation leaves the App.
Uninstalled == IF Packaged THEN "down" ELSE "up"

SeedCopied ==
  /\ app = "copying"
  /\ tree' = [tree EXCEPT ![SeedGen] = "manifest"]
  /\ content' = [content EXCEPT ![SeedGen] = SeedContent]
  /\ app' = "copied"
  /\ UNCHANGED <<head, damage, sound, aged, pc, cand, seen, protected, readers,
                 faults, history>>

\* The copy stops part way, by an I/O error or a crash.  The manifest sorts
\* before the units, and the file being written may be left short.
SeedCopyStopped ==
  /\ app = "copying"
  /\ app' \in {Uninstalled, "down"}
  /\ \/ UNCHANGED <<tree, damage, content>>
     \/ /\ tree[SeedGen] # "manifest"
        /\ tree' = [tree EXCEPT ![SeedGen] = "partial"]
        /\ content' = [content EXCEPT ![SeedGen] = SeedContent]
        /\ \E d \in Damages : damage' = [damage EXCEPT ![SeedGen] = d]
  /\ UNCHANGED <<head, sound, aged, pc, cand, seen, protected, readers, faults,
                 history>>

\* open_generation of the copy, then the head is written with the build's own
\* recognition references, whose files were verified where they were copied to.  A
\* seed may lack the previous one only: no build is packed without the other
\* (cohort_seed.py:49-52).
SeedCommit ==
  /\ app = "copied"
  /\ IF Loadable(SeedGen)
     THEN /\ app' = "up"
          /\ \E c \in sound, p \in sound \cup {NoCatalog} :
               head' = [WithStatistics(NoHead, SeedGen, NoGen)
                        EXCEPT !.recognition = c, !.previousRecognition = p]
          /\ log' = Append(log, SeedGen)
     ELSE app' = Uninstalled /\ UNCHANGED <<head, log>>
  /\ UNCHANGED <<tree, damage, sound, content, aged, pc, cand, seen, protected,
                 readers, faults, rejected, late>>

\* The process dies: HEAD_LOCK and every local of its holder are gone, the
\* disk stays.  An interrupted rmtree or sweep has removed what it removed.
Crash ==
  /\ app \in {"up", "copied"}
  /\ app' = "down" /\ protected' = {} /\ Release
  /\ UNCHANGED <<disk, readers, faults, history>>

-----------------------------------------------------------------------------
(* The disk: files are damaged, directories age.                           *)

Damage(g) ==
  /\ faults < MaxFaults
  /\ tree[g] \in {"partial", "manifest"} /\ damage[g] = "none"
  /\ \E d \in Damages \ {"none"} : damage' = [damage EXCEPT ![g] = d]
  /\ faults' = faults + 1
  /\ UNCHANGED <<head, tree, sound, content, aged, lock, readers, history>>

DamageCatalog(c) ==
  /\ faults < MaxFaults /\ c \in sound
  /\ sound' = sound \ {c} /\ faults' = faults + 1
  /\ UNCHANGED <<head, tree, damage, content, aged, lock, readers, history>>

Age(g) ==
  /\ tree[g] \in {"partial", "manifest"} /\ g \notin aged
  /\ aged' = aged \cup {g}
  /\ UNCHANGED <<head, tree, damage, sound, content, lock, readers, faults,
                 history>>

-----------------------------------------------------------------------------
(* Readers (DataSnapshotClient in another process).                        *)

\* A cached release needs only the bytes of its manifest; any other one is
\* verified from the disk.
Resolves(r, g) ==
  /\ g \in Generations
  /\ \/ Loadable(g)
     \/ /\ \E i \in DOMAIN cache[r] : cache[r][i] = g
        /\ tree[g] = "manifest" /\ damage[g] # "manifest"

\* The two most recently used releases stay in the query cache.
Touched(s, g) ==
  IF s = <<>> THEN <<g>>
  ELSE IF s[Len(s)] = g THEN s ELSE <<s[Len(s)], g>>

ReadHead(r) ==
  /\ rhead[r] = NoHead /\ head.exists
  /\ rhead' = [rhead EXCEPT ![r] = head]
  /\ UNCHANGED <<disk, lock, view, cache, status, faults, history>>

Adopt(r, g, degraded) ==
  /\ view' = [view EXCEPT ![r] = [gen |-> g, degraded |-> degraded]]
  /\ cache' = [cache EXCEPT ![r] = Touched(@, g)]

\* The current generation of the head that was read, if it still resolves.
ResolveCurrent(r) ==
  /\ rhead[r] # NoHead /\ rhead[r].current # NoGen
  /\ IF Resolves(r, rhead[r].current)
     THEN /\ Adopt(r, rhead[r].current, FALSE)
          /\ rhead' = [rhead EXCEPT ![r] = NoHead]
     ELSE /\ rhead' = [rhead EXCEPT ![r].current = NoGen]
          /\ UNCHANGED <<view, cache>>
  /\ UNCHANGED <<disk, lock, status, faults, history>>

\* Faulty: the fallback is served as if it were current.
ResolvePreviousAsCurrent(r) ==
  /\ rhead[r] # NoHead /\ rhead[r].current = NoGen
  /\ IF Resolves(r, rhead[r].previous)
     THEN Adopt(r, rhead[r].previous, FALSE)
     ELSE UNCHANGED <<view, cache>>
  /\ rhead' = [rhead EXCEPT ![r] = NoHead]
  /\ UNCHANGED <<disk, lock, status, faults, history>>

\* Then the previous one, as a degraded view; else the open fails and the
\* reader keeps the view it had.
ResolvePrevious(r) ==
  /\ rhead[r] # NoHead /\ rhead[r].current = NoGen
  /\ IF Resolves(r, rhead[r].previous)
     THEN Adopt(r, rhead[r].previous, TRUE)
     ELSE UNCHANGED <<view, cache>>
  /\ rhead' = [rhead EXCEPT ![r] = NoHead]
  /\ UNCHANGED <<disk, lock, status, faults, history>>

\* The Overlay's state file names the generation it works from.
Report(r) ==
  /\ view[r].gen # status[r]
  /\ status' = [status EXCEPT ![r] = view[r].gen]
  /\ late' = IF pc = "sweeping" THEN late \cup {r} ELSE late
  /\ UNCHANGED <<disk, lock, rhead, view, cache, faults, log, rejected>>

\* The reader's process restarts: its memory is gone, its state file is not.
ReaderRestart(r) ==
  /\ view[r] # NoView
  /\ rhead' = [rhead EXCEPT ![r] = NoHead]
  /\ view' = [view EXCEPT ![r] = NoView]
  /\ cache' = [cache EXCEPT ![r] = <<>>]
  /\ UNCHANGED <<disk, lock, status, faults, history>>

-----------------------------------------------------------------------------
Publish == \/ \E g \in Generations, c \in Contents : PublishBegin(g, c)
           \/ PublishWrite \/ PublishProve \/ PublishCommit \/ PublishUnwind
Sweep   == SweepBegin \/ (\E g \in Generations : SweepRemove(g)) \/ SweepEnd
Boot    == BootInstalled \/ BootPackaged \/ BootFails \/ BootSeed
           \/ SeedCopied \/ SeedCopyStopped \/ SeedCommit
Disk    == \/ \E g \in Generations : Damage(g) \/ Age(g)
           \/ \E c \in Catalogs : DamageCatalog(c)
Reader(r) == \/ ReadHead(r) \/ ResolveCurrent(r) \/ ResolvePrevious(r)
             \/ Report(r) \/ ReaderRestart(r)

Next == \/ Publish \/ Sweep \/ Boot \/ Crash \/ Disk
        \/ \E c \in Catalogs : MoveRecognition(c)
        \/ \E r \in Readers : Reader(r)

Spec == Init /\ [][Next]_vars

-----------------------------------------------------------------------------
(* Properties.                                                             *)

Committed == {log[i] : i \in DOMAIN log}

\* Every variable keeps its type.  (All state of release_store.py, the
\* generation package and retention.py.)
TypeOK ==
  /\ head \in HeadRecord
  /\ tree \in [Generations -> Trees]
  /\ damage \in [Generations -> Damages]
  /\ sound \subseteq Catalogs
  /\ content \in [Generations -> Contents \cup {NoContent}]
  /\ aged \subseteq Generations
  /\ app \in {"down", "copying", "copied", "up"}
  /\ pc \in {"idle", "sweeping"} \cup Publishing
  /\ cand \in GenRef /\ seen \in GenRef
  /\ protected \subseteq Generations
  /\ rhead \in [Readers -> HeadRecord]
  /\ view \in [Readers -> View]
  /\ cache \in [Readers -> Seq(Generations)]
  /\ status \in [Readers -> GenRef]
  /\ faults \in Nat
  /\ log \in Seq(Generations)
  /\ rejected \subseteq Generations
  /\ late \subseteq Readers

\* The head never names a generation whose manifest is not on disk: not after
\* a failed publication's rmtree, an exception raised after the commit, a
\* sweep, or a crash anywhere (__init__.py:95-109, retention.py:61-77).
HeadNeverDangles == \A g \in InHead : tree[g] = "manifest"

\* A commit never promotes or keeps a generation that some publication has
\* already found unreadable: a broken current does not become the previous
\* that later readers would fall back on (__init__.py:76-94).  What it keeps as
\* previous was in the head until then.  Nor does it replace a readable current by
\* the same content, which would push the only other generation out of the head.
CommitsAreProven ==
  [][head'.current # head.current =>
       /\ {head'.current, head'.previous} \cap rejected = {}
       /\ head'.previous \in InHead \cup {NoGen}
       /\ Loadable(head.current) => content[head'.current] # content[head.current]]_vars

\* A sweep removes no generation of the head, and none that a state file
\* named when the sweep collected its references (retention.py:13-42, 61-77).
SweepSparesReferences ==
  [][pc = "sweeping" =>
       \A g \in Generations : tree[g] # tree'[g] =>
         /\ g \notin InHead
         /\ \A r \in Readers : status[r] = g => r \in late]_vars

\* As long as the disk has suffered at most one fault and no Catalog is hit,
\* a head with a fallback always has a generation to serve, whatever crashed
\* publications and sweeps lie behind it (system-design.md:29).
OneFaultIsSurvivable ==
  head.previous # NoGen /\ sound = Catalogs /\ faults <= 1 => Served # NoGen

\* The two recognition references and the two statistics references move
\* independently: a publication leaves a present recognition pair alone, a
\* recognition move leaves current and previous alone (release_store.py:104-125).
RolesMoveIndependently ==
  [][head.recognition # NoCatalog /\ head' # head =>
       \/ /\ head'.recognition = head.recognition
          /\ head'.previousRecognition = head.previousRecognition
       \/ /\ head'.current = head.current
          /\ head'.previous = head.previous]_vars

\* When the recognition Catalog moves, a reference that still verifies stays
\* reachable as the fallback, even if the one being replaced is broken
\* (release_store.py:115-123).
RecognitionKeepsFallback ==
  [][head'.recognition # head.recognition
       /\ {head.recognition, head.previousRecognition} \cap sound # {} =>
         head'.previousRecognition \in sound]_vars

\* A packaged App never comes up with a recognition reference that does not
\* verify, whichever Catalogs broke while it was down
\* (release_seed.py:47-61, 66-72).
StartRecognises ==
  [][Packaged /\ app # "up" /\ app' = "up" => head'.recognition \in sound]_vars

-----------------------------------------------------------------------------
(* The inductive invariant behind the safety properties: what the holder of
   HEAD_LOCK may rely on at each step. *)

\* The lock is held only by a running App; a candidate has a content of its
\* own, and its manifest once it is written.
HolderInv ==
  /\ pc # "idle" => app = "up"
  /\ pc \in Publishing =>
       /\ cand \in Generations \ {SeedGen} /\ content[cand] \in Contents
       /\ cand # seen /\ cand \notin rejected /\ seen \notin rejected
  /\ pc \in {"written", "proved"} => tree[cand] = "manifest"
  /\ pc \in {"made", "written", "proved"} =>
       /\ cand \notin InHead
       /\ seen # NoGen => seen \in Generations /\ tree[seen] = "manifest"
                                /\ content[seen] \in Contents
       /\ Loadable(head.current) => content[head.current] # content[cand]

\* Every generation of the head was written with a content, and the head names
\* nothing until its file exists.
HeadInv ==
  /\ HeadNeverDangles
  /\ \A g \in InHead : content[g] \in Contents
  /\ ~ head.exists => head = NoHead

\* The seed is copied only while there is no head.
SeedInv ==
  /\ app \in {"copying", "copied"} => ~ head.exists
  /\ app = "copied" => tree[SeedGen] = "manifest" /\ content[SeedGen] = SeedContent

\* A generation once found unreadable stays unreadable.
RejectedInv ==
  /\ rejected # {} => head.exists
  /\ \A g \in rejected : content[g] \in Contents /\ ~ Loadable(g)

\* While a sweep runs it spares the head and what was reported before it.
SweepInv ==
  pc = "sweeping" =>
    /\ InHead \subseteq protected
    /\ \A r \in Readers : r \in late \/ status[r] \in protected \cup {NoGen}

IInv == TypeOK /\ HolderInv /\ HeadInv /\ SeedInv /\ RejectedInv /\ SweepInv

\* What keeps the commit order: no generation is committed twice, the head
\* names the last one and an earlier one, and does not move under a publication.
OrderInv ==
  /\ \A i, j \in DOMAIN log : log[i] = log[j] => i = j
  /\ \A g \in Committed : content[g] \in Contents
  /\ ~ head.exists => log = <<>>
  /\ head.current = IF log = <<>> THEN NoGen ELSE log[Len(log)]
  /\ InHead \subseteq Committed
  /\ pc \in {"made", "written", "proved"} =>
       cand \notin Committed /\ seen \in InHead \cup {NoGen}

\* What a reader holds was committed, and the head it has read is not older
\* than the view it would replace.
ReaderInv ==
  \A r \in Readers :
    /\ {view[r].gen, rhead[r].current, rhead[r].previous}
         \subseteq Committed \cup {NoGen}
    /\ ~ view[r].degraded =>
         \A i, j \in DOMAIN log :
           log[i] = view[r].gen /\ log[j] = rhead[r].current => i <= j

\* One fault breaks one generation: a broken one has cost a fault, two have
\* cost two, and the head names two different ones.
Broken(g) == /\ damage[g] # "none"
             /\ tree[g] = "manifest" \/ (g = SeedGen /\ app = "copying")

FaultInv ==
  /\ \A g \in Generations : Broken(g) => faults >= 1
  /\ \A g, h \in Generations : Broken(g) /\ Broken(h) /\ g # h => faults >= 2
  /\ \A g \in Generations :
       tree[g] \in {"partial", "manifest"} \/ damage[g] # "none" =>
         content[g] \in Contents
  /\ pc = "made" => tree[cand] = "empty" /\ damage[cand] = "none"
  /\ head.previous # NoGen =>
       head.current # NoGen /\ head.current # head.previous

-----------------------------------------------------------------------------
(* The register a reader may rely on, see ReleaseRegister.                 *)

PositionIn(s, g) == CHOOSE i \in 0 .. Len(s) :
                      IF \E j \in DOMAIN s : s[j] = g
                      THEN i \in DOMAIN s /\ s[i] = g ELSE i = 0

Position(g) == PositionIn(log, g)

Register == INSTANCE ReleaseRegister WITH
  order    <- log,
  current  <- Position(head.current),
  fallback <- Position(head.previous),
  held     <- [r \in Readers |->
                [at |-> Position(view[r].gen), degraded |-> view[r].degraded]]

\* The store implements the register: commits switch current and previous in
\* one step, and undegraded views of one reader never go back in commit order.
ImplementsRegister == Register!Spec
=============================================================================
