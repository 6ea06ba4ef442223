--------------------------- MODULE ReleaseStoreProofs ---------------------------
(***************************************************************************)
(* Proofs about ReleaseStore, for every set of generations, Catalogs and   *)
(* readers and any number of faults.  IInv is inductive; the safety        *)
(* invariants follow from it and the action properties from it and the     *)
(* shape of the one step that can disturb each.                            *)
(***************************************************************************)
EXTENDS ReleaseStore, TLAPS

(* The two most recent of a reader's cached releases are releases. *)
LEMMA TouchedType ==
  ASSUME NEW s \in Seq(Generations), NEW g \in Generations
  PROVE  Touched(s, g) \in Seq(Generations)
<1>1. CASE s = <<>>
  BY <1>1 DEF Touched
<1>2. CASE s # <<>>
  <2>1. Len(s) \in 1 .. Len(s) BY <1>2
  <2>2. s[Len(s)] \in Generations BY <2>1
  <2>3. QED BY <1>2, <2>2 DEF Touched
<1>3. QED BY <1>1, <1>2

(* The commit order stays a sequence of generations. *)
LEMMA AppendType ==
  ASSUME NEW S, NEW s \in Seq(S), NEW x \in S PROVE Append(s, x) \in Seq(S)
OBVIOUS

(* The head a publication or a recognition move writes is a head. *)
LEMMA DisplacedType ==
  ASSUME TypeOK PROVE Displaced \in CatalogRef
BY DEF Displaced, TypeOK, HeadRecord, CatalogRef

LEMMA WithRecognitionType ==
  ASSUME TypeOK, NEW h \in HeadRecord, NEW c \in Catalogs
  PROVE  /\ WithRecognition(h, c) \in HeadRecord
         /\ WithRecognition(h, c).exists = h.exists
         /\ WithRecognition(h, c).current = h.current
         /\ WithRecognition(h, c).previous = h.previous
         /\ WithRecognition(h, c).recognition = c
<1>1. Displaced \in CatalogRef BY DisplacedType
<1>2. c \in CatalogRef BY DEF CatalogRef
<1>3. QED BY <1>1, <1>2 DEF WithRecognition, HeadRecord

LEMMA PublishedHeadType ==
  ASSUME TypeOK, HolderInv, pc = "proved"
  PROVE  /\ PublishedHead \in HeadRecord
         /\ PublishedHead.exists
         /\ PublishedHead.current = cand
         /\ PublishedHead.previous = seen
<1> DEFINE h == WithStatistics(head, cand, seen)
<1>1. /\ h \in HeadRecord /\ h.exists /\ h.current = cand /\ h.previous = seen
  BY DEF WithStatistics, TypeOK, HeadRecord
<1>2. CatalogOf[content[cand]] \in Catalogs
  BY StoreAssumption DEF HolderInv, Publishing
<1> HIDE DEF h
<1>3. PublishedHead = IF head.recognition = NoCatalog
                      THEN WithRecognition(h, CatalogOf[content[cand]]) ELSE h
  BY DEF PublishedHead, h
<1>4. QED BY <1>1, <1>2, <1>3, WithRecognitionType

(* A head that names a generation exists. *)
LEMMA NamingHeadExists ==
  ASSUME HeadInv, InHead # {} PROVE head.exists
BY DEF HeadInv, InHead, NoHead

-----------------------------------------------------------------------------
LEMMA InitIInv == Init => IInv
<1> USE StoreAssumption DEF Init, NoHead, NoView
<1>1. Init => TypeOK
  BY DEF TypeOK, HeadRecord, View, GenRef, CatalogRef, Trees, Damages,
         Publishing
<1>2. Init => HolderInv BY DEF HolderInv, Publishing
<1>3. Init => HeadInv BY DEF HeadInv, HeadNeverDangles, InHead
<1>4. Init => SeedInv BY DEF SeedInv
<1>5. Init => RejectedInv BY DEF RejectedInv
<1>6. Init => SweepInv BY DEF SweepInv
<1>7. QED BY <1>1, <1>2, <1>3, <1>4, <1>5, <1>6 DEF IInv

-----------------------------------------------------------------------------
(* One lemma per action: it preserves IInv.  <1>1 is the type, <1>2 what    *)
(* the lock holder relies on, <1>3 the head, <1>4 the seed, <1>5 rejected   *)
(* generations, <1>6 the sweep.                                             *)

LEMMA PublishBeginStep ==
  ASSUME IInv, NEW g \in Generations, NEW c \in Contents, PublishBegin(g, c)
  PROVE  IInv'
<1> USE StoreAssumption DEF IInv, PublishBegin, readers, Publishing
<1> USE DEF TypeOK, HeadRecord, GenRef, InHead, HeadInv, HeadNeverDangles
<1>1. TypeOK'
  BY DEF Served, Trees
<1>2. HolderInv'
  <2>1. g \notin InHead /\ g \notin rejected
    BY DEF RejectedInv
  <2>2. Served # g /\ (Served # NoGen => Loadable(Served))
    BY DEF Served, Loadable
  <2>3. Served \notin rejected'
    BY <2>2 DEF RejectedInv, Loadable
  <2>4. g \notin rejected'
    BY <2>1
  <2>5. Served # NoGen => /\ Served \in InHead /\ tree'[Served] = "manifest"
                          /\ content'[Served] \in Contents
    BY <2>2 DEF Served, Loadable
  <2>6. Loadable(head.current)' => content'[head.current] # content'[g]
    BY <2>1 DEF Loadable
  <2>7. QED
    BY <2>1, <2>2, <2>3, <2>4, <2>5, <2>6 DEF HolderInv, Loadable
<1>3. HeadInv'
  <2>1. \A x \in InHead : x \in Generations /\ x # g /\ tree[x] = "manifest"
                         /\ content[x] \in Contents
    OBVIOUS
  <2>2. \A x \in InHead : tree'[x] = "manifest" /\ content'[x] \in Contents
    BY <2>1
  <2>3. InHead' = InHead
    OBVIOUS
  <2>4. QED BY <2>2, <2>3
<1>4. SeedInv'
  BY DEF SeedInv
<1>5. RejectedInv'
  <2>1. \A x \in rejected' : x \in Generations /\ x # g /\ content[x] \in Contents
                             /\ ~ Loadable(x)
    BY DEF RejectedInv
  <2>2. \A x \in rejected' : content'[x] = content[x] /\ tree'[x] = tree[x]
    BY <2>1
  <2>3. rejected' # {} => rejected # {} \/ InHead # {}
    OBVIOUS
  <2>4. rejected' # {} => head.exists
    BY <2>3, NamingHeadExists DEF RejectedInv
  <2>5. QED BY <2>1, <2>2, <2>4 DEF RejectedInv, Loadable
<1>6. SweepInv'
  BY DEF SweepInv
<1>7. QED BY <1>1, <1>2, <1>3, <1>4, <1>5, <1>6

LEMMA PublishWriteStep ==
  ASSUME IInv, PublishWrite PROVE IInv'
<1> USE StoreAssumption DEF IInv, PublishWrite, readers, history, Publishing
<1> USE DEF TypeOK, HeadRecord, GenRef, InHead
<1>1. TypeOK'
  BY DEF HolderInv, Trees
<1>2. HolderInv'
  BY DEF HolderInv, Loadable
<1>3. HeadInv'
  <2>1. InHead' = InHead /\ \A x \in InHead : tree'[x] = "manifest"
    BY DEF HeadInv, HeadNeverDangles
  <2>2. QED BY <2>1 DEF HeadInv, HeadNeverDangles
<1>4. SeedInv'
  BY DEF HolderInv, SeedInv
<1>5. RejectedInv'
  BY DEF HolderInv, RejectedInv, Loadable
<1>6. SweepInv'
  BY DEF SweepInv
<1>7. QED BY <1>1, <1>2, <1>3, <1>4, <1>5, <1>6

LEMMA PublishProveStep ==
  ASSUME IInv, PublishProve PROVE IInv'
<1> USE DEF IInv, PublishProve, disk, readers, history, Publishing
<1>1. TypeOK'
  BY DEF TypeOK
<1>2. HolderInv'
  BY DEF HolderInv, Loadable, InHead
<1>3. HeadInv' /\ SeedInv' /\ RejectedInv' /\ SweepInv'
  BY DEF HeadInv, HeadNeverDangles, InHead, SeedInv, RejectedInv, Loadable,
         SweepInv
<1>4. QED BY <1>1, <1>2, <1>3

LEMMA PublishCommitStep ==
  ASSUME IInv, PublishCommit PROVE IInv'
<1> USE StoreAssumption DEF IInv, PublishCommit, readers, history, Publishing, Release
<1>0. /\ PublishedHead \in HeadRecord /\ PublishedHead.exists
      /\ PublishedHead.current = cand /\ PublishedHead.previous = seen
  BY PublishedHeadType
<1>1. TypeOK'
  <2>1. cand \in Generations
    BY DEF HolderInv
  <2>2. log' \in Seq(Generations)
    <3>1. Append(log, cand) \in Seq(Generations)
      BY <2>1, AppendType DEF TypeOK
    <3>2. QED BY <3>1 DEF TypeOK
  <2>3. /\ head' \in HeadRecord /\ cand' \in GenRef /\ seen' \in GenRef
        /\ pc' \in {"idle", "sweeping"} \cup Publishing
    BY <1>0 DEF TypeOK, GenRef
  <2>4. QED BY <2>2, <2>3 DEF TypeOK
<1>2. HolderInv'
  BY DEF HolderInv
<1>3. HeadInv'
  BY <1>0 DEF HeadInv, HeadNeverDangles, HolderInv, InHead
<1>4. SeedInv'
  BY DEF HolderInv, SeedInv
<1>5. RejectedInv'
  BY <1>0 DEF RejectedInv, Loadable
<1>6. SweepInv'
  BY DEF SweepInv
<1>7. QED BY <1>1, <1>2, <1>3, <1>4, <1>5, <1>6

LEMMA PublishUnwindStep ==
  ASSUME IInv, PublishUnwind PROVE IInv'
<1> USE StoreAssumption DEF IInv, PublishUnwind, readers, history, Publishing, Release
<1> USE DEF TypeOK, HeadRecord, GenRef, InHead
<1>1. TypeOK'
  BY DEF HolderInv, Trees
<1>2. HolderInv'
  BY DEF HolderInv
<1>3. HeadInv'
  <2>1. InHead' = InHead
    OBVIOUS
  <2>2. \A x \in InHead : tree'[x] = "manifest"
    BY DEF HeadInv, HeadNeverDangles
  <2>3. QED BY <2>1, <2>2 DEF HeadInv, HeadNeverDangles
<1>4. SeedInv'
  BY DEF HolderInv, SeedInv
<1>5. RejectedInv'
  BY DEF HolderInv, RejectedInv, Loadable
<1>6. SweepInv'
  BY DEF SweepInv
<1>7. QED BY <1>1, <1>2, <1>3, <1>4, <1>5, <1>6

LEMMA MoveRecognitionStep ==
  ASSUME IInv, NEW c \in Catalogs, MoveRecognition(c) PROVE IInv'
<1> USE DEF IInv, MoveRecognition, lock, readers, history, Publishing
<1>0. /\ head' \in HeadRecord /\ head'.exists
      /\ head'.current = head.current /\ head'.previous = head.previous
  <2>1. WithRecognition(head, c) \in HeadRecord
    BY WithRecognitionType DEF TypeOK
  <2>2. /\ WithRecognition(head, c).current = head.current
        /\ WithRecognition(head, c).previous = head.previous
    BY WithRecognitionType DEF TypeOK
  <2>3. QED BY <2>1, <2>2 DEF HeadRecord
<1>1. TypeOK'
  BY <1>0 DEF TypeOK
<1>2. HolderInv'
  BY DEF HolderInv
<1>3. HeadInv'
  BY <1>0 DEF HeadInv, HeadNeverDangles, InHead
<1>4. SeedInv'
  BY DEF SeedInv
<1>5. RejectedInv'
  BY <1>0 DEF RejectedInv, Loadable
<1>6. SweepInv'
  BY DEF SweepInv
<1>7. QED BY <1>1, <1>2, <1>3, <1>4, <1>5, <1>6

LEMMA SweepBeginStep ==
  ASSUME IInv, SweepBegin PROVE IInv'
<1> USE DEF IInv, SweepBegin, disk, readers, Publishing
<1>0. InHead \subseteq Generations /\ Reported \subseteq Generations
  BY DEF TypeOK, InHead, Reported, HeadRecord, GenRef
<1>1. TypeOK'
  BY <1>0 DEF TypeOK
<1>2. HolderInv'
  BY DEF HolderInv
<1>3. HeadInv' /\ SeedInv' /\ RejectedInv'
  BY DEF HeadInv, HeadNeverDangles, InHead, SeedInv, RejectedInv, Loadable
<1>4. SweepInv'
  BY DEF SweepInv, InHead, Reported
<1>5. QED BY <1>1, <1>2, <1>3, <1>4

LEMMA SweepRemoveStep ==
  ASSUME IInv, NEW g \in Generations, SweepRemove(g) PROVE IInv'
<1> USE DEF IInv, SweepRemove, lock, readers, history, Publishing
<1>0. /\ InHead' = InHead
      /\ \A x \in Generations : x # g => tree'[x] = tree[x]
      /\ g \notin InHead
  BY DEF TypeOK, InHead, SweepInv
<1>1. TypeOK'
  BY DEF TypeOK, Trees
<1>2. HolderInv'
  BY DEF HolderInv
<1>3. HeadInv'
  <2>1. \A x \in InHead : x \in Generations /\ x # g
    BY <1>0 DEF TypeOK, InHead, HeadRecord, GenRef
  <2>2. QED BY <1>0, <2>1 DEF HeadInv, HeadNeverDangles
<1>4. SeedInv'
  BY DEF HolderInv, SeedInv
<1>5. RejectedInv'
  BY DEF TypeOK, RejectedInv, Loadable
<1>6. SweepInv'
  BY <1>0 DEF SweepInv
<1>7. QED BY <1>1, <1>2, <1>3, <1>4, <1>5, <1>6

(* Steps that leave every generation alone and give up or take over the App:
   the end of a sweep, a start with a head, a start of the copy, a crash. *)
LEMMA SweepEndStep ==
  ASSUME IInv, SweepEnd PROVE IInv'
BY DEF IInv, SweepEnd, disk, readers, history, Publishing, TypeOK, HolderInv,
       HeadInv, HeadNeverDangles, InHead, SeedInv, RejectedInv, Loadable, SweepInv

LEMMA BootInstalledStep ==
  ASSUME IInv, BootInstalled PROVE IInv'
BY DEF IInv, BootInstalled, disk, readers, history, Publishing, TypeOK,
       HolderInv, HeadInv, HeadNeverDangles, InHead, SeedInv, RejectedInv,
       Loadable, SweepInv

(* What replaces a broken recognition reference verifies. *)
LEMMA RecoveredType ==
  ASSUME IInv, BootPackaged PROVE Recovered \in Catalogs /\ Recovered \in sound
<1>1. Loadable(Served)
  BY DEF BootPackaged, Served
<1>2. QED BY <1>1 DEF Recovered, Loadable, IInv, TypeOK

LEMMA BootPackagedStep ==
  ASSUME IInv, BootPackaged
  PROVE  /\ IInv'
         /\ head'.current = head.current
         /\ head'.recognition \in sound
<1> USE DEF IInv, BootPackaged, readers, history, Publishing
<1>0. /\ head' \in HeadRecord /\ head'.exists
      /\ head'.current = head.current /\ head'.previous = head.previous
      /\ head'.recognition \in sound
  BY RecoveredType, WithRecognitionType DEF TypeOK
<1>1. TypeOK'
  BY <1>0 DEF TypeOK
<1>2. HolderInv'
  BY DEF HolderInv
<1>3. HeadInv'
  BY <1>0 DEF HeadInv, HeadNeverDangles, InHead
<1>4. SeedInv'
  BY DEF SeedInv
<1>5. RejectedInv'
  BY <1>0 DEF RejectedInv, Loadable
<1>6. SweepInv'
  BY DEF HolderInv, SweepInv
<1>7. QED BY <1>0, <1>1, <1>2, <1>3, <1>4, <1>5, <1>6

LEMMA BootSeedStep ==
  ASSUME IInv, BootSeed PROVE IInv'
BY DEF IInv, BootSeed, disk, readers, history, Publishing, TypeOK, HolderInv,
       HeadInv, HeadNeverDangles, InHead, SeedInv, RejectedInv, Loadable, SweepInv

LEMMA CrashStep ==
  ASSUME IInv, Crash PROVE IInv'
BY DEF IInv, Crash, Release, disk, readers, history, Publishing, TypeOK, GenRef,
       HolderInv, HeadInv, HeadNeverDangles, InHead, SeedInv, RejectedInv,
       Loadable, SweepInv

LEMMA SeedCopiedStep ==
  ASSUME IInv, SeedCopied PROVE IInv'
<1> USE StoreAssumption DEF IInv, SeedCopied, readers, history, Publishing
<1>1. TypeOK'
  BY DEF TypeOK, Trees
<1>2. HolderInv'
  BY DEF HolderInv
<1>3. HeadInv'
  BY DEF SeedInv, HeadInv, HeadNeverDangles, InHead
<1>4. SeedInv'
  BY DEF SeedInv, TypeOK
<1>5. RejectedInv'
  BY DEF SeedInv, RejectedInv
<1>6. SweepInv'
  BY DEF HolderInv, SweepInv
<1>7. QED BY <1>1, <1>2, <1>3, <1>4, <1>5, <1>6

LEMMA SeedCopyStoppedStep ==
  ASSUME IInv, SeedCopyStopped PROVE IInv'
<1> USE StoreAssumption DEF IInv, SeedCopyStopped, Uninstalled, readers, history, Publishing
<1>1. TypeOK'
  <2>1. /\ tree' \in [Generations -> Trees]
        /\ damage' \in [Generations -> Damages]
        /\ content' \in [Generations -> Contents \cup {NoContent}]
    BY DEF TypeOK, Trees
  <2>2. app' \in {"down", "copying", "copied", "up"}
    OBVIOUS
  <2>3. QED BY <2>1, <2>2 DEF TypeOK
<1>2. HolderInv'
  BY DEF HolderInv
<1>3. HeadInv'
  <2>1. InHead = {} /\ head' = head
    BY NamingHeadExists DEF SeedInv
  <2>2. QED BY <2>1 DEF HeadInv, HeadNeverDangles, InHead
<1>4. SeedInv'
  BY DEF SeedInv
<1>5. RejectedInv'
  BY DEF SeedInv, RejectedInv
<1>6. SweepInv'
  BY DEF HolderInv, SweepInv
<1>7. QED BY <1>1, <1>2, <1>3, <1>4, <1>5, <1>6

LEMMA SeedCommitStep ==
  ASSUME IInv, SeedCommit PROVE IInv'
<1> USE StoreAssumption DEF IInv, SeedCommit, Uninstalled, readers, history, Publishing
<1>0. \/ head' = head /\ log' = log
      \/ /\ head' \in HeadRecord /\ head'.exists
         /\ head'.current = SeedGen /\ head'.previous = NoGen
         /\ log' = Append(log, SeedGen)
  <2>1. CASE Loadable(SeedGen)
    <3>1. PICK c \in sound, p \in sound \cup {NoCatalog} :
            head' = [WithStatistics(NoHead, SeedGen, NoGen)
                     EXCEPT !.recognition = c, !.previousRecognition = p]
      BY <2>1
    <3>2. c \in CatalogRef /\ p \in CatalogRef
      BY DEF TypeOK, CatalogRef
    <3>3. QED BY <2>1, <3>1, <3>2 DEF WithStatistics, NoHead, HeadRecord, GenRef
  <2>2. QED BY <2>1
<1>1. TypeOK'
  <2>1. head' \in HeadRecord /\ log' \in Seq(Generations)
    <3>1. Append(log, SeedGen) \in Seq(Generations)
      BY AppendType DEF TypeOK
    <3>2. QED BY <1>0, <3>1 DEF TypeOK
  <2>2. QED BY <2>1 DEF TypeOK
<1>2. HolderInv'
  BY DEF HolderInv
<1>3. HeadInv'
  BY <1>0 DEF SeedInv, HeadInv, HeadNeverDangles, InHead
<1>4. SeedInv'
  BY DEF SeedInv
<1>5. RejectedInv'
  BY DEF SeedInv, RejectedInv
<1>6. SweepInv'
  BY DEF HolderInv, SweepInv
<1>7. QED BY <1>1, <1>2, <1>3, <1>4, <1>5, <1>6

(* Damage and age leave the head, the directories and the lock alone, and a
   damaged file never verifies again. *)
LEMMA DiskStep ==
  ASSUME IInv, Disk PROVE IInv'
<1> USE DEF IInv, Disk, Damage, DamageCatalog, Age, lock, readers, history,
        Publishing, disk
<1>1. TypeOK'
  <2>1. faults' \in Nat /\ sound' \subseteq Catalogs /\ aged' \subseteq Generations
    BY DEF TypeOK
  <2>2. damage' \in [Generations -> Damages]
    BY DEF TypeOK
  <2>3. QED BY <2>1, <2>2 DEF TypeOK
<1>2. \A g \in Generations : Loadable(g)' => Loadable(g)
  BY DEF Loadable, TypeOK
<1>3. head' = head /\ tree' = tree /\ content' = content
  OBVIOUS
<1>4. HolderInv'
  BY <1>2, <1>3 DEF HolderInv, InHead, Loadable
<1>5. HeadInv' /\ SeedInv' /\ SweepInv'
  BY <1>3 DEF HeadInv, HeadNeverDangles, InHead, SeedInv, SweepInv
<1>6. RejectedInv'
  BY <1>2, <1>3 DEF RejectedInv, TypeOK
<1>7. QED BY <1>1, <1>4, <1>5, <1>6

(* A reader touches nothing but its own memory and its state file. *)
LEMMA ReaderFrame ==
  ASSUME IInv, UNCHANGED <<disk, lock, history, status>>
  PROVE  HolderInv' /\ HeadInv' /\ SeedInv' /\ RejectedInv' /\ SweepInv'
BY DEF IInv, disk, lock, history, HolderInv, HeadInv, HeadNeverDangles, InHead,
       SeedInv, RejectedInv, Loadable, SweepInv

LEMMA ReaderStep ==
  ASSUME IInv, NEW r \in Readers, Reader(r) PROVE IInv'
<1>1. CASE ReadHead(r)
  <2>1. TypeOK'
    BY <1>1 DEF IInv, TypeOK, ReadHead, disk, lock, history
  <2>2. QED BY <1>1, <2>1, ReaderFrame DEF IInv, ReadHead
<1>2. ASSUME NEW g \in Generations, NEW d \in BOOLEAN, Adopt(r, g, d)
      PROVE  view' \in [Readers -> View] /\ cache' \in [Readers -> Seq(Generations)]
  <2>1. Touched(cache[r], g) \in Seq(Generations)
    BY TouchedType DEF IInv, TypeOK
  <2>2. [gen |-> g, degraded |-> d] \in View
    BY DEF View, GenRef
  <2>3. QED BY <1>2, <2>1, <2>2 DEF Adopt, IInv, TypeOK
<1>3. NoHead \in HeadRecord
  BY DEF NoHead, HeadRecord, GenRef, CatalogRef
<1>4. CASE ResolveCurrent(r)
  <2>1. view' \in [Readers -> View] /\ cache' \in [Readers -> Seq(Generations)]
    <3>1. CASE Resolves(r, rhead[r].current)
      BY <1>2, <1>4, <3>1 DEF ResolveCurrent, Resolves
    <3>2. CASE ~ Resolves(r, rhead[r].current)
      BY <1>4, <3>2 DEF ResolveCurrent, IInv, TypeOK
    <3>3. QED BY <3>1, <3>2
  <2>2. rhead' \in [Readers -> HeadRecord]
    <3>1. [rhead[r] EXCEPT !.current = NoGen] \in HeadRecord
      BY DEF IInv, TypeOK, HeadRecord, GenRef
    <3>2. QED BY <1>3, <1>4, <3>1 DEF ResolveCurrent, IInv, TypeOK
  <2>3. TypeOK'
    BY <1>4, <2>1, <2>2 DEF IInv, TypeOK, ResolveCurrent, disk, lock, history
  <2>4. QED BY <1>4, <2>3, ReaderFrame DEF IInv, ResolveCurrent
<1>5. CASE ResolvePrevious(r)
  <2>1. view' \in [Readers -> View] /\ cache' \in [Readers -> Seq(Generations)]
    <3>1. CASE Resolves(r, rhead[r].previous)
      BY <1>2, <1>5, <3>1 DEF ResolvePrevious, Resolves
    <3>2. CASE ~ Resolves(r, rhead[r].previous)
      BY <1>5, <3>2 DEF ResolvePrevious, IInv, TypeOK
    <3>3. QED BY <3>1, <3>2
  <2>2. rhead' \in [Readers -> HeadRecord]
    BY <1>3, <1>5 DEF ResolvePrevious, IInv, TypeOK
  <2>3. TypeOK'
    BY <1>5, <2>1, <2>2 DEF IInv, TypeOK, ResolvePrevious, disk, lock, history
  <2>4. QED BY <1>5, <2>3, ReaderFrame DEF IInv, ResolvePrevious
<1>6. CASE ReaderRestart(r)
  <2>1. NoView \in View /\ <<>> \in Seq(Generations)
    BY DEF NoView, View, GenRef
  <2>2. TypeOK'
    BY <1>3, <1>6, <2>1 DEF IInv, TypeOK, ReaderRestart, disk, lock, history
  <2>3. QED BY <1>6, <2>2, ReaderFrame DEF IInv, ReaderRestart
<1>7. CASE Report(r)
  <2>1. TypeOK'
    BY <1>7 DEF IInv, TypeOK, View, Report, disk, lock
  <2>2. HolderInv' /\ HeadInv' /\ SeedInv' /\ RejectedInv'
    BY <1>7 DEF IInv, Report, disk, lock, HolderInv, HeadInv, HeadNeverDangles,
                InHead, SeedInv, RejectedInv, Loadable
  <2>3. SweepInv'
    BY <1>7 DEF IInv, TypeOK, Report, disk, lock, SweepInv, InHead
  <2>4. QED BY <2>1, <2>2, <2>3 DEF IInv
<1>8. QED
  BY <1>1, <1>4, <1>5, <1>6, <1>7 DEF Reader

(* A step that changes nothing. *)
LEMMA StutterStep ==
  ASSUME IInv, UNCHANGED vars PROVE IInv'
<1>1. TypeOK'
  BY DEF vars, disk, lock, readers, history, IInv, TypeOK
<1>2. QED
  BY <1>1, ReaderFrame DEF vars, readers, IInv

(* IInv is inductive. *)
LEMMA NextIInv == IInv /\ [Next]_vars => IInv'
<1> SUFFICES ASSUME IInv, [Next]_vars PROVE IInv'
  OBVIOUS
<1>1. CASE Publish
  BY <1>1, PublishBeginStep, PublishWriteStep, PublishProveStep,
     PublishCommitStep, PublishUnwindStep DEF Publish
<1>2. CASE Sweep
  BY <1>2, SweepBeginStep, SweepRemoveStep, SweepEndStep DEF Sweep
<1>3. CASE Boot
  BY <1>3, BootInstalledStep, BootPackagedStep, StutterStep, BootSeedStep,
     SeedCopiedStep, SeedCopyStoppedStep, SeedCommitStep DEF Boot, BootFails
<1>4. CASE Crash
  BY <1>4, CrashStep
<1>5. CASE Disk
  BY <1>5, DiskStep
<1>6. CASE \E c \in Catalogs : MoveRecognition(c)
  BY <1>6, MoveRecognitionStep
<1>7. CASE \E r \in Readers : Reader(r)
  BY <1>7, ReaderStep
<1>8. CASE UNCHANGED vars
  BY <1>8, StutterStep
<1>9. QED
  BY <1>1, <1>2, <1>3, <1>4, <1>5, <1>6, <1>7, <1>8 DEF Next

(* The inductive invariant holds in every reachable state. *)
THEOREM InductiveInvariant == Spec => []IInv
BY InitIInv, NextIInv, PTL DEF Spec

(* Every variable keeps its type. *)
THEOREM TypeCorrect == Spec => []TypeOK
<1>1. IInv => TypeOK BY DEF IInv
<1>2. QED BY <1>1, InductiveInvariant, PTL

(* Whatever fails, crashes or is swept, the head names only generations whose
   manifest is on disk. *)
THEOREM HeadIsSafe == Spec => []HeadNeverDangles
<1>1. IInv => HeadNeverDangles BY DEF IInv, HeadInv
<1>2. QED BY <1>1, InductiveInvariant, PTL

-----------------------------------------------------------------------------
(* Action properties: the one step that can disturb each, under IInv.       *)

(* Only a publication's commit and the seed's move the current generation. *)
LEMMA CurrentMoves ==
  ASSUME IInv, [Next]_vars, head'.current # head.current
  PROVE  \/ PublishCommit /\ head' = PublishedHead
         \/ /\ SeedCommit /\ InHead = {} /\ rejected = {}
            /\ {head'.current, head'.previous} = {SeedGen, NoGen}
<1>1. CASE PublishCommit
  BY <1>1 DEF PublishCommit
<1>2. CASE SeedCommit
  <2>1. ~ head.exists /\ InHead = {} /\ rejected = {}
    BY <1>2, NamingHeadExists DEF SeedCommit, IInv, SeedInv, RejectedInv
  <2>2. CASE Loadable(SeedGen)
    <3>1. PICK c \in sound, p \in sound \cup {NoCatalog} :
            head' = [WithStatistics(NoHead, SeedGen, NoGen)
                     EXCEPT !.recognition = c, !.previousRecognition = p]
      BY <1>2, <2>2 DEF SeedCommit
    <3>2. head'.current = SeedGen /\ head'.previous = NoGen
      BY <3>1 DEF WithStatistics, NoHead
    <3>3. QED BY <1>2, <2>1, <3>2
  <2>3. QED BY <1>2, <2>2 DEF SeedCommit
<1>3. ASSUME NEW c \in Catalogs, MoveRecognition(c) PROVE FALSE
  <2>1. WithRecognition(head, c).current = head.current
    BY WithRecognitionType DEF IInv, TypeOK
  <2>2. WithRecognition(head, c) \in HeadRecord
    BY WithRecognitionType DEF IInv, TypeOK
  <2>3. head'.current = head.current
    BY <1>3, <2>1, <2>2 DEF MoveRecognition, HeadRecord
  <2>4. QED BY <2>3
<1>4. CASE BootPackaged
  BY <1>4, BootPackagedStep
<1>5. QED
  BY <1>1, <1>2, <1>3, <1>4
     DEF Next, Publish, Sweep, Boot, Disk, Reader, PublishBegin, PublishWrite,
         PublishProve, PublishUnwind, SweepBegin, SweepRemove, SweepEnd,
         BootInstalled, BootFails, BootSeed, SeedCopied, SeedCopyStopped, Crash, Damage,
         DamageCatalog, Age, ReadHead, ResolveCurrent, ResolvePrevious, Report,
         ReaderRestart, vars, disk

(* A sweep spares the head and whatever was reported when it began. *)
THEOREM SweepSparesReferencesTheorem == Spec => SweepSparesReferences
<1> DEFINE Spared == \A g \in Generations : tree[g] # tree'[g] =>
                       /\ g \notin InHead
                       /\ \A r \in Readers : status[r] = g => r \in late
<1>1. IInv /\ [Next]_vars => [pc = "sweeping" => Spared]_vars
  <2> SUFFICES ASSUME IInv, [Next]_vars, pc = "sweeping" PROVE Spared
    OBVIOUS
  <2>1. ASSUME NEW g \in Generations, SweepRemove(g) PROVE Spared
    <3>1. g \notin protected /\ (\A x \in Generations : x # g => tree'[x] = tree[x])
      BY <2>1 DEF SweepRemove, IInv, TypeOK
    <3>2. QED
      BY <3>1, StoreAssumption DEF IInv, SweepInv
  <2>2. app = "up"
    BY DEF IInv, HolderInv
  <2>3. CASE tree' = tree
    BY <2>3
  <2>4. QED
    BY <2>1, <2>2, <2>3
       DEF Next, Publish, Sweep, Boot, Disk, Reader, PublishBegin, PublishWrite,
           PublishProve, PublishCommit, PublishUnwind, SweepBegin, SweepEnd,
           BootInstalled, BootPackaged, BootFails, BootSeed, SeedCopied,
           SeedCopyStopped, SeedCommit, Crash, Damage, DamageCatalog, Age, MoveRecognition, ReadHead,
           ResolveCurrent, ResolvePrevious, Report, ReaderRestart, vars, disk,
           Publishing
<1>2. QED BY <1>1, InductiveInvariant, PTL DEF Spec, SweepSparesReferences

(* A packaged App comes up only with a recognition reference that verifies. *)
THEOREM StartRecognisesTheorem == Spec => StartRecognises
<1>1. IInv /\ [Next]_vars =>
        [Packaged /\ app # "up" /\ app' = "up" => head'.recognition \in sound]_vars
  <2> SUFFICES ASSUME IInv, [Next]_vars, Packaged, app # "up", app' = "up"
               PROVE  head'.recognition \in sound
    OBVIOUS
  <2>1. CASE BootPackaged
    BY <2>1, BootPackagedStep
  <2>2. CASE SeedCommit
    <3>1. PICK c \in sound, p \in sound \cup {NoCatalog} :
            head' = [WithStatistics(NoHead, SeedGen, NoGen)
                     EXCEPT !.recognition = c, !.previousRecognition = p]
      BY <2>2 DEF SeedCommit, Uninstalled
    <3>2. QED BY <3>1 DEF WithStatistics, NoHead
  <2>3. QED
    BY <2>1, <2>2
       DEF Next, Publish, Sweep, Boot, Disk, Reader, PublishBegin, PublishWrite,
           PublishProve, PublishCommit, PublishUnwind, SweepBegin, SweepRemove,
           SweepEnd, BootInstalled, BootFails, BootSeed, SeedCopied,
           SeedCopyStopped, Uninstalled, Crash, Damage, DamageCatalog, Age,
           MoveRecognition, ReadHead, ResolveCurrent, ResolvePrevious, Report,
           ReaderRestart, vars, disk, lock, readers, history, Publishing
<1>2. QED BY <1>1, InductiveInvariant, PTL DEF Spec, StartRecognises

(* What becomes of the recognition references when a Catalog is put in charge. *)
LEMMA WithRecognitionFallback ==
  ASSUME TypeOK, NEW h \in HeadRecord, NEW c \in Catalogs, c # h.recognition
  PROVE  WithRecognition(h, c).previousRecognition = Displaced
<1>1. Displaced \in CatalogRef BY DisplacedType
<1>2. QED BY <1>1 DEF WithRecognition, HeadRecord

(* The four steps that write the head. *)
LEMMA HeadMoves ==
  ASSUME IInv, [Next]_vars, head' # head
  PROVE  \/ PublishCommit /\ head' = PublishedHead
         \/ \E c \in Catalogs : MoveRecognition(c)
         \/ BootPackaged
         \/ SeedCommit /\ head = NoHead
<1>1. CASE PublishCommit
  BY <1>1 DEF PublishCommit
<1>2. CASE SeedCommit
  BY <1>2 DEF SeedCommit, IInv, SeedInv, HeadInv
<1>3. QED
  BY <1>1, <1>2
     DEF Next, Publish, Sweep, Boot, Disk, Reader, PublishBegin, PublishWrite,
         PublishProve, PublishUnwind, SweepBegin, SweepRemove, SweepEnd,
         BootInstalled, BootFails, BootSeed, SeedCopied, SeedCopyStopped, Crash, Damage,
         DamageCatalog, Age, ReadHead, ResolveCurrent, ResolvePrevious, Report,
         ReaderRestart, vars, disk

(* Statistics and recognition references never move in one step. *)
THEOREM RolesMoveIndependentlyTheorem == Spec => RolesMoveIndependently
<1> DEFINE Apart == \/ /\ head'.recognition = head.recognition
                       /\ head'.previousRecognition = head.previousRecognition
                    \/ /\ head'.current = head.current
                       /\ head'.previous = head.previous
<1>1. IInv /\ [Next]_vars =>
        [head.recognition # NoCatalog /\ head' # head => Apart]_vars
  <2> SUFFICES ASSUME IInv, [Next]_vars, head.recognition # NoCatalog, head' # head
               PROVE  Apart
    OBVIOUS
  <2>1. CASE PublishCommit /\ head' = PublishedHead
    <3>1. head' = WithStatistics(head, cand, seen)
      BY <2>1 DEF PublishedHead
    <3>2. QED BY <3>1 DEF WithStatistics, IInv, TypeOK, HeadRecord
  <2>2. ASSUME NEW c \in Catalogs, MoveRecognition(c) PROVE Apart
    <3>1. WithRecognition(head, c) \in HeadRecord
      BY WithRecognitionType DEF IInv, TypeOK
    <3>2. /\ WithRecognition(head, c).current = head.current
          /\ WithRecognition(head, c).previous = head.previous
      BY WithRecognitionType DEF IInv, TypeOK
    <3>3. QED BY <2>2, <3>1, <3>2 DEF MoveRecognition, HeadRecord
  <2>3. CASE BootPackaged
    BY <2>3, RecoveredType, WithRecognitionType DEF BootPackaged, IInv, TypeOK
  <2>4. CASE head = NoHead
    BY <2>4 DEF NoHead
  <2>5. QED BY <2>1, <2>2, <2>3, <2>4, HeadMoves
<1>2. QED BY <1>1, InductiveInvariant, PTL DEF Spec, RolesMoveIndependently

(* A recognition reference that still verifies stays as the fallback. *)
THEOREM RecognitionKeepsFallbackTheorem == Spec => RecognitionKeepsFallback
<1>1. IInv /\ [Next]_vars =>
        [head'.recognition # head.recognition
           /\ {head.recognition, head.previousRecognition} \cap sound # {} =>
             head'.previousRecognition \in sound]_vars
  <2> SUFFICES ASSUME IInv, [Next]_vars, head'.recognition # head.recognition,
                      {head.recognition, head.previousRecognition} \cap sound # {}
               PROVE  head'.previousRecognition \in sound
    OBVIOUS
  <2>0. TypeOK /\ head \in HeadRecord /\ Displaced \in sound
    BY DEF IInv, TypeOK, Displaced
  <2>1. CASE PublishCommit /\ head' = PublishedHead
    <3> DEFINE h == WithStatistics(head, cand, seen)
               k == CatalogOf[content[cand]]
    <3>1. h \in HeadRecord /\ h.recognition = head.recognition
      BY <2>0, <2>1 DEF WithStatistics, TypeOK, HeadRecord
    <3>2. k \in Catalogs
      BY <2>1, StoreAssumption DEF IInv, HolderInv, PublishCommit, Publishing
    <3> HIDE DEF h, k
    <3>3. head' = IF head.recognition = NoCatalog THEN WithRecognition(h, k) ELSE h
      BY <2>1 DEF PublishedHead, h, k
    <3>4. head' = WithRecognition(h, k) /\ k # h.recognition
      BY <3>1, <3>2, <3>3, StoreAssumption
    <3>5. QED BY <2>0, <3>1, <3>2, <3>4, WithRecognitionFallback
  <2>2. ASSUME NEW c \in Catalogs, MoveRecognition(c)
        PROVE  head'.previousRecognition \in sound
    <3>1. WithRecognition(head, c) \in HeadRecord
      BY <2>0, WithRecognitionType
    <3>2. WithRecognition(head, c).previousRecognition = Displaced
      BY <2>0, <2>2, WithRecognitionFallback DEF MoveRecognition
    <3>3. QED BY <2>0, <2>2, <3>1, <3>2 DEF MoveRecognition, HeadRecord
  <2>3. CASE BootPackaged
    <3>1. Recovered \in Catalogs /\ Recovered \in sound
      BY <2>3, RecoveredType
    <3>2. head' = WithRecognition(head, Recovered) /\ Recovered # head.recognition
      BY <2>3, <3>1 DEF BootPackaged
    <3>3. QED BY <2>0, <3>1, <3>2, WithRecognitionFallback
  <2>4. CASE head = NoHead
    BY <2>4, StoreAssumption DEF NoHead, IInv, TypeOK
  <2>5. QED BY <2>1, <2>2, <2>3, <2>4, HeadMoves
<1>2. QED BY <1>1, InductiveInvariant, PTL DEF Spec, RecognitionKeepsFallback
-----------------------------------------------------------------------------
(* The refinement of ReleaseRegister.                                       *)

(* A generation that occurs once in a sequence is found at its place, and one
   that does not occur has position 0. *)
LEMMA PositionFound ==
  ASSUME NEW S, NEW s \in Seq(S), NEW i \in DOMAIN s,
         \A j, k \in DOMAIN s : s[j] = s[k] => j = k
  PROVE  PositionIn(s, s[i]) = i
<1> DEFINE P(j) == j \in DOMAIN s /\ s[j] = s[i]
<1>1. i \in 0 .. Len(s) /\ P(i) /\ \A j \in 0 .. Len(s) : P(j) => j = i
  OBVIOUS
<1>2. PositionIn(s, s[i]) = CHOOSE j \in 0 .. Len(s) : P(j)
  BY DEF PositionIn
<1> HIDE DEF P
<1>3. QED BY <1>1, <1>2

LEMMA PositionMissing ==
  ASSUME NEW S, NEW s \in Seq(S), NEW g, \A j \in DOMAIN s : s[j] # g
  PROVE  PositionIn(s, g) = 0
<1>1. PositionIn(s, g) = CHOOSE j \in 0 .. Len(s) : j = 0
  BY DEF PositionIn
<1>2. 0 \in 0 .. Len(s)
  OBVIOUS
<1>3. QED BY <1>1, <1>2

(* A commit puts the new generation last and moves no other. *)
LEMMA PositionAppend ==
  ASSUME NEW S, NEW s \in Seq(S), NEW x \in S, \A j \in DOMAIN s : s[j] # x,
         \A j, k \in DOMAIN s : s[j] = s[k] => j = k
  PROVE  /\ \A j, k \in DOMAIN Append(s, x) :
              Append(s, x)[j] = Append(s, x)[k] => j = k
         /\ PositionIn(Append(s, x), x) = Len(Append(s, x))
         /\ \A g : g # x => PositionIn(Append(s, x), g) = PositionIn(s, g)
<1> DEFINE t == Append(s, x)
<1>1. /\ t \in Seq(S) /\ Len(t) = Len(s) + 1 /\ Len(s) \in Nat
      /\ t[Len(t)] = x /\ DOMAIN t = 1 .. Len(t) /\ DOMAIN s = 1 .. Len(s)
      /\ \A j \in DOMAIN s : t[j] = s[j]
  OBVIOUS
<1> HIDE DEF t
<1>2. \A j, k \in DOMAIN t : t[j] = t[k] => j = k
  BY <1>1
<1>3. PositionIn(t, x) = Len(t)
  <2>1. Len(t) \in DOMAIN t BY <1>1
  <2>2. QED BY <1>1, <1>2, <2>1, PositionFound
<1>4. ASSUME NEW g, g # x PROVE PositionIn(t, g) = PositionIn(s, g)
  <2>1. CASE \E j \in DOMAIN s : s[j] = g
    <3>1. PICK j \in DOMAIN s : s[j] = g BY <2>1
    <3>2. j \in DOMAIN t /\ t[j] = g BY <1>1, <3>1
    <3>3. PositionIn(s, g) = j BY <3>1, PositionFound
    <3>4. PositionIn(t, g) = j BY <1>1, <1>2, <3>2, PositionFound
    <3>5. QED BY <3>3, <3>4
  <2>2. CASE \A j \in DOMAIN s : s[j] # g
    <3>1. \A j \in DOMAIN t : t[j] # g BY <1>1, <1>4, <2>2
    <3>2. PositionIn(t, g) = 0 BY <1>1, <3>1, PositionMissing
    <3>3. PositionIn(s, g) = 0 BY <2>2, PositionMissing
    <3>4. QED BY <3>2, <3>3
  <2>3. QED BY <2>1, <2>2
<1>5. QED BY <1>2, <1>3, <1>4 DEF t

LEMMA InitRefineInv == Init => OrderInv /\ ReaderInv
BY DEF Init, OrderInv, ReaderInv, Committed, InHead, NoHead, NoView

(* Steps that commit nothing and keep the pair of the head. *)
LEMMA OrderKept ==
  ASSUME TypeOK, OrderInv, log' = log, head.exists => head'.exists,
         head'.current = head.current, head'.previous = head.previous,
         \A g \in Generations : content[g] \in Contents => content'[g] \in Contents,
         pc' \in {"made", "written", "proved"} =>
           pc \in {"made", "written", "proved"} /\ cand' = cand /\ seen' = seen
  PROVE  OrderInv'
<1>1. InHead' = InHead /\ Committed' = Committed
  BY DEF InHead, Committed
<1>2. Committed \subseteq Generations
  BY DEF Committed, TypeOK
<1>3. QED BY <1>1, <1>2 DEF OrderInv

(* The commit of a generation that is not in the order yet. *)
LEMMA OrderCommit ==
  ASSUME TypeOK, OrderInv, NEW g \in Generations, g \notin Committed,
         content'[g] \in Contents, content' = content,
         log' = Append(log, g), head'.exists, head'.current = g,
         head'.previous \in InHead \cup {NoGen},
         pc' \notin {"made", "written", "proved"}
  PROVE  OrderInv'
<1>1. /\ log' \in Seq(Generations) /\ Len(log') = Len(log) + 1
      /\ log'[Len(log')] = g /\ log' # <<>>
      /\ Committed' = Committed \cup {g}
  <2>1. /\ DOMAIN log' = DOMAIN log \cup {Len(log) + 1}
        /\ log'[Len(log) + 1] = g /\ Len(log') = Len(log) + 1
        /\ \A i \in DOMAIN log : log'[i] = log[i]
    BY DEF TypeOK
  <2>2. Committed' = Committed \cup {g}
    BY <2>1 DEF Committed
  <2>3. log' \in Seq(Generations)
    BY AppendType DEF TypeOK
  <2>4. QED BY <2>1, <2>2, <2>3 DEF TypeOK
<1>2. \A i, j \in DOMAIN log' : log'[i] = log'[j] => i = j
  BY PositionAppend DEF TypeOK, OrderInv, Committed
<1>3. InHead' \subseteq Committed'
  BY <1>1 DEF InHead, OrderInv
<1>4. \A x \in Committed' : content'[x] \in Contents
  BY <1>1 DEF OrderInv
<1>5. QED BY <1>1, <1>2, <1>3, <1>4 DEF OrderInv

(* The seed is committed to a head that names nothing. *)
LEMMA SeedCommits ==
  ASSUME SeedCommit
  PROVE  \/ head' = head /\ log' = log
         \/ /\ head'.exists /\ head'.current = SeedGen /\ head'.previous = NoGen
            /\ log' = Append(log, SeedGen)
<1>1. CASE Loadable(SeedGen)
  <2>1. PICK c \in sound, p \in sound \cup {NoCatalog} :
          head' = [WithStatistics(NoHead, SeedGen, NoGen)
                   EXCEPT !.recognition = c, !.previousRecognition = p]
    BY <1>1 DEF SeedCommit
  <2>2. QED BY <1>1, <2>1 DEF SeedCommit, WithStatistics, NoHead
<1>2. QED BY <1>1 DEF SeedCommit

(* Moving the recognition references leaves the pair alone. *)
LEMMA RecognitionKeepsPair ==
  ASSUME IInv, BootPackaged \/ \E c \in Catalogs : MoveRecognition(c)
  PROVE  /\ head.exists => head'.exists
         /\ head'.current = head.current /\ head'.previous = head.previous
<1>1. ASSUME NEW c \in Catalogs
      PROVE  /\ WithRecognition(head, c) \in HeadRecord
             /\ WithRecognition(head, c).exists = head.exists
             /\ WithRecognition(head, c).current = head.current
             /\ WithRecognition(head, c).previous = head.previous
  BY WithRecognitionType DEF IInv, TypeOK
<1>2. CASE BootPackaged
  BY <1>1, <1>2, RecoveredType DEF BootPackaged
<1>3. ASSUME NEW c \in Catalogs, MoveRecognition(c)
      PROVE  /\ head'.exists
             /\ head'.current = head.current /\ head'.previous = head.previous
  BY <1>1, <1>3 DEF MoveRecognition, HeadRecord
<1>4. QED BY <1>2, <1>3

LEMMA OrderStep ==
  ASSUME IInv, OrderInv, [Next]_vars PROVE OrderInv'
<1> USE StoreAssumption
<1>0. TypeOK BY DEF IInv
<1>1. ASSUME NEW g \in Generations, NEW c \in Contents, PublishBegin(g, c)
      PROVE  OrderInv'
  <2>1. head' = head /\ log' = log /\ content' = [content EXCEPT ![g] = c]
        /\ cand' = g /\ seen' = Served
    BY <1>1 DEF PublishBegin
  <2>2. g \notin Committed
    BY <1>1 DEF PublishBegin, OrderInv
  <2>3. Served \in InHead \cup {NoGen}
    BY DEF Served, InHead, Loadable
  <2>4. InHead' = InHead /\ Committed' = Committed
    BY <2>1 DEF InHead, Committed
  <2>5. \A x \in Committed : content'[x] \in Contents
    BY <1>0, <2>1, <2>2 DEF OrderInv, TypeOK, Committed
  <2>6. QED BY <2>1, <2>2, <2>3, <2>4, <2>5 DEF OrderInv
<1>2. CASE PublishCommit
  <2>1. /\ cand \in Generations /\ content[cand] \in Contents
        /\ cand \notin Committed /\ seen \in InHead \cup {NoGen}
        /\ content' = content
    BY <1>2 DEF PublishCommit, IInv, HolderInv, Publishing, OrderInv
  <2>2. pc' \notin {"made", "written", "proved"}
    BY <1>2 DEF PublishCommit, Release
  <2>3. CASE head' = PublishedHead /\ log' = Append(log, cand)
    <3>1. head'.exists /\ head'.current = cand /\ head'.previous = seen
      BY <1>0, <1>2, <2>3, PublishedHeadType DEF IInv, PublishCommit
    <3>2. QED BY <1>0, <2>1, <2>2, <2>3, <3>1, OrderCommit
  <2>4. CASE head' = head /\ log' = log
    BY <1>0, <2>1, <2>2, <2>4, OrderKept
  <2>5. QED BY <1>2, <2>3, <2>4 DEF PublishCommit
<1>3. CASE SeedCommit
  <2>1. /\ log = <<>> /\ content' = content /\ content[SeedGen] \in Contents
        /\ pc' \notin {"made", "written", "proved"}
    BY <1>3 DEF SeedCommit, IInv, SeedInv, HolderInv, OrderInv
  <2>2. SeedGen \notin Committed
    BY <2>1 DEF Committed
  <2>3. QED BY <1>0, <1>3, <2>1, <2>2, SeedCommits, OrderCommit, OrderKept
<1>4. CASE BootPackaged \/ \E c \in Catalogs : MoveRecognition(c)
  <2>1. /\ log' = log /\ content' = content /\ cand' = cand /\ seen' = seen
        /\ pc' = pc
    BY <1>4 DEF BootPackaged, MoveRecognition, lock, history
  <2>2. QED BY <1>0, <1>4, <2>1, RecognitionKeepsPair, OrderKept
<1>5. CASE /\ head' = head /\ log' = log
           /\ \A g \in Generations : content[g] \in Contents => content'[g] \in Contents
           /\ pc' \in {"made", "written", "proved"} =>
                pc \in {"made", "written", "proved"} /\ cand' = cand /\ seen' = seen
  BY <1>0, <1>5, OrderKept
<1>6. CASE SeedCopied \/ SeedCopyStopped
  <2>1. content' \in {content, [content EXCEPT ![SeedGen] = SeedContent]}
        /\ head' = head /\ log' = log /\ pc' = pc /\ cand' = cand /\ seen' = seen
    BY <1>6 DEF SeedCopied, SeedCopyStopped, history
  <2>2. \A g \in Generations : content[g] \in Contents => content'[g] \in Contents
    BY <1>0, <2>1 DEF TypeOK
  <2>3. QED BY <1>5, <2>1, <2>2
<1>7. CASE PublishWrite \/ PublishProve \/ PublishUnwind \/ Crash
  BY <1>5, <1>7 DEF PublishWrite, PublishProve, PublishUnwind, Crash, Release,
                    disk, history
<1>8. CASE Sweep
  BY <1>5, <1>8 DEF Sweep, SweepBegin, SweepRemove, SweepEnd, disk, lock, history
<1>9. CASE BootInstalled \/ BootFails \/ BootSeed \/ Disk \/ UNCHANGED vars
  BY <1>5, <1>9 DEF BootInstalled, BootFails, BootSeed, Disk, Damage,
       DamageCatalog, Age, vars, disk, lock, history
<1>10. CASE \E r \in Readers : Reader(r)
  BY <1>5, <1>10 DEF Reader, ReadHead, ResolveCurrent, ResolvePrevious, Report,
       ReaderRestart, disk, lock, history
<1>11. QED
  BY <1>1, <1>2, <1>3, <1>4, <1>6, <1>7, <1>8, <1>9, <1>10
     DEF Next, Publish, Boot

(* A step commits one new generation, which replaces the pair of the head, or
   leaves the order and the pair alone. *)
LEMMA CommitOrKeep ==
  ASSUME IInv, OrderInv, [Next]_vars
  PROVE  \/ /\ log' = log
            /\ head'.current = head.current /\ head'.previous = head.previous
         \/ \E g \in Generations \ Committed :
              /\ log' = Append(log, g) /\ head'.current = g
              /\ head'.previous \in InHead \cup {NoGen}
              /\ UNCHANGED <<rhead, view>>
<1> DEFINE Keep == /\ log' = log
                   /\ head'.current = head.current /\ head'.previous = head.previous
           New(g) == /\ log' = Append(log, g) /\ head'.current = g
                     /\ head'.previous \in InHead \cup {NoGen}
                     /\ UNCHANGED <<rhead, view>>
<1>1. CASE PublishCommit
  <2>1. /\ cand \in Generations \ Committed /\ seen \in InHead \cup {NoGen}
        /\ UNCHANGED <<rhead, view>>
    BY <1>1 DEF PublishCommit, IInv, HolderInv, Publishing, OrderInv, readers
  <2>2. CASE head' = PublishedHead /\ log' = Append(log, cand)
    BY <1>1, <2>1, <2>2, PublishedHeadType DEF IInv, PublishCommit
  <2>3. QED BY <1>1, <2>2 DEF PublishCommit
<1>2. CASE SeedCommit
  <2>1. log = <<>> /\ UNCHANGED <<rhead, view>>
    BY <1>2 DEF SeedCommit, IInv, SeedInv, OrderInv, readers
  <2>2. SeedGen \in Generations \ Committed
    BY <2>1, StoreAssumption DEF Committed
  <2>3. QED BY <1>2, <2>1, <2>2, SeedCommits
<1>3. CASE BootPackaged \/ \E c \in Catalogs : MoveRecognition(c)
  BY <1>3, RecognitionKeepsPair DEF BootPackaged, MoveRecognition, history
<1>4. CASE head' = head /\ log' = log
  BY <1>4
<1>5. QED
  BY <1>1, <1>2, <1>3, <1>4
     DEF Next, Publish, Sweep, Boot, Disk, Reader, PublishBegin, PublishWrite,
         PublishProve, PublishUnwind, SweepBegin, SweepRemove, SweepEnd,
         BootInstalled, BootFails, BootSeed, SeedCopied, SeedCopyStopped, Crash,
         Damage, DamageCatalog, Age, ReadHead, ResolveCurrent, ResolvePrevious,
         Report, ReaderRestart, vars, disk, history

(* Only a reader's own steps change what it has read or holds. *)
LEMMA ReadersOnly ==
  ASSUME [Next]_vars
  PROVE  UNCHANGED <<rhead, view>> \/ \E r \in Readers : Reader(r)
BY DEF Next, Publish, Sweep, Boot, Disk, PublishBegin, PublishWrite,
       PublishProve, PublishCommit, PublishUnwind, SweepBegin, SweepRemove,
       SweepEnd, BootInstalled, BootPackaged, BootFails, BootSeed, SeedCopied,
       SeedCopyStopped, SeedCommit, Crash, Damage, DamageCatalog, Age,
       MoveRecognition, vars, readers

(* What one reader holds and has read, as ReaderInv says of all of them. *)
LEMMA ReaderInvStep ==
  ASSUME IInv, OrderInv, ReaderInv, [Next]_vars PROVE ReaderInv'
<1> USE StoreAssumption
<1>0. TypeOK /\ NoGen \notin Committed
  BY DEF IInv, TypeOK, Committed
<1>1. ASSUME NEW g \in Generations \ Committed, log' = Append(log, g),
             UNCHANGED <<rhead, view>>
      PROVE  ReaderInv'
  <2>1. /\ DOMAIN log' = DOMAIN log \cup {Len(log) + 1}
        /\ log'[Len(log) + 1] = g
        /\ \A i \in DOMAIN log : log'[i] = log[i]
    BY <1>0, <1>1 DEF TypeOK
  <2>2. Committed' = Committed \cup {g}
    BY <2>1 DEF Committed
  <2>3. ASSUME NEW x \in Committed \cup {NoGen}, NEW i \in DOMAIN log', log'[i] = x
        PROVE  i \in DOMAIN log /\ log[i] = x
    BY <2>1, <2>3
  <2> SUFFICES ASSUME NEW r \in Readers
               PROVE  /\ {view[r].gen, rhead[r].current, rhead[r].previous}
                           \subseteq Committed' \cup {NoGen}
                      /\ ~ view[r].degraded =>
                           \A i, j \in DOMAIN log' :
                             log'[i] = view[r].gen /\ log'[j] = rhead[r].current
                               => i <= j
    BY <1>1 DEF ReaderInv
  <2>4. {view[r].gen, rhead[r].current, rhead[r].previous} \subseteq Committed \cup {NoGen}
    BY DEF ReaderInv
  <2>5. QED BY <2>2, <2>3, <2>4 DEF ReaderInv
<1>2. CASE log' = log /\ UNCHANGED <<rhead, view>>
  BY <1>2 DEF ReaderInv, Committed
<1>3. ASSUME NEW r \in Readers, Reader(r) PROVE ReaderInv'
  <2> DEFINE Fits(v, h) ==
        /\ {v.gen, h.current, h.previous} \subseteq Committed \cup {NoGen}
        /\ ~ v.degraded => \A i, j \in DOMAIN log :
                             log[i] = v.gen /\ log[j] = h.current => i <= j
  <2>1. /\ log' = log /\ Committed' = Committed
        /\ \A q \in Readers \ {r} : rhead'[q] = rhead[q] /\ view'[q] = view[q]
    BY <1>0, <1>3 DEF Reader, ReadHead, ResolveCurrent, ResolvePrevious, Report,
         ReaderRestart, Adopt, history, Committed, TypeOK
  <2>2. ASSUME Fits(view'[r], rhead'[r]) PROVE ReaderInv'
    BY <2>1, <2>2 DEF ReaderInv
  <2>3. Fits(view[r], rhead[r]) /\ \A v : v.gen \in Committed \cup {NoGen} => Fits(v, NoHead)
    BY <1>0 DEF ReaderInv, NoHead, Committed
  <2>4. rhead[r] \in HeadRecord /\ rhead \in [Readers -> HeadRecord]
        /\ view \in [Readers -> View]
    BY <1>0 DEF TypeOK
  <2>5. CASE ReadHead(r)
    <3>1. rhead'[r] = head /\ view'[r] = view[r]
      BY <2>4, <2>5 DEF ReadHead
    <3>2. {head.current, head.previous} \subseteq Committed \cup {NoGen}
      BY DEF OrderInv, InHead
    <3>3. \A i, j \in DOMAIN log : log[j] = head.current => i <= j
      <4>1. ASSUME NEW i \in DOMAIN log, NEW j \in DOMAIN log, log[j] = head.current
            PROVE  i <= j
        <5>1. log # <<>> /\ Len(log) \in DOMAIN log /\ i <= Len(log)
          BY <1>0 DEF TypeOK
        <5>2. log[Len(log)] = log[j]
          BY <4>1, <5>1 DEF OrderInv
        <5>3. j = Len(log)
          BY <5>1, <5>2 DEF OrderInv
        <5>4. QED BY <5>1, <5>3
      <4>2. QED BY <4>1
    <3>4. QED BY <2>2, <2>3, <3>1, <3>2, <3>3
  <2>6. CASE ResolveCurrent(r)
    <3>1. CASE Resolves(r, rhead[r].current)
      <4>1. /\ view'[r] = [gen |-> rhead[r].current, degraded |-> FALSE]
            /\ rhead'[r] = NoHead
        BY <2>4, <2>6, <3>1 DEF ResolveCurrent, Adopt
      <4>2. QED BY <2>2, <2>3, <4>1
    <3>2. CASE ~ Resolves(r, rhead[r].current)
      <4>1. view'[r] = view[r] /\ rhead'[r] = [rhead[r] EXCEPT !.current = NoGen]
        BY <2>4, <2>6, <3>2 DEF ResolveCurrent
      <4>2. rhead'[r].current = NoGen /\ rhead'[r].previous = rhead[r].previous
        BY <2>4, <4>1 DEF HeadRecord
      <4>3. QED BY <1>0, <2>2, <2>3, <4>1, <4>2 DEF Committed
    <3>3. QED BY <3>1, <3>2
  <2>7. CASE ResolvePrevious(r)
    <3>1. CASE Resolves(r, rhead[r].previous)
      <4>1. /\ view'[r] = [gen |-> rhead[r].previous, degraded |-> TRUE]
            /\ rhead'[r] = NoHead
        BY <2>4, <2>7, <3>1 DEF ResolvePrevious, Adopt
      <4>2. QED BY <2>2, <2>3, <4>1
    <3>2. CASE ~ Resolves(r, rhead[r].previous)
      <4>1. view'[r] = view[r] /\ rhead'[r] = NoHead
        BY <2>4, <2>7, <3>2 DEF ResolvePrevious
      <4>2. QED BY <2>2, <2>3, <4>1
    <3>3. QED BY <3>1, <3>2
  <2>8. CASE ReaderRestart(r)
    <3>1. view'[r] = NoView /\ rhead'[r] = NoHead
      BY <2>4, <2>8 DEF ReaderRestart
    <3>2. QED BY <2>2, <2>3, <3>1 DEF NoView
  <2>9. CASE Report(r)
    BY <2>2, <2>3, <2>9 DEF Report
  <2>10. QED
    BY <1>3, <2>5, <2>6, <2>7, <2>8, <2>9 DEF Reader
<1>4. QED
  BY <1>1, <1>2, <1>3, CommitOrKeep, ReadersOnly

(* The order of the commits and what the readers know of it. *)
LEMMA RefinementInvariant == Spec => [](IInv /\ OrderInv /\ ReaderInv)
<1>1. Init => IInv /\ OrderInv /\ ReaderInv
  BY InitIInv, InitRefineInv
<1>2. IInv /\ OrderInv /\ ReaderInv /\ [Next]_vars => (IInv /\ OrderInv /\ ReaderInv)'
  BY NextIInv, OrderStep, ReaderInvStep
<1>3. QED BY <1>1, <1>2, PTL DEF Spec

(* A commit never promotes or keeps a generation found unreadable before, keeps
   one of the head it replaces, if any, and only different content replaces a
   readable current generation. *)
THEOREM CommitsAreProvenTheorem == Spec => CommitsAreProven
<1> DEFINE Proven == {head'.current, head'.previous} \cap rejected = {}
           Kept   == head'.previous \in InHead \cup {NoGen}
           New == Loadable(head.current) => content[head'.current] # content[head.current]
<1>1. IInv /\ OrderInv /\ [Next]_vars =>
        [head'.current # head.current => Proven /\ Kept /\ New]_vars
  <2> SUFFICES ASSUME IInv, OrderInv, [Next]_vars, head'.current # head.current
               PROVE  Proven /\ Kept /\ New
    OBVIOUS
  <2>1. CASE PublishCommit /\ head' = PublishedHead
    <3>1. head'.current = cand /\ head'.previous = seen
      BY <2>1, PublishedHeadType DEF IInv, PublishCommit
    <3>2. cand \notin rejected /\ seen \notin rejected
      BY <2>1 DEF IInv, HolderInv, PublishCommit, Publishing
    <3>3. New BY <2>1, <3>1 DEF IInv, HolderInv, PublishCommit, Publishing
    <3>4. Kept BY <2>1, <3>1 DEF OrderInv, PublishCommit
    <3>5. QED BY <3>1, <3>2, <3>3, <3>4
  <2>2. CASE /\ InHead = {} /\ rejected = {}
             /\ {head'.current, head'.previous} = {SeedGen, NoGen}
    <3>1. head.current = NoGen
      BY <2>2 DEF InHead
    <3>2. head'.previous = NoGen
      BY <2>2, <3>1
    <3>3. QED BY <2>2, <3>1, <3>2, StoreAssumption DEF Loadable
  <2>3. QED BY <2>1, <2>2, CurrentMoves
<1>2. QED BY <1>1, RefinementInvariant, PTL DEF Spec, CommitsAreProven

(* Every step of the store is one of the register's, or changes nothing of
   what the register shows. *)
LEMMA StepIsRegisters ==
  ASSUME IInv, OrderInv, ReaderInv, [Next]_vars
  PROVE  [Register!Next]_(Register!vars)
<1> DEFINE current  == Position(head.current)
           fallback == Position(head.previous)
           held     == [r \in Readers |-> [at |-> Position(view[r].gen),
                                           degraded |-> view[r].degraded]]
<1> SUFFICES Register!Next \/ UNCHANGED <<log, current, fallback, held>>
  BY DEF Register!vars
<1> USE StoreAssumption
<1>0. /\ TypeOK /\ log \in Seq(Generations) /\ NoGen \notin Committed
      /\ \A j, k \in DOMAIN log : log[j] = log[k] => j = k
  BY DEF IInv, TypeOK, Committed, OrderInv
<1>1. ASSUME NEW g \in Generations \ Committed, log' = Append(log, g),
             head'.current = g, head'.previous \in InHead \cup {NoGen},
             UNCHANGED <<rhead, view>>
      PROVE  Register!Next
  <2>1. \A i \in DOMAIN log : log[i] # g
    BY DEF Committed
  <2>2. /\ PositionIn(log', g) = Len(log')
        /\ \A x : x # g => PositionIn(log', x) = PositionIn(log, x)
    BY <1>0, <1>1, <2>1, PositionAppend
  <2>3. current' = Len(log')
    BY <1>1, <2>2 DEF Position
  <2>4. PositionIn(log, NoGen) = 0
    BY <1>0, PositionMissing DEF Committed
  <2>5. head'.previous # g
    BY <1>1 DEF OrderInv
  <2>6. fallback' \in {0, fallback, current}
    BY <1>1, <2>2, <2>4, <2>5 DEF Position, InHead
  <2>7. held' = held
    <3>1. ASSUME NEW r \in Readers
          PROVE  PositionIn(log', view[r].gen) = PositionIn(log, view[r].gen)
      BY <2>2 DEF ReaderInv
    <3>2. QED BY <1>1, <3>1 DEF Position
  <2>8. Register!Commit(g)
    BY <1>1, <2>1, <2>3, <2>6, <2>7 DEF Register!Commit
  <2>9. QED BY <2>8 DEF Register!Next
<1>2. ASSUME log' = log, head'.current = head.current, head'.previous = head.previous
      PROVE  /\ UNCHANGED <<log, current, fallback>>
             /\ \A x : Position(x)' = Position(x)
  BY <1>2 DEF Position
<1>3. ASSUME NEW r \in Readers, Reader(r)
      PROVE  Register!Next \/ UNCHANGED <<log, current, fallback, held>>
  <2>1. UNCHANGED <<log, current, fallback>> /\ \A x : Position(x)' = Position(x)
    BY <1>2, <1>3 DEF Reader, ReadHead, ResolveCurrent, ResolvePrevious, Report,
         ReaderRestart, disk, history
  <2>2. view' = view => held' = held
    BY <2>1
  <2>3. ASSUME NEW v, view' = [view EXCEPT ![r] = v]
        PROVE  held' = [held EXCEPT ![r] =
                         [at |-> Position(v.gen), degraded |-> v.degraded]]
    BY <1>0, <2>1, <2>3 DEF TypeOK
  <2>4. ASSUME NEW g \in Committed, NEW d \in BOOLEAN, Adopt(r, g, d),
               \/ d \/ view[r].degraded
               \/ \A i, j \in DOMAIN log : log[i] = view[r].gen /\ log[j] = g => i <= j
        PROVE  Register!Next
    <3>1. PICK j \in DOMAIN log : log[j] = g
      BY DEF Committed
    <3>2. Position(g) = j /\ j \in 1 .. Len(log)
      BY <1>0, <3>1, PositionFound DEF Position
    <3>3. held' = [held EXCEPT ![r] = [at |-> j, degraded |-> d]]
      <4> DEFINE v == [gen |-> g, degraded |-> d]
      <4>1. view' = [view EXCEPT ![r] = v] /\ v.gen = g /\ v.degraded = d
        BY <2>4 DEF Adopt
      <4> HIDE DEF v, held
      <4>2. QED BY <2>3, <3>2, <4>1
    <3>4. \/ \E i \in DOMAIN log : log[i] = view[r].gen /\ Position(view[r].gen) = i
          \/ Position(view[r].gen) = 0
      <4>1. CASE view[r].gen \in Committed
        <5>1. PICK i \in DOMAIN log : log[i] = view[r].gen
          BY <4>1 DEF Committed
        <5>2. QED BY <1>0, <5>1, PositionFound DEF Position
      <4>2. CASE view[r].gen \notin Committed
        BY <1>0, <4>2, PositionMissing DEF Position, Committed
      <4>3. QED BY <4>1, <4>2
    <3>5. d \/ view[r].degraded \/ j >= Position(view[r].gen)
      BY <1>0, <2>4, <3>1, <3>4
    <3>6. d \/ held[r].degraded \/ j >= held[r].at
      BY <3>5
    <3>7. Register!Open(r)
      BY <2>1, <3>2, <3>3, <3>6 DEF Register!Open
    <3>8. QED BY <3>7 DEF Register!Next
  <2>5. CASE ReadHead(r) \/ Report(r)
    BY <2>1, <2>2, <2>5 DEF ReadHead, Report
  <2>6. CASE ResolveCurrent(r)
    <3>1. CASE Resolves(r, rhead[r].current)
      <4>1. Adopt(r, rhead[r].current, FALSE) /\ rhead[r].current \in Committed
        BY <2>6, <3>1 DEF ResolveCurrent, ReaderInv
      <4>2. QED BY <2>4, <4>1 DEF ReaderInv
    <3>2. QED BY <2>1, <2>2, <2>6, <3>1 DEF ResolveCurrent
  <2>7. CASE ResolvePrevious(r)
    <3>1. CASE Resolves(r, rhead[r].previous)
      <4>1. Adopt(r, rhead[r].previous, TRUE) /\ rhead[r].previous \in Committed
        BY <2>7, <3>1 DEF ResolvePrevious, Resolves, ReaderInv
      <4>2. QED BY <2>4, <4>1
    <3>2. QED BY <2>1, <2>2, <2>7, <3>1 DEF ResolvePrevious
  <2>8. CASE ReaderRestart(r)
    <3>1. held' = [held EXCEPT ![r] = [at |-> Position(NoGen), degraded |-> FALSE]]
      <4>1. /\ view' = [view EXCEPT ![r] = NoView]
            /\ NoView.gen = NoGen /\ NoView.degraded = FALSE
        BY <2>8 DEF ReaderRestart, NoView
      <4> HIDE DEF held
      <4>2. QED BY <2>3, <4>1
    <3>2. Position(NoGen) = 0
      BY <1>0, PositionMissing DEF Position, Committed
    <3>3. Register!Restart(r)
      BY <2>1, <3>1, <3>2 DEF Register!Restart, Register!None
    <3>4. QED BY <3>3 DEF Register!Next
  <2>9. QED BY <1>3, <2>5, <2>6, <2>7, <2>8 DEF Reader
<1>4. CASE /\ log' = log /\ head'.current = head.current
           /\ head'.previous = head.previous /\ UNCHANGED <<rhead, view>>
  <2>1. held' = held
    BY <1>2, <1>4
  <2>2. QED BY <1>2, <1>4, <2>1
<1>5. QED
  BY <1>1, <1>3, <1>4, CommitOrKeep, ReadersOnly

(* The store implements the register: its two references move in one step, in
   the order of the commits, and no undegraded view goes back in that order,
   however publications, crashes, damage and reads interleave. *)
THEOREM StoreImplementsRegister == Spec => ImplementsRegister
<1>1. Init => Register!Init
  <2> SUFFICES ASSUME Init PROVE Register!Init
    OBVIOUS
  <2>1. Position(NoGen) = 0
    <3>1. log \in Seq(Generations) /\ \A i \in DOMAIN log : log[i] # NoGen
      BY DEF Init
    <3>2. QED BY <3>1, PositionMissing DEF Position
  <2>2. QED
    BY <2>1 DEF Init, Register!Init, Register!None, NoHead, NoView
<1>2. IInv /\ OrderInv /\ ReaderInv /\ [Next]_vars => [Register!Next]_(Register!vars)
  BY StepIsRegisters
<1>3. QED
  BY <1>1, <1>2, RefinementInvariant, PTL DEF Spec, ImplementsRegister, Register!Spec

-----------------------------------------------------------------------------
(* What one fault can break.                                                *)

LEMMA InitFaultInv == Init => FaultInv
BY StoreAssumption DEF Init, FaultInv, Broken, NoHead

(* Steps that break no generation that was whole. *)
LEMMA FaultKept ==
  ASSUME TypeOK, FaultInv, faults' \in Nat, faults' >= faults,
         \A g \in Generations : Broken(g)' => Broken(g),
         \A g \in Generations :
           tree'[g] \in {"partial", "manifest"} \/ damage'[g] # "none" =>
             content'[g] \in Contents,
         pc' = "made" => tree'[cand'] = "empty" /\ damage'[cand'] = "none",
         head'.previous # NoGen =>
           head'.current # NoGen /\ head'.current # head'.previous
  PROVE  FaultInv'
BY DEF FaultInv, TypeOK

LEMMA FaultPublish ==
  ASSUME IInv, FaultInv, Publish PROVE FaultInv'
<1> USE StoreAssumption DEF readers, history
<1>0. TypeOK /\ faults \in Nat
  BY DEF IInv, TypeOK
<1>1. ASSUME NEW g \in Generations, NEW c \in Contents, PublishBegin(g, c)
      PROVE  FaultInv'
  <2>1. /\ tree' = [tree EXCEPT ![g] = "empty"] /\ damage' = damage
        /\ content' = [content EXCEPT ![g] = c] /\ cand' = g /\ head' = head
        /\ faults' = faults /\ app' = app
    BY <1>1 DEF PublishBegin
  <2>2. damage[g] = "none" /\ g # SeedGen
    BY <1>1 DEF PublishBegin, FaultInv
  <2>3. \A x \in Generations : Broken(x)' => Broken(x)
    BY <1>0, <2>1, <2>2 DEF Broken, TypeOK
  <2>4. \A x \in Generations :
          tree'[x] \in {"partial", "manifest"} \/ damage'[x] # "none" =>
            content'[x] \in Contents
    BY <1>0, <2>1 DEF FaultInv, TypeOK
  <2>5. tree'[cand'] = "empty" /\ damage'[cand'] = "none"
    BY <1>0, <2>1, <2>2 DEF TypeOK
  <2>6. QED BY <1>0, <2>1, <2>3, <2>4, <2>5, FaultKept DEF FaultInv
<1>2. CASE PublishWrite
  <2>1. cand \in Generations \ {SeedGen} /\ content[cand] \in Contents
        /\ damage[cand] = "none" /\ app = "up"
    BY <1>2 DEF PublishWrite, IInv, HolderInv, Publishing, FaultInv
  <2>2. /\ tree' \in {tree, [tree EXCEPT ![cand] = "manifest"]} /\ pc' # "made"
        /\ UNCHANGED <<damage, content, head, faults, app>>
    BY <1>2 DEF PublishWrite
  <2>3. \A x \in Generations : Broken(x)' => Broken(x)
    BY <1>0, <2>1, <2>2 DEF Broken, TypeOK
  <2>4. \A x \in Generations :
          tree'[x] \in {"partial", "manifest"} \/ damage'[x] # "none" =>
            content'[x] \in Contents
    BY <1>0, <2>1, <2>2 DEF FaultInv, TypeOK
  <2>5. QED BY <1>0, <2>2, <2>3, <2>4, FaultKept DEF FaultInv
<1>3. CASE PublishProve
  BY <1>0, <1>3, FaultKept DEF PublishProve, FaultInv, Broken, disk
<1>4. CASE PublishCommit
  <2>1. UNCHANGED <<tree, damage, content, app, faults>> /\ pc' # "made"
    BY <1>4 DEF PublishCommit, Release
  <2>2. CASE head' = PublishedHead
    <3>1. head'.current = cand /\ head'.previous = seen
      BY <1>0, <1>4, <2>2, PublishedHeadType DEF IInv, PublishCommit
    <3>2. cand # seen /\ cand # NoGen
      BY <1>4 DEF PublishCommit, IInv, HolderInv, Publishing
    <3>3. QED BY <1>0, <2>1, <3>1, <3>2, FaultKept DEF FaultInv, Broken
  <2>3. CASE head' = head
    BY <1>0, <2>1, <2>3, FaultKept DEF FaultInv, Broken
  <2>4. QED BY <1>4, <2>2, <2>3 DEF PublishCommit
<1>5. CASE PublishUnwind
  <2>1. cand \in Generations \ {SeedGen}
    BY <1>5 DEF PublishUnwind, IInv, HolderInv, Publishing
  <2>2. \E left \in {"absent", "empty"} :
          tree' \in {tree, [tree EXCEPT ![cand] = left]}
    BY <1>5 DEF PublishUnwind
  <2>3. UNCHANGED <<damage, content, head, faults, app>> /\ pc' # "made"
    BY <1>5 DEF PublishUnwind, Release
  <2>4. \A x \in Generations :
          /\ Broken(x)' => Broken(x)
          /\ tree'[x] \in {"partial", "manifest"} => tree[x] = tree'[x]
    BY <1>0, <2>1, <2>2, <2>3 DEF Broken, TypeOK
  <2>5. QED BY <1>0, <2>3, <2>4, FaultKept DEF FaultInv
<1>6. QED BY <1>1, <1>2, <1>3, <1>4, <1>5 DEF Publish

LEMMA FaultBoot ==
  ASSUME IInv, FaultInv, Boot PROVE FaultInv'
<1> USE StoreAssumption DEF readers, history
<1>0. TypeOK /\ faults \in Nat
  BY DEF IInv, TypeOK
<1>1. CASE BootInstalled \/ BootFails
  BY <1>0, <1>1, FaultKept
     DEF BootInstalled, BootFails, vars, FaultInv, Broken, disk, lock
<1>2. CASE BootPackaged
  <2>1. UNCHANGED <<tree, damage, content, faults, pc, cand>> /\ app' = "up"
    BY <1>2 DEF BootPackaged
  <2>2. head'.current = head.current /\ head'.previous = head.previous
    BY <1>2, RecognitionKeepsPair
  <2>3. QED BY <1>0, <2>1, <2>2, FaultKept DEF FaultInv, Broken
<1>3. CASE BootSeed
  <2>1. UNCHANGED <<disk, faults, pc, cand>>
    BY <1>3 DEF BootSeed
  <2>2. app' = "copying" => damage[SeedGen] = "none"
    BY <1>3 DEF BootSeed, SeedCopyable
  <2>3. QED BY <1>0, <2>1, <2>2, FaultKept DEF FaultInv, Broken, disk
<1>4. CASE SeedCopied
  <2>1. /\ tree' = [tree EXCEPT ![SeedGen] = "manifest"]
        /\ content' = [content EXCEPT ![SeedGen] = SeedContent]
        /\ UNCHANGED <<head, damage, faults, pc, cand>>
        /\ app = "copying" /\ app' = "copied" /\ pc = "idle"
    BY <1>4 DEF SeedCopied, IInv, HolderInv
  <2>2. \A x \in Generations : Broken(x)' => Broken(x)
    BY <1>0, <2>1 DEF Broken, TypeOK
  <2>3. \A x \in Generations :
          tree'[x] \in {"partial", "manifest"} \/ damage'[x] # "none" =>
            content'[x] \in Contents
    BY <1>0, <2>1 DEF FaultInv, TypeOK
  <2>4. QED BY <1>0, <2>1, <2>2, <2>3, FaultKept DEF FaultInv
<1>5. CASE SeedCopyStopped
  <2>1. /\ UNCHANGED <<head, faults, pc, cand>> /\ pc = "idle"
        /\ app' \in {"down", "up"}
    BY <1>5 DEF SeedCopyStopped, Uninstalled, IInv, HolderInv
  <2>2. CASE UNCHANGED <<tree, damage, content>>
    BY <1>0, <2>1, <2>2, FaultKept DEF FaultInv, Broken
  <2>3. CASE /\ tree' = [tree EXCEPT ![SeedGen] = "partial"]
             /\ content' = [content EXCEPT ![SeedGen] = SeedContent]
             /\ \E d \in Damages : damage' = [damage EXCEPT ![SeedGen] = d]
    <3>1. \A x \in Generations : Broken(x)' => Broken(x)
      BY <1>0, <2>1, <2>3 DEF Broken, TypeOK
    <3>2. \A x \in Generations :
            tree'[x] \in {"partial", "manifest"} \/ damage'[x] # "none" =>
              content'[x] \in Contents
      BY <1>0, <2>3 DEF FaultInv, TypeOK
    <3>3. QED BY <1>0, <2>1, <3>1, <3>2, FaultKept DEF FaultInv
  <2>4. QED BY <1>5, <2>2, <2>3 DEF SeedCopyStopped
<1>6. CASE SeedCommit
  <2>1. /\ UNCHANGED <<tree, damage, content, faults, pc, cand>>
        /\ app' \in {"down", "up"}
    BY <1>6 DEF SeedCommit, Uninstalled
  <2>2. head'.previous # NoGen => head' = head
    BY <1>6, SeedCommits
  <2>3. QED BY <1>0, <2>1, <2>2, FaultKept DEF FaultInv, Broken
<1>7. QED BY <1>1, <1>2, <1>3, <1>4, <1>5, <1>6 DEF Boot

(* A fault breaks at most the generation it hits, and is counted. *)
LEMMA FaultDamage ==
  ASSUME IInv, FaultInv, NEW g \in Generations, Damage(g) PROVE FaultInv'
<1>0. TypeOK /\ faults \in Nat
  BY DEF IInv, TypeOK
<1>1. /\ tree[g] \in {"partial", "manifest"} /\ faults' = faults + 1
      /\ UNCHANGED <<head, tree, content, app, pc, cand>>
      /\ \E d \in Damages : damage' = [damage EXCEPT ![g] = d]
  BY DEF Damage, lock
<1>2. \A x \in Generations \ {g} : damage'[x] = damage[x] /\ (Broken(x)' => Broken(x))
  BY <1>0, <1>1 DEF TypeOK, Broken
<1>3. \A x, y \in Generations : Broken(x)' /\ Broken(y)' /\ x # y => faults' >= 2
  BY <1>0, <1>1, <1>2 DEF FaultInv
<1>4. \A x \in Generations :
        tree'[x] \in {"partial", "manifest"} \/ damage'[x] # "none" =>
          content'[x] \in Contents
  BY <1>1, <1>2 DEF FaultInv
<1>5. pc' = "made" => tree'[cand'] = "empty" /\ damage'[cand'] = "none"
  BY <1>1, <1>2 DEF FaultInv, IInv, HolderInv, Publishing
<1>6. QED BY <1>0, <1>1, <1>3, <1>4, <1>5 DEF FaultInv

LEMMA FaultStep ==
  ASSUME IInv, FaultInv, [Next]_vars PROVE FaultInv'
<1> USE StoreAssumption DEF readers, history
<1>0. TypeOK /\ faults \in Nat
  BY DEF IInv, TypeOK
<1>1. CASE Publish
  BY <1>1, FaultPublish
<1>2. CASE Boot
  BY <1>2, FaultBoot
<1>3. ASSUME NEW g \in Generations, SweepRemove(g) PROVE FaultInv'
  <2>1. \E left \in {"absent", "empty"} : tree' = [tree EXCEPT ![g] = left]
    BY <1>3 DEF SweepRemove
  <2>2. UNCHANGED <<damage, content, head, faults, app, pc>> /\ pc = "sweeping"
    BY <1>3 DEF SweepRemove, lock
  <2>3. \A x \in Generations :
          /\ Broken(x)' => Broken(x)
          /\ tree'[x] \in {"partial", "manifest"} => tree[x] = tree'[x]
    BY <1>0, <2>1, <2>2 DEF Broken, TypeOK
  <2>4. QED BY <1>0, <2>2, <2>3, FaultKept DEF FaultInv
<1>4. CASE SweepBegin \/ SweepEnd \/ Crash
  BY <1>0, <1>4, FaultKept
     DEF SweepBegin, SweepEnd, Crash, Release, FaultInv, Broken, disk
<1>5. CASE \E c \in Catalogs : MoveRecognition(c)
  <2>1. UNCHANGED <<tree, damage, content, faults, app, pc, cand>>
    BY <1>5 DEF MoveRecognition, lock
  <2>2. head'.current = head.current /\ head'.previous = head.previous
    BY <1>5, RecognitionKeepsPair
  <2>3. QED BY <1>0, <2>1, <2>2, FaultKept DEF FaultInv, Broken
<1>6. ASSUME NEW g \in Generations, Damage(g) \/ Age(g) PROVE FaultInv'
  <2>1. CASE Damage(g) BY <2>1, FaultDamage
  <2>2. CASE Age(g)
    BY <1>0, <2>2, FaultKept DEF Age, lock, FaultInv, Broken
  <2>3. QED BY <1>6, <2>1, <2>2
<1>7. ASSUME NEW c \in Catalogs, DamageCatalog(c) PROVE FaultInv'
  BY <1>0, <1>7, FaultKept DEF DamageCatalog, lock, FaultInv, Broken
<1>8. CASE (\E r \in Readers : Reader(r)) \/ UNCHANGED vars
  <2>1. UNCHANGED <<disk, lock, faults>>
    BY <1>8 DEF Reader, ReadHead, ResolveCurrent, ResolvePrevious, Report,
         ReaderRestart, vars
  <2>2. QED BY <1>0, <2>1, FaultKept DEF FaultInv, Broken, disk, lock
<1>9. QED
  BY <1>1, <1>2, <1>3, <1>4, <1>5, <1>6, <1>7, <1>8 DEF Next, Sweep, Disk

(* One fault on the disk never leaves a head with a fallback unservable: the
   two generations it names are different, and a fault breaks only one. *)
THEOREM OneFaultIsSurvivableTheorem == Spec => []OneFaultIsSurvivable
<1>1. IInv /\ FaultInv => OneFaultIsSurvivable
  <2> SUFFICES ASSUME IInv, FaultInv, head.previous # NoGen, sound = Catalogs,
                      faults <= 1
               PROVE  Served # NoGen
    BY DEF OneFaultIsSurvivable
  <2> DEFINE pair == {head.current, head.previous}
  <2>1. /\ pair \subseteq Generations /\ head.current # head.previous
        /\ NoGen \notin pair /\ faults \in Nat
    BY DEF FaultInv, IInv, TypeOK, HeadRecord, GenRef
  <2>2. \A g \in pair : tree[g] = "manifest" /\ content[g] \in Contents
    BY <2>1 DEF IInv, HeadInv, HeadNeverDangles, InHead
  <2>3. \E g \in pair : damage[g] = "none"
    BY <2>1, <2>2 DEF FaultInv, Broken
  <2>4. \E g \in pair : Loadable(g)
    BY <2>1, <2>2, <2>3, StoreAssumption DEF Loadable
  <2>5. QED BY <2>1, <2>4 DEF Served
<1>2. IInv /\ FaultInv /\ [Next]_vars => (IInv /\ FaultInv)'
  BY NextIInv, FaultStep
<1>3. QED BY <1>1, <1>2, InitIInv, InitFaultInv, PTL DEF Spec
=============================================================================
