---------------------------- MODULE ProcessProofs ----------------------------
(***************************************************************************)
(* Proofs about what the program's processes share: the lock of the        *)
(* desktop (SingleInstance) and the channel between two of them            *)
(* (RuntimeChannel).                                                       *)
(*                                                                         *)
(* One process at a time owns the desktop, for every set of processes and  *)
(* builds.                                                                 *)
(*                                                                         *)
(* A runtime channel is a register of the latest value, for any kinds of   *)
(* messages and any size of the pipe.  Between a message that was sent and *)
(* the one the other end knows lie those in the pipe, the one being        *)
(* written and the one pending, and of each kind they are in order.        *)
(***************************************************************************)
EXTENDS SingleInstance, Sequences, TLAPS

CONSTANTS FromApp, FromChild, MaxKinds, MaxValue, WireSize   \* of RuntimeChannel

VARIABLES sent, pending, order, sending, wire, latest, reader, writer, state, ownEnd
                                                             \* of RuntimeChannel

Pipe == INSTANCE RuntimeChannel

------------------------------------------------------------------------------
(* The one owner of the desktop.                                            *)

LEMMA InitIInv == Init => IInv
BY ProcsAssumption
   DEF Init, IInv, TypeOK, HolderInv, OwnerFileIsTrue, AloneInv,
       LoneLaunchTakesOver, Acquiring, Leaving, Ends

(* A launch: only the launched process may be alone now. *)
LEMMA LaunchStep ==
  ASSUME IInv, NEW p \in Procs, Launch(p) PROVE IInv'
<1> USE ProcsAssumption DEF IInv, Launch, Goto, TypeOK, Acquiring, Leaving, Ends
<1>1. TypeOK'
  <2>1. \A q \in Procs : (q = p /\ \A r \in Procs \ {p} : pc[r] = "off") \in BOOLEAN
    OBVIOUS
  <2>2. alone' \in [Procs -> BOOLEAN]
    BY <2>1, Zenon
  <2>3. QED BY <2>2
<1>2. HolderInv' BY DEF HolderInv
<1>3. OwnerFileIsTrue' BY DEF OwnerFileIsTrue
<1>4. AloneInv'
  <2>1. ASSUME NEW q \in Procs, alone'[q]
        PROVE  q = p /\ \A r \in Procs \ {p} : pc[r] = "off"
    BY <2>1, Zenon
  <2>2. /\ pc'[p] = "create" /\ attempt'[p] = 1
        /\ \A r \in Procs \ {p} : pc'[r] = pc[r]
    OBVIOUS
  <2>3. QED BY <2>1, <2>2 DEF AloneInv
<1>5. LoneLaunchTakesOver' BY DEF LoneLaunchTakesOver
<1>6. QED BY <1>1, <1>2, <1>3, <1>4, <1>5

LEMMA CreateLockStep ==
  ASSUME IInv, NEW p \in Procs, CreateLock(p) PROVE IInv'
<1> USE ProcsAssumption DEF IInv, CreateLock, Goto, TypeOK, Acquiring, Leaving, Ends
<1>1. TypeOK'
  <2>1. CASE lockFile BY <2>1
  <2>2. CASE ~ lockFile
    <3>1. lockFile' \in BOOLEAN BY <2>2, Zenon
    <3>2. QED BY <2>2, <3>1
  <2>3. QED BY <2>1, <2>2
<1>2. HolderInv' BY DEF HolderInv
<1>3. OwnerFileIsTrue' BY DEF OwnerFileIsTrue
<1>4. AloneInv' BY DEF AloneInv
<1>5. LoneLaunchTakesOver' BY DEF LoneLaunchTakesOver
<1>6. QED BY <1>1, <1>2, <1>3, <1>4, <1>5

LEMMA WriteOwnerStep ==
  ASSUME IInv, NEW p \in Procs, WriteOwner(p) PROVE IInv'
<1> USE ProcsAssumption DEF IInv, WriteOwner, Goto, TypeOK, Acquiring, Leaving, Ends
<1>1. TypeOK' OBVIOUS
<1>2. HolderInv' BY DEF HolderInv
<1>3. OwnerFileIsTrue' BY DEF OwnerFileIsTrue
<1>4. AloneInv' BY DEF AloneInv, HolderInv
<1>5. LoneLaunchTakesOver' BY DEF LoneLaunchTakesOver
<1>6. QED BY <1>1, <1>2, <1>3, <1>4, <1>5

(* While a process is alone, nobody else holds the lock or is named. *)
LEMMA AloneMeansAlone ==
  ASSUME IInv, NEW p \in Procs, alone[p]
  PROVE  holder \in {p, Nobody} /\ owner \in {p, Nobody}
BY DEF IInv, TypeOK, AloneInv, HolderInv, OwnerFileIsTrue

(* The three places that unlink the lock file. *)
LEMMA UnlinkLockStep ==
  ASSUME IInv, NEW p \in Procs, NEW next \in {"failed", "clearing", "done"},
         pc[p] \in {"abandoning", "unlocking", "unlinking"},
         next = "clearing" => pc[p] = "unlocking",
         UnlinkLock(p, next)
  PROVE  IInv'
<1> USE ProcsAssumption DEF IInv, UnlinkLock, Goto, TypeOK, Acquiring, Leaving, Ends
<1>1. TypeOK' OBVIOUS
<1>2. HolderInv' BY DEF HolderInv
<1>3. OwnerFileIsTrue' BY DEF OwnerFileIsTrue
<1>4. AloneInv' BY DEF AloneInv
<1>5. LoneLaunchTakesOver'
  <2>1. ASSUME alone[p] PROVE holder = Nobody
    BY <2>1, AloneMeansAlone DEF HolderInv
  <2>2. QED BY <2>1 DEF LoneLaunchTakesOver
<1>6. QED BY <1>1, <1>2, <1>3, <1>4, <1>5

LEMMA ReadOwnerStep ==
  ASSUME IInv, NEW p \in Procs, ReadOwner(p) PROVE IInv'
<1> USE ProcsAssumption DEF IInv, ReadOwner, Goto, TypeOK, Acquiring, Leaving, Ends
<1>1. TypeOK' OBVIOUS
<1>2. HolderInv' BY DEF HolderInv
<1>3. OwnerFileIsTrue' BY DEF OwnerFileIsTrue
<1>4. AloneInv' BY DEF AloneInv
<1>5. LoneLaunchTakesOver'
  <2>1. ASSUME alone[p] PROVE owner = Nobody
    BY <2>1, AloneMeansAlone DEF OwnerFileIsTrue
  <2>2. QED BY <2>1 DEF LoneLaunchTakesOver
<1>6. QED BY <1>1, <1>2, <1>3, <1>4, <1>5

LEMMA RequestActivationStep ==
  ASSUME IInv, NEW p \in Procs, RequestActivation(p) PROVE IInv'
<1> USE ProcsAssumption
    DEF IInv, RequestActivation, Goto, TypeOK, Acquiring, Leaving, Ends
<1>1. TypeOK' OBVIOUS
<1>2. HolderInv' BY DEF HolderInv
<1>3. OwnerFileIsTrue' BY DEF OwnerFileIsTrue
<1>4. AloneInv' BY DEF AloneInv
<1>5. LoneLaunchTakesOver' BY DEF LoneLaunchTakesOver
<1>6. QED BY <1>1, <1>2, <1>3, <1>4, <1>5

(* Alone, the first pass has just removed the lock file. *)
LEMMA RemoveOwnerStep ==
  ASSUME IInv, NEW p \in Procs, RemoveOwner(p) PROVE IInv'
<1> USE ProcsAssumption
    DEF IInv, RemoveOwner, Goto, TypeOK, Acquiring, Leaving, Ends
<1>1. TypeOK' OBVIOUS
<1>2. HolderInv' BY DEF HolderInv
<1>3. OwnerFileIsTrue' BY DEF OwnerFileIsTrue
<1>4. AloneInv' BY DEF AloneInv
<1>5. LoneLaunchTakesOver' BY DEF LoneLaunchTakesOver, AloneInv
<1>6. QED BY <1>1, <1>2, <1>3, <1>4, <1>5

LEMMA SessionStep ==
  ASSUME IInv, NEW p \in Procs, Consume(p) \/ Release(p) \/ Disown(p) PROVE IInv'
<1> USE ProcsAssumption
    DEF IInv, Consume, Release, Disown, Goto, TypeOK, Acquiring, Leaving, Ends
<1>1. TypeOK' OBVIOUS
<1>2. HolderInv' BY DEF HolderInv
<1>3. OwnerFileIsTrue' BY DEF OwnerFileIsTrue
<1>4. AloneInv' BY DEF AloneInv
<1>5. LoneLaunchTakesOver' BY DEF LoneLaunchTakesOver
<1>6. QED BY <1>1, <1>2, <1>3, <1>4, <1>5

LEMMA DieStep ==
  ASSUME IInv, NEW p \in Procs, Die(p) PROVE IInv'
<1> USE ProcsAssumption DEF IInv, Die, Goto, TypeOK, Acquiring, Leaving, Ends
<1>1. TypeOK' OBVIOUS
<1>2. HolderInv' BY DEF HolderInv
<1>3. OwnerFileIsTrue' BY DEF OwnerFileIsTrue
<1>4. AloneInv' BY DEF AloneInv
<1>5. LoneLaunchTakesOver' BY DEF LoneLaunchTakesOver
<1>6. QED BY <1>1, <1>2, <1>3, <1>4, <1>5

LEMMA NextIInv == IInv /\ [Next]_vars => IInv'
<1> SUFFICES ASSUME IInv, [Next]_vars PROVE IInv'
  OBVIOUS
<1>1. CASE UNCHANGED vars
  BY <1>1 DEF vars, IInv, TypeOK, HolderInv, OwnerFileIsTrue, AloneInv,
              LoneLaunchTakesOver
<1>2. ASSUME NEW p \in Procs, Acquire(p) PROVE IInv'
  BY <1>2, LaunchStep, CreateLockStep, WriteOwnerStep, UnlinkLockStep,
     ReadOwnerStep, RequestActivationStep, RemoveOwnerStep
     DEF Acquire, Abandon, RemoveLock
<1>3. ASSUME NEW p \in Procs, Session(p) PROVE IInv'
  BY <1>3, SessionStep, UnlinkLockStep, DieStep DEF Session, Unlink
<1>4. QED BY <1>1, <1>2, <1>3 DEF Next

(* The inductive invariant holds in every reachable state. *)
THEOREM InstanceInvariant == Spec => []IInv
BY InitIInv, NextIInv, PTL DEF Spec

(* However launches, stale removals, releases and crashes interleave, at most
   one process is the control surface. *)
THEOREM MutualExclusion == Spec => []OneOwner
<1>1. IInv => OneOwner
  BY ProcsAssumption DEF IInv, HolderInv, OneOwner
<1>2. QED BY <1>1, InstanceInvariant, PTL

(* A launch with nothing else running takes over whatever was left. *)
THEOREM TakeOver == Spec => []LoneLaunchTakesOver
<1>1. IInv => LoneLaunchTakesOver BY DEF IInv
<1>2. QED BY <1>1, InstanceInvariant, PTL

------------------------------------------------------------------------------
(* The channel between two processes.                                       *)

Message == [kind : Pipe!Kinds, val : Nat]

ChannelTypeOK ==
  /\ MaxValue \in Nat \ {0}   \* RuntimeChannel's ChannelAssumption
  /\ sent \in [Pipe!Ends -> [Pipe!Kinds -> 0..MaxValue]]
  /\ latest \in [Pipe!Ends -> [Pipe!Kinds -> Nat]]
  /\ pending \in [Pipe!Ends -> [Pipe!Kinds -> Nat]] /\ order \in [Pipe!Ends -> Seq(Pipe!Kinds)]
  /\ sending \in [Pipe!Ends -> Message \cup {Pipe!None}] /\ wire \in [Pipe!Ends -> Seq(Message)]

\* The messages of a kind are in the pipe in the order they were sent.
WireInOrder(e) ==
  /\ \A i, j \in 1..Len(wire[e]) :
       i <= j /\ wire[e][i].kind = wire[e][j].kind => wire[e][i].val <= wire[e][j].val
  /\ \A i \in 1..Len(wire[e]) : LET m == wire[e][i] IN
       latest[Pipe!Other(e)][m.kind] <= m.val /\ m.val <= sent[e][m.kind]

\* The message being written comes after those.
SendingIsNext(e) ==
  sending[e] # Pipe!None =>
    /\ latest[Pipe!Other(e)][sending[e].kind] <= sending[e].val
    /\ sending[e].val <= sent[e][sending[e].kind]
    /\ \A i \in 1..Len(wire[e]) :
         wire[e][i].kind = sending[e].kind => wire[e][i].val <= sending[e].val

KnownWasSent(e) == \A k \in Pipe!Kinds : latest[Pipe!Other(e)][k] <= sent[e][k]

\* What is pending is the newest of its kind, and waits in one place.
PendingIsNewest(e) ==
  /\ \A k \in Pipe!Kinds : pending[e][k] \in {0, sent[e][k]}
  /\ \A i \in 1..Len(order[e]) : pending[e][order[e][i]] # 0
  /\ \A i, j \in 1..Len(order[e]) : order[e][i] = order[e][j] => i = j

EndInv(e) == WireInOrder(e) /\ SendingIsNext(e) /\ KnownWasSent(e) /\ PendingIsNewest(e)
ChannelInv == ChannelTypeOK /\ \A e \in Pipe!Ends : EndInv(e)

LEMMA OtherEnd ==
  /\ \A e \in Pipe!Ends :
       /\ Pipe!Other(e) \in Pipe!Ends /\ Pipe!Other(Pipe!Other(e)) = e /\ Pipe!Other(e) # e
       /\ Pipe!Sends(e) \subseteq Pipe!Kinds
  /\ Pipe!None \notin Message
<1>1. Pipe!None \notin Message
  BY DEF Pipe!None, Message
<1> QED
  BY <1>1 DEF Pipe!Ends, Pipe!Other, Pipe!Sends, Pipe!Kinds

LEMMA Numbers ==
  ASSUME ChannelTypeOK, NEW e \in Pipe!Ends, NEW k \in Pipe!Kinds
  PROVE  /\ sent[e][k] \in 0..MaxValue /\ sent[e][k] \in Nat
         /\ latest[e][k] \in Nat /\ pending[e][k] \in Nat
BY DEF ChannelTypeOK

LEMMA Messages ==
  ASSUME ChannelTypeOK, NEW e \in Pipe!Ends
  PROVE  /\ \A i \in 1..Len(wire[e]) : wire[e][i].kind \in Pipe!Kinds /\ wire[e][i].val \in Nat
         /\ sending[e] # Pipe!None => sending[e].kind \in Pipe!Kinds /\ sending[e].val \in Nat
         /\ \A i \in 1..Len(order[e]) : order[e][i] \in Pipe!Kinds
<1>1. /\ wire[e] \in Seq(Message) /\ sending[e] \in Message \cup {Pipe!None}
      /\ order[e] \in Seq(Pipe!Kinds)
  BY DEF ChannelTypeOK
<1>2. \A i \in 1..Len(wire[e]) : wire[e][i] \in Message
  BY <1>1
<1>3. \A i \in 1..Len(order[e]) : order[e][i] \in Pipe!Kinds
  BY <1>1
<1> QED
  BY <1>1, <1>2, <1>3 DEF Message

LEMMA InitChannel == MaxValue \in Nat \ {0} /\ Pipe!Init => ChannelInv
<1> SUFFICES ASSUME MaxValue \in Nat \ {0}, Pipe!Init PROVE ChannelInv
  OBVIOUS
<1>1. ChannelTypeOK
  BY DEF Pipe!Init, ChannelTypeOK, Pipe!Zero, Pipe!None
<1>2. ASSUME NEW e \in Pipe!Ends PROVE EndInv(e)
  BY OtherEnd DEF Pipe!Init, EndInv, WireInOrder, SendingIsNext, KnownWasSent,
                  PendingIsNewest, Pipe!Zero, Pipe!None
<1> QED
  BY <1>1, <1>2 DEF ChannelInv

\* Whatever is pending or being written may be dropped.
LEMMA DropsPreserve ==
  ASSUME ChannelInv, UNCHANGED <<sent, wire, latest>>,
         pending' \in [Pipe!Ends -> [Pipe!Kinds -> Nat]],
         order' \in [Pipe!Ends -> Seq(Pipe!Kinds)],
         \A e \in Pipe!Ends : \/ pending'[e] = pending[e] /\ order'[e] = order[e]
                              \/ pending'[e] = Pipe!Zero /\ order'[e] = <<>>,
         sending' \in [Pipe!Ends -> Message \cup {Pipe!None}],
         \A e \in Pipe!Ends : sending'[e] \in {sending[e], Pipe!None}
  PROVE  ChannelInv'
<1>1. ChannelTypeOK'
  BY DEF ChannelInv, ChannelTypeOK
<1>2. ASSUME NEW e \in Pipe!Ends PROVE EndInv(e)'
  <2>1. WireInOrder(e)' /\ KnownWasSent(e)'
    BY OtherEnd DEF ChannelInv, EndInv, WireInOrder, KnownWasSent
  <2>2. SendingIsNext(e)'
    BY OtherEnd DEF ChannelInv, EndInv, SendingIsNext
  <2>3. PendingIsNewest(e)'
    <3>1. CASE pending'[e] = pending[e] /\ order'[e] = order[e]
      BY <3>1 DEF ChannelInv, EndInv, PendingIsNewest
    <3>2. CASE pending'[e] = Pipe!Zero /\ order'[e] = <<>>
      BY <3>2 DEF PendingIsNewest, Pipe!Zero
    <3> QED
      BY <3>1, <3>2
  <2> QED
    BY <2>1, <2>2, <2>3 DEF EndInv
<1> QED
  BY <1>1, <1>2 DEF ChannelInv

LEMMA ClosePreserves ==
  ASSUME ChannelInv, NEW e \in Pipe!Ends, Pipe!BeginClose(e),
         UNCHANGED <<sent, sending, wire, latest>>
  PROVE  ChannelInv'
<1>1. pending' \in [Pipe!Ends -> [Pipe!Kinds -> Nat]] /\ order' \in [Pipe!Ends -> Seq(Pipe!Kinds)]
  <2>1. Pipe!Zero \in [Pipe!Kinds -> Nat] /\ <<>> \in Seq(Pipe!Kinds)
    BY DEF Pipe!Zero
  <2> QED
    BY <2>1 DEF ChannelInv, ChannelTypeOK, Pipe!BeginClose
<1>2. \A f \in Pipe!Ends : \/ pending'[f] = pending[f] /\ order'[f] = order[f]
                           \/ pending'[f] = Pipe!Zero /\ order'[f] = <<>>
  BY DEF ChannelInv, ChannelTypeOK, Pipe!BeginClose
<1> QED
  BY <1>1, <1>2, DropsPreserve DEF ChannelInv, ChannelTypeOK

LEMMA PublishPreserves ==
  ASSUME ChannelInv, NEW e \in Pipe!Ends, NEW k \in Pipe!Kinds, Pipe!Publish(e, k)
  PROVE  ChannelInv'
<1> DEFINE v == Pipe!Newer(sent[e][k])
<1>1. v \in 1..MaxValue /\ v >= sent[e][k]
  BY DEF ChannelInv, ChannelTypeOK, Pipe!Newer
<1>2. /\ sent' = [sent EXCEPT ![e][k] = v] /\ pending' = [pending EXCEPT ![e][k] = v]
      /\ UNCHANGED <<sending, wire, latest>>
  <2>1. sent' = [sent EXCEPT ![e][k] = v] /\ sent'[e][k] = v
    BY DEF ChannelInv, ChannelTypeOK, Pipe!Publish
  <2> QED
    BY <2>1 DEF Pipe!Publish, Pipe!input
<1>0. order' \in [Pipe!Ends -> Seq(Pipe!Kinds)]
  BY DEF ChannelInv, ChannelTypeOK, Pipe!Publish, Pipe!Enqueue
<1>3. \A f \in Pipe!Ends, q \in Pipe!Kinds : sent'[f][q] >= sent[f][q] /\ sent'[f][q] \in Nat
  <2> TAKE f \in Pipe!Ends, q \in Pipe!Kinds
  <2>1. sent[f][q] \in Nat /\ sent[f] \in [Pipe!Kinds -> 0..MaxValue]
    BY Numbers DEF ChannelInv, ChannelTypeOK
  <2>2. sent'[f][q] = IF f = e /\ q = k THEN v ELSE sent[f][q]
    BY <1>2, <2>1 DEF ChannelInv, ChannelTypeOK
  <2> QED
    BY <1>1, <2>1, <2>2
<1>4. ChannelTypeOK'
  BY <1>0, <1>1, <1>2 DEF ChannelInv, ChannelTypeOK
<1>5. ASSUME NEW f \in Pipe!Ends PROVE EndInv(f)'
  <2>1. WireInOrder(f)'
    <3>1. ASSUME NEW i \in 1..Len(wire[f])
          PROVE  wire[f][i].val <= sent'[f][wire[f][i].kind]
      <4>1. wire[f][i].kind \in Pipe!Kinds /\ wire[f][i].val \in Nat
        BY Messages DEF ChannelInv
      <4>2. wire[f][i].val <= sent[f][wire[f][i].kind]
        BY DEF ChannelInv, EndInv, WireInOrder
      <4> QED
        BY <1>3, <4>1, <4>2, Numbers DEF ChannelInv
    <3> QED
      BY <1>2, <3>1 DEF ChannelInv, EndInv, WireInOrder
  <2>2. SendingIsNext(f)'
    <3> SUFFICES ASSUME sending[f] # Pipe!None PROVE SendingIsNext(f)'
      BY <1>2 DEF SendingIsNext
    <3>1. sending[f].kind \in Pipe!Kinds /\ sending[f].val \in Nat
      BY Messages DEF ChannelInv
    <3>2. sending[f].val <= sent'[f][sending[f].kind]
      <4>1. sending[f].val <= sent[f][sending[f].kind]
        BY DEF ChannelInv, EndInv, SendingIsNext
      <4> QED
        BY <1>3, <3>1, <4>1, Numbers DEF ChannelInv
    <3> QED
      BY <1>2, <3>2 DEF ChannelInv, EndInv, SendingIsNext
  <2>3. KnownWasSent(f)'
    <3> SUFFICES ASSUME NEW q \in Pipe!Kinds PROVE latest[Pipe!Other(f)][q] <= sent'[f][q]
      BY <1>2 DEF KnownWasSent
    <3>1. latest[Pipe!Other(f)][q] <= sent[f][q] /\ latest[Pipe!Other(f)][q] \in Nat /\ sent[f][q] \in Nat
      BY OtherEnd, Numbers DEF ChannelInv, EndInv, KnownWasSent
    <3> QED
      BY <1>3, <3>1
  <2>4. PendingIsNewest(f)'
    <3>0. /\ \A q \in Pipe!Kinds : pending'[e][q] = IF q = k THEN v ELSE pending[e][q]
          /\ \A q \in Pipe!Kinds : sent'[e][q] = IF q = k THEN v ELSE sent[e][q]
          /\ f # e => pending'[f] = pending[f] /\ sent'[f] = sent[f] /\ order'[f] = order[f]
      <4>1. pending[e] \in [Pipe!Kinds -> Nat] /\ sent[e] \in [Pipe!Kinds -> 0..MaxValue]
        BY DEF ChannelInv, ChannelTypeOK
      <4>2. pending'[e] = [pending[e] EXCEPT ![k] = v] /\ sent'[e] = [sent[e] EXCEPT ![k] = v]
        BY <1>2 DEF ChannelInv, ChannelTypeOK
      <4>3. f # e => pending'[f] = pending[f] /\ sent'[f] = sent[f]
        BY <1>2 DEF ChannelInv, ChannelTypeOK
      <4>4. f # e => order'[f] = order[f]
        BY DEF ChannelInv, ChannelTypeOK, Pipe!Publish, Pipe!Enqueue
      <4> QED
        BY <4>1, <4>2, <4>3, <4>4
    <3>1. CASE f # e
      BY <3>0, <3>1 DEF ChannelInv, EndInv, PendingIsNewest
    <3>2. CASE f = e /\ pending[e][k] # 0
      <4>1. order' = order
        BY <3>2 DEF Pipe!Publish, Pipe!Enqueue
      <4>2. \A i \in 1..Len(order[e]) : order[e][i] \in Pipe!Kinds
        BY Messages DEF ChannelInv
      <4> QED
        BY <1>1, <3>0, <3>2, <4>1, <4>2 DEF ChannelInv, EndInv, PendingIsNewest
    <3>3. CASE f = e /\ pending[e][k] = 0
      <4>1. order'[e] = Append(order[e], k) /\ order[e] \in Seq(Pipe!Kinds)
        BY <3>3 DEF ChannelInv, ChannelTypeOK, Pipe!Publish, Pipe!Enqueue
      <4>2. \A i \in 1..Len(order[e]) : order[e][i] \in Pipe!Kinds /\ order[e][i] # k
        BY <3>3, Messages DEF ChannelInv, EndInv, PendingIsNewest
      <4>3. \A i \in 1..Len(order'[e]) :
              order'[e][i] \in Pipe!Kinds /\ (order'[e][i] = k <=> i = Len(order[e]) + 1)
        BY <4>1, <4>2
      <4>4. \A i \in 1..Len(order[e]) : order'[e][i] = order[e][i]
        BY <4>1
      <4>5. \A i \in 1..Len(order'[e]) : pending'[e][order'[e][i]] # 0
        <5> TAKE i \in 1..Len(order'[e])
        <5>1. CASE order'[e][i] = k
          BY <1>1, <3>0, <5>1
        <5>2. CASE order'[e][i] # k
          <6>1. i \in 1..Len(order[e])
            BY <4>1, <4>3, <5>2
          <6> QED
            BY <3>0, <4>2, <4>4, <6>1 DEF ChannelInv, EndInv, PendingIsNewest
        <5> QED
          BY <5>1, <5>2
      <4>6. \A i, j \in 1..Len(order'[e]) : order'[e][i] = order'[e][j] => i = j
        BY <4>1, <4>3, <4>4 DEF ChannelInv, EndInv, PendingIsNewest
      <4>7. \A q \in Pipe!Kinds : pending'[e][q] \in {0, sent'[e][q]}
        BY <3>0 DEF ChannelInv, EndInv, PendingIsNewest
      <4> QED
        BY <3>3, <4>5, <4>6, <4>7 DEF PendingIsNewest
    <3> QED
      BY <3>1, <3>2, <3>3
  <2> QED
    BY <2>1, <2>2, <2>3, <2>4 DEF EndInv
<1> QED
  BY <1>4, <1>5 DEF ChannelInv

LEMMA PopPreserves ==
  ASSUME ChannelInv, NEW e \in Pipe!Ends, Pipe!Pop(e)
  PROVE  ChannelInv'
<1> DEFINE k == Head(order[e])
           m == [kind |-> k, val |-> pending[e][k]]
<1>1. /\ sending' = [sending EXCEPT ![e] = m] /\ pending' = [pending EXCEPT ![e][k] = 0]
      /\ order' = [order EXCEPT ![e] = Tail(@)] /\ UNCHANGED <<sent, wire, latest>>
  BY DEF Pipe!Pop, Pipe!input
<1>2. order[e] \in Seq(Pipe!Kinds) /\ order[e] # <<>>
  BY DEF Pipe!Pop, ChannelInv, ChannelTypeOK
<1>3. k \in Pipe!Kinds /\ k = order[e][1] /\ Len(order[e]) > 0
  BY <1>2
<1>4. m \in Message /\ m.kind = k /\ m.val = sent[e][k]
  BY <1>3, Numbers DEF ChannelInv, EndInv, PendingIsNewest, Message
<1>5. ChannelTypeOK'
  <2>1. pending' \in [Pipe!Ends -> [Pipe!Kinds -> Nat]]
    BY <1>1, <1>3 DEF ChannelInv, ChannelTypeOK
  <2>2. order' \in [Pipe!Ends -> Seq(Pipe!Kinds)]
    <3>1. Tail(order[e]) \in Seq(Pipe!Kinds)
      BY <1>2
    <3>2. order \in [Pipe!Ends -> Seq(Pipe!Kinds)]
      BY DEF ChannelInv, ChannelTypeOK
    <3> QED
      BY ONLY <1>1, <3>1, <3>2
  <2>3. sending' \in [Pipe!Ends -> Message \cup {Pipe!None}]
    <3>1. sending \in [Pipe!Ends -> Message \cup {Pipe!None}]
      BY DEF ChannelInv, ChannelTypeOK
    <3> HIDE DEF m
    <3> QED
      BY <1>1, <1>4, <3>1
  <2> QED
    BY <1>1, <2>1, <2>2, <2>3 DEF ChannelInv, ChannelTypeOK
<1>6. ASSUME NEW f \in Pipe!Ends PROVE EndInv(f)'
  <2>1. WireInOrder(f)' /\ KnownWasSent(f)'
    BY <1>1, OtherEnd DEF ChannelInv, EndInv, WireInOrder, KnownWasSent
  <2>2. CASE f # e
    <3>1. sending'[f] = sending[f] /\ pending'[f] = pending[f] /\ order'[f] = order[f]
      BY <1>1, <2>2 DEF ChannelInv, ChannelTypeOK
    <3>2. SendingIsNext(f)'
      BY <1>1, <3>1, OtherEnd DEF ChannelInv, EndInv, SendingIsNext
    <3>3. PendingIsNewest(f)'
      <4>1. sent' = sent
        BY <1>1
      <4>2. PendingIsNewest(f)
        BY DEF ChannelInv, EndInv
      <4> QED
        BY ONLY <3>1, <4>1, <4>2 DEF PendingIsNewest
    <3> QED
      BY <2>1, <3>2, <3>3 DEF EndInv
  <2>3. CASE f = e
    <3>1. sending'[e] = m
      BY <1>1 DEF ChannelInv, ChannelTypeOK
    <3>2. \A i \in 1..Len(wire[e]) : wire[e][i].kind = k => wire[e][i].val <= sent[e][k]
      BY DEF ChannelInv, EndInv, WireInOrder
    <3>3. latest[Pipe!Other(e)][k] <= sent[e][k] /\ sent[e][k] \in Nat
      BY <1>3, Numbers DEF ChannelInv, EndInv, KnownWasSent
    <3>4. SendingIsNext(e)'
      BY <1>1, <1>4, <3>1, <3>2, <3>3 DEF SendingIsNext
    <3>5. pending'[e] = [pending[e] EXCEPT ![k] = 0] /\ order'[e] = Tail(order[e])
      BY <1>1 DEF ChannelInv, ChannelTypeOK
    <3>6. /\ Len(order'[e]) = Len(order[e]) - 1
          /\ \A i \in 1..Len(order'[e]) :
               order'[e][i] = order[e][i + 1] /\ i + 1 \in 1..Len(order[e])
      BY <1>2, <3>5
    <3>7. \A i \in 1..Len(order'[e]) : order'[e][i] # k
      <4> TAKE i \in 1..Len(order'[e])
      <4>1. i + 1 # 1 /\ i + 1 \in 1..Len(order[e]) /\ 1 \in 1..Len(order[e])
        BY <1>3, <3>6, <1>2
      <4> QED
        BY <1>3, <3>6, <4>1 DEF ChannelInv, EndInv, PendingIsNewest
    <3>8. \A q \in Pipe!Kinds : pending'[e][q] = IF q = k THEN 0 ELSE pending[e][q]
      BY <1>3, <3>5 DEF ChannelInv, ChannelTypeOK
    <3>9. \A i \in 1..Len(order'[e]) : pending'[e][order'[e][i]] # 0
      BY <3>6, <3>7, <3>8, Messages DEF ChannelInv, EndInv, PendingIsNewest
    <3>10. \A i, j \in 1..Len(order'[e]) : order'[e][i] = order'[e][j] => i = j
      <4> TAKE i, j \in 1..Len(order'[e])
      <4> HAVE order'[e][i] = order'[e][j]
      <4>1. i + 1 = j + 1
        BY <3>6 DEF ChannelInv, EndInv, PendingIsNewest
      <4> QED
        BY <4>1, <3>6
    <3>11. \A q \in Pipe!Kinds : pending'[e][q] \in {0, sent'[e][q]}
      BY <1>1, <3>8 DEF ChannelInv, EndInv, PendingIsNewest
    <3> QED
      BY <2>1, <2>3, <3>4, <3>9, <3>10, <3>11 DEF EndInv, PendingIsNewest
  <2> QED
    BY <2>2, <2>3
<1> QED
  BY <1>5, <1>6 DEF ChannelInv

LEMMA SendPreserves ==
  ASSUME ChannelInv, NEW e \in Pipe!Ends, Pipe!Send(e)
  PROVE  ChannelInv'
<1> DEFINE m == sending[e]
           w == wire[e]
<1>1. /\ wire' = [wire EXCEPT ![e] = Append(@, m)] /\ sending' = [sending EXCEPT ![e] = Pipe!None]
      /\ UNCHANGED <<sent, pending, order, latest>>
  BY DEF Pipe!Send, Pipe!input
<1>2. m \in Message /\ w \in Seq(Message) /\ sending[e] # Pipe!None
  BY DEF Pipe!Send, ChannelInv, ChannelTypeOK
<1>3. ChannelTypeOK'
  BY <1>1, <1>2 DEF ChannelInv, ChannelTypeOK
<1>4. ASSUME NEW f \in Pipe!Ends PROVE EndInv(f)'
  <2>1. KnownWasSent(f)' /\ PendingIsNewest(f)'
    BY <1>1 DEF ChannelInv, EndInv, KnownWasSent, PendingIsNewest
  <2>2. CASE f # e
    <3>1. sending'[f] = sending[f] /\ wire'[f] = wire[f]
      BY <1>1, <2>2 DEF ChannelInv, ChannelTypeOK
    <3>2. SendingIsNext(f)'
      BY <1>1, <3>1 DEF ChannelInv, EndInv, SendingIsNext
    <3>3. WireInOrder(f)'
      <4>1. sent' = sent /\ latest' = latest
        BY <1>1
      <4>2. WireInOrder(f)
        BY DEF ChannelInv, EndInv
      <4> QED
        BY ONLY <3>1, <4>1, <4>2 DEF WireInOrder
    <3> QED
      BY <2>1, <3>2, <3>3 DEF EndInv
  <2>3. CASE f = e
    <3>1. sending'[e] = Pipe!None /\ wire'[e] = Append(w, m)
      BY <1>1 DEF ChannelInv, ChannelTypeOK
    <3>2. /\ Len(wire'[e]) = Len(w) + 1 /\ wire'[e][Len(w) + 1] = m
          /\ \A i \in 1..Len(w) : wire'[e][i] = w[i]
      BY <1>2, <3>1
    <3>3. /\ latest[Pipe!Other(e)][m.kind] <= m.val /\ m.val <= sent[e][m.kind]
          /\ \A i \in 1..Len(w) : w[i].kind = m.kind => w[i].val <= m.val
      BY <1>2 DEF ChannelInv, EndInv, SendingIsNext
    <3>4. \A i \in 1..Len(wire'[e]) : i \in 1..Len(w) \/ i = Len(w) + 1
      BY <1>2, <3>2
    <3>5. \A i, j \in 1..Len(wire'[e]) :
             i <= j /\ wire'[e][i].kind = wire'[e][j].kind => wire'[e][i].val <= wire'[e][j].val
      <4> TAKE i, j \in 1..Len(wire'[e])
      <4> HAVE i <= j /\ wire'[e][i].kind = wire'[e][j].kind
      <4>1. CASE j = Len(w) + 1 /\ i = j
        BY <1>2, <3>2, <4>1 DEF Message
      <4>2. CASE j = Len(w) + 1 /\ i # j
        BY <3>2, <3>3, <3>4, <4>2
      <4>3. CASE j # Len(w) + 1
        <5>1. i \in 1..Len(w) /\ j \in 1..Len(w)
          BY <1>2, <3>4, <4>3
        <5> QED
          BY <3>2, <5>1 DEF ChannelInv, EndInv, WireInOrder
      <4> QED
        BY <4>1, <4>2, <4>3
    <3>6. \A i \in 1..Len(wire'[e]) :
             /\ latest[Pipe!Other(e)][wire'[e][i].kind] <= wire'[e][i].val
             /\ wire'[e][i].val <= sent[e][wire'[e][i].kind]
      BY <3>2, <3>3, <3>4 DEF ChannelInv, EndInv, WireInOrder
    <3>7. WireInOrder(e)'
      BY <1>1, <3>5, <3>6 DEF WireInOrder
    <3>8. SendingIsNext(e)'
      BY <3>1 DEF SendingIsNext
    <3> QED
      BY <2>1, <2>3, <3>7, <3>8 DEF EndInv
  <2> QED
    BY <2>2, <2>3
<1> QED
  BY <1>3, <1>4 DEF ChannelInv

\* The message read is not older than the one known, and those behind it are
\* not older than it.
LEMMA ReceivePreserves ==
  ASSUME ChannelInv, NEW e \in Pipe!Ends, Pipe!Receive(e)
  PROVE  /\ ChannelInv'
         /\ LET o == Pipe!Other(e)  m == Head(wire[o]) IN
            /\ m.kind \in Pipe!Kinds /\ latest' = [latest EXCEPT ![e][m.kind] = m.val]
            /\ m.val \in latest[e][m.kind]..sent[o][m.kind]
<1> DEFINE o == Pipe!Other(e)
           w == wire[o]
           m == Head(w)
<1>1. /\ latest' = [latest EXCEPT ![e][m.kind] = m.val] /\ wire' = [wire EXCEPT ![o] = Tail(@)]
      /\ UNCHANGED <<sent, pending, order, sending>>
  BY DEF Pipe!Receive, Pipe!output
<1>2. o \in Pipe!Ends /\ Pipe!Other(o) = e /\ o # e
  BY OtherEnd
<1>3. w \in Seq(Message) /\ w # <<>>
  BY <1>2 DEF Pipe!Receive, ChannelInv, ChannelTypeOK
<1>4. m \in Message /\ m = w[1] /\ Len(w) > 0 /\ 1 \in 1..Len(w)
  BY <1>3
<1>5. m.kind \in Pipe!Kinds /\ m.val \in Nat
  BY <1>4 DEF Message
<1>6. latest[e][m.kind] <= m.val /\ m.val <= sent[o][m.kind]
  BY <1>2, <1>4 DEF ChannelInv, EndInv, WireInOrder
<1>7. m.val \in latest[e][m.kind]..sent[o][m.kind]
  BY <1>2, <1>5, <1>6, Numbers DEF ChannelInv
<1>8. ChannelTypeOK'
  <2>1. latest' \in [Pipe!Ends -> [Pipe!Kinds -> Nat]]
    BY <1>1, <1>5 DEF ChannelInv, ChannelTypeOK
  <2>2. wire' \in [Pipe!Ends -> Seq(Message)]
    BY <1>1, <1>2, <1>3 DEF ChannelInv, ChannelTypeOK
  <2> QED
    BY <1>1, <2>1, <2>2 DEF ChannelInv, ChannelTypeOK
<1>9. \A q \in Pipe!Kinds : latest'[e][q] = IF q = m.kind THEN m.val ELSE latest[e][q]
  <2>1. latest'[e] = [latest[e] EXCEPT ![m.kind] = m.val] /\ latest[e] \in [Pipe!Kinds -> Nat]
    BY <1>1 DEF ChannelInv, ChannelTypeOK
  <2> QED
    BY <1>5, <2>1
<1>10. ASSUME NEW f \in Pipe!Ends PROVE EndInv(f)'
  <2>1. PendingIsNewest(f)'
    BY <1>1 DEF ChannelInv, EndInv, PendingIsNewest
  <2>2. CASE f # o
    <3>1. f = e /\ Pipe!Other(f) = o
      BY <2>2, <1>2 DEF Pipe!Ends, Pipe!Other
    <3>2. wire'[f] = wire[f] /\ latest'[o] = latest[o]
      BY <1>1, <1>2, <2>2 DEF ChannelInv, ChannelTypeOK
    <3>3. SendingIsNext(f)'
      BY <1>1, <3>1, <3>2 DEF ChannelInv, EndInv, SendingIsNext
    <3>4. WireInOrder(f)'
      <4>1. sent' = sent
        BY <1>1
      <4>2. WireInOrder(f)
        BY DEF ChannelInv, EndInv
      <4> QED
        BY ONLY <3>1, <3>2, <4>1, <4>2 DEF WireInOrder
    <3>5. KnownWasSent(f)'
      BY <1>1, <3>1, <3>2 DEF ChannelInv, EndInv, KnownWasSent
    <3> QED
      BY <2>1, <3>3, <3>4, <3>5 DEF EndInv
  <2>3. CASE f = o
    <3>1. wire'[o] = Tail(w)
      BY <1>1, <1>2 DEF ChannelInv, ChannelTypeOK
    <3>2. /\ Len(wire'[o]) = Len(w) - 1
          /\ \A i \in 1..Len(wire'[o]) :
               wire'[o][i] = w[i + 1] /\ i + 1 \in 1..Len(w) /\ 1 <= i + 1
      BY <1>3, <3>1
    <3>3. \A i \in 1..Len(w) :
            /\ w[i].kind \in Pipe!Kinds /\ w[i].val \in Nat
            /\ w[i].kind = m.kind => m.val <= w[i].val
            /\ latest[e][w[i].kind] <= w[i].val
            /\ w[i].val <= sent[o][w[i].kind]
      <4> TAKE i \in 1..Len(w)
      <4>1. w[i].kind \in Pipe!Kinds /\ w[i].val \in Nat
        BY <1>2, Messages DEF ChannelInv
      <4>2. 1 <= i
        BY <1>3
      <4> QED
        BY <1>2, <1>4, <4>1, <4>2 DEF ChannelInv, EndInv, WireInOrder
    <3>4. \A i \in 1..Len(w) : latest'[e][w[i].kind] <= w[i].val
      BY <1>9, <3>3
    <3>5. \A i, j \in 1..Len(wire'[o]) :
             i <= j /\ wire'[o][i].kind = wire'[o][j].kind => wire'[o][i].val <= wire'[o][j].val
      <4> TAKE i, j \in 1..Len(wire'[o])
      <4> HAVE i <= j /\ wire'[o][i].kind = wire'[o][j].kind
      <4>1. /\ i + 1 \in 1..Len(w) /\ j + 1 \in 1..Len(w) /\ i + 1 <= j + 1
            /\ wire'[o][i] = w[i + 1] /\ wire'[o][j] = w[j + 1]
        BY <3>2
      <4> QED
        BY <1>2, <4>1 DEF ChannelInv, EndInv, WireInOrder
    <3>6. WireInOrder(o)'
      <4>1. ASSUME NEW i \in 1..Len(wire'[o])
            PROVE  /\ latest'[e][wire'[o][i].kind] <= wire'[o][i].val
                   /\ wire'[o][i].val <= sent'[o][wire'[o][i].kind]
        <5>1. wire'[o][i] = w[i + 1] /\ i + 1 \in 1..Len(w)
          BY <3>2
        <5>2. sent' = sent
          BY <1>1
        <5>3. w[i + 1].val <= sent[o][w[i + 1].kind] /\ latest'[e][w[i + 1].kind] <= w[i + 1].val
          BY <3>3, <3>4, <5>1
        <5> QED
          BY <5>1, <5>2, <5>3
      <4> QED
        BY <1>2, <3>5, <4>1 DEF WireInOrder
    <3>7. SendingIsNext(o)'
      <4> SUFFICES ASSUME sending[o] # Pipe!None PROVE SendingIsNext(o)'
        BY <1>1 DEF SendingIsNext
      <4>1. /\ sending[o].kind \in Pipe!Kinds /\ sending[o].val \in Nat
            /\ latest[e][sending[o].kind] <= sending[o].val
            /\ sending[o].val <= sent[o][sending[o].kind]
            /\ \A i \in 1..Len(w) : w[i].kind = sending[o].kind => w[i].val <= sending[o].val
        BY <1>2, Messages DEF ChannelInv, EndInv, SendingIsNext
      <4>2. latest'[e][sending[o].kind] <= sending[o].val
        BY <1>4, <1>9, <4>1
      <4>3. \A i \in 1..Len(wire'[o]) :
              wire'[o][i].kind = sending[o].kind => wire'[o][i].val <= sending[o].val
        BY <3>2, <4>1
      <4> QED
        BY <1>1, <1>2, <4>1, <4>2, <4>3 DEF SendingIsNext
    <3>8. KnownWasSent(o)'
      BY <1>1, <1>2, <1>6, <1>9 DEF ChannelInv, EndInv, KnownWasSent
    <3> QED
      BY <2>1, <2>3, <3>6, <3>7, <3>8 DEF EndInv
  <2> QED
    BY <2>2, <2>3
<1> QED
  BY <1>1, <1>5, <1>7, <1>8, <1>10 DEF ChannelInv

------------------------------------------------------------------------------
(* Every step, and the register it is.                                      *)

\* The steps that neither publish nor receive.
LEMMA QuietSteps ==
  ASSUME ChannelInv, NEW e \in Pipe!Ends,
         \/ Pipe!Pop(e) \/ Pipe!Send(e) \/ Pipe!SendFails(e) \/ Pipe!WriterEnds(e)
         \/ Pipe!Dispatched(e) \/ Pipe!ReceiveFails(e) \/ Pipe!DispatchFails(e)
         \/ Pipe!Disconnect(e) \/ Pipe!HangUp(e) \/ Pipe!Exit(e)
  PROVE  ChannelInv' /\ UNCHANGED <<sent, latest>>
<1>1. CASE Pipe!Pop(e)
  BY <1>1, PopPreserves DEF Pipe!Pop, Pipe!input
<1>2. CASE Pipe!Send(e)
  BY <1>2, SendPreserves DEF Pipe!Send, Pipe!input
<1>3. CASE Pipe!SendFails(e) \/ Pipe!ReceiveFails(e) \/ Pipe!DispatchFails(e) \/ Pipe!HangUp(e)
  BY <1>3, ClosePreserves DEF Pipe!SendFails, Pipe!ReceiveFails, Pipe!DispatchFails,
                              Pipe!ReaderCloses, Pipe!HangUp, Pipe!input
<1>4. CASE Pipe!WriterEnds(e) \/ Pipe!Dispatched(e) \/ Pipe!Disconnect(e)
  BY <1>4, DropsPreserve DEF Pipe!WriterEnds, Pipe!Dispatched, Pipe!Disconnect,
                             Pipe!output, Pipe!input, ChannelInv, ChannelTypeOK
<1>5. CASE Pipe!Exit(e)
  <2>1. /\ UNCHANGED <<sent, wire, latest>> /\ pending' = [pending EXCEPT ![e] = Pipe!Zero]
        /\ order' = [order EXCEPT ![e] = <<>>] /\ sending' = [sending EXCEPT ![e] = Pipe!None]
    BY <1>5 DEF Pipe!Exit
  <2>2. Pipe!Zero \in [Pipe!Kinds -> Nat] /\ <<>> \in Seq(Pipe!Kinds)
    BY DEF Pipe!Zero
  <2>3. /\ pending' \in [Pipe!Ends -> [Pipe!Kinds -> Nat]] /\ order' \in [Pipe!Ends -> Seq(Pipe!Kinds)]
        /\ sending' \in [Pipe!Ends -> Message \cup {Pipe!None}]
    BY <2>1, <2>2 DEF ChannelInv, ChannelTypeOK
  <2>4. \A f \in Pipe!Ends :
          /\ \/ pending'[f] = pending[f] /\ order'[f] = order[f]
             \/ pending'[f] = Pipe!Zero /\ order'[f] = <<>>
          /\ sending'[f] \in {sending[f], Pipe!None}
    <3> TAKE f \in Pipe!Ends
    <3>1. CASE f = e
      BY <2>1, <3>1 DEF ChannelInv, ChannelTypeOK
    <3>2. CASE f # e
      <4>1. pending'[f] = pending[f] /\ order'[f] = order[f]
        BY <2>1, <3>2 DEF ChannelInv, ChannelTypeOK
      <4>2. sending'[f] = sending[f]
        BY <2>1, <3>2 DEF ChannelInv, ChannelTypeOK
      <4> QED
        BY <4>1, <4>2
    <3> QED
      BY <3>1, <3>2
  <2> QED
    BY <2>1, <2>3, <2>4, DropsPreserve
<1> QED
  BY <1>1, <1>2, <1>3, <1>4, <1>5

LEMMA NextChannel == ChannelInv /\ [Pipe!Next]_(Pipe!vars) => ChannelInv'
<1> SUFFICES ASSUME ChannelInv, [Pipe!Next]_(Pipe!vars) PROVE ChannelInv'
  OBVIOUS
<1>1. CASE UNCHANGED Pipe!vars
  BY <1>1, DropsPreserve DEF Pipe!vars, Pipe!output, Pipe!input, ChannelInv, ChannelTypeOK
<1>2. ASSUME NEW e \in Pipe!Ends, NEW k \in Pipe!Sends(e), Pipe!Publish(e, k) PROVE ChannelInv'
  BY <1>2, OtherEnd, PublishPreserves
<1>3. ASSUME NEW e \in Pipe!Ends, Pipe!Receive(e) PROVE ChannelInv'
  BY <1>3, ReceivePreserves
<1> QED
  BY <1>1, <1>2, <1>3, QuietSteps DEF Pipe!Next, Pipe!Threads

\* The register's variables and steps are those of the channel: a message that
\* is published is the register's, one that is read is what it learns.
LEMMA StepIsRegisters ==
  ChannelInv /\ [Pipe!Next]_(Pipe!vars) =>
    [Pipe!Register!Next]_<<sent, [e \in Pipe!Ends |-> latest[Pipe!Other(e)]]>>
<1> DEFINE known == [e \in Pipe!Ends |-> latest[Pipe!Other(e)]]
<1> SUFFICES ASSUME ChannelInv, [Pipe!Next]_(Pipe!vars)
             PROVE  Pipe!Register!Next \/ UNCHANGED <<sent, known>>
  OBVIOUS
<1>1. ASSUME UNCHANGED <<sent, latest>> PROVE UNCHANGED <<sent, known>>
  BY <1>1
<1>2. ASSUME NEW e \in Pipe!Ends, NEW k \in Pipe!Sends(e), Pipe!Publish(e, k)
      PROVE  Pipe!Register!Next \/ UNCHANGED <<sent, known>>
  <2>1. k \in Pipe!Kinds /\ sent[e][k] \in 0..MaxValue
    BY OtherEnd, Numbers DEF ChannelInv
  <2>2. sent' = [sent EXCEPT ![e][k] = Pipe!Newer(sent[e][k])] /\ latest' = latest
    BY <1>2 DEF Pipe!Publish, Pipe!input
  <2>3. CASE sent[e][k] < MaxValue
    <3>1. Pipe!Register!Publish(e, k)
      BY <2>2, <2>3 DEF Pipe!Newer, Pipe!Register!Publish
    <3> QED
      BY <2>1, <3>1 DEF Pipe!Register!Next
  <2>4. CASE ~(sent[e][k] < MaxValue)
    <3>1. sent' = sent
      BY <2>1, <2>2, <2>4 DEF Pipe!Newer, ChannelInv, ChannelTypeOK
    <3> QED
      BY <1>1, <2>2, <3>1
  <2> QED
    BY <2>3, <2>4
<1>3. ASSUME NEW e \in Pipe!Ends, Pipe!Receive(e) PROVE Pipe!Register!Next
  <2> DEFINE o == Pipe!Other(e)
             m == Head(wire[o])
  <2>1. /\ m.kind \in Pipe!Kinds /\ latest' = [latest EXCEPT ![e][m.kind] = m.val]
        /\ m.val \in latest[e][m.kind]..sent[o][m.kind] /\ sent' = sent
    BY <1>3, ReceivePreserves DEF Pipe!Receive, Pipe!output
  <2>2. o \in Pipe!Ends /\ Pipe!Other(o) = e /\ known[o] = latest[e]
    BY OtherEnd
  <2>3. known' = [known EXCEPT ![o][m.kind] = m.val]
    <3>1. ASSUME NEW f \in Pipe!Ends, f # o PROVE Pipe!Other(f) # e
      BY <2>2, <3>1 DEF Pipe!Ends, Pipe!Other
    <3>2. ASSUME NEW f \in Pipe!Ends PROVE known'[f] = [known EXCEPT ![o][m.kind] = m.val][f]
      <4>1. CASE f = o
        BY <2>1, <2>2, <4>1 DEF ChannelInv, ChannelTypeOK
      <4>2. CASE f # o
        BY <2>1, <2>2, <3>1, <4>2, OtherEnd DEF ChannelInv, ChannelTypeOK
      <4> QED
        BY <4>1, <4>2
    <3> HIDE DEF m, o
    <3> QED
      BY <3>2
  <2>4. Pipe!Register!Learn(o, m.kind)
    BY <2>1, <2>2, <2>3 DEF Pipe!Register!Learn
  <2> QED
    BY <2>1, <2>2, <2>4 DEF Pipe!Register!Next
<1>4. CASE UNCHANGED Pipe!vars
  BY <1>1, <1>4 DEF Pipe!vars, Pipe!output, Pipe!input
<1> QED
  BY <1>1, <1>2, <1>3, <1>4, QuietSteps DEF Pipe!Next, Pipe!Threads

\* Between what was sent and what is known every message is in its place: the
\* pipe and the two threads of publish, _write and _read.
THEOREM ChannelInvariant ==
  ASSUME MaxValue \in Nat \ {0} PROVE Pipe!Spec => []ChannelInv
<1>1. Pipe!Init => ChannelInv
  BY InitChannel
<1>2. ChannelInv /\ [Pipe!Next]_(Pipe!vars) => ChannelInv'
  BY NextChannel
<1> QED
  BY <1>1, <1>2, PTL DEF Pipe!Spec

\* A channel is a register of the latest value of each kind, each way: what is
\* learned was published, and is never older than what was learned before.
THEOREM ChannelIsRegister ==
  ASSUME MaxValue \in Nat \ {0} PROVE Pipe!Spec => Pipe!ImplementsLatestValue
<1>1. Pipe!Init => Pipe!Register!Init
  BY OtherEnd DEF Pipe!Init, Pipe!Register!Init, Pipe!Zero
<1>2. ChannelInv /\ [Pipe!Next]_(Pipe!vars) =>
        [Pipe!Register!Next]_<<sent, [e \in Pipe!Ends |-> latest[Pipe!Other(e)]]>>
  BY StepIsRegisters
<1> QED
  BY <1>1, <1>2, ChannelInvariant, PTL
     DEF Pipe!Spec, Pipe!ImplementsLatestValue, Pipe!Register!Spec
==============================================================================
