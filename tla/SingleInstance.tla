----------------------------- MODULE SingleInstance -----------------------------
(***************************************************************************)
(* The single owner of the desktop control surface (DesktopInstanceOwner): *)
(* a lock file created exclusively, an owner file written after it, and an *)
(* activation file through which a later launch wakes the owner.  Launches *)
(* interleave between any two file operations, and any process may die.    *)
(*                                                                         *)
(* The file system is that of Windows, the only system the program runs    *)
(* on: a file its creator still holds open cannot be unlinked, the attempt *)
(* raises PermissionError.                                                 *)
(***************************************************************************)
EXTENDS Naturals

CONSTANTS
  Procs,    \* processes of the program; each may be launched repeatedly
  BuildOf,  \* the build each of them runs
  Nobody    \* no process

ASSUME ProcsAssumption == Nobody \notin Procs

VARIABLES
  pc,       \* the step each process has reached
  attempt,  \* the pass of acquire's loop it is in
  asked,    \* the owner it is about to wake
  lockFile, \* does the lock file exist
  holder,   \* the process that has it open
  owner,    \* the live process named by the owner file, if any
  request,  \* the live process an unread activation request is for
  alone     \* history: nothing else has run since this process was launched

vars == <<pc, attempt, asked, lockFile, holder, owner, request, alone>>

Acquiring == {"create", "naming", "abandoning", "reading", "asking",
              "unlocking", "clearing"}
Leaving   == {"disowning", "unlinking"}
\* How a launch or a session ends: exit code 0, 2, 3, a PermissionError on the
\* lock file, another failure, or a normal end.
Ends == {"refused", "unanswered", "conflict", "blocked", "failed", "done"}

Init ==
  /\ pc = [p \in Procs |-> "off"]
  /\ attempt = [p \in Procs |-> 1]
  /\ asked = [p \in Procs |-> Nobody]
  /\ lockFile = FALSE /\ holder = Nobody /\ owner = Nobody /\ request = Nobody
  /\ alone = [p \in Procs |-> FALSE]

Goto(p, step) == pc' = [pc EXCEPT ![p] = step]

Launch(p) ==
  /\ pc[p] = "off" /\ Goto(p, "create")
  /\ attempt' = [attempt EXCEPT ![p] = 1]
  /\ alone' = [q \in Procs |-> q = p /\ \A r \in Procs \ {p} : pc[r] = "off"]
  /\ UNCHANGED <<asked, lockFile, holder, owner, request>>

-----------------------------------------------------------------------------
(* acquire                                                                 *)

\* Faulty: the lock file is opened without O_EXCL.
CreateLockShared(p) ==
  /\ pc[p] = "create" /\ Goto(p, "naming")
  /\ lockFile' = TRUE /\ holder' = p
  /\ UNCHANGED <<attempt, asked, owner, request, alone>>

CreateLock(p) ==
  /\ pc[p] = "create"
  /\ IF lockFile THEN Goto(p, "reading") /\ UNCHANGED <<lockFile, holder>>
     ELSE Goto(p, "naming") /\ lockFile' = TRUE /\ holder' = p
  /\ UNCHANGED <<attempt, asked, owner, request, alone>>

\* The owner file is written, or fails to be and the descriptor is closed.
WriteOwner(p) ==
  /\ pc[p] = "naming"
  /\ \/ Goto(p, "owner") /\ owner' = p /\ UNCHANGED holder
     \/ Goto(p, "abandoning") /\ holder' = Nobody /\ UNCHANGED owner
  /\ UNCHANGED <<attempt, asked, lockFile, request, alone>>

\* One unlink of the lock file; a missing file is no error.
UnlinkLock(p, next) ==
  /\ IF holder # Nobody THEN Goto(p, "blocked") /\ UNCHANGED lockFile
     ELSE Goto(p, next) /\ lockFile' = FALSE
  /\ UNCHANGED <<attempt, asked, holder, owner, request, alone>>

Abandon(p) == pc[p] = "abandoning" /\ UnlinkLock(p, "failed")

\* An owner file that names no live process is stale, whatever the lock says.
ReadOwner(p) ==
  /\ pc[p] = "reading"
  /\ IF owner = Nobody THEN Goto(p, "unlocking") /\ UNCHANGED asked
     ELSE IF BuildOf[owner] # BuildOf[p] THEN Goto(p, "conflict") /\ UNCHANGED asked
     ELSE Goto(p, "asking") /\ asked' = [asked EXCEPT ![p] = owner]
  /\ UNCHANGED <<attempt, lockFile, holder, owner, request, alone>>

RequestActivation(p) ==
  /\ pc[p] = "asking"
  /\ \/ Goto(p, "refused") /\ request' = asked[p]
     \/ Goto(p, "unanswered") /\ UNCHANGED request
  /\ UNCHANGED <<attempt, asked, lockFile, holder, owner, alone>>

RemoveLock(p) == pc[p] = "unlocking" /\ UnlinkLock(p, "clearing")

\* Faulty: one pass instead of two.
RemoveOwnerOnce(p) ==
  /\ pc[p] = "clearing"
  /\ owner' = Nobody /\ Goto(p, "unanswered")
  /\ UNCHANGED <<attempt, asked, lockFile, holder, request, alone>>

\* The owner file is removed unconditionally.  The loop runs twice.
RemoveOwner(p) ==
  /\ pc[p] = "clearing"
  /\ \/ /\ owner' = Nobody
        /\ IF attempt[p] = 1
           THEN Goto(p, "create") /\ attempt' = [attempt EXCEPT ![p] = 2]
           ELSE Goto(p, "unanswered") /\ UNCHANGED attempt
     \/ Goto(p, "failed") /\ UNCHANGED <<owner, attempt>>
  /\ UNCHANGED <<asked, lockFile, holder, request, alone>>

-----------------------------------------------------------------------------
(* The session: consume_activation_request, release, exit or crash.        *)

Consume(p) ==
  /\ pc[p] = "owner" /\ request = p
  /\ request' = Nobody
  /\ UNCHANGED <<pc, attempt, asked, lockFile, holder, owner, alone>>

\* release reads the owner file and closes the descriptor; it goes on only if
\* the file was its own, and then no longer asks.
Release(p) ==
  /\ pc[p] = "owner"
  /\ IF owner = p THEN Goto(p, "disowning") ELSE Goto(p, "done")
  /\ holder' = Nobody
  /\ UNCHANGED <<attempt, asked, lockFile, owner, request, alone>>

Disown(p) ==
  /\ pc[p] = "disowning" /\ Goto(p, "unlinking")
  /\ owner' = Nobody
  /\ UNCHANGED <<attempt, asked, lockFile, holder, request, alone>>

Unlink(p) == pc[p] = "unlinking" /\ UnlinkLock(p, "done")

\* A dead process holds nothing open, and what names it names nobody alive;
\* its next launch has another pid, start time and owner_id.
Die(p) ==
  /\ pc[p] # "off" /\ Goto(p, "off")
  /\ holder' = IF holder = p THEN Nobody ELSE holder
  /\ owner' = IF owner = p THEN Nobody ELSE owner
  /\ request' = IF request = p THEN Nobody ELSE request
  /\ asked' = [q \in Procs |-> IF p \in {q, asked[q]} THEN Nobody ELSE asked[q]]
  /\ UNCHANGED <<attempt, lockFile, alone>>

Acquire(p) == \/ Launch(p) \/ CreateLock(p) \/ WriteOwner(p) \/ Abandon(p)
              \/ ReadOwner(p) \/ RequestActivation(p) \/ RemoveLock(p)
              \/ RemoveOwner(p)
Session(p) == Consume(p) \/ Release(p) \/ Disown(p) \/ Unlink(p) \/ Die(p)

Next == \E p \in Procs : Acquire(p) \/ Session(p)

Spec == Init /\ [][Next]_vars

-----------------------------------------------------------------------------
(* Properties.                                                             *)

\* Every variable keeps its type; the loop of acquire runs at most twice
\* (single_instance.py:106).
TypeOK ==
  /\ pc \in [Procs -> {"off", "owner"} \cup Acquiring \cup Leaving \cup Ends]
  /\ attempt \in [Procs -> {1, 2}]
  /\ asked \in [Procs -> Procs \cup {Nobody}]
  /\ lockFile \in BOOLEAN
  /\ {holder, owner, request} \subseteq Procs \cup {Nobody}
  /\ alone \in [Procs -> BOOLEAN]

\* At most one process is the control surface or about to become it, however
\* launches, stale removals, releases and crashes interleave
\* (single_instance.py:3, 106-130).
OneOwner ==
  \A p, q \in Procs : {pc[p], pc[q]} \subseteq {"naming", "owner"} => p = q

\* A launch is only ever turned away to the process in charge, or to one whose
\* release has not yet removed its file (single_instance.py:121-127, 135-143).
OwnerFileIsTrue == owner # Nobody => pc[owner] \in {"owner", "disowning"}

\* A launch while nothing else runs takes over whatever crashed or half-ended
\* sessions left: it is not turned away and never trips over the lock, short
\* of an error of the file system (single_instance.py:4, 102).
LoneLaunchTakesOver ==
  \A p \in Procs : alone[p] =>
    pc[p] \notin {"asking", "refused", "conflict", "unanswered", "blocked"}

\* The process in charge holds the lock file open, and that keeps it there.
HolderInv ==
  /\ \A p \in Procs : pc[p] \in {"naming", "owner"} <=> holder = p
  /\ holder # Nobody => lockFile

\* Behind LoneLaunchTakesOver: every other process is off, and a second pass
\* finds the lock file gone.
AloneInv ==
  \A p \in Procs : alone[p] =>
    /\ \A q \in Procs \ {p} : pc[q] = "off"
    /\ attempt[p] = 2 => pc[p] \notin {"reading", "unlocking", "clearing"}
    /\ pc[p] = "clearing" => ~ lockFile
    /\ attempt[p] = 2 /\ pc[p] = "create" => ~ lockFile

\* The inductive invariant behind the safety properties.
IInv == TypeOK /\ HolderInv /\ OwnerFileIsTrue /\ AloneInv /\ LoneLaunchTakesOver
=============================================================================
