--------------------------- MODULE RuntimeChannel ---------------------------
(***************************************************************************)
(* RuntimeChannel (modules/session/runtime_channel.py): the pipe between   *)
(* the App and one child process.  Each end has a thread that reads and a  *)
(* thread that writes; of what is not yet written it keeps the newest      *)
(* message of each kind.  A message is its number among those of its kind. *)
(*                                                                         *)
(* A step is what a thread does under _condition, or between two of those. *)
(* Of the pipe of the operating system: it holds a few messages, what was  *)
(* written can be read after its writer closed, and closing an end wakes   *)
(* who reads or writes there.                                              *)
(***************************************************************************)
EXTENDS Naturals, Sequences

CONSTANTS
  FromApp, FromChild,   \* the kinds of messages each end publishes
  MaxKinds,             \* MAX_MESSAGE_KINDS
  MaxValue,             \* bound: later messages of a kind are not told apart
  WireSize              \* bound: messages the pipe holds

ASSUME ChannelAssumption == MaxValue \in Nat \ {0}

Ends == {"app", "child"}
Other(e) == IF e = "app" THEN "child" ELSE "app"
Kinds    == FromApp \cup FromChild
Sends(e) == IF e = "app" THEN FromApp ELSE FromChild

VARIABLES
  sent,      \* sent[e][k]: the message of kind k that e published last
  pending,   \* _pending, 0 where there is none
  order,     \* the order of its keys
  sending,   \* what the writer has popped and not written, while _sending
  wire,      \* written by e and not read
  latest,    \* _latest
  reader, writer,   \* the two threads of an end
  state,     \* "open", "flagged" is _closed, "cut" has the connection closed too
  ownEnd     \* history: the ends that did not close for want of a message

output == <<sent, pending, order, sending>>
input  == <<latest, reader>>
ending == <<writer, state, ownEnd>>
vars   == <<output, wire, input, ending>>

None == <<>>
Zero == [k \in Kinds |-> 0]

Init ==
  /\ sent = [e \in Ends |-> Zero] /\ pending = sent /\ latest = sent
  /\ order = [e \in Ends |-> <<>>] /\ wire = order /\ sending = [e \in Ends |-> None]
  /\ reader = [e \in Ends |-> "recv"] /\ writer = [e \in Ends |-> "wait"]
  /\ state = [e \in Ends |-> "open"] /\ ownEnd = {}

Closed(e)    == state[e] # "open"
Connected(e) == state[e] \in {"open", "flagged"}

------------------------------------------------------------------------------
(* publish, and the thread that writes.                                     *)

Newer(n) == IF n < MaxValue THEN n + 1 ELSE n

\* An unsent message of the same kind is replaced where it stands.
Enqueue(e, k) == order' = IF pending[e][k] # 0 THEN order ELSE [order EXCEPT ![e] = Append(@, k)]
Publish(e, k) ==
  /\ ~Closed(e) /\ (pending[e][k] # 0 \/ Len(order[e]) < MaxKinds)
  /\ sent' = [sent EXCEPT ![e][k] = Newer(@)]
  /\ pending' = [pending EXCEPT ![e][k] = sent'[e][k]]
  /\ Enqueue(e, k)
  /\ UNCHANGED <<sending, wire, input, ending>>

(* Faulty: popitem takes the kind that was added last. *)
PopLast(e) ==
  /\ writer[e] = "wait" /\ ~Closed(e) /\ sending[e] = None /\ order[e] # <<>>
  /\ LET k == order[e][Len(order[e])] IN
     /\ sending' = [sending EXCEPT ![e] = [kind |-> k, val |-> pending[e][k]]]
     /\ pending' = [pending EXCEPT ![e][k] = 0]
  /\ order' = [order EXCEPT ![e] = SubSeq(@, 1, Len(@) - 1)]
  /\ UNCHANGED <<sent, wire, input, ending>>

Pop(e) ==
  /\ writer[e] = "wait" /\ ~Closed(e) /\ sending[e] = None /\ order[e] # <<>>
  /\ LET k == Head(order[e]) IN
     /\ sending' = [sending EXCEPT ![e] = [kind |-> k, val |-> pending[e][k]]]
     /\ pending' = [pending EXCEPT ![e][k] = 0]
  /\ order' = [order EXCEPT ![e] = Tail(@)]
  /\ UNCHANGED <<sent, wire, input, ending>>

Send(e) ==
  /\ sending[e] # None /\ writer[e] = "wait"
  /\ Connected(e) /\ Connected(Other(e)) /\ Len(wire[e]) < WireSize
  /\ wire' = [wire EXCEPT ![e] = Append(@, sending[e])]
  /\ sending' = [sending EXCEPT ![e] = None]
  /\ UNCHANGED <<sent, pending, order, input, ending>>

WriterEnds(e) ==
  /\ writer[e] = "wait" /\ Closed(e) /\ sending[e] = None
  /\ writer' = [writer EXCEPT ![e] = "done"]
  /\ UNCHANGED <<output, wire, input, state, ownEnd>>

(* Faulty: a message that is being written is not waited for. *)
FlushedEarly == ~Closed("child") /\ order["child"] = <<>>

\* flush returns True.  Only a child flushes: what it is ready with, and why it
\* fails to start.
Flushed == ~Closed("child") /\ order["child"] = <<>> /\ sending["child"] = None

------------------------------------------------------------------------------
(* close.                                                                   *)

\* The first call sets _closed and drops what is pending; the rest return.
BeginClose(e) ==
  IF Closed(e) THEN UNCHANGED <<state, pending, order>>
  ELSE /\ state' = [state EXCEPT ![e] = "flagged"]
       /\ pending' = [pending EXCEPT ![e] = Zero] /\ order' = [order EXCEPT ![e] = <<>>]
OwnEnd(e) == ownEnd' = IF Closed(e) THEN ownEnd ELSE ownEnd \cup {e}

\* Somebody closes the channel: ChildPipe.close in the App.
HangUp(e) ==
  /\ ~Closed(e) /\ BeginClose(e) /\ OwnEnd(e)
  /\ UNCHANGED <<sent, sending, wire, input, writer>>

Disconnect(e) ==
  /\ state[e] = "flagged" /\ state' = [state EXCEPT ![e] = "cut"]
  /\ UNCHANGED <<output, wire, input, writer, ownEnd>>

SendFails(e) ==
  /\ sending[e] # None /\ writer[e] = "wait" /\ ~(Connected(e) /\ Connected(Other(e)))
  /\ writer' = [writer EXCEPT ![e] = "done"]
  /\ BeginClose(e) /\ OwnEnd(e)
  /\ UNCHANGED <<sent, sending, wire, input>>

\* The process of this end ends, with whatever its threads were at.
Exit(e) ==
  /\ state' = [state EXCEPT ![e] = "cut"] /\ OwnEnd(e)
  /\ pending' = [pending EXCEPT ![e] = Zero] /\ order' = [order EXCEPT ![e] = <<>>]
  /\ sending' = [sending EXCEPT ![e] = None]
  /\ reader' = [reader EXCEPT ![e] = "done"] /\ writer' = [writer EXCEPT ![e] = "done"]
  /\ UNCHANGED <<sent, wire, latest>>

------------------------------------------------------------------------------
(* The thread that reads.                                                   *)

(* Faulty: what came last is all that is kept, of whatever kind. *)
ReceiveForgets(e) ==
  /\ reader[e] = "recv" /\ Connected(e) /\ wire[Other(e)] # <<>>
  /\ LET m == Head(wire[Other(e)]) IN latest' = [latest EXCEPT ![e] = [Zero EXCEPT ![m.kind] = m.val]]
  /\ wire' = [wire EXCEPT ![Other(e)] = Tail(@)]
  /\ reader' = [reader EXCEPT ![e] = "on_message"]
  /\ UNCHANGED <<output, ending>>

Receive(e) ==
  /\ reader[e] = "recv" /\ Connected(e) /\ wire[Other(e)] # <<>>
  /\ LET m == Head(wire[Other(e)]) IN latest' = [latest EXCEPT ![e][m.kind] = m.val]
  /\ wire' = [wire EXCEPT ![Other(e)] = Tail(@)]
  /\ reader' = [reader EXCEPT ![e] = "on_message"]
  /\ UNCHANGED <<output, ending>>

Dispatched(e) ==
  /\ reader[e] = "on_message" /\ reader' = [reader EXCEPT ![e] = "recv"]
  /\ UNCHANGED <<output, wire, latest, ending>>

ReaderCloses(e) ==
  /\ reader' = [reader EXCEPT ![e] = "done"] /\ BeginClose(e)
  /\ UNCHANGED <<sent, sending, wire, latest, writer>>

DispatchFails(e) == reader[e] = "on_message" /\ ReaderCloses(e) /\ OwnEnd(e)
(* Faulty: the reader does not close when it ends. *)
ReceiveGivesUp(e) ==
  /\ reader[e] = "recv"
  /\ ~Connected(e) \/ (wire[Other(e)] = <<>> /\ ~Connected(Other(e)))
  /\ reader' = [reader EXCEPT ![e] = "done"]
  /\ UNCHANGED <<output, wire, latest, ending>>

ReceiveFails(e) ==
  /\ reader[e] = "recv"
  /\ ~Connected(e) \/ (wire[Other(e)] = <<>> /\ ~Connected(Other(e)))
  /\ ReaderCloses(e) /\ UNCHANGED ownEnd

------------------------------------------------------------------------------
Threads(e) ==
  \/ Pop(e) \/ Send(e) \/ SendFails(e) \/ WriterEnds(e)
  \/ Receive(e) \/ Dispatched(e) \/ ReceiveFails(e) \/ Disconnect(e)
Next ==
  \E e \in Ends :
       \/ \E k \in Sends(e) : Publish(e, k)
       \/ Threads(e) \/ HangUp(e) \/ Exit(e) \/ DispatchFails(e)

\* Both threads of an end run, on_message returns, and a close goes on.
Fairness ==
  \A e \in Ends :
    /\ WF_vars(Pop(e) \/ Send(e) \/ SendFails(e) \/ WriterEnds(e))
    /\ WF_vars(Receive(e) \/ Dispatched(e) \/ ReceiveFails(e))
    /\ WF_vars(Disconnect(e))
Spec == Init /\ [][Next]_vars /\ Fairness

------------------------------------------------------------------------------
(* What it promises.                                                        *)

\* Each way and for each kind the other end learns of the newest message, and
\* never goes back: the abstract register, of which known is latest.
Register == INSTANCE LatestValue WITH
  newest <- sent, known <- [e \in Ends |-> latest[Other(e)]]
ImplementsLatestValue == Register!Spec

\* No kind of message starves, however often another is published: the newest
\* of each gets there, unless the channel is closed first.
NewestArrives ==
  \A e \in Ends : \A k \in Sends(e), v \in 1..MaxValue :
    sent[e][k] >= v ~> latest[Other(e)][k] >= v \/ Closed("app") \/ Closed("child")

\* What a child has flushed gets there, even if the child ends at once, unless
\* the App closes the channel itself or has a message of its own fail.
FlushedArrives ==
  \A k \in FromChild, v \in 1..MaxValue :
    Flushed /\ sent["child"][k] >= v ~> latest["app"][k] >= v \/ "app" \in ownEnd

\* When one end closes or its process ends, all four threads come to their end.
ChannelsEnd ==
  Closed("app") \/ Closed("child") ~>
    \A f \in Ends : Closed(f) /\ reader[f] = "done" /\ writer[f] = "done"
=============================================================================
