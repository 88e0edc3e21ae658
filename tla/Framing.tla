------------------------------ MODULE Framing ------------------------------
(***************************************************************************)
(* WrappedSocket (libdae/src/app.rs): messages over a stream of bytes.     *)
(* Several threads send through clones of one socket, as the event loop    *)
(* and the main thread of the core do to the input thread.  A sender       *)
(* serializes its message, takes the lock all clones share and writes the  *)
(* bytes as the socket has room for them; the receiver reads bytes until   *)
(* it has a message.  The bytes of a message tell where it ends.  Either   *)
(* process may end; a send to a receiver that is gone returns an error.    *)
(***************************************************************************)
EXTENDS Integers, Sequences, SequencesExt, FiniteSetsExt

CONSTANTS
  Sender,     (* Threads that hold a clone.                                 *)
  Msg,        (* Messages.                                                  *)
  Size,       (* The number of bytes of each.                               *)
  NoMsg,
  ByteCap,    (* Bytes the socket holds.                                    *)
  MaxSends    (* Bound: calls of each sender.                               *)

ASSUME FramingAssumption ==
  /\ NoMsg \notin Msg /\ Size \in [Msg -> Nat \ {0}]
  /\ ByteCap \in Nat \ {0} /\ MaxSends \in Nat

(* A byte, as what it is of its message. *)
Byte(m, i) == [of |-> m, at |-> i]
Bytes(m)   == [i \in 1..Size[m] |-> Byte(m, i)]

VARIABLES
  msg,          (* The message of the call under way of each sender.        *)
  written,      (* How many of its bytes each has written.                  *)
  write_mutex,  (* The senders that hold the lock.                          *)
  sends,        (* The calls each has made.                                 *)
  alive,        (* Whether the sending process is.                          *)
  pipe,         (* Bytes in the socket.                                     *)
  frame,        (* Bytes the receiver has read of a message.                *)
  received,     (* The message it received last.                            *)
  reader        (* "reading", "torn", "ended" (there is no sender left) or  *)
                (* "closed": its end is.                                    *)

senders   == <<msg, written, write_mutex, sends, alive>>
receiver  == <<frame, received, reader>>
frameVars == <<senders, pipe, receiver>>

FrameInit ==
  /\ msg = [s \in Sender |-> NoMsg] /\ written = [s \in Sender |-> 0]
  /\ write_mutex = {} /\ sends = [s \in Sender |-> 0] /\ alive = TRUE
  /\ pipe = <<>>
  /\ frame = <<>> /\ received = NoMsg /\ reader = "reading"

-----------------------------------------------------------------------------
CallSend(s) ==
  /\ alive /\ msg[s] = NoMsg /\ sends[s] < MaxSends
  /\ \E m \in Msg : msg' = [msg EXCEPT ![s] = m]
  /\ sends' = [sends EXCEPT ![s] = @ + 1]
  /\ UNCHANGED <<written, write_mutex, alive, pipe, receiver>>

(* Mistaken: each clone has a lock of its own. *)
LockOwn(s) ==
  /\ alive /\ msg[s] # NoMsg /\ s \notin write_mutex
  /\ write_mutex' = write_mutex \cup {s}
  /\ UNCHANGED <<msg, written, sends, alive, pipe, receiver>>

Lock(s) ==
  /\ alive /\ msg[s] # NoMsg /\ write_mutex = {}
  /\ write_mutex' = {s}
  /\ UNCHANGED <<msg, written, sends, alive, pipe, receiver>>

Holds(s) == alive /\ msg[s] # NoMsg /\ s \in write_mutex
Closed   == reader = "closed"

(* One round of write_all: some of the bytes that are left. *)
Write(s) ==
  /\ Holds(s) /\ ~Closed
  /\ \E n \in 1..Min({Size[msg[s]] - written[s], ByteCap - Len(pipe)}) :
       /\ pipe' = pipe \o SubSeq(Bytes(msg[s]), written[s] + 1, written[s] + n)
       /\ written' = [written EXCEPT ![s] = @ + n]
  /\ UNCHANGED <<msg, write_mutex, sends, alive, receiver>>

(* Mistaken: what was written of one message counts for the next. *)
ReturnCounting(s) ==
  /\ Holds(s) /\ written[s] = Size[msg[s]]
  /\ msg' = [msg EXCEPT ![s] = NoMsg]
  /\ write_mutex' = write_mutex \ {s}
  /\ UNCHANGED <<written, sends, alive, pipe, receiver>>

(* Mistaken: the lock outlives the call. *)
ReturnLocked(s) ==
  /\ Holds(s) /\ written[s] = Size[msg[s]]
  /\ msg' = [msg EXCEPT ![s] = NoMsg]
  /\ written' = [written EXCEPT ![s] = 0]
  /\ UNCHANGED <<write_mutex, sends, alive, pipe, receiver>>

Return(s) ==
  /\ Holds(s) /\ written[s] = Size[msg[s]]
  /\ msg' = [msg EXCEPT ![s] = NoMsg]
  /\ written' = [written EXCEPT ![s] = 0]
  /\ write_mutex' = write_mutex \ {s}
  /\ UNCHANGED <<sends, alive, pipe, receiver>>

(* SerializeBufferFull: write_all fails with bytes left, and the lock is      *)
(* released.                                                                  *)
SendFails(s) ==
  /\ Holds(s) /\ Closed /\ written[s] < Size[msg[s]]
  /\ msg' = [msg EXCEPT ![s] = NoMsg]
  /\ written' = [written EXCEPT ![s] = 0]
  /\ write_mutex' = write_mutex \ {s}
  /\ UNCHANGED <<sends, alive, pipe, receiver>>

(* One byte: the first of a message says how many follow.  A byte that is not *)
(* the next one of its message makes another message or none.                 *)
ReadByte ==
  LET bytes == Append(frame, Head(pipe))
      m     == bytes[1].of
  IN
  /\ reader = "reading" /\ pipe # <<>>
  /\ pipe' = Tail(pipe)
  /\ received' = IF bytes = Bytes(m) THEN m ELSE received
  /\ frame' = IF IsStrictPrefix(bytes, Bytes(m)) THEN bytes ELSE <<>>
  /\ reader' = IF IsPrefix(bytes, Bytes(m)) THEN reader ELSE "torn"
  /\ UNCHANGED senders

(* The process of the senders ends, in the middle of a message perhaps. *)
SendersEnd ==
  /\ alive /\ alive' = FALSE
  /\ msg' = [s \in Sender |-> NoMsg] /\ written' = [s \in Sender |-> 0] /\ write_mutex' = {}
  /\ UNCHANGED <<sends, pipe, receiver>>

(* DeserializeUnexpectedEnd: what was read of a message is dropped. *)
ReadEnd ==
  /\ reader = "reading" /\ pipe = <<>> /\ ~alive
  /\ reader' = "ended" /\ frame' = <<>>
  /\ UNCHANGED <<senders, pipe, received>>

(* The receiving end is closed: what is in the socket is lost. *)
ReceiverEnds ==
  /\ reader = "reading" /\ reader' = "closed"
  /\ pipe' = <<>> /\ frame' = <<>>
  /\ UNCHANGED <<senders, received>>

FrameNext ==
  \/ \E s \in Sender : CallSend(s) \/ Lock(s) \/ Write(s) \/ Return(s) \/ SendFails(s)
  \/ ReadByte \/ SendersEnd \/ ReadEnd \/ ReceiverEnds

FrameSpec == FrameInit /\ [][FrameNext]_frameVars

(* A thread that can take the lock, write, return or fail does so in the end; *)
(* the receiver reads as long as it has not closed its end.                   *)
FrameFairSpec ==
  /\ FrameSpec
  /\ \A s \in Sender : /\ WF_frameVars(Lock(s)) /\ WF_frameVars(Write(s))
                        /\ WF_frameVars(Return(s)) /\ WF_frameVars(SendFails(s))
  /\ WF_frameVars(ReadByte \/ ReadEnd)
-----------------------------------------------------------------------------
(* What must hold.                                                         *)

(* Every variable has its type; no more is written than the message has, nor  *)
(* put in the socket than it holds.                                           *)
FrameTypeOK ==
  /\ msg \in [Sender -> Msg \cup {NoMsg}]
  /\ \A s \in Sender : written[s] \in 0..(IF msg[s] = NoMsg THEN 0 ELSE Size[msg[s]])
  /\ write_mutex \subseteq Sender /\ sends \in [Sender -> 0..MaxSends] /\ alive \in BOOLEAN
  /\ \A i \in DOMAIN pipe : pipe[i].at \in 1..Size[pipe[i].of]
  /\ Len(pipe) <= ByteCap
  /\ received \in Msg \cup {NoMsg} /\ reader \in {"reading", "torn", "ended", "closed"}

(* The messages of which a sequence of bytes has the byte that stands at a     *)
(* place: the first one, or the last.                                          *)
Marks(bytes, place) ==
  FoldLeft(LAMBDA q, b : IF b.at = place[b.of] THEN Append(q, b.of) ELSE q, <<>>, bytes)

AtFirst == [m \in Msg |-> 1]
AtLast  == Size

(* The messages of which bytes are on their way: those begun or, once nobody  *)
(* goes on writing, those that are whole.                                     *)
UnderWay == Marks(frame \o pipe, IF alive THEN AtFirst ELSE AtLast)

Mail == INSTANCE Mailbox
  WITH sending <- msg, effective <- {s \in Sender : written[s] > 0}, queue <- UnderWay,
       latest <- received, open <- ~Closed

(* The stream is a queue of whole messages: whatever the sizes of the writes  *)
(* and whoever writes at the same time, what is received is what was sent, in *)
(* one order, and the end of the senders in the middle of a message adds none *)
(* ("child process died" is not taken for a key).  A send returns an error    *)
(* only when the receiver's end is closed.                                    *)
ImplementsMailbox == Mail!MailSpec

(* A call of send returns, however little room the socket has and wherever in *)
(* a message the receiver's end is closed.  It assumes a receiver that reads  *)
(* until then: whether the thread at the other end does is for the modules    *)
(* that compose the threads to say.                                           *)
SendsReturn == \A s \in Sender : msg[s] # NoMsg ~> msg[s] = NoMsg
=============================================================================
