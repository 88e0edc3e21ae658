------------------------------ MODULE Mailbox ------------------------------
(***************************************************************************)
(* What the other modules take a socket for: a queue of whole messages.    *)
(* Each call of `send` takes effect at one moment between its beginning    *)
(* and its return, and the messages are received in the order in which the *)
(* calls took effect.  The end of the sending process may cut off the last *)
(* message; once the receiver's end is closed what was under way is lost,  *)
(* and a call may fail.                                                    *)
(***************************************************************************)
EXTENDS Integers, Sequences

CONSTANTS Sender, Msg, NoMsg

VARIABLES
  sending,   (* The message of the call under way of each sender.          *)
  effective, (* The senders whose call has taken effect.                   *)
  queue,     (* Messages under way.                                        *)
  latest,    (* The message received last.                                 *)
  open       (* Whether the receiver's end is.                             *)

mailVars == <<sending, effective, queue, latest, open>>

MailInit ==
  /\ sending = [s \in Sender |-> NoMsg] /\ effective = {}
  /\ queue = <<>> /\ latest = NoMsg /\ open = TRUE

CallSend(s, m) ==
  /\ sending[s] = NoMsg
  /\ sending' = [sending EXCEPT ![s] = m]
  /\ UNCHANGED <<effective, queue, latest, open>>

TakeEffect(s) ==
  /\ open /\ sending[s] # NoMsg /\ s \notin effective
  /\ effective' = effective \cup {s}
  /\ queue' = Append(queue, sending[s])
  /\ UNCHANGED <<sending, latest, open>>

Return(s) ==
  /\ s \in effective
  /\ sending' = [sending EXCEPT ![s] = NoMsg]
  /\ effective' = effective \ {s}
  /\ UNCHANGED <<queue, latest, open>>

(* A call fails, whether it had taken effect or not. *)
Fail(s) ==
  /\ ~open /\ sending[s] # NoMsg
  /\ sending' = [sending EXCEPT ![s] = NoMsg]
  /\ effective' = effective \ {s}
  /\ UNCHANGED <<queue, latest, open>>

Receive ==
  /\ queue # <<>>
  /\ latest' = Head(queue) /\ queue' = Tail(queue)
  /\ UNCHANGED <<sending, effective, open>>

Close ==
  /\ open /\ open' = FALSE /\ queue' = <<>>
  /\ UNCHANGED <<sending, effective, latest>>

(* A message that a call was still writing does not arrive. *)
CutOff ==
  /\ sending' = [s \in Sender |-> NoMsg] /\ effective' = {}
  /\ \/ UNCHANGED queue
     \/ /\ queue # <<>> /\ queue[Len(queue)] \in {sending[s] : s \in effective}
        /\ queue' = SubSeq(queue, 1, Len(queue) - 1)
  /\ UNCHANGED <<latest, open>>

MailNext ==
  \/ \E s \in Sender : TakeEffect(s) \/ Return(s) \/ Fail(s) \/ \E m \in Msg : CallSend(s, m)
  \/ Receive \/ Close \/ CutOff

MailSpec == MailInit /\ [][MailNext]_mailVars
=============================================================================
