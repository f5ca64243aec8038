----------------------------- MODULE PostOffice ------------------------------
(***************************************************************************)
(* machine/network.cc, network/post.cc and the MailTest of nettest.cc: two  *)
(* machines that run Nachos, each with a network interface that can hold    *)
(* one incoming packet, a postal worker that puts packets into mailboxes,   *)
(* and threads that send and receive mail.  The network may lose packets;   *)
(* a machine may not have been started, or have halted.                     *)
(*                                                                          *)
(* A mailbox is a SynchList: a lock, a condition and a list.                *)
(***************************************************************************)
EXTENDS Synch

CONSTANTS
  Machine,
  Worker,      \* the postal worker of each machine
  User,        \* the other threads
  On,          \* the machine each thread runs on
  Far,         \* the machine each user thread sends to
  Program,     \* what each user thread does: a sequence of calls
  Posts,       \* which user threads there are and whether the network may
               \* lose packets: a choice of [users, lossy]
  Boxes        \* mailbox numbers

VARIABLES
  post,        \* the user threads of this run
  lossy,       \* chanceToWork < 1
  machine,     \* "off", "up", "halted" or, after a failed Send, "failed"
  socket,      \* packets in each machine's socket
  inHdr,       \* the packet in its network interface, or NULL
  sends,       \* NetworkSendInt interrupts pending on it
  box,         \* messages in each mailbox
  hand,        \* the packet the worker is delivering, or NULL
  mailPC,      \* where each thread is: <<call, stage>>
  letter,      \* the mail a user thread received last, or NULL
  accepted,    \* every packet that got into a machine's socket
  taken        \* the messages taken from each mailbox

networkVars == <<socket, inHdr, sends, accepted>>
mailVars == <<post, lossy, machine, networkVars, box, hand, mailPC, letter,
              taken>>

MailThread == User \cup Range(Worker)

(* The synchronization objects of post.cc. *)
messageAvailable(m) == <<"messageAvailable", m, 0>>
messageSent(m) == <<"messageSent", m, 0>>
sendLock(m) == <<"sendLock", m, 0>>
boxLock(m, b) == <<"boxLock", m, b>>
listEmpty(m, b) == <<"listEmpty", m, b>>

MailInit ==
  /\ \E q \in Posts : post = q.users /\ lossy = q.lossy
  /\ machine = [m \in Machine |-> "off"]
  /\ socket = [m \in Machine |-> << >>] /\ accepted = [m \in Machine |-> << >>]
  /\ inHdr = [m \in Machine |-> NULL] /\ hand = [m \in Machine |-> NULL]
  /\ sends = [m \in Machine |-> 0]
  /\ box = [m \in Machine |-> [b \in Boxes |-> << >>]] /\ taken = box
  /\ mailPC = [p \in MailThread |-> <<1, "call">>]
  /\ letter = [p \in User |-> NULL]

(* p runs on a machine that is up. *)
Runs(p) == machine[On[p]] = "up"
Stage(p, stage) == mailPC' = [mailPC EXCEPT ![p][2] = stage]
NextCall(p) == mailPC' = [mailPC EXCEPT ![p] = <<@[1] + 1, "call">>]
Calling(p, calls) ==
  /\ Runs(p) /\ mailPC[p][1] <= Len(Program[p])
  /\ Program[p][mailPC[p][1]] \in calls

-----------------------------------------------------------------------------
(* The network. *)

(* main: the machine is started, with its socket and its post office. *)
StartMachine(m) ==
  /\ machine[m] = "off" /\ machine' = [machine EXCEPT ![m] = "up"]
  /\ UNCHANGED <<post, lossy, networkVars, box, hand, mailPC, letter, taken,
                 synchVars>>

(* Network::Send: the interrupt is scheduled whatever becomes of the packet. *)
Transmit(m, packet) ==
  /\ sends' = [sends EXCEPT ![m] = @ + 1]
  /\ socket' = [socket EXCEPT ![packet.to] = Append(@, packet)]
  /\ accepted' = [accepted EXCEPT ![packet.to] = Append(@, packet)]
  /\ UNCHANGED inHdr

Lose(m) ==
  /\ sends' = [sends EXCEPT ![m] = @ + 1]
  /\ UNCHANGED <<socket, inHdr, accepted>>

(* Mutant: a packet that has not been picked up is overwritten. *)
CheckPktAvail_Overwrites(m) ==
  /\ machine[m] = "up" /\ socket[m] # << >>
  /\ inHdr' = [inHdr EXCEPT ![m] = Head(socket[m])]
  /\ socket' = [socket EXCEPT ![m] = Tail(@)]
  /\ V(messageAvailable(m))
  /\ UNCHANGED <<post, lossy, machine, sends, accepted, box, hand, mailPC,
                 letter, taken>>

(* The poll, when the interface is empty and a packet is there; its handler *)
(* is PostOffice::IncomingPacket.                                           *)
CheckPktAvail(m) ==
  /\ machine[m] = "up" /\ inHdr[m] = NULL /\ socket[m] # << >>
  /\ inHdr' = [inHdr EXCEPT ![m] = Head(socket[m])]
  /\ socket' = [socket EXCEPT ![m] = Tail(@)]
  /\ V(messageAvailable(m))
  /\ UNCHANGED <<post, lossy, machine, sends, accepted, box, hand, mailPC,
                 letter, taken>>

(* SendDone and its handler PostOffice::PacketSent. *)
SendDone(m) ==
  /\ machine[m] = "up" /\ sends[m] > 0
  /\ sends' = [sends EXCEPT ![m] = @ - 1]
  /\ V(messageSent(m))
  /\ UNCHANGED <<post, lossy, machine, socket, inHdr, accepted, box, hand,
                 mailPC, letter, taken>>

-----------------------------------------------------------------------------
(* PostalDelivery, the loop of worker w on machine m. *)

Deliver(m) ==
  LET w == Worker[m]
  IN /\ Runs(w) /\ mailPC[w][2] = "call" /\ InCode(w)
     /\ P(w, messageAvailable(m)) /\ Stage(w, "got")
     /\ UNCHANGED <<post, lossy, machine, networkVars, box, hand, letter, taken>>

(* Network::Receive empties the interface; then MailBox::Put. *)
PickUp(m) ==
  LET w == Worker[m]
  IN /\ Runs(w) /\ mailPC[w][2] = "got"
     /\ hand' = [hand EXCEPT ![m] = inHdr[m]]
     /\ inHdr' = [inHdr EXCEPT ![m] = NULL]
     /\ Acquire(w, boxLock(m, inHdr[m].box)) /\ Stage(w, "put")
     /\ UNCHANGED <<post, lossy, machine, socket, sends, accepted, box, letter,
                    taken>>

(* SynchList::Append with the lock. *)
Put(m) ==
  LET w == Worker[m]
      b == hand[m].box
  IN /\ Runs(w) /\ mailPC[w][2] = "put"
     /\ Signal(w, listEmpty(m, b), boxLock(m, b))
     /\ box' = [box EXCEPT ![m][b] = Append(@, hand[m])]
     /\ hand' = [hand EXCEPT ![m] = NULL]
     /\ mailPC' = [mailPC EXCEPT ![w] = <<b, "putDone">>]
     /\ UNCHANGED <<post, lossy, machine, networkVars, letter, taken>>

PutDone(m) ==
  LET w == Worker[m]
  IN /\ Runs(w) /\ mailPC[w][2] = "putDone"
     /\ Release(w, boxLock(m, mailPC[w][1]))
     /\ mailPC' = [mailPC EXCEPT ![w] = <<1, "call">>]
     /\ UNCHANGED <<post, lossy, machine, networkVars, box, hand, letter, taken>>

-----------------------------------------------------------------------------
(* PostOffice::Send. *)

(* MailTest's first message, to box 0, with box 1 for the answer. *)
Greeting(p) ==
  [from |-> On[p], fromBox |-> 1, to |-> Far[p], box |-> 0, text |-> "data"]

(* Mutant: the answer goes where the message went to. *)
Acknowledgement_ToSelf(p) ==
  [from |-> On[p], fromBox |-> 1, to |-> letter[p].to, box |-> letter[p].fromBox,
   text |-> "ack"]

(* Its answer to the message it received last. *)
Acknowledgement(p) ==
  [from |-> On[p], fromBox |-> 1, to |-> letter[p].from, box |-> letter[p].fromBox,
   text |-> "ack"]

(* The mail of p's next call. *)
Mail(p) ==
  IF Program[p][mailPC[p][1]] = "greet" THEN Greeting(p) ELSE Acknowledgement(p)

Send(p) ==
  /\ Calling(p, {"greet", "ack"}) /\ mailPC[p][2] = "call"
  /\ Acquire(p, sendLock(On[p])) /\ Stage(p, "send")
  /\ UNCHANGED <<post, lossy, machine, networkVars, box, hand, letter, taken>>

(* Network::Send and the call of P.  A packet that is lost counts as sent;  *)
(* one for a machine that is not there does not.                            *)
SendPacket(p) ==
  /\ Calling(p, {"greet", "ack"}) /\ mailPC[p][2] = "send" /\ InCode(p)
  /\ P(p, messageSent(On[p]))
  /\ \/ lossy /\ Lose(On[p]) /\ Stage(p, "sent")
     \/ /\ machine[Mail(p).to] = "up"
        /\ Transmit(On[p], Mail(p)) /\ Stage(p, "sent")
     \/ machine[Mail(p).to] # "up" /\ Lose(On[p]) /\ Stage(p, "unsent")
  /\ UNCHANGED <<post, lossy, machine, box, hand, letter, taken>>

(* A P that has been woken tests its semaphore again. *)
AwaitNetwork(p) ==
  /\ Runs(p) /\ where[p] \in {messageSent(On[p]), messageAvailable(On[p])}
  /\ P(p, where[p])
  /\ UNCHANGED mailVars

SendReturn(p) ==
  /\ Calling(p, {"greet", "ack"}) /\ mailPC[p][2] \in {"sent", "unsent"}
  /\ Release(p, sendLock(On[p]))
  /\ IF mailPC[p][2] = "sent" THEN NextCall(p) ELSE Stage(p, "halt")
  /\ UNCHANGED <<post, lossy, machine, networkVars, box, hand, letter, taken>>

(* MailTest halts the machine, because a Send failed or because it is done. *)
Halt(p) ==
  /\ Runs(p) /\ InCode(p)
  /\ \/ /\ mailPC[p][2] = "halt" /\ machine' = [machine EXCEPT ![On[p]] = "failed"]
     \/ /\ Calling(p, {"halt"})
        /\ machine' = [machine EXCEPT ![On[p]] = "halted"]
  /\ NextCall(p)
  /\ UNCHANGED <<post, lossy, networkVars, box, hand, letter, taken, synchVars>>

-----------------------------------------------------------------------------
(* PostOffice::Receive: MailBox::Get, that is SynchList::Remove. *)

BoxOf(p) == IF Program[p][mailPC[p][1]] = "get0" THEN 0 ELSE 1

Receive(p) ==
  /\ Calling(p, {"get0", "get1"}) /\ mailPC[p][2] = "call"
  /\ Acquire(p, boxLock(On[p], BoxOf(p))) /\ Stage(p, "get")
  /\ UNCHANGED <<post, lossy, machine, networkVars, box, hand, letter, taken>>

GetWait(p) ==
  LET m == On[p]
      b == BoxOf(p)
  IN /\ Calling(p, {"get0", "get1"}) /\ mailPC[p][2] = "get"
     /\ box[m][b] = << >>
     /\ Wait(p, listEmpty(m, b), boxLock(m, b))
     /\ UNCHANGED mailVars

Get(p) ==
  LET m == On[p]
      b == BoxOf(p)
  IN /\ Calling(p, {"get0", "get1"}) /\ mailPC[p][2] = "get"
     /\ box[m][b] # << >>
     /\ Release(p, boxLock(m, b))
     /\ box' = [box EXCEPT ![m][b] = Tail(@)]
     /\ letter' = [letter EXCEPT ![p] = Head(box[m][b])]
     /\ taken' = [taken EXCEPT ![m][b] = Append(@, Head(box[m][b]))]
     /\ NextCall(p)
     /\ UNCHANGED <<post, lossy, machine, networkVars, hand>>

MailResume(p) == Runs(p) /\ ~InCode(p) /\ Resume(p) /\ UNCHANGED mailVars

MailUser(p) ==
  \/ Send(p) \/ SendPacket(p) \/ SendReturn(p) \/ Halt(p)
  \/ Receive(p) \/ GetWait(p) \/ Get(p)
  \/ AwaitNetwork(p) \/ MailResume(p)

PostalWorker(m) ==
  \/ Deliver(m) \/ PickUp(m) \/ Put(m) \/ PutDone(m)
  \/ AwaitNetwork(Worker[m]) \/ MailResume(Worker[m])

MailNext ==
  \/ \E m \in Machine :
        StartMachine(m) \/ CheckPktAvail(m) \/ SendDone(m) \/ PostalWorker(m)
  \/ \E p \in post : MailUser(p)

-----------------------------------------------------------------------------
(* Properties. *)

MailTypeOK ==
  /\ machine \in [Machine -> {"off", "up", "halted", "failed"}]
  /\ sends \in [Machine -> Nat]
  /\ \A m \in Machine, b \in Boxes : \A i \in DOMAIN box[m][b] :
        box[m][b][i].to = m /\ box[m][b][i].box = b

(* The semaphore stands for the packet in the interface: the worker never   *)
(* reads an empty interface, and a poll never overwrites a packet, although *)
(* both run between the worker's P and its Receive.                         *)
InboxCredit ==
  \A m \in Machine :
     value[messageAvailable(m)]
       + (IF mailPC[Worker[m]][2] = "got" /\ InCode(Worker[m]) THEN 1 ELSE 0)
     = IF inHdr[m] = NULL THEN 0 ELSE 1

(* The threads waiting for a packet to be sent are as many as the sends     *)
(* under way and the completions stored, also when the lock has let a       *)
(* second sender in, which the assertion on sendBusy does not see.          *)
SendCredit ==
  \A m \in Machine :
     Cardinality({p \in post : On[p] = m /\ where[p] = messageSent(m)})
       = sends[m] + value[messageSent(m)]

(* What the network accepted for a mailbox is there exactly once and in     *)
(* order: taken by a receiver, in the box, in the worker's hand, in the     *)
(* interface or in the socket.                                              *)
MailConserved ==
  \A m \in Machine, b \in Boxes :
     LET one(x) == IF x = NULL THEN << >> ELSE <<x>>
         for(s) == SelectSeq(s, LAMBDA x : x.box = b)
     IN taken[m][b] \o box[m][b] \o for(one(hand[m])) \o for(one(inHdr[m]))
          \o for(socket[m]) = for(accepted[m])

(* A MailTest that ends well has been answered: its message reached the     *)
(* other machine, whose test can no longer fail to send, although this      *)
(* machine is gone.                                                         *)
AckMeansDelivered ==
  \A m, n \in Machine :
     m # n /\ machine[m] = "halted" =>
        /\ \E i \in DOMAIN taken[n][0] : taken[n][0][i].from = m
        /\ machine[n] # "failed"
        /\ \A p \in post : On[p] = n => mailPC[p][2] # "halt"

(* When the network loses nothing and no Send fails, as when both machines  *)
(* were started in time, every MailTest comes to a good end.  Nothing is    *)
(* sent twice, so a lost packet leaves both waiting for ever; so does a     *)
(* machine that comes up while the other is giving up on it.                *)
(* Every step takes a program forward, so that ending badly can only mean   *)
(* that nothing more can happen: no interrupt, no thread that is ready.     *)
MailTestEnds ==
  /\ ~lossy /\ post # {} /\ \A p \in post : Program[p][Len(Program[p])] = "halt"
  /\ \A m \in Machine : machine[m] # "failed"
  /\ ~ENABLED MailNext
  => \A m \in Machine : machine[m] = "halted"
=============================================================================
