------------------------------- MODULE Messages -------------------------------
(***************************************************************************)
(* Messages between processes (process/process.c).  A process has a ring   *)
(* of MAX_MESSAGE messages in its control block, with a head, a tail and a *)
(* count.  A sender finds the block, reads the head and tests whether the  *)
(* ring is full, and only then stops the interrupts to store; the receiver *)
(* tests and reads its tail before it stops them, too.  A system call runs *)
(* without interrupts, so that a user process does both steps at once; a   *)
(* kernel thread, and the task switcher itself for sched_sysmes, come in   *)
(* between, and so does the end of the receiver, which frees its block.    *)
(*                                                                         *)
(* pending is what has been sent to a process and not been taken yet, as a *)
(* queue; lost are the processes whose ring no longer is that queue, and   *)
(* the model stops there, as it does when a freed block is written.        *)
(***************************************************************************)
EXTENDS Integers, Sequences, FiniteSets

CONSTANTS Receivers,        \* processes
          Senders,          \* processes, and whoever sends for the task switcher
          MessageKinds,     \* what a message can say
          NoMessage,        \* what a slot holds before its first message
          MAX_MESSAGE

ASSUME MessagesAssumption ==
  /\ MAX_MESSAGE \in Nat \ {0, 1} /\ Receivers \subseteq Senders /\ Receivers # {}
  /\ IsFiniteSet(Senders) /\ NoMessage \notin Senders \X MessageKinds

VARIABLES
  mesq, meshead, curmes, mestotal,  \* of each process: slots, head, tail, count
  listed,           \* processes ps_findprocess finds
  sending,          \* of each sender: "run", "test", "store" or, in getmessage, "take"
  sendTo, index, mes,   \* the process it sends to, the slot it has read, the message
  targets,          \* processes a broadcast still has to send to
  pending, lost, stray  \* auxiliary; stray: a message was stored in a freed block

queueVars == <<mesq, meshead, curmes, mestotal>>
senderVars == <<sending, sendTo, index, mes, targets>>
messageVars == <<queueVars, listed, senderVars, pending, lost, stray>>

SomeReceiver == CHOOSE p \in Receivers : TRUE

MessagesInit ==
  /\ mesq = [p \in Receivers |-> [i \in 0 .. MAX_MESSAGE - 1 |-> NoMessage]]
  /\ meshead = [p \in Receivers |-> 0] /\ curmes = [p \in Receivers |-> 0]
  /\ mestotal = [p \in Receivers |-> 0]
  /\ listed = Receivers
  /\ sending = [s \in Senders |-> "run"] /\ targets = [s \in Senders |-> {}]
  /\ sendTo = [s \in Senders |-> SomeReceiver]
  /\ index = [s \in Senders |-> 0] /\ mes = [s \in Senders |-> NoMessage]
  /\ pending = [p \in Receivers |-> <<>>] /\ lost = {} /\ stray = FALSE

------------------------------------------------------------------------------
Alive(s) == s \in Receivers => s \in listed
Moves(s, from, to) ==
  /\ ~stray /\ lost = {} /\ Alive(s) /\ sending[s] = from
  /\ sending' = [sending EXCEPT ![s] = to]

\* On its return a call forgets what it has read, and what it sends unless it is
\* one of a broadcast.
Forgets(s) ==
  /\ index' = [index EXCEPT ![s] = 0]
  /\ sendTo' = [sendTo EXCEPT ![s] = SomeReceiver]
  /\ mes' = IF targets[s] = {} THEN [mes EXCEPT ![s] = NoMessage] ELSE mes

Wrapped(i) == IF i >= MAX_MESSAGE THEN 0 ELSE i

sendmessage(s, p, m) ==
  /\ Moves(s, "run", "test")
  /\ sendTo' = [sendTo EXCEPT ![s] = p] /\ mes' = [mes EXCEPT ![s] = <<s, m>>]
  /\ UNCHANGED <<queueVars, listed, index, targets, pending, lost, stray>>

\* The list is that of this moment: processes may end before their turn.
broadcastmessage(s, m) ==
  /\ Moves(s, "run", "run") /\ targets[s] = {}
  /\ targets' = [targets EXCEPT ![s] = listed] /\ mes' = [mes EXCEPT ![s] = <<s, m>>]
  /\ UNCHANGED <<queueVars, listed, sendTo, index, pending, lost, stray>>

BroadcastsTo(s, p) ==
  /\ Moves(s, "run", "test") /\ p \in targets[s]
  /\ targets' = [targets EXCEPT ![s] = @ \ {p}] /\ sendTo' = [sendTo EXCEPT ![s] = p]
  /\ UNCHANGED <<queueVars, listed, index, mes, pending, lost, stray>>

\* Mutant: the ring is taken for full with a message too many.
FullLate(p) == mestotal[p] > MAX_MESSAGE

Full(p) == mestotal[p] >= MAX_MESSAGE - 1

\* ps_findprocess, meshead, and the test; IPCSTAT_ERROR and IPCSTAT_FULL.
sendmessageEX(s) ==
  LET p == sendTo[s] IN
  /\ IF p \notin listed \/ Full(p)
     THEN Moves(s, "test", "run") /\ Forgets(s)
     ELSE /\ Moves(s, "test", "store") /\ index' = [index EXCEPT ![s] = meshead[p]]
          /\ UNCHANGED <<sendTo, mes>>
  /\ UNCHANGED <<queueVars, listed, targets, pending, lost, stray>>

\* With interrupts off.
StoresMessage(s) ==
  LET p == sendTo[s] IN
  /\ Moves(s, "store", "run") /\ Forgets(s)
  /\ mesq' = [mesq EXCEPT ![p][index[s]] = mes[s]]
  /\ mestotal' = [mestotal EXCEPT ![p] = @ + 1]
  /\ meshead' = [meshead EXCEPT ![p] = Wrapped(@ + 1)]
  /\ pending' = [pending EXCEPT ![p] = Append(@, mes[s])]
  /\ lost' = IF index[s] # meshead[p] \/ mestotal[p] >= MAX_MESSAGE THEN lost \cup {p} ELSE lost
  /\ stray' = (p \notin listed)
  /\ UNCHANGED <<curmes, listed, targets>>

\* curmes and the test; nothing there returns 0.
getmessage(p) ==
  /\ mestotal[p] > 0 /\ targets[p] = {} /\ Moves(p, "run", "take")
  /\ index' = [index EXCEPT ![p] = curmes[p]]
  /\ UNCHANGED <<queueVars, listed, sendTo, mes, targets, pending, lost, stray>>

\* With interrupts off.
TakesMessage(p) ==
  /\ Moves(p, "take", "run") /\ Forgets(p)
  /\ mestotal' = [mestotal EXCEPT ![p] = IF @ - 1 < 0 THEN 0 ELSE @ - 1]
  /\ curmes' = [curmes EXCEPT ![p] = Wrapped(@ + 1)]
  /\ pending' = [pending EXCEPT ![p] = Tail(@)]
  /\ lost' = IF mesq[p][index[p]] # Head(pending[p]) THEN lost \cup {p} ELSE lost
  /\ UNCHANGED <<mesq, meshead, listed, targets, stray>>

\* The task switcher takes the process off the list and frees its block.
ReceiverEnds(p) ==
  /\ ~stray /\ lost = {} /\ p \in listed
  /\ listed' = listed \ {p}
  /\ UNCHANGED <<queueVars, senderVars, pending, lost, stray>>

\* Nothing more is modelled after a message has been lost, or with nobody left.
MessagesStop == (stray \/ lost # {} \/ listed = {}) /\ UNCHANGED messageVars

MessagesNext ==
  \/ \E s \in Senders, m \in MessageKinds :
       (\E p \in Receivers : sendmessage(s, p, m)) \/ broadcastmessage(s, m)
  \/ \E s \in Senders : (\E p \in Receivers : BroadcastsTo(s, p)) \/ sendmessageEX(s) \/ StoresMessage(s)
  \/ \E p \in Receivers : getmessage(p) \/ TakesMessage(p) \/ ReceiverEnds(p)
  \/ MessagesStop

MessagesSpec == MessagesInit /\ [][MessagesNext]_messageVars

------------------------------------------------------------------------------
MessagesTypeOK ==
  /\ mesq \in [Receivers -> [0 .. MAX_MESSAGE - 1 -> (Senders \X MessageKinds) \cup {NoMessage}]]
  /\ meshead \in [Receivers -> 0 .. MAX_MESSAGE - 1] /\ curmes \in [Receivers -> 0 .. MAX_MESSAGE - 1]
  /\ mestotal \in [Receivers -> Nat]
  /\ listed \subseteq Receivers /\ targets \in [Senders -> SUBSET Receivers]
  /\ sending \in [Senders -> {"run", "test", "store", "take"}]
  /\ sendTo \in [Senders -> Receivers] /\ index \in [Senders -> 0 .. MAX_MESSAGE - 1]
  /\ mes \in [Senders -> (Senders \X MessageKinds) \cup {NoMessage}]
  /\ pending \in [Receivers -> Seq(Senders \X MessageKinds)]
  /\ lost \subseteq Receivers /\ stray \in BOOLEAN

\* Head, tail and count agree, whoever raced.
RingsAreWhole ==
  \A p \in Receivers : /\ mestotal[p] = Len(pending[p])
                       /\ (curmes[p] + mestotal[p] - meshead[p]) % MAX_MESSAGE = 0

\* The full test lets at most one message in for each sender too many.
RingsAreBounded ==
  \A p \in Receivers :
    mestotal[p] + Cardinality({s \in Senders : sending[s] = "store" /\ sendTo[s] = p})
      <= MAX_MESSAGE - 2 + Cardinality(Senders)

\* The messages in the ring are those sent, in their order.
RingsAreQueues ==
  \A p \in Receivers \ lost : \A k \in 1 .. Len(pending[p]) :
    mesq[p][(curmes[p] + k - 1) % MAX_MESSAGE] = pending[p][k]

\* A process is given the messages sent to it, each once and in their order, until
\* two senders are between the test and the store of the same ring; a ring never
\* counts messages it was not sent, and never more than one too many for each
\* sender (process.c).
MessagesAreInOrder == MessagesTypeOK /\ RingsAreWhole /\ RingsAreBounded /\ RingsAreQueues
==============================================================================
