------------------------------ MODULE Dispatcher ------------------------------
(***************************************************************************)
(* The process dispatcher (process/pdispatch.c): a requester adds a node   *)
(* to the list pd_head and polls it with pd_ok; the dispatcher, a service  *)
(* of the kernel process, loads the program of the first node, writes the  *)
(* pid of the new process into the node and goes on to the next one.       *)
(*                                                                         *)
(* The list is not one: a node that is added while another one waits       *)
(* becomes the first, the other becomes its own successor, and the         *)
(* successor of the new one is whatever malloc left there; the dispatcher  *)
(* reads pd_head anew in each of its statements.  A request that will not  *)
(* be looked at any more is recorded in forgotten; what must not happen is *)
(* recorded in wrong at the step that causes it, and the model stops.      *)
(*                                                                         *)
(* A fork request (pd_forkmodule) takes the same way as a program; that    *)
(* the child polls the node too, whose copying does not work yet, is left  *)
(* out, and so is the message that shuts the system down.                  *)
(***************************************************************************)
EXTENDS Integers

CONSTANTS Askers,           \* processes that ask for others to be made
          QNodes, NoQNode   \* what malloc gives out for a createp_queue

ASSUME DispatchAssumption == NoQNode \notin QNodes

VARIABLES
  pd_head, pd_busy,
  qnode,            \* the nodes
  asks, hdl, got,   \* of each requester: its step, its node, what pd_dispatched returned
  dispatcher, loads,    \* its step, and for whom it loads a program
  forgotten, wrong  \* auxiliary

askVars == <<asks, hdl, got>>
dispatcherVars == <<dispatcher, loads>>
dispatchVars == <<pd_head, pd_busy, qnode, askVars, dispatcherVars, forgotten, wrong>>

Garbage == "garbage"    \* what is in memory nobody has set
NoPidYet == "none"      \* pd_dispatched: 0
LoadError == "error"    \* pd_dispatched: -1

NewNode(r, next) ==
  [asker |-> r, state |-> "used", dispatched |-> FALSE, processid |-> Garbage, next |-> next]

\* Of a freed node only the successor is ever read.
Freed(node) == [NewNode(node.asker, node.next) EXCEPT !.state = "freed"]

DispatchInit ==
  /\ pd_head = NoQNode /\ pd_busy = 0
  /\ qnode = [n \in QNodes |-> Freed(NewNode(Garbage, Garbage))]
  /\ asks = [r \in Askers |-> "run"] /\ hdl = [r \in Askers |-> NoQNode]
  /\ got = [r \in Askers |-> NoPidYet]
  /\ dispatcher = "idle" /\ loads = NoQNode
  /\ forgotten = {} /\ wrong = {}

------------------------------------------------------------------------------
Asks(r, from, to) == wrong = {} /\ asks[r] = from /\ asks' = [asks EXCEPT ![r] = to]

\* malloc: a freed node, or one nobody will look at any more (pd_ok does not free
\* after an error, nor does one that dies): there is memory for more than QNodes.
Spare(n) ==
  \/ qnode[n].state = "freed"
  \/ n # pd_head /\ \A r \in Askers : hdl[r] # n

\* It may give out the first node again, or another; which one does not matter.
malloc(n) ==
  /\ Spare(n)
  /\ n # pd_head => n = CHOOSE m \in QNodes \ {pd_head} : Spare(m)

\* addmodule, with interrupts off.  If the dispatcher is busy with the first node
\* it goes on with the new one instead.
AddsModule(r, n) ==
  /\ Asks(r, "run", "test") /\ malloc(n)
  /\ hdl' = [hdl EXCEPT ![r] = n]
  /\ pd_head' = n
  /\ IF pd_head = NoQNode
     THEN /\ qnode' = [qnode EXCEPT ![n] = NewNode(r, NoQNode)]
          /\ forgotten' = forgotten \ {n} /\ UNCHANGED wrong
     ELSE /\ qnode' = [qnode EXCEPT ![pd_head].next = pd_head, ![n] = NewNode(r, Garbage)]
          /\ forgotten' = (forgotten \cup {pd_head}) \ {n}
          /\ wrong' = IF dispatcher # "idle" THEN {"overtaken"} ELSE {}
  /\ UNCHANGED <<pd_busy, got, dispatcherVars>>

\* while (pd_busy); is left, and pd_busy is set in another statement: two
\* requesters may be inside, which only read and free nodes of their own.
WaitBusy(r) ==
  /\ asks[r] \in {"test", "test again"} /\ pd_busy = 0
  /\ Asks(r, asks[r], IF asks[r] = "test" THEN "take" ELSE "take again")
  /\ UNCHANGED <<pd_head, pd_busy, qnode, hdl, got, dispatcherVars, forgotten, wrong>>

TakeBusy(r) ==
  /\ asks[r] \in {"take", "take again"}
  /\ Asks(r, asks[r], IF asks[r] = "take" THEN "look" ELSE "free")
  /\ pd_busy' = 1
  /\ UNCHANGED <<pd_head, qnode, hdl, got, dispatcherVars, forgotten, wrong>>

pd_dispatched(r) ==
  LET n == qnode[hdl[r]] IN
  /\ Asks(r, "look", "test again")
  /\ got' = [got EXCEPT ![r] = IF n.dispatched THEN n.processid ELSE NoPidYet]
  /\ pd_busy' = 0
  /\ UNCHANGED <<pd_head, qnode, hdl, dispatcherVars, forgotten, wrong>>

\* Mutant: the node is freed whatever was found.
FreesAlways(r) == TRUE

\* Neither 0 nor -1.
Frees(r) == got[r] \notin {NoPidYet, LoadError}

\* Mutant: while the answer is not there pd_busy is kept.
LeftBusyKept(r) == IF got[r] = NoPidYet THEN 1 ELSE 0

LeftBusy(r) == 0

\* The rest of pd_ok.  Its callers go on asking until it does not return 0.
pd_ok(r) ==
  LET more == got[r] = NoPidYet IN
  /\ Asks(r, "free", IF more THEN "test" ELSE "run")
  /\ qnode' = IF Frees(r) THEN [qnode EXCEPT ![hdl[r]] = Freed(@)] ELSE qnode
  /\ hdl' = IF more THEN hdl ELSE [hdl EXCEPT ![r] = NoQNode]
  /\ got' = [got EXCEPT ![r] = NoPidYet]
  /\ pd_busy' = LeftBusy(r)
  /\ UNCHANGED <<pd_head, dispatcherVars, forgotten, wrong>>

\* The requester is terminated while it waits.
AskerDies(r) ==
  /\ asks[r] \notin {"run", "dead"} /\ Asks(r, asks[r], "dead")
  /\ hdl' = [hdl EXCEPT ![r] = NoQNode] /\ got' = [got EXCEPT ![r] = NoPidYet]
  /\ wrong' = IF asks[r] \in {"look", "free"} THEN {"pd_busy kept"} ELSE {}
  /\ UNCHANGED <<pd_head, pd_busy, qnode, dispatcherVars, forgotten>>

------------------------------------------------------------------------------
Dispatches(from, to) == wrong = {} /\ dispatcher = from /\ dispatcher' = to

\* ps_findprocess(pd_head->parent), which must be there.
LooksAtHead ==
  /\ Dispatches("idle", "load") /\ pd_head # NoQNode
  /\ loads' = qnode[pd_head].asker
  /\ qnode' = [qnode EXCEPT ![pd_head].dispatched = FALSE]
  /\ wrong' = IF asks[qnode[pd_head].asker] = "dead" THEN {"no parent"} ELSE {}
  /\ UNCHANGED <<pd_head, pd_busy, askVars, forgotten>>

\* dex32_loader, which waits for the disk and makes a process with what the
\* parent's control block says, or returns 0.
Loaded(pid) ==
  /\ Dispatches("load", "answer")
  /\ pid \in {loads, LoadError}
  /\ qnode' = [qnode EXCEPT ![pd_head].processid = pid]
  /\ wrong' = IF asks[loads] = "dead" THEN {"parent freed"} ELSE {}
  /\ UNCHANGED <<pd_head, pd_busy, askVars, loads, forgotten>>

\* pd_head->dispatched=1
Dispatched ==
  /\ Dispatches("answer", "advance")
  /\ qnode' = [qnode EXCEPT ![pd_head].dispatched = TRUE]
  /\ UNCHANGED <<pd_head, pd_busy, askVars, loads, forgotten, wrong>>

\* pd_head=pd_head->next.  The requester may have freed the node already, and the
\* memory may be in use for something else; a successor nobody has set may be 0.
Advances ==
  LET n == qnode[pd_head] IN
  /\ Dispatches("advance", "idle") /\ loads' = NoQNode
  /\ pd_head' = IF n.next = Garbage THEN NoQNode ELSE n.next
  /\ wrong' \in {{}} \cup (IF n.next = Garbage THEN {{"wild successor"}} ELSE {})
                     \cup (IF n.state = "freed" THEN {{"freed head"}} ELSE {})
  /\ UNCHANGED <<pd_busy, qnode, askVars, forgotten>>

\* Nothing more is modelled after a fault, or with nobody left to ask.
DispatchStops == (wrong # {} \/ \A r \in Askers : asks[r] = "dead") /\ UNCHANGED dispatchVars

DispatcherStep == LooksAtHead \/ (\E pid \in Askers \cup {LoadError} : Loaded(pid)) \/ Dispatched \/ Advances
AskerStep(r) == TakeBusy(r) \/ pd_dispatched(r) \/ pd_ok(r)

DispatchNext ==
  \/ DispatcherStep \/ DispatchStops
  \/ \E r \in Askers : (\E n \in QNodes : AddsModule(r, n)) \/ WaitBusy(r) \/ AskerStep(r) \/ AskerDies(r)

\* The round robin of the task switcher; and it does not preempt the others
\* inside pd_busy every single time one that waits gets its slice.
DispatchFairness ==
  /\ WF_dispatchVars(DispatcherStep)
  /\ \A r \in Askers : WF_dispatchVars(AskerStep(r)) /\ SF_dispatchVars(WaitBusy(r))

DispatchSpec == DispatchInit /\ [][DispatchNext]_dispatchVars /\ DispatchFairness

------------------------------------------------------------------------------
Waits(r) == asks[r] \notin {"run", "dead"}

DispatchTypeOK ==
  /\ pd_head \in QNodes \cup {NoQNode} /\ pd_busy \in {0, 1}
  /\ qnode \in [QNodes -> [asker : Askers \cup {Garbage}, state : {"used", "freed"},
                           dispatched : BOOLEAN, processid : Askers \cup {Garbage, LoadError},
                           next : QNodes \cup {NoQNode, Garbage}]]
  /\ asks \in [Askers -> {"run", "test", "take", "look", "test again", "take again", "free", "dead"}]
  /\ hdl \in [Askers -> QNodes \cup {NoQNode}]
  /\ dispatcher \in {"idle", "load", "answer", "advance"} /\ loads \in Askers \cup {NoQNode}
  /\ forgotten \subseteq QNodes

\* pd_ok returns the pid of the process made for its caller.
AnswersAreOwn == \A r \in Askers : got[r] \in {NoPidYet, LoadError, r}

\* The dispatcher works on a node, and on the one it began with.
HeadIsThere ==
  dispatcher # "idle" =>
    /\ pd_head \in QNodes /\ qnode[pd_head].asker = loads
    /\ qnode[pd_head].state = "used" \/ dispatcher = "advance"

\* Who waits has a node of its own that is not freed, and the dispatcher will come
\* to it unless it was forgotten.
WaitersHaveNodes ==
  \A r \in Askers : Waits(r) =>
    /\ hdl[r] \in QNodes /\ qnode[hdl[r]].asker = r /\ qnode[hdl[r]].state = "used"
    /\ qnode[hdl[r]].dispatched \/ hdl[r] = pd_head \/ hdl[r] \in forgotten

\* pd_busy is 0 when nobody is inside.
BusyIsTaken == pd_busy = 1 => \E r \in Askers : asks[r] \in {"look", "free"}

\* Until a request comes while the dispatcher is at work, or a requester dies, or
\* a node is freed before the dispatcher has left it (pdispatch.c): every answer
\* goes to who asked, no node in use is freed and none is lost without a request
\* having been added on top of it.
DispatchIsSound ==
  wrong = {} => /\ DispatchTypeOK /\ AnswersAreOwn /\ HeadIsThere /\ WaitersHaveNodes /\ BusyIsTaken

\* Every request is answered, by a pid or an error, unless another one was added on
\* top of it before the dispatcher came (addmodule).
RequestsAreAnswered ==
  \A r \in Askers : Waits(r) ~> \/ ~Waits(r)
                                \/ hdl[r] \in forgotten
                                \/ wrong # {}
==============================================================================
