----------------------------- MODULE CallsProofs -----------------------------
(***************************************************************************)
(* The services that answer the calls of processes, for any number of      *)
(* them: the process dispatcher (process/pdispatch.c), mounting            *)
(* (vfs/vfs_core.c), the keyboard's queue and consoles                     *)
(* (hardware/keyboard/keyboard.c, console/foreground.c) and the calls that *)
(* change a directory (vfs/vfs_core.c, vfs_aux.c).                         *)
(***************************************************************************)
EXTENDS Dispatcher, Volumes, Keyboard, Directories, TLAPS, FiniteSetTheorems, SequenceTheorems

------------------------------------------------------------------------------
\* The process dispatcher.

\* The first node is one that a requester added and that was not answered yet, but for
\* the last step of the dispatcher; no node follows it that malloc did not leave there.
HeadIsNew ==
  /\ pd_head \in QNodes =>
       /\ qnode[pd_head].asker \in Askers /\ qnode[pd_head].next \in {NoQNode, Garbage}
       /\ dispatcher # "advance" =>
            qnode[pd_head].state = "used" /\ ~qnode[pd_head].dispatched
  /\ dispatcher = "answer" => qnode[pd_head].processid \in {loads, LoadError}
  /\ dispatcher = "advance" => qnode[pd_head].state = "freed" \/ qnode[pd_head].dispatched

\* What a node's answer is, and who has read it.
NodesAnswer ==
  /\ \A n \in QNodes :
       qnode[n].dispatched => qnode[n].processid \in {qnode[n].asker, LoadError}
  /\ got \in [Askers -> Askers \cup {NoPidYet, LoadError}]
  /\ \A r \in Askers : got[r] # NoPidYet => Waits(r) /\ qnode[hdl[r]].dispatched

\* What holds until wrong records a fault.
DispatchParts ==
  /\ DispatchTypeOK /\ AnswersAreOwn /\ HeadIsThere /\ WaitersHaveNodes /\ BusyIsTaken
  /\ HeadIsNew /\ NodesAnswer

\* The invariant of the dispatcher.
DispatchInv == wrong = {} => DispatchParts

\* The records of the nodes, and what a step that changes one of them leaves.
NodeType ==
  [asker : Askers \cup {Garbage}, state : {"used", "freed"}, dispatched : BOOLEAN,
   processid : Askers \cup {Garbage, LoadError}, next : QNodes \cup {NoQNode, Garbage}]

\* A new node, and one that is freed.
LEMMA NodeSteps ==
  /\ \A r \in Askers, next \in {NoQNode, Garbage} :
       LET n == NewNode(r, next) IN
       /\ n \in NodeType /\ n.asker = r /\ n.state = "used" /\ n.dispatched = FALSE
       /\ n.processid = Garbage /\ n.next = next
  /\ \A n \in NodeType :
       LET f == Freed(n) IN
       /\ f \in NodeType /\ f.asker = n.asker /\ f.state = "freed" /\ f.dispatched = FALSE
       /\ f.next = n.next
BY DEF NewNode, Freed, NodeType

\* Every step of the requesters and of the dispatcher keeps it.
LEMMA DispatchStep == DispatchInv /\ [DispatchNext]_dispatchVars => DispatchInv'
<1> SUFFICES ASSUME DispatchInv, [DispatchNext]_dispatchVars, wrong' = {} PROVE DispatchParts'
  BY DEF DispatchInv
<1> USE DispatchAssumption DEF DispatchAssumption
<1>1. CASE UNCHANGED dispatchVars
  BY <1>1 DEF dispatchVars, askVars, dispatcherVars, DispatchInv, DispatchParts, DispatchTypeOK,
     AnswersAreOwn, HeadIsThere, WaitersHaveNodes, BusyIsTaken, HeadIsNew, NodesAnswer, Waits
<1>2. DispatchNext => DispatchStops \/ wrong = {}
  BY DEF DispatchNext, DispatcherStep, AskerStep, LooksAtHead, Loaded, Dispatched, Advances,
     AddsModule, WaitBusy, TakeBusy, pd_dispatched, pd_ok, AskerDies, Asks, Dispatches
<1>3. CASE DispatchStops
  BY <1>1, <1>3 DEF DispatchStops
<1> SUFFICES ASSUME DispatchParts, wrong = {}, DispatchNext PROVE DispatchParts'
  BY <1>1, <1>2, <1>3 DEF DispatchInv
<1>p. /\ DispatchTypeOK /\ AnswersAreOwn /\ HeadIsThere /\ WaitersHaveNodes /\ BusyIsTaken
      /\ HeadIsNew /\ NodesAnswer /\ qnode \in [QNodes -> NodeType]
  BY DEF DispatchParts, DispatchTypeOK, NodeType
<1>4. ASSUME NEW r \in Askers, WaitBusy(r) \/ TakeBusy(r)
      PROVE  DispatchParts'
  <2>1. /\ UNCHANGED <<pd_head, qnode, hdl, got, dispatcher, loads, forgotten>>
        /\ pd_busy' \in {pd_busy, 1}
        /\ pd_busy' = 1 => asks'[r] \in {"look", "free"} \/ UNCHANGED pd_busy
        /\ asks[r] \in {"test", "test again", "take", "take again"}
        /\ \E s \in {"take", "take again", "look", "free"} : asks' = [asks EXCEPT ![r] = s]
    BY <1>4, <1>p DEF WaitBusy, TakeBusy, Asks, DispatchTypeOK, dispatcherVars
  <2>2. DispatchTypeOK'
    BY <1>p, <2>1 DEF DispatchTypeOK
  <2>3. BusyIsTaken'
    BY <1>p, <2>1 DEF DispatchTypeOK, BusyIsTaken
  <2>4. \A q \in Askers : Waits(q)' <=> Waits(q)
    BY <1>p, <2>1 DEF DispatchTypeOK, Waits
  <2> QED
    BY <1>p, <2>1, <2>2, <2>3, <2>4 DEF DispatchParts, AnswersAreOwn, HeadIsThere, WaitersHaveNodes,
       HeadIsNew, NodesAnswer
<1>5. ASSUME NEW r \in Askers, NEW n \in QNodes, AddsModule(r, n)
      PROVE  DispatchParts'
  <2>1. CASE pd_head = NoQNode
    <3>1. /\ pd_head' = n /\ hdl' = [hdl EXCEPT ![r] = n] /\ asks' = [asks EXCEPT ![r] = "test"]
          /\ qnode' = [qnode EXCEPT ![n] = NewNode(r, NoQNode)] /\ forgotten' = forgotten \ {n}
          /\ UNCHANGED <<pd_busy, got, dispatcher, loads>> /\ asks[r] = "run" /\ Spare(n)
      BY <1>5, <2>1 DEF AddsModule, Asks, malloc, dispatcherVars
    <3>2. dispatcher = "idle"
      BY <1>p, <2>1 DEF HeadIsThere
    <3>3. \A q \in Askers : q # r /\ Waits(q) => hdl[q] # n
      BY <1>p, <3>1 DEF Spare, WaitersHaveNodes
    <3>4. \A q \in Askers : (Waits(q)' <=> q = r \/ Waits(q)) /\ ~Waits(r)
      BY <1>p, <3>1 DEF Waits, DispatchTypeOK
    <3>5. /\ qnode'[n].asker = r /\ qnode'[n].state = "used" /\ qnode'[n].dispatched = FALSE
          /\ qnode'[n].next = NoQNode /\ qnode' \in [QNodes -> NodeType]
          /\ \A m \in QNodes : m # n => qnode'[m] = qnode[m]
      BY <1>p, <3>1, NodeSteps
    <3>6. DispatchTypeOK' /\ AnswersAreOwn' /\ HeadIsThere'
      BY <1>p, <3>1, <3>2, <3>5 DEF DispatchTypeOK, AnswersAreOwn, HeadIsThere, NodeType
    <3>7. WaitersHaveNodes'
      <4>1. ASSUME NEW q \in Askers, Waits(q)'
            PROVE  /\ hdl'[q] \in QNodes /\ qnode'[hdl'[q]].asker = q
                   /\ qnode'[hdl'[q]].state = "used"
                   /\ qnode'[hdl'[q]].dispatched \/ hdl'[q] = pd_head' \/ hdl'[q] \in forgotten'
        <5>1. CASE q = r
          BY <1>p, <3>1, <3>5, <5>1 DEF DispatchTypeOK
        <5>2. CASE q # r
          <6>1. Waits(q) /\ hdl'[q] = hdl[q] /\ hdl[q] # n /\ hdl[q] \in QNodes
            BY <1>p, <3>1, <3>3, <3>4, <4>1, <5>2 DEF DispatchTypeOK, WaitersHaveNodes
          <6> QED
            BY <1>p, <2>1, <3>1, <3>5, <6>1 DEF WaitersHaveNodes
        <5> QED
          BY <5>1, <5>2
      <4> QED
        BY <4>1 DEF WaitersHaveNodes, Waits
    <3>8. BusyIsTaken'
      BY <1>p, <3>1 DEF DispatchTypeOK, BusyIsTaken
    <3>9. HeadIsNew'
      BY <1>p, <3>1, <3>2, <3>5 DEF DispatchTypeOK, HeadIsNew
    <3>10. NodesAnswer'
      <4>1. \A m \in QNodes :
              qnode'[m].dispatched => qnode'[m].processid \in {qnode'[m].asker, LoadError}
        BY <1>p, <3>5 DEF NodesAnswer
      <4>2. ASSUME NEW q \in Askers, got[q] # NoPidYet
            PROVE  q # r /\ asks'[q] = asks[q] /\ Waits(q) /\ qnode'[hdl'[q]].dispatched
        <5>1. q # r /\ Waits(q) /\ qnode[hdl[q]].dispatched /\ hdl[q] \in QNodes
          BY <1>p, <3>4, <4>2 DEF NodesAnswer, WaitersHaveNodes
        <5>2. hdl'[q] = hdl[q] /\ hdl[q] # n /\ asks'[q] = asks[q]
          BY <1>p, <3>1, <3>3, <5>1 DEF DispatchTypeOK
        <5> QED
          BY <3>5, <5>1, <5>2
      <4> QED
        BY <1>p, <3>1, <4>1, <4>2 DEF NodesAnswer, Waits
    <3> QED
      BY <3>6, <3>7, <3>8, <3>9, <3>10 DEF DispatchParts
  <2>2. CASE pd_head # NoQNode
    <3>1. /\ pd_head' = n /\ hdl' = [hdl EXCEPT ![r] = n] /\ asks' = [asks EXCEPT ![r] = "test"]
          /\ qnode' = [qnode EXCEPT ![pd_head].next = pd_head, ![n] = NewNode(r, Garbage)]
          /\ forgotten' = (forgotten \cup {pd_head}) \ {n}
          /\ UNCHANGED <<pd_busy, got, dispatcher, loads>> /\ asks[r] = "run" /\ Spare(n)
          /\ dispatcher = "idle"
      BY <1>5, <2>2 DEF AddsModule, Asks, malloc, dispatcherVars
    <3>2. pd_head \in QNodes /\ qnode[pd_head].state = "used"
      BY <1>p, <2>2, <3>1 DEF DispatchTypeOK, HeadIsNew
    <3>3. \A q \in Askers : q # r /\ Waits(q) => hdl[q] # n
      BY <1>p, <3>1 DEF Spare, WaitersHaveNodes
    <3>4. \A q \in Askers : (Waits(q)' <=> q = r \/ Waits(q)) /\ ~Waits(r)
      BY <1>p, <3>1 DEF Waits, DispatchTypeOK
    <3>a. [qnode EXCEPT ![pd_head].next = pd_head] \in [QNodes -> NodeType]
      BY <1>p, <3>2 DEF NodeType
    <3>5. /\ qnode'[n].asker = r /\ qnode'[n].state = "used" /\ qnode'[n].dispatched = FALSE
          /\ qnode'[n].next = Garbage /\ qnode' \in [QNodes -> NodeType]
          /\ \A m \in QNodes : m # n =>
               /\ qnode'[m].asker = qnode[m].asker /\ qnode'[m].state = qnode[m].state
               /\ qnode'[m].dispatched = qnode[m].dispatched
               /\ qnode'[m].processid = qnode[m].processid
      <4>1. qnode'[n] = NewNode(r, Garbage)
        BY <1>p, <3>1
      <4>2. qnode' = [[qnode EXCEPT ![pd_head].next = pd_head] EXCEPT ![n] = NewNode(r, Garbage)]
        BY <3>1
      <4>3. \A m \in QNodes : m # n => qnode'[m] = [qnode EXCEPT ![pd_head].next = pd_head][m]
        BY <4>2, <1>p
      <4>4. \A m \in QNodes :
              LET o == [qnode EXCEPT ![pd_head].next = pd_head][m] IN
               /\ o.asker = qnode[m].asker /\ o.state = qnode[m].state
               /\ o.dispatched = qnode[m].dispatched /\ o.processid = qnode[m].processid
        BY <1>p, <3>2 DEF NodeType
      <4>5. NewNode(r, Garbage) \in NodeType
        BY NodeSteps
      <4>6. qnode' \in [QNodes -> NodeType]
        BY <4>2, <4>5, <3>a
      <4> QED
        <5>1. /\ qnode'[n].asker = r /\ qnode'[n].state = "used" /\ qnode'[n].dispatched = FALSE
              /\ qnode'[n].next = Garbage
          BY <4>1, NodeSteps
        <5> QED
          BY <4>3, <4>4, <4>6, <5>1
    <3>6. DispatchTypeOK' /\ AnswersAreOwn' /\ HeadIsThere'
      BY <1>p, <3>1, <3>2, <3>5 DEF DispatchTypeOK, AnswersAreOwn, HeadIsThere, NodeType
    <3>7. WaitersHaveNodes'
      <4>1. ASSUME NEW q \in Askers, Waits(q)'
            PROVE  /\ hdl'[q] \in QNodes /\ qnode'[hdl'[q]].asker = q
                   /\ qnode'[hdl'[q]].state = "used"
                   /\ qnode'[hdl'[q]].dispatched \/ hdl'[q] = pd_head' \/ hdl'[q] \in forgotten'
        <5>1. CASE q = r
          BY <1>p, <3>1, <3>5, <5>1 DEF DispatchTypeOK
        <5>2. CASE q # r
          <6>1. Waits(q) /\ hdl'[q] = hdl[q] /\ hdl[q] # n /\ hdl[q] \in QNodes
            BY <1>p, <3>1, <3>3, <3>4, <4>1, <5>2 DEF DispatchTypeOK, WaitersHaveNodes
          <6> QED
            BY <1>p, <3>1, <3>5, <6>1 DEF WaitersHaveNodes
        <5> QED
          BY <5>1, <5>2
      <4> QED
        BY <4>1 DEF WaitersHaveNodes, Waits
    <3>8. BusyIsTaken'
      BY <1>p, <3>1 DEF DispatchTypeOK, BusyIsTaken
    <3>9. HeadIsNew'
      BY <1>p, <3>1, <3>2, <3>5 DEF DispatchTypeOK, HeadIsNew
    <3>10. NodesAnswer'
      <4>1. \A m \in QNodes :
              qnode'[m].dispatched => qnode'[m].processid \in {qnode'[m].asker, LoadError}
        BY <1>p, <3>5 DEF NodesAnswer
      <4>2. ASSUME NEW q \in Askers, got[q] # NoPidYet
            PROVE  q # r /\ asks'[q] = asks[q] /\ Waits(q) /\ qnode'[hdl'[q]].dispatched
        <5>1. q # r /\ Waits(q) /\ qnode[hdl[q]].dispatched /\ hdl[q] \in QNodes
          BY <1>p, <3>4, <4>2 DEF NodesAnswer, WaitersHaveNodes
        <5>2. hdl'[q] = hdl[q] /\ hdl[q] # n /\ asks'[q] = asks[q]
          BY <1>p, <3>1, <3>3, <5>1 DEF DispatchTypeOK
        <5> QED
          BY <3>5, <5>1, <5>2
      <4> QED
        BY <1>p, <3>1, <4>1, <4>2 DEF NodesAnswer, Waits
    <3> QED
      BY <3>6, <3>7, <3>8, <3>9, <3>10 DEF DispatchParts
  <2> QED
    BY <2>1, <2>2
<1>6. ASSUME NEW r \in Askers, pd_dispatched(r)
      PROVE  DispatchParts'
  <2>1. /\ asks[r] = "look" /\ asks' = [asks EXCEPT ![r] = "test again"]
        /\ got' = [got EXCEPT ![r] = IF qnode[hdl[r]].dispatched THEN qnode[hdl[r]].processid
                                     ELSE NoPidYet]
        /\ pd_busy' = 0
        /\ UNCHANGED <<pd_head, qnode, hdl, dispatcher, loads, forgotten>>
    BY <1>6 DEF pd_dispatched, Asks, dispatcherVars
  <2>2. /\ \A q \in Askers : Waits(q)' <=> Waits(q)
        /\ Waits(r)
    BY <1>p, <2>1 DEF DispatchTypeOK, Waits
  <2>3. hdl[r] \in QNodes /\ qnode[hdl[r]].asker = r
    BY <1>p, <2>2 DEF WaitersHaveNodes
  <2>4. qnode[hdl[r]].dispatched => qnode[hdl[r]].processid \in {r, LoadError}
    BY <1>p, <2>3 DEF NodesAnswer
  <2>5. DispatchTypeOK' /\ BusyIsTaken'
    <3>1. asks' \in [Askers -> {"run", "test", "take", "look", "test again", "take again",
                               "free", "dead"}]
      BY <1>p, <2>1 DEF DispatchTypeOK
    <3>2. UNCHANGED <<pd_head, qnode, hdl, dispatcher, loads, forgotten>> /\ pd_busy' = 0
      BY <2>1
    <3>3. BusyIsTaken'
      BY <3>2 DEF BusyIsTaken
    <3> QED
      BY <1>p, <3>1, <3>2, <3>3 DEF DispatchTypeOK
  <2>7. HeadIsThere' /\ HeadIsNew'
    BY <1>p, <2>1 DEF HeadIsThere, HeadIsNew
  <2>8. WaitersHaveNodes'
    BY <1>p, <2>1, <2>2 DEF WaitersHaveNodes, Waits
  <2>6. AnswersAreOwn' /\ NodesAnswer'
    BY <1>p, <2>1, <2>2, <2>3, <2>4 DEF AnswersAreOwn, NodesAnswer
  <2> QED
    BY <2>5, <2>6, <2>7, <2>8 DEF DispatchParts
<1>7. ASSUME NEW r \in Askers, pd_ok(r)
      PROVE  DispatchParts'
  <2>1. /\ asks[r] = "free"
        /\ asks' = [asks EXCEPT ![r] = IF got[r] = NoPidYet THEN "test" ELSE "run"]
        /\ qnode' = IF Frees(r) THEN [qnode EXCEPT ![hdl[r]] = Freed(@)] ELSE qnode
        /\ hdl' = IF got[r] = NoPidYet THEN hdl ELSE [hdl EXCEPT ![r] = NoQNode]
        /\ got' = [got EXCEPT ![r] = NoPidYet] /\ pd_busy' = 0
        /\ UNCHANGED <<pd_head, dispatcher, loads, forgotten>>
    BY <1>7 DEF pd_ok, Asks, dispatcherVars, LeftBusy
  <2>2. /\ \A q \in Askers : Waits(q)' <=> Waits(q) /\ (q = r => got[r] = NoPidYet)
        /\ Waits(r)
    BY <1>p, <2>1 DEF DispatchTypeOK, Waits
  <2>3. /\ hdl[r] \in QNodes /\ qnode[hdl[r]].asker = r
        /\ \A q \in Askers : q # r /\ Waits(q) => hdl[q] # hdl[r]
    BY <1>p, <2>2 DEF WaitersHaveNodes
  <2>4. Frees(r) => got[r] # NoPidYet /\ qnode[hdl[r]].dispatched
    BY <1>p DEF Frees, NodesAnswer
  <2>5. Frees(r) => dispatcher = "advance" \/ pd_head # hdl[r]
    BY <1>p, <2>3, <2>4 DEF HeadIsNew
  <2>6. /\ qnode' \in [QNodes -> NodeType]
        /\ \A m \in QNodes :
             /\ qnode'[m].asker = qnode[m].asker /\ qnode'[m].next = qnode[m].next
             /\ ~(Frees(r) /\ m = hdl[r]) => qnode'[m] = qnode[m]
             /\ Frees(r) /\ m = hdl[r] => qnode'[m].state = "freed" /\ qnode'[m].dispatched = FALSE
    BY <1>p, <2>1, <2>3, NodeSteps
  <2>a. /\ asks' \in [Askers -> {"run", "test", "take", "look", "test again", "take again",
                               "free", "dead"}]
        /\ hdl' \in [Askers -> QNodes \cup {NoQNode}]
    BY <1>p, <2>1 DEF DispatchTypeOK
  <2>7. DispatchTypeOK' /\ BusyIsTaken'
    <3>1. UNCHANGED <<pd_head, dispatcher, loads, forgotten>> /\ pd_busy' = 0
      BY <2>1
    <3>2. qnode' \in [QNodes -> NodeType]
      BY <2>6
    <3>3. BusyIsTaken'
      BY <3>1 DEF BusyIsTaken
    <3> QED
      BY <1>p, <3>1, <3>2, <3>3, <2>a DEF DispatchTypeOK, NodeType
  <2>8. AnswersAreOwn' /\ HeadIsThere'
    <3>1. AnswersAreOwn'
      BY <1>p, <2>1 DEF AnswersAreOwn, NodesAnswer
    <3>2. dispatcher # "idle" => pd_head \in QNodes
      BY <1>p DEF HeadIsThere
    <3>3. HeadIsThere'
      BY <1>p, <2>1, <2>5, <2>6, <3>2 DEF HeadIsThere
    <3> QED
      BY <3>1, <3>3
  <2>9. WaitersHaveNodes'
    <3>1. ASSUME NEW q \in Askers, Waits(q)'
          PROVE  /\ hdl'[q] \in QNodes /\ qnode'[hdl'[q]].asker = q
                 /\ qnode'[hdl'[q]].state = "used"
                 /\ qnode'[hdl'[q]].dispatched \/ hdl'[q] = pd_head' \/ hdl'[q] \in forgotten'
      <4>1. Waits(q) /\ (q = r => got[r] = NoPidYet)
        BY <2>2, <3>1
      <4>2. hdl'[q] = hdl[q]
        BY <1>p, <2>1, <4>1 DEF DispatchTypeOK
      <4>3. qnode'[hdl[q]] = qnode[hdl[q]]
        BY <1>p, <2>3, <2>4, <2>6, <4>1 DEF WaitersHaveNodes
      <4> QED
        BY <1>p, <2>1, <4>1, <4>2, <4>3 DEF WaitersHaveNodes
    <3> QED
      BY <3>1 DEF WaitersHaveNodes, Waits
  <2>10. HeadIsNew'
    BY <1>p, <2>1, <2>3, <2>5, <2>6 DEF DispatchTypeOK, HeadIsNew, HeadIsThere
  <2>11. NodesAnswer'
    <3>1. \A m \in QNodes :
            qnode'[m].dispatched => qnode'[m].processid \in {qnode'[m].asker, LoadError}
      BY <1>p, <2>3, <2>6 DEF NodesAnswer
    <3>2. ASSUME NEW q \in Askers, got'[q] # NoPidYet
          PROVE  asks'[q] \notin {"run", "dead"} /\ qnode'[hdl'[q]].dispatched
      <4>1. q # r /\ got[q] # NoPidYet
        BY <1>p, <2>1, <3>2 DEF NodesAnswer
      <4>2. Waits(q) /\ qnode[hdl[q]].dispatched /\ hdl[q] # hdl[r] /\ hdl[q] \in QNodes
        BY <1>p, <2>3, <4>1 DEF NodesAnswer, WaitersHaveNodes
      <4>3. hdl'[q] = hdl[q] /\ asks'[q] = asks[q]
        BY <1>p, <2>1, <4>1 DEF DispatchTypeOK
      <4> QED
        BY <2>6, <4>2, <4>3 DEF Waits
    <3>3. got' \in [Askers -> Askers \cup {NoPidYet, LoadError}]
      BY <1>p, <2>1 DEF NodesAnswer
    <3> QED
      BY <3>1, <3>2, <3>3 DEF NodesAnswer, Waits
  <2> QED
    BY <2>7, <2>8, <2>9, <2>10, <2>11 DEF DispatchParts
<1>8. ASSUME NEW r \in Askers, AskerDies(r)
      PROVE  DispatchParts'
  <2>1. /\ asks' = [asks EXCEPT ![r] = "dead"] /\ asks[r] \notin {"look", "free"}
        /\ hdl' = [hdl EXCEPT ![r] = NoQNode] /\ got' = [got EXCEPT ![r] = NoPidYet]
        /\ UNCHANGED <<pd_head, pd_busy, qnode, dispatcher, loads, forgotten>>
    BY <1>8 DEF AskerDies, Asks, dispatcherVars
  <2>2. \A q \in Askers : Waits(q)' <=> Waits(q) /\ q # r
    BY <1>8, <1>p, <2>1 DEF AskerDies, DispatchTypeOK, Waits
  <2>3. \A q \in Askers : q # r => asks'[q] = asks[q] /\ hdl'[q] = hdl[q] /\ got'[q] = got[q]
    BY <1>p, <2>1 DEF DispatchTypeOK, NodesAnswer
  <2>4. asks'[r] = "dead" /\ got'[r] = NoPidYet
    BY <1>p, <2>1 DEF DispatchTypeOK, NodesAnswer
  <2>5. DispatchTypeOK' /\ AnswersAreOwn' /\ HeadIsThere' /\ HeadIsNew'
    BY <1>p, <2>1, <2>3, <2>4 DEF DispatchTypeOK, AnswersAreOwn, HeadIsThere, HeadIsNew
  <2>6. BusyIsTaken'
    BY <1>p, <2>1, <2>3 DEF BusyIsTaken
  <2>7. WaitersHaveNodes'
    BY <1>p, <2>1, <2>3, <2>4 DEF WaitersHaveNodes, Waits
  <2>8. NodesAnswer'
    <3>1. got' \in [Askers -> Askers \cup {NoPidYet, LoadError}]
      BY <1>p, <2>1 DEF NodesAnswer
    <3> QED
      BY <1>p, <2>1, <2>3, <2>4, <3>1 DEF NodesAnswer, Waits
  <2> QED
    BY <2>5, <2>6, <2>7, <2>8 DEF DispatchParts
<1>9. CASE LooksAtHead
  <2>1. /\ dispatcher = "idle" /\ dispatcher' = "load" /\ pd_head \in QNodes
        /\ loads' = qnode[pd_head].asker
        /\ qnode' = [qnode EXCEPT ![pd_head].dispatched = FALSE]
        /\ UNCHANGED <<pd_head, pd_busy, asks, hdl, got, forgotten>>
    BY <1>9, <1>p DEF LooksAtHead, Dispatches, askVars, DispatchTypeOK
  <2>2. qnode[pd_head].dispatched = FALSE
    BY <1>p, <2>1 DEF HeadIsNew, NodeType
  <2>3. qnode' = qnode
    BY <1>p, <2>1, <2>2 DEF NodeType
  <2>4. \A q \in Askers : Waits(q)' <=> Waits(q)
    BY <2>1 DEF Waits
  <2> QED
    <3>1. DispatchTypeOK' /\ AnswersAreOwn' /\ HeadIsThere' /\ HeadIsNew' /\ BusyIsTaken'
      BY <1>p, <2>1, <2>3 DEF DispatchTypeOK, AnswersAreOwn, HeadIsThere, HeadIsNew, BusyIsTaken
    <3>2. WaitersHaveNodes' /\ NodesAnswer'
      BY <1>p, <2>1, <2>3 DEF WaitersHaveNodes, NodesAnswer, Waits
    <3> QED
      BY <3>1, <3>2 DEF DispatchParts
<1>10. ASSUME NEW pid \in Askers \cup {LoadError}, Loaded(pid)
       PROVE  DispatchParts'
  <2>1. /\ dispatcher = "load" /\ dispatcher' = "answer" /\ pid \in {loads, LoadError}
        /\ qnode' = [qnode EXCEPT ![pd_head].processid = pid]
        /\ UNCHANGED <<pd_head, pd_busy, asks, hdl, got, loads, forgotten>>
    BY <1>10 DEF Loaded, Dispatches, askVars
  <2>2. pd_head \in QNodes /\ ~qnode[pd_head].dispatched
    BY <1>p, <2>1 DEF HeadIsThere, HeadIsNew
  <2>3. /\ qnode' \in [QNodes -> NodeType]
        /\ \A m \in QNodes :
             /\ qnode'[m].asker = qnode[m].asker /\ qnode'[m].next = qnode[m].next
             /\ qnode'[m].state = qnode[m].state /\ qnode'[m].dispatched = qnode[m].dispatched
             /\ qnode'[m].processid = IF m = pd_head THEN pid ELSE qnode[m].processid
    BY <1>p, <2>1, <2>2 DEF NodeType
  <2>4. \A q \in Askers : Waits(q)' <=> Waits(q)
    BY <2>1 DEF Waits
  <2>5. DispatchTypeOK' /\ AnswersAreOwn' /\ HeadIsThere' /\ BusyIsTaken'
    BY <1>p, <2>1, <2>2, <2>3 DEF DispatchTypeOK, AnswersAreOwn, HeadIsThere, BusyIsTaken, NodeType
  <2>6. WaitersHaveNodes'
    BY <1>p, <2>1, <2>3 DEF WaitersHaveNodes, Waits
  <2>7. HeadIsNew'
    BY <1>p, <2>1, <2>2, <2>3 DEF HeadIsNew
  <2>8. NodesAnswer'
    <3>1. \A m \in QNodes :
            qnode'[m].dispatched => qnode'[m].processid \in {qnode'[m].asker, LoadError}
      BY <1>p, <2>1, <2>2, <2>3 DEF NodesAnswer
    <3>2. \A q \in Askers : got[q] # NoPidYet => hdl[q] \in QNodes /\ qnode'[hdl[q]].dispatched
      BY <1>p, <2>1, <2>3 DEF NodesAnswer, WaitersHaveNodes
    <3> QED
      BY <1>p, <2>1, <3>1, <3>2 DEF NodesAnswer, Waits
  <2> QED
    BY <2>5, <2>6, <2>7, <2>8 DEF DispatchParts
<1>11. CASE Dispatched
  <2>1. /\ dispatcher = "answer" /\ dispatcher' = "advance"
        /\ qnode' = [qnode EXCEPT ![pd_head].dispatched = TRUE]
        /\ UNCHANGED <<pd_head, pd_busy, asks, hdl, got, loads, forgotten>>
    BY <1>11 DEF Dispatched, Dispatches, askVars
  <2>2. /\ pd_head \in QNodes /\ qnode[pd_head].processid \in {loads, LoadError}
        /\ qnode[pd_head].asker = loads
    BY <1>p, <2>1 DEF HeadIsThere, HeadIsNew
  <2>3. /\ qnode' \in [QNodes -> NodeType]
        /\ \A m \in QNodes :
             /\ qnode'[m].asker = qnode[m].asker /\ qnode'[m].next = qnode[m].next
             /\ qnode'[m].state = qnode[m].state /\ qnode'[m].processid = qnode[m].processid
             /\ qnode'[m].dispatched <=> (m = pd_head \/ qnode[m].dispatched)
    BY <1>p, <2>1, <2>2 DEF NodeType
  <2>4. \A q \in Askers : Waits(q)' <=> Waits(q)
    BY <2>1 DEF Waits
  <2>5. DispatchTypeOK' /\ AnswersAreOwn' /\ HeadIsThere' /\ BusyIsTaken'
    BY <1>p, <2>1, <2>2, <2>3 DEF DispatchTypeOK, AnswersAreOwn, HeadIsThere, BusyIsTaken, NodeType
  <2>6. WaitersHaveNodes'
    BY <1>p, <2>1, <2>3 DEF WaitersHaveNodes, Waits
  <2>7. HeadIsNew'
    BY <1>p, <2>1, <2>2, <2>3 DEF HeadIsNew
  <2>8. NodesAnswer'
    <3>1. \A m \in QNodes :
            qnode'[m].dispatched => qnode'[m].processid \in {qnode'[m].asker, LoadError}
      BY <1>p, <2>1, <2>2, <2>3 DEF NodesAnswer
    <3>2. \A q \in Askers : got[q] # NoPidYet => hdl[q] \in QNodes /\ qnode'[hdl[q]].dispatched
      BY <1>p, <2>1, <2>3 DEF NodesAnswer, WaitersHaveNodes
    <3> QED
      BY <1>p, <2>1, <3>1, <3>2 DEF NodesAnswer, Waits
  <2> QED
    BY <2>5, <2>6, <2>7, <2>8 DEF DispatchParts
<1>12. CASE Advances
  <2>1. /\ dispatcher = "advance" /\ dispatcher' = "idle" /\ loads' = NoQNode
        /\ pd_head' = IF qnode[pd_head].next = Garbage THEN NoQNode ELSE qnode[pd_head].next
        /\ UNCHANGED <<pd_busy, qnode, asks, hdl, got, forgotten>>
    BY <1>12 DEF Advances, Dispatches, askVars
  <2>2. pd_head \in QNodes /\ pd_head' = NoQNode
    BY <1>p, <2>1 DEF HeadIsThere, HeadIsNew
  <2>3. \A q \in Askers : Waits(q) =>
          qnode[hdl[q]].dispatched \/ hdl[q] \in forgotten
    BY <1>p, <2>1 DEF WaitersHaveNodes, HeadIsNew
  <2>4. \A q \in Askers : Waits(q)' <=> Waits(q)
    BY <2>1 DEF Waits
  <2> QED
    <3>1. DispatchTypeOK' /\ AnswersAreOwn' /\ HeadIsThere' /\ HeadIsNew' /\ BusyIsTaken'
      BY <1>p, <2>1, <2>2 DEF DispatchTypeOK, AnswersAreOwn, HeadIsThere, HeadIsNew, BusyIsTaken
    <3>2. WaitersHaveNodes' /\ NodesAnswer'
      BY <1>p, <2>1, <2>3 DEF WaitersHaveNodes, NodesAnswer, Waits
    <3> QED
      BY <3>1, <3>2 DEF DispatchParts
<1> QED
  BY <1>3, <1>4, <1>5, <1>6, <1>7, <1>8, <1>9, <1>10, <1>11, <1>12
     DEF DispatchNext, DispatcherStep, AskerStep

\* Until a request overtakes the dispatcher's work, a requester dies inside it or a node
\* is freed under it, in every order of their steps: every answer goes to who asked, no
\* node in use is freed, and a request is lost only under one that was added on top.
THEOREM SoundDispatch == DispatchSpec => []DispatchIsSound
<1>1. ASSUME DispatchInit PROVE DispatchInv
  <2> USE <1>1, DispatchAssumption DEF DispatchInit, DispatchAssumption
  <2>1. \A n \in QNodes : qnode[n].dispatched = FALSE
    BY DEF Freed, NewNode
  <2>2. DispatchTypeOK
    BY DEF DispatchTypeOK, Freed, NewNode
  <2>3. AnswersAreOwn /\ HeadIsThere /\ WaitersHaveNodes /\ BusyIsTaken /\ HeadIsNew
    BY DEF AnswersAreOwn, HeadIsThere, WaitersHaveNodes, BusyIsTaken, HeadIsNew, Waits
  <2>4. NodesAnswer
    BY <2>1 DEF NodesAnswer
  <2> QED
    BY <2>2, <2>3, <2>4 DEF DispatchInv, DispatchParts
<1>2. DispatchInv => DispatchIsSound
  BY DEF DispatchInv, DispatchParts, DispatchIsSound
<1> QED
  BY <1>1, <1>2, DispatchStep, PTL DEF DispatchSpec

------------------------------------------------------------------------------
\* Mounting.

\* The steps of a call, the mount points that are being taken down, and the calls that
\* will need one.
VolumeSteps == {"idle", "ask", "search", "make", "insert", "mark", "read", "find", "open", "check",
                "unlock", "free", "remove"}

\* The mount points whose volume is being taken off.
LeavingPoints == {m \in MountNodes : Leaving(m)}

\* The callers that may still take a mount point.
Asking == {p \in Mounters : at[p] \in Arriving}

\* The values of the variables.
VolumesType ==
  /\ mounts \subseteq MountNodes /\ marked \subseteq mounts /\ loaded \subseteq marked
  /\ place \in [MountNodes -> PlaceNames \cup {SomeName}]
  /\ device \in [MountNodes -> Devs \cup {SomeDev}]
  /\ at \in [Mounters -> VolumeSteps] /\ job \in [Mounters -> Jobs \cup {NoMount}]
  /\ point \in [Mounters -> MountNodes \cup {Root}]
  /\ holds \in [Mounters -> loaded \cup {Root}] /\ workdir \in [Mounters -> mounts \cup {Root}]

\* What each call that is on its way may still count on.
PointsStand ==
  /\ \A p \in Mounters :
       /\ at[p] = "mark" => point[p] \in mounts \ marked /\ device[point[p]] = job[p].dev
       /\ at[p] \in {"read", "check", "unlock", "free", "remove"} => point[p] \in marked
       /\ at[p] = "remove" => point[p] \notin loaded
       /\ at[p] = "open" => point[p] \in loaded
  /\ \A p, q \in Mounters :
       at[p] = "mark" /\ at[q] = "mark" /\ point[p] = point[q] => p = q

\* No two volumes are mounted at one place.
OnePlace == \A m, n \in mounts : place[m] = place[n] => m = n

\* A mounted device has one mount point that is not being taken down.
OneMount ==
  /\ \A m, n \in marked \ LeavingPoints : device[m] = device[n] => m = n
  /\ devlock = {device[m] : m \in marked \ LeavingPoints}

\* There is memory for every mount point that is asked for.
RoomForAll == Cardinality(Asking) <= Cardinality(FreeNodes)

\* What holds until volHarm records a fault.
VolumesParts == VolumesType /\ PointsStand /\ OnePlace /\ OneMount /\ RoomForAll

\* The invariant of the mounts.
VolumesInv == volHarm = {} => VolumesParts

\* The room left for mounts, where one is used or given back.
LEMMA RoomStays ==
  ASSUME RoomForAll, mounts \subseteq MountNodes, Asking' \subseteq Asking, mounts' \subseteq mounts
  PROVE  RoomForAll'
<1>1. IsFiniteSet(Asking) /\ IsFiniteSet(FreeNodes')
  BY VolumeAssumption, FS_Subset DEF VolumeAssumption, Asking, FreeNodes
<1>2. FreeNodes \subseteq FreeNodes'
  BY DEF FreeNodes
<1>3. Cardinality(Asking') <= Cardinality(Asking) /\ Cardinality(FreeNodes) <= Cardinality(FreeNodes')
  BY <1>1, <1>2, FS_Subset
<1>4. /\ Cardinality(Asking) \in Nat /\ Cardinality(Asking') \in Nat
      /\ Cardinality(FreeNodes) \in Nat /\ Cardinality(FreeNodes') \in Nat
  BY <1>1, <1>2, FS_Subset, FS_CardinalityType
<1> QED
  BY <1>3, <1>4 DEF RoomForAll

\* A step of one process that changes where it is, and nothing that is mounted.
LEMMA CallMoves ==
  ASSUME VolumesParts, NEW p \in Mounters, NEW s \in VolumeSteps,
         at' = [at EXCEPT ![p] = s], job' \in [Mounters -> Jobs \cup {NoMount}],
         point' \in [Mounters -> MountNodes \cup {Root}],
         \A q \in Mounters \ {p} : job'[q] = job[q] /\ point'[q] = point[q],
         UNCHANGED <<placeVars, devlock>>, at[p] \notin {"free", "remove"},
         s \notin {"mark", "free", "remove"},
         s \in {"read", "check", "unlock"} => point'[p] \in marked,
         s = "open" => point'[p] \in loaded,
         s \in Arriving => RoomForAll',
         holds' \in [Mounters -> loaded \cup {Root}], workdir' \in [Mounters -> mounts \cup {Root}]
  PROVE  VolumesParts'
<1> USE DEF VolumesParts
<1>1. at' \in [Mounters -> VolumeSteps] /\ at'[p] = s /\ \A q \in Mounters \ {p} : at'[q] = at[q]
  BY DEF VolumesType
<1>2. VolumesType'
  BY <1>1 DEF VolumesType, placeVars, Jobs, NoMount
<1>3. PointsStand'
  BY <1>1 DEF PointsStand, placeVars
<1>4. LeavingPoints' = LeavingPoints
  BY <1>1 DEF LeavingPoints, Leaving
<1>5. OnePlace' /\ OneMount'
  BY <1>4 DEF OnePlace, OneMount, placeVars
<1>6. s \notin Arriving => Asking' \subseteq Asking
  BY <1>1 DEF Asking, Arriving
<1>7. RoomForAll'
  BY <1>6, RoomStays DEF placeVars, VolumesType
<1> QED
  BY <1>2, <1>3, <1>5, <1>7

\* Every step of a process keeps it.
LEMMA VolumesStep == VolumesInv /\ [VolumesNext]_volVars => VolumesInv'
<1> SUFFICES ASSUME VolumesInv, [VolumesNext]_volVars, volHarm' = {} PROVE VolumesParts'
  BY DEF VolumesInv
<1> USE VolumeAssumption DEF VolumeAssumption
<1>1. CASE UNCHANGED volVars
  <2>1. VolumesParts
    BY <1>1 DEF VolumesInv, volVars
  <2>2. UNCHANGED <<mounts, place, device, marked, loaded, devlock, at, job, point, holds, workdir>>
    BY <1>1 DEF volVars, placeVars, stepVars
  <2>3. LeavingPoints' = LeavingPoints /\ Asking' = Asking
    BY <2>2 DEF LeavingPoints, Leaving, Asking, Arriving
  <2> QED
    BY <2>1, <2>2, <2>3 DEF VolumesParts, VolumesType, PointsStand, OnePlace, OneMount, RoomForAll,
       FreeNodes
<1>2. CASE VolumesStop
  BY <1>1, <1>2 DEF VolumesStop
<1>3. ASSUME NEW p \in Mounters, volHarm = {},
             \/ (\E j \in Jobs : VolumeCall(p, j)) \/ devmgr_getlock(p) \/ MountSearches(p)
             \/ mkvirtualdir(p) \/ InsertsPoint(p) \/ devmgr_setlock(p) \/ mountroot(p)
             \/ Finds(p) \/ OpensFile(p) \/ ClosesFile(p) \/ LeavesVolume(p)
             \/ ChecksUse(p) \/ Unlocks(p) \/ vfs_freedirectory(p) \/ RemovesMount(p)
      PROVE  VolumesParts'
  <2>p. VolumesParts /\ VolumesType /\ PointsStand /\ OnePlace /\ OneMount /\ RoomForAll
    BY <1>3 DEF VolumesInv, VolumesParts
  <2>t. /\ point[p] \in MountNodes \cup {Root} /\ job[p] \in Jobs \cup {NoMount}
        /\ NoMount \in Jobs \cup {NoMount}
        /\ "idle" \in VolumeSteps /\ at[p] \in VolumeSteps
    BY <2>p DEF VolumesType, VolumeSteps
  <2>1. ASSUME NEW j \in Jobs, VolumeCall(p, j)
        PROVE  VolumesParts'
    <3>1. /\ at[p] = "idle" /\ job' = [job EXCEPT ![p] = j]
          /\ at' = [at EXCEPT ![p] = IF j.op = "mount" THEN "ask" ELSE "find"]
          /\ UNCHANGED <<placeVars, devlock, point, holds, workdir>>
          /\ j.op = "mount" =>
               Cardinality(OthersIn(p, Arriving)) < Cardinality(FreeNodes)
      BY <2>1 DEF VolumeCall, Steps
    <3>2. ASSUME j.op = "mount" PROVE RoomForAll'
      <4>1. OthersIn(p, Arriving) = Asking /\ p \notin Asking
        BY <3>1 DEF OthersIn, Asking, Arriving
      <4>2. Asking' = Asking \cup {p}
        BY <2>p, <3>1, <3>2 DEF Asking, Arriving, VolumesType
      <4>3. IsFiniteSet(Asking) /\ IsFiniteSet(FreeNodes) /\ FreeNodes' = FreeNodes
        BY <3>1, FS_Subset DEF Asking, Arriving, FreeNodes, placeVars
      <4>4. Cardinality(Asking') = Cardinality(Asking) + 1
        BY <4>1, <4>2, <4>3, FS_AddElement
      <4>5. Cardinality(Asking) \in Nat /\ Cardinality(FreeNodes) \in Nat
        BY <4>3, FS_CardinalityType
      <4> QED
        BY <3>1, <3>2, <4>1, <4>3, <4>4, <4>5 DEF RoomForAll
    <3>3. PICK s \in {"ask", "find"} : at' = [at EXCEPT ![p] = s] /\ (s = "ask" => j.op = "mount")
      BY <3>1
    <3>4. /\ job' \in [Mounters -> Jobs \cup {NoMount}] /\ point' \in [Mounters -> MountNodes \cup {Root}]
          /\ \A q \in Mounters \ {p} : job'[q] = job[q] /\ point'[q] = point[q]
          /\ holds' \in [Mounters -> loaded \cup {Root}]
          /\ workdir' \in [Mounters -> mounts \cup {Root}]
      BY <2>p, <3>1 DEF VolumesType
    <3> QED
      BY <2>p, <3>1, <3>2, <3>3, <3>4, CallMoves DEF VolumeSteps, Arriving
  \* A step that ends the call, or goes on with it, with nothing mounted changed.
  <2>2. ASSUME Returns(p, at[p]), at[p] \notin {"free", "remove"}, UNCHANGED <<placeVars, devlock>>,
               holds' \in [Mounters -> loaded \cup {Root}], workdir' \in [Mounters -> mounts \cup {Root}]
        PROVE  VolumesParts'
    <3>1. /\ at' = [at EXCEPT ![p] = "idle"] /\ job' = [job EXCEPT ![p] = NoMount]
          /\ point' = [point EXCEPT ![p] = Root]
      BY <2>2 DEF Returns, Steps
    <3>2. /\ job' \in [Mounters -> Jobs \cup {NoMount}] /\ point' \in [Mounters -> MountNodes \cup {Root}]
          /\ \A q \in Mounters \ {p} : job'[q] = job[q] /\ point'[q] = point[q]
      BY <2>p, <2>t, <3>1 DEF VolumesType
    <3> QED
      BY <2>p, <2>2, <3>1, <3>2, CallMoves DEF VolumeSteps, Arriving
  <2>3. ASSUME NEW s \in VolumeSteps, Steps(p, at[p], s), at[p] \notin {"free", "remove"},
               s \notin {"mark", "free", "remove"}, UNCHANGED <<placeVars, devlock, job>>,
               point' \in [Mounters -> MountNodes \cup {Root}],
               \A q \in Mounters \ {p} : point'[q] = point[q],
               s \in {"read", "check", "unlock"} => point'[p] \in marked,
               s = "open" => point'[p] \in loaded,
               s \in Arriving => at[p] \in Arriving,
               holds' \in [Mounters -> loaded \cup {Root}], workdir' \in [Mounters -> mounts \cup {Root}]
        PROVE  VolumesParts'
    <3>1. at' = [at EXCEPT ![p] = s]
      BY <2>3 DEF Steps
    <3>2. ASSUME s \in Arriving PROVE RoomForAll'
      <4>1. Asking' \subseteq Asking
        BY <2>p, <2>3, <3>1, <3>2 DEF Asking, Arriving, VolumesType
      <4> QED
        BY <2>p, <2>3, <4>1, RoomStays DEF VolumesType, placeVars
    <3>3. /\ job' \in [Mounters -> Jobs \cup {NoMount}]
          /\ \A q \in Mounters \ {p} : job'[q] = job[q] /\ point'[q] = point[q]
      BY <2>p, <2>3 DEF VolumesType
    <3> QED
      BY <2>p, <2>3, <3>1, <3>2, <3>3, CallMoves
  <2>s. /\ holds \in [Mounters -> loaded \cup {Root}] /\ workdir \in [Mounters -> mounts \cup {Root}]
        /\ point \in [Mounters -> MountNodes \cup {Root}]
        /\ loaded \subseteq MountNodes /\ mounts \subseteq MountNodes /\ marked \subseteq MountNodes
    BY <2>p DEF VolumesType
  <2>4. CASE devmgr_getlock(p)
    <3>1. CASE Steps(p, "ask", "search") /\ UNCHANGED <<job, point>>
      BY <2>s, <2>3, <2>4, <3>1 DEF devmgr_getlock, Steps, VolumeSteps, Arriving
    <3>2. CASE Returns(p, "ask")
      BY <2>s, <2>2, <2>4, <3>2 DEF devmgr_getlock, Steps, Returns
    <3> QED
      BY <2>4, <3>1, <3>2 DEF devmgr_getlock
  <2>5. CASE MountSearches(p)
    <3>1. CASE Steps(p, "search", "make") /\ UNCHANGED <<job, point>>
      BY <2>s, <2>3, <2>5, <3>1 DEF MountSearches, Steps, VolumeSteps, Arriving
    <3>2. CASE Returns(p, "search")
      BY <2>s, <2>2, <2>5, <3>2 DEF MountSearches, Steps, Returns
    <3> QED
      BY <2>5, <3>1, <3>2 DEF MountSearches
  <2>6. CASE Finds(p)
    <3> DEFINE found == PlacesOf(job[p].name)
               m == CHOOSE n \in found : TRUE
    <3>1. UNCHANGED <<placeVars, devlock, holds>>
      BY <2>6 DEF Finds
    <3>2. \A n \in found : n \in mounts /\ m \in mounts /\ n = m
      BY <2>p DEF PlacesOf, OnePlace
    <3> HIDE DEF found, m
    <3>3. CASE /\ found \cap marked # {} /\ Steps(p, "find", "check")
               /\ point' = [point EXCEPT ![p] = m] /\ UNCHANGED <<job, workdir>>
      <4>1. m \in marked
        BY <3>2, <3>3
      <4> QED
        BY <2>s, <2>3, <3>1, <3>3, <4>1 DEF Steps, VolumeSteps, Arriving
    <3>4. CASE /\ found \cap loaded # {} /\ Steps(p, "find", "open")
               /\ point' = [point EXCEPT ![p] = m] /\ UNCHANGED <<job, workdir>>
      <4>1. m \in loaded
        BY <3>2, <3>4
      <4> QED
        BY <2>s, <2>3, <3>1, <3>4, <4>1 DEF Steps, VolumeSteps, Arriving
    <3>5. CASE /\ found # {} /\ Returns(p, "find") /\ workdir' = [workdir EXCEPT ![p] = m]
      <4>1. m \in mounts
        BY <3>2, <3>5
      <4> QED
        BY <2>s, <2>2, <3>1, <3>5, <4>1 DEF Steps, Returns
    <3>6. CASE Returns(p, "find") /\ UNCHANGED workdir
      BY <2>s, <2>2, <3>1, <3>6 DEF Steps, Returns
    <3> QED
      BY <2>6, <3>3, <3>4, <3>5, <3>6 DEF Finds, found, m
  <2>7. CASE OpensFile(p)
    <3>1. point[p] \in loaded
      BY <2>p, <2>7 DEF OpensFile, Returns, Steps, PointsStand
    <3> QED
      BY <2>s, <2>2, <2>7, <3>1 DEF OpensFile, Returns, Steps
  <2>8. CASE ClosesFile(p) \/ LeavesVolume(p)
    BY <2>s, <2>3, <2>8 DEF ClosesFile, LeavesVolume, Steps, VolumeSteps, Arriving
  <2>9. CASE ChecksUse(p)
    <3>1. at[p] = "check" /\ point[p] \in marked
      BY <2>p, <2>9 DEF ChecksUse, Returns, Steps, PointsStand
    <3>2. CASE Steps(p, "check", "unlock") /\ UNCHANGED <<job, point>>
      BY <2>s, <2>3, <2>9, <3>1, <3>2 DEF ChecksUse, Steps, VolumeSteps, Arriving
    <3>3. CASE Returns(p, "check")
      BY <2>s, <2>2, <2>9, <3>1, <3>3 DEF ChecksUse, Steps, Returns
    <3> QED
      BY <2>9, <3>2, <3>3 DEF ChecksUse
  <2>16. CASE mkvirtualdir(p)
    BY <2>s, <2>3, <2>16 DEF mkvirtualdir, Steps, VolumeSteps, Arriving
  <2>10. CASE InsertsPoint(p)
    <3> DEFINE m == CHOOSE n \in FreeNodes : TRUE
    <3>1. /\ at[p] = "insert" /\ at' = [at EXCEPT ![p] = "mark"] /\ PlacesOf(job[p].name) = {}
          /\ mounts' = mounts \cup {m} /\ place' = [place EXCEPT ![m] = job[p].name]
          /\ device' = [device EXCEPT ![m] = job[p].dev] /\ point' = [point EXCEPT ![p] = m]
          /\ UNCHANGED <<marked, loaded, devlock, job, holds, workdir>>
      BY <2>10 DEF InsertsPoint, Steps
    <3>2. /\ IsFiniteSet(Asking) /\ IsFiniteSet(FreeNodes) /\ p \in Asking
          /\ Cardinality(Asking) \in Nat /\ Cardinality(FreeNodes) \in Nat
      BY <3>1, FS_Subset, FS_CardinalityType DEF Asking, Arriving, FreeNodes
    <3>3. Asking' = Asking \ {p} /\ Cardinality(Asking') = Cardinality(Asking) - 1
      <4>1. Asking' = Asking \ {p}
        BY <2>p, <3>1 DEF Asking, Arriving, VolumesType
      <4> QED
        BY <3>2, <4>1, FS_RemoveElement
    <3>4. FreeNodes # {}
      <4>1. Cardinality(Asking) # 0
        BY <3>2, FS_EmptySet
      <4>2. Cardinality(FreeNodes) # 0
        BY <2>p, <3>2, <4>1 DEF RoomForAll
      <4> QED
        BY <4>2, FS_EmptySet
    <3>5. m \in FreeNodes
      BY <3>4
    <3> HIDE DEF m
    <3>6. m \in MountNodes /\ m \notin mounts
      BY <3>5 DEF FreeNodes
    <3>7. RoomForAll'
      <4>1. FreeNodes' = FreeNodes \ {m}
        BY <3>1 DEF FreeNodes
      <4>2. Cardinality(FreeNodes') = Cardinality(FreeNodes) - 1
        BY <3>2, <3>5, <4>1, FS_RemoveElement
      <4> QED
        BY <2>p, <3>2, <3>3, <4>2 DEF RoomForAll
    <3>8. /\ \A q \in Mounters \ {p} : at'[q] = at[q] /\ point'[q] = point[q]
          /\ at'[p] = "mark" /\ point'[p] = m
          /\ \A n \in MountNodes \ {m} : place'[n] = place[n] /\ device'[n] = device[n]
          /\ place'[m] = job[p].name /\ device'[m] = job[p].dev
      BY <2>p, <3>1, <3>6 DEF VolumesType
    <3>9. VolumesType'
      <4>1. job[p].name \in PlaceNames \cup {SomeName} /\ job[p].dev \in Devs \cup {SomeDev}
        BY <2>t DEF Jobs, NoMount
      <4> QED
        BY <2>p, <3>1, <3>6, <4>1 DEF VolumesType, VolumeSteps
    <3>10. PointsStand'
      <4>1. \A q \in Mounters \ {p} :
              /\ at[q] = "mark" => device'[point[q]] = device[point[q]]
              /\ at[q] = "mark" => point[q] # m
        BY <2>p, <3>6, <3>8 DEF PointsStand, VolumesType
      <4> QED
        BY <2>p, <3>1, <3>6, <3>8, <4>1 DEF PointsStand, VolumesType
    <3>11. OnePlace'
      <4>1. \A n \in mounts : n # m /\ place[n] # job[p].name
        BY <3>1, <3>6 DEF PlacesOf
      <4> QED
        BY <2>p, <3>1, <3>6, <3>8, <4>1 DEF OnePlace, VolumesType
    <3>12. OneMount'
      <4>1. LeavingPoints' = LeavingPoints
        BY <3>1, <3>8 DEF LeavingPoints, Leaving
      <4>2. \A n \in marked : device'[n] = device[n]
        BY <2>p, <3>6, <3>8 DEF VolumesType
      <4> QED
        BY <2>p, <3>1, <4>1, <4>2 DEF OneMount
    <3> QED
      BY <3>7, <3>9, <3>10, <3>11, <3>12 DEF VolumesParts
  <2>11. CASE devmgr_setlock(p)
    <3>1. /\ at[p] = "mark" /\ at' = [at EXCEPT ![p] = "read"] /\ job[p].dev \notin devlock
          /\ marked' = marked \cup {point[p]} /\ devlock' = devlock \cup {job[p].dev}
          /\ UNCHANGED <<mounts, place, device, loaded, job, point, holds, workdir>>
      BY <2>11 DEF devmgr_setlock, Steps, HarmIf
    <3>2. point[p] \in mounts \ marked /\ device[point[p]] = job[p].dev
      BY <2>p, <3>1 DEF PointsStand
    <3>3. at'[p] = "read" /\ \A q \in Mounters \ {p} : at'[q] = at[q]
      BY <2>p, <3>1 DEF VolumesType
    <3>4. VolumesType'
      BY <2>p, <3>1, <3>2 DEF VolumesType, VolumeSteps
    <3>5. PointsStand'
      BY <2>p, <3>1, <3>2, <3>3 DEF PointsStand
    <3>6. LeavingPoints' = LeavingPoints /\ point[p] \notin LeavingPoints
      BY <2>p, <3>1, <3>2, <3>3 DEF LeavingPoints, Leaving, PointsStand
    <3>7. OnePlace' /\ OneMount'
      BY <2>p, <3>1, <3>2, <3>6 DEF OnePlace, OneMount
    <3>8. RoomForAll'
      BY <2>p, <3>1, <3>3, RoomStays DEF Asking, Arriving, VolumesType
    <3> QED
      BY <3>4, <3>5, <3>7, <3>8 DEF VolumesParts
  <2>12. CASE mountroot(p)
    <3>1. /\ at[p] = "read" /\ ~Leaving(point[p]) /\ point[p] \in marked
          /\ UNCHANGED <<mounts, place, device, marked, devlock, holds, workdir>>
      BY <2>p, <2>12 DEF mountroot, Steps, Returns, HarmIf, PointsStand
    <3>2. CASE Returns(p, "read") /\ loaded' = loaded \cup {point[p]}
      <4>1. /\ at' = [at EXCEPT ![p] = "idle"] /\ job' = [job EXCEPT ![p] = NoMount]
            /\ point' = [point EXCEPT ![p] = Root]
        BY <3>2 DEF Returns, Steps
      <4>2. /\ at'[p] = "idle" /\ point'[p] = Root
            /\ \A q \in Mounters \ {p} : at'[q] = at[q] /\ point'[q] = point[q] /\ job'[q] = job[q]
        BY <2>p, <4>1 DEF VolumesType
      <4>3. VolumesType'
        <5>1. job' \in [Mounters -> Jobs \cup {NoMount}]
          BY <2>p, <2>t, <4>1 DEF VolumesType
        <5>2. at' \in [Mounters -> VolumeSteps] /\ point' \in [Mounters -> MountNodes \cup {Root}]
          BY <2>p, <4>1 DEF VolumesType, VolumeSteps
        <5> QED
          BY <2>p, <3>1, <3>2, <5>1, <5>2 DEF VolumesType
      <4>4. PointsStand'
        BY <2>p, <3>1, <3>2, <4>2 DEF PointsStand, Leaving
      <4>5. LeavingPoints' = LeavingPoints
        BY <3>1, <4>2 DEF LeavingPoints, Leaving
      <4>6. OnePlace' /\ OneMount'
        BY <2>p, <3>1, <4>5 DEF OnePlace, OneMount
      <4>7. Asking' \subseteq Asking
        BY <4>2 DEF Asking, Arriving
      <4>8. RoomForAll'
        BY <2>p, <3>1, <4>7, RoomStays DEF VolumesType
      <4> QED
        BY <4>3, <4>4, <4>6, <4>8 DEF VolumesParts
    <3>3. CASE Steps(p, "read", "check") /\ UNCHANGED <<job, point, loaded>>
      BY <2>s, <2>3, <3>1, <3>3 DEF Steps, VolumeSteps, Arriving, placeVars
    <3> QED
      BY <2>12, <3>2, <3>3 DEF mountroot
  <2>13. CASE Unlocks(p)
    <3> DEFINE m == point[p]
    <3>1. /\ at[p] = "unlock" /\ at' = [at EXCEPT ![p] = "free"] /\ ~Leaving(m)
          /\ devlock' = devlock \ {device[m]}
          /\ UNCHANGED <<placeVars, job, point, holds, workdir>>
      BY <2>13 DEF Unlocks, Steps, HarmIf
    <3>2. m \in marked \ LeavingPoints /\ m \in MountNodes
      BY <2>p, <3>1 DEF PointsStand, LeavingPoints, VolumesType
    <3>3. at'[p] = "free" /\ \A q \in Mounters \ {p} : at'[q] = at[q]
      BY <2>p, <3>1 DEF VolumesType
    <3>4. VolumesType'
      BY <2>p, <3>1 DEF VolumesType, VolumeSteps, placeVars
    <3>5. PointsStand'
      BY <2>p, <3>1, <3>2, <3>3 DEF PointsStand, placeVars
    <3>6. LeavingPoints' = LeavingPoints \cup {m}
      BY <3>1, <3>2, <3>3 DEF LeavingPoints, Leaving
    <3> HIDE DEF m
    <3>7. OnePlace' /\ OneMount'
      BY <2>p, <3>1, <3>2, <3>6 DEF OnePlace, OneMount, placeVars
    <3>8. RoomForAll'
      BY <2>p, <3>1, <3>3, RoomStays DEF Asking, Arriving, VolumesType, placeVars
    <3> QED
      BY <3>4, <3>5, <3>7, <3>8 DEF VolumesParts
  <2>14. CASE vfs_freedirectory(p)
    <3> DEFINE m == point[p]
    <3>1. /\ at[p] = "free" /\ at' = [at EXCEPT ![p] = "remove"] /\ loaded' = loaded \ {m}
          /\ \A q \in Mounters : holds[q] # m /\ (at[q] = "open" => point[q] # m)
          /\ UNCHANGED <<mounts, place, device, marked, devlock, job, point, holds, workdir>>
      BY <2>14 DEF vfs_freedirectory, Steps, HarmIf
    <3>2. at'[p] = "remove" /\ \A q \in Mounters \ {p} : at'[q] = at[q]
      BY <2>p, <3>1 DEF VolumesType
    <3>3. VolumesType'
      BY <2>p, <3>1 DEF VolumesType, VolumeSteps
    <3>4. PointsStand'
      BY <2>p, <3>1, <3>2 DEF PointsStand
    <3>5. LeavingPoints' = LeavingPoints
      BY <3>1, <3>2 DEF LeavingPoints, Leaving
    <3>6. OnePlace' /\ OneMount'
      BY <2>p, <3>1, <3>5 DEF OnePlace, OneMount
    <3>7. RoomForAll'
      BY <2>p, <3>1, <3>2, RoomStays DEF Asking, Arriving, VolumesType
    <3> QED
      BY <3>3, <3>4, <3>6, <3>7 DEF VolumesParts
  <2>15. CASE RemovesMount(p)
    <3> DEFINE m == point[p]
    <3>1. /\ at[p] = "remove" /\ at' = [at EXCEPT ![p] = "idle"]
          /\ job' = [job EXCEPT ![p] = NoMount] /\ point' = [point EXCEPT ![p] = Root]
          /\ mounts' = mounts \ {m} /\ marked' = marked \ {m} /\ loaded' = loaded \ {m}
          /\ \A q \in Mounters \ {p} : point[q] # m
          /\ \A q \in Mounters : workdir[q] # m
          /\ place' = [place EXCEPT ![m] = SomeName] /\ device' = [device EXCEPT ![m] = SomeDev]
          /\ UNCHANGED <<devlock, holds, workdir>>
      BY <2>15 DEF RemovesMount, Returns, Steps
    <3>2. m \in marked /\ m \notin loaded /\ m \in MountNodes /\ m \in LeavingPoints
      BY <2>p, <3>1 DEF PointsStand, LeavingPoints, Leaving, VolumesType
    <3>3. /\ at'[p] = "idle" /\ point'[p] = Root
          /\ \A q \in Mounters \ {p} : at'[q] = at[q] /\ point'[q] = point[q] /\ job'[q] = job[q]
          /\ \A n \in MountNodes \ {m} : place'[n] = place[n] /\ device'[n] = device[n]
      BY <2>p, <3>1, <3>2 DEF VolumesType
    <3>4. VolumesType'
      <4>1. job' \in [Mounters -> Jobs \cup {NoMount}]
        BY <2>p, <2>t, <3>1 DEF VolumesType
      <4>2. at' \in [Mounters -> VolumeSteps] /\ point' \in [Mounters -> MountNodes \cup {Root}]
        BY <2>p, <3>1 DEF VolumesType, VolumeSteps
      <4>3. /\ place' \in [MountNodes -> PlaceNames \cup {SomeName}]
            /\ device' \in [MountNodes -> Devs \cup {SomeDev}]
        BY <2>p, <3>1 DEF VolumesType
      <4>4. /\ holds' \in [Mounters -> loaded' \cup {Root}]
            /\ workdir' \in [Mounters -> mounts' \cup {Root}]
        BY <2>p, <3>1, <3>2 DEF VolumesType
      <4> QED
        BY <2>p, <3>1, <4>1, <4>2, <4>3, <4>4 DEF VolumesType
    <3>5. PointsStand'
      BY <2>p, <3>1, <3>2, <3>3 DEF PointsStand, VolumesType
    <3>6. marked' \ LeavingPoints' = marked \ LeavingPoints
      <4>1. \A n \in MountNodes \ {m} : Leaving(n)' <=> Leaving(n)
        BY <3>1, <3>3 DEF Leaving
      <4> QED
        BY <2>p, <3>1, <3>2, <4>1 DEF LeavingPoints, VolumesType
    <3> HIDE DEF m
    <3>7. OnePlace' /\ OneMount'
      <4>1. \A n \in marked \ LeavingPoints : device'[n] = device[n]
        BY <2>p, <3>2, <3>3 DEF VolumesType
      <4>2. OneMount'
        BY <2>p, <3>1, <3>6, <4>1 DEF OneMount
      <4>3. OnePlace'
        BY <2>p, <3>1, <3>3 DEF OnePlace, VolumesType
      <4> QED
        BY <4>2, <4>3
    <3>8. Asking' \subseteq Asking /\ mounts' \subseteq mounts
      BY <3>1, <3>3 DEF Asking, Arriving
    <3>9. RoomForAll'
      BY <2>p, <3>8, RoomStays DEF VolumesType
    <3> QED
      BY <3>4, <3>5, <3>7, <3>9 DEF VolumesParts
  <2> QED
    BY <1>3, <2>1, <2>4, <2>5, <2>6, <2>7, <2>8, <2>9, <2>10, <2>11, <2>12, <2>13, <2>14,
       <2>15, <2>16
<1>4. VolumesNext => volHarm = {} \/ VolumesStop
  BY DEF VolumesNext, VolumeCall, devmgr_getlock, MountSearches, mkvirtualdir, InsertsPoint,
     devmgr_setlock, mountroot, Finds, OpensFile, ClosesFile, LeavesVolume, ChecksUse, Unlocks, vfs_freedirectory,
     RemovesMount, Returns, Steps
<1> QED
  BY <1>1, <1>2, <1>3, <1>4 DEF VolumesNext

\* Until a call finds the memory it had looked up gone, or a device is mounted twice, in
\* every order of the mounts, unmounts and calls of any number of processes: a device is
\* marked just while one mount point stands for it, no two mount points have one name,
\* and what is open, or a working directory, is on a volume that is there.
THEOREM SoundMounts == VolumesSpec => []MountsAreSound
<1>1. ASSUME VolumesInit PROVE VolumesInv
  <2> USE <1>1, VolumeAssumption DEF VolumesInit, VolumeAssumption
  <2>1. VolumesType
    BY DEF VolumesType, VolumeSteps, Jobs, NoMount
  <2>2. PointsStand /\ OnePlace
    BY DEF PointsStand, OnePlace
  <2>3. OneMount
    BY DEF OneMount
  <2>4. RoomForAll
    <3>1. Asking = {} /\ FreeNodes = MountNodes
      BY DEF Asking, Arriving, FreeNodes
    <3> QED
      BY <3>1, FS_EmptySet, FS_CardinalityType DEF RoomForAll
  <2> QED
    BY <2>1, <2>2, <2>3, <2>4 DEF VolumesInv, VolumesParts
<1>2. ASSUME VolumesInv, volHarm = {} PROVE MountsAreSound
  <2>1. VolumesType /\ OnePlace /\ OneMount
    BY <1>2 DEF VolumesInv, VolumesParts
  <2>2. \A S : (\A m, n \in S : m = n) => Cardinality(S) <= 1
    <3>1. ASSUME NEW S, \A m, n \in S : m = n PROVE Cardinality(S) <= 1
      <4>1. CASE S = {}
        BY <4>1, FS_EmptySet
      <4>2. CASE S # {}
        <5>1. PICK m \in S : S = {m}
          BY <3>1, <4>2
        <5>2. Cardinality({m}) = 1
          BY FS_Singleton
        <5> QED
          BY <5>1, <5>2
      <4> QED
        BY <4>1, <4>2
    <3> QED
      BY <3>1
  <2>3. \A d : MountedOn(d) = {m \in marked \ LeavingPoints : device[m] = d}
    BY <2>1 DEF MountedOn, LeavingPoints, VolumesType
  <2>4. ASSUME NEW d \in Devs
        PROVE  (d \in devlock <=> MountedOn(d) # {}) /\ Cardinality(MountedOn(d)) <= 1
    <3>1. \A m, n \in MountedOn(d) : m = n
      BY <2>1, <2>3 DEF OneMount
    <3> QED
      BY <2>1, <2>2, <2>3, <3>1 DEF OneMount
  <2>5. ASSUME NEW n \in PlaceNames PROVE Cardinality(PlacesOf(n)) <= 1
    <3>1. \A m, k \in PlacesOf(n) : m = k
      BY <2>1 DEF OnePlace, PlacesOf
    <3> QED
      BY <2>2, <3>1
  <2> QED
    BY <2>1, <2>4, <2>5 DEF MountsAreSound, VolumesType
<1>3. VolumesInv => MountsAreSound
  BY <1>2 DEF MountsAreSound
<1> QED
  BY <1>1, <1>3, VolumesStep, PTL DEF VolumesSpec

------------------------------------------------------------------------------
\* The keyboard and the consoles.

\* What remains of a sum of two places of a ring of n: how many keys wait.
Wrapped(x, n) == IF x >= n THEN x - n ELSE x

\* How many keys wait, from the two numbers alone.
Count == IF pressed >= due THEN pressed - due ELSE pressed - due + BUF_SIZE + 1

\* A number that wraps round once.
LEMMA ModIsWrapped ==
  ASSUME NEW n \in Nat \ {0}, NEW x \in 0 .. 2 * n - 1
  PROVE  x % n = Wrapped(x, n)
<1>1. CASE x < n
  BY <1>1 DEF Wrapped
<1>2. CASE x >= n
  <2>1. x = n * 1 + (x - n) /\ x - n \in 0 .. n - 1
    BY <1>2
  <2> QED
    BY <1>2, <2>1 DEF Wrapped
<1> QED
  BY <1>1, <1>2

\* The keys that wait are those put in and not taken.
LEMMA WaitingIsCount ==
  ASSUME pressed \in KeyNumbers, due \in KeyNumbers
  PROVE  Waiting = Count /\ Count \in 0 .. BUF_SIZE
<1> USE KeyboardAssumption DEF KeyboardAssumption
<1> DEFINE n == BUF_SIZE + 1
<1>1. pressed \in 0 .. n - 1 /\ due \in 0 .. n - 1 /\ n \in Nat \ {0}
  BY DEF KeyNumbers
<1>2. Count \in 0 .. BUF_SIZE
  BY <1>1 DEF Count
<1>3. CASE pressed >= due
  <2>1. pressed - due \in 0 .. n - 1
    BY <1>1, <1>3
  <2>2. (pressed - due) % n = pressed - due
    BY <1>1, <2>1
  <2> QED
    BY <1>2, <1>3, <2>2 DEF Waiting, Count
<1>4. CASE pressed < due
  <2>1. pressed - due + n \in 0 .. n - 1
    BY <1>1, <1>4
  <2>2. (pressed - due) % n = pressed - due + n
    BY <1>1, <2>1
  <2> QED
    BY <1>1, <1>2, <1>4, <2>2 DEF Waiting, Count
<1> QED
  BY <1>1, <1>3, <1>4

\* Highest and Lowest are members: the least-number principle for sets of naturals.
LEMMA LeastNumber ==
  ASSUME NEW T \in SUBSET Nat, T # {}
  PROVE  \E m \in T : \A k \in T : m <= k
<1> DEFINE less == {ss \in Nat \X Nat : ss[1] < ss[2]}
<1>1. IsWellFoundedOn(less, Nat) /\ \A x, y \in Nat : <<y, x>> \in less <=> y < x
  BY NatLessThanWellFounded DEF OpToRel
<1>2. \E x \in T : \A y \in T : ~(<<y, x>> \in less)
  <2> HIDE DEF less
  <2> QED
    BY <1>1, WFMin
<1>3. \A x, y \in T : ~(<<y, x>> \in less) => x <= y
  BY <1>1
<1> QED
  BY <1>2, <1>3

\* The first and the last of a set of slots.
LEMMA Extremes ==
  ASSUME NEW T \in SUBSET ConsoleSlots, T # {}
  PROVE  Highest(T) \in T /\ Lowest(T) \in T
<1> USE KeyboardAssumption DEF KeyboardAssumption, ConsoleSlots
<1>1. \E m \in T : \A k \in T : m <= k
  BY LeastNumber
<1>2. \E m \in T : \A k \in T : k <= m
  <2> DEFINE mirror == {FG_MAXCONSOLE - k : k \in T}
  <2>1. mirror \in SUBSET Nat /\ mirror # {}
    <3>1. \A k \in T : FG_MAXCONSOLE - k \in Nat
      OBVIOUS
    <3>2. \A n \in mirror : n \in Nat
      BY <3>1
    <3> QED
      BY <3>2
  <2>2. PICK n \in mirror : \A k \in mirror : n <= k
    BY <2>1, LeastNumber
  <2>3. PICK m \in T : n = FG_MAXCONSOLE - m
    OBVIOUS
  <2>4. \A k \in T : FG_MAXCONSOLE - m <= FG_MAXCONSOLE - k
    BY <2>2, <2>3
  <2> QED
    BY <2>4
<1>3. \E m : m \in T /\ \A k \in T : m <= k
  BY <1>1
<1>4. \E m : m \in T /\ \A k \in T : k <= m
  BY <1>2
<1> QED
  BY <1>3, <1>4 DEF Highest, Lowest

\* The values of the variables.
KeyboardType ==
  /\ data \in [0 .. BUF_SIZE - 1 -> KeyNumbers] /\ pressed \in KeyNumbers /\ due \in KeyNumbers
  /\ in_ptr \in 0 .. BUF_SIZE - 1 /\ out_ptr \in 0 .. BUF_SIZE /\ deq_busy \in BOOLEAN
  /\ fg_vconsoles \in [ConsoleSlots -> Shells \cup {KernelConsole, NoConsole}]
  /\ fg_current \in ConsoleSlots
  /\ step \in [Shells -> {"new", "slot", "run", "spin", "set", "look", "wrap"}]
  /\ slot \in [Shells -> ConsoleSlots]

\* The keys that wait, with the ring's numbers unrolled.
KeysWait ==
  /\ Count < BUF_SIZE /\ in_ptr = Wrapped(out_ptr + Count, BUF_SIZE)
  /\ \A i \in 0 .. Count - 1 :
       data[Wrapped(out_ptr + i, BUF_SIZE)] = Wrapped(due + i, BUF_SIZE + 1)

\* One console at most is inside deq, and only it lets out_ptr run past the end.
OneReader ==
  /\ deq_busy <=> \E p \in Shells : InDeq(p)
  /\ \A p, q \in Shells : InDeq(p) /\ InDeq(q) => p = q
  /\ out_ptr = BUF_SIZE => \E p \in Shells : step[p] = "wrap"

\* The first slot is the kernel's; every other one that is in use has its console.
ConsolesStand ==
  /\ fg_vconsoles[0] = KernelConsole /\ fg_vconsoles[fg_current] # NoConsole
  /\ \A p \in Shells, s \in ConsoleSlots :
       fg_vconsoles[s] = p <=> step[p] \notin {"new", "slot"} /\ s = slot[p]

\* What holds until kbHarm records a fault.
KeyboardParts == KeyboardType /\ KeysWait /\ OneReader /\ ConsolesStand

\* The invariant of the keyboard and the consoles.
KeyboardInv == kbHarm = {} => KeyboardParts

\* The handler puts a key in.
LEMMA KeyGoesIn ==
  ASSUME KeyboardParts, kbd_irq, kbHarm' = {}
  PROVE  KeyboardType' /\ KeysWait'
<1> USE KeyboardAssumption DEF KeyboardAssumption
<1> DEFINE n == BUF_SIZE
           temp == Wrapped(in_ptr + 1, n)
<1>1. /\ data' = [data EXCEPT ![in_ptr] = pressed] /\ in_ptr' = temp
      /\ pressed' = Wrapped(pressed + 1, n + 1) /\ temp # Wrapped(out_ptr, n)
      /\ UNCHANGED <<out_ptr, due, deq_busy, fg_vconsoles, fg_current, step, slot>>
  <2>1. /\ in_ptr + 1 \in 0 .. 2 * n - 1 /\ out_ptr \in 0 .. 2 * n - 1
        /\ pressed + 1 \in 0 .. 2 * (n + 1) - 1
    BY DEF KeyboardParts, KeyboardType, KeyNumbers
  <2>2. /\ (in_ptr + 1) % n = temp /\ out_ptr % n = Wrapped(out_ptr, n)
        /\ (pressed + 1) % (n + 1) = Wrapped(pressed + 1, n + 1)
    BY <2>1, ModIsWrapped
  <2> HIDE DEF temp
  <2> QED
    BY <2>2 DEF kbd_irq, NextKey, Spoils, consoleVars
<1>2. KeyboardType /\ KeysWait /\ Count \in 0 .. n - 1
  BY WaitingIsCount DEF KeyboardParts, KeyboardType, KeysWait
<1>3. /\ pressed \in 0 .. n /\ due \in 0 .. n /\ in_ptr \in 0 .. n - 1 /\ out_ptr \in 0 .. n
      /\ in_ptr = Wrapped(out_ptr + Count, n)
  BY <1>2 DEF KeyboardType, KeysWait, KeyNumbers
<1>4. KeyboardType'
  BY <1>1, <1>2, <1>3 DEF KeyboardType, KeyNumbers, Wrapped
<1>5. Count + 1 < n
  BY <1>1, <1>2, <1>3 DEF Wrapped
<1>6. Count' = Count + 1
  BY <1>1, <1>2, <1>3, <1>5 DEF Count, Wrapped
<1>7. in_ptr' = Wrapped(out_ptr' + Count', n)
  BY <1>1, <1>2, <1>3, <1>5, <1>6 DEF Wrapped
<1>8. ASSUME NEW i \in 0 .. Count' - 1
      PROVE  data'[Wrapped(out_ptr' + i, n)] = Wrapped(due' + i, n + 1)
  <2>1. CASE i = Count
    <3>1. pressed = Wrapped(due + Count, n + 1)
      BY <1>2, <1>3 DEF Wrapped, Count
    <3>2. data'[in_ptr] = pressed
      BY <1>1, <1>2, <1>3 DEF KeyboardType
    <3> QED
      BY <1>1, <1>3, <2>1, <3>1, <3>2
  <2>2. CASE i # Count
    <3>1. i \in 0 .. Count - 1
      BY <1>2, <1>6, <2>2
    <3>2. /\ Wrapped(out_ptr + i, n) # in_ptr /\ Wrapped(out_ptr + i, n) \in 0 .. n - 1
      BY <1>2, <1>3, <3>1 DEF Wrapped
    <3>3. data'[Wrapped(out_ptr + i, n)] = data[Wrapped(out_ptr + i, n)]
      BY <1>1, <1>2, <3>2 DEF KeyboardType
    <3> QED
      BY <1>1, <1>2, <3>1, <3>3 DEF KeysWait
  <2> QED
    BY <2>1, <2>2
<1> QED
  BY <1>4, <1>5, <1>6, <1>7, <1>8 DEF KeysWait

\* A console takes one out, and then wraps out_ptr.
LEMMA KeyComesOut ==
  ASSUME KeyboardParts, NEW p \in Shells, TakesKey(p) \/ Wraps(p)
  PROVE  KeyboardType' /\ KeysWait'
<1> USE KeyboardAssumption DEF KeyboardAssumption
<1> DEFINE n == BUF_SIZE
<1>1. KeyboardType /\ KeysWait /\ Count \in 0 .. n - 1
  BY WaitingIsCount DEF KeyboardParts, KeyboardType, KeysWait
<1>2. /\ pressed \in 0 .. n /\ due \in 0 .. n /\ in_ptr \in 0 .. n - 1 /\ out_ptr \in 0 .. n
      /\ in_ptr = Wrapped(out_ptr + Count, n)
  BY <1>1 DEF KeyboardType, KeysWait, KeyNumbers
<1>3. CASE TakesKey(p)
  <2>1. /\ out_ptr # in_ptr /\ out_ptr' = out_ptr + 1 /\ due' = Wrapped(due + 1, n + 1)
        /\ step[p] = "look" /\ step' = [step EXCEPT ![p] = "wrap"]
        /\ UNCHANGED <<data, in_ptr, pressed, deq_busy, fg_vconsoles, fg_current, slot>>
    <3>1. due + 1 \in 0 .. 2 * (n + 1) - 1
      BY <1>2
    <3>2. (due + 1) % (n + 1) = Wrapped(due + 1, n + 1)
      BY <3>1, ModIsWrapped
    <3> QED
      BY <1>3, <3>2 DEF TakesKey, Walks, NextKey, consoleVars
  <2>2. out_ptr < n
    BY <1>2, <2>1 DEF KeyboardParts, OneReader, InDeq
  <2>3. Count > 0 /\ Count' = Count - 1
    BY <1>1, <1>2, <2>1, <2>2 DEF Count, Wrapped
  <2>4. KeyboardType'
    BY <1>1, <1>2, <2>1, <2>2 DEF KeyboardType, KeyNumbers, Wrapped
  <2>5. in_ptr' = Wrapped(out_ptr' + Count', n)
    BY <1>1, <1>2, <2>1, <2>3
  <2>6. ASSUME NEW i \in 0 .. Count' - 1
        PROVE  data'[Wrapped(out_ptr' + i, n)] = Wrapped(due' + i, n + 1)
    <3>1. i + 1 \in 0 .. Count - 1 /\ out_ptr' + i = out_ptr + (i + 1)
      BY <1>1, <1>2, <2>1, <2>3
    <3>2. Wrapped(due' + i, n + 1) = Wrapped(due + (i + 1), n + 1)
      BY <1>1, <1>2, <2>1, <3>1 DEF Wrapped
    <3> QED
      BY <1>1, <2>1, <3>1, <3>2 DEF KeysWait
  <2> QED
    BY <1>1, <2>3, <2>4, <2>5, <2>6 DEF KeysWait
<1>4. CASE Wraps(p)
  <2>1. /\ out_ptr' = Wrapped(out_ptr, n) /\ deq_busy' = FALSE
        /\ step' = [step EXCEPT ![p] = "run"]
        /\ UNCHANGED <<data, in_ptr, pressed, due, fg_vconsoles, fg_current, slot>>
    BY <1>2, <1>4 DEF Wraps, Walks, consoleVars, Wrapped
  <2>2. Count' = Count
    BY <2>1 DEF Count
  <2>3. KeyboardType'
    <3>1. out_ptr' \in 0 .. n
      BY <1>2, <2>1 DEF Wrapped
    <3>2. step' \in [Shells -> {"new", "slot", "run", "spin", "set", "look", "wrap"}]
      BY <1>1, <2>1 DEF KeyboardType
    <3> QED
      BY <1>1, <2>1, <3>1, <3>2 DEF KeyboardType
  <2>4. \A i \in 0 .. Count : Wrapped(out_ptr' + i, n) = Wrapped(out_ptr + i, n)
    BY <1>1, <1>2, <2>1 DEF Wrapped
  <2>5. Count' < n /\ in_ptr' = Wrapped(out_ptr' + Count', n)
    BY <1>1, <1>2, <2>1, <2>2, <2>4
  <2>6. \A i \in 0 .. Count' - 1 :
          data'[Wrapped(out_ptr' + i, n)] = Wrapped(due' + i, n + 1)
    BY <1>1, <2>1, <2>2, <2>4 DEF KeysWait
  <2> QED
    BY <2>3, <2>5, <2>6 DEF KeysWait
<1> QED
  BY <1>3, <1>4

\* What the handler and the other calls leave alone of the queue.
LEMMA QueueStays ==
  ASSUME KeyboardParts, UNCHANGED queueVars, deq_busy' \in BOOLEAN,
         fg_vconsoles' \in [ConsoleSlots -> Shells \cup {KernelConsole, NoConsole}],
         fg_current' \in ConsoleSlots,
         step' \in [Shells -> {"new", "slot", "run", "spin", "set", "look", "wrap"}],
         slot' \in [Shells -> ConsoleSlots]
  PROVE  KeyboardType' /\ KeysWait'
<1>1. UNCHANGED <<data, in_ptr, out_ptr, pressed, due>>
  BY DEF queueVars
<1>2. KeyboardType'
  BY <1>1 DEF KeyboardParts, KeyboardType
<1>3. Count' = Count
  BY <1>1 DEF Count
<1>4. KeysWait'
  BY <1>1, <1>3 DEF KeyboardParts, KeysWait
<1> QED
  BY <1>2, <1>4

\* Every step of the keyboard's handler and of the consoles keeps it.
LEMMA KeyboardStep == KeyboardInv /\ [KeyboardNext]_keyboardVars => KeyboardInv'
<1> SUFFICES ASSUME KeyboardInv, [KeyboardNext]_keyboardVars, kbHarm' = {} PROVE KeyboardParts'
  BY DEF KeyboardInv
<1> USE KeyboardAssumption DEF KeyboardAssumption
<1>1. CASE UNCHANGED keyboardVars
  <2>1. /\ KeyboardParts /\ UNCHANGED queueVars
        /\ UNCHANGED <<deq_busy, fg_vconsoles, fg_current, step, slot>>
    BY <1>1 DEF KeyboardInv, keyboardVars, consoleVars
  <2>2. KeyboardType' /\ KeysWait'
    BY <2>1, QueueStays DEF KeyboardParts, KeyboardType
  <2>3. OneReader' /\ ConsolesStand'
    BY <2>1 DEF KeyboardParts, OneReader, InDeq, ConsolesStand, queueVars
  <2> QED
    BY <2>2, <2>3 DEF KeyboardParts
<1>2. CASE KeyboardStops
  BY <1>1, <1>2 DEF KeyboardStops
<1>3. KeyboardNext => kbHarm = {} \/ KeyboardStops
  BY DEF KeyboardNext, kbd_irq, fg_prev, fg_next, FindsSlot, fg_register, fg_exit, keyboard_wait,
     FindsFree, SetsBusy, FindsEmpty, TakesKey, Wraps, Walks
<1> SUFFICES ASSUME KeyboardParts, KeyboardNext, kbHarm = {} PROVE KeyboardParts'
  BY <1>1, <1>2, <1>3 DEF KeyboardInv
<1>p. KeyboardType /\ OneReader /\ ConsolesStand
  BY DEF KeyboardParts
<1>u. Used \subseteq ConsoleSlots /\ 0 \in Used /\ fg_current \in Used
  BY <1>p DEF Used, KeyboardType, ConsolesStand, ConsoleSlots
<1>4. CASE kbd_irq
  <2>1. UNCHANGED <<out_ptr, deq_busy, fg_vconsoles, fg_current, step, slot>>
    BY <1>4 DEF kbd_irq, consoleVars
  <2> QED
    BY <1>p, <1>4, <2>1, KeyGoesIn DEF KeyboardParts, OneReader, InDeq, ConsolesStand
<1>5. CASE fg_prev \/ fg_next
  <2>1. /\ fg_current' \in Used /\ UNCHANGED queueVars
        /\ UNCHANGED <<out_ptr, deq_busy, fg_vconsoles, step, slot>>
    <3>1. CASE fg_prev
      BY <1>u, <3>1, Extremes DEF fg_prev, queueVars
    <3>2. CASE fg_next
      BY <1>u, <3>2, Extremes DEF fg_next, queueVars
    <3> QED
      BY <1>5, <3>1, <3>2
  <2>2. KeyboardType' /\ KeysWait'
    BY <1>p, <1>u, <2>1, QueueStays DEF KeyboardType
  <2>3. OneReader' /\ ConsolesStand'
    BY <1>p, <2>1 DEF OneReader, InDeq, ConsolesStand, Used
  <2> QED
    BY <2>2, <2>3 DEF KeyboardParts
<1>6. ASSUME NEW p \in Shells, FindsSlot(p)
      PROVE  KeyboardParts'
  <2>1. /\ step[p] = "new" /\ step' = [step EXCEPT ![p] = "slot"] /\ Used # ConsoleSlots
        /\ slot' = [slot EXCEPT ![p] = Lowest(ConsoleSlots \ Used)]
        /\ UNCHANGED queueVars /\ UNCHANGED <<out_ptr, deq_busy, fg_vconsoles, fg_current>>
    BY <1>6 DEF FindsSlot, Walks, Spoils, consoleVars, queueVars
  <2>2. Lowest(ConsoleSlots \ Used) \in ConsoleSlots
    <3>1. ConsoleSlots \ Used \subseteq ConsoleSlots /\ ConsoleSlots \ Used # {}
      BY <1>u, <2>1
    <3> QED
      BY <3>1, Extremes
  <2>3. /\ step'[p] = "slot"
        /\ \A q \in Shells \ {p} : step'[q] = step[q] /\ slot'[q] = slot[q]
    BY <1>p, <2>1 DEF KeyboardType
  <2>4. slot' \in [Shells -> ConsoleSlots]
    BY <1>p, <2>1, <2>2 DEF KeyboardType
  <2>5. KeyboardType' /\ KeysWait'
    BY <1>p, <2>1, <2>4, QueueStays DEF KeyboardType
  <2>6. OneReader'
    BY <1>p, <2>1, <2>3 DEF OneReader, InDeq
  <2>7. ConsolesStand'
    BY <1>p, <2>1, <2>3 DEF ConsolesStand
  <2> QED
    BY <2>5, <2>6, <2>7 DEF KeyboardParts
<1>7. ASSUME NEW p \in Shells, fg_register(p)
      PROVE  KeyboardParts'
  <2>1. /\ step[p] = "slot" /\ step' = [step EXCEPT ![p] = "run"] /\ slot[p] \notin Used
        /\ fg_vconsoles' = [fg_vconsoles EXCEPT ![slot[p]] = p] /\ fg_current' = slot[p]
        /\ UNCHANGED queueVars /\ UNCHANGED <<out_ptr, deq_busy, slot>>
    BY <1>7 DEF fg_register, Walks, Spoils, queueVars
  <2>2. slot[p] \in ConsoleSlots /\ slot[p] # 0 /\ fg_vconsoles[slot[p]] = NoConsole
    BY <1>p, <1>u, <2>1 DEF KeyboardType, Used
  <2>3. /\ step'[p] = "run" /\ \A q \in Shells \ {p} : step'[q] = step[q]
        /\ fg_vconsoles'[slot[p]] = p
        /\ \A s \in ConsoleSlots \ {slot[p]} : fg_vconsoles'[s] = fg_vconsoles[s]
    BY <1>p, <2>1, <2>2 DEF KeyboardType
  <2>4. KeyboardType' /\ KeysWait'
    BY <1>p, <2>1, <2>2, QueueStays DEF KeyboardType
  <2>5. OneReader'
    BY <1>p, <2>1, <2>3 DEF OneReader, InDeq
  <2>6. 0 \in ConsoleSlots /\ p # NoConsole
    BY DEF ConsoleSlots
  <2>7. ASSUME NEW q \in Shells, NEW s \in ConsoleSlots
        PROVE  fg_vconsoles'[s] = q <=> step'[q] \notin {"new", "slot"} /\ s = slot'[q]
    <3>1. CASE q = p
      BY <1>p, <2>1, <2>3, <3>1 DEF ConsolesStand
    <3>2. CASE q # p /\ s = slot[p]
      BY <1>p, <2>1, <2>2, <2>3, <3>2 DEF ConsolesStand
    <3>3. CASE q # p /\ s # slot[p]
      BY <1>p, <2>1, <2>3, <3>3 DEF ConsolesStand
    <3> QED
      BY <3>1, <3>2, <3>3
  <2>8. ConsolesStand'
    BY <1>p, <2>1, <2>2, <2>3, <2>6, <2>7 DEF ConsolesStand
  <2> QED
    BY <2>4, <2>5, <2>8 DEF KeyboardParts
<1>8. ASSUME NEW p \in Shells, fg_exit(p)
      PROVE  KeyboardParts'
  <2> DEFINE left == {s \in Used : fg_vconsoles[s] # p}
             below == {s \in left : s < fg_current}
  <2>1. /\ step[p] = "run" /\ step' = [step EXCEPT ![p] = "new"]
        /\ fg_vconsoles' = [s \in ConsoleSlots |-> IF s \in left THEN fg_vconsoles[s] ELSE NoConsole]
        /\ fg_current' = IF below = {} THEN fg_current ELSE Highest(below)
        /\ slot' = [slot EXCEPT ![p] = 0]
        /\ UNCHANGED queueVars /\ UNCHANGED <<out_ptr, deq_busy>>
    BY <1>8 DEF fg_exit, Walks, queueVars
  <2>2. 0 \in left /\ left \subseteq ConsoleSlots /\ below \subseteq ConsoleSlots
    BY <1>p, <1>u DEF ConsolesStand
  <2>3. fg_current' \in left
    <3>1. CASE below = {}
      <4>1. fg_current = 0
        BY <1>u, <2>2, <3>1 DEF ConsoleSlots
      <4> QED
        BY <2>1, <2>2, <3>1, <4>1
    <3>2. CASE below # {}
      BY <2>1, <2>2, <3>2, Extremes
    <3> QED
      BY <3>1, <3>2
  <2>4. /\ step'[p] = "new" /\ \A q \in Shells \ {p} : step'[q] = step[q] /\ slot'[q] = slot[q]
        /\ \A s \in ConsoleSlots :
             fg_vconsoles'[s] = IF s \in left THEN fg_vconsoles[s] ELSE NoConsole
        /\ \A s \in left : fg_vconsoles[s] # p /\ fg_vconsoles[s] # NoConsole
        /\ \A s \in ConsoleSlots \ left : fg_vconsoles[s] \in {p, NoConsole}
    BY <1>p, <2>1 DEF KeyboardType, Used
  <2>5. KeyboardType' /\ KeysWait'
    <3>1. /\ slot' \in [Shells -> ConsoleSlots]
          /\ fg_vconsoles' \in [ConsoleSlots -> Shells \cup {KernelConsole, NoConsole}]
          /\ step' \in [Shells -> {"new", "slot", "run", "spin", "set", "look", "wrap"}]
      BY <1>p, <1>u, <2>1 DEF KeyboardType, Used
    <3> HIDE DEF left, below
    <3> QED
      BY <1>p, <2>1, <2>2, <2>3, <3>1, QueueStays DEF KeyboardType
  <2> HIDE DEF left, below
  <2>6. OneReader'
    BY <1>p, <2>1, <2>4 DEF OneReader, InDeq
  <2>7. ASSUME NEW q \in Shells, NEW s \in ConsoleSlots
        PROVE  fg_vconsoles'[s] = q <=> step'[q] \notin {"new", "slot"} /\ s = slot'[q]
    <3>1. q # NoConsole
      OBVIOUS
    <3>2. CASE q = p
      BY <2>4, <3>1, <3>2
    <3>3. CASE q # p
      BY <1>p, <2>4, <3>1, <3>3 DEF ConsolesStand
    <3> QED
      BY <3>2, <3>3
  <2>8. ConsolesStand'
    <3>1. fg_vconsoles'[0] = KernelConsole /\ fg_vconsoles'[fg_current'] # NoConsole
      BY <1>p, <2>2, <2>3, <2>4 DEF ConsolesStand
    <3> QED
      BY <2>7, <3>1 DEF ConsolesStand
  <2> QED
    BY <2>5, <2>6, <2>8 DEF KeyboardParts
<1>9. ASSUME NEW p \in Shells,
             keyboard_wait(p) \/ FindsFree(p) \/ SetsBusy(p) \/ FindsEmpty(p)
      PROVE  KeyboardParts'
  <2>1. PICK s \in {"run", "spin", "set", "look"} : step' = [step EXCEPT ![p] = s]
    BY <1>9 DEF keyboard_wait, FindsFree, SetsBusy, FindsEmpty, Walks
  <2>2. /\ step[p] \in {"run", "spin", "set", "look"} /\ UNCHANGED queueVars
        /\ UNCHANGED <<out_ptr, fg_vconsoles, fg_current, slot>>
    BY <1>9 DEF keyboard_wait, FindsFree, SetsBusy, FindsEmpty, Walks, queueVars, consoleVars
  <2>3. step'[p] = s /\ \A q \in Shells \ {p} : step'[q] = step[q]
    BY <1>p, <2>1 DEF KeyboardType
  <2>4. /\ s # "look" /\ step[p] # "look" => deq_busy' = deq_busy
        /\ s = "look" => /\ deq_busy' = TRUE /\ step[p] # "look"
                         /\ \A q \in Shells \ {p} : ~InDeq(q)
        /\ step[p] = "look" => deq_busy' = FALSE /\ s # "look"
    BY <1>9, <2>3, <1>p DEF keyboard_wait, FindsFree, SetsBusy, FindsEmpty, Walks, Spoils, KeyboardType
  <2>5. KeyboardType' /\ KeysWait'
    <3>1. step' \in [Shells -> {"new", "slot", "run", "spin", "set", "look", "wrap"}]
      BY <1>p, <2>1 DEF KeyboardType
    <3>2. deq_busy' \in BOOLEAN
      BY <1>p, <2>4 DEF KeyboardType
    <3> QED
      BY <1>p, <2>2, <3>1, <3>2, QueueStays DEF KeyboardType
  <2>6. ASSUME NEW q \in Shells
        PROVE  step'[q] \in {"look", "wrap"} <=> (IF q = p THEN s = "look" ELSE InDeq(q))
    BY <2>3 DEF InDeq
  <2>7. OneReader'
    <3>1. deq_busy' <=> \E q \in Shells : step'[q] \in {"look", "wrap"}
      BY <1>p, <2>2, <2>4, <2>6 DEF OneReader, InDeq
    <3>2. \A q, r \in Shells :
            step'[q] \in {"look", "wrap"} /\ step'[r] \in {"look", "wrap"} => q = r
      BY <1>p, <2>4, <2>6 DEF OneReader
    <3>3. out_ptr' = BUF_SIZE => \E q \in Shells : step'[q] = "wrap"
      BY <1>p, <2>2, <2>3 DEF OneReader
    <3> QED
      BY <3>1, <3>2, <3>3 DEF OneReader, InDeq
  <2>8. ConsolesStand'
    BY <1>p, <2>2, <2>3 DEF ConsolesStand
  <2> QED
    BY <2>5, <2>7, <2>8 DEF KeyboardParts
<1>10. ASSUME NEW p \in Shells, TakesKey(p) \/ Wraps(p)
       PROVE  KeyboardParts'
  <2>1. KeyboardType' /\ KeysWait'
    BY <1>10, KeyComesOut
  <2>2. /\ InDeq(p) /\ \A q \in Shells : InDeq(q) => q = p
        /\ step[p] \notin {"new", "slot"} /\ deq_busy
    BY <1>p, <1>10 DEF TakesKey, Wraps, Walks, OneReader, InDeq
  <2>3. /\ UNCHANGED <<fg_vconsoles, fg_current, slot>>
        /\ \/ step' = [step EXCEPT ![p] = "wrap"] /\ UNCHANGED deq_busy
           \/ step' = [step EXCEPT ![p] = "run"] /\ deq_busy' = FALSE /\ out_ptr' # BUF_SIZE
    <3>1. CASE TakesKey(p)
      BY <3>1 DEF TakesKey, Walks, consoleVars
    <3>2. CASE Wraps(p)
      <4>1. out_ptr' = IF out_ptr >= BUF_SIZE THEN 0 ELSE out_ptr
        BY <3>2 DEF Wraps
      <4>2. out_ptr' # BUF_SIZE
        BY <1>p, <4>1 DEF KeyboardType
      <4> QED
        BY <3>2, <4>2 DEF Wraps, Walks, consoleVars
    <3> QED
      BY <1>10, <3>1, <3>2
  <2>4. /\ \A q \in Shells \ {p} : step'[q] = step[q]
        /\ \/ step'[p] = "wrap" /\ UNCHANGED deq_busy
           \/ step'[p] = "run" /\ deq_busy' = FALSE /\ out_ptr' # BUF_SIZE
    BY <1>p, <2>3 DEF KeyboardType
  <2>5. OneReader'
    <3>1. \A q \in Shells \ {p} : step'[q] \notin {"look", "wrap"}
      BY <2>2, <2>4 DEF InDeq
    <3> QED
      BY <2>2, <2>4, <3>1 DEF OneReader, InDeq
  <2>6. ConsolesStand'
    BY <1>p, <2>2, <2>3, <2>4 DEF ConsolesStand
  <2> QED
    BY <2>1, <2>5, <2>6 DEF KeyboardParts
<1> QED
  BY <1>2, <1>4, <1>5, <1>6, <1>7, <1>8, <1>9, <1>10, <1>1 DEF KeyboardNext

\* Until a key goes to the wrong console, two consoles are inside deq, or one has no slot,
\* or another's, with interrupts and consoles in any order, any number of consoles and a
\* queue of any size: every key put in waits in order until it is taken, and the console
\* that is shown exists.
THEOREM SoundKeyboard == KeyboardSpec => []KeyboardIsSound
<1>1. ASSUME KeyboardInit PROVE KeyboardInv
  <2> USE <1>1, KeyboardAssumption DEF KeyboardInit, KeyboardAssumption
  <2>1. KeyboardType
    <3>1. 0 \in KeyNumbers /\ 0 \in 0 .. BUF_SIZE - 1 /\ 0 \in 0 .. BUF_SIZE /\ 0 \in ConsoleSlots
      BY DEF KeyNumbers, ConsoleSlots
    <3>2. fg_vconsoles \in [ConsoleSlots -> Shells \cup {KernelConsole, NoConsole}]
      OBVIOUS
    <3> QED
      BY <3>1, <3>2 DEF KeyboardType
  <2>2. KeysWait
    BY DEF KeysWait, Count, Wrapped
  <2>3. OneReader
    BY DEF OneReader, InDeq
  <2>4. ConsolesStand
    BY DEF ConsolesStand, ConsoleSlots
  <2> QED
    BY <2>1, <2>2, <2>3, <2>4 DEF KeyboardInv, KeyboardParts
<1>2. ASSUME KeyboardInv, kbHarm = {} PROVE KeyboardIsSound
  <2> USE KeyboardAssumption DEF KeyboardAssumption
  <2>1. KeyboardType /\ KeysWait /\ OneReader /\ ConsolesStand
    BY <1>2 DEF KeyboardInv, KeyboardParts
  <2>2. Waiting = Count /\ Count \in 0 .. BUF_SIZE - 1
    BY <2>1, WaitingIsCount DEF KeyboardType, KeysWait
  <2>3. ASSUME NEW i \in 0 .. Count
        PROVE  /\ (out_ptr + i) % BUF_SIZE = Wrapped(out_ptr + i, BUF_SIZE)
               /\ (due + i) % (BUF_SIZE + 1) = Wrapped(due + i, BUF_SIZE + 1)
    <3>1. out_ptr + i \in 0 .. 2 * BUF_SIZE - 1 /\ due + i \in 0 .. 2 * (BUF_SIZE + 1) - 1
      BY <2>1, <2>2 DEF KeyboardType, KeyNumbers
    <3> QED
      BY <3>1, ModIsWrapped
  <2>4. /\ Waiting < BUF_SIZE /\ in_ptr = (out_ptr + Waiting) % BUF_SIZE
        /\ \A i \in 0 .. Waiting - 1 :
             data[(out_ptr + i) % BUF_SIZE] = (due + i) % (BUF_SIZE + 1)
    BY <2>1, <2>2, <2>3 DEF KeysWait
  <2>5. Cardinality({p \in Shells : InDeq(p)}) = IF deq_busy THEN 1 ELSE 0
    <3>1. CASE deq_busy
      <4>1. PICK p \in Shells : InDeq(p)
        BY <2>1, <3>1 DEF OneReader
      <4>2. {q \in Shells : InDeq(q)} = {p}
        BY <2>1, <4>1 DEF OneReader
      <4>3. Cardinality({p}) = 1
        BY FS_Singleton
      <4> QED
        BY <3>1, <4>2, <4>3
    <3>2. CASE ~deq_busy
      <4>1. {q \in Shells : InDeq(q)} = {}
        BY <2>1, <3>2 DEF OneReader
      <4> QED
        BY <3>2, <4>1, FS_EmptySet
    <3> QED
      BY <3>1, <3>2
  <2>6. fg_current \in Used
    BY <2>1 DEF Used, KeyboardType, ConsolesStand
  <2>7. ASSUME NEW p \in Shells
        PROVE  {s \in ConsoleSlots : fg_vconsoles[s] = p}
                 = IF step[p] \in {"new", "slot"} THEN {} ELSE {slot[p]}
    <3>1. p # NoConsole /\ slot[p] \in ConsoleSlots
      BY <2>1 DEF KeyboardType
    <3>2. \A s : s \in ConsoleSlots /\ fg_vconsoles[s] = p
                   <=> step[p] \notin {"new", "slot"} /\ s = slot[p]
      BY <2>1, <3>1 DEF Used, ConsolesStand
    <3> QED
      BY <3>2
  <2> QED
    BY <2>4, <2>5, <2>6, <2>7 DEF KeyboardIsSound
<1>3. KeyboardInv => KeyboardIsSound
  BY <1>2 DEF KeyboardIsSound
<1> QED
  BY <1>1, <1>3, KeyboardStep, PTL DEF KeyboardSpec

------------------------------------------------------------------------------
\* The calls that change a directory.

\* Where a walker is.
DirPlaces ==
  {"idle", "search", "load", "enter", "add", "disk", "made", "remove", "walk", "erase",
   "wipe", "rename", "chattb"}

\* What a node or an entry may be called.
Names == FileNames \cup {NoDirNode}

\* What a walker may hold.
NodeOrNone == DirNodes \cup {NoDirNode}

\* The values of the variables until dirHarm records something.
DirTypes ==
  /\ files \in Seq(DirNodes) \cup {Unread}
  /\ nodeName \in [DirNodes -> Names] /\ entry \in [DirNodes -> Names]
  /\ subdirs \subseteq DirNodes
  /\ entries \in [FileNames -> Int] /\ onCd \in BOOLEAN
  /\ inCrit \in Walkers \cup {Nobody}
  /\ doing \in [Walkers -> DirPlaces] /\ call \in [Walkers -> DirCalls \cup {NoCall}]
  /\ mine \in [Walkers -> NodeOrNone] /\ then \in [Walkers -> NodeOrNone]
  /\ rollback \in [Walkers -> Seq(DirNodes)]

\* Who has vfs_busy, by what it does.
Working(p) == doing[p] \in {"add", "disk", "made"} /\ call[p].op # "mkdir"

\* vfs_busy is held just by a walker in createfile.
BusyIsHeld == \A p \in Walkers : inCrit = p <=> Working(p)

\* Which call a place belongs to, and what the walker there may count on.
CallFits(p) ==
  /\ doing[p] \notin {"idle", "search", "load"} => files # Unread
  /\ doing[p] = "enter" => call[p].op \in {"create", "delete"}
  /\ doing[p] \in {"add", "disk", "made"} => call[p].op \in {"create", "delete", "mkdir"}
  /\ doing[p] = "remove" => call[p].op = "delete"
  /\ doing[p] = "walk" => call[p].op = "rmdir"
  /\ Erases(p) => call[p].op \in {"delete", "rmdir"}
  /\ doing[p] \in {"rename", "chattb"} => call[p].op = "rename"
  /\ onCd => doing[p] \notin {"made", "remove", "walk", "erase", "wipe", "chattb"}
  /\ onCd /\ doing[p] = "disk" => call[p].op # "mkdir"
  /\ doing[p] \in {"disk", "made", "remove", "erase", "wipe", "rename", "chattb"} =>
       mine[p] \in DirNodes

\* The node that a walker makes or takes away is its own.
NodeIsHeld(p) ==
  /\ doing[p] = "disk" => Ghost(mine[p]) /\ Allocated(mine[p])
  /\ Erases(p) => ~Listed(mine[p])
  /\ doing[p] = "wipe" => Ghost(mine[p])

\* Both make a node, both take one away, or the one makes a node and the other has erased
\* the entry of one.
AtOne(p, q) ==
  \/ doing[p] = "disk" /\ doing[q] \in {"disk", "wipe"}
  \/ Erases(p) /\ Erases(q)

\* No two walkers make or take away the same one.
Apart == \A p, q \in Walkers : p # q /\ AtOne(p, q) => mine[p] # mine[q]

\* Before the directory is read there are no nodes.
NothingIsKnown ==
  /\ \A d \in DirNodes : nodeName[d] = NoDirNode /\ entry[d] = NoDirNode
  /\ \A n \in FileNames : entries[n] \in {0, 1}

\* A node on the list has a name, which is its entry's unless a rename is on the way; on
\* a CD only the one being made has no entry.
NodeFits(d) ==
  /\ nodeName[d] \in FileNames
  /\ Ghost(d) \/ entry[d] = nodeName[d] \/ InRename(d)
  /\ Ghost(d) /\ onCd => BeingMade(d)

\* The list has no node and no name twice and accounts for every entry of the disk.
ListFits ==
  /\ IsInjective(files)
  /\ \A d \in ToSet(files) : NodeFits(d)
  /\ \A d, e \in ToSet(files) : nodeName[d] = nodeName[e] => d = e
  /\ \A n \in FileNames : entries[n] = Cardinality(NodesNamed(n))

\* All of it, while the directory stands, ...
Standing ==
  /\ DirTypes /\ BusyIsHeld /\ gone = FALSE
  /\ \A p \in Walkers : CallFits(p) /\ NodeIsHeld(p)
  /\ Apart
  /\ files = Unread => NothingIsKnown
  /\ files # Unread => ListFits

\* ... which it does until dirHarm records something or rmdir has taken it away.
DirInv == dirHarm = {} => Standing \/ (gone /\ BusyIsHeld)

\* What a call names.
LEMMA CallsAre ==
  \A c \in DirCalls \cup {NoCall} :
    /\ c.op \in {"none", "create", "delete", "mkdir", "rename", "rmdir"}
    /\ c.op \in {"create", "delete", "mkdir", "rename"} => c.name \in FileNames
    /\ c.op = "rename" => c.to \in FileNames /\ c.name # c.to
BY DEF DirCalls, NoCall

\* The mark of a directory that was not read is not a list of nodes.
LEMMA UnreadIsNoList == Unread \notin Seq(DirNodes) /\ Seq(DirNodes) \cap {Unread} = {}
<1>1. SUFFICES ASSUME Unread \in Seq(DirNodes) PROVE FALSE
  OBVIOUS
<1>2. Unread[1] \in DirNodes
  <2>1. Len(Unread) = 1
    BY DEF Unread
  <2> QED
    BY <1>1, <2>1
<1>3. Unread[1] = NoDirNode
  BY DEF Unread
<1> QED
  BY <1>2, <1>3, DirectoryAssumption DEF DirectoryAssumption

\* A node that is on the list is one, has a place and what was found is one.
LEMMA ListedNodes ==
  ASSUME DirTypes, files # Unread
  PROVE  /\ files \in Seq(DirNodes) /\ ToSet(files) \subseteq DirNodes
         /\ \A d : Listed(d) <=> \E i \in 1 .. Len(files) : files[i] = d
<1>1. files \in Seq(DirNodes)
  BY DEF DirTypes
<1>2. DOMAIN files = 1 .. Len(files) /\ \A i \in 1 .. Len(files) : files[i] \in DirNodes
  BY <1>1
<1> QED
  BY <1>1, <1>2 DEF ToSet, Listed

\* vfs_searchname finds the one node of a name, if there is one.
LEMMA FoundIs ==
  ASSUME Standing, files # Unread, NEW n \in FileNames
  PROVE  /\ Found(n) = NoDirNode <=> \A d \in ToSet(files) : nodeName[d] # n
         /\ Found(n) # NoDirNode => Found(n) \in ToSet(files) /\ nodeName[Found(n)] = n
<1>1. /\ files \in Seq(DirNodes) /\ ToSet(files) \subseteq DirNodes
      /\ DOMAIN files = 1 .. Len(files)
  BY ListedNodes DEF Standing
<1>2. \A i \in DOMAIN files : files[i] \in ToSet(files) /\ Listed(files[i])
  BY DEF ToSet, Listed
<1>3. \A i, j \in Named(n) : i = j
  BY <1>2 DEF Standing, ListFits, Named, IsInjective
<1>4. CASE Named(n) = {}
  <2>1. Found(n) = NoDirNode
    BY <1>4 DEF Found
  <2>2. \A d \in ToSet(files) : nodeName[d] # n
    BY <1>4, <1>2 DEF Named, ToSet
  <2> QED
    BY <2>1, <2>2
<1>5. CASE Named(n) # {}
  <2> DEFINE first == CHOOSE i \in Named(n) : \A j \in Named(n) : i <= j
  <2>1. PICK k \in Named(n) : TRUE
    BY <1>5
  <2>2. k \in DOMAIN files /\ nodeName[files[k]] = n
    BY <2>1 DEF Named
  <2>3. \A j \in Named(n) : k <= j
    BY <1>1, <1>3, <2>1, <2>2
  <2>4. first \in Named(n)
    BY <2>1, <2>3
  <2>5. Found(n) = files[first]
    BY <1>5 DEF Found
  <2> HIDE DEF first
  <2>6. Found(n) = files[k]
    BY <1>3, <2>1, <2>4, <2>5
  <2>7. files[k] \in ToSet(files) /\ files[k] # NoDirNode
    BY <1>1, <1>2, <2>2, DirectoryAssumption DEF DirectoryAssumption
  <2> QED
    BY <2>2, <2>6, <2>7
<1> QED
  BY <1>4, <1>5

\* A member of a list is at its place.
LEMMA AtIs ==
  ASSUME NEW s \in Seq(DirNodes), NEW d \in ToSet(s)
  PROVE  At(s, d) \in 1 .. Len(s) /\ s[At(s, d)] = d
<1>1. DOMAIN s = 1 .. Len(s)
  OBVIOUS
<1>2. PICK i \in DOMAIN s : s[i] = d
  BY DEF ToSet
<1> QED
  BY <1>1, <1>2 DEF At

\* A finite set as a sequence: each member once.
LEMMA SetToSeqIs ==
  ASSUME NEW S, IsFiniteSet(S)
  PROVE  /\ SetToSeq(S) \in [1 .. Cardinality(S) -> S] /\ IsInjective(SetToSeq(S))
         /\ \A x \in S : \E i \in 1 .. Cardinality(S) : SetToSeq(S)[i] = x
         /\ Cardinality(S) \in Nat
<1> DEFINE n == Cardinality(S)
<1>1. n \in Nat /\ ExistsBijection(1 .. n, S)
  BY FS_CardinalityType
<1>2. \E f \in [1 .. n -> S] : IsInjective(f)
  BY <1>1 DEF ExistsBijection, Bijection, Injection
<1>3. SetToSeq(S) \in [1 .. n -> S] /\ IsInjective(SetToSeq(S))
  BY <1>2 DEF SetToSeq
<1>4. SetToSeq(S) \in Injection(1 .. n, S)
  BY <1>3 DEF Injection
<1>5. IsFiniteSet(1 .. n) /\ Cardinality(1 .. n) = n
  BY <1>1, FS_Interval
<1>6. SetToSeq(S) \in Surjection(1 .. n, S)
  BY <1>4, <1>5, FS_Injection
<1> QED
  BY <1>1, <1>3, <1>6 DEF Surjection

\* A step of one walker that changes neither the directory nor a node that a walker holds.
LEMMA Moves ==
  ASSUME Standing, NEW p \in Walkers, NEW to \in DirPlaces \ {"disk", "erase", "wipe", "chattb"},
         doing[p] \notin {"disk", "erase", "wipe", "chattb"}, doing' = [doing EXCEPT ![p] = to],
         UNCHANGED <<nodeVars, entries, onCd, gone>>,
         \A q \in Walkers \ {p} : call'[q] = call[q] /\ mine'[q] = mine[q],
         inCrit' \in Walkers \cup {Nobody}, call' \in [Walkers -> DirCalls \cup {NoCall}],
         mine' \in [Walkers -> NodeOrNone], then' \in [Walkers -> NodeOrNone],
         rollback' \in [Walkers -> Seq(DirNodes)],
         CallFits(p)', BusyIsHeld'
  PROVE  Standing'
<1>1. /\ files' = files /\ nodeName' = nodeName /\ subdirs' = subdirs /\ entry' = entry
      /\ entries' = entries /\ onCd' = onCd /\ gone' = gone
  BY DEF nodeVars
<1>2. /\ doing' \in [Walkers -> DirPlaces] /\ doing'[p] = to
      /\ \A q \in Walkers \ {p} : doing'[q] = doing[q]
  BY DEF Standing, DirTypes
<1>3. DirTypes'
  BY <1>1, <1>2 DEF Standing, DirTypes
<1>4. \A q \in Walkers, pos \in {"disk", "erase", "wipe", "chattb"} :
        doing'[q] = pos <=> doing[q] = pos
  BY <1>2
<1>5. \A q \in Walkers, pos \in {"disk", "erase", "wipe", "chattb"} :
        doing[q] = pos => doing'[q] = pos /\ mine'[q] = mine[q]
  BY <1>2
<1>6. \A d : /\ Allocated(d)' <=> Allocated(d)
             /\ InRename(d)' <=> InRename(d)
             /\ BeingMade(d)' <=> BeingMade(d)
  <2>1. \A d : Allocated(d)' <=> Allocated(d)
    BY <1>1, <1>4, <1>5 DEF Allocated, Erases, Listed
  <2>2. \A d : InRename(d)' <=> InRename(d)
    BY <1>4, <1>5 DEF InRename
  <2>3. \A d : BeingMade(d)' <=> BeingMade(d)
    BY <1>4, <1>5 DEF BeingMade
  <2> QED
    BY <2>1, <2>2, <2>3
<1>7. ASSUME NEW q \in Walkers PROVE CallFits(q)' /\ NodeIsHeld(q)'
  <2>1. CallFits(q)'
    <3>1. CASE q = p
      BY <3>1
    <3>2. CASE q # p
      <4>1. CallFits(q)
        BY DEF Standing
      <4>2. doing'[q] = doing[q] /\ call'[q] = call[q] /\ mine'[q] = mine[q]
        BY <1>2, <3>2
      <4> QED
        BY <1>1, <4>1, <4>2 DEF CallFits, Erases
    <3> QED
      BY <3>1, <3>2
  <2>2. NodeIsHeld(q)'
    BY <1>1, <1>4, <1>5, <1>6 DEF Standing, NodeIsHeld, Erases, Ghost, Listed
  <2> QED
    BY <2>1, <2>2
<1>8. Apart'
  <2> SUFFICES ASSUME NEW q \in Walkers, NEW o \in Walkers, q # o, AtOne(q, o)'
               PROVE  mine'[q] # mine'[o]
    BY DEF Apart
  <2>1. AtOne(q, o) /\ mine'[q] = mine[q] /\ mine'[o] = mine[o]
    BY <1>4, <1>5 DEF AtOne, Erases
  <2> QED
    BY <2>1 DEF Standing, Apart
<1>9. (files = Unread => NothingIsKnown)'
  BY <1>1 DEF Standing, NothingIsKnown
<1>10. (files # Unread => ListFits)'
  <2> SUFFICES ASSUME files # Unread PROVE ListFits'
    BY <1>1
  <2>1. \A n : NodesNamed(n)' = NodesNamed(n)
    BY <1>1, <1>6 DEF NodesNamed
  <2>2. ASSUME NEW d, NodeFits(d) PROVE NodeFits(d)'
    <3>1. (Ghost(d)' <=> Ghost(d)) /\ (InRename(d)' <=> InRename(d)) /\ (BeingMade(d)' <=> BeingMade(d))
      BY <1>1, <1>6 DEF Ghost
    <3> QED
      BY <1>1, <2>2, <3>1 DEF NodeFits
  <2> QED
    BY <1>1, <2>1, <2>2 DEF Standing, ListFits
<1> QED
  BY <1>1, <1>3, <1>7, <1>8, <1>9, <1>10 DEF Standing

\* vfs_busy stays as it is when its holder goes on and when another walker does.
LEMMA BusyStays ==
  ASSUME BusyIsHeld, NEW p \in Walkers, inCrit' = inCrit, Working(p)' <=> Working(p),
         \A q \in Walkers \ {p} : doing'[q] = doing[q] /\ call'[q] = call[q]
  PROVE  BusyIsHeld'
<1>1. ASSUME NEW q \in Walkers PROVE inCrit' = q <=> Working(q)'
  <2>1. CASE q = p
    BY <2>1 DEF BusyIsHeld
  <2>2. CASE q # p
    BY <2>2 DEF BusyIsHeld, Working
  <2> QED
    BY <2>1, <2>2
<1> QED
  BY <1>1 DEF BusyIsHeld

\* What Proceeds and Finishes say.
LEMMA ProceedsIs ==
  ASSUME DirInv, NEW p \in Walkers, NEW from, NEW to, Proceeds(p, from, to)
  PROVE  /\ Standing /\ doing[p] = from /\ doing' = [doing EXCEPT ![p] = to]
         /\ doing'[p] = to /\ \A q \in Walkers \ {p} : doing'[q] = doing[q]
BY DEF DirInv, Standing, Proceeds, DirTypes

\* The same of the end of a call.
LEMMA FinishesIs ==
  ASSUME DirInv, NEW p \in Walkers, NEW from, Finishes(p, from)
  PROVE  /\ Standing /\ doing[p] = from /\ doing' = [doing EXCEPT ![p] = "idle"]
         /\ doing'[p] = "idle" /\ call'[p] = NoCall
         /\ \A q \in Walkers \ {p} :
              doing'[q] = doing[q] /\ call'[q] = call[q] /\ mine'[q] = mine[q]
         /\ call' \in [Walkers -> DirCalls \cup {NoCall}]
         /\ mine' \in [Walkers -> NodeOrNone] /\ then' \in [Walkers -> NodeOrNone]
         /\ rollback' \in [Walkers -> Seq(DirNodes)]
<1>1. Proceeds(p, from, "idle")
  BY DEF Finishes
<1>2. /\ Standing /\ doing[p] = from /\ doing' = [doing EXCEPT ![p] = "idle"]
      /\ doing'[p] = "idle" /\ \A q \in Walkers \ {p} : doing'[q] = doing[q]
  BY <1>1, ProceedsIs
<1>3. <<>> \in Seq(DirNodes)
  OBVIOUS
<1>4. /\ call \in [Walkers -> DirCalls \cup {NoCall}] /\ mine \in [Walkers -> NodeOrNone]
      /\ then \in [Walkers -> NodeOrNone] /\ rollback \in [Walkers -> Seq(DirNodes)]
  BY <1>2 DEF Standing, DirTypes
<1>5. /\ call' = [call EXCEPT ![p] = NoCall] /\ mine' = [mine EXCEPT ![p] = NoDirNode]
      /\ then' = [then EXCEPT ![p] = NoDirNode] /\ rollback' = [rollback EXCEPT ![p] = <<>>]
  BY DEF Finishes
<1>6. NoDirNode \in NodeOrNone
  BY DEF NodeOrNone
<1>7. rollback' \in [Walkers -> Seq(DirNodes)]
  BY <1>3, <1>4, <1>5
<1>8. mine' \in [Walkers -> NodeOrNone] /\ then' \in [Walkers -> NodeOrNone]
  BY <1>4, <1>5, <1>6
<1>9. call' \in [Walkers -> DirCalls \cup {NoCall}] /\ call'[p] = NoCall
  BY <1>4, <1>5
<1>10. \A q \in Walkers \ {p} : call'[q] = call[q] /\ mine'[q] = mine[q]
  BY <1>4, <1>5
<1> QED
  BY <1>2, <1>7, <1>8, <1>9, <1>10

\* A call begins.
LEMMA DirCallStep ==
  ASSUME DirInv, NEW p \in Walkers, DirCall(p)
  PROVE  Standing'
<1>0. PICK c \in DirCalls : call' = [call EXCEPT ![p] = c]
  BY DEF DirCall
<1>1. Proceeds(p, "idle", "search") /\ call' = [call EXCEPT ![p] = c]
      /\ UNCHANGED <<nodeVars, entries, onCd, inCrit, mine, then, rollback, gone>>
  BY <1>0 DEF DirCall
<1>2. /\ Standing /\ doing[p] = "idle" /\ doing' = [doing EXCEPT ![p] = "search"]
      /\ doing'[p] = "search" /\ \A q \in Walkers \ {p} : doing'[q] = doing[q]
  BY <1>1, ProceedsIs
<1>3. /\ call' \in [Walkers -> DirCalls \cup {NoCall}] /\ \A q \in Walkers \ {p} : call'[q] = call[q]
  BY <1>1, <1>2 DEF Standing, DirTypes
<1>4. /\ inCrit' \in Walkers \cup {Nobody} /\ mine' \in [Walkers -> NodeOrNone]
      /\ then' \in [Walkers -> NodeOrNone] /\ rollback' \in [Walkers -> Seq(DirNodes)]
  BY <1>1, <1>2 DEF Standing, DirTypes
<1>5. BusyIsHeld'
  <2>1. Working(p)' <=> Working(p)
    BY <1>2 DEF Working
  <2> QED
    BY <1>1, <1>2, <1>3, <2>1, BusyStays DEF Standing
<1>6. CallFits(p)'
  BY <1>2 DEF CallFits, Erases
<1>7. "search" \in DirPlaces \ {"disk", "erase", "wipe", "chattb"}
  BY DEF DirPlaces
<1>8. \A q \in Walkers \ {p} : call'[q] = call[q] /\ mine'[q] = mine[q]
  BY <1>1, <1>3
<1>9. UNCHANGED <<nodeVars, entries, onCd, gone>>
  BY <1>1
<1> QED
  BY <1>2, <1>3, <1>4, <1>5, <1>6, <1>7, <1>8, <1>9, Moves

\* A search comes to a directory that was not read.
LEMMA MeetsUnreadStep ==
  ASSUME DirInv, NEW p \in Walkers, MeetsUnread(p)
  PROVE  Standing'
<1>1. /\ Proceeds(p, "search", "load")
      /\ UNCHANGED <<nodeVars, entries, onCd, inCrit, call, mine, then, rollback, gone>>
  BY DEF MeetsUnread
<1>2. /\ Standing /\ doing[p] = "search" /\ doing' = [doing EXCEPT ![p] = "load"]
      /\ doing'[p] = "load" /\ \A q \in Walkers \ {p} : doing'[q] = doing[q]
  BY <1>1, ProceedsIs
<1>4. /\ inCrit' \in Walkers \cup {Nobody} /\ mine' \in [Walkers -> NodeOrNone]
      /\ call' \in [Walkers -> DirCalls \cup {NoCall}]
      /\ then' \in [Walkers -> NodeOrNone] /\ rollback' \in [Walkers -> Seq(DirNodes)]
  BY <1>1, <1>2 DEF Standing, DirTypes
<1>5. BusyIsHeld'
  <2>1. Working(p)' <=> Working(p)
    BY <1>2 DEF Working
  <2> QED
    BY <1>1, <1>2, <2>1, BusyStays DEF Standing
<1>6. CallFits(p)'
  BY <1>2 DEF CallFits, Erases
<1>7. "load" \in DirPlaces \ {"disk", "erase", "wipe", "chattb"}
  BY DEF DirPlaces
<1>8. \A q \in Walkers \ {p} : call'[q] = call[q] /\ mine'[q] = mine[q]
  BY <1>1
<1>9. UNCHANGED <<nodeVars, entries, onCd, gone>>
  BY <1>1
<1> QED
  BY <1>2, <1>4, <1>5, <1>6, <1>7, <1>8, <1>9, Moves

\* A search ends, and with it perhaps the call.
LEMMA SearchEndsStep ==
  ASSUME DirInv, NEW p \in Walkers, SearchEnds(p)
  PROVE  Standing'
<1>1. UNCHANGED <<nodeVars, entries, onCd, inCrit, gone>>
  BY DEF SearchEnds
<1>2. files # Unread \/ call[p].op = "rmdir"
  BY DEF SearchEnds
<1>3. ASSUME NEW to \in {"enter", "add", "remove", "rename"}, Proceeds(p, "search", to),
             UNCHANGED <<call, then, rollback>>,
             files # Unread,
             to = "enter" => call[p].op \in {"create", "delete"},
             to = "add" => call[p].op = "mkdir",
             to = "remove" => call[p].op = "delete" /\ ~onCd,
             to = "rename" => call[p].op = "rename",
             \/ mine' = mine /\ to \in {"enter", "add"}
             \/ \E d \in DirNodes : mine' = [mine EXCEPT ![p] = d]
      PROVE  Standing'
  <2>2. /\ Standing /\ doing[p] = "search" /\ doing' = [doing EXCEPT ![p] = to]
        /\ doing'[p] = to /\ \A q \in Walkers \ {p} : doing'[q] = doing[q]
    BY <1>3, ProceedsIs
  <2>3. mine \in [Walkers -> NodeOrNone]
    BY <2>2 DEF Standing, DirTypes
  <2>4. mine' \in [Walkers -> NodeOrNone] /\ \A q \in Walkers \ {p} : mine'[q] = mine[q]
    BY <1>3, <2>3 DEF NodeOrNone
  <2>5. to \in {"remove", "rename"} => mine'[p] \in DirNodes
    BY <1>3, <2>3
  <2>6. /\ inCrit' \in Walkers \cup {Nobody} /\ call' \in [Walkers -> DirCalls \cup {NoCall}]
        /\ then' \in [Walkers -> NodeOrNone] /\ rollback' \in [Walkers -> Seq(DirNodes)]
    BY <1>1, <1>3, <2>2 DEF Standing, DirTypes
  <2>7. BusyIsHeld'
    <3>1. Working(p)' <=> Working(p)
      BY <1>3, <2>2 DEF Working
    <3> QED
      BY <1>1, <1>3, <2>2, <3>1, BusyStays DEF Standing
  <2>8. CallFits(p)'
    BY <1>1, <1>3, <2>2, <2>5 DEF CallFits, Erases, nodeVars
  <2>9. to \in DirPlaces \ {"disk", "erase", "wipe", "chattb"}
    BY <1>3 DEF DirPlaces
  <2>10. \A q \in Walkers \ {p} : call'[q] = call[q] /\ mine'[q] = mine[q]
    BY <1>3, <2>4
  <2>11. UNCHANGED <<nodeVars, entries, onCd, gone>>
    BY <1>1
  <2> QED
    BY <2>2, <2>4, <2>6, <2>7, <2>8, <2>9, <2>10, <2>11, Moves
<1>4. ASSUME Finishes(p, "search") PROVE Standing'
  <2>2. /\ Standing /\ doing[p] = "search" /\ doing' = [doing EXCEPT ![p] = "idle"]
        /\ doing'[p] = "idle" /\ call'[p] = NoCall
        /\ \A q \in Walkers \ {p} :
             doing'[q] = doing[q] /\ call'[q] = call[q] /\ mine'[q] = mine[q]
        /\ call' \in [Walkers -> DirCalls \cup {NoCall}]
        /\ mine' \in [Walkers -> NodeOrNone] /\ then' \in [Walkers -> NodeOrNone]
        /\ rollback' \in [Walkers -> Seq(DirNodes)]
    BY <1>4, FinishesIs
  <2>3. BusyIsHeld'
    <3>1. Working(p)' <=> Working(p)
      BY <2>2 DEF Working
    <3> QED
      BY <1>1, <2>2, <3>1, BusyStays DEF Standing
  <2>4. inCrit' \in Walkers \cup {Nobody}
    BY <1>1, <2>2 DEF Standing, DirTypes
  <2>5. CallFits(p)'
    BY <2>2 DEF CallFits, Erases
  <2>6. "idle" \in DirPlaces \ {"disk", "erase", "wipe", "chattb"}
    BY DEF DirPlaces
  <2>7. UNCHANGED <<nodeVars, entries, onCd, gone>>
    BY <1>1
  <2> QED
    BY <2>2, <2>3, <2>4, <2>5, <2>6, <2>7, Moves
<1>5. CASE call[p].op \in {"create", "delete"} /\ Found(call[p].name) = NoDirNode /\ Proceeds(p, "search", "enter")
           /\ UNCHANGED <<call, mine, then, rollback>>
  BY <1>2, <1>3, <1>5
<1>6. CASE call[p].op = "mkdir" /\ Proceeds(p, "search", "add") /\ UNCHANGED <<call, mine, then, rollback>>
  BY <1>2, <1>3, <1>6
<1>7. ASSUME call[p].op \in {"delete", "rename"}, Found(call[p].name) # NoDirNode,
             NEW to \in {"remove", "rename"}, Proceeds(p, "search", to)
      PROVE  Found(call[p].name) \in DirNodes
  <2>1. Standing /\ files # Unread
    BY <1>2, <1>7, ProceedsIs
  <2>2. call[p].name \in FileNames
    BY <1>7, <2>1, CallsAre DEF Standing, DirTypes
  <2>3. Found(call[p].name) \in ToSet(files)
    BY <1>7, <2>1, <2>2, FoundIs
  <2> QED
    BY <2>1, <2>3, ListedNodes DEF Standing
<1>8. CASE call[p].op = "delete" /\ Found(call[p].name) # NoDirNode /\ ~onCd /\ Proceeds(p, "search", "remove")
           /\ mine' = [mine EXCEPT ![p] = Found(call[p].name)] /\ UNCHANGED <<call, then, rollback>>
  <2>1. Found(call[p].name) \in DirNodes
    BY <1>7, <1>8
  <2> QED
    BY <1>2, <1>3, <1>8, <2>1
<1>9. CASE call[p].op = "rename" /\ Found(call[p].name) # NoDirNode /\ Proceeds(p, "search", "rename")
           /\ mine' = [mine EXCEPT ![p] = Found(call[p].name)] /\ UNCHANGED <<call, then, rollback>>
  <2>1. Found(call[p].name) \in DirNodes
    BY <1>7, <1>9
  <2> QED
    BY <1>2, <1>3, <1>9, <2>1
<1> QED
  BY <1>4, <1>5, <1>6, <1>8, <1>9 DEF SearchEnds

\* rmdir begins with the first node.
LEMMA RmdirStep ==
  ASSUME DirInv, NEW p \in Walkers, vfs_rmdir(p), dirHarm' = {}
  PROVE  Standing'
<1>1. /\ Proceeds(p, "search", "walk") /\ call[p].op = "rmdir" /\ ~onCd
      /\ mine' = [mine EXCEPT ![p] = IF files = <<>> THEN NoDirNode ELSE Head(files)]
      /\ UNCHANGED <<nodeVars, entries, onCd, inCrit, call, then, rollback, gone>>
  BY DEF vfs_rmdir
<1>2. /\ Standing /\ doing[p] = "search" /\ doing' = [doing EXCEPT ![p] = "walk"]
      /\ doing'[p] = "walk" /\ \A q \in Walkers \ {p} : doing'[q] = doing[q]
  BY <1>1, ProceedsIs
<1>3. files # Unread
  BY DEF vfs_rmdir, Harms
<1>4. (IF files = <<>> THEN NoDirNode ELSE Head(files)) \in NodeOrNone
  <2>1. files \in Seq(DirNodes)
    BY <1>2, <1>3 DEF Standing, DirTypes
  <2> QED
    BY <2>1 DEF NodeOrNone
<1>5. mine' \in [Walkers -> NodeOrNone] /\ \A q \in Walkers \ {p} : mine'[q] = mine[q]
  BY <1>1, <1>2, <1>4 DEF Standing, DirTypes
<1>6. /\ inCrit' \in Walkers \cup {Nobody} /\ call' \in [Walkers -> DirCalls \cup {NoCall}]
      /\ then' \in [Walkers -> NodeOrNone] /\ rollback' \in [Walkers -> Seq(DirNodes)]
  BY <1>1, <1>2 DEF Standing, DirTypes
<1>7. BusyIsHeld'
  <2>1. Working(p)' <=> Working(p)
    BY <1>2 DEF Working
  <2> QED
    BY <1>1, <1>2, <2>1, BusyStays DEF Standing
<1>8. CallFits(p)'
  BY <1>1, <1>2, <1>3 DEF CallFits, Erases, nodeVars
<1>9. "walk" \in DirPlaces \ {"disk", "erase", "wipe", "chattb"}
  BY DEF DirPlaces
<1>10. \A q \in Walkers \ {p} : call'[q] = call[q] /\ mine'[q] = mine[q]
  BY <1>1, <1>5
<1>11. UNCHANGED <<nodeVars, entries, onCd, gone>>
  BY <1>1
<1> QED
  BY <1>2, <1>5, <1>6, <1>7, <1>8, <1>9, <1>10, <1>11, Moves

\* createfile takes vfs_busy, which was free.
LEMMA CreatefileStep ==
  ASSUME DirInv, NEW p \in Walkers, createfile(p), dirHarm' = {}
  PROVE  Standing'
<1>1. /\ Proceeds(p, "enter", "add") /\ inCrit = Nobody /\ inCrit' = p
      /\ UNCHANGED <<nodeVars, entries, onCd, call, mine, then, rollback, gone>>
  BY DEF createfile
<1>2. /\ Standing /\ doing[p] = "enter" /\ doing' = [doing EXCEPT ![p] = "add"]
      /\ doing'[p] = "add" /\ \A q \in Walkers \ {p} : doing'[q] = doing[q]
  BY <1>1, ProceedsIs
<1>3. call[p].op \in {"create", "delete"} /\ files # Unread
  BY <1>2 DEF Standing, CallFits, Erases
<1>4. /\ inCrit' \in Walkers \cup {Nobody} /\ mine' \in [Walkers -> NodeOrNone]
      /\ call' \in [Walkers -> DirCalls \cup {NoCall}]
      /\ then' \in [Walkers -> NodeOrNone] /\ rollback' \in [Walkers -> Seq(DirNodes)]
  BY <1>1, <1>2 DEF Standing, DirTypes
<1>5. BusyIsHeld'
  <2>1. Nobody \notin Walkers
    BY DirectoryAssumption DEF DirectoryAssumption
  <2>2. \A q \in Walkers : ~Working(q)
    BY <1>1, <1>2, <2>1 DEF Standing, BusyIsHeld
  <2>3. \A q \in Walkers \ {p} : ~Working(q)'
    BY <1>1, <1>2, <2>2 DEF Working
  <2>4. Working(p)'
    BY <1>1, <1>2, <1>3 DEF Working
  <2> QED
    BY <1>1, <2>3, <2>4 DEF BusyIsHeld
<1>6. CallFits(p)'
  BY <1>1, <1>2, <1>3 DEF CallFits, Erases, nodeVars
<1>7. "add" \in DirPlaces \ {"disk", "erase", "wipe", "chattb"}
  BY DEF DirPlaces
<1>8. \A q \in Walkers \ {p} : call'[q] = call[q] /\ mine'[q] = mine[q]
  BY <1>1
<1>9. UNCHANGED <<nodeVars, entries, onCd, gone>>
  BY <1>1
<1> QED
  BY <1>2, <1>4, <1>5, <1>6, <1>7, <1>8, <1>9, Moves

\* createfile returns with it.
LEMMA CreateEndsStep ==
  ASSUME DirInv, NEW p \in Walkers, CreateEnds(p)
  PROVE  Standing'
<1>1. /\ inCrit' = IF call[p].op = "mkdir" THEN inCrit ELSE Nobody
      /\ UNCHANGED <<nodeVars, entries, onCd, gone>>
  BY DEF CreateEnds
<1>0. doing[p] = "made" /\ Standing
  <2>1. Proceeds(p, "made", "remove") \/ Proceeds(p, "made", "idle")
    BY DEF CreateEnds, Finishes
  <2> QED
    BY <2>1, ProceedsIs
<1>2. /\ call[p].op \in {"create", "delete", "mkdir"} /\ files # Unread /\ ~onCd
      /\ mine[p] \in DirNodes
  BY <1>0 DEF Standing, CallFits, Erases
<1>3. inCrit' \in Walkers \cup {Nobody}
  BY <1>0, <1>1 DEF Standing, DirTypes
<1>4. ASSUME \A q \in Walkers \ {p} : doing'[q] = doing[q] /\ call'[q] = call[q],
             doing'[p] \in {"idle", "remove"}
      PROVE  BusyIsHeld'
  <2>1. ~Working(p)'
    BY <1>4 DEF Working
  <2>2. \A q \in Walkers \ {p} : Working(q)' <=> Working(q)
    BY <1>4 DEF Working
  <2>3. Nobody \notin Walkers
    BY DirectoryAssumption DEF DirectoryAssumption
  <2>4. CASE call[p].op = "mkdir"
    <3>1. inCrit' = inCrit /\ inCrit # p
      BY <1>0, <1>1, <2>4 DEF Standing, BusyIsHeld, Working
    <3> QED
      BY <1>0, <2>1, <2>2, <3>1 DEF Standing, BusyIsHeld
  <2>5. CASE call[p].op # "mkdir"
    <3>1. inCrit' = Nobody /\ inCrit = p
      BY <1>0, <1>1, <2>5 DEF Standing, BusyIsHeld, Working
    <3>2. \A q \in Walkers \ {p} : ~Working(q)
      BY <1>0, <3>1 DEF Standing, BusyIsHeld
    <3> QED
      BY <2>1, <2>2, <2>3, <3>1, <3>2 DEF BusyIsHeld
  <2> QED
    BY <2>4, <2>5
<1>5. CASE call[p].op = "delete" /\ Proceeds(p, "made", "remove") /\ UNCHANGED <<call, mine, then, rollback>>
  <2>2. /\ doing' = [doing EXCEPT ![p] = "remove"]
        /\ doing'[p] = "remove" /\ \A q \in Walkers \ {p} : doing'[q] = doing[q]
    BY <1>5, ProceedsIs
  <2>4. /\ mine' \in [Walkers -> NodeOrNone] /\ call' \in [Walkers -> DirCalls \cup {NoCall}]
        /\ then' \in [Walkers -> NodeOrNone] /\ rollback' \in [Walkers -> Seq(DirNodes)]
    BY <1>0, <1>5 DEF Standing, DirTypes
  <2>5. BusyIsHeld'
    BY <1>4, <1>5, <2>2
  <2>6. CallFits(p)'
    BY <1>1, <1>2, <1>5, <2>2 DEF CallFits, Erases, nodeVars
  <2>7. "remove" \in DirPlaces \ {"disk", "erase", "wipe", "chattb"}
    BY DEF DirPlaces
  <2>8. \A q \in Walkers \ {p} : call'[q] = call[q] /\ mine'[q] = mine[q]
    BY <1>5
  <2> QED
    BY <1>0, <1>1, <1>3, <2>2, <2>4, <2>5, <2>6, <2>7, <2>8, Moves
<1>6. CASE Finishes(p, "made")
  <2>2. /\ doing' = [doing EXCEPT ![p] = "idle"]
        /\ doing'[p] = "idle" /\ call'[p] = NoCall
        /\ \A q \in Walkers \ {p} :
             doing'[q] = doing[q] /\ call'[q] = call[q] /\ mine'[q] = mine[q]
        /\ call' \in [Walkers -> DirCalls \cup {NoCall}]
        /\ mine' \in [Walkers -> NodeOrNone] /\ then' \in [Walkers -> NodeOrNone]
        /\ rollback' \in [Walkers -> Seq(DirNodes)]
    BY <1>6, FinishesIs
  <2>5. BusyIsHeld'
    BY <1>4, <2>2
  <2>6. CallFits(p)'
    BY <2>2 DEF CallFits, Erases
  <2>7. "idle" \in DirPlaces \ {"disk", "erase", "wipe", "chattb"}
    BY DEF DirPlaces
  <2> QED
    BY <1>0, <1>1, <1>3, <2>2, <2>5, <2>6, <2>7, Moves
<1> QED
  BY <1>5, <1>6 DEF CreateEnds

\* A node at the head of a list, ...
LEMMA PushIs ==
  ASSUME NEW s \in Seq(DirNodes), NEW d \in DirNodes
  PROVE  /\ <<d>> \o s \in Seq(DirNodes) /\ ToSet(<<d>> \o s) = {d} \cup ToSet(s)
         /\ IsInjective(<<d>> \o s) <=> IsInjective(s) /\ d \notin ToSet(s)
<1> DEFINE t == <<d>> \o s
<1>1. /\ t \in Seq(DirNodes) /\ Len(t) = Len(s) + 1 /\ t[1] = d
      /\ \A i \in 1 .. Len(s) : t[i + 1] = s[i]
  OBVIOUS
<1>2. Len(s) \in Nat /\ DOMAIN s = 1 .. Len(s) /\ DOMAIN t = 1 .. Len(s) + 1
  BY <1>1
<1> HIDE DEF t
<1>3. \A j \in 1 .. Len(s) + 1 : j = 1 \/ (j - 1 \in 1 .. Len(s) /\ t[j] = s[j - 1])
  <2> SUFFICES ASSUME NEW j \in 1 .. Len(s) + 1, j # 1 PROVE j - 1 \in 1 .. Len(s) /\ t[j] = s[j - 1]
    OBVIOUS
  <2>1. j - 1 \in 1 .. Len(s) /\ (j - 1) + 1 = j
    BY <1>2
  <2> QED
    BY <1>1, <2>1
<1>4. \A i \in 1 .. Len(s) : i + 1 \in 1 .. Len(s) + 1 /\ i + 1 # 1
  BY <1>2
<1>5. 1 \in 1 .. Len(s) + 1
  BY <1>2
<1>6. ToSet(t) = {d} \cup ToSet(s)
  <2>1. ToSet(t) = {t[i] : i \in 1 .. Len(s) + 1} /\ ToSet(s) = {s[i] : i \in 1 .. Len(s)}
    BY <1>2 DEF ToSet
  <2>2. ASSUME NEW e \in ToSet(t) PROVE e = d \/ e \in ToSet(s)
    <3>1. PICK j \in 1 .. Len(s) + 1 : e = t[j]
      BY <2>1
    <3> QED
      BY <1>1, <1>3, <2>1, <3>1
  <2>3. d \in ToSet(t)
    BY <1>1, <1>5, <2>1
  <2>4. ASSUME NEW e \in ToSet(s) PROVE e \in ToSet(t)
    <3>1. PICK i \in 1 .. Len(s) : e = s[i]
      BY <2>1
    <3>2. i + 1 \in 1 .. Len(s) + 1 /\ e = t[i + 1]
      BY <1>1, <1>4, <3>1
    <3> QED
      BY <2>1, <3>2
  <2> QED
    BY <2>2, <2>3, <2>4
<1>7. ASSUME IsInjective(t) PROVE IsInjective(s) /\ d \notin ToSet(s)
  <2>1. ASSUME NEW i \in DOMAIN s, NEW j \in DOMAIN s, s[i] = s[j] PROVE i = j
    <3>1. t[i + 1] = t[j + 1]
      BY <1>1, <1>2, <2>1
    <3>2. i + 1 = j + 1
      BY <1>2, <1>4, <1>7, <3>1 DEF IsInjective
    <3> QED
      BY <1>2, <3>2
  <2>2. ASSUME NEW i \in DOMAIN s, s[i] = d PROVE FALSE
    <3>1. t[i + 1] = t[1]
      BY <1>1, <1>2, <2>2
    <3> QED
      BY <1>2, <1>4, <1>5, <1>7, <3>1 DEF IsInjective
  <2> QED
    BY <2>1, <2>2 DEF IsInjective, ToSet
<1>8. ASSUME IsInjective(s), d \notin ToSet(s) PROVE IsInjective(t)
  <2> SUFFICES ASSUME NEW i \in 1 .. Len(s) + 1, NEW j \in 1 .. Len(s) + 1, t[i] = t[j] PROVE i = j
    BY <1>2 DEF IsInjective
  <2>1. \A k \in 1 .. Len(s) : s[k] # d
    BY <1>2, <1>8 DEF ToSet
  <2>2. CASE i = 1 \/ j = 1
    BY <1>1, <1>3, <2>1, <2>2
  <2>3. CASE i # 1 /\ j # 1
    <3>1. i - 1 \in 1 .. Len(s) /\ j - 1 \in 1 .. Len(s) /\ s[i - 1] = s[j - 1]
      BY <1>3, <2>3
    <3>2. i - 1 = j - 1
      BY <1>2, <1>8, <3>1 DEF IsInjective
    <3> QED
      BY <1>2, <3>2
  <2> QED
    BY <2>2, <2>3
<1> QED
  BY <1>1, <1>6, <1>7, <1>8 DEF t

\* and a list without one of its nodes.
LEMMA DropIs ==
  ASSUME NEW s \in Seq(DirNodes), NEW d \in ToSet(s), IsInjective(s)
  PROVE  /\ RemoveAt(s, At(s, d)) \in Seq(DirNodes)
         /\ ToSet(RemoveAt(s, At(s, d))) = ToSet(s) \ {d} /\ IsInjective(RemoveAt(s, At(s, d)))
         /\ Last(s) # d => At(s, d) + 1 \in 1 .. Len(s)
<1> DEFINE i == At(s, d)
           t == RemoveAt(s, i)
           len == Len(s)
<1>1. i \in 1 .. len /\ s[i] = d /\ DOMAIN s = 1 .. len /\ len \in Nat
  BY AtIs
<1> HIDE DEF i
<1>2. /\ SubSeq(s, 1, i - 1) \in Seq(DirNodes) /\ Len(SubSeq(s, 1, i - 1)) = i - 1
      /\ \A k \in 1 .. i - 1 : SubSeq(s, 1, i - 1)[k] = s[k]
  BY <1>1
<1>3. /\ SubSeq(s, i + 1, len) \in Seq(DirNodes) /\ Len(SubSeq(s, i + 1, len)) = len - i
      /\ \A k \in 1 .. len - i : SubSeq(s, i + 1, len)[k] = s[k + i]
  <2>1. i + 1 \in Int /\ len \in Int /\ \A k \in i + 1 .. len : s[k] \in DirNodes
    BY <1>1
  <2>2. /\ SubSeq(s, i + 1, len) \in Seq(DirNodes)
        /\ Len(SubSeq(s, i + 1, len)) = IF i + 1 <= len THEN len - (i + 1) + 1 ELSE 0
        /\ \A k \in 1 .. len - (i + 1) + 1 : SubSeq(s, i + 1, len)[k] = s[i + 1 + k - 1]
    BY <2>1, SubSeqProperties
  <2>3. len - (i + 1) + 1 = len - i /\ (~(i + 1 <= len) => len - i = 0)
    <3>1. i \in Int /\ len \in Int /\ i <= len
      BY <1>1
    <3> HIDE DEF len
    <3>2. len - (i + 1) + 1 = len - i
      BY <3>1
    <3>3. ~(i + 1 <= len) => len - i = 0
      BY <3>1
    <3> QED
      BY <3>2, <3>3
  <2>4. \A k \in 1 .. len - i : i + 1 + k - 1 = k + i
    BY <1>1
  <2> QED
    BY <2>2, <2>3, <2>4
<1>4. /\ t \in Seq(DirNodes) /\ Len(t) = len - 1
      /\ \A k \in 1 .. len - 1 : t[k] = IF k < i THEN s[k] ELSE s[k + 1]
  <2> DEFINE a == SubSeq(s, 1, i - 1)
             b == SubSeq(s, i + 1, len)
  <2>1. t = a \o b
    BY DEF RemoveAt
  <2> HIDE DEF a, b, t
  <2>2. a \in Seq(DirNodes) /\ Len(a) = i - 1 /\ b \in Seq(DirNodes) /\ Len(b) = len - i
    BY <1>2, <1>3 DEF a, b
  <2>3. t \in Seq(DirNodes) /\ Len(t) = (i - 1) + (len - i)
        /\ \A k \in 1 .. (i - 1) + (len - i) : t[k] = IF k <= i - 1 THEN a[k] ELSE b[k - (i - 1)]
    BY <2>1, <2>2, ConcatProperties
  <2>4. (i - 1) + (len - i) = len - 1
    BY <1>1
  <2>5. ASSUME NEW k \in 1 .. len - 1 PROVE t[k] = IF k < i THEN s[k] ELSE s[k + 1]
    <3>1. CASE k < i
      <4>1. k \in 1 .. i - 1 /\ k <= i - 1
        BY <1>1, <3>1
      <4>2. t[k] = a[k] /\ a[k] = s[k]
        BY <1>2, <2>3, <2>4, <4>1 DEF a
      <4> QED
        BY <3>1, <4>2
    <3>2. CASE ~(k < i)
      <4>1. k - (i - 1) \in 1 .. len - i /\ ~(k <= i - 1) /\ k - (i - 1) + i = k + 1
        BY <1>1, <3>2
      <4>2. t[k] = b[k - (i - 1)] /\ b[k - (i - 1)] = s[k - (i - 1) + i]
        BY <1>3, <2>3, <2>4, <4>1 DEF b
      <4> QED
        BY <3>2, <4>1, <4>2
    <3> QED
      BY <3>1, <3>2
  <2> QED
    BY <2>3, <2>4, <2>5
<1> HIDE DEF t
<1> DEFINE from(k) == IF k < i THEN k ELSE k + 1
<1>5. \A k \in 1 .. len - 1 : from(k) \in 1 .. len /\ from(k) # i /\ t[k] = s[from(k)]
  BY <1>1, <1>4
<1>6. \A k, j \in 1 .. len - 1 : from(k) = from(j) => k = j
  BY <1>1
<1>7. \A k \in 1 .. len : k # i => \E j \in 1 .. len - 1 : from(j) = k
  <2> SUFFICES ASSUME NEW k \in 1 .. len, k # i PROVE \E j \in 1 .. len - 1 : from(j) = k
    OBVIOUS
  <2>1. CASE k < i
    <3>1. k \in 1 .. len - 1 /\ from(k) = k
      BY <1>1, <2>1
    <3> QED
      BY <3>1
  <2>2. CASE ~(k < i)
    <3>1. k - 1 \in 1 .. len - 1 /\ from(k - 1) = k
      BY <1>1, <2>2
    <3> QED
      BY <3>1
  <2> QED
    BY <2>1, <2>2
<1>8. DOMAIN t = 1 .. len - 1
  BY <1>1, <1>4
<1> HIDE DEF from
<1>9. ToSet(t) = ToSet(s) \ {d}
  <2>1. ASSUME NEW e \in ToSet(t) PROVE e \in ToSet(s) /\ e # d
    <3>1. PICK k \in 1 .. len - 1 : t[k] = e
      BY <1>8 DEF ToSet
    <3> QED
      BY <1>1, <1>5, <3>1 DEF ToSet, IsInjective
  <2>2. ASSUME NEW e \in ToSet(s), e # d PROVE e \in ToSet(t)
    <3>1. PICK k \in 1 .. len : s[k] = e
      BY <1>1 DEF ToSet
    <3>2. k # i
      BY <1>1, <2>2, <3>1
    <3>3. PICK j \in 1 .. len - 1 : from(j) = k
      BY <1>7, <3>2
    <3>4. t[j] = e
      BY <1>5, <3>1, <3>3
    <3> QED
      BY <1>8, <3>4 DEF ToSet
  <2> QED
    BY <2>1, <2>2
<1>10. IsInjective(t)
  BY <1>1, <1>5, <1>6, <1>8 DEF IsInjective
<1>11. Last(s) # d => i + 1 \in 1 .. len
  <2>1. Last(s) = s[len]
    BY DEF Last
  <2> QED
    BY <1>1, <2>1
<1> QED
  BY <1>4, <1>9, <1>10, <1>11 DEF i, t

\* The other walkers are where they were.
LEMMA OthersFit ==
  ASSUME Standing, NEW p \in Walkers, onCd' = onCd, files' # Unread, CallFits(p)',
         \A q \in Walkers \ {p} : doing'[q] = doing[q] /\ call'[q] = call[q] /\ mine'[q] = mine[q]
  PROVE  \A q \in Walkers : CallFits(q)'
<1> SUFFICES ASSUME NEW q \in Walkers, q # p PROVE CallFits(q)'
  OBVIOUS
<1>1. CallFits(q)
  BY DEF Standing
<1>2. doing'[q] = doing[q] /\ call'[q] = call[q] /\ mine'[q] = mine[q]
  OBVIOUS
<1> QED
  BY <1>1, <1>2 DEF CallFits, Erases

\* One if a node is for a name.
OneIf(n, m) == IF n = m THEN 1 ELSE 0

\* How many nodes stand for a name after a step that changes the entry of one.
LEMMA CountsFit ==
  ASSUME Standing, files # Unread, NEW d \in DirNodes,
         \A e \in DirNodes \ {d} : (Allocated(e)' <=> Allocated(e)) /\ entry'[e] = entry[e],
         NEW old, NEW new,
         \A n \in FileNames : d \in NodesNamed(n) <=> n = old,
         \A n \in FileNames : (d \in NodesNamed(n)') <=> n = new,
         \A n \in FileNames :
           entries'[n] = entries[n] - OneIf(n, old) + OneIf(n, new)
  PROVE  \A n \in FileNames : entries'[n] = Cardinality(NodesNamed(n)')
<1> SUFFICES ASSUME NEW n \in FileNames PROVE entries'[n] = Cardinality(NodesNamed(n)')
  OBVIOUS
<1> DEFINE before == NodesNamed(n)
           after == NodesNamed(n)'
<1>1. before \subseteq DirNodes /\ after \subseteq DirNodes
  BY DEF NodesNamed
<1>2. IsFiniteSet(DirNodes)
  BY DirectoryAssumption DEF DirectoryAssumption
<1>3. IsFiniteSet(before) /\ IsFiniteSet(after) /\ IsFiniteSet(before \ {d})
  BY <1>1, <1>2, FS_Subset
<1>4. entries[n] = Cardinality(before) /\ entries[n] \in Int
  BY DEF Standing, ListFits, DirTypes
<1>5. \A e \in DirNodes \ {d} : e \in after <=> e \in before
  BY DEF NodesNamed
<1>6. after \ {d} = before \ {d}
  BY <1>1, <1>5
<1> HIDE DEF before, after
<1>7. Cardinality(before \ {d}) = IF d \in before THEN Cardinality(before) - 1 ELSE Cardinality(before)
  BY <1>3, FS_RemoveElement
<1>8. Cardinality(after \ {d}) = IF d \in after THEN Cardinality(after) - 1 ELSE Cardinality(after)
  BY <1>3, FS_RemoveElement
<1>9. Cardinality(before) \in Int /\ Cardinality(after) \in Int
  BY <1>3, FS_CardinalityType
<1>10. (d \in before <=> n = old) /\ (d \in after <=> n = new)
  BY DEF before, after
<1>11. Cardinality(after) = Cardinality(before) - OneIf(n, old) + OneIf(n, new)
  <2> DEFINE a == Cardinality(after)
             b == Cardinality(before)
             c == Cardinality(before \ {d})
  <2>1. c = (IF n = old THEN b - 1 ELSE b) /\ c = (IF n = new THEN a - 1 ELSE a) /\ a \in Int /\ b \in Int
    BY <1>6, <1>7, <1>8, <1>9, <1>10
  <2> HIDE DEF a, b, c
  <2>2. a = b - OneIf(n, old) + OneIf(n, new)
    BY <2>1 DEF OneIf
  <2> QED
    BY <2>2 DEF a, b
<1> QED
  BY <1>4, <1>11 DEF after

\* A new node, which nobody holds and whose name nobody has, has no entry yet.
LEMMA CreatenodeStep ==
  ASSUME DirInv, NEW p \in Walkers, vfs_createnode(p), dirHarm' = {}
  PROVE  Standing'
<1>0. PICK d : d = CHOOSE e \in SpareNodes : TRUE
  OBVIOUS
<1> DEFINE n == call[p].name
<1>1. /\ Proceeds(p, "add", "disk") /\ SpareNodes # {}
      /\ files' = <<d>> \o files /\ nodeName' = [nodeName EXCEPT ![d] = n]
      /\ subdirs' = IF call[p].op = "mkdir" THEN subdirs \cup {d} ELSE subdirs \ {d}
      /\ entry' = [entry EXCEPT ![d] = NoDirNode]
      /\ mine' = [mine EXCEPT ![p] = d] /\ rollback' = [rollback EXCEPT ![p] = files]
      /\ Found(n) = NoDirNode /\ ~(call[p].op = "mkdir" /\ onCd)
      /\ UNCHANGED <<entries, onCd, inCrit, call, then, gone>>
  BY <1>0 DEF vfs_createnode
<1>2. /\ Standing /\ doing[p] = "add" /\ doing' = [doing EXCEPT ![p] = "disk"]
      /\ doing'[p] = "disk" /\ \A q \in Walkers \ {p} : doing'[q] = doing[q]
  BY <1>1, ProceedsIs
<1>3. call[p].op \in {"create", "delete", "mkdir"} /\ files # Unread
  BY <1>2 DEF Standing, CallFits, Erases
<1>4. d \in DirNodes /\ ~Allocated(d)
  BY <1>0, <1>1 DEF SpareNodes
<1>5. n \in FileNames
  BY <1>2, <1>3, CallsAre DEF Standing, DirTypes
<1>6. files \in Seq(DirNodes) /\ ToSet(files) \subseteq DirNodes /\ IsInjective(files)
  BY <1>2, <1>3, ListedNodes DEF Standing, ListFits
<1>7. /\ files' \in Seq(DirNodes) /\ \A e : Listed(e)' <=> e = d \/ Listed(e)
      /\ IsInjective(files')
  <2>1. d \notin ToSet(files)
    BY <1>4 DEF Allocated, Erases, Listed
  <2> QED
    BY <1>1, <1>4, <1>6, <2>1, PushIs DEF Listed
<1>8. files' # Unread
  BY <1>7, UnreadIsNoList
<1>9. mine'[p] = d /\ \A q \in Walkers \ {p} : mine'[q] = mine[q]
  BY <1>1, <1>2 DEF Standing, DirTypes
<1>10. DirTypes'
  <2>1. /\ nodeName' \in [DirNodes -> Names] /\ entry' \in [DirNodes -> Names]
        /\ subdirs' \subseteq DirNodes
    BY <1>1, <1>2, <1>4, <1>5 DEF Standing, DirTypes, Names
  <2>2. mine' \in [Walkers -> NodeOrNone] /\ doing' \in [Walkers -> DirPlaces]
    BY <1>1, <1>2, <1>4 DEF Standing, DirTypes, NodeOrNone, DirPlaces
  <2>3. rollback' \in [Walkers -> Seq(DirNodes)]
    BY <1>1, <1>2, <1>6 DEF Standing, DirTypes
  <2> QED
    BY <1>1, <1>2, <1>7, <2>1, <2>2, <2>3 DEF Standing, DirTypes
<1>11. /\ nodeName'[d] = n /\ entry'[d] = NoDirNode
       /\ \A e \in DirNodes \ {d} : nodeName'[e] = nodeName[e] /\ entry'[e] = entry[e]
  BY <1>1, <1>2, <1>4 DEF Standing, DirTypes
<1>12. \A e : Allocated(e)' <=> Allocated(e) \/ e = d
  BY <1>2, <1>7, <1>9 DEF Allocated, Erases
<1>13. BusyIsHeld'
  <2>1. Working(p)' <=> Working(p)
    BY <1>1, <1>2 DEF Working
  <2> QED
    BY <1>1, <1>2, <2>1, BusyStays DEF Standing
<1>14. CallFits(p)'
  BY <1>1, <1>2, <1>3, <1>4, <1>8, <1>9 DEF CallFits, Erases
<1>15. \A q \in Walkers : CallFits(q)'
  BY <1>1, <1>2, <1>8, <1>9, <1>14, OthersFit
<1>16. ASSUME NEW q \in Walkers PROVE NodeIsHeld(q)'
  <2>1. CASE q = p
    BY <1>2, <1>7, <1>9, <1>11, <1>12, <2>1 DEF NodeIsHeld, Erases, Ghost
  <2>2. CASE q # p
    <3>1. NodeIsHeld(q) /\ CallFits(q) /\ doing'[q] = doing[q] /\ mine'[q] = mine[q]
      BY <1>2, <1>9, <2>2 DEF Standing
    <3>2. CASE doing[q] = "disk"
      <4>1. mine[q] \in DirNodes /\ Ghost(mine[q]) /\ Allocated(mine[q])
        BY <3>1, <3>2 DEF NodeIsHeld, Erases, CallFits
      <4>2. mine[q] # d
        BY <1>4, <4>1
      <4> QED
        BY <1>11, <1>12, <3>1, <3>2, <4>1, <4>2 DEF NodeIsHeld, Erases, Ghost
    <3>3. CASE Erases(q)
      <4>1. Allocated(mine[q]) /\ ~Listed(mine[q])
        BY <3>1, <3>3 DEF NodeIsHeld, Erases, Allocated
      <4> QED
        <5>1. mine[q] \in DirNodes \ {d}
          BY <1>4, <3>1, <3>3, <4>1 DEF CallFits, Erases
        <5>2. doing[q] = "wipe" => entry'[mine[q]] = NoDirNode
          BY <1>11, <3>1, <5>1 DEF NodeIsHeld, Ghost
        <5> QED
          BY <1>7, <3>1, <3>3, <4>1, <5>1, <5>2 DEF NodeIsHeld, Erases, Ghost
    <3> QED
      BY <3>1, <3>2, <3>3 DEF NodeIsHeld, Erases
  <2> QED
    BY <2>1, <2>2
<1>17. Apart'
  <2> SUFFICES ASSUME NEW q \in Walkers, NEW o \in Walkers, q # o, AtOne(q, o)'
               PROVE  mine'[q] # mine'[o]
    BY DEF Apart
  <2>1. \A r \in Walkers \ {p} : doing'[r] = "disk" \/ Erases(r)' => mine'[r] # d
    BY <1>2, <1>4, <1>9 DEF Standing, NodeIsHeld, Allocated, Erases
  <2>2. CASE q = p \/ o = p
    BY <1>2, <1>9, <2>1, <2>2 DEF AtOne, Erases
  <2>3. CASE q # p /\ o # p
    BY <1>2, <1>9, <2>3 DEF Standing, Apart, AtOne, Erases
  <2> QED
    BY <2>2, <2>3
<1>18. ListFits'
  <2>1. ListFits
    BY <1>2, <1>3 DEF Standing
  <2>2. \A e \in ToSet(files)' : e = d \/ (e # d /\ e \in DirNodes /\ e \in ToSet(files))
    BY <1>6, <1>7 DEF Listed
  <2>3. NodeFits(d)'
    BY <1>2, <1>5, <1>9, <1>11 DEF NodeFits, Ghost, BeingMade
  <2>4. ASSUME NEW e \in DirNodes, e # d, e \in ToSet(files) PROVE NodeFits(e)'
    <3>1. NodeFits(e)
      BY <2>1, <2>4 DEF ListFits
    <3>2. InRename(e) => InRename(e)'
      BY <1>2, <1>9 DEF InRename
    <3>3. BeingMade(e) => BeingMade(e)'
      BY <1>2, <1>9 DEF BeingMade
    <3>4. nodeName'[e] = nodeName[e] /\ entry'[e] = entry[e]
      BY <1>11, <2>4
    <3> QED
      BY <1>1, <3>1, <3>2, <3>3, <3>4 DEF NodeFits, Ghost
  <2>5. \A e \in ToSet(files) : e # d => nodeName'[e] # n
    BY <1>1, <1>2, <1>3, <1>5, <1>6, <1>11, FoundIs
  <2>6. ASSUME NEW e \in ToSet(files)', NEW o \in ToSet(files)', nodeName'[e] = nodeName'[o] PROVE e = o
    <3>1. CASE e = d \/ o = d
      BY <1>11, <2>2, <2>5, <2>6, <3>1
    <3>2. CASE e # d /\ o # d
      BY <1>11, <2>1, <2>2, <2>6, <3>2 DEF ListFits
    <3> QED
      BY <3>1, <3>2
  <2>7. \A m \in FileNames : NodesNamed(m)' = NodesNamed(m)
    <3> SUFFICES ASSUME NEW m \in FileNames, NEW e \in DirNodes
                 PROVE  (Allocated(e)' /\ entry'[e] = m) <=> (Allocated(e) /\ entry[e] = m)
      BY DEF NodesNamed
    <3>1. NoDirNode # m
      BY DirectoryAssumption DEF DirectoryAssumption
    <3>2. CASE e = d
      BY <1>4, <1>11, <3>1, <3>2
    <3>3. CASE e # d
      BY <1>11, <1>12, <3>3
    <3> QED
      BY <3>2, <3>3
  <2>8. \A m \in FileNames : entries'[m] = Cardinality(NodesNamed(m)')
    BY <1>1, <2>1, <2>7 DEF ListFits
  <2>9. \A e \in ToSet(files)' : NodeFits(e)'
    BY <2>2, <2>3, <2>4
  <2> QED
    BY <1>7, <2>6, <2>8, <2>9 DEF ListFits
<1> QED
  BY <1>1, <1>2, <1>8, <1>10, <1>13, <1>15, <1>16, <1>17, <1>18 DEF Standing

\* It gets one of its name, or none.
LEMMA CreatesEntryStep ==
  ASSUME DirInv, NEW p \in Walkers, CreatesEntry(p), dirHarm' = {}
  PROVE  Standing'
<1>0. PICK d : d = mine[p]
  OBVIOUS
<1>1. /\ Proceeds(p, "disk", "made") /\ ~onCd /\ Listed(d)
      /\ \/ /\ entry' = [entry EXCEPT ![d] = nodeName[d]]
            /\ entries' = [entries EXCEPT ![nodeName[d]] = @ + 1]
         \/ UNCHANGED <<entry, entries>>
      /\ UNCHANGED <<files, nodeName, subdirs, onCd, inCrit, call, mine, then, rollback, gone>>
  BY <1>0 DEF CreatesEntry, Harms
<1>2. /\ Standing /\ doing[p] = "disk" /\ doing' = [doing EXCEPT ![p] = "made"]
      /\ doing'[p] = "made" /\ \A q \in Walkers \ {p} : doing'[q] = doing[q]
  BY <1>1, ProceedsIs
<1>3. /\ call[p].op \in {"create", "delete", "mkdir"} /\ files # Unread /\ d \in DirNodes
      /\ Ghost(d) /\ Allocated(d)
  BY <1>0, <1>2 DEF Standing, CallFits, Erases, NodeIsHeld
<1>4. ListFits /\ d \in ToSet(files) /\ nodeName[d] \in FileNames
  BY <1>1, <1>2, <1>3 DEF Standing, ListFits, NodeFits, Listed
<1>5. /\ entry'[d] \in {NoDirNode, nodeName[d]} /\ entry' \in [DirNodes -> Names]
      /\ \A e \in DirNodes \ {d} : entry'[e] = entry[e]
  BY <1>1, <1>2, <1>3, <1>4 DEF Standing, DirTypes, Names, Ghost
<1>6. DirTypes'
  <2>1. entries' \in [FileNames -> Int]
    BY <1>1, <1>2, <1>4 DEF Standing, DirTypes
  <2>2. doing' \in [Walkers -> DirPlaces]
    BY <1>2 DEF Standing, DirTypes, DirPlaces
  <2> QED
    BY <1>1, <1>2, <1>5, <2>1, <2>2 DEF Standing, DirTypes
<1>7. \A e : Allocated(e)' <=> Allocated(e)
  BY <1>1, <1>2 DEF Allocated, Erases, Listed
<1>8. BusyIsHeld'
  <2>1. Working(p)' <=> Working(p)
    BY <1>1, <1>2 DEF Working
  <2> QED
    BY <1>1, <1>2, <2>1, BusyStays DEF Standing
<1>9. CallFits(p)'
  BY <1>0, <1>1, <1>2, <1>3 DEF CallFits, Erases
<1>10. \A q \in Walkers : CallFits(q)'
  BY <1>1, <1>2, <1>3, <1>9, OthersFit
<1>11. ASSUME NEW q \in Walkers PROVE NodeIsHeld(q)'
  <2>1. CASE q = p
    BY <1>2, <2>1 DEF NodeIsHeld, Erases
  <2>2. CASE q # p
    <3>1. NodeIsHeld(q) /\ CallFits(q) /\ doing'[q] = doing[q] /\ mine'[q] = mine[q]
      BY <1>1, <1>2, <2>2 DEF Standing
    <3>2. CASE doing[q] = "disk"
      <4>1. mine[q] \in DirNodes /\ Ghost(mine[q]) /\ Allocated(mine[q])
        BY <3>1, <3>2 DEF NodeIsHeld, Erases, CallFits
      <4>2. mine[q] # d
        BY <1>0, <1>2, <2>2, <3>2 DEF Standing, Apart, AtOne, Erases
      <4> QED
        BY <1>5, <1>7, <3>1, <3>2, <4>1, <4>2 DEF NodeIsHeld, Erases, Ghost
    <3>3. CASE doing[q] # "disk"
      <4>1. Erases(q) => mine[q] \in DirNodes \ {d}
        BY <1>1, <3>1 DEF NodeIsHeld, CallFits, Erases
      <4>2. doing[q] = "wipe" => Ghost(mine[q]) /\ Ghost(mine[q])'
        BY <1>5, <3>1, <4>1 DEF NodeIsHeld, Erases, Ghost
      <4> QED
        BY <1>1, <3>1, <3>3, <4>2 DEF NodeIsHeld, Erases, Listed
    <3> QED
      BY <3>2, <3>3
  <2> QED
    BY <2>1, <2>2
<1>12. Apart'
  <2> SUFFICES ASSUME NEW q \in Walkers, NEW o \in Walkers, q # o, AtOne(q, o)'
               PROVE  mine'[q] # mine'[o]
    BY DEF Apart
  <2>1. q # p /\ o # p
    BY <1>2 DEF AtOne, Erases
  <2> QED
    BY <1>1, <1>2, <2>1 DEF Standing, Apart, AtOne, Erases
<1>13. ASSUME NEW e \in ToSet(files)' PROVE NodeFits(e)'
  <2>1. NodeFits(e) /\ e \in DirNodes
    BY <1>1, <1>2, <1>3, <1>4, ListedNodes DEF ListFits, Standing
  <2>2. InRename(e) => InRename(e)'
    BY <1>1, <1>2 DEF InRename
  <2>3. CASE e = d
    BY <1>1, <1>5, <2>1, <2>3 DEF NodeFits, Ghost
  <2>4. CASE e # d
    BY <1>1, <1>5, <2>1, <2>2, <2>4 DEF NodeFits, Ghost
  <2> QED
    BY <2>3, <2>4
<1>14. \A n \in FileNames : entries'[n] = Cardinality(NodesNamed(n)')
  <2>0. \A n \in FileNames : n # NoDirNode /\ entries[n] \in Int
    BY <1>2, DirectoryAssumption DEF DirectoryAssumption, Standing, DirTypes
  <2>1. CASE UNCHANGED <<entry, entries>>
    <3>1. \A n : NodesNamed(n)' = NodesNamed(n)
      BY <1>7, <2>1 DEF NodesNamed
    <3> QED
      BY <1>4, <2>1, <3>1 DEF ListFits
  <2>2. CASE /\ entry' = [entry EXCEPT ![d] = nodeName[d]]
             /\ entries' = [entries EXCEPT ![nodeName[d]] = @ + 1]
    <3>0. PICK new : new = nodeName[d]
      OBVIOUS
    <3>1. entry'[d] = new
      BY <1>2, <1>3, <2>2, <3>0 DEF Standing, DirTypes
    <3>2. \A n \in FileNames : d \in NodesNamed(n) <=> n = NoDirNode
      BY <1>3, <2>0 DEF NodesNamed, Ghost
    <3>3. \A n \in FileNames : (d \in NodesNamed(n)') <=> n = new
      BY <1>3, <1>7, <3>1 DEF NodesNamed
    <3>4. \A n \in FileNames : entries'[n] = IF n = new THEN entries[n] + 1 ELSE entries[n]
      BY <1>2, <1>4, <2>2, <3>0 DEF Standing, DirTypes
    <3>5. \A n \in FileNames :
            entries'[n] = entries[n] - OneIf(n, NoDirNode)
                          + OneIf(n, new)
      BY <2>0, <3>4 DEF OneIf
    <3>6. \A e \in DirNodes \ {d} : (Allocated(e)' <=> Allocated(e)) /\ entry'[e] = entry[e]
      BY <1>5, <1>7
    <3>7. NoDirNode \in Names /\ new \in Names
      BY <1>4, <3>0 DEF Names
    <3> QED
      BY <1>2, <1>3, <3>2, <3>3, <3>5, <3>6, <3>7, CountsFit
  <2> QED
    BY <1>1, <2>1, <2>2
<1>15. ListFits'
  <2>1. IsInjective(files') /\ \A e, o \in ToSet(files)' : nodeName'[e] = nodeName'[o] => e = o
    BY <1>1, <1>4 DEF ListFits
  <2> QED
    BY <1>13, <1>14, <2>1 DEF ListFits
<1> QED
  BY <1>1, <1>2, <1>3, <1>6, <1>8, <1>10, <1>11, <1>12, <1>15 DEF Standing

\* On a CD the list becomes what it was; only the holder of vfs_busy is at work there.
LEMMA CreateFailsStep ==
  ASSUME DirInv, NEW p \in Walkers, CreateFails(p), dirHarm' = {}
  PROVE  Standing'
<1>0. PICK d, back : d = mine[p] /\ back = rollback[p]
  OBVIOUS
<1>1. /\ Finishes(p, "disk") /\ onCd /\ files' = back /\ inCrit' = Nobody
      /\ nodeName' = [nodeName EXCEPT ![d] = NoDirNode]
      /\ entry' = [entry EXCEPT ![d] = NoDirNode] /\ subdirs' = subdirs \ {d}
      /\ files = <<d>> \o back
      /\ UNCHANGED <<entries, onCd, gone>>
  BY <1>0 DEF CreateFails, FreesNode, Harms
<1>2. /\ Standing /\ doing[p] = "disk" /\ doing' = [doing EXCEPT ![p] = "idle"]
      /\ doing'[p] = "idle" /\ call'[p] = NoCall
      /\ \A q \in Walkers \ {p} :
           doing'[q] = doing[q] /\ call'[q] = call[q] /\ mine'[q] = mine[q]
      /\ call' \in [Walkers -> DirCalls \cup {NoCall}]
      /\ mine' \in [Walkers -> NodeOrNone] /\ then' \in [Walkers -> NodeOrNone]
      /\ rollback' \in [Walkers -> Seq(DirNodes)]
  BY <1>1, FinishesIs
<1>3. /\ files # Unread /\ d \in DirNodes /\ Ghost(d) /\ Working(p)
  BY <1>0, <1>1, <1>2 DEF Standing, CallFits, Erases, NodeIsHeld, Working
<1>4. back \in Seq(DirNodes)
  BY <1>0, <1>2 DEF Standing, DirTypes
<1>5. ListFits
  BY <1>2, <1>3 DEF Standing
<1>6. IsInjective(back) /\ d \notin ToSet(back) /\ \A e : Listed(e) <=> e = d \/ Listed(e)'
  BY <1>1, <1>3, <1>4, <1>5, PushIs DEF ListFits, Listed
<1>7. files' # Unread
  BY <1>1, <1>4, UnreadIsNoList
<1>8. \A e \in DirNodes : entry'[e] = entry[e] /\ (e # d => nodeName'[e] = nodeName[e])
  BY <1>1, <1>2, <1>3 DEF Standing, DirTypes, Ghost
<1>9. inCrit = p /\ \A q \in Walkers \ {p} : ~Working(q)
  BY <1>2, <1>3 DEF Standing, BusyIsHeld
<1>10. \A q \in Walkers \ {p} : doing[q] \notin {"disk", "erase", "wipe", "chattb"}
  BY <1>1, <1>2, <1>9 DEF Standing, CallFits, Erases, Working
<1>11. \A q \in Walkers : doing'[q] \notin {"disk", "erase", "wipe", "chattb"}
  BY <1>2, <1>10
<1>12. DirTypes'
  <2>1. /\ nodeName' \in [DirNodes -> Names] /\ entry' \in [DirNodes -> Names]
        /\ subdirs' \subseteq DirNodes
    BY <1>1, <1>2, <1>3 DEF Standing, DirTypes, Names
  <2>2. doing' \in [Walkers -> DirPlaces]
    BY <1>2 DEF Standing, DirTypes, DirPlaces
  <2> QED
    BY <1>1, <1>2, <1>4, <2>1, <2>2 DEF Standing, DirTypes
<1>13. BusyIsHeld'
  <2>1. \A q \in Walkers : ~Working(q)'
    BY <1>2, <1>9 DEF Working
  <2>2. Nobody \notin Walkers
    BY DirectoryAssumption DEF DirectoryAssumption
  <2> QED
    BY <1>1, <2>1, <2>2 DEF BusyIsHeld
<1>14. CallFits(p)'
  BY <1>2 DEF CallFits, Erases
<1>15. \A q \in Walkers : CallFits(q)'
  BY <1>1, <1>2, <1>7, <1>14, OthersFit
<1>16. \A q \in Walkers : NodeIsHeld(q)'
  BY <1>11 DEF NodeIsHeld, Erases
<1>17. Apart'
  BY <1>11 DEF Apart, AtOne, Erases
<1>18. ASSUME NEW e \in ToSet(files)' PROVE e \in ToSet(files) /\ e \in DirNodes /\ e # d /\ NodeFits(e)'
  <2>1. e # d /\ e \in ToSet(files)
    BY <1>1, <1>6, <1>18 DEF Listed
  <2>2. NodeFits(e) /\ e \in DirNodes
    BY <1>2, <1>3, <1>5, <2>1, ListedNodes DEF ListFits, Standing
  <2>3. ~InRename(e) /\ ~BeingMade(e)
    BY <1>0, <1>2, <1>10, <2>1 DEF InRename, BeingMade
  <2> QED
    BY <1>1, <1>8, <2>1, <2>2, <2>3 DEF NodeFits, Ghost
<1>19. \A n \in FileNames : NodesNamed(n)' = NodesNamed(n)
  <2>1. \A e : Allocated(e)' <=> Allocated(e) /\ e # d
    <3>1. \A e : Allocated(e)' <=> Listed(e)'
      BY <1>11 DEF Allocated, Erases
    <3>2. \A e : Allocated(e) <=> Listed(e)
      BY <1>2, <1>10 DEF Allocated, Erases
    <3>3. ~Listed(d)'
      BY <1>1, <1>6 DEF Listed
    <3> QED
      BY <1>6, <3>1, <3>2, <3>3
  <2>2. \A n \in FileNames : entry[d] # n
    BY <1>3, DirectoryAssumption DEF DirectoryAssumption, Ghost
  <2> QED
    BY <1>8, <2>1, <2>2 DEF NodesNamed
<1>20. ListFits'
  <2>1. \A e, o \in ToSet(files)' : nodeName'[e] = nodeName'[o] => e = o
    BY <1>5, <1>8, <1>18 DEF ListFits
  <2>2. \A n \in FileNames : entries'[n] = Cardinality(NodesNamed(n)')
    BY <1>1, <1>5, <1>19 DEF ListFits
  <2> QED
    BY <1>1, <1>6, <1>18, <2>1, <2>2 DEF ListFits
<1> QED
  BY <1>1, <1>2, <1>7, <1>12, <1>13, <1>15, <1>16, <1>17, <1>20 DEF Standing

\* A node leaves the list, but keeps its entry.
LEMMA RemovenodeStep ==
  ASSUME DirInv, NEW p \in Walkers, vfs_removenode(p), dirHarm' = {}
  PROVE  Standing'
<1>0. PICK d, next : d = mine[p] /\ next = then'[p]
  OBVIOUS
<1>1. /\ \E from \in {"remove", "walk"} : Proceeds(p, from, "erase")
      /\ Listed(d) /\ files' = RemoveAt(files, At(files, d))
      /\ then' = [then EXCEPT ![p] = IF Last(files) # d THEN files[At(files, d) + 1]
                                     ELSE NoDirNode]
      /\ UNCHANGED <<nodeName, subdirs, entry, entries, onCd, inCrit, call, mine, rollback, gone>>
  BY <1>0 DEF vfs_removenode
<1>2. /\ Standing /\ doing[p] \in {"remove", "walk"} /\ doing' = [doing EXCEPT ![p] = "erase"]
      /\ doing'[p] = "erase" /\ \A q \in Walkers \ {p} : doing'[q] = doing[q]
  BY <1>1, ProceedsIs
<1>3. call[p].op \in {"delete", "rmdir"} /\ files # Unread /\ ~onCd
  BY <1>2 DEF Standing, CallFits, Erases
<1>4. files \in Seq(DirNodes) /\ d \in ToSet(files) /\ d \in DirNodes /\ ListFits
  BY <1>1, <1>2, <1>3, ListedNodes DEF Standing, Listed
<1>5. /\ files' \in Seq(DirNodes) /\ IsInjective(files')
      /\ \A e : Listed(e)' <=> Listed(e) /\ e # d
      /\ Last(files) # d => At(files, d) + 1 \in 1 .. Len(files)
  BY <1>1, <1>4, DropIs DEF ListFits, Listed
<1>6. files' # Unread
  BY <1>5, UnreadIsNoList
<1>7. DirTypes'
  <2>1. doing' \in [Walkers -> DirPlaces]
    BY <1>2 DEF Standing, DirTypes, DirPlaces
  <2>2. (IF Last(files) # d THEN files[At(files, d) + 1] ELSE NoDirNode) \in NodeOrNone
    <3>1. CASE Last(files) # d
      <4>1. files[At(files, d) + 1] \in DirNodes
        BY <1>4, <1>5, <3>1
      <4> QED
        BY <3>1, <4>1 DEF NodeOrNone
    <3>2. CASE Last(files) = d
      BY <3>2 DEF NodeOrNone
    <3> QED
      BY <3>1, <3>2
  <2>3. then' \in [Walkers -> NodeOrNone]
    BY <1>1, <1>2, <2>2 DEF Standing, DirTypes
  <2> QED
    BY <1>1, <1>2, <1>5, <2>1, <2>3 DEF Standing, DirTypes
<1>8. \A e : Allocated(e)' <=> Allocated(e)
  BY <1>0, <1>1, <1>2, <1>5 DEF Allocated, Erases
<1>9. BusyIsHeld'
  <2>1. Working(p)' <=> Working(p)
    BY <1>1, <1>2 DEF Working
  <2> QED
    BY <1>1, <1>2, <2>1, BusyStays DEF Standing
<1>10. CallFits(p)'
  BY <1>0, <1>1, <1>2, <1>3, <1>4, <1>6 DEF CallFits, Erases
<1>11. \A q \in Walkers : CallFits(q)'
  BY <1>1, <1>2, <1>6, <1>10, OthersFit
<1>12. ASSUME NEW q \in Walkers PROVE NodeIsHeld(q)'
  <2>1. CASE q = p
    BY <1>0, <1>1, <1>2, <1>5, <2>1 DEF NodeIsHeld, Erases
  <2>2. CASE q # p
    <3>1. NodeIsHeld(q) /\ doing'[q] = doing[q] /\ mine'[q] = mine[q]
      BY <1>1, <1>2, <2>2 DEF Standing
    <3> QED
      BY <1>1, <1>5, <1>8, <3>1 DEF NodeIsHeld, Erases, Ghost
  <2> QED
    BY <2>1, <2>2
<1>13. Apart'
  <2> SUFFICES ASSUME NEW q \in Walkers, NEW o \in Walkers, q # o, AtOne(q, o)'
               PROVE  mine'[q] # mine'[o]
    BY DEF Apart
  <2>1. \A r \in Walkers \ {p} : Erases(r)' => mine[r] # d
    BY <1>1, <1>2 DEF Standing, NodeIsHeld, Erases
  <2>2. CASE q = p \/ o = p
    BY <1>0, <1>1, <1>2, <2>1, <2>2 DEF AtOne, Erases
  <2>3. CASE q # p /\ o # p
    BY <1>1, <1>2, <2>3 DEF Standing, Apart, AtOne, Erases
  <2> QED
    BY <2>2, <2>3
<1>14. ASSUME NEW e \in ToSet(files)' PROVE e \in ToSet(files) /\ NodeFits(e)'
  <2>1. e \in ToSet(files) /\ e # d
    BY <1>5, <1>14 DEF Listed
  <2>2. NodeFits(e)
    BY <1>4, <2>1 DEF ListFits
  <2>3. InRename(e) => InRename(e)'
    BY <1>1, <1>2 DEF InRename
  <2> QED
    BY <1>1, <1>3, <2>1, <2>2, <2>3 DEF NodeFits, Ghost
<1>15. ListFits'
  <2>1. \A e, o \in ToSet(files)' : nodeName'[e] = nodeName'[o] => e = o
    BY <1>1, <1>4, <1>14 DEF ListFits
  <2>2. \A n : NodesNamed(n)' = NodesNamed(n)
    BY <1>1, <1>8 DEF NodesNamed
  <2> QED
    BY <1>1, <1>4, <1>5, <1>14, <2>1, <2>2 DEF ListFits
<1> QED
  BY <1>1, <1>2, <1>6, <1>7, <1>9, <1>11, <1>12, <1>13, <1>15 DEF Standing

\* Its entry loses its name ...
LEMMA FreesSlotStep ==
  ASSUME DirInv, NEW p \in Walkers, FreesSlot(p), dirHarm' = {}
  PROVE  Standing'
<1>0. PICK d, old : d = mine[p] /\ old = entry[d]
  OBVIOUS
<1>1. /\ Proceeds(p, "erase", "wipe") /\ old # NoDirNode
      /\ entries' = [entries EXCEPT ![old] = @ - 1]
      /\ entry' = [entry EXCEPT ![d] = NoDirNode]
      /\ UNCHANGED <<files, nodeName, subdirs, onCd, inCrit, call, mine, then, rollback, gone>>
  BY <1>0 DEF FreesSlot, Harms, Ghost
<1>2. /\ Standing /\ doing[p] = "erase" /\ doing' = [doing EXCEPT ![p] = "wipe"]
      /\ doing'[p] = "wipe" /\ \A q \in Walkers \ {p} : doing'[q] = doing[q]
  BY <1>1, ProceedsIs
<1>3. /\ call[p].op \in {"delete", "rmdir"} /\ files # Unread /\ ~onCd
      /\ d \in DirNodes /\ ~Listed(d)
  BY <1>0, <1>2 DEF Standing, CallFits, NodeIsHeld, Erases
<1>4. ListFits /\ old \in FileNames
  BY <1>0, <1>1, <1>2, <1>3 DEF Standing, DirTypes, Names
<1>5. /\ entry'[d] = NoDirNode /\ entry' \in [DirNodes -> Names]
      /\ \A e \in DirNodes \ {d} : entry'[e] = entry[e]
  BY <1>1, <1>2, <1>3 DEF Standing, DirTypes, Names
<1>6. DirTypes'
  <2>1. entries' \in [FileNames -> Int]
    BY <1>1, <1>2, <1>4 DEF Standing, DirTypes
  <2>2. doing' \in [Walkers -> DirPlaces]
    BY <1>2 DEF Standing, DirTypes, DirPlaces
  <2> QED
    BY <1>1, <1>2, <1>5, <2>1, <2>2 DEF Standing, DirTypes
<1>7. \A q \in Walkers : Erases(q)' <=> Erases(q)
  BY <1>2 DEF Erases
<1>8. \A e : Allocated(e)' <=> Allocated(e)
  BY <1>1, <1>7 DEF Allocated, Listed
<1>9. BusyIsHeld'
  <2>1. Working(p)' <=> Working(p)
    BY <1>2 DEF Working
  <2> QED
    BY <1>1, <1>2, <2>1, BusyStays DEF Standing
<1>10. CallFits(p)'
  BY <1>0, <1>1, <1>2, <1>3 DEF CallFits, Erases
<1>11. \A q \in Walkers : CallFits(q)'
  BY <1>1, <1>2, <1>3, <1>10, OthersFit
<1>12. ASSUME NEW q \in Walkers PROVE NodeIsHeld(q)'
  <2>1. CASE q = p
    BY <1>0, <1>1, <1>2, <1>3, <1>5, <2>1 DEF NodeIsHeld, Ghost, Listed
  <2>2. CASE q # p
    <3>1. NodeIsHeld(q) /\ CallFits(q) /\ doing'[q] = doing[q] /\ mine'[q] = mine[q]
      BY <1>1, <1>2, <2>2 DEF Standing
    <3>2. CASE doing[q] \in {"disk", "wipe"}
      <4>1. mine[q] \in DirNodes /\ Ghost(mine[q])
        BY <3>1, <3>2 DEF NodeIsHeld, CallFits
      <4>2. Ghost(mine[q])'
        BY <1>5, <3>1, <4>1 DEF Ghost
      <4> QED
        BY <1>1, <1>7, <1>8, <3>1, <3>2, <4>2 DEF NodeIsHeld, Listed
    <3>3. CASE doing[q] \notin {"disk", "wipe"}
      BY <1>1, <1>7, <3>1, <3>3 DEF NodeIsHeld, Listed
    <3> QED
      BY <3>2, <3>3
  <2> QED
    BY <2>1, <2>2
<1>13. Apart'
  <2> SUFFICES ASSUME NEW q \in Walkers, NEW o \in Walkers, q # o, AtOne(q, o)'
               PROVE  mine'[q] # mine'[o]
    BY DEF Apart
  <2>1. CASE AtOne(q, o)
    BY <1>1, <1>2, <2>1 DEF Standing, Apart
  <2>2. CASE ~AtOne(q, o)
    <3>1. doing[q] = "disk" /\ q # p /\ o = p
      BY <1>2, <1>7, <2>2 DEF AtOne
    <3>2. Ghost(mine[q])
      BY <1>2, <3>1 DEF Standing, NodeIsHeld
    <3> QED
      BY <1>0, <1>1, <3>1, <3>2 DEF Ghost
  <2> QED
    BY <2>1, <2>2
<1>14. ASSUME NEW e \in ToSet(files)' PROVE e \in DirNodes \ {d} /\ e \in ToSet(files) /\ NodeFits(e)'
  <2>1. e \in ToSet(files) /\ e \in DirNodes \ {d}
    BY <1>1, <1>2, <1>3, <1>14, ListedNodes DEF Standing, Listed
  <2>2. NodeFits(e)
    BY <1>4, <2>1 DEF ListFits
  <2>3. InRename(e) => InRename(e)'
    BY <1>1, <1>2 DEF InRename
  <2> QED
    BY <1>1, <1>3, <1>5, <2>1, <2>2, <2>3 DEF NodeFits, Ghost
<1>15. \A n \in FileNames : entries'[n] = Cardinality(NodesNamed(n)')
  <2>0. \A n \in FileNames : n # NoDirNode /\ entries[n] \in Int
    BY <1>2, DirectoryAssumption DEF DirectoryAssumption, Standing, DirTypes
  <2>1. \A n \in FileNames : d \in NodesNamed(n) <=> n = old
    <3>1. Allocated(d)
      BY <1>0, <1>2 DEF Allocated, Erases
    <3> QED
      BY <1>0, <1>3, <3>1 DEF NodesNamed
  <2>2. \A n \in FileNames : (d \in NodesNamed(n)') <=> n = NoDirNode
    BY <1>5, <2>0 DEF NodesNamed
  <2>3. \A n \in FileNames : entries'[n] = IF n = old THEN entries[n] - 1 ELSE entries[n]
    BY <1>1, <1>2, <1>4 DEF Standing, DirTypes
  <2>4. \A n \in FileNames : entries'[n] = entries[n] - OneIf(n, old) + OneIf(n, NoDirNode)
    BY <2>0, <2>3 DEF OneIf
  <2>5. \A e \in DirNodes \ {d} : (Allocated(e)' <=> Allocated(e)) /\ entry'[e] = entry[e]
    BY <1>5, <1>8
  <2>6. Standing /\ files # Unread /\ d \in DirNodes
    BY <1>2, <1>3
  <2> QED
    BY <2>1, <2>2, <2>4, <2>5, <2>6, CountsFit
<1>16. ListFits'
  <2>1. \A e, o \in ToSet(files)' : nodeName'[e] = nodeName'[o] => e = o
    BY <1>1, <1>4, <1>14 DEF ListFits
  <2>2. IsInjective(files')
    BY <1>1, <1>4 DEF ListFits
  <2> QED
    BY <1>14, <1>15, <2>1, <2>2 DEF ListFits
<1> QED
  BY <1>1, <1>2, <1>3, <1>6, <1>9, <1>11, <1>12, <1>13, <1>16 DEF Standing

\* ... and the node is freed.
LEMMA ErasesEntryStep ==
  ASSUME DirInv, NEW p \in Walkers, ErasesEntry(p), dirHarm' = {}
  PROVE  Standing'
<1>0. PICK d : d = mine[p]
  OBVIOUS
<1>1. /\ doing[p] = "wipe"
      /\ nodeName' = [nodeName EXCEPT ![d] = NoDirNode]
      /\ entry' = [entry EXCEPT ![d] = NoDirNode] /\ subdirs' = subdirs \ {d}
      /\ UNCHANGED <<files, entries, onCd, inCrit, gone>>
  BY <1>0 DEF ErasesEntry, FreesNode
<1>2. /\ Standing /\ doing'[p] \in {"idle", "walk"} /\ doing' \in [Walkers -> DirPlaces]
      /\ \A q \in Walkers \ {p} :
           doing'[q] = doing[q] /\ call'[q] = call[q] /\ mine'[q] = mine[q]
      /\ call' \in [Walkers -> DirCalls \cup {NoCall}]
      /\ mine' \in [Walkers -> NodeOrNone] /\ then' \in [Walkers -> NodeOrNone]
      /\ rollback' \in [Walkers -> Seq(DirNodes)]
      /\ doing'[p] = "walk" => call'[p].op = "rmdir"
  <2>1. CASE Finishes(p, "wipe")
    <3>1. /\ Standing /\ doing[p] = "wipe" /\ doing' = [doing EXCEPT ![p] = "idle"]
          /\ doing'[p] = "idle" /\ call'[p] = NoCall
          /\ \A q \in Walkers \ {p} :
               doing'[q] = doing[q] /\ call'[q] = call[q] /\ mine'[q] = mine[q]
          /\ call' \in [Walkers -> DirCalls \cup {NoCall}]
          /\ mine' \in [Walkers -> NodeOrNone] /\ then' \in [Walkers -> NodeOrNone]
          /\ rollback' \in [Walkers -> Seq(DirNodes)]
      BY <2>1, FinishesIs
    <3>2. doing' \in [Walkers -> DirPlaces]
      BY <3>1 DEF Standing, DirTypes, DirPlaces
    <3> QED
      BY <3>1, <3>2
  <2>2. CASE /\ call[p].op = "rmdir" /\ Proceeds(p, "wipe", "walk")
             /\ mine' = [mine EXCEPT ![p] = then[p]] /\ then' = [then EXCEPT ![p] = NoDirNode]
             /\ UNCHANGED <<call, rollback>>
    <3>1. /\ Standing /\ doing[p] = "wipe" /\ doing' = [doing EXCEPT ![p] = "walk"]
          /\ doing'[p] = "walk" /\ \A q \in Walkers \ {p} : doing'[q] = doing[q]
      BY <2>2, ProceedsIs
    <3>2. doing' \in [Walkers -> DirPlaces]
      BY <3>1 DEF Standing, DirTypes, DirPlaces
    <3>3. /\ mine' \in [Walkers -> NodeOrNone] /\ then' \in [Walkers -> NodeOrNone]
          /\ \A q \in Walkers \ {p} : mine'[q] = mine[q]
      BY <2>2, <3>1 DEF Standing, DirTypes, NodeOrNone
    <3>4. /\ call' \in [Walkers -> DirCalls \cup {NoCall}]
          /\ rollback' \in [Walkers -> Seq(DirNodes)]
      BY <2>2, <3>1 DEF Standing, DirTypes
    <3> QED
      BY <2>2, <3>1, <3>2, <3>3, <3>4
  <2> QED
    BY <2>1, <2>2 DEF ErasesEntry
<1>3. files # Unread /\ ~onCd /\ d \in DirNodes /\ ~Listed(d) /\ Ghost(d)
  BY <1>0, <1>1, <1>2 DEF Standing, CallFits, NodeIsHeld, Erases
<1>4. ListFits
  BY <1>2, <1>3 DEF Standing
<1>5. entry' = entry /\ \A e \in DirNodes \ {d} : nodeName'[e] = nodeName[e]
  BY <1>1, <1>2, <1>3 DEF Standing, DirTypes, Ghost
<1>6. DirTypes'
  <2>1. nodeName' \in [DirNodes -> Names] /\ subdirs' \subseteq DirNodes
    BY <1>1, <1>2, <1>3 DEF Standing, DirTypes, Names
  <2> QED
    BY <1>1, <1>2, <1>5, <2>1 DEF Standing, DirTypes
<1>7. \A e : Listed(e)' <=> Listed(e)
  BY <1>1 DEF Listed
<1>8. \A q \in Walkers : Erases(q)' <=> q # p /\ Erases(q)
  BY <1>2 DEF Erases
<1>9. \A e : Allocated(e)' <=> Allocated(e) /\ e # d
  <2>1. Erases(p)
    BY <1>1 DEF Erases
  <2>2. \A q \in Walkers \ {p} : Erases(q) => mine'[q] = mine[q] /\ mine[q] # d
    BY <1>0, <1>2, <2>1 DEF Standing, Apart, AtOne
  <2>3. ASSUME NEW e, Allocated(e)' PROVE Allocated(e) /\ e # d
    BY <1>3, <1>7, <1>8, <2>2, <2>3 DEF Allocated
  <2>4. ASSUME NEW e, Allocated(e), e # d PROVE Allocated(e)'
    BY <1>0, <1>7, <1>8, <2>2, <2>4 DEF Allocated
  <2> QED
    BY <2>3, <2>4
<1>10. BusyIsHeld'
  <2>1. Working(p)' <=> Working(p)
    BY <1>1, <1>2 DEF Working
  <2> QED
    BY <1>1, <1>2, <2>1, BusyStays DEF Standing
<1>11. CallFits(p)'
  BY <1>1, <1>2, <1>3 DEF CallFits, Erases
<1>12. \A q \in Walkers : CallFits(q)'
  BY <1>1, <1>2, <1>3, <1>11, OthersFit
<1>13. ASSUME NEW q \in Walkers PROVE NodeIsHeld(q)'
  <2>1. CASE q = p
    BY <1>2, <2>1 DEF NodeIsHeld, Erases
  <2>2. CASE q # p
    <3>1. NodeIsHeld(q) /\ doing'[q] = doing[q] /\ mine'[q] = mine[q]
      BY <1>2, <2>2 DEF Standing
    <3>2. doing[q] = "disk" => mine[q] # d
      BY <1>0, <1>1, <1>2, <2>2 DEF Standing, Apart, AtOne
    <3> QED
      BY <1>5, <1>7, <1>8, <1>9, <3>1, <3>2 DEF NodeIsHeld, Ghost
  <2> QED
    BY <2>1, <2>2
<1>14. Apart'
  <2> SUFFICES ASSUME NEW q \in Walkers, NEW o \in Walkers, q # o, AtOne(q, o)'
               PROVE  mine'[q] # mine'[o]
    BY DEF Apart
  <2>1. q # p /\ o # p /\ AtOne(q, o)
    BY <1>2, <1>8 DEF AtOne
  <2> QED
    BY <1>2, <2>1 DEF Standing, Apart
<1>15. ASSUME NEW e \in ToSet(files)' PROVE e \in DirNodes \ {d} /\ e \in ToSet(files) /\ NodeFits(e)'
  <2>1. e \in ToSet(files) /\ e \in DirNodes \ {d}
    BY <1>2, <1>3, <1>7, <1>15, ListedNodes DEF Standing, Listed
  <2>2. NodeFits(e)
    BY <1>4, <2>1 DEF ListFits
  <2>3. InRename(e) => InRename(e)'
    BY <1>1, <1>2 DEF InRename
  <2> QED
    BY <1>1, <1>3, <1>5, <2>1, <2>2, <2>3 DEF NodeFits, Ghost
<1>16. ASSUME NEW n \in FileNames PROVE NodesNamed(n)' = NodesNamed(n)
  <2>1. n # NoDirNode
    BY DirectoryAssumption DEF DirectoryAssumption
  <2> QED
    BY <1>3, <1>5, <1>9, <2>1 DEF NodesNamed, Ghost
<1>17. ListFits'
  <2>1. \A e, o \in ToSet(files)' : nodeName'[e] = nodeName'[o] => e = o
    BY <1>4, <1>5, <1>15 DEF ListFits
  <2>2. IsInjective(files')
    BY <1>1, <1>4 DEF ListFits
  <2>3. \A n \in FileNames : entries'[n] = Cardinality(NodesNamed(n)')
    BY <1>1, <1>4, <1>16 DEF ListFits
  <2> QED
    BY <1>15, <2>1, <2>2, <2>3 DEF ListFits
<1> QED
  BY <1>1, <1>2, <1>3, <1>6, <1>10, <1>12, <1>13, <1>14, <1>17 DEF Standing

\* rmdir ends: there is no directory any more.
LEMMA RemovesDirectoryStep ==
  ASSUME DirInv, NEW p \in Walkers, RemovesDirectory(p)
  PROVE  gone' /\ BusyIsHeld'
<1>1. /\ Finishes(p, "walk") /\ gone' = TRUE
      /\ UNCHANGED <<nodeVars, entries, onCd, inCrit>>
  BY DEF RemovesDirectory
<1>2. /\ Standing /\ doing[p] = "walk" /\ doing'[p] = "idle"
      /\ \A q \in Walkers \ {p} : doing'[q] = doing[q] /\ call'[q] = call[q]
  BY <1>1, FinishesIs
<1>3. Working(p)' <=> Working(p)
  BY <1>2 DEF Working
<1> QED
  BY <1>1, <1>2, <1>3, BusyStays DEF Standing

\* A node gets a name that no other has, while its entry keeps the old one.
LEMMA RenameStep ==
  ASSUME DirInv, NEW p \in Walkers, rename(p), dirHarm' = {}
  PROVE  Standing'
<1>0. PICK d, to : d = mine[p] /\ to = call[p].to
  OBVIOUS
<1>1. /\ Proceeds(p, "rename", "chattb")
      /\ nodeName' = [nodeName EXCEPT ![d] = to]
      /\ Listed(d) /\ Found(to) \in {NoDirNode, d} /\ ~onCd
      /\ UNCHANGED <<files, subdirs, entry, entries, onCd, inCrit, call, mine, then, rollback, gone>>
  BY <1>0 DEF rename
<1>2. /\ Standing /\ doing[p] = "rename" /\ doing' = [doing EXCEPT ![p] = "chattb"]
      /\ doing'[p] = "chattb" /\ \A q \in Walkers \ {p} : doing'[q] = doing[q]
  BY <1>1, ProceedsIs
<1>3. call[p].op = "rename" /\ files # Unread /\ d \in DirNodes
  BY <1>0, <1>2 DEF Standing, CallFits, Erases
<1>4. to \in FileNames
  BY <1>0, <1>2, <1>3, CallsAre DEF Standing, DirTypes
<1>5. ListFits
  BY <1>2, <1>3 DEF Standing
<1>6. /\ nodeName'[d] = to /\ \A e \in DirNodes \ {d} : nodeName'[e] = nodeName[e]
  BY <1>1, <1>2, <1>3 DEF Standing, DirTypes
<1>7. DirTypes'
  <2>1. nodeName' \in [DirNodes -> Names]
    BY <1>1, <1>2, <1>3, <1>4 DEF Standing, DirTypes, Names
  <2>2. doing' \in [Walkers -> DirPlaces]
    BY <1>2 DEF Standing, DirTypes, DirPlaces
  <2> QED
    BY <1>1, <1>2, <2>1, <2>2 DEF Standing, DirTypes
<1>8. \A e : (Allocated(e)' <=> Allocated(e)) /\ (Listed(e)' <=> Listed(e)) /\ (Ghost(e)' <=> Ghost(e))
  <2>1. \A e : (Listed(e)' <=> Listed(e)) /\ (Ghost(e)' <=> Ghost(e))
    BY <1>1 DEF Listed, Ghost
  <2>2. \A e : Allocated(e)' <=> Allocated(e)
    BY <1>1, <1>2, <2>1 DEF Allocated, Erases
  <2> QED
    BY <2>1, <2>2
<1>9. BusyIsHeld'
  <2>1. Working(p)' <=> Working(p)
    BY <1>2 DEF Working
  <2> QED
    BY <1>1, <1>2, <2>1, BusyStays DEF Standing
<1>10. CallFits(p)'
  BY <1>0, <1>1, <1>2, <1>3 DEF CallFits, Erases
<1>11. \A q \in Walkers : CallFits(q)'
  BY <1>1, <1>2, <1>3, <1>10, OthersFit
<1>12. ASSUME NEW q \in Walkers PROVE NodeIsHeld(q)'
  <2>1. CASE q = p
    BY <1>2, <2>1 DEF NodeIsHeld, Erases
  <2>2. CASE q # p
    <3>1. NodeIsHeld(q) /\ doing'[q] = doing[q] /\ mine'[q] = mine[q]
      BY <1>1, <1>2, <2>2 DEF Standing
    <3> QED
      BY <1>8, <3>1 DEF NodeIsHeld, Erases
  <2> QED
    BY <2>1, <2>2
<1>13. Apart'
  <2> SUFFICES ASSUME NEW q \in Walkers, NEW o \in Walkers, q # o, AtOne(q, o)'
               PROVE  mine'[q] # mine'[o]
    BY DEF Apart
  <2>1. q # p /\ o # p
    BY <1>2 DEF AtOne, Erases
  <2> QED
    BY <1>1, <1>2, <2>1 DEF Standing, Apart, AtOne, Erases
<1>14. ASSUME NEW e \in ToSet(files)' PROVE e \in DirNodes /\ e \in ToSet(files) /\ NodeFits(e)'
  <2>1. e \in ToSet(files) /\ e \in DirNodes
    BY <1>1, <1>2, <1>3, <1>14, ListedNodes DEF Standing
  <2>2. NodeFits(e)
    BY <1>5, <2>1 DEF ListFits
  <2>3. CASE e = d
    <3>1. InRename(e)'
      BY <1>0, <1>1, <1>2, <2>3 DEF InRename
    <3> QED
      BY <1>1, <1>4, <1>6, <2>1, <2>3, <3>1 DEF NodeFits
  <2>4. CASE e # d
    <3>1. InRename(e) => InRename(e)'
      BY <1>1, <1>2 DEF InRename
    <3> QED
      BY <1>1, <1>6, <2>1, <2>2, <2>4, <3>1 DEF NodeFits, Ghost
  <2> QED
    BY <2>1, <2>3, <2>4
<1>15. ASSUME NEW e \in ToSet(files)', NEW o \in ToSet(files)', nodeName'[e] = nodeName'[o]
       PROVE  e = o
  <2>0. /\ e \in DirNodes /\ e \in ToSet(files) /\ o \in DirNodes /\ o \in ToSet(files)
    BY <1>14
  <2>1. \A x \in ToSet(files) : nodeName[x] = to => x = d
    <3> SUFFICES ASSUME NEW x \in ToSet(files), nodeName[x] = to PROVE x = d
      OBVIOUS
    <3>1. Found(to) # NoDirNode /\ Found(to) \in ToSet(files) /\ nodeName[Found(to)] = to
      BY <1>2, <1>3, <1>4, FoundIs
    <3> QED
      BY <1>1, <1>5, <3>1 DEF ListFits
  <2>2. CASE e = d \/ o = d
    BY <1>6, <1>15, <2>0, <2>1, <2>2
  <2>3. CASE e # d /\ o # d
    BY <1>5, <1>6, <1>15, <2>0, <2>3 DEF ListFits
  <2> QED
    BY <2>2, <2>3
<1>16. ListFits'
  <2>1. \A n : NodesNamed(n)' = NodesNamed(n)
    BY <1>1, <1>8 DEF NodesNamed
  <2> QED
    BY <1>1, <1>5, <1>14, <1>15, <2>1 DEF ListFits
<1> QED
  BY <1>1, <1>2, <1>3, <1>7, <1>9, <1>11, <1>12, <1>13, <1>16 DEF Standing

\* The entry gets the node's name.
LEMMA RenamesEntryStep ==
  ASSUME DirInv, NEW p \in Walkers, RenamesEntry(p), dirHarm' = {}
  PROVE  Standing'
<1>0. PICK d, old, new : d = mine[p] /\ old = entry[d] /\ new = nodeName[d]
  OBVIOUS
<1>1. /\ Finishes(p, "chattb") /\ Listed(d) /\ old # NoDirNode
      /\ entries' = [entries EXCEPT ![old] = @ - 1, ![new] = @ + 1]
      /\ entry' = [entry EXCEPT ![d] = new]
      /\ UNCHANGED <<files, nodeName, subdirs, onCd, inCrit, gone>>
  BY <1>0 DEF RenamesEntry, Ghost
<1>2. /\ Standing /\ doing[p] = "chattb" /\ doing' = [doing EXCEPT ![p] = "idle"]
      /\ doing'[p] = "idle" /\ call'[p] = NoCall
      /\ \A q \in Walkers \ {p} :
           doing'[q] = doing[q] /\ call'[q] = call[q] /\ mine'[q] = mine[q]
      /\ call' \in [Walkers -> DirCalls \cup {NoCall}]
      /\ mine' \in [Walkers -> NodeOrNone] /\ then' \in [Walkers -> NodeOrNone]
      /\ rollback' \in [Walkers -> Seq(DirNodes)]
  BY <1>1, FinishesIs
<1>3. files # Unread /\ d \in DirNodes /\ ~onCd
  BY <1>0, <1>2 DEF Standing, CallFits, Erases
<1>4. ListFits /\ d \in ToSet(files) /\ new \in FileNames /\ old \in FileNames
  BY <1>0, <1>1, <1>2, <1>3 DEF Standing, DirTypes, Names, ListFits, NodeFits, Listed
<1>5. entry'[d] = new /\ \A e \in DirNodes \ {d} : entry'[e] = entry[e]
  BY <1>1, <1>2, <1>3 DEF Standing, DirTypes
<1>6. DirTypes'
  <2>1. entry' \in [DirNodes -> Names]
    BY <1>1, <1>2, <1>3, <1>4 DEF Standing, DirTypes, Names
  <2>2. entries' \in [FileNames -> Int]
    BY <1>1, <1>2, <1>4 DEF Standing, DirTypes
  <2>3. doing' \in [Walkers -> DirPlaces]
    BY <1>2 DEF Standing, DirTypes, DirPlaces
  <2> QED
    BY <1>1, <1>2, <2>1, <2>2, <2>3 DEF Standing, DirTypes
<1>7. \A e : (Allocated(e)' <=> Allocated(e)) /\ (Listed(e)' <=> Listed(e))
  <2>1. \A e : Listed(e)' <=> Listed(e)
    BY <1>1 DEF Listed
  <2>2. \A e : Allocated(e)' <=> Allocated(e)
    BY <1>2, <2>1 DEF Allocated, Erases
  <2> QED
    BY <2>1, <2>2
<1>8. BusyIsHeld'
  <2>1. Working(p)' <=> Working(p)
    BY <1>2 DEF Working
  <2> QED
    BY <1>1, <1>2, <2>1, BusyStays DEF Standing
<1>9. CallFits(p)'
  BY <1>2 DEF CallFits, Erases
<1>10. \A q \in Walkers : CallFits(q)'
  BY <1>1, <1>2, <1>3, <1>9, OthersFit
<1>11. ASSUME NEW q \in Walkers PROVE NodeIsHeld(q)'
  <2>1. CASE q = p
    BY <1>2, <2>1 DEF NodeIsHeld, Erases
  <2>2. CASE q # p
    <3>1. NodeIsHeld(q) /\ CallFits(q) /\ doing'[q] = doing[q] /\ mine'[q] = mine[q]
      BY <1>2, <2>2 DEF Standing
    <3>2. CASE doing[q] = "disk"
      <4>1. mine[q] \in DirNodes /\ Ghost(mine[q]) /\ Allocated(mine[q])
        BY <3>1, <3>2 DEF NodeIsHeld, Erases, CallFits
      <4>2. mine[q] # d
        BY <1>0, <1>1, <4>1 DEF Ghost
      <4> QED
        BY <1>5, <1>7, <3>1, <3>2, <4>1, <4>2 DEF NodeIsHeld, Erases, Ghost
    <3>3. CASE doing[q] # "disk"
      <4>1. Erases(q) => mine[q] \in DirNodes \ {d}
        BY <1>1, <3>1 DEF NodeIsHeld, CallFits, Erases
      <4>2. doing[q] = "wipe" => Ghost(mine[q]) /\ Ghost(mine[q])'
        BY <1>5, <3>1, <4>1 DEF NodeIsHeld, Erases, Ghost
      <4> QED
        BY <1>7, <3>1, <3>3, <4>2 DEF NodeIsHeld, Erases
    <3> QED
      BY <3>2, <3>3
  <2> QED
    BY <2>1, <2>2
<1>12. Apart'
  <2> SUFFICES ASSUME NEW q \in Walkers, NEW o \in Walkers, q # o, AtOne(q, o)'
               PROVE  mine'[q] # mine'[o]
    BY DEF Apart
  <2>1. q # p /\ o # p
    BY <1>2 DEF AtOne, Erases
  <2> QED
    BY <1>2, <2>1 DEF Standing, Apart, AtOne, Erases
<1>13. ASSUME NEW e \in ToSet(files)' PROVE NodeFits(e)'
  <2>1. NodeFits(e) /\ e \in DirNodes
    BY <1>1, <1>2, <1>3, <1>4, ListedNodes DEF ListFits, Standing
  <2>2. CASE e = d
    BY <1>0, <1>1, <1>3, <1>4, <1>5, <2>2 DEF NodeFits
  <2>3. CASE e # d
    <3>1. InRename(e) => InRename(e)'
      BY <1>0, <1>2, <2>3 DEF InRename
    <3> QED
      BY <1>1, <1>3, <1>5, <2>1, <2>3, <3>1 DEF NodeFits, Ghost
  <2> QED
    BY <2>2, <2>3
<1>14. \A n \in FileNames : entries'[n] = Cardinality(NodesNamed(n)')
  <2>0. \A n \in FileNames : entries[n] \in Int
    BY <1>2 DEF Standing, DirTypes
  <2>1. \A n \in FileNames : d \in NodesNamed(n) <=> n = old
    BY <1>0, <1>1, <1>3 DEF NodesNamed, Allocated, Erases
  <2>2. \A n \in FileNames : (d \in NodesNamed(n)') <=> n = new
    BY <1>1, <1>3, <1>5, <1>7 DEF NodesNamed, Allocated, Erases
  <2>3. ASSUME NEW n \in FileNames
        PROVE  entries'[n] = entries[n] - OneIf(n, old) + OneIf(n, new)
    <3>1. entries \in [FileNames -> Int]
      BY <1>2 DEF Standing, DirTypes
    <3>2. CASE old = new
      <4>1. entries'[n] = IF n = new THEN (entries[n] - 1) + 1 ELSE entries[n]
        BY <1>1, <1>4, <3>1, <3>2
      <4> QED
        BY <2>0, <3>2, <4>1 DEF OneIf
    <3>3. CASE old # new
      <4>1. entries'[n] = IF n = new THEN entries[n] + 1
                          ELSE IF n = old THEN entries[n] - 1 ELSE entries[n]
        BY <1>1, <1>4, <3>1, <3>3
      <4> QED
        BY <2>0, <3>3, <4>1 DEF OneIf
    <3> QED
      BY <3>2, <3>3
  <2>4. \A e \in DirNodes \ {d} : (Allocated(e)' <=> Allocated(e)) /\ entry'[e] = entry[e]
    BY <1>5, <1>7
  <2>5. Standing /\ files # Unread /\ d \in DirNodes
    BY <1>2, <1>3
  <2> QED
    BY <2>1, <2>2, <2>3, <2>4, <2>5, CountsFit
<1>15. ListFits'
  <2>1. IsInjective(files') /\ \A e, o \in ToSet(files)' : nodeName'[e] = nodeName'[o] => e = o
    BY <1>1, <1>4 DEF ListFits
  <2> QED
    BY <1>13, <1>14, <2>1 DEF ListFits
<1> QED
  BY <1>1, <1>2, <1>3, <1>6, <1>8, <1>10, <1>11, <1>12, <1>15 DEF Standing

\* What mountdirectory makes of the names that it finds, ...
Reads(P, present, nodes) ==
  present = SetToSeq(P) /\ nodes = SubSeq(SetToSeq(DirNodes), 1, Len(present))

\* ... is a list with one node for each.
LEMMA ReadListIs ==
  ASSUME NEW P, NEW present, NEW nodes, P \subseteq FileNames, Reads(P, present, nodes)
  PROVE  /\ nodes \in Seq(DirNodes) /\ IsInjective(nodes)
         /\ \A d \in ToSet(nodes) : present[At(nodes, d)] \in P
         /\ \A d, e \in ToSet(nodes) : present[At(nodes, d)] = present[At(nodes, e)] => d = e
         /\ \A n \in P : \E d \in ToSet(nodes) : present[At(nodes, d)] = n
<1>0. PICK k, m, all : k = Cardinality(P) /\ m = Cardinality(DirNodes) /\ all = SetToSeq(DirNodes)
  OBVIOUS
<1>1. IsFiniteSet(DirNodes) /\ IsFiniteSet(FileNames) /\ Cardinality(FileNames) <= m
  BY <1>0, DirectoryAssumption DEF DirectoryAssumption
<1>2. IsFiniteSet(P) /\ k <= Cardinality(FileNames)
  BY <1>0, <1>1, FS_Subset
<1>3. /\ present \in [1 .. k -> P] /\ IsInjective(present) /\ k \in Nat
      /\ \A x \in P : \E i \in 1 .. k : present[i] = x
  BY <1>0, <1>2, SetToSeqIs DEF Reads
<1>4. all \in [1 .. m -> DirNodes] /\ IsInjective(all) /\ m \in Nat
  BY <1>0, <1>1, SetToSeqIs
<1>5. Cardinality(FileNames) \in Nat
  BY <1>1, FS_CardinalityType
<1>6. k <= m
  BY <1>1, <1>2, <1>3, <1>4, <1>5
<1>7. Len(present) = k
  BY <1>3
<1>8. nodes = SubSeq(all, 1, k)
  BY <1>0, <1>7 DEF Reads
<1>9. \A i \in 1 .. k : i \in 1 .. m /\ all[i] \in DirNodes
  BY <1>3, <1>4, <1>6
<1>10. /\ nodes \in Seq(DirNodes) /\ Len(nodes) = k
       /\ \A i \in 1 .. k : nodes[i] = all[i]
  <2>1. /\ nodes \in Seq(DirNodes) /\ Len(nodes) = (IF 1 <= k THEN k - 1 + 1 ELSE 0)
        /\ \A i \in 1 .. k - 1 + 1 : nodes[i] = all[1 + i - 1]
    BY <1>3, <1>8, <1>9, SubSeqProperties
  <2>2. Len(nodes) = k
    BY <1>3, <2>1
  <2>3. ASSUME NEW i \in 1 .. k PROVE nodes[i] = all[i]
    <3>1. i \in 1 .. k - 1 + 1 /\ 1 + i - 1 = i
      BY <1>3
    <3> QED
      BY <2>1, <3>1
  <2> QED
    BY <2>1, <2>2, <2>3
<1>11. DOMAIN nodes = 1 .. k /\ DOMAIN present = 1 .. k /\ DOMAIN all = 1 .. m
  BY <1>3, <1>4, <1>10
<1>12. IsInjective(nodes)
  BY <1>4, <1>9, <1>10, <1>11 DEF IsInjective
<1>13. \A d \in ToSet(nodes) : At(nodes, d) \in 1 .. k /\ nodes[At(nodes, d)] = d
  BY <1>10, AtIs
<1>14. \A i \in 1 .. k : nodes[i] \in ToSet(nodes) /\ At(nodes, nodes[i]) = i
  <2>1. \A i \in 1 .. k : nodes[i] \in ToSet(nodes)
    BY <1>11 DEF ToSet
  <2>2. ASSUME NEW i \in 1 .. k, NEW j \in 1 .. k, nodes[i] = nodes[j] PROVE i = j
    BY <1>11, <1>12, <2>2 DEF IsInjective
  <2>3. ASSUME NEW i \in 1 .. k PROVE At(nodes, nodes[i]) = i
    <3>1. At(nodes, nodes[i]) \in 1 .. k /\ nodes[At(nodes, nodes[i])] = nodes[i]
      BY <1>13, <2>1
    <3> QED
      BY <2>2, <3>1
  <2> QED
    BY <2>1, <2>3
<1>15. \A d \in ToSet(nodes) : present[At(nodes, d)] \in P
  BY <1>3, <1>13
<1>16. \A d, e \in ToSet(nodes) : present[At(nodes, d)] = present[At(nodes, e)] => d = e
  <2> SUFFICES ASSUME NEW d \in ToSet(nodes), NEW e \in ToSet(nodes),
                      present[At(nodes, d)] = present[At(nodes, e)]
               PROVE  d = e
    OBVIOUS
  <2>1. At(nodes, d) = At(nodes, e)
    BY <1>3, <1>11, <1>13 DEF IsInjective
  <2> QED
    BY <1>13, <2>1
<1>17. \A n \in P : \E d \in ToSet(nodes) : present[At(nodes, d)] = n
  BY <1>3, <1>14
<1> QED
  BY <1>10, <1>12, <1>15, <1>16, <1>17

\* Reading the directory; nobody is beyond the search then.
LEMMA MountdirectoryStep ==
  ASSUME DirInv, NEW p \in Walkers, vfs_mountdirectory(p), dirHarm' = {}
  PROVE  Standing'
<1>0. PICK P, present, nodes :
        /\ P = {n \in FileNames : entries[n] > 0} /\ present = SetToSeq(P)
        /\ nodes = SubSeq(SetToSeq(DirNodes), 1, Len(present))
  OBVIOUS
<1>1. /\ Proceeds(p, "load", "search") /\ files = Unread /\ files' = nodes
      /\ nodeName' = [d \in DirNodes |-> IF d \in ToSet(nodes) THEN present[At(nodes, d)]
                                         ELSE NoDirNode]
      /\ entry' = nodeName'
      /\ UNCHANGED <<subdirs, entries, onCd, inCrit, call, mine, then, rollback, gone>>
  BY <1>0 DEF vfs_mountdirectory
<1>2. /\ Standing /\ doing[p] = "load" /\ doing' = [doing EXCEPT ![p] = "search"]
      /\ doing'[p] = "search" /\ \A q \in Walkers \ {p} : doing'[q] = doing[q]
  BY <1>1, ProceedsIs
<1>3. P \in SUBSET FileNames /\ \A n \in FileNames : entries[n] = IF n \in P THEN 1 ELSE 0
  BY <1>0, <1>1, <1>2 DEF Standing, NothingIsKnown
<1>4. /\ nodes \in Seq(DirNodes) /\ IsInjective(nodes)
      /\ \A d \in ToSet(nodes) : present[At(nodes, d)] \in P
      /\ \A d, e \in ToSet(nodes) : present[At(nodes, d)] = present[At(nodes, e)] => d = e
      /\ \A n \in P : \E d \in ToSet(nodes) : present[At(nodes, d)] = n
  <2>1. P \subseteq FileNames /\ Reads(P, present, nodes)
    BY <1>0, <1>3 DEF Reads
  <2> QED
    BY <2>1, ReadListIs
<1>5. nodes # Unread /\ ToSet(nodes) \subseteq DirNodes
  <2>1. nodes # Unread
    BY <1>4, UnreadIsNoList
  <2>2. ToSet(nodes) \subseteq DirNodes
    BY <1>4 DEF ToSet
  <2> QED
    BY <2>1, <2>2
<1>6. \A q \in Walkers : doing[q] \in {"idle", "search", "load"}
  BY <1>1, <1>2 DEF Standing, CallFits, Erases
<1>7. \A q \in Walkers : doing'[q] \in {"idle", "search", "load"}
  BY <1>2, <1>6
<1>8. /\ \A d \in ToSet(nodes) : nodeName'[d] = present[At(nodes, d)] /\ nodeName'[d] \in P
      /\ \A d \in DirNodes : d \notin ToSet(nodes) => nodeName'[d] = NoDirNode
  BY <1>1, <1>4, <1>5
<1>9. nodeName' \in [DirNodes -> Names]
  BY <1>1, <1>3, <1>4, <1>5 DEF Names
<1>10. DirTypes'
  <2>1. doing' \in [Walkers -> DirPlaces]
    BY <1>2 DEF Standing, DirTypes, DirPlaces
  <2> QED
    BY <1>1, <1>2, <1>4, <1>9, <2>1 DEF Standing, DirTypes
<1>11. BusyIsHeld'
  <2>1. Working(p)' <=> Working(p)
    BY <1>2 DEF Working
  <2> QED
    BY <1>1, <1>2, <2>1, BusyStays DEF Standing
<1>12. \A q \in Walkers : CallFits(q)' /\ NodeIsHeld(q)'
  BY <1>7 DEF CallFits, Erases, NodeIsHeld
<1>13. Apart'
  BY <1>7 DEF Apart, AtOne, Erases
<1>14. \A d \in ToSet(nodes) : NodeFits(d)'
  <2>1. NoDirNode \notin FileNames
    BY DirectoryAssumption DEF DirectoryAssumption
  <2> QED
    BY <1>1, <1>3, <1>8, <2>1 DEF NodeFits, Ghost
<1>15. \A d, e \in ToSet(nodes) : nodeName'[d] = nodeName'[e] => d = e
  BY <1>4, <1>8
<1>16. ASSUME NEW n \in FileNames PROVE entries'[n] = Cardinality(NodesNamed(n)')
  <2>1. \A d : Allocated(d)' <=> d \in ToSet(nodes)
    BY <1>1, <1>7 DEF Allocated, Erases, Listed
  <2>2. NodesNamed(n)' = {d \in DirNodes : d \in ToSet(nodes) /\ nodeName'[d] = n}
    BY <1>1, <2>1 DEF NodesNamed
  <2>3. CASE n \in P
    <3>1. PICK d \in ToSet(nodes) : nodeName'[d] = n
      BY <1>4, <1>8, <2>3
    <3>2. NodesNamed(n)' = {d}
      BY <1>5, <1>15, <2>2, <3>1
    <3>3. Cardinality({d}) = 1
      BY FS_Singleton, Zenon
    <3> QED
      BY <1>1, <1>3, <2>3, <3>2, <3>3
  <2>4. CASE n \notin P
    <3>1. NodesNamed(n)' = {}
      BY <1>8, <2>2, <2>4
    <3>2. Cardinality({}) = 0
      BY FS_EmptySet, Zenon
    <3> QED
      BY <1>1, <1>3, <2>4, <3>1, <3>2
  <2> QED
    BY <2>3, <2>4
<1>17. ListFits'
  BY <1>1, <1>4, <1>14, <1>15, <1>16 DEF ListFits
<1> QED
  BY <1>1, <1>2, <1>5, <1>10, <1>11, <1>12, <1>13, <1>17 DEF Standing

\* A directory begins unread.
LEMMA DirInitially ==
  ASSUME DirInit
  PROVE  Standing
<1>1. NoDirNode \in Names /\ NoDirNode \in NodeOrNone /\ <<>> \in Seq(DirNodes) /\ "idle" \in DirPlaces
  BY DEF Names, NodeOrNone, DirPlaces
<1>2. entries \in [FileNames -> Int] /\ \A n \in FileNames : entries[n] \in {0, 1}
  BY DEF DirInit
<1>3. DirTypes
  BY <1>1, <1>2 DEF DirInit, DirTypes
<1>4. \A q \in Walkers : doing[q] = "idle"
  BY DEF DirInit
<1>5. BusyIsHeld
  BY <1>4, DirectoryAssumption DEF DirInit, DirectoryAssumption, BusyIsHeld, Working
<1>6. \A q \in Walkers : CallFits(q) /\ NodeIsHeld(q)
  BY <1>4 DEF CallFits, Erases, NodeIsHeld
<1>7. Apart
  BY <1>4 DEF Apart, AtOne, Erases
<1>8. NothingIsKnown /\ files = Unread /\ gone = FALSE
  BY <1>2 DEF DirInit, NothingIsKnown
<1> QED
  BY <1>3, <1>5, <1>6, <1>7, <1>8 DEF Standing

\* Nothing changes.
LEMMA DirStutters ==
  ASSUME DirInv, UNCHANGED dirVars
  PROVE  DirInv'
<1>1. /\ files' = files /\ nodeName' = nodeName /\ subdirs' = subdirs /\ entry' = entry
      /\ entries' = entries /\ onCd' = onCd /\ inCrit' = inCrit /\ gone' = gone
      /\ doing' = doing /\ call' = call /\ mine' = mine /\ then' = then /\ rollback' = rollback
      /\ dirHarm' = dirHarm
  BY DEF dirVars, nodeVars, callVars
<1>2. BusyIsHeld' <=> BusyIsHeld
  BY <1>1 DEF BusyIsHeld, Working
<1>3. DirTypes' <=> DirTypes
  BY <1>1 DEF DirTypes
<1>4. \A e : /\ Allocated(e)' <=> Allocated(e)
             /\ Listed(e)' <=> Listed(e)
             /\ Ghost(e)' <=> Ghost(e)
             /\ InRename(e)' <=> InRename(e)
             /\ BeingMade(e)' <=> BeingMade(e)
  BY <1>1 DEF Allocated, Erases, Listed, Ghost, InRename, BeingMade
<1>5. \A q \in Walkers : (CallFits(q)' <=> CallFits(q)) /\ (NodeIsHeld(q)' <=> NodeIsHeld(q))
  BY <1>1, <1>4 DEF CallFits, Erases, NodeIsHeld
<1>6. (Apart' <=> Apart) /\ (NothingIsKnown' <=> NothingIsKnown)
  BY <1>1 DEF Apart, AtOne, Erases, NothingIsKnown
<1>7. \A e : NodeFits(e)' <=> NodeFits(e)
  BY <1>1, <1>4 DEF NodeFits
<1>8. \A n : NodesNamed(n)' = NodesNamed(n)
  BY <1>1, <1>4 DEF NodesNamed
<1>9. ListFits' <=> ListFits
  BY <1>1, <1>7, <1>8 DEF ListFits
<1>10. Standing' <=> Standing
  BY <1>1, <1>2, <1>3, <1>5, <1>6, <1>9 DEF Standing
<1> QED
  BY <1>1, <1>2, <1>10 DEF DirInv

\* Every step keeps the invariant.
LEMMA DirInvHolds == DirSpec => []DirInv
<1>1. DirInit => DirInv
  BY DirInitially DEF DirInv
<1>2. DirInv /\ [DirNext]_dirVars => DirInv'
  <2> SUFFICES ASSUME DirInv, [DirNext]_dirVars, dirHarm' = {} PROVE DirInv'
    BY DEF DirInv
  <2>1. CASE UNCHANGED dirVars
    BY <2>1, DirStutters
  <2>2. CASE DirStops
    BY <2>2, DirStutters DEF DirStops
  <2>3. ASSUME NEW p \in Walkers,
               \/ DirCall(p) \/ MeetsUnread(p) \/ vfs_mountdirectory(p)
               \/ SearchEnds(p) \/ vfs_rmdir(p) \/ createfile(p) \/ vfs_createnode(p)
               \/ CreatesEntry(p) \/ CreateEnds(p) \/ CreateFails(p)
               \/ vfs_removenode(p) \/ FreesSlot(p) \/ ErasesEntry(p) \/ RemovesDirectory(p)
               \/ rename(p) \/ RenamesEntry(p)
        PROVE  Standing' \/ (gone' /\ BusyIsHeld')
    <3>1. CASE DirCall(p)
      BY <3>1, DirCallStep
    <3>2. CASE MeetsUnread(p)
      BY <3>2, MeetsUnreadStep
    <3>3. CASE vfs_mountdirectory(p)
      BY <3>3, MountdirectoryStep
    <3>4. CASE SearchEnds(p)
      BY <3>4, SearchEndsStep
    <3>5. CASE vfs_rmdir(p)
      BY <3>5, RmdirStep
    <3>6. CASE createfile(p)
      BY <3>6, CreatefileStep
    <3>7. CASE vfs_createnode(p)
      BY <3>7, CreatenodeStep
    <3>8. CASE CreatesEntry(p)
      BY <3>8, CreatesEntryStep
    <3>9. CASE CreateEnds(p)
      BY <3>9, CreateEndsStep
    <3>10. CASE CreateFails(p)
      BY <3>10, CreateFailsStep
    <3>11. CASE vfs_removenode(p)
      BY <3>11, RemovenodeStep
    <3>12. CASE ErasesEntry(p)
      BY <3>12, ErasesEntryStep
    <3>13. CASE RemovesDirectory(p)
      BY <3>13, RemovesDirectoryStep
    <3>14. CASE rename(p)
      BY <3>14, RenameStep
    <3>15. CASE RenamesEntry(p)
      BY <3>15, RenamesEntryStep
    <3>16. CASE FreesSlot(p)
      BY <3>16, FreesSlotStep
    <3> QED
      BY <2>3, <3>1, <3>2, <3>3, <3>4, <3>5, <3>6, <3>7, <3>8, <3>9, <3>10, <3>11, <3>12,
         <3>13, <3>14, <3>15, <3>16
  <2>4. CASE \E p \in Walkers :
               \/ DirCall(p) \/ MeetsUnread(p) \/ vfs_mountdirectory(p)
               \/ SearchEnds(p) \/ vfs_rmdir(p) \/ createfile(p) \/ vfs_createnode(p)
               \/ CreatesEntry(p) \/ CreateEnds(p) \/ CreateFails(p)
               \/ vfs_removenode(p) \/ FreesSlot(p) \/ ErasesEntry(p) \/ RemovesDirectory(p)
               \/ rename(p) \/ RenamesEntry(p)
    BY <2>3, <2>4 DEF DirInv
  <2> QED
    BY <2>1, <2>2, <2>4 DEF DirNext
<1> QED
  BY <1>1, <1>2, PTL DEF DirSpec

\* Until dirHarm records what the code does not survive: once a directory was read its list
\* has every entry of the disk once and no two nodes of a name, a node has the name of its
\* entry unless a rename is on the way, a CD shows only what it has or what is being made,
\* and vfs_busy has a holder just while createfile works.
THEOREM SoundDirectory == DirSpec => []DirectoryIsSound
<1>1. DirInv => DirectoryIsSound
  <2> SUFFICES ASSUME DirInv, dirHarm = {} PROVE DirectoryIsSound
    BY DEF DirectoryIsSound
  <2>1. BusyIsHeld
    BY DEF DirInv, Standing
  <2>2. ASSUME files # Unread, ~gone
        PROVE  /\ IsInjective(files)
               /\ \A n \in FileNames : /\ Cardinality(Named(n)) <= 1
                                      /\ entries[n] = Cardinality(NodesNamed(n))
               /\ \A d \in ToSet(files) :
                    /\ Ghost(d) \/ entry[d] = nodeName[d] \/ InRename(d)
                    /\ Ghost(d) /\ onCd => BeingMade(d)
    <3>1. Standing /\ ListFits
      BY <2>2 DEF DirInv, Standing
    <3>2. ASSUME NEW n \in FileNames PROVE Cardinality(Named(n)) <= 1
      <4>0. \A i \in DOMAIN files : files[i] \in ToSet(files)
        BY DEF ToSet
      <4>1. \A i, j \in Named(n) : i = j
        BY <3>1, <4>0 DEF ListFits, Named, IsInjective
      <4>2. CASE Named(n) = {}
        <5>1. Cardinality({}) = 0
          BY FS_EmptySet, Zenon
        <5> QED
          BY <4>2, <5>1
      <4>3. CASE Named(n) # {}
        <5>1. PICK i : Named(n) = {i}
          BY <4>1, <4>3
        <5>2. Cardinality({i}) = 1
          BY FS_Singleton, Zenon
        <5> QED
          BY <5>1, <5>2
      <4> QED
        BY <4>2, <4>3
    <3> QED
      BY <3>1, <3>2 DEF ListFits, NodeFits
  <2> QED
    BY <2>1, <2>2 DEF DirectoryIsSound, BusyIsHeld, Working
<1> QED
  BY <1>1, DirInvHolds, PTL
==============================================================================
