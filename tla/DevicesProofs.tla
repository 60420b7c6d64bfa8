----------------------------- MODULE DevicesProofs -----------------------------
(***************************************************************************)
(* What the drivers and the kernel keep for others, for any number of      *)
(* them: the floppy's drive (hardware/floppy/floppy.c), the messages of    *)
(* processes (process/process.c), the page frames (memory/dexmem.c) and    *)
(* the consoles' screens (console/dex_DDL.c).                              *)
(***************************************************************************)
EXTENDS FloppyDrive, Messages, FrameStack, Screens, TLAPS, FiniteSetTheorems

------------------------------------------------------------------------------
\* The floppy's drive.

\* The count that seeks and transfers share never passes 3 before the call is over, and
\* where only seeks have counted it is the number of those that failed.
TriesAreCounted ==
  /\ at \notin {"idle", "leave"} => tries <= 3
  /\ at = "check" => tries <= 2
  /\ at \in {"move", "seek", "send", "rw", "again"} /\ path = "transfer" => tries = seeks
  /\ at = "recalibrate" /\ path = "transfer" => tries = seeks
  /\ seeks = 4 => at \in {"idle", "cannot"}
  /\ at \in {"send", "rw", "again", "leave"} => path = "transfer"
  /\ at \in {"clear"} => path = "change"
  /\ at = "cannot" => seeks = 4

\* A transfer that worked is known only where the call ends, and nothing is returned
\* before that.
WorkIsKnown ==
  /\ worked => at \in {"leave", "idle"}
  /\ at # "idle" => result = "none"
  /\ at = "leave" /\ "wrong" \notin odd /\ seeks < 3 => (worked <=> tries # 3)

\* The motor's countdown is off, or longer than what can still be waited for before it
\* is set again.
MotorLasts ==
  at # "idle" /\ odd \cap {"counting", "timeout"} = {} =>
    /\ motor
    /\ \/ mtick = -1
       \/ mtick >= CASE at = "rw" -> WaitTicks + tmout
                     [] at \in {"seek", "recalibrate"} -> tmout
                     [] at = "again" -> WaitTicks
                     [] at \in {"leave", "cannot"} -> 0
                     [] OTHER -> 2 * WaitTicks

\* The invariant of the drive.
DriveInv ==
  DriveTypeOK /\ ResultIsTrue /\ MotorIsCountedDown /\ TriesAreCounted /\ WorkIsKnown /\ MotorLasts

\* Every step of the driver, the timer and the controller keeps it.
LEMMA DriveKeeps == DriveInv /\ [DriveNext]_driveVars => DriveInv'
<1> SUFFICES ASSUME DriveInv, [DriveNext]_driveVars PROVE DriveInv'
  OBVIOUS
<1> USE DriveAssumption DEF DriveAssumption
<1> USE DEF NoTrack
<1>p. /\ DriveTypeOK /\ ResultIsTrue /\ MotorIsCountedDown /\ TriesAreCounted /\ WorkIsKnown
      /\ MotorLasts
  BY DEF DriveInv
<1>1. CASE UNCHANGED driveVars
  BY <1>p, <1>1 DEF driveVars, motorVars, waitVars, callVars2, DriveInv, DriveTypeOK, ResultIsTrue,
     MotorIsCountedDown, TriesAreCounted, WorkIsKnown, MotorLasts
<1>2. ASSUME NEW t \in Tracks, DriveBegins(t) PROVE DriveInv'
  <2> USE <1>2, <1>p DEF DriveBegins, motoron, waitVars
  <2>s. /\ odd' \subseteq {"counting", "timeout", "wrong"}
        /\ answers' \subseteq {"own", "old"}
    BY DEF DriveTypeOK
  <2>b. motor' \in BOOLEAN /\ done' \in BOOLEAN /\ worked' \in BOOLEAN
    BY DEF DriveTypeOK
  <2>n. /\ mtick' \in -1 .. MotorTicks /\ tmout' \in 0 .. WaitTicks
        /\ tries' \in 0 .. 4 /\ seeks' \in 0 .. 4
    BY DEF DriveTypeOK
  <2>1. DriveTypeOK'
    BY <2>s, <2>b, <2>n DEF DriveTypeOK
  <2>2. ResultIsTrue' /\ MotorIsCountedDown' /\ TriesAreCounted' /\ WorkIsKnown'
    BY DEF DriveTypeOK, ResultIsTrue, MotorIsCountedDown, TriesAreCounted, WorkIsKnown
  <2>3. MotorLasts'
    BY DEF DriveTypeOK, MotorLasts
  <2> QED
    BY <2>1, <2>2, <2>3 DEF DriveInv
<1>3. CASE DiskChanged \/ SameDisk \/ AlreadyThere
  <2> USE <1>3, <1>p DEF DiskChanged, SameDisk, AlreadyThere, motoron, waitVars, motorVars, callVars2
  <2>s. /\ odd' \subseteq {"counting", "timeout", "wrong"}
        /\ answers' \subseteq {"own", "old"}
    BY DEF DriveTypeOK
  <2>b. motor' \in BOOLEAN /\ done' \in BOOLEAN /\ worked' \in BOOLEAN
    BY DEF DriveTypeOK
  <2>n. /\ mtick' \in -1 .. MotorTicks /\ tmout' \in 0 .. WaitTicks
        /\ tries' \in 0 .. 4 /\ seeks' \in 0 .. 4
    BY DEF DriveTypeOK
  <2>1. DriveTypeOK'
    BY <2>s, <2>b, <2>n DEF DriveTypeOK
  <2>2. ResultIsTrue' /\ MotorIsCountedDown' /\ TriesAreCounted' /\ WorkIsKnown'
    BY DEF DriveTypeOK, ResultIsTrue, MotorIsCountedDown, TriesAreCounted, WorkIsKnown
  <2>3. MotorLasts'
    BY DEF DriveTypeOK, MotorLasts
  <2> QED
    BY <2>1, <2>2, <2>3 DEF DriveInv
<1>4. CASE SeekStarts \/ Transfers \/ Recalibrate
  <2> USE <1>4, <1>p DEF SeekStarts, Transfers, Recalibrate, motoron, Sends, motorVars, callVars2
  <2>s. /\ odd' \subseteq {"counting", "timeout", "wrong"}
        /\ answers' \subseteq {"own", "old"}
    BY DEF DriveTypeOK
  <2>b. motor' \in BOOLEAN /\ done' \in BOOLEAN /\ worked' \in BOOLEAN
    BY DEF DriveTypeOK
  <2>n. /\ mtick' \in -1 .. MotorTicks /\ tmout' \in 0 .. WaitTicks
        /\ tries' \in 0 .. 4 /\ seeks' \in 0 .. 4
    BY DEF DriveTypeOK
  <2>1. DriveTypeOK'
    BY <2>s, <2>b, <2>n DEF DriveTypeOK
  <2>2. ResultIsTrue' /\ MotorIsCountedDown' /\ TriesAreCounted' /\ WorkIsKnown'
    BY DEF DriveTypeOK, ResultIsTrue, MotorIsCountedDown, TriesAreCounted, WorkIsKnown
  <2>3. MotorLasts'
    BY DEF DriveTypeOK, MotorLasts
  <2> QED
    BY <2>1, <2>2, <2>3 DEF DriveInv
<1>5. CASE SeekEnds
  <2> USE <1>5, <1>p DEF SeekEnds, WaitEnds, Waiting, WaitOver, Answered, motoroff, motorVars
  <2>s. /\ odd' \subseteq {"counting", "timeout", "wrong"}
        /\ answers' \subseteq {"own", "old"}
    BY DEF DriveTypeOK
  <2>b. motor' \in BOOLEAN /\ done' \in BOOLEAN /\ worked' \in BOOLEAN
    BY DEF DriveTypeOK
  <2>n. /\ mtick' \in -1 .. MotorTicks /\ tmout' \in 0 .. WaitTicks
        /\ tries' \in 0 .. 4 /\ seeks' \in 0 .. 4
    BY DEF DriveTypeOK, TriesAreCounted
  <2>1. DriveTypeOK'
    BY <2>s, <2>b, <2>n DEF DriveTypeOK
  <2>2. ResultIsTrue' /\ MotorIsCountedDown' /\ TriesAreCounted' /\ WorkIsKnown'
    BY DEF DriveTypeOK, ResultIsTrue, MotorIsCountedDown, TriesAreCounted, WorkIsKnown
  <2>3. MotorLasts'
    BY DEF DriveTypeOK, MotorLasts
  <2> QED
    BY <2>1, <2>2, <2>3 DEF DriveInv
<1>6. CASE TransferTimesOut \/ \E ok \in BOOLEAN : TransferEnds(ok)
  <2> USE <1>6, <1>p DEF TransferTimesOut, TransferEnds, Status, Genuine, WaitEnds, Waiting, WaitOver,
      Answered, motorVars
  <2>s. /\ odd' \subseteq {"counting", "timeout", "wrong"}
        /\ answers' \subseteq {"own", "old"}
    BY DEF DriveTypeOK
  <2>b. motor' \in BOOLEAN /\ done' \in BOOLEAN /\ worked' \in BOOLEAN
    BY DEF DriveTypeOK
  <2>n. /\ mtick' \in -1 .. MotorTicks /\ tmout' \in 0 .. WaitTicks
        /\ tries' \in 0 .. 4 /\ seeks' \in 0 .. 4
    BY DEF DriveTypeOK
  <2>1. DriveTypeOK'
    BY <2>s, <2>b, <2>n DEF DriveTypeOK
  <2>2. ResultIsTrue' /\ MotorIsCountedDown' /\ TriesAreCounted' /\ WorkIsKnown'
    BY DEF DriveTypeOK, ResultIsTrue, MotorIsCountedDown, TriesAreCounted, WorkIsKnown
  <2>3. MotorLasts'
    BY DEF DriveTypeOK, MotorLasts
  <2> QED
    BY <2>1, <2>2, <2>3 DEF DriveInv
<1>7. CASE Recalibrated
  <2> USE <1>7, <1>p DEF Recalibrated, WaitEnds, Waiting, WaitOver, Answered, motoroff
  <2>s. /\ odd' \subseteq {"counting", "timeout", "wrong"}
        /\ answers' \subseteq {"own", "old"}
    BY DEF DriveTypeOK
  <2>b. motor' \in BOOLEAN /\ done' \in BOOLEAN /\ worked' \in BOOLEAN
    BY DEF DriveTypeOK
  <2>n. /\ mtick' \in -1 .. MotorTicks /\ tmout' \in 0 .. WaitTicks
        /\ tries' \in 0 .. 4 /\ seeks' \in 0 .. 4
    BY DEF DriveTypeOK, TriesAreCounted
  <2>1. DriveTypeOK'
    BY <2>s, <2>b, <2>n DEF DriveTypeOK
  <2>2. ResultIsTrue' /\ MotorIsCountedDown' /\ TriesAreCounted' /\ WorkIsKnown'
    BY DEF DriveTypeOK, ResultIsTrue, MotorIsCountedDown, TriesAreCounted, WorkIsKnown
  <2>3. MotorLasts'
    BY DEF DriveTypeOK, MotorLasts
  <2> QED
    BY <2>1, <2>2, <2>3 DEF DriveInv
<1>8. CASE CannotSeek \/ TransferReturns
  <2> USE <1>8, <1>p DEF CannotSeek, TransferReturns, motoroff, waitVars
  <2>s. /\ odd' \subseteq {"counting", "timeout", "wrong"}
        /\ answers' \subseteq {"own", "old"}
    BY DEF DriveTypeOK
  <2>b. motor' \in BOOLEAN /\ done' \in BOOLEAN /\ worked' \in BOOLEAN
    BY DEF DriveTypeOK
  <2>n. /\ mtick' \in -1 .. MotorTicks /\ tmout' \in 0 .. WaitTicks
        /\ tries' \in 0 .. 4 /\ seeks' \in 0 .. 4
    BY DEF DriveTypeOK
  <2>1. DriveTypeOK'
    BY <2>s, <2>b, <2>n DEF DriveTypeOK
  <2>2. ResultIsTrue' /\ MotorIsCountedDown' /\ TriesAreCounted' /\ WorkIsKnown'
    BY DEF DriveTypeOK, ResultIsTrue, MotorIsCountedDown, TriesAreCounted, WorkIsKnown
  <2>3. MotorLasts'
    BY DEF DriveTypeOK, MotorLasts
  <2> QED
    BY <2>1, <2>2, <2>3 DEF DriveInv
<1>9. CASE fdctimer
  <2> USE <1>9, <1>p DEF fdctimer, Waiting, callVars2
  <2>s. /\ odd' \subseteq {"counting", "timeout", "wrong"}
        /\ answers' \subseteq {"own", "old"}
    BY DEF DriveTypeOK
  <2>b. motor' \in BOOLEAN /\ done' \in BOOLEAN /\ worked' \in BOOLEAN
    BY DEF DriveTypeOK
  <2>n. /\ mtick' \in -1 .. MotorTicks /\ tmout' \in 0 .. WaitTicks
        /\ tries' \in 0 .. 4 /\ seeks' \in 0 .. 4
    BY DEF DriveTypeOK
  <2>1. DriveTypeOK'
    BY <2>s, <2>b, <2>n DEF DriveTypeOK
  <2>2. ResultIsTrue' /\ MotorIsCountedDown' /\ TriesAreCounted' /\ WorkIsKnown'
    BY DEF DriveTypeOK, ResultIsTrue, MotorIsCountedDown, TriesAreCounted, WorkIsKnown
  <2>3. MotorLasts'
    BY DEF DriveTypeOK, MotorLasts
  <2> QED
    BY <2>1, <2>2, <2>3 DEF DriveInv
<1>10. CASE fdchandler
  <2> USE <1>10, <1>p DEF fdchandler, motorVars, callVars2
  <2>s. /\ odd' \subseteq {"counting", "timeout", "wrong"}
        /\ answers' \subseteq {"own", "old"}
    BY DEF DriveTypeOK
  <2>b. motor' \in BOOLEAN /\ done' \in BOOLEAN /\ worked' \in BOOLEAN
    BY DEF DriveTypeOK
  <2>n. /\ mtick' \in -1 .. MotorTicks /\ tmout' \in 0 .. WaitTicks
        /\ tries' \in 0 .. 4 /\ seeks' \in 0 .. 4
    BY DEF DriveTypeOK
  <2>1. DriveTypeOK'
    BY <2>s, <2>b, <2>n DEF DriveTypeOK
  <2>2. ResultIsTrue' /\ MotorIsCountedDown' /\ TriesAreCounted' /\ WorkIsKnown' /\ MotorLasts'
    BY DEF DriveTypeOK, ResultIsTrue, MotorIsCountedDown, TriesAreCounted, WorkIsKnown, MotorLasts
  <2> QED
    BY <2>1, <2>2 DEF DriveInv
<1> QED
  BY <1>1, <1>2, <1>3, <1>4, <1>5, <1>6, <1>7, <1>8, <1>9, <1>10 DEF DriveInv, DriveNext, DriveStep

\* Whatever the controller answers, late, wrongly or not at all, for any number of tracks
\* and any waiting times of which the motor's is twice the driver's: as long as no answer
\* was another command's and fewer than three seeks failed what fdc_rw returns is true;
\* the motor runs while it is needed, and is counted down when it is not, but for a
\* timeout or a countdown left running.
THEOREM SoundDrive == DriveSpec => []DriveIsSound
<1> USE DriveAssumption DEF DriveAssumption, NoTrack
<1>1. ASSUME DriveInit PROVE DriveInv
  <2> USE <1>1 DEF DriveInit
  <2>n. mtick \in -1 .. MotorTicks /\ tmout \in 0 .. WaitTicks /\ 0 \in 0 .. 4
    OBVIOUS
  <2>1. DriveTypeOK
    BY <2>n DEF DriveTypeOK
  <2>2. ResultIsTrue /\ MotorIsCountedDown /\ TriesAreCounted /\ WorkIsKnown /\ MotorLasts
    BY DEF ResultIsTrue, MotorIsCountedDown, TriesAreCounted, WorkIsKnown, MotorLasts
  <2> QED
    BY <2>1, <2>2 DEF DriveInv
<1>2. ASSUME DriveInv PROVE DriveIsSound
  <2>1. MotorTurns
    BY <1>2 DEF DriveInv, MotorLasts, MotorTurns, Waiting
  <2> QED
    BY <1>2, <2>1 DEF DriveInv, DriveIsSound
<1> QED
  BY <1>1, <1>2, DriveKeeps, PTL DEF DriveSpec

------------------------------------------------------------------------------
\* Messages.

\* The slot at a distance from the tail, without a division.
Slot(i) == IF i >= MAX_MESSAGE THEN i - MAX_MESSAGE ELSE i
\* A message of each sender and kind.
Sent == Senders \X MessageKinds

\* Who is between the test and the store of a ring.
Storing(steps, to, p) == {s \in Senders : steps[s] = "store" /\ to[s] = p}

\* The numbers of a ring's places.
LEMMA RingNumbers ==
  /\ \A i \in 0 .. 2 * MAX_MESSAGE - 1 : i % MAX_MESSAGE = Slot(i)
  /\ \A i \in {0, MAX_MESSAGE, 2 * MAX_MESSAGE} : i % MAX_MESSAGE = 0
<1> USE MessagesAssumption DEF MessagesAssumption
<1> DEFINE n == MAX_MESSAGE
<1>1. ASSUME NEW i \in 0 .. n - 1 PROVE i % n = i
  OBVIOUS
<1>2. ASSUME NEW i \in n .. 2 * n - 1 PROVE i % n = i - n
  <2>1. i = n * 1 + (i - n) /\ i - n \in 0 .. n - 1
    OBVIOUS
  <2> QED
    BY <2>1
<1>3. 0 % n = 0 /\ n % n = 0
  BY <1>1, <1>2
<1>4. (2 * n) % n = 0
  <2>1. 2 * n = n * 2 + 0 /\ 0 \in 0 .. n - 1
    OBVIOUS
  <2> QED
    BY <2>1
<1> QED
  BY <1>1, <1>2, <1>3, <1>4 DEF Slot

\* Head, tail and count of a ring that has not lost a message, and of one that just has.
RingsAgree ==
  \A p \in Receivers :
    /\ mestotal[p] = Len(pending[p])
    /\ curmes[p] + mestotal[p] - meshead[p] \in {0, MAX_MESSAGE, 2 * MAX_MESSAGE}
    /\ p \notin lost =>
         /\ mestotal[p] <= MAX_MESSAGE
         /\ \A k \in 1 .. mestotal[p] : mesq[p][Slot(curmes[p] + k - 1)] = pending[p][k]

\* What a sender has in its hands, and that only a receiver takes from its ring.
HandsAreFull ==
  \A s \in Senders :
    /\ sending[s] \in {"test", "store"} \/ targets[s] # {} => mes[s] \in Sent
    /\ sending[s] = "take" => s \in Receivers /\ mestotal[s] > 0 /\ index[s] = curmes[s]

\* There is room for all that the senders may still add.
RoomForSenders ==
  \A p \in Receivers :
    mestotal[p] + Cardinality(Storing(sending, sendTo, p)) <= MAX_MESSAGE - 2 + Cardinality(Senders)

\* The invariant of the messages.
MessagesInv == MessagesTypeOK /\ RingsAgree /\ HandsAreFull /\ RoomForSenders

\* The one chosen is a receiver.
LEMMA SomeoneReceives == SomeReceiver \in Receivers
  BY MessagesAssumption DEF MessagesAssumption, SomeReceiver

\* A step that fills no ring and lets nobody else in keeps the room.
LEMMA RoomKept ==
  ASSUME MessagesTypeOK, RoomForSenders, mestotal' \in [Receivers -> Nat],
         \A p \in Receivers : /\ mestotal'[p] <= mestotal[p]
                              /\ Storing(sending', sendTo', p) \subseteq Storing(sending, sendTo, p)
  PROVE  RoomForSenders'
<1> USE MessagesAssumption DEF MessagesAssumption
<1> SUFFICES ASSUME NEW p \in Receivers
             PROVE  mestotal'[p] + Cardinality(Storing(sending', sendTo', p))
                      <= MAX_MESSAGE - 2 + Cardinality(Senders)
  BY DEF RoomForSenders
<1>1. IsFiniteSet(Storing(sending, sendTo, p))
  BY FS_Subset DEF Storing
<1>2. /\ Cardinality(Storing(sending', sendTo', p)) <= Cardinality(Storing(sending, sendTo, p))
      /\ IsFiniteSet(Storing(sending', sendTo', p))
  BY <1>1, FS_Subset
<1>3. /\ Cardinality(Storing(sending', sendTo', p)) \in Nat
      /\ Cardinality(Storing(sending, sendTo, p)) \in Nat /\ Cardinality(Senders) \in Nat
  BY <1>1, <1>2, FS_CardinalityType
<1>4. mestotal'[p] \in Nat /\ mestotal[p] \in Nat /\ mestotal'[p] <= mestotal[p]
  BY DEF MessagesTypeOK
<1> QED
  BY <1>2, <1>3, <1>4 DEF RoomForSenders

\* A step that leaves the rings alone.
LEMMA RingsStay ==
  ASSUME MessagesInv, NEW s \in Senders, UNCHANGED <<queueVars, pending, lost, stray>>,
         listed' \subseteq listed,
         sending' \in [Senders -> {"run", "test", "store", "take"}],
         sendTo' \in [Senders -> Receivers], index' \in [Senders -> 0 .. MAX_MESSAGE - 1],
         mes' \in [Senders -> Sent \cup {NoMessage}], targets' \in [Senders -> SUBSET Receivers],
         \A q \in Senders \ {s} : /\ sending'[q] = sending[q] /\ sendTo'[q] = sendTo[q]
                                  /\ index'[q] = index[q] /\ mes'[q] = mes[q]
                                  /\ targets'[q] = targets[q],
         sending'[s] \in {"test", "store"} \/ targets'[s] # {} => mes'[s] \in Sent,
         sending'[s] = "take" => s \in Receivers /\ mestotal[s] > 0 /\ index'[s] = curmes[s],
         sending'[s] = "store" => RoomForSenders'
  PROVE  MessagesInv'
<1>1. MessagesTypeOK'
  BY DEF MessagesInv, MessagesTypeOK, queueVars, Sent
<1>2. RingsAgree'
  BY DEF MessagesInv, RingsAgree, queueVars
<1>3. HandsAreFull'
  BY DEF MessagesInv, HandsAreFull, queueVars
<1>4. CASE sending'[s] = "store"
  BY <1>1, <1>2, <1>3, <1>4 DEF MessagesInv
<1>5. CASE sending'[s] # "store"
  <2>1. \A p \in Receivers : Storing(sending', sendTo', p) \subseteq Storing(sending, sendTo, p)
    BY <1>5 DEF Storing
  <2>2. mestotal' \in [Receivers -> Nat] /\ \A p \in Receivers : mestotal'[p] <= mestotal[p]
    BY DEF MessagesInv, MessagesTypeOK, queueVars
  <2>3. RoomForSenders'
    BY <2>1, <2>2, RoomKept DEF MessagesInv
  <2> QED
    BY <1>1, <1>2, <1>3, <2>3 DEF MessagesInv
<1> QED
  BY <1>4, <1>5

\* The numbers of a ring a message is stored in, and of one a message is taken from.
LEMMA StoreNumbers ==
  ASSUME NEW c \in 0 .. MAX_MESSAGE - 1, NEW h \in 0 .. MAX_MESSAGE - 1, NEW t \in Nat,
         t <= MAX_MESSAGE, c + t - h \in {0, MAX_MESSAGE, 2 * MAX_MESSAGE}
  PROVE  /\ c + (t + 1) - Wrapped(h + 1) \in {0, MAX_MESSAGE, 2 * MAX_MESSAGE}
         /\ Wrapped(h + 1) \in 0 .. MAX_MESSAGE - 1
         /\ t < MAX_MESSAGE => h = Slot(c + t)
<1>n. MAX_MESSAGE \in Nat \ {0, 1}
  BY MessagesAssumption DEF MessagesAssumption
<1>1. c + t - h = 0 \/ c + t - h = MAX_MESSAGE
  BY <1>n
<1>2. c + (t + 1) - Wrapped(h + 1) \in {0, MAX_MESSAGE, 2 * MAX_MESSAGE}
  <2>1. CASE h + 1 < MAX_MESSAGE
    <3>1. Wrapped(h + 1) = h + 1
      BY <1>n, <2>1 DEF Wrapped
    <3> QED
      BY <1>n, <1>1, <3>1
  <2>2. CASE h = MAX_MESSAGE - 1
    <3>1. Wrapped(h + 1) = 0
      BY <1>n, <2>2 DEF Wrapped
    <3>2. c + (t + 1) - 0 = MAX_MESSAGE \/ c + (t + 1) - 0 = 2 * MAX_MESSAGE
      BY <1>n, <1>1, <2>2
    <3> QED
      BY <3>1, <3>2
  <2> QED
    BY <1>n, <2>1, <2>2
<1>3. Wrapped(h + 1) \in 0 .. MAX_MESSAGE - 1
  BY <1>n DEF Wrapped
<1>4. ASSUME t < MAX_MESSAGE PROVE h = Slot(c + t)
  BY <1>n, <1>1, <1>4 DEF Slot
<1> QED
  BY <1>2, <1>3, <1>4

\* The head of a ring that is not full is none of the slots in use.
LEMMA OtherSlots ==
  ASSUME NEW c \in 0 .. MAX_MESSAGE - 1, NEW h \in 0 .. MAX_MESSAGE - 1, NEW t \in Nat,
         t < MAX_MESSAGE, c + t - h \in {0, MAX_MESSAGE, 2 * MAX_MESSAGE}, NEW k \in 1 .. t
  PROVE  Slot(c + k - 1) \in 0 .. MAX_MESSAGE - 1 /\ Slot(c + k - 1) # h
<1>n. MAX_MESSAGE \in Nat \ {0, 1}
  BY MessagesAssumption DEF MessagesAssumption
<1> QED
  BY <1>n DEF Slot

\* The numbers where a message is taken.
LEMMA TakeNumbers ==
  ASSUME NEW c \in 0 .. MAX_MESSAGE - 1, NEW h \in 0 .. MAX_MESSAGE - 1, NEW t \in Nat \ {0},
         t <= MAX_MESSAGE, c + t - h \in {0, MAX_MESSAGE, 2 * MAX_MESSAGE}
  PROVE  /\ Wrapped(c + 1) + (t - 1) - h \in {0, MAX_MESSAGE, 2 * MAX_MESSAGE}
         /\ Wrapped(c + 1) \in 0 .. MAX_MESSAGE - 1
         /\ \A k \in 1 .. t - 1 : Slot(Wrapped(c + 1) + k - 1) = Slot(c + (k + 1) - 1)
<1>n. MAX_MESSAGE \in Nat \ {0, 1}
  BY MessagesAssumption DEF MessagesAssumption
<1>1. c + t - h = 0 \/ c + t - h = MAX_MESSAGE
  BY <1>n
<1>2. Wrapped(c + 1) + (t - 1) - h \in {0, MAX_MESSAGE, 2 * MAX_MESSAGE}
  <2>1. CASE c + 1 < MAX_MESSAGE
    <3>1. Wrapped(c + 1) = c + 1
      BY <1>n, <2>1 DEF Wrapped
    <3> QED
      BY <1>n, <1>1, <3>1
  <2>2. CASE c = MAX_MESSAGE - 1
    <3>1. Wrapped(c + 1) = 0
      BY <1>n, <2>2 DEF Wrapped
    <3>2. c + t - h = MAX_MESSAGE
      BY <1>n, <1>1, <2>2
    <3>3. 0 + (t - 1) - h = 0
      BY <1>n, <2>2, <3>2
    <3> QED
      BY <3>1, <3>3
  <2> QED
    BY <1>n, <2>1, <2>2
<1>3. Wrapped(c + 1) \in 0 .. MAX_MESSAGE - 1
  BY <1>n DEF Wrapped
<1>4. ASSUME NEW k \in 1 .. t - 1 PROVE Slot(Wrapped(c + 1) + k - 1) = Slot(c + (k + 1) - 1)
  BY <1>n DEF Slot, Wrapped
<1> QED
  BY <1>2, <1>3, <1>4

\* A message is stored.
LEMMA MessageGoesIn ==
  ASSUME MessagesInv, lost = {}, NEW s \in Senders, StoresMessage(s)
  PROVE  MessagesInv'
<1> USE MessagesAssumption DEF MessagesAssumption
<1> DEFINE p == sendTo[s]
           n == MAX_MESSAGE
<1>p. /\ MessagesTypeOK /\ RingsAgree /\ HandsAreFull /\ RoomForSenders /\ SomeReceiver \in Receivers
      /\ p \in Receivers
  BY SomeoneReceives DEF MessagesInv, MessagesTypeOK
<1>1. /\ sending[s] = "store" /\ sending' = [sending EXCEPT ![s] = "run"]
      /\ index' = [index EXCEPT ![s] = 0] /\ sendTo' = [sendTo EXCEPT ![s] = SomeReceiver]
      /\ mes' = IF targets[s] = {} THEN [mes EXCEPT ![s] = NoMessage] ELSE mes
      /\ mesq' = [mesq EXCEPT ![p][index[s]] = mes[s]]
      /\ mestotal' = [mestotal EXCEPT ![p] = @ + 1]
      /\ meshead' = [meshead EXCEPT ![p] = Wrapped(@ + 1)]
      /\ pending' = [pending EXCEPT ![p] = Append(@, mes[s])]
      /\ lost' = IF index[s] # meshead[p] \/ mestotal[p] >= n THEN {p} ELSE {}
      /\ stray' \in BOOLEAN /\ UNCHANGED <<curmes, listed, targets>>
  BY DEF StoresMessage, Moves, Forgets
<1> HIDE DEF p
<1>2. mes[s] \in Sent /\ index[s] \in 0 .. n - 1 /\ meshead[p] \in 0 .. n - 1 /\ mestotal[p] \in Nat
  BY <1>p, <1>1 DEF HandsAreFull, MessagesTypeOK
<1>3. /\ mestotal'[p] = mestotal[p] + 1 /\ pending'[p] = Append(pending[p], mes[s])
      /\ meshead'[p] = Wrapped(meshead[p] + 1) /\ mesq'[p] = [mesq[p] EXCEPT ![index[s]] = mes[s]]
      /\ \A q \in Receivers \ {p} : /\ mestotal'[q] = mestotal[q] /\ pending'[q] = pending[q]
                                    /\ meshead'[q] = meshead[q] /\ mesq'[q] = mesq[q]
  BY <1>p, <1>1 DEF MessagesTypeOK
<1>4. /\ pending[p] \in Seq(Sent) /\ Len(pending[p]) = mestotal[p]
      /\ Append(pending[p], mes[s]) \in Seq(Sent)
      /\ Len(Append(pending[p], mes[s])) = mestotal[p] + 1
      /\ Append(pending[p], mes[s])[mestotal[p] + 1] = mes[s]
      /\ \A k \in 1 .. mestotal[p] : Append(pending[p], mes[s])[k] = pending[p][k]
  <2>1. pending[p] \in Seq(Sent) /\ Len(pending[p]) = mestotal[p]
    BY <1>p DEF MessagesTypeOK, RingsAgree, Sent
  <2> QED
    BY <1>2, <2>1
<1>n. /\ curmes[p] \in 0 .. n - 1 /\ mestotal[p] <= n /\ mestotal[p] + 1 \in Nat
      /\ curmes[p] + mestotal[p] - meshead[p] \in {0, n, 2 * n}
  <2>1. curmes[p] \in 0 .. n - 1
    BY <1>p DEF MessagesTypeOK
  <2>2. mestotal[p] <= n /\ curmes[p] + mestotal[p] - meshead[p] \in {0, n, 2 * n}
    BY <1>p DEF RingsAgree
  <2>3. mestotal[p] + 1 \in Nat
    BY <1>2
  <2> QED
    BY <2>1, <2>2, <2>3
<1>m. mestotal[p] < n => \A j \in 1 .. mestotal[p] : /\ Slot(curmes[p] + j - 1) \in 0 .. n - 1
                                                     /\ Slot(curmes[p] + j - 1) # meshead[p]
  <2> SUFFICES ASSUME mestotal[p] < n, NEW j \in 1 .. mestotal[p]
               PROVE  Slot(curmes[p] + j - 1) \in 0 .. n - 1 /\ Slot(curmes[p] + j - 1) # meshead[p]
    OBVIOUS
  <2> QED
    BY <1>2, <1>n, OtherSlots
<1>5. MessagesTypeOK'
  <2>1. mesq' \in [Receivers -> [0 .. n - 1 -> Sent \cup {NoMessage}]]
    BY <1>p, <1>1, <1>2 DEF MessagesTypeOK, Sent
  <2>2. meshead' \in [Receivers -> 0 .. n - 1]
    <3>1. Wrapped(meshead[p] + 1) \in 0 .. n - 1
      BY <1>2, <1>n, StoreNumbers
    <3> QED
      BY <1>p, <1>1, <3>1 DEF MessagesTypeOK
  <2>3. mestotal' \in [Receivers -> Nat]
    <3>1. mestotal \in [Receivers -> Nat] /\ mestotal' = [mestotal EXCEPT ![p] = mestotal[p] + 1]
      BY <1>p, <1>1 DEF MessagesTypeOK
    <3> QED
      BY <1>p, <1>n, <3>1
  <2>4. pending' \in [Receivers -> Seq(Sent)]
    BY <1>p, <1>1, <1>4 DEF MessagesTypeOK, Sent
  <2>5. /\ sending' \in [Senders -> {"run", "test", "store", "take"}]
        /\ sendTo' \in [Senders -> Receivers] /\ index' \in [Senders -> 0 .. n - 1]
        /\ mes' \in [Senders -> Sent \cup {NoMessage}]
    <3>1. 0 \in 0 .. n - 1
      OBVIOUS
    <3> QED
      BY <1>p, <1>1, <3>1 DEF MessagesTypeOK, Sent
  <2>6. lost' \subseteq Receivers /\ stray' \in BOOLEAN /\ UNCHANGED <<curmes, listed, targets>>
    BY <1>p, <1>1
  <2> QED
    BY <1>p, <2>1, <2>2, <2>3, <2>4, <2>5, <2>6 DEF MessagesTypeOK, Sent
<1>6. RingsAgree'
  <2> SUFFICES ASSUME NEW q \in Receivers
               PROVE  /\ mestotal'[q] = Len(pending'[q])
                      /\ curmes'[q] + mestotal'[q] - meshead'[q] \in {0, n, 2 * n}
                      /\ q \notin lost' =>
                           /\ mestotal'[q] <= n
                           /\ \A k \in 1 .. mestotal'[q] :
                                mesq'[q][Slot(curmes'[q] + k - 1)] = pending'[q][k]
    BY DEF RingsAgree
  <2>1. CASE q # p
    BY <1>p, <1>1, <1>3, <2>1 DEF RingsAgree
  <2>2. CASE q = p
    <3>3. curmes[p] + (mestotal[p] + 1) - Wrapped(meshead[p] + 1) \in {0, n, 2 * n}
      BY <1>2, <1>n, StoreNumbers
    <3>4. ASSUME p \notin lost', NEW k \in 1 .. mestotal[p] + 1
          PROVE  mesq'[p][Slot(curmes[p] + k - 1)] = pending'[p][k]
      <4>1. index[s] = meshead[p] /\ mestotal[p] < n
        BY <1>1, <1>2, <3>4
      <4>2. meshead[p] = Slot(curmes[p] + mestotal[p])
        BY <1>2, <1>n, <4>1, StoreNumbers
      <4>3. mesq[p] \in [0 .. n - 1 -> Sent \cup {NoMessage}]
        BY <1>p DEF MessagesTypeOK, Sent
      <4>4. CASE k = mestotal[p] + 1
        <5>1. curmes[p] + k - 1 = curmes[p] + mestotal[p]
          BY <1>2, <1>n, <4>4
        <5>2. mesq'[p][meshead[p]] = mes[s]
          BY <1>2, <1>3, <4>1, <4>3
        <5>3. pending'[p][k] = mes[s]
          BY <1>3, <1>4, <4>4
        <5>4. Slot(curmes[p] + k - 1) = meshead[p]
          BY <4>2, <5>1
        <5> QED
          BY <5>2, <5>3, <5>4
      <4>5. CASE k \in 1 .. mestotal[p]
        <5>1. Slot(curmes[p] + k - 1) # meshead[p] /\ Slot(curmes[p] + k - 1) \in 0 .. n - 1
          <6>1. \A j \in 1 .. mestotal[p] : /\ Slot(curmes[p] + j - 1) \in 0 .. n - 1
                                            /\ Slot(curmes[p] + j - 1) # meshead[p]
            BY <1>m, <4>1
          <6> QED
            BY <4>5, <6>1
        <5>2. mesq'[p][Slot(curmes[p] + k - 1)] = mesq[p][Slot(curmes[p] + k - 1)]
          BY <1>3, <4>1, <4>3, <5>1
        <5>3. mesq[p][Slot(curmes[p] + k - 1)] = pending[p][k]
          BY <1>p, <4>5 DEF RingsAgree
        <5> QED
          BY <1>3, <1>4, <4>5, <5>2, <5>3
      <4> QED
        BY <1>2, <4>4, <4>5
    <3>5. ASSUME p \notin lost' PROVE mestotal[p] + 1 <= n
      <4>1. ~(mestotal[p] >= n)
        BY <1>1, <3>5
      <4> QED
        BY <1>2, <4>1
    <3>6. curmes'[p] = curmes[p] /\ mestotal'[p] = mestotal[p] + 1 /\ meshead'[p] = Wrapped(meshead[p] + 1)
      BY <1>1, <1>3
    <3>7. mestotal'[p] = Len(pending'[p])
      BY <1>3, <1>4
    <3>8. curmes'[p] + mestotal'[p] - meshead'[p] \in {0, n, 2 * n}
      BY <3>3, <3>6
    <3>9. p \notin lost' => mestotal'[p] <= n
      BY <3>5, <3>6
    <3>10. ASSUME p \notin lost', NEW k \in 1 .. mestotal'[p]
           PROVE  mesq'[p][Slot(curmes'[p] + k - 1)] = pending'[p][k]
      BY <3>4, <3>6, <3>10
    <3> QED
      BY <2>2, <3>7, <3>8, <3>9, <3>10
  <2> QED
    BY <2>1, <2>2
<1>7. HandsAreFull'
  <2>1. /\ sending'[s] = "run" /\ (targets[s] # {} => mes'[s] = mes[s])
        /\ \A q \in Senders \ {s} : /\ sending'[q] = sending[q] /\ mes'[q] = mes[q]
                                    /\ index'[q] = index[q]
    BY <1>p, <1>1 DEF MessagesTypeOK
  <2>2. \A q \in Receivers : mestotal[q] > 0 => mestotal'[q] > 0
    BY <1>2, <1>3
  <2> QED
    BY <1>p, <1>1, <2>1, <2>2 DEF HandsAreFull
<1>8. RoomForSenders'
  <2>1. /\ sending'[s] = "run"
        /\ \A q \in Senders \ {s} : sending'[q] = sending[q] /\ sendTo'[q] = sendTo[q]
    BY <1>p, <1>1 DEF MessagesTypeOK
  <2>2. /\ Storing(sending', sendTo', p) = Storing(sending, sendTo, p) \ {s}
        /\ s \in Storing(sending, sendTo, p)
    BY <1>1, <2>1 DEF Storing, p
  <2>3. \A q \in Receivers \ {p} : Storing(sending', sendTo', q) = Storing(sending, sendTo, q)
    BY <1>1, <2>1 DEF Storing, p
  <2>4. IsFiniteSet(Storing(sending, sendTo, p))
    BY FS_Subset DEF Storing
  <2>5. Cardinality(Storing(sending', sendTo', p)) = Cardinality(Storing(sending, sendTo, p)) - 1
    BY <2>2, <2>4, FS_RemoveElement
  <2>6. Cardinality(Storing(sending, sendTo, p)) \in Nat
    BY <2>4, FS_CardinalityType
  <2>7. mestotal'[p] + Cardinality(Storing(sending', sendTo', p))
          = mestotal[p] + Cardinality(Storing(sending, sendTo, p))
    <3> DEFINE c == Cardinality(Storing(sending, sendTo, p))
               d == Cardinality(Storing(sending', sendTo', p))
    <3>1. c \in Nat /\ d = c - 1 /\ mestotal[p] \in Nat /\ mestotal'[p] = mestotal[p] + 1
      BY <1>2, <1>3, <2>5, <2>6
    <3> HIDE DEF c, d
    <3>2. mestotal'[p] + d = mestotal[p] + c
      BY <3>1
    <3> QED
      BY <3>2 DEF c, d
  <2> QED
    BY <1>p, <1>3, <2>3, <2>7 DEF RoomForSenders
<1> QED
  BY <1>5, <1>6, <1>7, <1>8 DEF MessagesInv

\* A message is taken.
LEMMA MessageComesOut ==
  ASSUME MessagesInv, lost = {}, NEW p \in Receivers, TakesMessage(p)
  PROVE  MessagesInv'
<1> USE MessagesAssumption DEF MessagesAssumption
<1> DEFINE n == MAX_MESSAGE
<1>p. MessagesTypeOK /\ RingsAgree /\ HandsAreFull /\ RoomForSenders /\ SomeReceiver \in Receivers
  BY SomeoneReceives DEF MessagesInv
<1>1. /\ sending[p] = "take" /\ sending' = [sending EXCEPT ![p] = "run"]
      /\ index' = [index EXCEPT ![p] = 0] /\ sendTo' = [sendTo EXCEPT ![p] = SomeReceiver]
      /\ mes' = IF targets[p] = {} THEN [mes EXCEPT ![p] = NoMessage] ELSE mes
      /\ mestotal' = [mestotal EXCEPT ![p] = IF @ - 1 < 0 THEN 0 ELSE @ - 1]
      /\ curmes' = [curmes EXCEPT ![p] = Wrapped(@ + 1)]
      /\ pending' = [pending EXCEPT ![p] = Tail(@)]
      /\ lost' \subseteq {p} /\ UNCHANGED <<mesq, meshead, listed, targets, stray>>
  <2>1. \A x : (IF x THEN lost \cup {p} ELSE lost) \subseteq {p}
    OBVIOUS
  <2> QED
    BY <2>1 DEF TakesMessage, Moves, Forgets
<1>2. /\ mestotal[p] \in Nat \ {0} /\ mestotal[p] <= n /\ curmes[p] \in 0 .. n - 1
      /\ meshead[p] \in 0 .. n - 1 /\ pending[p] \in Seq(Sent) /\ Len(pending[p]) = mestotal[p]
  <2>1. p \in Senders
    OBVIOUS
  <2>2. curmes[p] \in 0 .. n - 1 /\ meshead[p] \in 0 .. n - 1 /\ mestotal[p] \in Nat
    BY <1>p DEF MessagesTypeOK
  <2>3. mestotal[p] > 0
    BY <1>p, <1>1, <2>1 DEF HandsAreFull
  <2>4. mestotal[p] <= n /\ Len(pending[p]) = mestotal[p]
    BY <1>p DEF RingsAgree
  <2>5. pending[p] \in Seq(Sent)
    BY <1>p DEF MessagesTypeOK, Sent
  <2> QED
    BY <2>2, <2>3, <2>4, <2>5
<1>n. curmes[p] + mestotal[p] - meshead[p] \in {0, n, 2 * n}
  BY <1>p DEF RingsAgree
<1>3. /\ mestotal'[p] = mestotal[p] - 1 /\ pending'[p] = Tail(pending[p])
      /\ curmes'[p] = Wrapped(curmes[p] + 1)
      /\ \A q \in Receivers \ {p} : /\ mestotal'[q] = mestotal[q] /\ pending'[q] = pending[q]
                                    /\ curmes'[q] = curmes[q]
  BY <1>p, <1>1, <1>2 DEF MessagesTypeOK
<1>4. /\ Tail(pending[p]) \in Seq(Sent) /\ Len(Tail(pending[p])) = mestotal[p] - 1
      /\ \A k \in 1 .. mestotal[p] - 1 : Tail(pending[p])[k] = pending[p][k + 1]
  <2>1. pending[p] # <<>>
    BY <1>2
  <2> QED
    BY <1>2, <2>1
<1>5. MessagesTypeOK'
  <2>1. curmes' \in [Receivers -> 0 .. n - 1]
    <3>1. Wrapped(curmes[p] + 1) \in 0 .. n - 1
      BY <1>2, <1>n, TakeNumbers
    <3> QED
      BY <1>p, <1>1, <3>1 DEF MessagesTypeOK
  <2>2. mestotal' \in [Receivers -> Nat]
    <3>1. (IF mestotal[p] - 1 < 0 THEN 0 ELSE mestotal[p] - 1) \in Nat
      BY <1>2
    <3> QED
      BY <1>p, <1>1, <3>1 DEF MessagesTypeOK
  <2>3. pending' \in [Receivers -> Seq(Sent)]
    BY <1>p, <1>1, <1>4 DEF MessagesTypeOK, Sent
  <2>4. /\ sending' \in [Senders -> {"run", "test", "store", "take"}]
        /\ sendTo' \in [Senders -> Receivers] /\ index' \in [Senders -> 0 .. n - 1]
        /\ mes' \in [Senders -> Sent \cup {NoMessage}]
    <3>1. 0 \in 0 .. n - 1
      OBVIOUS
    <3> QED
      BY <1>p, <1>1, <3>1 DEF MessagesTypeOK, Sent
  <2> QED
    <3>1. mesq' = mesq /\ meshead' = meshead /\ listed' = listed /\ targets' = targets /\ stray' = stray
      BY <1>1
    <3>2. lost' \subseteq Receivers
      BY <1>1
    <3> QED
      BY <1>p, <2>1, <2>2, <2>3, <2>4, <3>1, <3>2 DEF MessagesTypeOK, Sent
<1>6. RingsAgree'
  <2> SUFFICES ASSUME NEW q \in Receivers
               PROVE  /\ mestotal'[q] = Len(pending'[q])
                      /\ curmes'[q] + mestotal'[q] - meshead'[q] \in {0, n, 2 * n}
                      /\ mestotal'[q] <= n
                      /\ \A k \in 1 .. mestotal'[q] :
                           mesq'[q][Slot(curmes'[q] + k - 1)] = pending'[q][k]
    BY DEF RingsAgree
  <2>1. CASE q # p
    BY <1>p, <1>1, <1>3, <2>1 DEF RingsAgree
  <2>2. CASE q = p
    <3>1. Wrapped(curmes[p] + 1) + (mestotal[p] - 1) - meshead[p] \in {0, n, 2 * n}
      BY <1>2, <1>n, TakeNumbers
    <3>2. ASSUME NEW k \in 1 .. mestotal[p] - 1
          PROVE  mesq[p][Slot(Wrapped(curmes[p] + 1) + k - 1)] = Tail(pending[p])[k]
      <4>1. Slot(Wrapped(curmes[p] + 1) + k - 1) = Slot(curmes[p] + (k + 1) - 1)
        BY <1>2, <1>n, TakeNumbers
      <4>2. k + 1 \in 1 .. mestotal[p]
        BY <1>2
      <4>3. mesq[p][Slot(curmes[p] + (k + 1) - 1)] = pending[p][k + 1]
        BY <1>p, <4>2 DEF RingsAgree
      <4> QED
        BY <1>4, <4>1, <4>3
    <3>3. /\ curmes'[p] = Wrapped(curmes[p] + 1) /\ mestotal'[p] = mestotal[p] - 1
          /\ meshead'[p] = meshead[p] /\ mesq'[p] = mesq[p] /\ pending'[p] = Tail(pending[p])
      BY <1>1, <1>3
    <3>4. mestotal'[p] = Len(pending'[p])
      BY <1>4, <3>3
    <3>5. curmes'[p] + mestotal'[p] - meshead'[p] \in {0, n, 2 * n}
      BY <3>1, <3>3
    <3>6. mestotal'[p] <= n
      BY <1>2, <3>3
    <3>7. ASSUME NEW k \in 1 .. mestotal'[p]
          PROVE  mesq'[p][Slot(curmes'[p] + k - 1)] = pending'[p][k]
      BY <3>2, <3>3
    <3> QED
      BY <2>2, <3>4, <3>5, <3>6, <3>7
  <2> QED
    BY <2>1, <2>2
<1>7. HandsAreFull'
  <2>1. /\ sending'[p] = "run" /\ (targets[p] # {} => mes'[p] = mes[p])
        /\ \A q \in Senders \ {p} : /\ sending'[q] = sending[q] /\ mes'[q] = mes[q]
                                    /\ index'[q] = index[q]
    BY <1>p, <1>1 DEF MessagesTypeOK
  <2> QED
    BY <1>p, <1>1, <1>3, <2>1 DEF HandsAreFull
<1>8. RoomForSenders'
  <2>1. \A q \in Receivers : Storing(sending', sendTo', q) \subseteq Storing(sending, sendTo, q)
    <3>1. /\ sending'[p] = "run"
          /\ \A q \in Senders \ {p} : sending'[q] = sending[q] /\ sendTo'[q] = sendTo[q]
      BY <1>p, <1>1 DEF MessagesTypeOK
    <3> QED
      BY <3>1 DEF Storing
  <2>2. mestotal' \in [Receivers -> Nat] /\ \A q \in Receivers : mestotal'[q] <= mestotal[q]
    <3>1. mestotal' \in [Receivers -> Nat]
      BY <1>5 DEF MessagesTypeOK
    <3>2. \A q \in Receivers : mestotal[q] \in Nat
      BY <1>p DEF MessagesTypeOK
    <3> QED
      BY <1>2, <1>3, <3>1, <3>2
  <2> QED
    BY <1>p, <2>1, <2>2, RoomKept
<1> QED
  BY <1>5, <1>6, <1>7, <1>8 DEF MessagesInv

\* Every step of the messages keeps their invariant.
LEMMA MessagesKeep == MessagesInv /\ [MessagesNext]_messageVars => MessagesInv'
<1> USE MessagesAssumption DEF MessagesAssumption
<1> SUFFICES ASSUME MessagesInv, [MessagesNext]_messageVars PROVE MessagesInv'
  OBVIOUS
<1>p. /\ MessagesTypeOK /\ RingsAgree /\ HandsAreFull /\ RoomForSenders
      /\ SomeReceiver \in Receivers /\ Receivers \subseteq Senders /\ 0 \in 0 .. MAX_MESSAGE - 1
  BY SomeoneReceives DEF MessagesInv
<1>t. /\ sending \in [Senders -> {"run", "test", "store", "take"}]
      /\ sendTo \in [Senders -> Receivers] /\ index \in [Senders -> 0 .. MAX_MESSAGE - 1]
      /\ mes \in [Senders -> Sent \cup {NoMessage}] /\ targets \in [Senders -> SUBSET Receivers]
      /\ listed \subseteq Receivers
  BY <1>p DEF MessagesTypeOK, Sent
<1>1. ASSUME NEW s \in Senders, NEW m \in MessageKinds, NEW p \in Receivers, sendmessage(s, p, m)
      PROVE  MessagesInv'
  <2>1. /\ UNCHANGED <<queueVars, pending, lost, stray>> /\ listed' = listed
        /\ sending' = [sending EXCEPT ![s] = "test"] /\ sendTo' = [sendTo EXCEPT ![s] = p]
        /\ mes' = [mes EXCEPT ![s] = <<s, m>>] /\ index' = index /\ targets' = targets
    BY <1>1 DEF sendmessage, Moves
  <2>2. <<s, m>> \in Sent
    BY DEF Sent
  <2> QED
    BY <1>t, <2>1, <2>2, RingsStay
<1>2. ASSUME NEW s \in Senders, NEW m \in MessageKinds, broadcastmessage(s, m)
      PROVE  MessagesInv'
  <2>1. /\ UNCHANGED <<queueVars, pending, lost, stray>> /\ listed' = listed
        /\ sending' = [sending EXCEPT ![s] = "run"] /\ sendTo' = sendTo
        /\ mes' = [mes EXCEPT ![s] = <<s, m>>] /\ index' = index
        /\ targets' = [targets EXCEPT ![s] = listed]
    BY <1>2 DEF broadcastmessage, Moves
  <2>2. <<s, m>> \in Sent
    BY DEF Sent
  <2> QED
    BY <1>t, <2>1, <2>2, RingsStay
<1>3. ASSUME NEW s \in Senders, NEW p \in Receivers, BroadcastsTo(s, p)
      PROVE  MessagesInv'
  <2>1. /\ UNCHANGED <<queueVars, pending, lost, stray>> /\ listed' = listed
        /\ sending' = [sending EXCEPT ![s] = "test"] /\ sendTo' = [sendTo EXCEPT ![s] = p]
        /\ mes' = mes /\ index' = index /\ targets' = [targets EXCEPT ![s] = @ \ {p}]
        /\ p \in targets[s]
    BY <1>3 DEF BroadcastsTo, Moves
  <2>2. mes[s] \in Sent
    BY <1>p, <2>1 DEF HandsAreFull
  <2> QED
    BY <1>t, <2>1, <2>2, RingsStay
<1>4. ASSUME NEW s \in Senders, sendmessageEX(s) PROVE MessagesInv'
  <2> DEFINE p == sendTo[s]
  <2>0. /\ sending[s] = "test" /\ mes[s] \in Sent
        /\ UNCHANGED <<queueVars, listed, targets, pending, lost, stray>>
    BY <1>p, <1>4 DEF sendmessageEX, Moves, HandsAreFull
  <2>1. CASE p \notin listed \/ Full(p)
    <3>1. /\ sending' = [sending EXCEPT ![s] = "run"] /\ sendTo' = [sendTo EXCEPT ![s] = SomeReceiver]
          /\ index' = [index EXCEPT ![s] = 0]
          /\ mes' = IF targets[s] = {} THEN [mes EXCEPT ![s] = NoMessage] ELSE mes
      BY <1>4, <2>1 DEF sendmessageEX, Moves, Forgets
    <3>2. mes' \in [Senders -> Sent \cup {NoMessage}] /\ \A q \in Senders \ {s} : mes'[q] = mes[q]
      BY <1>t, <3>1
    <3>3. targets[s] # {} => mes'[s] \in Sent
      BY <2>0, <3>1
    <3> QED
      BY <1>p, <1>t, <2>0, <3>1, <3>2, <3>3, RingsStay
  <2>2. CASE ~(p \notin listed \/ Full(p))
    <3>1. /\ sending' = [sending EXCEPT ![s] = "store"] /\ sendTo' = sendTo /\ mes' = mes
          /\ index' = [index EXCEPT ![s] = meshead[p]]
      BY <1>4, <2>2 DEF sendmessageEX, Moves
    <3>2. meshead[p] \in 0 .. MAX_MESSAGE - 1 /\ p \in Receivers
      BY <1>p, <1>t DEF MessagesTypeOK
    <3>3. RoomForSenders'
      <4> SUFFICES ASSUME NEW q \in Receivers
                   PROVE  mestotal'[q] + Cardinality(Storing(sending', sendTo', q))
                            <= MAX_MESSAGE - 2 + Cardinality(Senders)
        BY DEF RoomForSenders
      <4>1. mestotal' = mestotal /\ mestotal[q] \in Nat
        BY <1>p, <2>0 DEF queueVars, MessagesTypeOK
      <4>2. CASE q # p
        <5>1. Storing(sending', sendTo', q) = Storing(sending, sendTo, q)
          BY <1>t, <3>1, <4>2 DEF Storing
        <5> QED
          BY <1>p, <4>1, <5>1 DEF RoomForSenders
      <4>3. CASE q = p
        <5>1. mestotal[q] <= MAX_MESSAGE - 2
          BY <2>2, <4>1, <4>3 DEF Full
        <5>2. Storing(sending', sendTo', q) \subseteq Senders
          BY DEF Storing
        <5>3. /\ Cardinality(Storing(sending', sendTo', q)) <= Cardinality(Senders)
              /\ IsFiniteSet(Storing(sending', sendTo', q))
          BY <5>2, FS_Subset
        <5>4. Cardinality(Storing(sending', sendTo', q)) \in Nat /\ Cardinality(Senders) \in Nat
          BY <5>3, FS_CardinalityType
        <5> QED
          BY <4>1, <5>1, <5>3, <5>4
      <4> QED
        BY <4>2, <4>3
    <3> QED
      BY <1>t, <2>0, <3>1, <3>2, <3>3, RingsStay
  <2> QED
    BY <2>1, <2>2
<1>5. ASSUME NEW s \in Senders, StoresMessage(s) PROVE MessagesInv'
  BY <1>5, MessageGoesIn DEF StoresMessage, Moves
<1>6. ASSUME NEW p \in Receivers, getmessage(p) PROVE MessagesInv'
  <2>1. /\ UNCHANGED <<queueVars, pending, lost, stray>> /\ listed' = listed
        /\ sending' = [sending EXCEPT ![p] = "take"] /\ sendTo' = sendTo /\ mes' = mes
        /\ index' = [index EXCEPT ![p] = curmes[p]] /\ targets' = targets
        /\ mestotal[p] > 0 /\ targets[p] = {}
    BY <1>6 DEF getmessage, Moves
  <2>2. curmes[p] \in 0 .. MAX_MESSAGE - 1 /\ p \in Senders
    BY <1>p DEF MessagesTypeOK
  <2> QED
    BY <1>t, <2>1, <2>2, RingsStay
<1>7. ASSUME NEW p \in Receivers, TakesMessage(p) PROVE MessagesInv'
  BY <1>7, MessageComesOut DEF TakesMessage, Moves
<1>8. ASSUME NEW p \in Receivers, ReceiverEnds(p) PROVE MessagesInv'
  <2>1. UNCHANGED <<queueVars, senderVars, pending, lost, stray>> /\ listed' \subseteq listed
    BY <1>8 DEF ReceiverEnds
  <2>2. /\ MessagesTypeOK' /\ RingsAgree' /\ HandsAreFull'
    BY <1>p, <2>1 DEF MessagesTypeOK, RingsAgree, HandsAreFull, queueVars, senderVars
  <2>3. RoomForSenders'
    BY <1>p, <2>1 DEF RoomForSenders, queueVars, senderVars
  <2> QED
    BY <2>2, <2>3 DEF MessagesInv
<1>9. CASE UNCHANGED messageVars
  <2>1. MessagesTypeOK' /\ RingsAgree' /\ HandsAreFull'
    BY <1>p, <1>9 DEF MessagesTypeOK, RingsAgree, HandsAreFull, messageVars, queueVars, senderVars
  <2>2. RoomForSenders'
    BY <1>p, <1>9 DEF RoomForSenders, messageVars, queueVars, senderVars
  <2> QED
    BY <2>1, <2>2 DEF MessagesInv
<1> QED
  BY <1>1, <1>2, <1>3, <1>4, <1>5, <1>6, <1>7, <1>8, <1>9 DEF MessagesNext, MessagesStop

\* For any number of processes and senders, any size of the ring and any messages: head,
\* tail and count agree with what was sent and not taken, the ring takes at most one
\* message too many for each sender, and as long as no two senders were between the test
\* and the store of one ring a process is given its messages, each once and in their order.
THEOREM OrderedMessages == MessagesSpec => []MessagesAreInOrder
<1> USE MessagesAssumption DEF MessagesAssumption
<1>1. ASSUME MessagesInit PROVE MessagesInv
  <2> USE <1>1 DEF MessagesInit
  <2>1. MessagesTypeOK
    <3>1. mesq \in [Receivers -> [0 .. MAX_MESSAGE - 1 -> Sent \cup {NoMessage}]]
      OBVIOUS
    <3>2. 0 \in 0 .. MAX_MESSAGE - 1 /\ 0 \in Nat /\ <<>> \in Seq(Sent)
      OBVIOUS
    <3>3. /\ meshead \in [Receivers -> 0 .. MAX_MESSAGE - 1] /\ curmes \in [Receivers -> 0 .. MAX_MESSAGE - 1]
          /\ mestotal \in [Receivers -> Nat] /\ pending \in [Receivers -> Seq(Sent)]
          /\ index \in [Senders -> 0 .. MAX_MESSAGE - 1]
      BY <3>2
    <3>4. /\ listed \subseteq Receivers /\ targets \in [Senders -> SUBSET Receivers]
          /\ sending \in [Senders -> {"run", "test", "store", "take"}]
          /\ sendTo \in [Senders -> Receivers] /\ mes \in [Senders -> Sent \cup {NoMessage}]
          /\ lost \subseteq Receivers /\ stray \in BOOLEAN
      BY SomeoneReceives
    <3> QED
      BY <3>1, <3>3, <3>4 DEF MessagesTypeOK, Sent
  <2>2. RingsAgree
    BY DEF RingsAgree
  <2>3. HandsAreFull
    BY DEF HandsAreFull
  <2>4. RoomForSenders
    <3> SUFFICES ASSUME NEW p \in Receivers
                 PROVE  mestotal[p] + Cardinality(Storing(sending, sendTo, p))
                          <= MAX_MESSAGE - 2 + Cardinality(Senders)
      BY DEF RoomForSenders
    <3>1. Storing(sending, sendTo, p) = {} /\ mestotal[p] = 0
      BY DEF Storing
    <3>2. Cardinality(Storing(sending, sendTo, p)) = 0 /\ Cardinality(Senders) \in Nat
      BY <3>1, FS_EmptySet, FS_CardinalityType
    <3>3. MAX_MESSAGE - 2 >= 0
      OBVIOUS
    <3> QED
      BY <3>1, <3>2, <3>3
  <2> QED
    BY <2>1, <2>2, <2>3, <2>4 DEF MessagesInv
<1>2. ASSUME MessagesInv PROVE MessagesAreInOrder
  <2>0. MessagesTypeOK /\ RingsAgree /\ RoomForSenders
    BY <1>2 DEF MessagesInv
  <2>1. RingsAreWhole
    <3> SUFFICES ASSUME NEW p \in Receivers
                 PROVE  /\ mestotal[p] = Len(pending[p])
                        /\ (curmes[p] + mestotal[p] - meshead[p]) % MAX_MESSAGE = 0
      BY DEF RingsAreWhole
    <3>1. /\ mestotal[p] = Len(pending[p])
          /\ curmes[p] + mestotal[p] - meshead[p] \in {0, MAX_MESSAGE, 2 * MAX_MESSAGE}
      BY <2>0 DEF RingsAgree
    <3>2. \A i \in {0, MAX_MESSAGE, 2 * MAX_MESSAGE} : i % MAX_MESSAGE = 0
      BY RingNumbers
    <3> QED
      BY <3>1, <3>2
  <2>2. RingsAreBounded
    BY <2>0 DEF RoomForSenders, RingsAreBounded, Storing
  <2>3. RingsAreQueues
    <3> SUFFICES ASSUME NEW p \in Receivers \ lost, NEW k \in 1 .. Len(pending[p])
                 PROVE  mesq[p][(curmes[p] + k - 1) % MAX_MESSAGE] = pending[p][k]
      BY DEF RingsAreQueues
    <3>1. /\ mestotal[p] = Len(pending[p]) /\ mestotal[p] <= MAX_MESSAGE
          /\ \A j \in 1 .. mestotal[p] : mesq[p][Slot(curmes[p] + j - 1)] = pending[p][j]
      BY <2>0 DEF RingsAgree
    <3>2. mestotal[p] \in Nat /\ curmes[p] \in 0 .. MAX_MESSAGE - 1
      BY <2>0 DEF MessagesTypeOK
    <3>3. curmes[p] + k - 1 \in 0 .. 2 * MAX_MESSAGE - 1
      BY <3>1, <3>2
    <3>4. (curmes[p] + k - 1) % MAX_MESSAGE = Slot(curmes[p] + k - 1)
      BY <3>3, RingNumbers
    <3> QED
      BY <3>1, <3>4
  <2> QED
    BY <2>0, <2>1, <2>2, <2>3 DEF MessagesAreInOrder
<1> QED
  BY <1>1, <1>2, MessagesKeep, PTL DEF MessagesSpec

------------------------------------------------------------------------------
\* Page frames.

\* Every frame is in one place: free, with one holder, or in the kernel's heap.
SharedOut(free, held, heap) ==
  /\ \A g, h \in Holders : held[g] \in Frames /\ held[g] = held[h] => g = h
  /\ \A h \in Holders : held[h] \notin free \cup heap
  /\ free \cap heap = {} /\ free \cup heap \subseteq Frames
  /\ \A f \in Frames : f \in free \cup heap \/ \E h \in Holders : held[h] = f

\* The frame that each holder has.
HeldNow == [h \in Holders |-> Held(h)]

\* What the loader and each program have at each step.
LoaderIsAt ==
  /\ \A p \in Programs :
       /\ space[p] = "loads" <=> loader # "idle" /\ loading = p
       /\ space[p] \in {"none", "freed"} => maps[p] = Unmapped
       /\ space[p] = "none" => pagedir[p] = NoFrame
       /\ space[p] = "lives" => pagedir[p] \in Frames
  /\ loader # "idle" => loading \in Programs
  /\ loader = "pop" => pagedir[loading] = NoFrame /\ top \in Frames
  /\ loader \notin {"idle", "pop"} => pagedir[loading] \in Frames
  /\ loader \in {"pop", "turn", "clear", "commit"} => maps[loading] = Unmapped
  /\ loader \in {"again", "reserve"} => maps[loading][Reserved] = NoFrame
  /\ loader \in {"again", "reserve", "create"} => kernelTable \in Frames /\ maps[loading]["aux"] = NoFrame
  /\ loader \notin {"again", "reserve", "create"} => kernelTable = NoFrame

\* What holds while the model is Calm.
FrameParts ==
  /\ FrameTypeOK /\ LoaderIsAt /\ IsInjective(stackbase)
  /\ SharedOut(ToSet(stackbase), HeldNow, kernelHeap)

\* The invariant of the frames.
FrameInv == Calm => FrameParts

\* A free frame is given to a holder who had none.
LEMMA GiveFrame ==
  ASSUME NEW free, NEW held, NEW heap, SharedOut(free, held, heap),
         NEW h \in Holders, held[h] \notin Frames, NEW then, then[h] \in free,
         \A g \in Holders \ {h} : then[g] = held[g]
  PROVE  SharedOut(free \ {then[h]}, then, heap)
<1>1. \A g, k \in Holders : then[g] \in Frames /\ then[g] = then[k] => g = k
  BY DEF SharedOut
<1>2. \A g \in Holders : then[g] \notin (free \ {then[h]}) \cup heap
  BY DEF SharedOut
<1>3. \A f \in Frames : f \in (free \ {then[h]}) \cup heap \/ \E g \in Holders : then[g] = f
  <2> SUFFICES ASSUME NEW f \in Frames, f \notin (free \ {then[h]}) \cup heap
               PROVE  \E g \in Holders : then[g] = f
    OBVIOUS
  <2>1. CASE f = then[h]
    BY <2>1
  <2>2. CASE f # then[h]
    <3>1. PICK g \in Holders : held[g] = f
      BY <2>2 DEF SharedOut
    <3> QED
      BY <3>1
  <2> QED
    BY <2>1, <2>2
<1> QED
  BY <1>1, <1>2, <1>3 DEF SharedOut

\* A free frame goes to the kernel's heap.
LEMMA GiveHeap ==
  ASSUME NEW free, NEW held, NEW heap, SharedOut(free, held, heap), NEW f \in free
  PROVE  SharedOut(free \ {f}, held, heap \cup {f})
  BY DEF SharedOut

\* A holder gives its frame back.
LEMMA TakeFrame ==
  ASSUME NEW free, NEW held, NEW heap, SharedOut(free, held, heap),
         NEW h \in Holders, held[h] \in Frames, NEW then, then[h] \notin Frames,
         \A g \in Holders \ {h} : then[g] = held[g]
  PROVE  SharedOut(free \cup {held[h]}, then, heap) /\ held[h] \notin free
<1>0. held[h] \notin free \cup heap
  BY DEF SharedOut
<1>1. \A g, k \in Holders : then[g] \in Frames /\ then[g] = then[k] => g = k
  BY DEF SharedOut
<1>2. \A g \in Holders : then[g] \notin (free \cup {held[h]}) \cup heap
  BY DEF SharedOut
<1>3. \A f \in Frames : f \in (free \cup {held[h]}) \cup heap \/ \E g \in Holders : then[g] = f
  <2> SUFFICES ASSUME NEW f \in Frames, f \notin (free \cup {held[h]}) \cup heap
               PROVE  \E g \in Holders : then[g] = f
    OBVIOUS
  <2>1. PICK g \in Holders : held[g] = f
    BY DEF SharedOut
  <2> QED
    BY <2>1
<1> QED
  BY <1>0, <1>1, <1>2, <1>3 DEF SharedOut

\* Who holds no frame, before and after, does not matter.
LEMMA KeepFrame ==
  ASSUME NEW free, NEW held, NEW heap, SharedOut(free, held, heap),
         NEW h \in Holders, held[h] \notin Frames, NEW then, then[h] \notin Frames,
         \A g \in Holders \ {h} : then[g] = held[g]
  PROVE  SharedOut(free, then, heap)
<1>1. \A g, k \in Holders : then[g] \in Frames /\ then[g] = then[k] => g = k
  BY DEF SharedOut
<1>2. \A g \in Holders : then[g] \notin free \cup heap
  BY DEF SharedOut
<1>3. \A f \in Frames : f \in free \cup heap \/ \E g \in Holders : then[g] = f
  <2> SUFFICES ASSUME NEW f \in Frames, f \notin free \cup heap
               PROVE  \E g \in Holders : then[g] = f
    OBVIOUS
  <2>1. PICK g \in Holders : held[g] = f
    BY DEF SharedOut
  <2> QED
    BY <2>1
<1> QED
  BY <1>1, <1>2, <1>3 DEF SharedOut

\* What is held decides, not how it is written.
LEMMA SameHeld ==
  ASSUME NEW free, NEW held, NEW heap, SharedOut(free, held, heap),
         NEW then, \A g \in Holders : then[g] = held[g]
  PROVE  SharedOut(free, then, heap)
  BY DEF SharedOut

\* What is left of a stack under its topmost frames.
LEMMA StackUnder ==
  ASSUME NEW s \in Seq(Frames), IsInjective(s), NEW m \in 0 .. Len(s)
  PROVE  /\ SubSeq(s, 1, m) \in Seq(Frames) /\ IsInjective(SubSeq(s, 1, m))
         /\ Len(SubSeq(s, 1, m)) = m
         /\ ToSet(SubSeq(s, 1, m)) = {s[i] : i \in 1 .. m}
         /\ \A i \in m + 1 .. Len(s) : s[i] \in ToSet(s) /\ s[i] \notin {s[j] : j \in 1 .. m}
<1> DEFINE t == SubSeq(s, 1, m)
<1>1. t \in Seq(Frames) /\ Len(t) = m /\ \A i \in 1 .. m : t[i] = s[i]
  OBVIOUS
<1>2. DOMAIN t = 1 .. m /\ DOMAIN s = 1 .. Len(s) /\ Len(s) \in Nat
  BY <1>1
<1> HIDE DEF t
<1>3. IsInjective(t)
  BY <1>1, <1>2 DEF IsInjective
<1>4. ToSet(t) = {s[i] : i \in 1 .. m}
  BY <1>1, <1>2 DEF ToSet
<1>5. ASSUME NEW i \in m + 1 .. Len(s)
      PROVE  s[i] \in ToSet(s) /\ s[i] \notin {s[j] : j \in 1 .. m}
  <2>1. i \in 1 .. Len(s)
    OBVIOUS
  <2>2. ASSUME NEW j \in 1 .. m PROVE s[i] # s[j]
    BY <1>2, <2>1 DEF IsInjective
  <2> QED
    BY <1>2, <2>1, <2>2 DEF ToSet
<1> QED
  BY <1>1, <1>3, <1>4, <1>5 DEF t

\* The numbers up to n without the three last.
LEMMA ThreeLess ==
  ASSUME NEW n \in Nat, n >= 3
  PROVE  /\ n \in 1 .. n /\ n - 1 \in 1 .. n /\ n - 2 \in 1 .. n
         /\ n # n - 1 /\ n # n - 2 /\ n - 1 # n - 2
         /\ \A i \in 1 .. n : i \in 1 .. n - 3 \/ i = n \/ i = n - 1 \/ i = n - 2
         /\ \A i \in 1 .. n - 3 : i \in 1 .. n /\ i # n /\ i # n - 1 /\ i # n - 2
  OBVIOUS

\* One frame less, and three.
LEMMA StackPops ==
  ASSUME NEW s \in Seq(Frames), IsInjective(s)
  PROVE  /\ Len(s) >= 1 =>
              /\ s[Len(s)] \in ToSet(s)
              /\ ToSet(SubSeq(s, 1, Len(s) - 1)) = ToSet(s) \ {s[Len(s)]}
         /\ Len(s) >= 3 =>
              /\ s[Len(s)] \in ToSet(s) /\ s[Len(s) - 1] \in ToSet(s) \ {s[Len(s)]}
              /\ s[Len(s) - 2] \in (ToSet(s) \ {s[Len(s)]}) \ {s[Len(s) - 1]}
              /\ ToSet(SubSeq(s, 1, Len(s) - 3))
                   = ((ToSet(s) \ {s[Len(s)]}) \ {s[Len(s) - 1]}) \ {s[Len(s) - 2]}
<1>0. DOMAIN s = 1 .. Len(s) /\ Len(s) \in Nat
  OBVIOUS
<1>1. ASSUME Len(s) >= 1
      PROVE  /\ s[Len(s)] \in ToSet(s)
             /\ ToSet(SubSeq(s, 1, Len(s) - 1)) = ToSet(s) \ {s[Len(s)]}
  <2>1. Len(s) - 1 \in 0 .. Len(s)
    BY <1>0, <1>1
  <2>2. ToSet(SubSeq(s, 1, Len(s) - 1)) = {s[i] : i \in 1 .. Len(s) - 1}
    BY <2>1, StackUnder
  <2>3. \A i, j \in 1 .. Len(s) : s[i] = s[j] => i = j
    BY <1>0 DEF IsInjective
  <2>4. ToSet(s) = {s[i] : i \in 1 .. Len(s)}
    BY <1>0 DEF ToSet
  <2>5. Len(s) \in 1 .. Len(s) /\ 1 .. Len(s) - 1 = (1 .. Len(s)) \ {Len(s)}
    BY <1>0, <1>1
  <2> QED
    BY <2>2, <2>3, <2>4, <2>5
<1>2. ASSUME Len(s) >= 3
      PROVE  /\ s[Len(s)] \in ToSet(s) /\ s[Len(s) - 1] \in ToSet(s) \ {s[Len(s)]}
             /\ s[Len(s) - 2] \in (ToSet(s) \ {s[Len(s)]}) \ {s[Len(s) - 1]}
             /\ ToSet(SubSeq(s, 1, Len(s) - 3))
                  = ((ToSet(s) \ {s[Len(s)]}) \ {s[Len(s) - 1]}) \ {s[Len(s) - 2]}
  <2>1. Len(s) - 3 \in 0 .. Len(s)
    BY <1>0, <1>2
  <2>2. ToSet(SubSeq(s, 1, Len(s) - 3)) = {s[i] : i \in 1 .. Len(s) - 3}
    BY <2>1, StackUnder
  <2>3. \A i, j \in 1 .. Len(s) : s[i] = s[j] => i = j
    BY <1>0 DEF IsInjective
  <2>4. ToSet(s) = {s[i] : i \in 1 .. Len(s)}
    BY <1>0 DEF ToSet
  <2> DEFINE a == Len(s)
             b == Len(s) - 1
             c == Len(s) - 2
             r == 1 .. Len(s) - 3
             d == 1 .. Len(s)
  <2>8. /\ a \in d /\ b \in d /\ c \in d /\ a # b /\ a # c /\ b # c
        /\ \A i \in d : i \in r \/ i = a \/ i = b \/ i = c
        /\ \A i \in r : i \in d /\ i # a /\ i # b /\ i # c
    BY <1>0, <1>2, ThreeLess
  <2>9. /\ ToSet(SubSeq(s, 1, Len(s) - 3)) = {s[i] : i \in r}
        /\ ToSet(s) = {s[i] : i \in d} /\ \A i, j \in d : s[i] = s[j] => i = j
    BY <2>2, <2>3, <2>4
  <2> HIDE DEF a, b, c, d, r
  <2>10. s[a] \in ToSet(s) /\ s[b] \in ToSet(s) \ {s[a]} /\ s[c] \in (ToSet(s) \ {s[a]}) \ {s[b]}
    BY <2>8, <2>9
  <2>11. {s[i] : i \in r} = ((ToSet(s) \ {s[a]}) \ {s[b]}) \ {s[c]}
    <3>1. ASSUME NEW i \in r PROVE s[i] \in ((ToSet(s) \ {s[a]}) \ {s[b]}) \ {s[c]}
      BY <2>8, <2>9
    <3>2. ASSUME NEW f \in ((ToSet(s) \ {s[a]}) \ {s[b]}) \ {s[c]} PROVE f \in {s[i] : i \in r}
      <4>1. PICK i \in d : s[i] = f
        BY <2>9
      <4>2. i \in r
        <5>1. f # s[a] /\ f # s[b] /\ f # s[c]
          BY <3>2
        <5>2. i # a /\ i # b /\ i # c
          BY <4>1, <5>1
        <5> QED
          BY <2>8, <4>1, <5>2
      <4> QED
        BY <4>1, <4>2
    <3> QED
      BY <3>1, <3>2
  <2> QED
    BY <2>9, <2>10, <2>11 DEF a, b, c
<1> QED
  BY <1>1, <1>2

\* A frame is put on the stack.
LEMMA StackPushes ==
  ASSUME NEW s \in Seq(Frames), IsInjective(s), NEW f \in Frames, f \notin ToSet(s)
  PROVE  /\ Append(s, f) \in Seq(Frames) /\ IsInjective(Append(s, f))
         /\ ToSet(Append(s, f)) = ToSet(s) \cup {f}
<1> DEFINE t == Append(s, f)
<1>1. /\ t \in Seq(Frames) /\ Len(t) = Len(s) + 1 /\ t[Len(s) + 1] = f
      /\ \A i \in 1 .. Len(s) : t[i] = s[i]
  OBVIOUS
<1>2. DOMAIN t = 1 .. Len(s) + 1 /\ DOMAIN s = 1 .. Len(s) /\ Len(s) \in Nat
  BY <1>1
<1> HIDE DEF t
<1>3. ToSet(s) = {s[i] : i \in 1 .. Len(s)} /\ ToSet(t) = {t[i] : i \in 1 .. Len(s) + 1}
  BY <1>2 DEF ToSet
<1>4. 1 .. Len(s) + 1 = (1 .. Len(s)) \cup {Len(s) + 1}
  BY <1>2
<1>5. ToSet(t) = ToSet(s) \cup {f}
  BY <1>1, <1>3, <1>4
<1>6. IsInjective(t)
  <2> SUFFICES ASSUME NEW i \in 1 .. Len(s) + 1, NEW j \in 1 .. Len(s) + 1, t[i] = t[j]
               PROVE  i = j
    BY <1>2 DEF IsInjective
  <2>1. \A k \in 1 .. Len(s) : s[k] # f
    BY <1>3
  <2>2. \A k, l \in 1 .. Len(s) : s[k] = s[l] => k = l
    BY <1>2 DEF IsInjective
  <2> QED
    BY <1>1, <1>4, <2>1, <2>2
<1> QED
  BY <1>1, <1>5, <1>6 DEF t

\* What a holder has is freed, if it is a frame.
LEMMA PushesHeld ==
  ASSUME NEW s \in Seq(Frames), IsInjective(s), NEW held, NEW heap, SharedOut(ToSet(s), held, heap),
         NEW h \in Holders, NEW then, then[h] \notin Frames,
         \A g \in Holders \ {h} : then[g] = held[g]
  PROVE  /\ Pushed(s, held[h]) \in Seq(Frames) /\ IsInjective(Pushed(s, held[h]))
         /\ SharedOut(ToSet(Pushed(s, held[h])), then, heap)
<1>1. CASE held[h] \in Frames
  <2>1. SharedOut(ToSet(s) \cup {held[h]}, then, heap) /\ held[h] \notin ToSet(s)
    BY <1>1, TakeFrame
  <2>2. Pushed(s, held[h]) = Append(s, held[h])
    BY <1>1 DEF Pushed
  <2>3. /\ Append(s, held[h]) \in Seq(Frames) /\ IsInjective(Append(s, held[h]))
        /\ ToSet(Append(s, held[h])) = ToSet(s) \cup {held[h]}
    BY <1>1, <2>1, StackPushes
  <2> QED
    BY <2>1, <2>2, <2>3
<1>2. CASE held[h] \notin Frames
  <2>1. Pushed(s, held[h]) = s
    BY <1>2 DEF Pushed
  <2>2. SharedOut(ToSet(s), then, heap)
    BY <1>2, KeepFrame
  <2> QED
    BY <2>1, <2>2
<1> QED
  BY <1>1, <1>2

\* What each holder holds.
LEMMA HoldersAre ==
  /\ <<"kernel", "table">> \in Holders /\ HeldNow[<<"kernel", "table">>] = kernelTable
  /\ \A p \in Programs :
       /\ <<p, "dir">> \in Holders
       /\ HeldNow[<<p, "dir">>] = IF space[p] = "freed" THEN NoFrame ELSE pagedir[p]
       /\ \A x \in Tables \cup Pages : <<p, x>> \in Holders /\ HeldNow[<<p, x>>] = maps[p][x]
  /\ \A h \in Holders : \/ h = <<"kernel", "table">>
                        \/ \E p \in Programs : h = <<p, "dir">> \/ \E x \in Tables \cup Pages : h = <<p, x>>
<1> USE FrameAssumption DEF FrameAssumption
<1>1. \A x \in Tables \cup Pages : x # "dir"
  BY DEF Tables, Pages, Committed, Reserved
<1>2. "kernel" \notin Programs
  OBVIOUS
<1> QED
  BY <1>1, <1>2 DEF Holders, HeldNow, Held

\* Nothing but what the named holders have changes.
LEMMA OthersHold ==
  ASSUME NEW S,
         <<"kernel", "table">> \in S \/ kernelTable' = kernelTable,
         \A p \in Programs :
           /\ \/ <<p, "dir">> \in S
              \/ (IF space'[p] = "freed" THEN NoFrame ELSE pagedir'[p])
                   = IF space[p] = "freed" THEN NoFrame ELSE pagedir[p]
           /\ \A x \in Tables \cup Pages : <<p, x>> \in S \/ maps'[p][x] = maps[p][x]
  PROVE  /\ \A g \in Holders \ S : HeldNow'[g] = HeldNow[g]
         /\ HeldNow'[<<"kernel", "table">>] = kernelTable'
         /\ \A p \in Programs :
              /\ HeldNow'[<<p, "dir">>] = IF space'[p] = "freed" THEN NoFrame ELSE pagedir'[p]
              /\ \A x \in Tables \cup Pages : HeldNow'[<<p, x>>] = maps'[p][x]
<1> USE FrameAssumption DEF FrameAssumption
<1>1. \A x \in Tables \cup Pages : x # "dir"
  BY DEF Tables, Pages, Committed, Reserved
<1>2. "kernel" \notin Programs
  OBVIOUS
<1>3. HeldNow'[<<"kernel", "table">>] = kernelTable'
  BY HoldersAre DEF HeldNow, Held
<1>4. ASSUME NEW p \in Programs
      PROVE  HeldNow'[<<p, "dir">>] = IF space'[p] = "freed" THEN NoFrame ELSE pagedir'[p]
  BY <1>2, HoldersAre DEF HeldNow, Held
<1>5. ASSUME NEW p \in Programs, NEW x \in Tables \cup Pages PROVE HeldNow'[<<p, x>>] = maps'[p][x]
  BY <1>1, <1>2, HoldersAre DEF HeldNow, Held
<1>6. ASSUME NEW g \in Holders \ S PROVE HeldNow'[g] = HeldNow[g]
  <2>1. CASE g = <<"kernel", "table">>
    BY <1>3, <1>6, <2>1, HoldersAre
  <2>2. ASSUME NEW p \in Programs, g = <<p, "dir">> PROVE HeldNow'[g] = HeldNow[g]
    BY <1>4, <1>6, <2>2, HoldersAre
  <2>3. ASSUME NEW p \in Programs, NEW x \in Tables \cup Pages, g = <<p, x>>
        PROVE  HeldNow'[g] = HeldNow[g]
    <3>1. maps'[p][x] = maps[p][x]
      BY <1>6, <2>3
    <3>2. HeldNow'[<<p, x>>] = maps'[p][x] /\ HeldNow[<<p, x>>] = maps[p][x]
      BY <1>5, HoldersAre
    <3> QED
      BY <2>3, <3>1, <3>2
  <2> QED
    BY <2>1, <2>2, <2>3, HoldersAre
<1> QED
  BY <1>3, <1>4, <1>5, <1>6

\* Nothing is given or taken.
LEMMA FramesStay ==
  ASSUME FrameParts, UNCHANGED <<stackbase, maps, kernelTable, kernelHeap>>,
         \A p \in Programs : (IF space'[p] = "freed" THEN NoFrame ELSE pagedir'[p])
                               = IF space[p] = "freed" THEN NoFrame ELSE pagedir[p]
  PROVE  IsInjective(stackbase') /\ SharedOut(ToSet(stackbase'), HeldNow', kernelHeap')
<1>3. \A h \in Holders \ {} : HeldNow'[h] = HeldNow[h]
  BY OthersHold
<1>4. SharedOut(ToSet(stackbase), HeldNow', kernelHeap)
  BY <1>3, SameHeld DEF FrameParts
<1> QED
  BY <1>4 DEF FrameParts

\* The frame mempop gives, when there is one, and what it leaves.
LEMMA OnePop ==
  ASSUME FrameTypeOK, IsInjective(stackbase), stackbase # <<>>
  PROVE  /\ Len(stackbase) >= 1 /\ Given(1, 1) = Last(stackbase) /\ Last(stackbase) \in Frames
         /\ Last(stackbase) \in ToSet(stackbase)
         /\ Under(1) \in Seq(Frames) /\ IsInjective(Under(1))
         /\ ToSet(Under(1)) = ToSet(stackbase) \ {Last(stackbase)}
<1> DEFINE s == stackbase
           n == Len(stackbase)
<1>1. s \in Seq(Frames) /\ n \in Nat /\ n >= 1
  BY DEF FrameTypeOK
<1>2. n - 1 \in 0 .. n /\ n \in 1 .. n /\ n + 1 - 1 = n
  BY <1>1
<1>3. s[n] \in Frames
  BY <1>1, <1>2
<1>4. Given(1, 1) = s[n]
  BY <1>1, <1>2 DEF Given, Popped
<1>5. SubSeq(s, 1, n - 1) \in Seq(Frames) /\ IsInjective(SubSeq(s, 1, n - 1))
  BY <1>1, <1>2, StackUnder
<1>6. s[n] \in ToSet(s) /\ ToSet(SubSeq(s, 1, n - 1)) = ToSet(s) \ {s[n]}
  BY <1>1, StackPops
<1> QED
  BY <1>1, <1>3, <1>4, <1>5, <1>6 DEF Last, Under

\* mempop hands the loader the frame that is still on top: the program's directory.
LEMMA LoaderGetsDirectory ==
  ASSUME FrameParts, LoadPops, harm' = {}
  PROVE  FrameParts'
<1> USE FrameAssumption DEF FrameAssumption
<1>1. /\ loader = "pop" /\ loader' = "turn" /\ pagedir' = [pagedir EXCEPT ![loading] = top]
      /\ top' = NoFrame /\ stackbase # <<>> /\ Last(stackbase) = top /\ stackbase' = Under(1)
      /\ UNCHANGED <<space, maps, kernelTable, kernelHeap, loading, window, thread, loads>>
  BY DEF LoadPops, Loads
<1>2. /\ FrameTypeOK /\ LoaderIsAt /\ IsInjective(stackbase)
      /\ SharedOut(ToSet(stackbase), HeldNow, kernelHeap) /\ loading \in Programs
      /\ pagedir[loading] = NoFrame /\ top \in Frames /\ space[loading] = "loads"
  BY <1>1 DEF FrameParts, LoaderIsAt
<1>3. /\ top \in ToSet(stackbase) /\ Under(1) \in Seq(Frames) /\ IsInjective(Under(1))
      /\ ToSet(Under(1)) = ToSet(stackbase) \ {top}
  BY <1>1, <1>2, OnePop
<1>4. /\ pagedir' \in [Programs -> Frames \cup {NoFrame}] /\ pagedir'[loading] = top
      /\ \A p \in Programs \ {loading} : pagedir'[p] = pagedir[p]
  BY <1>1, <1>2 DEF FrameTypeOK
<1>5. FrameTypeOK'
  BY <1>1, <1>2, <1>3, <1>4 DEF FrameTypeOK
<1>6. LoaderIsAt'
  BY <1>1, <1>2, <1>4 DEF LoaderIsAt
<1>7. SharedOut(ToSet(stackbase'), HeldNow', kernelHeap')
  <2> DEFINE h == <<loading, "dir">>
  <2>0. \A p \in Programs : <<p, "dir">> \in {h} \/ pagedir'[p] = pagedir[p]
    BY <1>4
  <2>1. /\ \A g \in Holders \ {h} : HeldNow'[g] = HeldNow[g]
        /\ h \in Holders /\ HeldNow'[h] = top /\ HeldNow[h] = NoFrame
    BY <1>1, <1>2, <1>4, <2>0, OthersHold, HoldersAre
  <2>2. SharedOut(ToSet(stackbase) \ {HeldNow'[h]}, HeldNow', kernelHeap)
    BY <1>2, <1>3, <2>1, GiveFrame
  <2> QED
    BY <1>1, <1>3, <2>1, <2>2
<1> QED
  BY <1>1, <1>3, <1>5, <1>6, <1>7 DEF FrameParts

\* Three frames: a page, the table for it, and the one in the kernel's directory.
LEMMA LoaderCommits ==
  ASSUME FrameParts, LoadCommits, harm' = {}
  PROVE  FrameParts'
<1> USE FrameAssumption DEF FrameAssumption
<1> DEFINE s == stackbase
           n == Len(stackbase)
           hc == <<loading, Committed>>
           hu == <<loading, "user">>
           hk == <<"kernel", "table">>
           one == [HeldNow EXCEPT ![hc] = s[n]]
           two == [one EXCEPT ![hu] = s[n - 1]]
<1>1. /\ loader = "commit" /\ loader' = "again" /\ n >= 3 /\ stackbase' = Under(3)
      /\ maps' = [maps EXCEPT ![loading] =
                    [@ EXCEPT ![Committed] = Given(1, 3), !["user"] = Given(2, 3)]]
      /\ kernelTable' = Given(3, 3) /\ window' = NoFrame
      /\ UNCHANGED <<space, pagedir, kernelHeap, loading, top, thread, loads>>
  <2>1. 3 <= Len(stackbase)
    <3>1. {"empty"} # {}
      OBVIOUS
    <3> QED
      BY <3>1 DEF LoadCommits, Pops
  <2> QED
    BY <2>1 DEF LoadCommits, Loads, Pops, FrameParts, FrameTypeOK
<1>2. /\ FrameTypeOK /\ LoaderIsAt /\ IsInjective(stackbase)
      /\ SharedOut(ToSet(stackbase), HeldNow, kernelHeap) /\ loading \in Programs
      /\ kernelTable = NoFrame /\ maps[loading] = Unmapped /\ space[loading] = "loads"
  BY <1>1 DEF FrameParts, LoaderIsAt
<1>3. /\ s \in Seq(Frames) /\ n \in Nat /\ Given(1, 3) = s[n] /\ Given(2, 3) = s[n - 1]
      /\ Given(3, 3) = s[n - 2] /\ s[n] \in Frames /\ s[n - 1] \in Frames /\ s[n - 2] \in Frames
  <2>1. s \in Seq(Frames) /\ n \in Nat
    BY <1>2 DEF FrameTypeOK
  <2>2. n \in 1 .. n /\ n - 1 \in 1 .. n /\ n - 2 \in 1 .. n /\ n + 1 - 1 = n /\ n + 1 - 2 = n - 1 /\ n + 1 - 3 = n - 2
    BY <1>1, <2>1
  <2>3. s[n] \in Frames /\ s[n - 1] \in Frames /\ s[n - 2] \in Frames
    BY <2>1, <2>2
  <2>4. Given(1, 3) = s[n] /\ Given(2, 3) = s[n - 1] /\ Given(3, 3) = s[n - 2]
    BY <1>1, <2>1, <2>2 DEF Given, Popped
  <2> QED
    BY <2>1, <2>3, <2>4
<1>4. /\ s[n] \in ToSet(s) /\ s[n - 1] \in ToSet(s) \ {s[n]}
      /\ s[n - 2] \in (ToSet(s) \ {s[n]}) \ {s[n - 1]}
      /\ Under(3) \in Seq(Frames) /\ IsInjective(Under(3))
      /\ ToSet(Under(3)) = ((ToSet(s) \ {s[n]}) \ {s[n - 1]}) \ {s[n - 2]}
  <2>1. n - 3 \in 0 .. n
    BY <1>1, <1>3
  <2>2. Under(3) \in Seq(Frames) /\ IsInjective(Under(3))
    BY <1>2, <1>3, <2>1, StackUnder DEF Under
  <2> QED
    BY <1>1, <1>2, <1>3, <2>2, StackPops DEF Under
<1>5. /\ maps' \in [Programs -> [Tables \cup Pages -> Frames \cup {NoFrame, "demand"}]]
      /\ maps'[loading][Committed] = s[n] /\ maps'[loading]["user"] = s[n - 1]
      /\ maps'[loading]["aux"] = NoFrame /\ maps'[loading][Reserved] = NoFrame
      /\ \A p \in Programs \ {loading} : maps'[p] = maps[p]
  <2>1. maps[loading] \in [Tables \cup Pages -> Frames \cup {NoFrame, "demand"}]
    BY <1>2 DEF FrameTypeOK
  <2>2. maps' = [maps EXCEPT ![loading] =
                   [maps[loading] EXCEPT ![Committed] = s[n], !["user"] = s[n - 1]]]
    BY <1>1, <1>3
  <2>3. [maps[loading] EXCEPT ![Committed] = s[n], !["user"] = s[n - 1]]
          \in [Tables \cup Pages -> Frames \cup {NoFrame, "demand"}]
    BY <1>3, <2>1
  <2>4. /\ maps' \in [Programs -> [Tables \cup Pages -> Frames \cup {NoFrame, "demand"}]]
        /\ \A p \in Programs \ {loading} : maps'[p] = maps[p]
    BY <1>2, <2>2, <2>3 DEF FrameTypeOK
  <2>5. maps'[loading] = [Unmapped EXCEPT ![Committed] = s[n], !["user"] = s[n - 1]]
    BY <1>2, <2>2 DEF FrameTypeOK
  <2> QED
    BY <2>4, <2>5 DEF Unmapped, Tables, Pages, Committed, Reserved
<1>6. FrameTypeOK'
  BY <1>1, <1>2, <1>3, <1>4, <1>5 DEF FrameTypeOK
<1>7. LoaderIsAt'
  BY <1>1, <1>2, <1>3, <1>5 DEF LoaderIsAt
<1>8. SharedOut(ToSet(stackbase'), HeldNow', kernelHeap')
  <2> DEFINE S == {hc, hu, hk}
  <2>0. /\ hc \in Holders /\ hu \in Holders /\ hk \in Holders /\ hc # hu /\ hc # hk /\ hu # hk
        /\ HeldNow[hc] = NoFrame /\ HeldNow[hu] = NoFrame /\ HeldNow[hk] = NoFrame
    <3>1. "user" \in Tables \cup Pages /\ Committed \in Tables \cup Pages /\ Committed # "user"
      BY DEF Tables, Pages, Committed
    <3>2. hc \in Holders /\ hu \in Holders /\ hk \in Holders
      BY <1>2, <3>1, HoldersAre
    <3>3. hc # hu /\ hc # hk /\ hu # hk
      BY <1>2, <3>1
    <3>4. maps[loading][Committed] = NoFrame /\ maps[loading]["user"] = NoFrame
      BY <1>2, <3>1 DEF Unmapped
    <3>5. HeldNow[hc] = NoFrame /\ HeldNow[hu] = NoFrame
      BY <1>2, <3>1, <3>4, HoldersAre
    <3>6. HeldNow[hk] = NoFrame
      BY <1>2, HoldersAre
    <3> QED
      BY <3>2, <3>3, <3>5, <3>6
  <2>1. \A p \in Programs, x \in Tables \cup Pages : <<p, x>> \in S \/ maps'[p][x] = maps[p][x]
    <3> SUFFICES ASSUME NEW p \in Programs, NEW x \in Tables \cup Pages, <<p, x>> \notin S
                 PROVE  maps'[p][x] = maps[p][x]
      OBVIOUS
    <3>1. CASE p # loading
      BY <1>5, <3>1
    <3>2. CASE p = loading
      <4>1. x = "aux" \/ x = Reserved
        BY <3>2 DEF Tables, Pages, Committed
      <4> QED
        BY <1>2, <1>5, <3>2, <4>1 DEF Unmapped, Tables, Pages
    <3> QED
      BY <3>1, <3>2
  <2>2. /\ \A g \in Holders \ S : HeldNow'[g] = HeldNow[g]
        /\ HeldNow'[hk] = s[n - 2] /\ HeldNow'[hc] = s[n] /\ HeldNow'[hu] = s[n - 1]
    <3>1. "user" \in Tables \cup Pages /\ Committed \in Tables \cup Pages
      BY DEF Tables, Pages
    <3>2. hk \in S /\ \A p \in Programs : space'[p] = space[p] /\ pagedir'[p] = pagedir[p]
      BY <1>1
    <3> HIDE DEF S
    <3>3. /\ \A g \in Holders \ S : HeldNow'[g] = HeldNow[g]
          /\ HeldNow'[<<"kernel", "table">>] = kernelTable'
          /\ \A p \in Programs, x \in Tables \cup Pages : HeldNow'[<<p, x>>] = maps'[p][x]
      BY <2>1, <3>2, OthersHold
    <3> QED
      BY <1>1, <1>2, <1>3, <1>5, <3>1, <3>3
  <2>3. /\ one[hc] = s[n] /\ \A g \in Holders \ {hc} : one[g] = HeldNow[g]
        /\ two[hu] = s[n - 1] /\ \A g \in Holders \ {hu} : two[g] = one[g]
    BY <2>0 DEF HeldNow
  <2> HIDE DEF one, two, S, hc, hu, hk
  <2>4. SharedOut(ToSet(s) \ {s[n]}, one, kernelHeap)
    BY <1>2, <1>4, <2>0, <2>3, GiveFrame
  <2>5. one[hu] \notin Frames /\ two[hk] \notin Frames
    BY <2>0, <2>3
  <2>6. SharedOut((ToSet(s) \ {s[n]}) \ {s[n - 1]}, two, kernelHeap)
    BY <1>4, <2>0, <2>3, <2>4, <2>5, GiveFrame
  <2>7. \A g \in Holders \ {hk} : HeldNow'[g] = two[g]
    BY <2>0, <2>2, <2>3 DEF S
  <2>8. SharedOut(((ToSet(s) \ {s[n]}) \ {s[n - 1]}) \ {s[n - 2]}, HeldNow', kernelHeap)
    BY <1>4, <2>0, <2>2, <2>5, <2>6, <2>7, GiveFrame
  <2> QED
    BY <1>1, <1>4, <2>8
<1> QED
  BY <1>1, <1>4, <1>6, <1>7, <1>8 DEF FrameParts

\* A reserved page has no frame yet.
LEMMA LoaderReserves ==
  ASSUME FrameParts, LoadReserves, harm' = {}
  PROVE  FrameParts'
<1> USE FrameAssumption DEF FrameAssumption
<1> DEFINE h == <<loading, Reserved>>
<1>1. /\ loader = "reserve" /\ loader' = "create"
      /\ maps' = [maps EXCEPT ![loading][Reserved] = "demand"] /\ window' = NoFrame
      /\ UNCHANGED <<stackbase, space, pagedir, kernelTable, kernelHeap, loading, top, thread, loads>>
  BY DEF LoadReserves, Loads
<1>2. /\ FrameTypeOK /\ LoaderIsAt /\ IsInjective(stackbase)
      /\ SharedOut(ToSet(stackbase), HeldNow, kernelHeap) /\ loading \in Programs
      /\ maps[loading][Reserved] = NoFrame /\ maps[loading]["aux"] = NoFrame
      /\ space[loading] = "loads" /\ kernelTable \in Frames
  BY <1>1 DEF FrameParts, LoaderIsAt
<1>3. Reserved \in Tables \cup Pages /\ "aux" \in Tables \cup Pages /\ Reserved # "aux"
  BY DEF Tables, Pages, Reserved
<1>4. /\ maps' \in [Programs -> [Tables \cup Pages -> Frames \cup {NoFrame, "demand"}]]
      /\ maps'[loading][Reserved] = "demand"
      /\ \A x \in (Tables \cup Pages) \ {Reserved} : maps'[loading][x] = maps[loading][x]
      /\ \A p \in Programs \ {loading} : maps'[p] = maps[p]
  BY <1>1, <1>2, <1>3 DEF FrameTypeOK
<1>5. FrameTypeOK'
  BY <1>1, <1>2, <1>4 DEF FrameTypeOK
<1>6. LoaderIsAt'
  BY <1>1, <1>2, <1>3, <1>4 DEF LoaderIsAt
<1>7. SharedOut(ToSet(stackbase'), HeldNow', kernelHeap')
  <2> DEFINE S == {h}
  <2>1. \A p \in Programs, x \in Tables \cup Pages : <<p, x>> \in S \/ maps'[p][x] = maps[p][x]
    BY <1>4
  <2>2. kernelTable' = kernelTable /\ space' = space /\ pagedir' = pagedir
    BY <1>1
  <2> HIDE DEF h, S
  <2>3. /\ \A g \in Holders \ S : HeldNow'[g] = HeldNow[g]
        /\ \A p \in Programs, x \in Tables \cup Pages : HeldNow'[<<p, x>>] = maps'[p][x]
    <3>1. \A r \in Programs :
            /\ \/ <<r, "dir">> \in S
               \/ (IF space'[r] = "freed" THEN NoFrame ELSE pagedir'[r])
                    = IF space[r] = "freed" THEN NoFrame ELSE pagedir[r]
            /\ \A x \in Tables \cup Pages : <<r, x>> \in S \/ maps'[r][x] = maps[r][x]
      BY <2>1, <2>2
    <3>2. <<"kernel", "table">> \in S \/ kernelTable' = kernelTable
      BY <2>2
    <3> QED
      BY <3>1, <3>2, OthersHold
  <2>4. h \in Holders /\ HeldNow'[h] = "demand" /\ HeldNow[h] = NoFrame
    BY <1>2, <1>3, <1>4, <2>3, HoldersAre DEF h
  <2>5. SharedOut(ToSet(stackbase), HeldNow', kernelHeap)
    BY <1>2, <2>3, <2>4, KeepFrame DEF S
  <2> QED
    BY <1>1, <2>5
<1> QED
  BY <1>1, <1>2, <1>5, <1>6, <1>7 DEF FrameParts

\* One frame for the windows; the kernel's table for user space is freed.
LEMMA LoaderCreates ==
  ASSUME FrameParts, LoadCreates, harm' = {}
  PROVE  FrameParts'
<1> USE FrameAssumption DEF FrameAssumption
<1> DEFINE h == <<loading, "aux">>
           k == <<"kernel", "table">>
           f == Last(stackbase)
           given == [HeldNow EXCEPT ![h] = f]
<1>1. /\ loader = "create" /\ loader' = "idle" /\ stackbase # <<>>
      /\ maps' = [maps EXCEPT ![loading]["aux"] = Given(1, 1)]
      /\ stackbase' = Append(Under(1), kernelTable) /\ kernelTable' = NoFrame /\ window' = NoFrame
      /\ space' = [space EXCEPT ![loading] = "lives"] /\ loading' = NoFrame
      /\ UNCHANGED <<pagedir, kernelHeap, top, thread, loads>>
  BY DEF LoadCreates, Loads, FreesKernelTable
<1>2. /\ FrameTypeOK /\ LoaderIsAt /\ IsInjective(stackbase)
      /\ SharedOut(ToSet(stackbase), HeldNow, kernelHeap) /\ loading \in Programs
      /\ maps[loading]["aux"] = NoFrame /\ pagedir[loading] \in Frames
      /\ space[loading] = "loads" /\ kernelTable \in Frames
  BY <1>1 DEF FrameParts, LoaderIsAt
<1>3. /\ f \in Frames /\ f \in ToSet(stackbase) /\ Given(1, 1) = f
      /\ Under(1) \in Seq(Frames) /\ IsInjective(Under(1))
      /\ ToSet(Under(1)) = ToSet(stackbase) \ {f}
  BY <1>1, <1>2, OnePop
<1>a. "aux" \in Tables \cup Pages
  BY DEF Tables
<1> HIDE DEF f
<1>4. /\ maps' \in [Programs -> [Tables \cup Pages -> Frames \cup {NoFrame, "demand"}]]
      /\ maps'[loading]["aux"] = f
      /\ \A x \in (Tables \cup Pages) \ {"aux"} : maps'[loading][x] = maps[loading][x]
      /\ \A p \in Programs \ {loading} : maps'[p] = maps[p]
  BY <1>1, <1>2, <1>3, <1>a DEF FrameTypeOK
<1>5. /\ space' \in [Programs -> {"none", "loads", "lives", "freed"}] /\ space'[loading] = "lives"
      /\ \A p \in Programs \ {loading} : space'[p] = space[p]
  BY <1>1, <1>2 DEF FrameTypeOK
<1>6. LoaderIsAt'
  BY <1>1, <1>2, <1>4, <1>5 DEF LoaderIsAt
<1>7. /\ h \in Holders /\ k \in Holders /\ h # k /\ HeldNow[h] = NoFrame /\ HeldNow[k] = kernelTable
      /\ \A g \in Holders \ {h, k} : HeldNow'[g] = HeldNow[g]
      /\ HeldNow'[h] = f /\ HeldNow'[k] = NoFrame
  <2>1. \A p \in Programs, x \in Tables \cup Pages : <<p, x>> \in {h, k} \/ maps'[p][x] = maps[p][x]
    BY <1>4
  <2>2. \A p \in Programs : (IF space'[p] = "freed" THEN NoFrame ELSE pagedir'[p])
                              = IF space[p] = "freed" THEN NoFrame ELSE pagedir[p]
    BY <1>1, <1>2, <1>5
  <2>3. <<"kernel", "table">> \in {h, k} /\ h # k
    BY <1>2
  <2>4. h \in Holders /\ k \in Holders /\ HeldNow[h] = NoFrame /\ HeldNow[k] = kernelTable
    BY <1>2, <1>a, HoldersAre
  <2>5. /\ \A g \in Holders \ {h, k} : HeldNow'[g] = HeldNow[g]
        /\ HeldNow'[<<"kernel", "table">>] = kernelTable'
        /\ \A p \in Programs, x \in Tables \cup Pages : HeldNow'[<<p, x>>] = maps'[p][x]
    <3> HIDE DEF h, k
    <3> QED
      BY <2>1, <2>2, <2>3, OthersHold
  <2> QED
    BY <1>1, <1>2, <1>4, <1>a, <2>3, <2>4, <2>5
<1> HIDE DEF h, k
<1>8. SharedOut(ToSet(Under(1)), given, kernelHeap)
  <2>1. given[h] = f /\ \A g \in Holders \ {h} : given[g] = HeldNow[g]
    BY <1>7 DEF HeldNow
  <2> HIDE DEF given
  <2> QED
    BY <1>2, <1>3, <1>7, <2>1, GiveFrame
<1>9. /\ SharedOut(ToSet(Under(1)) \cup {kernelTable}, HeldNow', kernelHeap)
      /\ kernelTable \notin ToSet(Under(1))
  <2>1. given[k] = kernelTable /\ \A g \in Holders \ {k} : HeldNow'[g] = given[g]
    BY <1>7 DEF HeldNow
  <2> HIDE DEF given
  <2>2. k \in Holders /\ given[k] \in Frames /\ HeldNow'[k] \notin Frames
    BY <1>2, <1>7, <2>1
  <2>3. SharedOut(ToSet(Under(1)) \cup {given[k]}, HeldNow', kernelHeap) /\ given[k] \notin ToSet(Under(1))
    BY <1>8, <2>1, <2>2, TakeFrame
  <2> QED
    BY <2>1, <2>3
<1>10. /\ stackbase' \in Seq(Frames) /\ IsInjective(stackbase')
       /\ ToSet(stackbase') = ToSet(Under(1)) \cup {kernelTable}
  BY <1>1, <1>2, <1>3, <1>9, StackPushes
<1>11. FrameTypeOK'
  BY <1>1, <1>2, <1>4, <1>5, <1>10 DEF FrameTypeOK
<1> QED
  BY <1>1, <1>6, <1>9, <1>10, <1>11 DEF FrameParts

\* A page fault gives a reserved page its frame.
LEMMA PageIsCommitted ==
  ASSUME FrameParts, NEW p \in Programs, PageFault(p), harm' = {}
  PROVE  FrameParts'
<1> USE FrameAssumption DEF FrameAssumption
<1> DEFINE h == <<p, Reserved>>
           f == Last(stackbase)
<1>0. 1 <= Len(stackbase)
  <2>1. {"empty"} # {}
    OBVIOUS
  <2> QED
    BY <2>1 DEF PageFault, Pops
<1>1. /\ space[p] = "lives" /\ maps[p][Reserved] = "demand" /\ stackbase' = Under(1)
      /\ maps' = [maps EXCEPT ![p][Reserved] = Given(1, 1)] /\ window' = Given(1, 1)
      /\ UNCHANGED <<space, pagedir, kernelTable, kernelHeap, loader, loading, top, thread, loads>>
  BY <1>0 DEF PageFault, Pops, FrameParts, FrameTypeOK, loaderVars
<1>2. /\ FrameTypeOK /\ LoaderIsAt /\ IsInjective(stackbase) /\ stackbase # <<>>
      /\ SharedOut(ToSet(stackbase), HeldNow, kernelHeap)
  BY <1>0 DEF FrameParts
<1>3. /\ f \in Frames /\ f \in ToSet(stackbase) /\ Given(1, 1) = f
      /\ Under(1) \in Seq(Frames) /\ IsInjective(Under(1))
      /\ ToSet(Under(1)) = ToSet(stackbase) \ {f}
  BY <1>2, OnePop
<1>a. Reserved \in Tables \cup Pages
  BY DEF Pages
<1> HIDE DEF f
<1>4. /\ maps' \in [Programs -> [Tables \cup Pages -> Frames \cup {NoFrame, "demand"}]]
      /\ maps'[p][Reserved] = f
      /\ \A x \in (Tables \cup Pages) \ {Reserved} : maps'[p][x] = maps[p][x]
      /\ \A q \in Programs \ {p} : maps'[q] = maps[q]
  BY <1>1, <1>2, <1>3, <1>a DEF FrameTypeOK
<1>5. FrameTypeOK'
  BY <1>1, <1>2, <1>3, <1>4 DEF FrameTypeOK
<1>6. LoaderIsAt'
  <2>1. loader # "idle" => loading # p /\ loading \in Programs
    BY <1>1, <1>2 DEF LoaderIsAt
  <2> QED
    BY <1>1, <1>2, <1>4, <2>1 DEF LoaderIsAt
<1>7. SharedOut(ToSet(stackbase'), HeldNow', kernelHeap')
  <2> DEFINE S == {h}
  <2>1. \A q \in Programs, x \in Tables \cup Pages : <<q, x>> \in S \/ maps'[q][x] = maps[q][x]
    BY <1>4
  <2>2. kernelTable' = kernelTable /\ space' = space /\ pagedir' = pagedir
    BY <1>1
  <2> HIDE DEF h, S
  <2>3. /\ \A g \in Holders \ S : HeldNow'[g] = HeldNow[g]
        /\ \A q \in Programs, x \in Tables \cup Pages : HeldNow'[<<q, x>>] = maps'[q][x]
    <3>1. \A r \in Programs :
            /\ \/ <<r, "dir">> \in S
               \/ (IF space'[r] = "freed" THEN NoFrame ELSE pagedir'[r])
                    = IF space[r] = "freed" THEN NoFrame ELSE pagedir[r]
            /\ \A x \in Tables \cup Pages : <<r, x>> \in S \/ maps'[r][x] = maps[r][x]
      BY <2>1, <2>2
    <3>2. <<"kernel", "table">> \in S \/ kernelTable' = kernelTable
      BY <2>2
    <3> QED
      BY <3>1, <3>2, OthersHold
  <2>4. h \in Holders /\ HeldNow'[h] = f /\ HeldNow[h] = "demand"
    <3>1. h \in Holders /\ HeldNow[h] = maps[p][Reserved] /\ HeldNow'[h] = maps'[p][Reserved]
      BY <1>a, <2>3, HoldersAre DEF h
    <3> QED
      BY <1>1, <1>4, <3>1
  <2>5. SharedOut(ToSet(stackbase) \ {f}, HeldNow', kernelHeap)
    BY <1>2, <1>3, <2>3, <2>4, GiveFrame DEF S
  <2> QED
    BY <1>1, <1>3, <2>5
<1> QED
  BY <1>1, <1>3, <1>5, <1>6, <1>7 DEF FrameParts

\* The kernel's heap takes the frame on top.
LEMMA HeapGrows ==
  ASSUME FrameParts, sbrk, harm' = {}
  PROVE  FrameParts'
<1> USE FrameAssumption DEF FrameAssumption
<1> DEFINE f == Last(stackbase)
<1>0. 1 <= Len(stackbase)
  <2>1. {"empty"} # {}
    OBVIOUS
  <2> QED
    BY <2>1 DEF sbrk, Pops
<1>1. /\ stackbase' = Under(1) /\ kernelHeap' = kernelHeap \cup {Given(1, 1)}
      /\ UNCHANGED <<space, pagedir, maps, kernelTable, loader, loading, top, window, thread, loads>>
  BY <1>0 DEF sbrk, Pops, FrameParts, FrameTypeOK, loaderVars, spaceVars
<1>2. /\ FrameTypeOK /\ LoaderIsAt /\ IsInjective(stackbase) /\ stackbase # <<>>
      /\ SharedOut(ToSet(stackbase), HeldNow, kernelHeap)
  BY <1>0 DEF FrameParts
<1>3. /\ f \in Frames /\ f \in ToSet(stackbase) /\ Given(1, 1) = f
      /\ Under(1) \in Seq(Frames) /\ IsInjective(Under(1))
      /\ ToSet(Under(1)) = ToSet(stackbase) \ {f}
  BY <1>2, OnePop
<1> HIDE DEF f
<1>4. FrameTypeOK'
  BY <1>1, <1>2, <1>3 DEF FrameTypeOK
<1>5. LoaderIsAt'
  BY <1>1, <1>2 DEF LoaderIsAt
<1>6. \A g \in Holders \ {} : HeldNow'[g] = HeldNow[g]
  BY <1>1, OthersHold
<1>7. SharedOut(ToSet(stackbase) \ {f}, HeldNow, kernelHeap \cup {f})
  BY <1>2, <1>3, GiveHeap
<1>8. SharedOut(ToSet(stackbase) \ {f}, HeldNow', kernelHeap \cup {f})
  BY <1>6, <1>7, SameHeld
<1> QED
  BY <1>1, <1>3, <1>4, <1>5, <1>8 DEF FrameParts

\* The end of a process frees its pages, tables and directory, each once.
LEMMA ProcessIsFreed ==
  ASSUME FrameParts, NEW p \in Programs, FreesProcess(p)
  PROVE  FrameParts'
<1> USE FrameAssumption DEF FrameAssumption
<1> DEFINE s == stackbase
           a == <<p, Committed>>
           b == <<p, Reserved>>
           c == <<p, "user">>
           d == <<p, "aux">>
           e == <<p, "dir">>
           H == HeldNow
           H1 == [H EXCEPT ![a] = NoFrame]
           H2 == [H1 EXCEPT ![b] = NoFrame]
           H3 == [H2 EXCEPT ![c] = NoFrame]
           H4 == [H3 EXCEPT ![d] = NoFrame]
           s1 == Pushed(s, H[a])
           s2 == Pushed(s1, H1[b])
           s3 == Pushed(s2, H2[c])
           s4 == Pushed(s3, H3[d])
           s5 == Pushed(s4, H4[e])
<1>1. /\ space[p] = "lives" /\ stackbase' = FreedFrames(p)
      /\ space' = [space EXCEPT ![p] = IF thread[p] THEN "freed" ELSE "none"]
      /\ pagedir' = [pagedir EXCEPT ![p] = IF thread[p] THEN @ ELSE NoFrame]
      /\ maps' = [maps EXCEPT ![p] = Unmapped] /\ window' = pagedir[p]
      /\ UNCHANGED <<kernelTable, kernelHeap, loader, loading, top, thread, loads, harm>>
  BY DEF FreesProcess, loaderVars
<1>2. /\ FrameTypeOK /\ LoaderIsAt /\ s \in Seq(Frames) /\ IsInjective(s)
      /\ SharedOut(ToSet(s), H, kernelHeap) /\ pagedir[p] \in Frames
  BY <1>1 DEF FrameParts, FrameTypeOK, LoaderIsAt
<1>3. /\ maps' \in [Programs -> [Tables \cup Pages -> Frames \cup {NoFrame, "demand"}]]
      /\ maps'[p] = Unmapped /\ \A q \in Programs \ {p} : maps'[q] = maps[q]
  <2>1. Unmapped \in [Tables \cup Pages -> Frames \cup {NoFrame, "demand"}]
    BY DEF Unmapped
  <2> QED
    BY <1>1, <1>2, <2>1 DEF FrameTypeOK
<1>4. /\ space' \in [Programs -> {"none", "loads", "lives", "freed"}]
      /\ space'[p] = IF thread[p] THEN "freed" ELSE "none"
      /\ \A q \in Programs \ {p} : space'[q] = space[q]
  <2>1. (IF thread[p] THEN "freed" ELSE "none") \in {"none", "loads", "lives", "freed"}
    OBVIOUS
  <2> QED
    BY <1>1, <1>2, <2>1 DEF FrameTypeOK
<1>5. /\ pagedir' \in [Programs -> Frames \cup {NoFrame}]
      /\ pagedir'[p] = (IF thread[p] THEN pagedir[p] ELSE NoFrame)
      /\ \A q \in Programs \ {p} : pagedir'[q] = pagedir[q]
  <2>1. (IF thread[p] THEN pagedir[p] ELSE NoFrame) \in Frames \cup {NoFrame}
    BY <1>2
  <2>2. pagedir' = [pagedir EXCEPT ![p] = IF thread[p] THEN pagedir[p] ELSE NoFrame]
    BY <1>1
  <2> QED
    BY <1>2, <2>1, <2>2 DEF FrameTypeOK
<1>6. LoaderIsAt'
  <2>1. loader # "idle" => loading # p /\ loading \in Programs
    BY <1>1, <1>2 DEF LoaderIsAt
  <2>2. space'[p] = "freed" \/ (space'[p] = "none" /\ pagedir'[p] = NoFrame)
    BY <1>4, <1>5
  <2> QED
    BY <1>1, <1>2, <1>3, <1>4, <1>5, <2>1, <2>2 DEF LoaderIsAt
<1>7. /\ a \in Holders /\ b \in Holders /\ c \in Holders /\ d \in Holders /\ e \in Holders
      /\ a # b /\ a # c /\ a # d /\ a # e /\ b # c /\ b # d /\ b # e /\ c # d /\ c # e /\ d # e
      /\ H[a] = maps[p][Committed] /\ H[b] = maps[p][Reserved] /\ H[c] = maps[p]["user"]
      /\ H[d] = maps[p]["aux"] /\ H[e] = pagedir[p]
  <2>1. /\ Committed \in Tables \cup Pages /\ Reserved \in Tables \cup Pages
        /\ "user" \in Tables \cup Pages /\ "aux" \in Tables \cup Pages
    BY DEF Tables, Pages
  <2>2. a # b /\ a # c /\ a # d /\ a # e /\ b # c /\ b # d /\ b # e /\ c # d /\ c # e /\ d # e
    BY DEF Committed, Reserved
  <2>3. a \in Holders /\ b \in Holders /\ c \in Holders /\ d \in Holders /\ e \in Holders
    BY <2>1, HoldersAre
  <2>4. /\ H[a] = maps[p][Committed] /\ H[b] = maps[p][Reserved] /\ H[c] = maps[p]["user"]
        /\ H[d] = maps[p]["aux"]
    BY <2>1, HoldersAre
  <2>5. H[e] = pagedir[p]
    BY <1>1, HoldersAre
  <2> QED
    BY <2>2, <2>3, <2>4, <2>5
<1>8. /\ \A g \in Holders \ {a, b, c, d, e} : HeldNow'[g] = H[g]
      /\ \A g \in {a, b, c, d, e} : HeldNow'[g] = NoFrame
  <2> DEFINE S == {a, b, c, d, e}
  <2>1. \A q \in Programs, x \in Tables \cup Pages : <<q, x>> \in S \/ maps'[q][x] = maps[q][x]
    <3> SUFFICES ASSUME NEW q \in Programs, NEW x \in Tables \cup Pages, <<q, x>> \notin S
                 PROVE  maps'[q][x] = maps[q][x]
      OBVIOUS
    <3>1. q # p
      BY DEF Tables, Pages
    <3> QED
      BY <1>3, <3>1
  <2>2. \A q \in Programs :
          \/ <<q, "dir">> \in S
          \/ (IF space'[q] = "freed" THEN NoFrame ELSE pagedir'[q])
               = IF space[q] = "freed" THEN NoFrame ELSE pagedir[q]
    BY <1>4, <1>5
  <2>3. kernelTable' = kernelTable
    BY <1>1
  <2>4. /\ \A g \in Holders \ S : HeldNow'[g] = HeldNow[g]
        /\ \A q \in Programs :
             /\ HeldNow'[<<q, "dir">>] = IF space'[q] = "freed" THEN NoFrame ELSE pagedir'[q]
             /\ \A x \in Tables \cup Pages : HeldNow'[<<q, x>>] = maps'[q][x]
    <3> HIDE DEF S
    <3>1. \A q \in Programs :
            /\ \/ <<q, "dir">> \in S
               \/ (IF space'[q] = "freed" THEN NoFrame ELSE pagedir'[q])
                    = IF space[q] = "freed" THEN NoFrame ELSE pagedir[q]
            /\ \A x \in Tables \cup Pages : <<q, x>> \in S \/ maps'[q][x] = maps[q][x]
      BY <2>1, <2>2
    <3>2. <<"kernel", "table">> \in S \/ kernelTable' = kernelTable
      BY <2>3
    <3> QED
      BY <3>1, <3>2, OthersHold
  <2>5. HeldNow'[e] = NoFrame
    BY <1>4, <1>5, <2>4
  <2>6. ASSUME NEW x \in Tables \cup Pages PROVE HeldNow'[<<p, x>>] = NoFrame
    <3>1. maps'[p][x] = NoFrame
      BY <1>3 DEF Unmapped
    <3>2. HeldNow'[<<p, x>>] = maps'[p][x]
      BY <2>4
    <3> QED
      BY <3>1, <3>2
  <2>7. HeldNow'[a] = NoFrame /\ HeldNow'[b] = NoFrame /\ HeldNow'[c] = NoFrame /\ HeldNow'[d] = NoFrame
    BY <2>6 DEF Tables, Pages
  <2> QED
    BY <2>4, <2>5, <2>7
<1>9. /\ H1[a] = NoFrame /\ \A g \in Holders \ {a} : H1[g] = H[g]
      /\ H2[b] = NoFrame /\ \A g \in Holders \ {b} : H2[g] = H1[g]
      /\ H3[c] = NoFrame /\ \A g \in Holders \ {c} : H3[g] = H2[g]
      /\ H4[d] = NoFrame /\ \A g \in Holders \ {d} : H4[g] = H3[g]
  <2>1. DOMAIN H = Holders
    BY DEF HeldNow
  <2> HIDE DEF a, b, c, d, e, H
  <2> QED
    BY <1>7, <2>1
<1>10. stackbase' = s5
  <2>1. H1[b] = maps[p][Reserved] /\ H2[c] = maps[p]["user"] /\ H3[d] = maps[p]["aux"] /\ H4[e] = pagedir[p]
    <3> HIDE DEF a, b, c, d, e, H, H1, H2, H3, H4
    <3> QED
      BY <1>7, <1>9
  <2>2. s5 = Append(s4, H4[e])
    BY <1>2, <2>1 DEF Pushed
  <2>3. s1 = Pushed(stackbase, maps[p][Committed])
    BY <1>7
  <2> QED
    BY <1>1, <2>1, <2>2, <2>3 DEF FreedFrames, FreedPages
<1> HIDE DEF a, b, c, d, e, H, H1, H2, H3, H4, s1, s2, s3, s4, s5
<1>11. s1 \in Seq(Frames) /\ IsInjective(s1) /\ SharedOut(ToSet(s1), H1, kernelHeap)
  BY <1>2, <1>7, <1>9, PushesHeld DEF s1
<1>12. s2 \in Seq(Frames) /\ IsInjective(s2) /\ SharedOut(ToSet(s2), H2, kernelHeap)
  BY <1>7, <1>9, <1>11, PushesHeld DEF s2
<1>13. s3 \in Seq(Frames) /\ IsInjective(s3) /\ SharedOut(ToSet(s3), H3, kernelHeap)
  BY <1>7, <1>9, <1>12, PushesHeld DEF s3
<1>14. s4 \in Seq(Frames) /\ IsInjective(s4) /\ SharedOut(ToSet(s4), H4, kernelHeap)
  BY <1>7, <1>9, <1>13, PushesHeld DEF s4
<1>15. s5 \in Seq(Frames) /\ IsInjective(s5) /\ SharedOut(ToSet(s5), HeldNow', kernelHeap)
  <2>1. HeldNow'[e] = NoFrame /\ \A g \in Holders \ {e} : HeldNow'[g] = H4[g]
    BY <1>7, <1>8, <1>9
  <2> QED
    BY <1>7, <1>14, <2>1, PushesHeld DEF s5
<1>16. FrameTypeOK'
  BY <1>1, <1>2, <1>3, <1>4, <1>5, <1>10, <1>15 DEF FrameTypeOK
<1> QED
  BY <1>1, <1>6, <1>10, <1>15, <1>16 DEF FrameParts

\* Every step of the frames keeps their invariant.
LEMMA FramesKeep == FrameInv /\ [FrameNext]_frameVars => FrameInv'
<1> USE FrameAssumption DEF FrameAssumption
<1> SUFFICES ASSUME FrameInv, [FrameNext]_frameVars, harm' = {} PROVE FrameParts'
  BY DEF FrameInv, Calm
<1>1. CASE UNCHANGED frameVars
  <2>1. FrameParts /\ UNCHANGED <<stackbase, space, pagedir, maps, kernelTable, kernelHeap, loader, loading, top, window, thread, loads, harm>>
    BY <1>1 DEF FrameInv, Calm, frameVars, spaceVars, loaderVars
  <2>2. FrameTypeOK' /\ LoaderIsAt'
    BY <2>1 DEF FrameParts, FrameTypeOK, LoaderIsAt
  <2>3. IsInjective(stackbase') /\ SharedOut(ToSet(stackbase'), HeldNow', kernelHeap')
    BY <2>1, FramesStay
  <2> QED
    BY <2>2, <2>3 DEF FrameParts
<1>2. ASSUME NEW p \in Programs, LoadBegins(p) PROVE FrameParts'
  <2>1. /\ loader = "idle" /\ loader' = "pop" /\ space[p] = "none" /\ stackbase # <<>>
        /\ space' = [space EXCEPT ![p] = "loads"] /\ loading' = p /\ top' = Given(1, 1)
        /\ UNCHANGED <<stackbase, pagedir, maps, kernelTable, kernelHeap, window, thread>> /\ FrameParts
    BY <1>2 DEF LoadBegins, Loads, Calm, FrameInv
  <2>2. FrameTypeOK /\ LoaderIsAt /\ IsInjective(stackbase) /\ top' \in Frames
    BY <2>1, OnePop DEF FrameParts
  <2>3. /\ space' \in [Programs -> {"none", "loads", "lives", "freed"}] /\ space'[p] = "loads"
        /\ \A q \in Programs \ {p} : space'[q] = space[q]
    BY <2>1, <2>2 DEF FrameTypeOK
  <2>4. FrameTypeOK'
    BY <2>1, <2>2, <2>3 DEF FrameTypeOK
  <2>5. LoaderIsAt'
    BY <2>1, <2>2, <2>3 DEF LoaderIsAt
  <2>6. IsInjective(stackbase') /\ SharedOut(ToSet(stackbase'), HeldNow', kernelHeap')
    <3>1. \A q \in Programs : (IF space'[q] = "freed" THEN NoFrame ELSE pagedir'[q])
                                = IF space[q] = "freed" THEN NoFrame ELSE pagedir[q]
      BY <2>1, <2>3
    <3> QED
      BY <2>1, <3>1, FramesStay
  <2> QED
    BY <2>4, <2>5, <2>6 DEF FrameParts
<1>3. CASE TurnsWindow \/ LoadClears
  <2>1. /\ UNCHANGED <<stackbase, space, pagedir, maps, kernelTable, kernelHeap, loading, top>> /\ FrameParts
        /\ \/ loader = "turn" /\ loader' = "clear"
           \/ loader = "again" /\ loader' = "reserve"
           \/ loader = "clear" /\ loader' = "commit"
        /\ window' = window \/ window' = pagedir[loading]
    <3>1. CASE TurnsWindow
      <4>1. /\ \/ loader = "turn" /\ loader' = "clear"
               \/ loader = "again" /\ loader' = "reserve"
            /\ Calm
        <5>1. Loads("turn", "clear") \/ Loads("again", "reserve")
          BY <3>1 DEF TurnsWindow
        <5>2. CASE Loads("turn", "clear")
          BY <5>2 DEF Loads
        <5>3. CASE Loads("again", "reserve")
          BY <5>3 DEF Loads
        <5> QED
          BY <5>1, <5>2, <5>3
      <4>2. /\ UNCHANGED <<stackbase, space, pagedir, maps, kernelTable, kernelHeap, loading, top>>
            /\ window' = pagedir[loading]
        BY <3>1 DEF TurnsWindow, spaceVars
      <4> QED
        BY <4>1, <4>2 DEF FrameInv
    <3>2. CASE LoadClears
      BY <3>2 DEF LoadClears, Loads, Calm, FrameInv, spaceVars
    <3> QED
      BY <1>3, <3>1, <3>2
  <2>2. FrameTypeOK /\ LoaderIsAt /\ loading \in Programs /\ pagedir[loading] \in Frames
    BY <2>1 DEF FrameParts, LoaderIsAt
  <2>3. FrameTypeOK'
    BY <2>1, <2>2 DEF FrameTypeOK
  <2>4. LoaderIsAt'
    BY <2>1, <2>2 DEF LoaderIsAt
  <2>5. IsInjective(stackbase') /\ SharedOut(ToSet(stackbase'), HeldNow', kernelHeap')
    BY <2>1, FramesStay
  <2> QED
    BY <2>3, <2>4, <2>5 DEF FrameParts
<1>4. CASE LoadPops
  BY <1>4, LoaderGetsDirectory DEF LoadPops, Loads, Calm, FrameInv
<1>5. CASE LoadCommits
  BY <1>5, LoaderCommits DEF LoadCommits, Loads, Calm, FrameInv
<1>6. CASE LoadReserves
  BY <1>6, LoaderReserves DEF LoadReserves, Loads, Calm, FrameInv
<1>7. CASE LoadCreates
  BY <1>7, LoaderCreates DEF LoadCreates, Loads, Calm, FrameInv
<1>8. ASSUME NEW p \in Programs, PageFault(p) PROVE FrameParts'
  BY <1>8, PageIsCommitted DEF PageFault, Calm, FrameInv
<1>9. CASE sbrk
  BY <1>9, HeapGrows DEF sbrk, Calm, FrameInv
<1>10. ASSUME NEW p \in Programs, StartsThread(p) PROVE FrameParts'
  <2>1. /\ UNCHANGED <<stackbase, space, pagedir, maps, kernelTable, kernelHeap, loader, loading, top, window>>
        /\ FrameParts
    BY <1>10 DEF StartsThread, Calm, FrameInv, spaceVars, loaderVars
  <2>2. FrameTypeOK' /\ LoaderIsAt'
    BY <2>1 DEF FrameParts, FrameTypeOK, LoaderIsAt
  <2>3. IsInjective(stackbase') /\ SharedOut(ToSet(stackbase'), HeldNow', kernelHeap')
    BY <2>1, FramesStay
  <2> QED
    BY <2>2, <2>3 DEF FrameParts
<1>11. ASSUME NEW p \in Programs, EndsThread(p) PROVE FrameParts'
  <2>1. /\ UNCHANGED <<stackbase, maps, kernelTable, kernelHeap, loader, loading, top, window>> /\ FrameParts
        /\ space' = [space EXCEPT ![p] = IF space[p] = "freed" THEN "none" ELSE space[p]]
        /\ pagedir' = [pagedir EXCEPT ![p] = IF space[p] = "freed" THEN NoFrame ELSE pagedir[p]]
    BY <1>11 DEF EndsThread, Calm, FrameInv, loaderVars
  <2>2. FrameTypeOK /\ LoaderIsAt
    BY <2>1 DEF FrameParts
  <2>3. CASE space[p] # "freed"
    <3>1. space' = space /\ pagedir' = pagedir
      BY <2>1, <2>2, <2>3 DEF FrameTypeOK
    <3>2. FrameTypeOK' /\ LoaderIsAt'
      BY <2>1, <2>2, <3>1 DEF FrameTypeOK, LoaderIsAt
    <3>3. IsInjective(stackbase') /\ SharedOut(ToSet(stackbase'), HeldNow', kernelHeap')
      BY <2>1, <3>1, FramesStay
    <3> QED
      BY <3>2, <3>3 DEF FrameParts
  <2>4. CASE space[p] = "freed"
    <3>1. /\ space' \in [Programs -> {"none", "loads", "lives", "freed"}] /\ space'[p] = "none"
          /\ pagedir' \in [Programs -> Frames \cup {NoFrame}] /\ pagedir'[p] = NoFrame
          /\ \A q \in Programs \ {p} : space'[q] = space[q] /\ pagedir'[q] = pagedir[q]
      BY <2>1, <2>2, <2>4 DEF FrameTypeOK
    <3>2. FrameTypeOK'
      BY <2>1, <2>2, <3>1 DEF FrameTypeOK
    <3>3. LoaderIsAt'
      <4>1. loader # "idle" => loading # p /\ loading \in Programs
        BY <2>2, <2>4 DEF LoaderIsAt
      <4> QED
        BY <2>1, <2>2, <2>4, <3>1, <4>1 DEF LoaderIsAt
    <3>4. \A q \in Programs : (IF space'[q] = "freed" THEN NoFrame ELSE pagedir'[q])
                                = IF space[q] = "freed" THEN NoFrame ELSE pagedir[q]
      BY <2>4, <3>1
    <3>5. IsInjective(stackbase') /\ SharedOut(ToSet(stackbase'), HeldNow', kernelHeap')
      BY <2>1, <3>4, FramesStay
    <3> QED
      BY <3>2, <3>3, <3>5 DEF FrameParts
  <2> QED
    BY <2>3, <2>4
<1>12. ASSUME NEW p \in Programs, FreesProcess(p) PROVE FrameParts'
  BY <1>12, ProcessIsFreed DEF FreesProcess, Calm, FrameInv
<1>13. ASSUME NEW p \in Programs, ThreadRuns(p) PROVE FrameParts'
  <2>1. {"dangling"} # {}
    OBVIOUS
  <2> QED
    BY <1>13, <2>1 DEF ThreadRuns
<1> QED
  BY <1>1, <1>2, <1>3, <1>4, <1>5, <1>6, <1>7, <1>8, <1>9, <1>10, <1>11, <1>12, <1>13
     DEF FrameNext, FramesStop

\* The numbers up to n are n many.
LEMMA UpTo == \A n \in Nat : IsFiniteSet(1 .. n) /\ Cardinality(1 .. n) = n
<1> SUFFICES ASSUME NEW n \in Nat PROVE IsFiniteSet(1 .. n) /\ Cardinality(1 .. n) = n
  OBVIOUS
<1>1. n \in Int /\ 1 \in Int
  OBVIOUS
<1>2. IsFiniteSet(1 .. n) /\ Cardinality(1 .. n) = IF 1 > n THEN 0 ELSE n - 1 + 1
  BY <1>1, FS_Interval
<1> QED
  BY <1>2

\* As many frames are shared out as there are.
LEMMA FramesCount ==
  ASSUME FrameParts
  PROVE  Len(stackbase) + Cardinality(Holding) + Cardinality(kernelHeap) = Len(Detected)
<1> USE FrameAssumption DEF FrameAssumption
<1> DEFINE free == ToSet(stackbase)
           used == {Held(h) : h \in Holding}
<1>0. /\ stackbase \in Seq(Frames) /\ IsInjective(stackbase) /\ kernelHeap \subseteq Frames
      /\ SharedOut(free, HeldNow, kernelHeap)
  BY DEF FrameParts, FrameTypeOK
<1>1. IsFiniteSet(Frames) /\ Cardinality(Frames) = Len(Detected)
  <2>1. Len(Detected) \in Nat /\ DOMAIN Detected = 1 .. Len(Detected) /\ Detected \in [1 .. Len(Detected) -> Frames]
    OBVIOUS
  <2>2. Detected \in Surjection(1 .. Len(Detected), Frames)
    BY <2>1 DEF Surjection, Frames, ToSet
  <2>3. Detected \in Injection(1 .. Len(Detected), Frames)
    BY <2>1 DEF Injection
  <2>4. IsFiniteSet(1 .. Len(Detected)) /\ Cardinality(1 .. Len(Detected)) = Len(Detected)
    BY <2>1, UpTo
  <2> QED
    BY <2>2, <2>3, <2>4, FS_Surjection
<1>2. IsFiniteSet(free) /\ Cardinality(free) = Len(stackbase)
  <2>1. Len(stackbase) \in Nat /\ DOMAIN stackbase = 1 .. Len(stackbase) /\ stackbase \in [1 .. Len(stackbase) -> free]
    BY <1>0 DEF ToSet
  <2>2. stackbase \in Surjection(1 .. Len(stackbase), free)
    BY <2>1 DEF Surjection, ToSet
  <2>3. stackbase \in Injection(1 .. Len(stackbase), free)
    BY <1>0, <2>1 DEF Injection
  <2>4. IsFiniteSet(1 .. Len(stackbase)) /\ Cardinality(1 .. Len(stackbase)) = Len(stackbase)
    BY <2>1, UpTo
  <2> QED
    BY <2>2, <2>3, <2>4, FS_Surjection
<1>3. IsFiniteSet(used) /\ Cardinality(used) = Cardinality(Holding)
  <2> DEFINE f == [h \in Holding |-> Held(h)]
  <2>1. used \subseteq Frames
    BY DEF Holding
  <2>2. IsFiniteSet(used)
    BY <1>1, <2>1, FS_Subset
  <2>3. \A g, h \in Holding : Held(g) = Held(h) => g = h
    <3> SUFFICES ASSUME NEW g \in Holding, NEW h \in Holding, Held(g) = Held(h) PROVE g = h
      OBVIOUS
    <3>1. g \in Holders /\ h \in Holders /\ Held(g) \in Frames
      BY DEF Holding
    <3>2. HeldNow[g] = Held(g) /\ HeldNow[h] = Held(h)
      BY <3>1 DEF HeldNow
    <3> QED
      BY <1>0, <3>1, <3>2 DEF SharedOut
  <2>4. f \in Injection(Holding, used)
    BY <2>3 DEF Injection, IsInjective
  <2>5. f \in Surjection(Holding, used)
    BY DEF Surjection
  <2> QED
    BY <2>2, <2>4, <2>5, FS_Injection
<1>4. IsFiniteSet(kernelHeap)
  BY <1>0, <1>1, FS_Subset
<1>5. used \cap free = {} /\ used \cap kernelHeap = {} /\ free \cap kernelHeap = {}
  <2>1. ASSUME NEW h \in Holding PROVE Held(h) \notin free \cup kernelHeap
    <3>1. h \in Holders /\ HeldNow[h] = Held(h)
      BY DEF Holding, HeldNow
    <3> QED
      BY <1>0, <3>1 DEF SharedOut
  <2>2. free \cap kernelHeap = {}
    BY <1>0 DEF SharedOut
  <2> QED
    BY <2>1, <2>2
<1>6. (free \cup used) \cup kernelHeap = Frames
  <2>1. ASSUME NEW x \in Frames PROVE x \in (free \cup used) \cup kernelHeap
    <3>1. CASE x \in free \cup kernelHeap
      BY <3>1
    <3>2. CASE \E h \in Holders : HeldNow[h] = x
      <4>1. PICK h \in Holders : HeldNow[h] = x
        BY <3>2
      <4>2. Held(h) = x
        BY <4>1 DEF HeldNow
      <4>3. h \in Holding
        BY <4>2 DEF Holding
      <4> QED
        BY <4>2, <4>3
    <3> QED
      BY <1>0, <3>1, <3>2 DEF SharedOut
  <2>2. free \subseteq Frames /\ kernelHeap \subseteq Frames
    BY <1>0 DEF SharedOut
  <2>3. used \subseteq Frames
    BY DEF Holding
  <2> QED
    BY <2>1, <2>2, <2>3
<1> HIDE DEF free, used
<1>7. /\ IsFiniteSet(free \cup used)
      /\ Cardinality(free \cup used) = Cardinality(free) + Cardinality(used) - Cardinality(free \cap used)
  BY <1>2, <1>3, FS_Union
<1>8. Cardinality(Frames) = Cardinality(free \cup used) + Cardinality(kernelHeap)
                              - Cardinality((free \cup used) \cap kernelHeap)
  BY <1>4, <1>6, <1>7, FS_Union
<1>9. free \cap used = {} /\ (free \cup used) \cap kernelHeap = {}
  BY <1>5
<1>10. Cardinality(free) \in Nat /\ Cardinality(used) \in Nat /\ Cardinality(kernelHeap) \in Nat
  BY <1>2, <1>3, <1>4, FS_CardinalityType
<1>11. Cardinality(free \cap used) = 0 /\ Cardinality((free \cup used) \cap kernelHeap) = 0
  BY <1>9, FS_EmptySet
<1> QED
  BY <1>1, <1>2, <1>3, <1>7, <1>8, <1>10, <1>11

\* For any programs and any memory, whatever is loaded, committed, freed and preempted:
\* until memory runs out, the loader is preempted inside mempop or with its window turned
\* and somebody else pops or turns it, or a thread runs in a freed directory, every frame
\* is on the stack or in use, in one place only, and none is lost.
THEOREM AccountedFrames == FrameSpec => []FramesAreAccountedFor
<1> USE FrameAssumption DEF FrameAssumption
<1>1. ASSUME FrameInit PROVE FrameInv
  <2> USE <1>1 DEF FrameInit
  <2>1. FrameTypeOK
    BY DEF FrameTypeOK, Unmapped
  <2>2. LoaderIsAt
    BY DEF LoaderIsAt
  <2>3. IsInjective(stackbase)
    OBVIOUS
  <2>4. \A h \in Holders : HeldNow[h] = NoFrame
    <3>1. HeldNow[<<"kernel", "table">>] = NoFrame
      BY HoldersAre
    <3>2. ASSUME NEW p \in Programs PROVE HeldNow[<<p, "dir">>] = NoFrame
      BY HoldersAre
    <3>3. ASSUME NEW p \in Programs, NEW x \in Tables \cup Pages PROVE HeldNow[<<p, x>>] = NoFrame
      BY HoldersAre DEF Unmapped
    <3> QED
      BY <3>1, <3>2, <3>3, HoldersAre
  <2>5. SharedOut(ToSet(stackbase), HeldNow, kernelHeap)
    BY <2>4 DEF SharedOut, Frames
  <2> QED
    BY <2>1, <2>2, <2>3, <2>5 DEF FrameInv, FrameParts
<1>2. ASSUME FrameInv PROVE FramesAreAccountedFor
  <2> SUFFICES ASSUME Calm, FrameParts
               PROVE  /\ FrameTypeOK
                      /\ Len(stackbase) + Cardinality(Holding) + Cardinality(kernelHeap) = Len(Detected)
                      /\ ToSet(stackbase) \cup {Held(h) : h \in Holding} \cup kernelHeap = Frames
    BY <1>2 DEF FrameInv, FramesAreAccountedFor
  <2>1. FrameTypeOK /\ SharedOut(ToSet(stackbase), HeldNow, kernelHeap)
    BY DEF FrameParts
  <2>2. ASSUME NEW x \in Frames PROVE x \in ToSet(stackbase) \cup {Held(h) : h \in Holding} \cup kernelHeap
    <3>1. CASE x \in ToSet(stackbase) \cup kernelHeap
      BY <3>1
    <3>2. CASE \E h \in Holders : HeldNow[h] = x
      <4>1. PICK h \in Holders : HeldNow[h] = x
        BY <3>2
      <4>2. Held(h) = x
        BY <4>1 DEF HeldNow
      <4>3. h \in Holding
        BY <4>2 DEF Holding
      <4> QED
        BY <4>2, <4>3
    <3> QED
      BY <2>1, <3>1, <3>2 DEF SharedOut
  <2>3. ToSet(stackbase) \subseteq Frames /\ kernelHeap \subseteq Frames
    BY <2>1 DEF SharedOut
  <2>4. {Held(h) : h \in Holding} \subseteq Frames
    BY DEF Holding
  <2> QED
    BY <2>1, <2>2, <2>3, <2>4, FramesCount
<1> QED
  BY <1>1, <1>2, FramesKeep, PTL DEF FrameSpec
------------------------------------------------------------------------------
\* The screens of the consoles.

\* Where a screen is drawn.
Places == {"hdw_ptr", "mem_ptr"}
\* What a console, and what the manager, can be at; and where the manager draws apart.
ConsoleSteps == {"nothing", "cleared", "put", "cursor", "newline", "clear", "scroll", "wipe", "move"}
Buffered == {"clear", "put", "cursor", "newline", "out", "copy", "pointer", "outmode"}
ManagerSteps == {"nothing", "in", "inmode", "keys"} \cup Buffered

\* The values of the variables.
ScreensType ==
  /\ buf_ptr \in [AllScreens -> Places] /\ bufmode \in [AllScreens -> BOOLEAN]
  /\ ActiveDDL \in AllScreens
  /\ picture \in [AllScreens -> BOOLEAN] /\ display \in BOOLEAN /\ cursor \in BOOLEAN
  /\ drawing \in [AllScreens -> ConsoleSteps \cup ManagerSteps]
  /\ vidmemloc \in [AllScreens -> Seq(Places)]

\* Pointers are kept only by who is about to store.
PointersAreUsed ==
  \A p \in AllScreens :
    \/ vidmemloc[p] = <<>> /\ drawing[p] \notin {"scroll", "wipe"}
    \/ Len(vidmemloc[p]) = 1 /\ drawing[p] \in {"put", "clear", "scroll", "wipe"}
    \/ Len(vidmemloc[p]) = 2 /\ drawing[p] = "scroll"

\* The part of the promise about the consoles.
ConsolesAreWhole ==
  \A d \in Consoles :
    /\ ~bufmode[d] /\ drawing[d] \in ConsoleSteps
    /\ IF d = ActiveDDL THEN display ELSE picture[d]
    /\ (buf_ptr[d] = "hdw_ptr") = (d = ActiveDDL)
    /\ d = ActiveDDL /\ drawing[d] = "nothing" => cursor

\* The manager has copied out what it drew, and nobody has drawn over it.
ManagerIsOut ==
  \/ drawing[Manager] \in {"pointer", "outmode"}
  \/ drawing[Manager] \in {"keys", "nothing"} /\ ~bufmode[Manager]
ManagerIsWhole ==
  /\ drawing[Manager] \in ManagerSteps
  /\ drawing[Manager] \in Buffered => bufmode[Manager]
  /\ drawing[Manager] \in {"pointer", "outmode"} => picture[Manager]
  /\ ManagerIsOut => IF ActiveDDL = Manager THEN display ELSE picture[Manager]

\* What holds until a store went astray, and the invariant of the screens.
ScreensParts == ScreensType /\ PointersAreUsed /\ ConsolesAreWhole /\ ManagerIsWhole
ScreensInv == smudged = {} => ScreensParts

\* Another screen becomes the active one, whoever is drawing.
LEMMA SwitchKeeps ==
  ASSUME ScreensParts, NEW d \in AllScreens, fg_setforeground(d), vidmemloc' = vidmemloc,
         \/ drawing' = drawing
         \/ drawing[Manager] = "keys" /\ drawing' = [drawing EXCEPT ![Manager] = "nothing"]
  PROVE  ScreensParts'
<1> USE ScreensAssumption DEF ScreensAssumption
<1>0. /\ ScreensType /\ PointersAreUsed /\ ConsolesAreWhole /\ ManagerIsWhole
      /\ Manager \in AllScreens /\ Consoles \subseteq AllScreens
      /\ \A c \in AllScreens : c \in Consoles \/ c = Manager
  BY DEF ScreensParts, AllScreens
<1>d. /\ drawing' \in [AllScreens -> ConsoleSteps \cup ManagerSteps]
      /\ \A c \in Consoles : drawing'[c] = drawing[c]
      /\ \/ drawing'[Manager] = drawing[Manager]
         \/ drawing[Manager] = "keys" /\ drawing'[Manager] = "nothing"
  BY <1>0 DEF ScreensType, ConsoleSteps
<1>e. PointersAreUsed'
  <2> SUFFICES ASSUME NEW p \in AllScreens
               PROVE  \/ vidmemloc'[p] = <<>> /\ drawing'[p] \notin {"scroll", "wipe"}
                      \/ Len(vidmemloc'[p]) = 1 /\ drawing'[p] \in {"put", "clear", "scroll", "wipe"}
                      \/ Len(vidmemloc'[p]) = 2 /\ drawing'[p] = "scroll"
    BY DEF PointersAreUsed
  <2> QED
    BY <1>0, <1>d DEF PointersAreUsed
<1>1. CASE d = ActiveDDL /\ UNCHANGED <<pictureVars, pointerVars>>
  <2>1. UNCHANGED <<picture, display, cursor, buf_ptr, bufmode, ActiveDDL>>
    BY <1>1 DEF pictureVars, pointerVars
  <2>2. ScreensType'
    BY <1>0, <1>d, <2>1 DEF ScreensType
  <2>3. ConsolesAreWhole'
    BY <1>0, <1>d, <2>1 DEF ConsolesAreWhole
  <2>4. ManagerIsWhole'
    BY <1>0, <1>d, <2>1 DEF ManagerIsWhole, ManagerIsOut, ManagerSteps, Buffered
  <2> QED
    BY <1>e, <2>2, <2>3, <2>4 DEF ScreensParts
<1>2. CASE SetActiveDDL(d)
  <2> DEFINE old == ActiveDDL
  <2>1. /\ d # old /\ ActiveDDL' = d /\ display' = picture[d] /\ cursor' = ~bufmode[d] /\ bufmode' = bufmode
        /\ picture' = IF bufmode[old] THEN picture ELSE [picture EXCEPT ![old] = display]
        /\ buf_ptr' = [buf_ptr EXCEPT ![d] = "hdw_ptr",
                                      ![old] = IF bufmode[old] THEN buf_ptr[old] ELSE "mem_ptr"]
    BY <1>0, <1>2 DEF SetActiveDDL, ScreensType
  <2>2. /\ picture' \in [AllScreens -> BOOLEAN]
        /\ picture'[old] = (IF bufmode[old] THEN picture[old] ELSE display)
        /\ \A c \in AllScreens \ {old} : picture'[c] = picture[c]
    <3>1. CASE bufmode[old]
      BY <1>0, <2>1, <3>1 DEF ScreensType
    <3>2. CASE ~bufmode[old]
      BY <1>0, <2>1, <3>2 DEF ScreensType
    <3> QED
      BY <3>1, <3>2
  <2>3. /\ buf_ptr' \in [AllScreens -> Places] /\ buf_ptr'[d] = "hdw_ptr"
        /\ ~bufmode[old] => buf_ptr'[old] = "mem_ptr"
        /\ \A c \in AllScreens \ {d, old} : buf_ptr'[c] = buf_ptr[c]
    <3>1. (IF bufmode[old] THEN buf_ptr[old] ELSE "mem_ptr") \in Places
      BY <1>0 DEF ScreensType, Places
    <3>2. "hdw_ptr" \in Places
      BY DEF Places
    <3> QED
      BY <1>0, <2>1, <3>1, <3>2 DEF ScreensType
  <2>4. ScreensType'
    <3>1. display' \in BOOLEAN /\ cursor' \in BOOLEAN /\ bufmode' \in [AllScreens -> BOOLEAN]
      BY <1>0, <2>1 DEF ScreensType
    <3> QED
      BY <1>0, <1>d, <2>1, <2>2, <2>3, <3>1 DEF ScreensType
  <2>5. ConsolesAreWhole'
    <3> SUFFICES ASSUME NEW c \in Consoles
                 PROVE  /\ ~bufmode'[c] /\ drawing'[c] \in ConsoleSteps
                        /\ IF c = ActiveDDL' THEN display' ELSE picture'[c]
                        /\ (buf_ptr'[c] = "hdw_ptr") = (c = ActiveDDL')
                        /\ c = ActiveDDL' /\ drawing'[c] = "nothing" => cursor'
      BY DEF ConsolesAreWhole
    <3>1. /\ ~bufmode[c] /\ drawing[c] \in ConsoleSteps
          /\ IF c = old THEN display ELSE picture[c]
          /\ (buf_ptr[c] = "hdw_ptr") = (c = old)
      BY <1>0 DEF ConsolesAreWhole
    <3>2. CASE c = d
      BY <1>d, <2>1, <2>3, <3>1, <3>2
    <3>3. CASE c = old
      BY <1>0, <1>d, <2>1, <2>2, <2>3, <3>1, <3>3
    <3>4. CASE c # d /\ c # old
      BY <1>0, <1>d, <2>1, <2>2, <2>3, <3>1, <3>4
    <3> QED
      BY <3>2, <3>3, <3>4
  <2>6. ManagerIsWhole'
    <3>1. /\ drawing'[Manager] \in ManagerSteps
          /\ drawing'[Manager] \in Buffered => bufmode'[Manager]
      BY <1>0, <1>d, <2>1 DEF ManagerIsWhole, ManagerSteps, Buffered
    <3>2. ManagerIsOut' => ManagerIsOut
      BY <1>d, <2>1 DEF ManagerIsOut
    <3>3. ManagerIsOut => IF d = Manager THEN display' ELSE picture'[Manager]
      <4>1. CASE d = Manager
        BY <1>0, <2>1, <4>1 DEF ManagerIsWhole
      <4>2. CASE d # Manager /\ old # Manager
        BY <1>0, <2>2, <4>2 DEF ManagerIsWhole
      <4>3. CASE d # Manager /\ old = Manager
        <5>1. ManagerIsOut => display /\ (bufmode[Manager] => picture[Manager])
          BY <1>0, <4>3 DEF ManagerIsWhole, ManagerIsOut
        <5> QED
          BY <2>2, <4>3, <5>1
      <4> QED
        BY <4>1, <4>2, <4>3
    <3>4. drawing[Manager] \in {"pointer", "outmode"} => picture'[Manager]
      <4>1. CASE old # Manager
        BY <1>0, <2>2, <4>1 DEF ManagerIsWhole
      <4>2. CASE old = Manager
        BY <1>0, <2>2, <4>2 DEF ManagerIsWhole, Buffered
      <4> QED
        BY <4>1, <4>2
    <3>5. drawing'[Manager] \in {"pointer", "outmode"} => drawing[Manager] \in {"pointer", "outmode"}
      BY <1>d
    <3> QED
      BY <2>1, <3>1, <3>2, <3>3, <3>4, <3>5 DEF ManagerIsWhole
  <2> QED
    BY <1>e, <2>4, <2>5, <2>6 DEF ScreensParts
<1> QED
  BY <1>1, <1>2 DEF fg_setforeground

\* The stores of one who draws.
LEMMA DrawingKeeps ==
  ASSUME ScreensParts, NEW p \in AllScreens, Draws(p), smudged' = {}
  PROVE  ScreensParts'
<1> USE ScreensAssumption DEF ScreensAssumption
<1>0. /\ ScreensType /\ PointersAreUsed /\ ConsolesAreWhole /\ ManagerIsWhole
      /\ Manager \in AllScreens /\ Consoles \subseteq AllScreens
      /\ \A c \in AllScreens : c \in Consoles \/ c = Manager
  BY DEF ScreensParts, AllScreens
<1> DEFINE what == drawing[p]
           place == Last(vidmemloc[p])
           next == drawing'[p]
<1>1. vidmemloc[p] # <<>> /\ Len(vidmemloc[p]) >= Pointers(what)
  BY DEF Draws
<1>2. /\ what \in {"put", "clear", "scroll", "wipe"} /\ vidmemloc[p] \in Seq(Places)
      /\ \/ Len(vidmemloc[p]) = 1 /\ what # "scroll"
         \/ Len(vidmemloc[p]) = 2 /\ what = "scroll"
  <2>1. /\ \/ Len(vidmemloc[p]) = 1 /\ what \in {"put", "clear", "scroll", "wipe"}
           \/ Len(vidmemloc[p]) = 2 /\ what = "scroll"
        /\ vidmemloc[p] \in Seq(Places)
    BY <1>0, <1>1 DEF PointersAreUsed, ScreensType
  <2>2. what = "scroll" => Pointers(what) = 2
    BY DEF Pointers
  <2>3. what = "scroll" => ~(Len(vidmemloc[p]) = 1)
    <3> SUFFICES ASSUME what = "scroll", Len(vidmemloc[p]) = 1 PROVE FALSE
      OBVIOUS
    <3>1. Len(vidmemloc[p]) >= Pointers(what) /\ Pointers(what) = 2
      BY <1>1, <2>2
    <3>2. 1 >= 2
      BY <3>1
    <3> QED
      BY <3>2
  <2> QED
    BY <2>1, <2>3
<1>3. place \in Places /\ Front(vidmemloc[p]) \in Seq(Places) /\ Len(Front(vidmemloc[p])) = Len(vidmemloc[p]) - 1
  <2>1. ASSUME NEW s \in Seq(Places), Len(s) \in {1, 2}
        PROVE  /\ s[Len(s)] \in Places /\ SubSeq(s, 1, Len(s) - 1) \in Seq(Places)
               /\ Len(SubSeq(s, 1, Len(s) - 1)) = Len(s) - 1
    <3>1. Len(s) \in 1 .. Len(s) /\ Len(s) - 1 \in 0 .. Len(s)
      BY <2>1
    <3>2. s[Len(s)] \in Places
      BY <3>1
    <3>3. SubSeq(s, 1, Len(s) - 1) \in Seq(Places) /\ Len(SubSeq(s, 1, Len(s) - 1)) = Len(s) - 1
      BY <2>1, <3>1
    <3> QED
      BY <3>2, <3>3
  <2>2. Len(vidmemloc[p]) \in {1, 2}
    BY <1>2
  <2> QED
    BY <1>2, <2>1, <2>2 DEF Last, Front
<1>4. /\ UNCHANGED <<buf_ptr, bufmode, ActiveDDL>>
      /\ next \in FollowedBy(p, what) /\ drawing' = [drawing EXCEPT ![p] = next]
      /\ vidmemloc' = [vidmemloc EXCEPT ![p] = Front(vidmemloc[p])]
  <2>1. PICK to \in FollowedBy(p, what) : drawing' = [drawing EXCEPT ![p] = to]
    BY DEF Draws
  <2>2. next = to
    BY <1>0, <2>1 DEF ScreensType
  <2> QED
    BY <2>1, <2>2 DEF Draws, pointerVars
<1>5. /\ picture' = [picture EXCEPT ![p] = place = "mem_ptr" /\ (picture[p] \/ what = "clear")]
      /\ display' = IF p = ActiveDDL THEN place = "hdw_ptr" /\ (display \/ what = "clear") ELSE display
      /\ cursor' = (cursor /\ p # ActiveDDL)
  BY DEF Draws
<1>6. (p = ActiveDDL => place = buf_ptr[p]) /\ (p # ActiveDDL => place = "mem_ptr")
  <2>1. smudged' = CASE place = "hdw_ptr" /\ p # ActiveDDL -> {"astray"}
                     [] place # buf_ptr[p] /\ p = ActiveDDL -> {"unseen"}
                     [] OTHER -> {}
    BY DEF Draws
  <2>2. {"astray"} # {} /\ {"unseen"} # {}
    OBVIOUS
  <2>3. ~(place = "hdw_ptr" /\ p # ActiveDDL) /\ ~(place # buf_ptr[p] /\ p = ActiveDDL)
    BY <2>1, <2>2
  <2> QED
    BY <1>3, <2>3 DEF Places
<1>7. /\ next \in {"put", "cursor", "wipe", "cleared"}
      /\ what = "scroll" <=> next = "wipe"
      /\ p = Manager => next \in {"put", "cursor"}
  <2>1. p = Manager => what \in {"put", "clear"}
    BY <1>0, <1>2 DEF ManagerIsWhole, ManagerSteps, Buffered
  <2>2. CASE what = "put"
    BY <1>4, <2>1, <2>2 DEF FollowedBy
  <2>3. CASE what = "scroll"
    BY <1>4, <2>1, <2>3 DEF FollowedBy
  <2>4. CASE what = "wipe"
    BY <1>4, <2>1, <2>4 DEF FollowedBy
  <2>5. CASE what = "clear"
    BY <1>4, <2>1, <2>5 DEF FollowedBy
  <2> QED
    BY <1>2, <2>2, <2>3, <2>4, <2>5
<1> HIDE DEF what, place, next
<1>8. /\ drawing' \in [AllScreens -> ConsoleSteps \cup ManagerSteps] /\ drawing'[p] = next
      /\ \A q \in AllScreens \ {p} : drawing'[q] = drawing[q]
  BY <1>0, <1>4, <1>7 DEF ScreensType, ConsoleSteps
<1>9. /\ vidmemloc' \in [AllScreens -> Seq(Places)] /\ vidmemloc'[p] = Front(vidmemloc[p])
      /\ \A q \in AllScreens \ {p} : vidmemloc'[q] = vidmemloc[q]
  BY <1>0, <1>3, <1>4 DEF ScreensType
<1>10. /\ picture' \in [AllScreens -> BOOLEAN]
       /\ picture'[p] = (place = "mem_ptr" /\ (picture[p] \/ what = "clear"))
       /\ \A q \in AllScreens \ {p} : picture'[q] = picture[q]
  BY <1>0, <1>5 DEF ScreensType
<1>11. ScreensType'
  <2>1. display' \in BOOLEAN /\ cursor' \in BOOLEAN
    BY <1>0, <1>5 DEF ScreensType
  <2> QED
    BY <1>0, <1>4, <1>8, <1>9, <1>10, <2>1 DEF ScreensType
<1>12. PointersAreUsed'
  <2> SUFFICES ASSUME NEW q \in AllScreens
               PROVE  \/ vidmemloc'[q] = <<>> /\ drawing'[q] \notin {"scroll", "wipe"}
                      \/ Len(vidmemloc'[q]) = 1 /\ drawing'[q] \in {"put", "clear", "scroll", "wipe"}
                      \/ Len(vidmemloc'[q]) = 2 /\ drawing'[q] = "scroll"
    BY DEF PointersAreUsed
  <2>1. CASE q # p
    BY <1>0, <1>8, <1>9, <2>1 DEF PointersAreUsed
  <2>2. CASE q = p /\ what = "scroll"
    <3>1. Len(Front(vidmemloc[p])) = 1
      BY <1>2, <1>3, <2>2
    <3>2. drawing'[q] = "wipe" /\ vidmemloc'[q] = Front(vidmemloc[p])
      BY <1>7, <1>8, <1>9, <2>2
    <3> QED
      BY <3>1, <3>2
  <2>3. CASE q = p /\ what # "scroll"
    <3>1. Len(Front(vidmemloc[p])) = 0 /\ Front(vidmemloc[p]) \in Seq(Places)
      BY <1>2, <1>3, <2>3
    <3>2. Front(vidmemloc[p]) = <<>>
      BY <3>1
    <3> QED
      BY <1>7, <1>8, <1>9, <2>3, <3>2
  <2> QED
    BY <2>1, <2>2, <2>3
<1>13. ConsolesAreWhole'
  <2> SUFFICES ASSUME NEW c \in Consoles
               PROVE  /\ ~bufmode'[c] /\ drawing'[c] \in ConsoleSteps
                      /\ IF c = ActiveDDL' THEN display' ELSE picture'[c]
                      /\ (buf_ptr'[c] = "hdw_ptr") = (c = ActiveDDL')
                      /\ c = ActiveDDL' /\ drawing'[c] = "nothing" => cursor'
    BY DEF ConsolesAreWhole
  <2>1. /\ ~bufmode[c] /\ drawing[c] \in ConsoleSteps
        /\ IF c = ActiveDDL THEN display ELSE picture[c]
        /\ (buf_ptr[c] = "hdw_ptr") = (c = ActiveDDL)
        /\ c = ActiveDDL /\ drawing[c] = "nothing" => cursor
    BY <1>0 DEF ConsolesAreWhole
  <2>2. /\ ~bufmode'[c] /\ (buf_ptr'[c] = "hdw_ptr") = (c = ActiveDDL')
    BY <1>4, <2>1
  <2>3. CASE c # p
    <3>1. drawing'[c] = drawing[c] /\ picture'[c] = picture[c]
      BY <1>0, <1>8, <1>10, <2>3
    <3>2. c = ActiveDDL => display' = display /\ cursor' = cursor
      BY <1>0, <1>5, <2>3 DEF ScreensType
    <3> QED
      BY <1>4, <2>1, <2>2, <3>1, <3>2
  <2>4. CASE c = p /\ p = ActiveDDL
    <3>1. place = "hdw_ptr" /\ display'
      BY <1>5, <1>6, <2>1, <2>4
    <3>2. drawing'[c] \in ConsoleSteps /\ drawing'[c] # "nothing"
      BY <1>7, <1>8, <2>4 DEF ConsoleSteps
    <3> QED
      BY <1>4, <2>2, <2>4, <3>1, <3>2
  <2>5. CASE c = p /\ p # ActiveDDL
    <3>1. picture'[c]
      BY <1>6, <1>10, <2>1, <2>5
    <3>2. drawing'[c] \in ConsoleSteps
      BY <1>7, <1>8, <2>5 DEF ConsoleSteps
    <3> QED
      BY <1>4, <2>2, <2>5, <3>1, <3>2
  <2> QED
    BY <2>3, <2>4, <2>5
<1>14. ManagerIsWhole'
  <2>1. CASE p = Manager
    <3>1. bufmode[Manager]
      BY <1>0, <1>2, <2>1 DEF ManagerIsWhole, ManagerSteps, Buffered, what
    <3>2. drawing'[Manager] \in {"put", "cursor"}
      BY <1>7, <1>8, <2>1
    <3> QED
      BY <1>4, <3>1, <3>2 DEF ManagerIsWhole, ManagerIsOut, ManagerSteps, Buffered
  <2>2. CASE p # Manager
    <3>1. drawing'[Manager] = drawing[Manager] /\ picture'[Manager] = picture[Manager]
      BY <1>0, <1>8, <1>10, <2>2
    <3>2. ActiveDDL = Manager => display' = display
      BY <1>5, <2>2
    <3> QED
      BY <1>0, <1>4, <3>1, <3>2 DEF ManagerIsWhole, ManagerIsOut
  <2> QED
    BY <2>1, <2>2
<1> QED
  BY <1>11, <1>12, <1>13, <1>14 DEF ScreensParts

\* A step that switches nothing, draws nothing and changes only what one process is at.
LEMMA ProcessGoes ==
  ASSUME ScreensParts, NEW p \in AllScreens, NEW to \in ConsoleSteps \cup ManagerSteps,
         drawing' = [drawing EXCEPT ![p] = to],
         UNCHANGED <<picture, display, buf_ptr, bufmode, ActiveDDL>>,
         cursor' \in BOOLEAN, cursor' = cursor \/ cursor' = (p = ActiveDDL),
         p \in Consoles => to \in ConsoleSteps /\ (p = ActiveDDL /\ to = "nothing" => cursor'),
         p = Manager => /\ drawing[p] \in ManagerSteps /\ to \in ManagerSteps
                        /\ to \in Buffered => bufmode[p]
                        /\ to \notin {"pointer", "outmode", "nothing"}
                        /\ to = "keys" => bufmode[p],
         cursor' = cursor \/ p = ActiveDDL,
         vidmemloc' \in [AllScreens -> Seq(Places)],
         \A q \in AllScreens \ {p} : vidmemloc'[q] = vidmemloc[q],
         \/ vidmemloc'[p] = <<>> /\ to \notin {"scroll", "wipe"}
         \/ Len(vidmemloc'[p]) = 1 /\ to \in {"put", "clear", "scroll", "wipe"}
         \/ Len(vidmemloc'[p]) = 2 /\ to = "scroll"
  PROVE  ScreensParts'
<1> USE ScreensAssumption DEF ScreensAssumption
<1>0. /\ ScreensType /\ PointersAreUsed /\ ConsolesAreWhole /\ ManagerIsWhole
      /\ Manager \in AllScreens /\ Consoles \subseteq AllScreens
      /\ \A c \in AllScreens : c \in Consoles \/ c = Manager
  BY DEF ScreensParts, AllScreens
<1>1. /\ drawing' \in [AllScreens -> ConsoleSteps \cup ManagerSteps] /\ drawing'[p] = to
      /\ \A q \in AllScreens \ {p} : drawing'[q] = drawing[q]
  BY <1>0 DEF ScreensType
<1>2. ScreensType'
  BY <1>0, <1>1 DEF ScreensType
<1>3. PointersAreUsed'
  <2> SUFFICES ASSUME NEW q \in AllScreens
               PROVE  \/ vidmemloc'[q] = <<>> /\ drawing'[q] \notin {"scroll", "wipe"}
                      \/ Len(vidmemloc'[q]) = 1 /\ drawing'[q] \in {"put", "clear", "scroll", "wipe"}
                      \/ Len(vidmemloc'[q]) = 2 /\ drawing'[q] = "scroll"
    BY DEF PointersAreUsed
  <2>1. CASE q = p
    BY <1>1, <2>1
  <2>2. CASE q # p
    BY <1>0, <1>1, <2>2 DEF PointersAreUsed
  <2> QED
    BY <2>1, <2>2
<1>4. ConsolesAreWhole'
  <2> SUFFICES ASSUME NEW c \in Consoles
               PROVE  /\ ~bufmode'[c] /\ drawing'[c] \in ConsoleSteps
                      /\ IF c = ActiveDDL' THEN display' ELSE picture'[c]
                      /\ (buf_ptr'[c] = "hdw_ptr") = (c = ActiveDDL')
                      /\ c = ActiveDDL' /\ drawing'[c] = "nothing" => cursor'
    BY DEF ConsolesAreWhole
  <2>1. CASE c = p
    BY <1>0, <1>1, <2>1 DEF ConsolesAreWhole
  <2>2. CASE c # p
    <3>1. drawing'[c] = drawing[c]
      BY <1>0, <1>1, <2>2
    <3>2. c = ActiveDDL => cursor' = cursor
      BY <2>2
    <3> QED
      BY <1>0, <3>1, <3>2 DEF ConsolesAreWhole
  <2> QED
    BY <2>1, <2>2
<1>5. ManagerIsWhole'
  <2>1. CASE p = Manager
    BY <1>0, <1>1, <2>1 DEF ManagerIsWhole, ManagerIsOut, ManagerSteps, Buffered
  <2>2. CASE p # Manager
    <3>1. drawing'[Manager] = drawing[Manager]
      BY <1>0, <1>1, <2>2
    <3> QED
      BY <1>0, <3>1 DEF ManagerIsWhole, ManagerIsOut
  <2> QED
    BY <2>1, <2>2
<1> QED
  BY <1>2, <1>3, <1>4, <1>5 DEF ScreensParts

\* A step of the manager's own loop.
LEMMA ManagerGoes ==
  ASSUME ScreensParts, NEW to \in ManagerSteps \ {"scroll", "wipe"},
         drawing' = [drawing EXCEPT ![Manager] = to],
         drawing[Manager] \notin {"put", "clear", "scroll", "wipe"},
         UNCHANGED <<cursor, ActiveDDL, vidmemloc>>,
         NEW whole \in BOOLEAN, NEW place \in Places, NEW buffered \in BOOLEAN,
         picture' = [picture EXCEPT ![Manager] = whole],
         buf_ptr' = [buf_ptr EXCEPT ![Manager] = place],
         bufmode' = [bufmode EXCEPT ![Manager] = buffered],
         display' \in BOOLEAN, ActiveDDL # Manager => display' = display,
         to \in Buffered => buffered,
         to \in {"pointer", "outmode"} => whole,
         to \in {"pointer", "outmode"} \/ (to \in {"keys", "nothing"} /\ ~buffered)
           => IF ActiveDDL = Manager THEN display' ELSE whole
  PROVE  ScreensParts'
<1> USE ScreensAssumption DEF ScreensAssumption
<1>0. /\ ScreensType /\ PointersAreUsed /\ ConsolesAreWhole
      /\ Manager \in AllScreens /\ Consoles \subseteq AllScreens /\ Manager \notin Consoles
  BY DEF ScreensParts, AllScreens
<1>1. /\ drawing' \in [AllScreens -> ConsoleSteps \cup ManagerSteps] /\ drawing'[Manager] = to
      /\ \A q \in AllScreens \ {Manager} : drawing'[q] = drawing[q]
  BY <1>0 DEF ScreensType
<1>2. /\ picture' \in [AllScreens -> BOOLEAN] /\ picture'[Manager] = whole
      /\ \A q \in AllScreens \ {Manager} : picture'[q] = picture[q]
  BY <1>0 DEF ScreensType
<1>3. /\ buf_ptr' \in [AllScreens -> Places]
      /\ \A q \in AllScreens \ {Manager} : buf_ptr'[q] = buf_ptr[q]
  BY <1>0 DEF ScreensType
<1>4. /\ bufmode' \in [AllScreens -> BOOLEAN] /\ bufmode'[Manager] = buffered
      /\ \A q \in AllScreens \ {Manager} : bufmode'[q] = bufmode[q]
  BY <1>0 DEF ScreensType
<1>5. ScreensType'
  BY <1>0, <1>1, <1>2, <1>3, <1>4 DEF ScreensType
<1>6. PointersAreUsed'
  BY <1>0, <1>1 DEF PointersAreUsed
<1>7. ConsolesAreWhole'
  <2> SUFFICES ASSUME NEW c \in Consoles
               PROVE  /\ ~bufmode'[c] /\ drawing'[c] \in ConsoleSteps
                      /\ IF c = ActiveDDL' THEN display' ELSE picture'[c]
                      /\ (buf_ptr'[c] = "hdw_ptr") = (c = ActiveDDL')
                      /\ c = ActiveDDL' /\ drawing'[c] = "nothing" => cursor'
    BY DEF ConsolesAreWhole
  <2>1. c \in AllScreens \ {Manager}
    BY <1>0
  <2>2. /\ drawing'[c] = drawing[c] /\ picture'[c] = picture[c]
        /\ buf_ptr'[c] = buf_ptr[c] /\ bufmode'[c] = bufmode[c]
    BY <1>1, <1>2, <1>3, <1>4, <2>1
  <2>3. c = ActiveDDL => display' = display
    BY <2>1
  <2> QED
    BY <1>0, <2>2, <2>3 DEF ConsolesAreWhole
<1>8. ManagerIsWhole'
  BY <1>1, <1>2, <1>4 DEF ManagerIsWhole, ManagerIsOut
<1> QED
  BY <1>5, <1>6, <1>7, <1>8 DEF ScreensParts

\* Every step of the screens keeps their invariant.
LEMMA ScreensKeep == ScreensInv /\ [ScreensNext]_screenVars => ScreensInv'
<1> USE ScreensAssumption DEF ScreensAssumption
<1> SUFFICES ASSUME ScreensInv, [ScreensNext]_screenVars, smudged' = {} PROVE ScreensParts'
  BY DEF ScreensInv
<1>1. CASE UNCHANGED screenVars
  <2>1. /\ UNCHANGED <<picture, display, cursor, buf_ptr, bufmode, ActiveDDL, drawing, vidmemloc>>
        /\ ScreensParts
    BY <1>1 DEF screenVars, pictureVars, pointerVars, ScreensInv
  <2>2. ScreensType' /\ PointersAreUsed' /\ ConsolesAreWhole' /\ ManagerIsWhole'
    BY <2>1 DEF ScreensParts, ScreensType, PointersAreUsed, ConsolesAreWhole, ManagerIsWhole, ManagerIsOut
  <2> QED
    BY <2>2 DEF ScreensParts
<1>2. CASE smudged # {}
  <2>1. UNCHANGED screenVars
    BY <1>2 DEF ScreensNext, HotKey, fg_set_state, fg_toggle_off, ReadsPointer, Draws, Begins, NextLn,
                ShowsCursor, move_cursor, SwapsIn, PointsAt, SetsMode, SwapsOut, CopiesOut, PicksConsole,
                ScreensStop, Goes
  <2> QED
    BY <1>1, <2>1
<1>3. CASE smudged = {} /\ ScreensNext
  <2> USE <1>3
  <2>0. /\ ScreensParts /\ ScreensType /\ PointersAreUsed /\ ConsolesAreWhole /\ ManagerIsWhole
        /\ Manager \in AllScreens /\ Consoles \subseteq AllScreens
        /\ \A c \in AllScreens : c \in Consoles \/ c = Manager
    BY DEF ScreensInv, ScreensParts, AllScreens
  <2>t. /\ cursor \in BOOLEAN /\ vidmemloc \in [AllScreens -> Seq(Places)]
        /\ buf_ptr \in [AllScreens -> Places] /\ ActiveDDL \in AllScreens
    BY <2>0 DEF ScreensType
  <2>k. \A p \in AllScreens : drawing[p] \notin {"put", "clear", "scroll", "wipe"} => vidmemloc[p] = <<>>
    BY <2>0 DEF PointersAreUsed
  <2>m. /\ drawing[Manager] \in ManagerSteps
        /\ drawing[Manager] \in Buffered => bufmode[Manager]
    BY <2>0 DEF ManagerIsWhole
  <2>c. \A p \in Consoles : ~bufmode[p] /\ drawing[p] \in ConsoleSteps
    BY <2>0 DEF ConsolesAreWhole
  <2>1. CASE HotKey
    <3>1. PICK d \in Consoles : SetActiveDDL(d)
      BY <2>1 DEF HotKey
    <3>2. d \in AllScreens /\ fg_setforeground(d) /\ vidmemloc' = vidmemloc /\ drawing' = drawing
      BY <2>0, <2>1, <3>1 DEF HotKey, fg_setforeground
    <3> QED
      BY <2>0, <3>2, SwitchKeeps
  <2>2. CASE fg_set_state
    <3>1. fg_setforeground(Manager) /\ vidmemloc' = vidmemloc /\ drawing' = drawing
      BY <2>2 DEF fg_set_state
    <3> QED
      BY <2>0, <3>1, SwitchKeeps
  <2>3. CASE fg_toggle_off
    <3>1. UNCHANGED <<picture, display, cursor, buf_ptr, bufmode, ActiveDDL, drawing, vidmemloc>>
      BY <2>3 DEF fg_toggle_off, pictureVars, pointerVars
    <3>2. ScreensType' /\ PointersAreUsed' /\ ConsolesAreWhole' /\ ManagerIsWhole'
      BY <2>0, <3>1 DEF ScreensType, PointersAreUsed, ConsolesAreWhole, ManagerIsWhole, ManagerIsOut
    <3> QED
      BY <3>2 DEF ScreensParts
  <2>4. ASSUME NEW p \in AllScreens, ReadsPointer(p) PROVE ScreensParts'
    <3>1. /\ Len(vidmemloc[p]) < Pointers(drawing[p])
          /\ vidmemloc' = [vidmemloc EXCEPT ![p] = Append(vidmemloc[p], buf_ptr[p])]
          /\ UNCHANGED <<picture, display, cursor, buf_ptr, bufmode, ActiveDDL, drawing>>
      BY <2>4 DEF ReadsPointer, pictureVars, pointerVars
    <3>2. Append(vidmemloc[p], buf_ptr[p]) \in Seq(Places)
      BY <2>t
    <3>3. Len(Append(vidmemloc[p], buf_ptr[p])) = Len(vidmemloc[p]) + 1
      BY <2>t
    <3>4. \/ vidmemloc[p] = <<>> /\ drawing[p] \in {"put", "clear"}
          \/ Len(vidmemloc[p]) = 1 /\ drawing[p] = "scroll"
      <4>1. \/ vidmemloc[p] = <<>> /\ drawing[p] \notin {"scroll", "wipe"}
            \/ Len(vidmemloc[p]) = 1 /\ drawing[p] \in {"put", "clear", "scroll", "wipe"}
            \/ Len(vidmemloc[p]) = 2 /\ drawing[p] = "scroll"
        BY <2>0 DEF PointersAreUsed
      <4>2. /\ drawing[p] \in {"put", "clear"} => Pointers(drawing[p]) = 1
            /\ drawing[p] = "scroll" => Pointers(drawing[p]) = 2
            /\ drawing[p] \notin {"put", "clear", "scroll"} => Pointers(drawing[p]) = 0
        BY DEF Pointers
      <4>3. Len(vidmemloc[p]) \in Nat
        BY <2>t
      <4>4. CASE drawing[p] \notin {"put", "clear", "scroll"}
        BY <3>1, <4>2, <4>3, <4>4
      <4>5. CASE drawing[p] \in {"put", "clear"}
        <5>1. Len(vidmemloc[p]) < 1
          BY <3>1, <4>2, <4>5
        <5>2. Len(vidmemloc[p]) # 1 /\ Len(vidmemloc[p]) # 2
          BY <4>3, <5>1
        <5> QED
          BY <4>1, <4>5, <5>2
      <4>6. CASE drawing[p] = "scroll"
        <5>1. Len(vidmemloc[p]) < 2
          BY <3>1, <4>2, <4>6
        <5>2. Len(vidmemloc[p]) # 2
          BY <4>3, <5>1
        <5> QED
          BY <4>1, <4>6, <5>2
      <4> QED
        BY <4>4, <4>5, <4>6
    <3>5. /\ vidmemloc' \in [AllScreens -> Seq(Places)]
          /\ vidmemloc'[p] = Append(vidmemloc[p], buf_ptr[p])
          /\ \A q \in AllScreens \ {p} : vidmemloc'[q] = vidmemloc[q]
      BY <2>t, <3>1, <3>2
    <3>6. ScreensType' /\ ConsolesAreWhole' /\ ManagerIsWhole'
      BY <2>0, <3>1, <3>5 DEF ScreensType, ConsolesAreWhole, ManagerIsWhole, ManagerIsOut
    <3>7. PointersAreUsed'
      <4> SUFFICES ASSUME NEW q \in AllScreens
                   PROVE  \/ vidmemloc'[q] = <<>> /\ drawing'[q] \notin {"scroll", "wipe"}
                          \/ Len(vidmemloc'[q]) = 1 /\ drawing'[q] \in {"put", "clear", "scroll", "wipe"}
                          \/ Len(vidmemloc'[q]) = 2 /\ drawing'[q] = "scroll"
        BY DEF PointersAreUsed
      <4>1. CASE q # p
        BY <2>0, <3>1, <3>5, <4>1 DEF PointersAreUsed
      <4>2. CASE q = p /\ vidmemloc[p] = <<>> /\ drawing[p] \in {"put", "clear"}
        BY <3>1, <3>3, <3>5, <4>2
      <4>3. CASE q = p /\ Len(vidmemloc[p]) = 1 /\ drawing[p] = "scroll"
        BY <3>1, <3>3, <3>5, <4>3
      <4> QED
        BY <3>4, <4>1, <4>2, <4>3
    <3> QED
      BY <3>6, <3>7 DEF ScreensParts
  <2>5. ASSUME NEW p \in AllScreens, Draws(p) PROVE ScreensParts'
    BY <2>0, <2>5, DrawingKeeps
  <2>6. ASSUME NEW p \in AllScreens, Begins(p) PROVE ScreensParts'
    <3>1. PICK from \in {"nothing", "cleared"}, to \in {"put", "cursor", "newline", "clear"} : Goes(p, from, to)
      BY <2>6 DEF Begins
    <3>2. /\ p \in Consoles /\ drawing[p] \in {"nothing", "cleared"} /\ drawing' = [drawing EXCEPT ![p] = to]
          /\ UNCHANGED <<picture, display, cursor, buf_ptr, bufmode, ActiveDDL, vidmemloc>>
      BY <2>6, <3>1 DEF Begins, Goes, pictureVars, pointerVars
    <3>3. vidmemloc[p] = <<>> /\ p # Manager /\ to \in ConsoleSteps /\ to \notin {"scroll", "wipe", "nothing"}
      BY <2>k, <3>2 DEF ConsoleSteps
    <3> QED
      BY <2>0, <2>t, <3>2, <3>3, ProcessGoes
  <2>7. ASSUME NEW p \in AllScreens, NextLn(p) PROVE ScreensParts'
    <3>1. /\ drawing[p] = "newline" /\ vidmemloc[p] = <<>>
          /\ UNCHANGED <<picture, display, cursor, buf_ptr, bufmode, ActiveDDL>>
      BY <2>7, <2>k DEF NextLn, Goes, pictureVars, pointerVars
    <3>2. "put" \in ConsoleSteps /\ "put" \in ManagerSteps /\ "scroll" \in ConsoleSteps /\ "newline" \in Buffered
      BY DEF ConsoleSteps, ManagerSteps, Buffered
    <3>3. CASE Goes(p, "newline", "put") /\ UNCHANGED vidmemloc
      <4>1. drawing' = [drawing EXCEPT ![p] = "put"] /\ vidmemloc' = vidmemloc
        BY <3>3 DEF Goes
      <4>2. p = Manager => bufmode[p]
        BY <2>m, <3>1, <3>2
      <4> QED
        BY <2>0, <2>t, <2>m, <3>1, <3>2, <4>1, <4>2, ProcessGoes
    <3>4. CASE p # Manager /\ Goes(p, "newline", "scroll") /\ vidmemloc' = [vidmemloc EXCEPT ![p] = <<buf_ptr[p]>>]
      <4>1. drawing' = [drawing EXCEPT ![p] = "scroll"] /\ p \in Consoles
        BY <2>0, <3>4 DEF Goes
      <4>2. <<buf_ptr[p]>> \in Seq(Places) /\ Len(<<buf_ptr[p]>>) = 1
        BY <2>t
      <4>3. /\ vidmemloc' \in [AllScreens -> Seq(Places)] /\ Len(vidmemloc'[p]) = 1
            /\ \A q \in AllScreens \ {p} : vidmemloc'[q] = vidmemloc[q]
        BY <2>t, <3>4, <4>2
      <4> QED
        BY <2>0, <2>t, <3>1, <3>2, <3>4, <4>1, <4>3, ProcessGoes
    <3> QED
      BY <2>7, <3>3, <3>4 DEF NextLn
  <2>8. ASSUME NEW p \in AllScreens, ShowsCursor(p) PROVE ScreensParts'
    <3>1. /\ drawing[p] = "cursor" /\ vidmemloc[p] = <<>>
          /\ UNCHANGED <<picture, display, cursor, buf_ptr, bufmode, ActiveDDL, vidmemloc>>
      BY <2>8, <2>k DEF ShowsCursor, Goes, pictureVars, pointerVars
    <3>2. "cursor" \in Buffered
      BY DEF Buffered
    <3>3. CASE p = ActiveDDL /\ ~bufmode[p] /\ Goes(p, "cursor", "move")
      <4>1. drawing' = [drawing EXCEPT ![p] = "move"] /\ p \in Consoles /\ p # Manager
        BY <2>0, <2>m, <3>1, <3>2, <3>3 DEF Goes
      <4>2. "move" \in ConsoleSteps
        BY DEF ConsoleSteps
      <4> QED
        BY <2>0, <2>t, <3>1, <4>1, <4>2, ProcessGoes
    <3>4. ASSUME NEW next \in Drawn(p), p # ActiveDDL \/ bufmode[p], Goes(p, "cursor", next)
          PROVE  ScreensParts'
      <4>1. drawing' = [drawing EXCEPT ![p] = next]
        BY <3>4 DEF Goes
      <4>2. CASE p = Manager
        <5>1. next \in {"newline", "out"} /\ bufmode[p] /\ p \notin Consoles
          BY <2>m, <3>1, <3>2, <3>4, <4>2 DEF Drawn
        <5>2. next \in ManagerSteps
          BY <5>1 DEF ManagerSteps, Buffered
        <5> QED
          BY <2>0, <2>t, <2>m, <3>1, <4>1, <4>2, <5>1, <5>2, ProcessGoes
      <4>3. CASE p # Manager
        <5>1. next \in {"newline", "nothing"} /\ p \in Consoles
          BY <2>0, <3>4, <4>3 DEF Drawn
        <5>2. next \in ConsoleSteps /\ p # ActiveDDL
          BY <2>c, <3>4, <5>1 DEF ConsoleSteps
        <5> QED
          BY <2>0, <2>t, <3>1, <4>1, <4>3, <5>1, <5>2, ProcessGoes
      <4> QED
        BY <4>2, <4>3
    <3> QED
      BY <2>8, <3>3, <3>4 DEF ShowsCursor
  <2>9. ASSUME NEW p \in AllScreens, move_cursor(p) PROVE ScreensParts'
    <3>1. PICK next \in Drawn(p) : Goes(p, "move", next)
      BY <2>9 DEF move_cursor
    <3>2. /\ drawing[p] = "move" /\ vidmemloc[p] = <<>> /\ drawing' = [drawing EXCEPT ![p] = next]
          /\ UNCHANGED <<picture, display, buf_ptr, bufmode, ActiveDDL, vidmemloc>>
          /\ cursor' = (p = ActiveDDL)
      BY <2>9, <2>k, <3>1 DEF move_cursor, Goes, pointerVars
    <3>3. p = ActiveDDL
      <4>1. {"cursor"} # {}
        OBVIOUS
      <4> QED
        BY <2>9, <4>1 DEF move_cursor, Smudges
    <3>4. p \in Consoles /\ p # Manager
      <4>1. "move" \notin ManagerSteps
        BY DEF ManagerSteps, Buffered
      <4> QED
        BY <2>0, <2>m, <3>2, <4>1
    <3>5. next \in ConsoleSteps /\ next \notin {"scroll", "wipe"}
      BY <3>1, <3>4 DEF Drawn, ConsoleSteps
    <3> QED
      BY <2>0, <2>t, <3>2, <3>3, <3>4, <3>5, ProcessGoes
  <2>s. /\ ManagerSteps \cap {"scroll", "wipe"} = {}
        /\ {"in", "inmode", "clear", "copy", "pointer", "outmode", "keys", "nothing"} \subseteq ManagerSteps
        /\ {"clear", "out", "copy", "pointer", "outmode"} \subseteq Buffered
        /\ {"in", "inmode", "keys", "nothing"} \cap Buffered = {}
        /\ {"hdw_ptr", "mem_ptr"} \subseteq Places
    BY DEF ManagerSteps, Buffered, Places
  <2>u. /\ picture[Manager] \in BOOLEAN /\ buf_ptr[Manager] \in Places /\ bufmode[Manager] \in BOOLEAN
        /\ display \in BOOLEAN
        /\ picture = [picture EXCEPT ![Manager] = picture[Manager]]
        /\ buf_ptr = [buf_ptr EXCEPT ![Manager] = buf_ptr[Manager]]
        /\ bufmode = [bufmode EXCEPT ![Manager] = bufmode[Manager]]
    BY <2>0 DEF ScreensType
  <2>10. CASE SwapsIn
    <3>1. /\ drawing' = [drawing EXCEPT ![Manager] = "in"] /\ drawing[Manager] = "nothing"
          /\ picture' = [picture EXCEPT ![Manager] = display /\ ActiveDDL = Manager]
          /\ UNCHANGED <<display, cursor, buf_ptr, bufmode, ActiveDDL, vidmemloc>>
      BY <2>10 DEF SwapsIn, Goes, pointerVars
    <3>2. (display /\ ActiveDDL = Manager) \in BOOLEAN
      OBVIOUS
    <3> QED
      BY <2>0, <2>s, <2>u, <3>1, <3>2, ManagerGoes
  <2>11. ASSUME NEW from \in {"in", "pointer"}, NEW place \in Places, NEW to \in {"inmode", "outmode"},
                from = "pointer" <=> to = "outmode", PointsAt(from, place, to)
         PROVE  ScreensParts'
    <3>1. /\ drawing' = [drawing EXCEPT ![Manager] = to] /\ drawing[Manager] = from
          /\ buf_ptr' = [buf_ptr EXCEPT ![Manager] = place]
          /\ UNCHANGED <<picture, display, cursor, bufmode, ActiveDDL, vidmemloc>>
      BY <2>11 DEF PointsAt, Goes, pictureVars
    <3>2. /\ to \in Buffered => bufmode[Manager]
          /\ to = "outmode" => picture[Manager] /\ (ActiveDDL = Manager => display)
      BY <2>0, <2>11, <2>s, <3>1 DEF ManagerIsWhole, ManagerIsOut
    <3> QED
      BY <2>0, <2>11, <2>s, <2>u, <3>1, <3>2, ManagerGoes
  <2>12. CASE SetsMode("inmode", TRUE, "clear")
    <3>1. /\ drawing' = [drawing EXCEPT ![Manager] = "clear"] /\ drawing[Manager] = "inmode"
          /\ bufmode' = [bufmode EXCEPT ![Manager] = TRUE]
          /\ UNCHANGED <<picture, display, cursor, buf_ptr, ActiveDDL, vidmemloc>>
      BY <2>12 DEF SetsMode, Goes, pictureVars
    <3>2. /\ "clear" \in ManagerSteps \ {"scroll", "wipe"} /\ "clear" \notin {"pointer", "outmode", "keys", "nothing"}
          /\ TRUE \in BOOLEAN
      BY <2>s
    <3> QED
      BY <2>0, <2>u, <3>1, <3>2, ManagerGoes
  <2>13. CASE SetsMode("outmode", FALSE, "keys")
    <3>1. /\ drawing' = [drawing EXCEPT ![Manager] = "keys"] /\ drawing[Manager] = "outmode"
          /\ bufmode' = [bufmode EXCEPT ![Manager] = FALSE]
          /\ UNCHANGED <<picture, display, cursor, buf_ptr, ActiveDDL, vidmemloc>>
      BY <2>13 DEF SetsMode, Goes, pictureVars
    <3>2. IF ActiveDDL = Manager THEN display ELSE picture[Manager]
      BY <2>0, <3>1 DEF ManagerIsWhole, ManagerIsOut
    <3> QED
      BY <2>0, <2>s, <2>u, <3>1, <3>2, ManagerGoes
  <2>14. CASE SwapsOut
    <3>1. PICK to \in {"copy", "keys"} : drawing' = [drawing EXCEPT ![Manager] = to]
      BY <2>14 DEF SwapsOut, Goes
    <3>2. /\ drawing[Manager] = "out"
          /\ UNCHANGED <<picture, display, cursor, buf_ptr, bufmode, ActiveDDL, vidmemloc>>
      BY <2>14 DEF SwapsOut, Goes, pictureVars, pointerVars
    <3>3. bufmode[Manager]
      BY <2>m, <2>s, <3>2
    <3> QED
      BY <2>0, <2>s, <2>u, <3>1, <3>2, <3>3, ManagerGoes
  <2>15. CASE CopiesOut
    <3>1. /\ drawing' = [drawing EXCEPT ![Manager] = "pointer"] /\ drawing[Manager] = "copy"
          /\ display' = picture[Manager]
          /\ UNCHANGED <<picture, cursor, buf_ptr, bufmode, ActiveDDL, vidmemloc>>
      BY <2>15 DEF CopiesOut, Goes, pointerVars
    <3>2. ActiveDDL = Manager /\ picture[Manager]
      <4>1. {"display"} # {} /\ {"lines"} # {}
        OBVIOUS
      <4>2. smudged' = CASE ActiveDDL # Manager -> {"display"}
                         [] ~picture[Manager] -> {"lines"}
                         [] OTHER -> {}
        BY <2>15 DEF CopiesOut
      <4> QED
        BY <4>1, <4>2
    <3>3. bufmode[Manager]
      BY <2>m, <2>s, <3>1
    <3> QED
      BY <2>0, <2>s, <2>u, <3>1, <3>2, <3>3, ManagerGoes
  <2>16. CASE PicksConsole
    <3>1. PICK d \in Consoles \cup {ActiveDDL} : fg_setforeground(d)
      BY <2>16 DEF PicksConsole
    <3>2. /\ d \in AllScreens /\ vidmemloc' = vidmemloc
          /\ drawing[Manager] = "keys" /\ drawing' = [drawing EXCEPT ![Manager] = "nothing"]
      BY <2>0, <2>t, <2>16, <3>1 DEF PicksConsole, Goes
    <3> QED
      BY <2>0, <3>1, <3>2, SwitchKeeps
  <2>17. ~ScreensStop
    BY DEF ScreensStop
  <2>18. /\ PointsAt("in", "mem_ptr", "inmode") => ScreensParts'
         /\ PointsAt("pointer", "hdw_ptr", "outmode") => ScreensParts'
    <3>1. ASSUME PointsAt("in", "mem_ptr", "inmode") PROVE ScreensParts'
      BY <2>11, <2>s, <3>1
    <3>2. ASSUME PointsAt("pointer", "hdw_ptr", "outmode") PROVE ScreensParts'
      BY <2>11, <2>s, <3>2
    <3> QED
      BY <3>1, <3>2
  <2> QED
    BY <2>1, <2>2, <2>3, <2>4, <2>5, <2>6, <2>7, <2>8, <2>9, <2>10, <2>12, <2>13, <2>14, <2>15, <2>16,
       <2>17, <2>18 DEF ScreensNext
<1> QED
  BY <1>1, <1>2, <1>3

\* Until a store goes through a pointer that a switch made stale, and however many
\* consoles write and are switched between: what a console wrote is in the display just
\* when it is shown and in its own memory otherwise, the display's cursor is its own, and
\* what the manager copied out is all that it drew.
THEOREM SoundScreens == ScreensSpec => []ScreensAreSound
<1> USE ScreensAssumption DEF ScreensAssumption
<1>1. ScreensInit => ScreensInv
  <2> SUFFICES ASSUME ScreensInit PROVE ScreensParts
    BY DEF ScreensInv
  <2>0. Manager \in AllScreens /\ FirstScreen \in AllScreens /\ Consoles \subseteq AllScreens /\ Manager # FirstScreen
    BY DEF AllScreens
  <2>1. /\ buf_ptr \in [AllScreens -> Places] /\ \A d \in AllScreens : (buf_ptr[d] = "hdw_ptr") = (d = FirstScreen)
        /\ ActiveDDL = FirstScreen
    BY DEF ScreensInit, Places
  <2>2. ScreensType
    <3>1. <<>> \in Seq(Places) /\ "nothing" \in ConsoleSteps
      BY DEF ConsoleSteps
    <3> QED
      BY <2>0, <2>1, <3>1 DEF ScreensType, ScreensInit
  <2>3. PointersAreUsed
    BY DEF PointersAreUsed, ScreensInit
  <2>4. ConsolesAreWhole
    BY <2>0, <2>1 DEF ConsolesAreWhole, ScreensInit, ConsoleSteps
  <2>5. ManagerIsWhole
    BY <2>0, <2>1 DEF ManagerIsWhole, ManagerIsOut, ScreensInit, ManagerSteps, Buffered
  <2> QED
    BY <2>2, <2>3, <2>4, <2>5 DEF ScreensParts
<1>2. ScreensInv => ScreensAreSound
  <2> SUFFICES ASSUME ScreensInv, smudged = {} PROVE ScreensAreSound
    BY DEF ScreensAreSound
  <2> QED
    BY DEF ScreensInv, ScreensParts, ConsolesAreWhole, ManagerIsWhole, ManagerIsOut, ScreensAreSound
<1> QED
  BY <1>1, <1>2, ScreensKeep, PTL DEF ScreensSpec
==============================================================================
