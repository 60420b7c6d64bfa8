------------------------------- MODULE Keyboard -------------------------------
(***************************************************************************)
(* The queue of keys (hardware/keyboard/keyboard.c) and the virtual        *)
(* consoles that share it (console/foreground.c).  The keyboard's handler  *)
(* puts keys in or switches the foreground, between any two instructions   *)
(* of the consoles' processes, which begin with fg_register, read with     *)
(* getch and end with fg_exit.  Those are told apart by the slot of the    *)
(* console that is shown.                                                  *)
(*                                                                         *)
(* What the code does not survive, or gets wrong, is recorded in kbHarm at *)
(* the step that causes it, and the model stops there.  Keys are numbered  *)
(* in the order in which they are put in.  The handing of the keyboard to  *)
(* a program that a console runs is left out, and so are the hot keys'     *)
(* list, which only the startup changes, and the codes of the keys.        *)
(***************************************************************************)
EXTENDS Integers, FiniteSets

CONSTANTS Shells, KernelConsole, NoConsole,
          BUF_SIZE, FG_MAXCONSOLE

ASSUME KeyboardAssumption ==
  /\ KernelConsole # NoConsole /\ {KernelConsole, NoConsole} \cap Shells = {}
  /\ BUF_SIZE \in Nat \ {0, 1} /\ FG_MAXCONSOLE \in Nat \ {0}

ConsoleSlots == 0 .. FG_MAXCONSOLE - 1
KeyNumbers == 0 .. BUF_SIZE          \* one more than there can be in the queue
NextKey(k) == (k + 1) % (BUF_SIZE + 1)

VARIABLES
  data, in_ptr, out_ptr,            \* the queue
  deq_busy,
  fg_vconsoles, fg_current,         \* who has a console; the one that is shown
  step, slot,                       \* where a process is; the slot it has found
  pressed, due,                     \* the number of the next key to be put in, and taken
  kbHarm                            \* auxiliary

queueVars == <<data, in_ptr, out_ptr, pressed, due>>
consoleVars == <<fg_vconsoles, fg_current>>
keyboardVars == <<queueVars, deq_busy, consoleVars, step, slot, kbHarm>>

KeyboardInit ==
  /\ data = [i \in 0 .. BUF_SIZE - 1 |-> 0] /\ in_ptr = 0 /\ out_ptr = 0
  /\ deq_busy = FALSE
  /\ fg_vconsoles = [s \in ConsoleSlots |-> IF s = 0 THEN KernelConsole ELSE NoConsole]
  /\ fg_current = 0
  /\ step = [p \in Shells |-> "new"] /\ slot = [p \in Shells |-> 0]
  /\ pressed = 0 /\ due = 0 /\ kbHarm = {}

------------------------------------------------------------------------------
Walks(p, from, to) == step[p] = from /\ kbHarm = {} /\ step' = [step EXCEPT ![p] = to]
Spoils(what, condition) == kbHarm' = IF condition THEN {what} ELSE {}
Highest(S) == CHOOSE s \in S : \A t \in S : t <= s
Lowest(S) == CHOOSE s \in S : \A t \in S : s <= t
Used == {s \in ConsoleSlots : fg_vconsoles[s] # NoConsole}

\* The handler of a key that goes to the queue: inq, or a beep when it is full.
\* deq lets out_ptr run past the end for a moment.
kbd_irq ==
  LET temp == (in_ptr + 1) % BUF_SIZE IN
  /\ kbHarm = {} /\ temp # out_ptr
  /\ data' = [data EXCEPT ![in_ptr] = pressed] /\ in_ptr' = temp
  /\ pressed' = NextKey(pressed)
  /\ Spoils("overrun", temp = out_ptr % BUF_SIZE)
  /\ UNCHANGED <<out_ptr, due, deq_busy, consoleVars, step, slot>>

\* The hot keys of fg_prev and fg_next.
fg_prev ==
  LET below == {s \in Used : s < fg_current} IN
  /\ kbHarm = {} /\ below # {}
  /\ fg_current' = Highest(below)
  /\ UNCHANGED <<queueVars, deq_busy, fg_vconsoles, step, slot, kbHarm>>
fg_next ==
  LET above == {s \in Used : s > fg_current} IN
  /\ kbHarm = {} /\ above # {}
  /\ fg_current' = Lowest(above)
  /\ UNCHANGED <<queueVars, deq_busy, fg_vconsoles, step, slot, kbHarm>>

------------------------------------------------------------------------------
\* fg_register looks for a slot with interrupts on; its caller, console_main, takes
\* the answer that there is none for a console.
FindsSlot(p) ==
  /\ Walks(p, "new", "slot")
  /\ slot' = [slot EXCEPT ![p] = IF Used = ConsoleSlots THEN 0 ELSE Lowest(ConsoleSlots \ Used)]
  /\ Spoils("wild console", Used = ConsoleSlots)
  /\ UNCHANGED <<queueVars, deq_busy, consoleVars>>

\* ... and takes it with interrupts off; fg_setforeground shows it.
fg_register(p) ==
  /\ Walks(p, "slot", "run")
  /\ fg_vconsoles' = [fg_vconsoles EXCEPT ![slot[p]] = p]
  /\ fg_current' = slot[p]
  /\ Spoils("slot taken twice", slot[p] \in Used)
  /\ UNCHANGED <<queueVars, deq_busy, slot>>

\* Mutant: the console that was shown stays so.
ExitsShown(p) ==
  /\ Walks(p, "run", "new")
  /\ fg_vconsoles' = [s \in ConsoleSlots |-> IF fg_vconsoles[s] = p THEN NoConsole
                                             ELSE fg_vconsoles[s]]
  /\ slot' = [slot EXCEPT ![p] = 0]
  /\ UNCHANGED <<queueVars, deq_busy, fg_current, kbHarm>>

\* fg_exit calls fg_prev, also when another console is shown.
fg_exit(p) ==
  LET left == {s \in Used : fg_vconsoles[s] # p}
      below == {s \in left : s < fg_current} IN
  /\ Walks(p, "run", "new")
  /\ fg_vconsoles' = [s \in ConsoleSlots |-> IF s \in left THEN fg_vconsoles[s] ELSE NoConsole]
  /\ fg_current' = IF below = {} THEN fg_current ELSE Highest(below)
  /\ slot' = [slot EXCEPT ![p] = 0]
  /\ UNCHANGED <<queueVars, deq_busy, kbHarm>>

------------------------------------------------------------------------------
Owns(p) == fg_current = 0 \/ fg_vconsoles[fg_current] = p
InDeq(p) == step[p] \in {"look", "wrap"}

\* keyboard_wait of getch: in the kernel's console nobody waits.
keyboard_wait(p) ==
  /\ Walks(p, "run", "spin") /\ Owns(p)
  /\ UNCHANGED <<queueVars, deq_busy, consoleVars, slot, kbHarm>>

\* deq: while (deq_busy); deq_busy=1;
FindsFree(p) ==
  /\ Walks(p, "spin", "set") /\ ~deq_busy
  /\ UNCHANGED <<queueVars, deq_busy, consoleVars, slot, kbHarm>>
SetsBusy(p) ==
  /\ Walks(p, "set", "look")
  /\ deq_busy' = TRUE
  /\ Spoils("two readers", \E q \in Shells \ {p} : InDeq(q))
  /\ UNCHANGED <<queueVars, consoleVars, slot>>

FindsEmpty(p) ==
  /\ Walks(p, "look", "run") /\ out_ptr = in_ptr
  /\ deq_busy' = FALSE
  /\ UNCHANGED <<queueVars, consoleVars, slot, kbHarm>>

\* *data = q->data[q->out_ptr++], by a process whose console may not be shown any
\* more.
TakesKey(p) ==
  /\ Walks(p, "look", "wrap") /\ out_ptr # in_ptr
  /\ out_ptr' = out_ptr + 1 /\ due' = NextKey(due)
  /\ Spoils("wrong console", ~Owns(p))
  /\ UNCHANGED <<data, in_ptr, pressed, deq_busy, consoleVars, slot>>
Wraps(p) ==
  /\ Walks(p, "wrap", "run")
  /\ out_ptr' = IF out_ptr >= BUF_SIZE THEN 0 ELSE out_ptr
  /\ deq_busy' = FALSE
  /\ UNCHANGED <<data, in_ptr, pressed, due, consoleVars, slot, kbHarm>>

\* Nothing more is modelled after a harm.
KeyboardStops == kbHarm # {} /\ UNCHANGED keyboardVars

KeyboardNext ==
  \/ kbd_irq \/ fg_prev \/ fg_next
  \/ \E p \in Shells :
       \/ FindsSlot(p) \/ fg_register(p) \/ fg_exit(p)
       \/ keyboard_wait(p) \/ FindsFree(p) \/ SetsBusy(p) \/ FindsEmpty(p)
       \/ TakesKey(p) \/ Wraps(p)
  \/ KeyboardStops

KeyboardSpec == KeyboardInit /\ [][KeyboardNext]_keyboardVars

------------------------------------------------------------------------------
Waiting == (pressed - due) % (BUF_SIZE + 1)

\* Every key that was put in waits in the queue until it is taken, in order, with the
\* handler at one end and the consoles at the other and nothing but deq_busy, which
\* is set just while one of them is inside, between them.  Each console has one slot,
\* and the one that is shown exists, whichever of them ends: hot keys and owner are
\* found through it.
KeyboardIsSound ==
  kbHarm = {} =>
    /\ Waiting < BUF_SIZE /\ in_ptr = (out_ptr + Waiting) % BUF_SIZE
    /\ \A i \in 0 .. Waiting - 1 :
         data[(out_ptr + i) % BUF_SIZE] = (due + i) % (BUF_SIZE + 1)
    /\ Cardinality({p \in Shells : InDeq(p)}) = IF deq_busy THEN 1 ELSE 0
    /\ fg_current \in Used
    /\ \A p \in Shells : {s \in ConsoleSlots : fg_vconsoles[s] = p}
                           = IF step[p] \in {"new", "slot"} THEN {} ELSE {slot[p]}
==============================================================================
