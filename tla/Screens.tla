------------------------------- MODULE Screens -------------------------------
(***************************************************************************)
(* The text screens of the consoles (console/dex_DDL.c) and which of them  *)
(* is shown (console/foreground.c).  A screen is drawn in memory of its     *)
(* own or, when it is the active one, in that of the display.  Whatever    *)
(* draws reads buf_ptr into a local variable first and stores through it   *)
(* later; a hot key or another process may make another screen active in   *)
(* between.  The foreground manager draws its screen in memory and copies   *)
(* it out, over and over (the task manager of dex_taskmgr.c does the same, *)
(* without a state to look at).                                            *)
(*                                                                         *)
(* Of a picture only matters whether it is whole: whether it is all that   *)
(* its process drew.  So it is left open when a line or the screen is      *)
(* full.  Drawing that goes astray is recorded in smudged, and the model   *)
(* stops there.  Which console a hot key leads to is a matter of the slots *)
(* (Keyboard).  Several processes that write on one screen at once are     *)
(* left out.                                                               *)
(***************************************************************************)
EXTENDS Integers, Sequences, SequencesExt

CONSTANTS Consoles,             \* each is a process with its screen
          FirstScreen,          \* the one whose screen is active first
          Manager               \* the foreground manager, likewise

ASSUME ScreensAssumption == FirstScreen \in Consoles /\ Manager \notin Consoles

AllScreens == Consoles \cup {Manager}

VARIABLES
  buf_ptr, bufmode, ActiveDDL,  \* (active is set just for ActiveDDL)
  picture, display,             \* whether mem_ptr's picture of a screen is whole; that
                                \* of the active one in the display
  cursor,                       \* whether the display's is where that one writes next
  drawing, vidmemloc,           \* what a process is at; the local variables of that
                                \* name in the calls under way, the innermost last
  fg_state, smudged             \* (auxiliary)

pictureVars == <<picture, display, cursor>>
pointerVars == <<buf_ptr, bufmode, ActiveDDL>>
screenVars == <<pictureVars, pointerVars, drawing, vidmemloc, fg_state, smudged>>

ScreensInit ==
  /\ buf_ptr = [d \in AllScreens |-> IF d = FirstScreen THEN "hdw_ptr" ELSE "mem_ptr"]
  /\ bufmode = [d \in AllScreens |-> FALSE] /\ ActiveDDL = FirstScreen
  /\ picture = [d \in AllScreens |-> TRUE] /\ display = TRUE /\ cursor = TRUE
  /\ drawing = [p \in AllScreens |-> "nothing"] /\ vidmemloc = [p \in AllScreens |-> <<>>]
  /\ fg_state = FALSE /\ smudged = {}

------------------------------------------------------------------------------
Goes(p, from, to) ==
  drawing[p] = from /\ smudged = {} /\ drawing' = [drawing EXCEPT ![p] = to]
Smudges(what, condition) == smudged' = IF condition THEN {what} ELSE {}

\* Mutant: the picture of the screen that was active is not saved.
SetsUnsaved(d) ==
  /\ d # ActiveDDL
  /\ buf_ptr' = [buf_ptr EXCEPT ![d] = "hdw_ptr", ![ActiveDDL] = "mem_ptr"]
  /\ display' = picture[d] /\ ActiveDDL' = d
  /\ cursor' = ~bufmode[d]
  /\ UNCHANGED <<picture, bufmode>>

\* Dex32SetActiveDDL, called with interrupts off.
SetActiveDDL(d) ==
  LET old == ActiveDDL IN
  /\ d # old
  /\ picture' = IF bufmode[old] THEN picture ELSE [picture EXCEPT ![old] = display]
  /\ buf_ptr' = [buf_ptr EXCEPT ![d] = "hdw_ptr",
                                ![old] = IF bufmode[old] THEN @ ELSE "mem_ptr"]
  /\ display' = picture[d] /\ ActiveDDL' = d
  /\ cursor' = ~bufmode[d]
  /\ UNCHANGED bufmode

\* fg_setforeground, which leaves an active screen as it is.
fg_setforeground(d) ==
  \/ SetActiveDDL(d)
  \/ d = ActiveDDL /\ UNCHANGED <<pictureVars, pointerVars>>

\* The hot keys F11 and F12, which pass the manager's screen over; fgman or Alt-Tab; and
\* Alt-Tab once more, for which fg_before is -1, the first ret of fg_setforeground: the
\* word before fg_vconsoles is 0, or is taken for a console.
HotKey ==
  /\ smudged = {} /\ \E d \in Consoles : SetActiveDDL(d)
  /\ UNCHANGED <<drawing, vidmemloc, fg_state, smudged>>
fg_set_state ==
  /\ smudged = {} /\ fg_state' = TRUE
  /\ fg_setforeground(Manager)
  /\ UNCHANGED <<drawing, vidmemloc, smudged>>
fg_toggle_off ==
  /\ smudged = {} /\ fg_state /\ fg_state' = FALSE
  /\ smudged' \in {{}, {"wild"}}
  /\ UNCHANGED <<pictureVars, pointerVars, drawing, vidmemloc>>

------------------------------------------------------------------------------
\* What stores through one pointer, and with that of Dex32NextLn kept for later.
Pointers(what) == CASE what \in {"put", "clear"} -> 1 [] what = "scroll" -> 2 [] OTHER -> 0

\* vidmemloc = dev->buf_ptr
ReadsPointer(p) ==
  /\ smudged = {} /\ Len(vidmemloc[p]) < Pointers(drawing[p])
  /\ vidmemloc' = [vidmemloc EXCEPT ![p] = Append(@, buf_ptr[p])]
  /\ UNCHANGED <<pictureVars, pointerVars, drawing, fg_state, smudged>>

\* A character and the blank after it, or the blank that begins a line; the lines moved
\* up; and the last one wiped, before its first blank.
FollowedBy(p, what) ==
  CASE what = "put" -> {"put", "cursor"}
    [] what = "scroll" -> {"wipe"}
    [] what = "wipe" -> {"put"}
    [] what = "clear" -> IF p = Manager THEN {"put"} ELSE {"cleared"}

\* The stores through the pointer.
Draws(p) ==
  LET what == drawing[p]
      place == Last(vidmemloc[p])
      New(whole) == whole \/ what = "clear" IN
  /\ smudged = {} /\ vidmemloc[p] # <<>> /\ Len(vidmemloc[p]) >= Pointers(what)
  /\ picture' = [picture EXCEPT ![p] = place = "mem_ptr" /\ New(@)]
  /\ display' = IF p = ActiveDDL THEN place = "hdw_ptr" /\ New(display) ELSE display
  /\ cursor' = (cursor /\ p # ActiveDDL)
  /\ \E next \in FollowedBy(p, what) : drawing' = [drawing EXCEPT ![p] = next]
  /\ vidmemloc' = [vidmemloc EXCEPT ![p] = Front(@)]
  /\ smudged' = CASE place = "hdw_ptr" /\ p # ActiveDDL -> {"astray"}
                  [] place # buf_ptr[p] /\ p = ActiveDDL -> {"unseen"}
                  [] OTHER -> {}
  /\ UNCHANGED <<pointerVars, fg_state>>

------------------------------------------------------------------------------
\* Dex32PutC: of a character, of \b and \r, which only move, and of \n; and Dex32Clear,
\* which leaves the display's cursor where it is.
Begins(p) ==
  /\ p \in Consoles /\ drawing[p] \in {"nothing", "cleared"}
  /\ \E to \in {"put", "cursor", "newline", "clear"} : Goes(p, drawing[p], to)
  /\ UNCHANGED <<pictureVars, pointerVars, vidmemloc, fg_state, smudged>>

\* Dex32NextLn: its vidmemloc is for the wipe, if the screen is full, which the
\* manager's never is.
NextLn(p) ==
  /\ \/ /\ Goes(p, "newline", "put") /\ UNCHANGED vidmemloc
     \/ /\ p # Manager /\ Goes(p, "newline", "scroll")
        /\ vidmemloc' = [vidmemloc EXCEPT ![p] = <<buf_ptr[p]>>]
  /\ UNCHANGED <<pictureVars, pointerVars, fg_state, smudged>>

\* if (dev->active && !dev->bufmode), then move_cursor; a line that is full is followed
\* by the next one.
Drawn(p) == {"newline", IF p = Manager THEN "out" ELSE "nothing"}
ShowsCursor(p) ==
  /\ \/ p = ActiveDDL /\ ~bufmode[p] /\ Goes(p, "cursor", "move")
     \/ /\ p # ActiveDDL \/ bufmode[p]
        /\ \E next \in Drawn(p) : Goes(p, "cursor", next)
  /\ UNCHANGED <<pictureVars, pointerVars, vidmemloc, fg_state, smudged>>
move_cursor(p) ==
  /\ \E next \in Drawn(p) : Goes(p, "move", next)
  /\ cursor' = (p = ActiveDDL)
  /\ Smudges("cursor", p # ActiveDDL)
  /\ UNCHANGED <<picture, display, pointerVars, vidmemloc, fg_state>>

------------------------------------------------------------------------------
\* The loop of fg_updateinfo.  dd_swaptomemory has three stores: of a picture that may
\* be another's, of buf_ptr and of bufmode.
SwapsIn ==
  /\ fg_state /\ Goes(Manager, "nothing", "in")
  /\ picture' = [picture EXCEPT ![Manager] = display /\ ActiveDDL = Manager]
  /\ UNCHANGED <<display, cursor, pointerVars, vidmemloc, fg_state, smudged>>
PointsAt(from, place, to) ==
  /\ Goes(Manager, from, to)
  /\ buf_ptr' = [buf_ptr EXCEPT ![Manager] = place]
  /\ UNCHANGED <<pictureVars, bufmode, ActiveDDL, vidmemloc, fg_state, smudged>>
SetsMode(from, buffered, to) ==
  /\ Goes(Manager, from, to)
  /\ bufmode' = [bufmode EXCEPT ![Manager] = buffered]
  /\ UNCHANGED <<pictureVars, buf_ptr, ActiveDDL, vidmemloc, fg_state, smudged>>

\* dd_swaptohardware: a test, and three stores.
SwapsOut ==
  /\ Goes(Manager, "out", IF ActiveDDL = Manager THEN "copy" ELSE "keys")
  /\ UNCHANGED <<pictureVars, pointerVars, vidmemloc, fg_state, smudged>>
CopiesOut ==
  /\ Goes(Manager, "copy", "pointer")
  /\ display' = picture[Manager]
  /\ smudged' = CASE ActiveDDL # Manager -> {"display"}
                  [] ~picture[Manager] -> {"lines"}
                  [] OTHER -> {}
  /\ UNCHANGED <<picture, cursor, pointerVars, vidmemloc, fg_state>>

\* A key of the menu leads to a console, and fg_state stays as it is.
PicksConsole ==
  /\ Goes(Manager, "keys", "nothing")
  /\ \E d \in Consoles \cup {ActiveDDL} : fg_setforeground(d)
  /\ UNCHANGED <<vidmemloc, fg_state, smudged>>

\* Nothing more is modelled once something was smudged.
ScreensStop == smudged # {} /\ UNCHANGED screenVars

ScreensNext ==
  \/ HotKey \/ fg_set_state \/ fg_toggle_off
  \/ \E p \in AllScreens :
       \/ ReadsPointer(p) \/ Draws(p) \/ Begins(p) \/ NextLn(p)
       \/ ShowsCursor(p) \/ move_cursor(p)
  \/ SwapsIn \/ PointsAt("in", "mem_ptr", "inmode") \/ SetsMode("inmode", TRUE, "clear")
  \/ SwapsOut \/ CopiesOut
  \/ PointsAt("pointer", "hdw_ptr", "outmode") \/ SetsMode("outmode", FALSE, "keys")
  \/ PicksConsole
  \/ ScreensStop

ScreensSpec == ScreensInit /\ [][ScreensNext]_screenVars

------------------------------------------------------------------------------
\* Whatever is switched in between, all that a console wrote is in the display when it
\* is shown and in its own memory when it is not, where its next character goes too;
\* the display's cursor is where the console that is shown writes next, and what the
\* manager has copied out is all that it drew.  So it is until a store goes through a
\* pointer that a switch made stale, which smudged records.
ScreensAreSound ==
  smudged = {} =>
    /\ \A d \in Consoles :
         /\ IF d = ActiveDDL THEN display ELSE picture[d]
         /\ (buf_ptr[d] = "hdw_ptr") = (d = ActiveDDL)
         /\ d = ActiveDDL /\ drawing[d] = "nothing" => cursor
    /\ ActiveDDL = Manager /\ drawing[Manager] \in {"keys", "nothing"} /\ ~bufmode[Manager]
         => display
==============================================================================
