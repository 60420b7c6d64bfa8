------------------------------- MODULE MCCalls -------------------------------
(* What processes share without a lock that would cover it: the ring of the  *)
(* process manager, the dispatcher's queue, a directory, the mount points,   *)
(* the keyboard and the display.  Each behaviour is one of these, and the    *)
(* others stay as they began.  Three shells are one more than there are      *)
(* slots beside the kernel's.                                                *)
EXTENDS MCProcesses, Directories, Volumes, Keyboard, Screens
CONSTANTS v1, v2
TwoProcesses == {v1, v2}
Symmetry == Permutations(TwoProcesses)

CallsInit ==
  /\ Init /\ DispatchInit /\ DirInit /\ VolumesInit /\ KeyboardInit /\ ScreensInit
  /\ part \in {"ring", "dispatcher", "directory", "mounts", "keyboard", "screens"}
  /\ part # "directory" => onCd /\ \A n \in FileNames : entries[n] = 0

CallsNext ==
  \/ ProcessesNext /\ UNCHANGED <<dirVars, volVars, keyboardVars, screenVars>>
  \/ /\ UNCHANGED <<part, vars, dispatchVars>>
     /\ \/ part = "directory" /\ DirNext /\ UNCHANGED <<volVars, keyboardVars, screenVars>>
        \/ part = "mounts" /\ VolumesNext /\ UNCHANGED <<dirVars, keyboardVars, screenVars>>
        \/ part = "keyboard" /\ KeyboardNext /\ UNCHANGED <<dirVars, volVars, screenVars>>
        \/ part = "screens" /\ ScreensNext /\ UNCHANGED <<dirVars, volVars, keyboardVars>>

CallsSpec ==
  /\ CallsInit
  /\ [][CallsNext]_<<vars, dispatchVars, dirVars, volVars, keyboardVars, screenVars, part>>
==============================================================================
