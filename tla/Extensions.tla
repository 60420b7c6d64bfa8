----------------------------- MODULE Extensions ------------------------------
(***************************************************************************)
(* The extension manager (devmgr/extension.c) and what depends on it: the  *)
(* console's command use makes a registered device the scheduler, the      *)
(* allocator or the memory manager, and the kernel's malloc and free       *)
(* (memory/kheap.c) ask the allocator that is in use.  extension_override  *)
(* is guarded by a flag that is tested and set in two steps: the model     *)
(* stops when two get past it (overtaken); they may install an allocator   *)
(* each, and the blocks of the first then go to dl_malloc.  malloc and     *)
(* free run with interrupts off.                                           *)
(*                                                                         *)
(* The heap is the sequence of blocks in the order of their addresses;     *)
(* nothing is given out at an address a second time.  realloc, which       *)
(* returns nothing that was set once the allocator was replaced for a      *)
(* block of the old one, is left out, and so are devices that the console  *)
(* does not find, whose address is -1, and the hooks of a scheduler to be  *)
(* removed: the one scheduler there is has none and attaches to itself.    *)
(***************************************************************************)
EXTENDS Integers, Sequences

CONSTANTS Overriders,           \* processes of consoles
          Default,              \* dl_malloc, the allocator of the startup
          OtherAllocators,      \* bsd_malloc, dex_malloc
          OtherDevices,         \* default_sched, default_vmm, drivers
          MaxBlocks             \* bound: blocks of memory

ASSUME ExtensionsAssumption == Default \notin OtherAllocators /\ MaxBlocks \in Nat

Allocators == {Default} \cup OtherAllocators
Registered == Allocators \cup OtherDevices
NoBlock == "free"
NoExtension == "none"
NoBase == 0

VARIABLES
  extension_busy,
  CURRENT_MALLOC,               \* of extension_table
  auxillary_malloc_base,        \* the first address of the allocator in use
  heap,                         \* whose each block is
  using, ext,                   \* where a user is; the extension it asks for
  overtaken, refused, strayed   \* auxiliary

overrideVars == <<extension_busy, CURRENT_MALLOC, auxillary_malloc_base>>
extensionVars == <<overrideVars, heap, using, ext, overtaken, refused, strayed>>

\* alloc_init overrides the allocator with dl_malloc, and clears the base.
ExtensionsInit ==
  /\ extension_busy = FALSE
  /\ CURRENT_MALLOC = Default /\ auxillary_malloc_base = NoBase
  /\ heap = <<>>
  /\ using = [u \in Overriders |-> "idle"] /\ ext = [u \in Overriders |-> NoExtension]
  /\ overtaken = FALSE /\ refused = FALSE /\ strayed = FALSE

------------------------------------------------------------------------------
\* The allocator in use, and (Asked) the one that is asked for the block at an address.
InUse == IF auxillary_malloc_base = NoBase THEN Default ELSE CURRENT_MALLOC

\* Mutant: every block goes to the allocator in use.
AskedInUse(address) == InUse

Asked(address) == IF address < auxillary_malloc_base THEN Default ELSE InUse

malloc ==
  /\ ~overtaken /\ Len(heap) < MaxBlocks
  /\ heap' = Append(heap, InUse)
  /\ UNCHANGED <<overrideVars, using, ext, overtaken, refused, strayed>>

\* The model has no more blocks; the kernel goes on.
HeapBound == Len(heap) = MaxBlocks /\ UNCHANGED extensionVars

free(address) ==
  /\ ~overtaken /\ heap[address] # NoBlock
  /\ heap' = [heap EXCEPT ![address] = NoBlock]
  /\ strayed' = (strayed \/ Asked(address) # heap[address])
  /\ UNCHANGED <<overrideVars, using, ext, overtaken, refused>>

------------------------------------------------------------------------------
Steps(u, from, to) ==
  ~overtaken /\ using[u] = from /\ using' = [using EXCEPT ![u] = to]
EndsUse(u, from) == Steps(u, from, "idle") /\ ext' = [ext EXCEPT ![u] = NoExtension]

\* use, with devmgr_getdevicebyname
Use(u, d) ==
  /\ Steps(u, "idle", "spin")
  /\ ext' = [ext EXCEPT ![u] = d]
  /\ UNCHANGED <<overrideVars, heap, overtaken, refused, strayed>>

\* while (extension_busy); extension_busy = 1;
FindsReady(u) ==
  /\ Steps(u, "spin", "set") /\ ~extension_busy
  /\ UNCHANGED <<overrideVars, heap, ext, overtaken, refused, strayed>>
InOverride(u) == using[u] \in {"type", "store", "leave"}
SetsReady(u) ==
  /\ Steps(u, "set", "type")
  /\ extension_busy' = TRUE
  /\ overtaken' = (overtaken \/ \E v \in Overriders \ {u} : InOverride(v))
  /\ UNCHANGED <<CURRENT_MALLOC, auxillary_malloc_base, heap, ext, refused, strayed>>

\* A second allocator is refused, and extension_busy stays set.
Refuses(u) ==
  /\ ext[u] \in Allocators /\ auxillary_malloc_base # NoBase
  /\ EndsUse(u, "type")
  /\ refused' = TRUE
  /\ UNCHANGED <<overrideVars, heap, overtaken, strayed>>

\* A first allocator; the others go on without a change to what is modelled: the
\* scheduler waits for the process manager's lock and replaces itself, a second memory
\* manager is not taken, and another device is none of the three.
Accepts(u) ==
  /\ IF ext[u] \in Allocators
     THEN auxillary_malloc_base = NoBase /\ Steps(u, "type", "store")
     ELSE Steps(u, "type", "leave")
  /\ UNCHANGED <<overrideVars, heap, ext, overtaken, refused, strayed>>

\* With interrupts off: auxillary_malloc_base = sbrk(0), and the table.
Installs(u) ==
  /\ Steps(u, "store", "leave")
  /\ auxillary_malloc_base' = Len(heap) + 1 /\ CURRENT_MALLOC' = ext[u]
  /\ UNCHANGED <<extension_busy, heap, ext, overtaken, refused, strayed>>

\* Mutant: the flag is left set for a device that is no extension.
LeavesBusy(u) ==
  /\ EndsUse(u, "leave")
  /\ extension_busy' = (ext[u] \in OtherDevices)
  /\ UNCHANGED <<CURRENT_MALLOC, auxillary_malloc_base, heap, overtaken, refused, strayed>>

Leaves(u) ==
  /\ EndsUse(u, "leave")
  /\ extension_busy' = FALSE
  /\ UNCHANGED <<CURRENT_MALLOC, auxillary_malloc_base, heap, overtaken, refused, strayed>>

Overrides(u) ==
  \/ FindsReady(u) \/ SetsReady(u) \/ Refuses(u) \/ Accepts(u) \/ Installs(u) \/ Leaves(u)

ExtensionsNext ==
  \/ overtaken /\ UNCHANGED extensionVars
  \/ malloc \/ HeapBound \/ \E address \in DOMAIN heap : free(address)
  \/ \E u \in Overriders : Overrides(u) \/ \E d \in Registered : Use(u, d)

\* A console's process gets the processor again and again, also while the flag is
\* clear, if it is clear again and again.
ExtensionsFairness == \A u \in Overriders : WF_extensionVars(Overrides(u)) /\ SF_extensionVars(FindsReady(u))

ExtensionsSpec == ExtensionsInit /\ [][ExtensionsNext]_extensionVars /\ ExtensionsFairness

------------------------------------------------------------------------------
\* A block of memory is given back to the allocator it came from, across a change of
\* the allocator; the flag is set just for the one who is inside, or after a
\* refusal.  So it is until two get past the flag at once.
AllocatorsAgree ==
  ~overtaken =>
    /\ ~strayed
    /\ \A address \in DOMAIN heap : heap[address] \in {NoBlock, Asked(address)}
    /\ (\E u \in Overriders : InOverride(u)) => extension_busy
    /\ extension_busy => refused \/ \E u \in Overriders : InOverride(u)

\* Every use comes to an end, if no allocator is ever refused: after that each waits
\* for ever, whatever it asks for.
UsesEnd ==
  \A u \in Overriders : using[u] # "idle" ~> (using[u] = "idle" \/ refused \/ overtaken)
==============================================================================
