-------------------------- MODULE SharedListsProofs --------------------------
(***************************************************************************)
(* What the consoles share behind a flag or a lock, for any number of      *)
(* them: the allocator in use (devmgr/extension.c, memory/kheap.c), the    *)
(* environment strings (process/environment.c) and the list of open files  *)
(* (vfs/vfs_core.c).                                                       *)
(***************************************************************************)
EXTENDS OpenFiles, Environment, Extensions, TLAPS, FiniteSetTheorems

------------------------------------------------------------------------------
\* The extension manager and the heap.

\* The values of the variables.
ExtensionsType ==
  /\ extension_busy \in BOOLEAN /\ overtaken \in BOOLEAN
  /\ refused \in BOOLEAN /\ strayed \in BOOLEAN
  /\ CURRENT_MALLOC \in Allocators
  /\ auxillary_malloc_base \in Nat /\ auxillary_malloc_base <= Len(heap) + 1
  /\ heap \in Seq(Allocators \cup {NoBlock})
  /\ using \in [Overriders -> {"idle", "spin", "set", "type", "store", "leave"}]
  /\ ext \in [Overriders -> Registered \cup {NoExtension}]

\* One is inside at a time, and an allocator is installed over dl_malloc only.
OneInside ==
  /\ \A u, v \in Overriders : InOverride(u) /\ InOverride(v) => u = v
  /\ \A u \in Overriders :
       using[u] = "store" => ext[u] \in Allocators /\ auxillary_malloc_base = NoBase

\* The invariant of the extensions.
ExtensionsInv == ExtensionsType /\ (~overtaken => OneInside) /\ AllocatorsAgree

\* Every step of a console's use and of the heap keeps it.
LEMMA ExtensionsStep == ExtensionsInv /\ [ExtensionsNext]_extensionVars => ExtensionsInv'
<1> SUFFICES ASSUME ExtensionsInv, [ExtensionsNext]_extensionVars PROVE ExtensionsInv'
  OBVIOUS
<1> USE DEF ExtensionsInv, ExtensionsType, OneInside, AllocatorsAgree, InOverride, overrideVars,
    Steps, EndsUse, NoBase
<1>1. CASE UNCHANGED extensionVars
  <2>1. \A address : Asked(address)' = Asked(address)
    BY <1>1 DEF extensionVars, Asked, InUse
  <2> QED
    BY <1>1, <2>1 DEF extensionVars
<1>2. CASE malloc
  <2>1. InUse \in Allocators /\ InUse \in Allocators \cup {NoBlock}
    BY DEF InUse, Allocators
  <2>2. /\ heap' \in Seq(Allocators \cup {NoBlock}) /\ Len(heap') = Len(heap) + 1
        /\ \A a \in DOMAIN heap : heap'[a] = heap[a]
        /\ heap'[Len(heap) + 1] = InUse
        /\ DOMAIN heap' = DOMAIN heap \cup {Len(heap) + 1}
    BY <1>2, <2>1 DEF malloc
  <2>3. \A a : Asked(a)' = Asked(a)
    BY <1>2 DEF malloc, Asked, InUse
  <2>4. Asked(Len(heap) + 1) = InUse
    BY DEF Asked
  <2> QED
    BY <1>2, <2>2, <2>3, <2>4 DEF malloc
<1>3. ASSUME NEW a \in DOMAIN heap, free(a) PROVE ExtensionsInv'
  <2>1. /\ heap' \in Seq(Allocators \cup {NoBlock}) /\ Len(heap') = Len(heap)
        /\ DOMAIN heap' = DOMAIN heap
        /\ \A b \in DOMAIN heap : heap'[b] \in {NoBlock, heap[b]}
    BY <1>3 DEF free
  <2>2. \A b : Asked(b)' = Asked(b)
    BY <1>3 DEF free, Asked, InUse
  <2>3. strayed' = FALSE
    BY <1>3 DEF free
  <2> QED
    BY <1>3, <2>1, <2>2, <2>3 DEF free
<1>4. ASSUME NEW u \in Overriders, NEW d \in Registered, Use(u, d) PROVE ExtensionsInv'
  <2>1. \A address : Asked(address)' = Asked(address)
    BY <1>4 DEF Use, Asked, InUse
  <2> QED
    BY <1>4, <2>1 DEF Use
<1>5. ASSUME NEW u \in Overriders, FindsReady(u) PROVE ExtensionsInv'
  <2>1. \A address : Asked(address)' = Asked(address)
    BY <1>5 DEF FindsReady, Asked, InUse
  <2> QED
    BY <1>5, <2>1 DEF FindsReady
<1>6. ASSUME NEW u \in Overriders, SetsReady(u) PROVE ExtensionsInv'
  <2>1. \A address : Asked(address)' = Asked(address)
    BY <1>6 DEF SetsReady, Asked, InUse
  <2> QED
    BY <1>6, <2>1 DEF SetsReady
<1>7. ASSUME NEW u \in Overriders, Refuses(u) PROVE ExtensionsInv'
  <2>1. \A address : Asked(address)' = Asked(address)
    BY <1>7 DEF Refuses, Asked, InUse
  <2> QED
    BY <1>7, <2>1 DEF Refuses
<1>8. ASSUME NEW u \in Overriders, Accepts(u) PROVE ExtensionsInv'
  <2>1. \A address : Asked(address)' = Asked(address)
    BY <1>8 DEF Accepts, Asked, InUse
  <2> QED
    BY <1>8, <2>1 DEF Accepts
<1>9. ASSUME NEW u \in Overriders, Installs(u) PROVE ExtensionsInv'
  <2>1. auxillary_malloc_base = NoBase /\ ext[u] \in Allocators
    BY <1>9 DEF Installs
  <2>2. \A a \in DOMAIN heap : Asked(a) = Default /\ Asked(a)' = Default
    BY <1>9, <2>1 DEF Installs, Asked, InUse
  <2> QED
    BY <1>9, <2>1, <2>2 DEF Installs
<1>10. ASSUME NEW u \in Overriders, Leaves(u) PROVE ExtensionsInv'
  <2>1. \A address : Asked(address)' = Asked(address)
    BY <1>10 DEF Leaves, Asked, InUse
  <2> QED
    BY <1>10, <2>1 DEF Leaves
<1> QED
  BY <1>1, <1>2, <1>3, <1>4, <1>5, <1>6, <1>7, <1>8, <1>9, <1>10
     DEF ExtensionsNext, Overrides, HeapBound

\* However the consoles' uses interleave with the kernel's malloc and free, up to two
\* getting past the flag at once: every block is given back to the allocator it came
\* from, and the flag is set just for the one who is inside or after a refusal.
THEOREM AgreedAllocators == ExtensionsSpec => []AllocatorsAgree
<1>1. ASSUME ExtensionsInit PROVE ExtensionsInv
  <2> USE <1>1 DEF ExtensionsInit, NoBase
  <2>1. heap \in Seq(Allocators \cup {NoBlock}) /\ auxillary_malloc_base <= Len(heap) + 1
    OBVIOUS
  <2>2. ExtensionsType
    BY <2>1 DEF ExtensionsType, Allocators
  <2>3. OneInside /\ AllocatorsAgree
    BY DEF OneInside, AllocatorsAgree, InOverride
  <2> QED
    BY <2>2, <2>3 DEF ExtensionsInv
<1>2. ExtensionsInv => AllocatorsAgree
  BY DEF ExtensionsInv
<1> QED
  BY <1>1, <1>2, ExtensionsStep, PTL DEF ExtensionsSpec

------------------------------------------------------------------------------
\* The environment strings.

\* The values of the variables.
EnvironmentType ==
  /\ env \in Seq(Variables) /\ env_busywait \in BOOLEAN
  /\ turn \in [Setters -> {"idle", "test", "enter", "search", "retest", "reenter", "store"}]
  /\ envCall \in [Setters -> EnvCalls \cup {NoEnvCall}]
  /\ rest \in [Setters -> Nat] /\ environment \in [Setters -> Nat]
  /\ \A c \in Setters : /\ rest[c] <= Len(env)
                        /\ turn[c] # "idle" => envCall[c] \in EnvCalls

\* FoundIn, with the list it is about as a parameter.
HeldIn(list, v, n) == {k \in 1..n : list[Len(list) + 1 - k] = v}
\* The last of a set of places, 0 for none; and that of a name among the first n.
Furthest(S) == IF S = {} THEN 0 ELSE CHOOSE k \in S : \A j \in S : j <= k
FoundOf(list, v, n) == Furthest(HeldIn(list, v, n))

\* What the search finds is a node of that name.
LEMMA FoundInList ==
  \A v, n : FoundIn(v, n) = FoundOf(env, v, n) /\ Holding(v, n) = HeldIn(env, v, n)
BY DEF FoundIn, FoundOf, Furthest, Holding, HeldIn, NodeAt

\* No name twice; one console inside at a time; what a search has found stands.
OneNode == \A i, j \in 1..Len(env) : env[i] = env[j] => i = j
\* One setter is inside at a time.
OneSetter ==
  /\ \A c, d \in Setters : InsideEnv(c) /\ InsideEnv(d) => c = d
  /\ env_busywait <=> \E c \in Setters : InsideEnv(c)
\* What a setter has found stays where it is.
FoundStands ==
  \A c \in Setters :
    /\ turn[c] = "idle" => rest[c] = 0 /\ environment[c] = 0
    /\ turn[c] \in {"retest", "reenter", "store"} =>
         environment[c] = FoundOf(env, envCall[c].var, rest[c])

\* The invariant of the environment.
EnvironmentInv == envHarm = {} => EnvironmentType /\ OneNode /\ OneSetter /\ FoundStands

\* A name is found at its one node, or it is not among those searched.
LEMMA FoundAtOne ==
  ASSUME EnvironmentType, OneNode, NEW v, NEW n \in 0..Len(env)
  PROVE  /\ FoundIn(v, n) \in Nat
         /\ FoundIn(v, n) = 0 <=> Holding(v, n) = {}
         /\ \A k, j \in Holding(v, n) : k = j
<1>1. \A k, j \in Holding(v, n) : k = j /\ k \in 1..n
  <2>1. \A k \in Holding(v, n) : k \in 1..n /\ NodeAt(k) \in 1..Len(env) /\ env[NodeAt(k)] = v
    BY DEF Holding, NodeAt, EnvironmentType
  <2>2. \A k, j \in Holding(v, n) : NodeAt(k) = NodeAt(j)
    BY <2>1 DEF OneNode
  <2> QED
    BY <2>1, <2>2 DEF NodeAt, EnvironmentType
<1>2. CASE Holding(v, n) = {}
  BY <1>1, <1>2 DEF FoundIn
<1>3. CASE Holding(v, n) # {}
  <2>1. PICK k \in Holding(v, n) : TRUE
    BY <1>3
  <2>2. \A j \in Holding(v, n) : j <= k
    BY <1>1
  <2>3. FoundIn(v, n) \in Holding(v, n)
    BY <1>3, <2>1, <2>2 DEF FoundIn
  <2> QED
    BY <1>1, <1>3, <2>3
<1> QED
  BY <1>2, <1>3

\* A variable that is added before the nodes searched does not change what is found.
LEMMA FoundInLonger ==
  ASSUME env \in Seq(Variables), NEW w \in Variables, NEW list, list = <<w>> \o env,
         NEW v, NEW n \in 0..Len(env)
  PROVE  FoundOf(list, v, n) = FoundOf(env, v, n)
<1>1. Len(list) = Len(env) + 1 /\ \A k \in 1..n : list[Len(list) + 1 - k] = env[Len(env) + 1 - k]
  OBVIOUS
<1>2. HeldIn(list, v, n) = HeldIn(env, v, n)
  BY <1>1 DEF HeldIn
<1> QED
  BY <1>2 DEF FoundOf

\* A store of a variable that is not there keeps the names apart.
LEMMA AddedOnce ==
  ASSUME EnvironmentType, OneNode, NEW w \in Variables, env' = <<w>> \o env,
         Holding(w, Len(env)) = {}
  PROVE  OneNode' /\ env' \in Seq(Variables) /\ Len(env') = Len(env) + 1
<1>1. /\ env \in Seq(Variables) /\ env' \in Seq(Variables) /\ Len(env') = Len(env) + 1
      /\ env'[1] = w /\ \A i \in 2..Len(env') : i - 1 \in 1..Len(env) /\ env'[i] = env[i - 1]
  BY DEF EnvironmentType
<1>2. \A i \in 1..Len(env) : env[i] # w
  <2> SUFFICES ASSUME NEW i \in 1..Len(env), env[i] = w PROVE FALSE
    OBVIOUS
  <2>1. Len(env) + 1 - i \in Holding(w, Len(env))
    BY <1>1 DEF Holding, NodeAt
  <2> QED
    BY <2>1
<1>3. ASSUME NEW i \in 1..Len(env'), NEW j \in 1..Len(env'), env'[i] = env'[j]
      PROVE  i = j
  <2>1. CASE i = 1 /\ j = 1
    BY <2>1
  <2> DEFINE later == 2..Len(env')
  <2>a. /\ \A k \in later : k - 1 \in 1..Len(env) /\ env'[k] = env[k - 1] /\ env'[k] # w
        /\ i # 1 => i \in later
        /\ j # 1 => j \in later
    BY <1>1, <1>2
  <2> HIDE DEF later
  <2>2. CASE i = 1 /\ j # 1
    BY <2>2, <2>a, <1>1, <1>3
  <2>3. CASE i # 1 /\ j = 1
    BY <2>3, <2>a, <1>1, <1>3
  <2>4. CASE i # 1 /\ j # 1
    <3>1. i - 1 = j - 1
      BY <2>4, <2>a, <1>3 DEF OneNode
    <3> QED
      BY <3>1, <1>3
  <2> QED
    BY <2>1, <2>2, <2>3, <2>4
<1> QED
  BY <1>1, <1>3 DEF OneNode

\* The end of a call keeps the types.
LEMMA CallEnds ==
  ASSUME EnvironmentType, NEW c \in Setters, EndsCall(c, turn[c]), env_busywait' = FALSE,
         env' \in Seq(Variables), Len(env) <= Len(env')
  PROVE  EnvironmentType'
<1>1. /\ turn' = [turn EXCEPT ![c] = "idle"] /\ envCall' = [envCall EXCEPT ![c] = NoEnvCall]
      /\ rest' = [rest EXCEPT ![c] = 0] /\ environment' = [environment EXCEPT ![c] = 0]
  BY DEF EndsCall, TurnsTo
<1>2. Len(env) \in Nat /\ Len(env') \in Nat
  BY DEF EnvironmentType
<1>3. /\ turn' \in [Setters -> {"idle", "test", "enter", "search", "retest", "reenter", "store"}]
      /\ envCall' \in [Setters -> EnvCalls \cup {NoEnvCall}]
      /\ rest' \in [Setters -> Nat] /\ environment' \in [Setters -> Nat]
  BY <1>1 DEF EnvironmentType
<1>4. \A d \in Setters : rest'[d] <= Len(env') /\ (turn'[d] # "idle" => envCall'[d] \in EnvCalls)
  BY <1>1, <1>2 DEF EnvironmentType
<1> QED
  BY <1>3, <1>4 DEF EnvironmentType

\* Every turn of a console and every call of a program keeps it.
LEMMA EnvironmentStep == EnvironmentInv /\ [EnvNext]_envVars => EnvironmentInv'
<1> SUFFICES ASSUME EnvironmentInv, [EnvNext]_envVars, envHarm' = {} PROVE EnvironmentInv'
  BY DEF EnvironmentInv
<1>1. CASE UNCHANGED envVars
  <2>1. env' = env
    BY <1>1 DEF envVars
  <2> QED
    BY <1>1, <2>1 DEF envVars, EnvironmentInv, EnvironmentType, OneNode, OneSetter,
       FoundStands, InsideEnv
<1>2. ASSUME EnvironmentType, OneNode, OneSetter, FoundStands,
             NEW c \in Setters, NEW call \in EnvCalls, env_getstring(c, call)
      PROVE  EnvironmentInv'
  <2>1. UNCHANGED env /\ Len(env) \in Nat
    BY <1>2 DEF env_getstring, EnvironmentType
  <2>2. env = <<>> => rest[c] = 0 /\ environment[c] = 0
    BY <1>2 DEF env_getstring, FoundStands, TurnsTo
  <2>3. \A v : FoundOf(env, v, 0) = 0
    BY DEF FoundOf, Furthest, HeldIn
  <2>4. EnvironmentType'
    <3>1. CASE env # <<>> \/ call.op = "show"
      <4>1. /\ turn' = [turn EXCEPT ![c] = "test"] /\ envCall' = [envCall EXCEPT ![c] = call]
            /\ rest' = [rest EXCEPT ![c] = Len(env)]
            /\ UNCHANGED <<env, env_busywait, environment>>
        BY <1>2, <3>1 DEF env_getstring, TurnsTo
      <4> QED
        BY <1>2, <2>1, <4>1 DEF EnvironmentType
    <3>2. CASE ~(env # <<>> \/ call.op = "show")
      BY <1>2, <2>1, <3>2 DEF env_getstring, EnvironmentType, TurnsTo
    <3> QED
      BY <3>1, <3>2
  <2>5. OneNode' /\ OneSetter'
    BY <1>2, <2>1 DEF env_getstring, EnvironmentType, TurnsTo, OneNode, OneSetter, InsideEnv
  <2>6. FoundStands'
    BY <1>2, <2>1, <2>2, <2>3 DEF env_getstring, EnvironmentType, TurnsTo, FoundStands
  <2> QED
    BY <2>4, <2>5, <2>6 DEF EnvironmentInv
<1>3. ASSUME EnvironmentType, OneNode, OneSetter, FoundStands, NEW c \in Setters, FindsIdle(c)
      PROVE  EnvironmentInv'
  <2>1. UNCHANGED env
    BY <1>3 DEF FindsIdle
  <2> QED
    BY <1>3, <2>1 DEF FindsIdle, TurnsTo, EnvironmentInv, EnvironmentType, OneNode,
       OneSetter, FoundStands, InsideEnv
<1>4. ASSUME EnvironmentType, OneNode, OneSetter, FoundStands, NEW c \in Setters, EntersList(c)
      PROVE  EnvironmentInv'
  <2>1. UNCHANGED env
    BY <1>4 DEF EntersList
  <2> QED
    BY <1>4, <2>1 DEF EntersList, TurnsTo, EnvironmentInv, EnvironmentType, OneNode,
       OneSetter, FoundStands, InsideEnv
<1>5. ASSUME EnvironmentType, OneNode, OneSetter, FoundStands, NEW c \in Setters, SearchesList(c)
      PROVE  EnvironmentInv'
  <2>1. UNCHANGED env /\ rest[c] \in 0..Len(env)
    BY <1>5 DEF SearchesList, EnvironmentType
  <2>2. /\ FoundIn(envCall[c].var, rest[c]) \in Nat
        /\ FoundIn(envCall[c].var, rest[c]) = FoundOf(env, envCall[c].var, rest[c])
    BY <1>5, <2>1, FoundAtOne, FoundInList
  <2>3. EnvironmentType'
    <3>1. CASE EndsCall(c, "search") /\ env_busywait' = FALSE
      <4>1. EndsCall(c, turn[c]) /\ Len(env) <= Len(env') /\ env' \in Seq(Variables)
        BY <1>5, <2>1, <3>1 DEF EndsCall, TurnsTo, EnvironmentType
      <4> QED
        BY <1>5, <3>1, <4>1, CallEnds
    <3>2. CASE TurnsTo(c, "search", "retest")
      <4>1. /\ turn' = [turn EXCEPT ![c] = "retest"] /\ turn[c] = "search"
            /\ environment' = [environment EXCEPT ![c] = FoundIn(envCall[c].var, rest[c])]
            /\ env_busywait' = FALSE /\ UNCHANGED <<env, envCall, rest>>
        BY <1>5, <3>2 DEF SearchesList, TurnsTo, EndsCall, EnvironmentType
      <4> QED
        BY <1>5, <2>2, <4>1 DEF EnvironmentType
    <3> QED
      BY <1>5, <3>1, <3>2 DEF SearchesList
  <2>4. OneNode' /\ OneSetter'
    BY <1>5, <2>1 DEF SearchesList, EndsCall, TurnsTo, EnvironmentType, OneNode, OneSetter,
       InsideEnv
  <2>5. FoundStands'
    BY <1>5, <2>1, <2>2 DEF SearchesList, EndsCall, TurnsTo, EnvironmentType, FoundStands
  <2> QED
    BY <2>3, <2>4, <2>5 DEF EnvironmentInv
<1>6. ASSUME EnvironmentType, OneNode, NEW call \in EnvCalls, NEW n,
             n = 0 => Holding(call.var, Len(env)) = {}, env' = Stored(call, n)
      PROVE  /\ OneNode' /\ env' \in Seq(Variables) /\ Len(env) <= Len(env')
             /\ \A v : \A m \in 0..Len(env) : FoundOf(env', v, m) = FoundOf(env, v, m)
  <2>1. CASE call.op = "set" /\ n = 0
    <3>1. call.var \in Variables /\ env' = <<call.var>> \o env
      BY <2>1, <1>6 DEF EnvCalls, Stored
    <3>2. OneNode' /\ env' \in Seq(Variables) /\ Len(env') = Len(env) + 1
      BY <1>6, <2>1, <3>1, AddedOnce
    <3>3. env \in Seq(Variables)
      BY <1>6 DEF EnvironmentType
    <3>4. \A v : \A m \in 0..Len(env) : FoundOf(env', v, m) = FoundOf(env, v, m)
      BY <3>1, <3>3, FoundInLonger
    <3>5. Len(env) \in Nat
      BY <3>3
    <3> QED
      BY <3>2, <3>4, <3>5
  <2>2. CASE ~(call.op = "set" /\ n = 0)
    <3>1. env' = env
      BY <1>6, <2>2 DEF Stored
    <3> QED
      BY <1>6, <3>1 DEF OneNode, EnvironmentType
  <2> QED
    BY <2>1, <2>2
<1>7. ASSUME EnvironmentType, OneNode, OneSetter, FoundStands, NEW c \in Setters,
             StoresVariable(c)
      PROVE  EnvironmentInv'
  <2> DEFINE call == envCall[c]
  <2>1. /\ call \in EnvCalls /\ env' = Stored(call, environment[c])
        /\ environment[c] = 0 => Holding(call.var, Len(env)) = {}
    BY <1>7 DEF StoresVariable, EndsCall, TurnsTo, EnvironmentType
  <2>2. /\ OneNode' /\ env' \in Seq(Variables) /\ Len(env) <= Len(env')
        /\ \A v : \A m \in 0..Len(env) : FoundOf(env', v, m) = FoundOf(env, v, m)
    BY <1>6, <1>7, <2>1
  <2>b. /\ turn[c] = "store" /\ turn' = [turn EXCEPT ![c] = "idle"]
        /\ envCall' = [envCall EXCEPT ![c] = NoEnvCall] /\ rest' = [rest EXCEPT ![c] = 0]
        /\ environment' = [environment EXCEPT ![c] = 0] /\ env_busywait' = FALSE
    BY <1>7 DEF StoresVariable, EndsCall, TurnsTo
  <2>a. Len(env) \in Nat /\ Len(env') \in Nat
    BY <1>7, <2>2 DEF EnvironmentType
  <2>3. EnvironmentType'
    BY <1>7, <2>2, <2>b, CallEnds DEF StoresVariable
  <2>4. OneSetter'
    BY <1>7 DEF StoresVariable, EndsCall, TurnsTo, EnvironmentType, OneSetter, InsideEnv
  <2>5. FoundStands'
    <3>1. \A d \in Setters : rest[d] \in 0..Len(env)
      BY <1>7, <2>a DEF EnvironmentType
    <3>2. \A d \in Setters : d # c =>
            /\ turn'[d] = turn[d] /\ envCall'[d] = envCall[d] /\ rest'[d] = rest[d]
            /\ environment'[d] = environment[d]
            /\ FoundOf(env', envCall[d].var, rest[d]) = FoundOf(env, envCall[d].var, rest[d])
      BY <1>7, <2>2, <2>b, <3>1 DEF EnvironmentType
    <3>3. turn'[c] = "idle" /\ rest'[c] = 0 /\ environment'[c] = 0
      BY <1>7, <2>b DEF EnvironmentType
    <3> QED
      BY <1>7, <3>2, <3>3 DEF FoundStands
  <2> QED
    BY <2>2, <2>3, <2>4, <2>5 DEF EnvironmentInv
<1>8. ASSUME EnvironmentType, OneNode, OneSetter, FoundStands, NEW call \in EnvCalls,
             SystemCall(call)
      PROVE  EnvironmentInv'
  <2>1. UNCHANGED <<env_busywait, turn, envCall, rest, environment>>
    BY <1>8 DEF SystemCall
  <2>2. Len(env) \in 0..Len(env)
    BY <1>8 DEF EnvironmentType
  <2>3. /\ OneNode' /\ env' \in Seq(Variables) /\ Len(env) <= Len(env')
        /\ \A v : \A m \in 0..Len(env) : FoundOf(env', v, m) = FoundOf(env, v, m)
    <3>1. CASE env_busywait
      BY <1>8, <3>1 DEF SystemCall, OneNode, EnvironmentType
    <3>2. CASE ~env_busywait
      <4>1. /\ env' = Stored(call, FoundIn(call.var, Len(env)))
            /\ FoundIn(call.var, Len(env)) = 0 => Holding(call.var, Len(env)) = {}
        BY <1>8, <2>2, <3>2, FoundAtOne DEF SystemCall
      <4> QED
        BY <1>6, <1>8, <4>1
    <3> QED
      BY <3>1, <3>2
  <2>4. EnvironmentType' /\ FoundStands'
    BY <1>8, <2>1, <2>3 DEF EnvironmentType, FoundStands
  <2>5. OneSetter'
    BY <1>8, <2>1 DEF OneSetter, InsideEnv
  <2> QED
    BY <2>3, <2>4, <2>5 DEF EnvironmentInv
<1>9. CASE EnvStops
  BY <1>9 DEF EnvStops, envVars
<1>10. EnvNext => EnvStops \/ envHarm = {}
  BY DEF EnvNext, env_getstring, FindsIdle, EntersList, SearchesList, StoresVariable, SystemCall,
     TurnsTo, EndsCall
<1>11. envHarm = {} => EnvironmentType /\ OneNode /\ OneSetter /\ FoundStands
  BY DEF EnvironmentInv
<1> QED
  BY <1>1, <1>2, <1>3, <1>4, <1>5, <1>7, <1>8, <1>9, <1>10, <1>11 DEF EnvNext

\* However the consoles' and the programs' calls interleave, as long as nothing is
\* recorded as a harm: a variable is on the list once, the flag is set just while one
\* console is inside, and what a search has found stands while the list grows.
THEOREM SoundEnvironment == EnvSpec => []EnvironmentIsSound
<1>1. ASSUME EnvInit PROVE EnvironmentInv
  <2> USE <1>1 DEF EnvInit
  <2>1. env \in Seq(Variables) /\ Len(env) = 0
    OBVIOUS
  <2>2. EnvironmentType
    <3>1. \A c \in Setters : rest[c] <= Len(env) /\ turn[c] = "idle"
      BY <2>1
    <3> QED
      BY <2>1, <3>1 DEF EnvironmentType
  <2>3. OneNode /\ OneSetter /\ FoundStands
    BY DEF OneNode, OneSetter, FoundStands, InsideEnv
  <2> QED
    BY <2>2, <2>3 DEF EnvironmentInv
<1>2. ASSUME EnvironmentInv PROVE EnvironmentIsSound
  <2> SUFFICES ASSUME envHarm = {}
               PROVE  /\ \A v \in Variables : Cardinality(Holding(v, Len(env))) <= 1
                      /\ Cardinality({c \in Setters : InsideEnv(c)}) =
                           IF env_busywait THEN 1 ELSE 0
    BY <1>2, FoundInList DEF EnvironmentIsSound, EnvironmentInv, FoundStands
  <2>1. EnvironmentType /\ OneNode /\ OneSetter
    BY <1>2 DEF EnvironmentInv
  <2>2. ASSUME NEW v \in Variables PROVE Cardinality(Holding(v, Len(env))) <= 1
    <3>1. \A k, j \in Holding(v, Len(env)) : k = j
      BY <2>1, FoundAtOne DEF EnvironmentType
    <3>2. CASE Holding(v, Len(env)) = {}
      BY <3>2, FS_EmptySet
    <3>3. CASE Holding(v, Len(env)) # {}
      <4>1. PICK k : Holding(v, Len(env)) = {k}
        BY <3>1, <3>3
      <4>2. Cardinality({k}) = 1
        BY FS_Singleton
      <4> QED
        BY <4>1, <4>2
    <3> QED
      BY <3>2, <3>3
  <2>3. CASE env_busywait
    <3>1. PICK d : {c \in Setters : InsideEnv(c)} = {d}
      BY <2>1, <2>3 DEF OneSetter
    <3>2. Cardinality({d}) = 1
      BY FS_Singleton
    <3> QED
      BY <2>2, <2>3, <3>1, <3>2
  <2>4. CASE ~env_busywait
    <3>1. {c \in Setters : InsideEnv(c)} = {}
      BY <2>1, <2>4 DEF OneSetter
    <3> QED
      BY <2>2, <2>4, <3>1, FS_EmptySet
  <2> QED
    BY <2>2, <2>3, <2>4
<1> QED
  BY <1>1, <1>2, EnvironmentStep, PTL DEF EnvSpec

------------------------------------------------------------------------------
\* The open files.

\* Where a process can be, and what its call can be about.
CallPlaces == {"run", "create", "fs", "rewrite", "check", "count", "insert", "inside", "uncount",
               "unlink", "remove", "fsdel", "dying", "dead"}
CallJobs == [name : Names \cup {NoNode}, mode : OpenModes, node : Nodes \cup {NoNode},
             handle : Handles \cup {NoFcb}, why : {"open", "close", "delete", "exit"}]

\* From the test of openfilex on, and while openfilex counts on the node it has found.
Windows == {"count", "insert", "inside"}
Searching == {"fs", "rewrite", "check", "count", "insert", "inside"}

\* The handles that nobody is about to unlink, and who will add one to a file.
Kept == {h \in OpenHandles : \A p \in Pids : at[p] = "unlink" => job[p].handle # h}
Inserting(d) == {p \in Pids : at[p] \in {"insert", "inside"} /\ Node(p) = d}
OnDisk(d) == \E n \in Names : entry[n] = d

\* The values of the variables.
FilesType ==
  /\ entry \in [Names -> Nodes \cup {NoNode}]
  /\ opencount \in [Nodes -> Nat] /\ locked \in [Nodes -> BOOLEAN]
  /\ fcb \in [Handles -> {NoFcb} \cup FilePCBs]
  /\ at \in [Pids -> CallPlaces] /\ job \in [Pids -> CallJobs]

\* What a call may count on at each place: above all that the file it has found is still
\* in the directory, and that a handle it closes is its own.
CallStands(p) ==
  /\ at[p] = "create" => job[p].name \in Names
  /\ at[p] \in Searching => Node(p) \in Nodes /\ OnDisk(Node(p))
  /\ at[p] \in {"uncount", "unlink"} => job[p].handle \in HandlesOf(p) /\ job[p].why # "open"
  /\ at[p] = "uncount" => fcb[job[p].handle].ptr = Node(p)
  /\ at[p] \in {"unlink", "remove", "fsdel"} => Node(p) \in Nodes
  /\ at[p] = "dead" => HandlesOf(p) = {}
CallsStand == \A p \in Pids : CallStands(p)

\* Two may use a file, if neither rewrites it and one of them only reads.
Compatible(m, n) == "write" \notin {m, n} /\ "read" \in {m, n}

\* Who holds a file, and who has passed the test of openfilex and will hold it, go
\* together; and a file that is held is in the directory.
HandlesFit ==
  /\ \A h \in Kept : \E n \in Names : entry[n] = fcb[h].ptr
  /\ \A h \in OpenHandles : fcb[h].locked <=> fcb[h].mode = "write"
  /\ \A g, h \in Kept : g # h /\ fcb[g].ptr = fcb[h].ptr => Compatible(fcb[g].mode, fcb[h].mode)
  /\ \A p, q \in Pids : /\ p # q /\ at[p] \in Windows /\ at[q] \in Windows
                        /\ Node(p) = Node(q)
                        => Compatible(job[p].mode, job[q].mode)
  /\ \A p \in Pids, h \in Kept : at[p] \in Windows /\ fcb[h].ptr = Node(p)
                        => Compatible(fcb[h].mode, job[p].mode)

\* opened counts the handles kept and to come; locked is set by a handle for writing.
CountsFit == \A d \in Nodes : opencount[d] = Cardinality(Held(d)) + Cardinality(Inserting(d))
LocksFit == \A d \in Nodes : locked[d] <=> \E h \in Kept : fcb[h].ptr = d /\ fcb[h].locked

\* vfs_busy names the one who is inside, once.
Inside(p) ==
  \/ at[p] \in {"fs", "inside"}
  \/ at[p] \in {"uncount", "unlink"} /\ job[p].why = "exit"
BusyFits ==
  /\ vfs_busy.busy \in Pids \cup {NoPid}
  /\ vfs_busy = [busy |-> vfs_busy.busy, wait |-> IF vfs_busy.busy = NoPid THEN 0 ELSE 1]
  /\ \A p \in Pids : Inside(p) <=> vfs_busy.busy = p

\* The invariant, as long as no interleaving went wrong.
FilesParts == FilesType /\ CallsStand /\ HandlesFit /\ CountsFit /\ LocksFit
OpenInv == faults = {} => FilesParts /\ BusyFits

\* The sets that the counts are about.
LEMMA HeldIs == \A d : Held(d) = {h \in Kept : fcb[h].ptr = d}
BY DEF Held, HandlesOn, Kept

\* They are finite.
LEMMA HeldIsFinite ==
  ASSUME NEW d
  PROVE  /\ IsFiniteSet(Held(d)) /\ Cardinality(Held(d)) \in Nat
         /\ IsFiniteSet(Inserting(d)) /\ Cardinality(Inserting(d)) \in Nat
<1>1. Held(d) \subseteq Handles /\ Inserting(d) \subseteq Pids
  BY DEF Held, HandlesOn, OpenHandles, Inserting
<1> QED
  BY <1>1, OpenAssumption, FS_Subset, FS_CardinalityType DEF OpenAssumption

\* A step that changes where one process is, and nothing of the files.
LEMMA CallGoes ==
  ASSUME FilesParts, NEW p \in Pids, NEW s \in CallPlaces \ {"unlink", "dead"}, NEW j \in CallJobs,
         at[p] \notin {"unlink", "dead"},
         at' = [at EXCEPT ![p] = s], job' = [job EXCEPT ![p] = j],
         UNCHANGED <<entry, opencount, locked, fcb>>,
         s \in {"insert", "inside"} <=> at[p] \in {"insert", "inside"},
         s = "create" => j.name \in Names,
         s \in Searching => j.node \in Nodes /\ OnDisk(j.node),
         s = "uncount" => j.handle \in HandlesOf(p) /\ j.why # "open" /\ fcb[j.handle].ptr = j.node,
         s \in {"remove", "fsdel"} => j.node \in Nodes,
         s \in Windows =>
           \/ at[p] \in Windows /\ j.node = job[p].node /\ j.mode = job[p].mode
           \/ /\ s = "count"
              /\ \A q \in Pids \ {p} : at[q] \in Windows /\ job[q].node = j.node
                                       => Compatible(job[q].mode, j.mode)
              /\ \A h \in Kept : fcb[h].ptr = j.node => Compatible(fcb[h].mode, j.mode)
  PROVE  FilesParts'
<1>0. FilesType /\ CallsStand /\ HandlesFit /\ CountsFit /\ LocksFit
  BY DEF FilesParts
<1>1. /\ at' \in [Pids -> CallPlaces] /\ at'[p] = s /\ \A q \in Pids \ {p} : at'[q] = at[q]
      /\ job' \in [Pids -> CallJobs] /\ job'[p] = j /\ \A q \in Pids \ {p} : job'[q] = job[q]
  BY <1>0 DEF FilesType
<1>2. FilesType'
  BY <1>0, <1>1 DEF FilesType
<1>3. /\ OpenHandles' = OpenHandles /\ Kept' = Kept
      /\ \A q : HandlesOf(q)' = HandlesOf(q)
      /\ \A d : OnDisk(d)' <=> OnDisk(d)
  BY <1>1 DEF OpenHandles, Kept, HandlesOf, OnDisk
<1>4. CallsStand'
  <2> SUFFICES ASSUME NEW q \in Pids PROVE CallStands(q)'
    BY DEF CallsStand
  <2>1. CASE q # p
    <3>1. CallStands(q) /\ at'[q] = at[q] /\ job'[q] = job[q]
      BY <1>0, <1>1, <2>1 DEF CallsStand
    <3> QED
      BY <1>3, <3>1 DEF CallStands, Node
  <2>2. CASE q = p
    BY <1>1, <1>3, <2>2 DEF CallStands, Node, Searching
  <2> QED
    BY <2>1, <2>2
<1>5. HandlesFit'
  <2>1. /\ \A h \in Kept' : \E n \in Names : entry'[n] = fcb'[h].ptr
        /\ \A h \in OpenHandles' : fcb'[h].locked <=> fcb'[h].mode = "write"
        /\ \A g, h \in Kept' : g # h /\ fcb'[g].ptr = fcb'[h].ptr
                               => Compatible(fcb'[g].mode, fcb'[h].mode)
    BY <1>0, <1>3 DEF HandlesFit
  <2>2. ASSUME NEW q \in Pids, NEW r \in Pids, q # r, at'[q] \in Windows, at'[r] \in Windows,
               job'[q].node = job'[r].node
        PROVE  Compatible(job'[q].mode, job'[r].mode)
    <3>1. CASE q # p /\ r # p
      BY <1>0, <1>1, <2>2, <3>1 DEF HandlesFit, Node
    <3>2. CASE q = p
      BY <1>0, <1>1, <2>2, <3>2 DEF HandlesFit, Node, Compatible
    <3>3. CASE r = p
      BY <1>0, <1>1, <2>2, <3>3 DEF HandlesFit, Node, Compatible
    <3> QED
      BY <3>1, <3>2, <3>3
  <2>3. ASSUME NEW q \in Pids, NEW h \in Kept', at'[q] \in Windows, fcb'[h].ptr = job'[q].node
        PROVE  Compatible(fcb'[h].mode, job'[q].mode)
    <3>1. CASE q # p
      BY <1>0, <1>1, <1>3, <2>3, <3>1 DEF HandlesFit, Node
    <3>2. CASE q = p
      BY <1>0, <1>1, <1>3, <2>3, <3>2 DEF HandlesFit, Node
    <3> QED
      BY <3>1, <3>2
  <2> QED
    BY <2>1, <2>2, <2>3 DEF HandlesFit, Node
<1>6. CountsFit'
  <2> SUFFICES ASSUME NEW d \in Nodes
               PROVE  opencount'[d] = Cardinality(Held(d)') + Cardinality(Inserting(d)')
    BY DEF CountsFit
  <2>1. Held(d)' = {h \in Kept' : fcb'[h].ptr = d}
    BY DEF Held, HandlesOn, Kept
  <2>2. Held(d) = {h \in Kept : fcb[h].ptr = d}
    BY HeldIs
  <2>3. Held(d)' = Held(d)
    BY <1>3, <2>1, <2>2
  <2>4. Inserting(d)' = Inserting(d)
    <3>1. s \in {"insert", "inside"} => j.node = job[p].node
      BY DEF Windows
    <3> QED
      BY <1>1, <3>1 DEF Inserting, Node
  <2> QED
    BY <1>0, <2>3, <2>4 DEF CountsFit
<1>7. LocksFit'
  BY <1>0, <1>3 DEF LocksFit
<1> QED
  BY <1>2, <1>4, <1>5, <1>6, <1>7 DEF FilesParts

\* What a step must leave of the others' calls.
LEMMA OtherStands ==
  ASSUME CallsStand, NEW q \in Pids, at'[q] = at[q], job'[q] = job[q],
         at[q] \in Searching => \E n \in Names : entry'[n] = job[q].node,
         at[q] \in {"uncount", "unlink"} =>
           /\ job[q].handle \in HandlesOf(q)'
           /\ fcb'[job[q].handle].ptr = fcb[job[q].handle].ptr,
         at[q] = "dead" => HandlesOf(q)' = {}
  PROVE  CallStands(q)'
BY DEF CallsStand, CallStands, OnDisk, Node

\* createfile: a node that nobody had.
LEMMA FileCreated ==
  ASSUME FilesParts, NEW p \in Pids, NEW d \in Nodes, createfile(p, d)
  PROVE  FilesParts'
<1>0. FilesType /\ CallsStand /\ HandlesFit /\ CountsFit /\ LocksFit
  BY DEF FilesParts
<1> DEFINE n == job[p].name
<1>1. /\ at[p] = "create" /\ entry[n] = NoNode /\ d \in FreeNodes
      /\ at' = [at EXCEPT ![p] = "fs"] /\ job' = [job EXCEPT ![p].node = d]
      /\ entry' = [entry EXCEPT ![n] = d]
      /\ opencount' = [opencount EXCEPT ![d] = 0] /\ locked' = [locked EXCEPT ![d] = FALSE]
      /\ fcb' = fcb
  BY DEF createfile, Goes
<1>2. n \in Names
  BY <1>0, <1>1 DEF CallsStand, CallStands
<1>3. /\ at' \in [Pids -> CallPlaces] /\ at'[p] = "fs" /\ \A q \in Pids \ {p} : at'[q] = at[q]
      /\ job' \in [Pids -> CallJobs] /\ job'[p].node = d /\ \A q \in Pids \ {p} : job'[q] = job[q]
  <2>1. "fs" \in CallPlaces
    BY DEF CallPlaces
  <2>2. [job[p] EXCEPT !.node = d] \in CallJobs /\ [job[p] EXCEPT !.node = d].node = d
    BY <1>0 DEF FilesType, CallJobs
  <2> QED
    BY <1>0, <1>1, <2>1, <2>2 DEF FilesType
<1>4. /\ entry' \in [Names -> Nodes \cup {NoNode}] /\ entry'[n] = d
      /\ \A m \in Names \ {n} : entry'[m] = entry[m]
      /\ \A e \in Nodes : (\E m \in Names : entry[m] = e) => \E m \in Names : entry'[m] = e
  BY <1>0, <1>1, <1>2, OpenAssumption DEF FilesType, OpenAssumption
<1>5. /\ opencount' \in [Nodes -> Nat] /\ opencount'[d] = 0
      /\ \A e \in Nodes \ {d} : opencount'[e] = opencount[e]
      /\ locked' \in [Nodes -> BOOLEAN] /\ locked'[d] = FALSE
      /\ \A e \in Nodes \ {d} : locked'[e] = locked[e]
  BY <1>0, <1>1 DEF FilesType
<1>6. FilesType'
  BY <1>0, <1>1, <1>3, <1>4, <1>5 DEF FilesType
<1> HIDE DEF n
<1>7. /\ OpenHandles' = OpenHandles /\ Kept' = Kept
      /\ \A q : HandlesOf(q)' = HandlesOf(q)
  BY <1>1, <1>3 DEF OpenHandles, Kept, HandlesOf
<1>8. ~\E m \in Names : entry[m] = d
  BY <1>1 DEF FreeNodes
<1>9. \A h \in Kept : fcb[h].ptr \in Nodes \ {d}
  <2> SUFFICES ASSUME NEW h \in Kept PROVE fcb[h].ptr \in Nodes \ {d}
    OBVIOUS
  <2>1. \E m \in Names : entry[m] = fcb[h].ptr
    BY <1>0 DEF HandlesFit
  <2>2. fcb[h] \in FilePCBs
    BY <1>0 DEF FilesType, Kept, OpenHandles
  <2> QED
    BY <1>8, <2>1, <2>2 DEF FilePCBs
<1>10. CallsStand'
  <2> SUFFICES ASSUME NEW q \in Pids PROVE CallStands(q)'
    BY DEF CallsStand
  <2>1. CASE q # p
    <3>1. at'[q] = at[q] /\ job'[q] = job[q] /\ CallStands(q)
      BY <1>0, <1>3, <2>1 DEF CallsStand
    <3>2. at[q] \in Searching => \E m \in Names : entry'[m] = job[q].node
      BY <1>4, <3>1 DEF CallStands, OnDisk, Node
    <3>3. at[q] \in {"uncount", "unlink"} =>
            /\ job[q].handle \in HandlesOf(q)'
            /\ fcb'[job[q].handle].ptr = fcb[job[q].handle].ptr
      BY <1>1, <1>7, <3>1 DEF CallStands
    <3>4. at[q] = "dead" => HandlesOf(q)' = {}
      BY <1>7, <3>1 DEF CallStands
    <3> QED
      BY <1>0, <3>1, <3>2, <3>3, <3>4, OtherStands
  <2>2. CASE q = p
    BY <1>2, <1>3, <1>4, <2>2 DEF CallStands, OnDisk, Node
  <2> QED
    BY <2>1, <2>2
<1>11. HandlesFit'
  <2>1. /\ \A h \in Kept' : \E m \in Names : entry'[m] = fcb'[h].ptr
        /\ \A h \in OpenHandles' : fcb'[h].locked <=> fcb'[h].mode = "write"
        /\ \A g, h \in Kept' : g # h /\ fcb'[g].ptr = fcb'[h].ptr
                               => Compatible(fcb'[g].mode, fcb'[h].mode)
    BY <1>0, <1>1, <1>4, <1>7, <1>9 DEF HandlesFit
  <2>2. \A q \in Pids : at'[q] \in Windows => q # p /\ at[q] \in Windows /\ job'[q] = job[q]
    BY <1>3 DEF Windows
  <2> QED
    BY <1>0, <1>1, <1>7, <2>1, <2>2 DEF HandlesFit, Node
<1>12. CountsFit'
  <2> SUFFICES ASSUME NEW e \in Nodes
               PROVE  opencount'[e] = Cardinality(Held(e)') + Cardinality(Inserting(e)')
    BY DEF CountsFit
  <2>1. Held(e)' = {h \in Kept' : fcb'[h].ptr = e}
    BY DEF Held, HandlesOn, Kept
  <2>2. Held(e) = {h \in Kept : fcb[h].ptr = e}
    BY HeldIs
  <2>3. Held(e)' = Held(e)
    BY <1>1, <1>7, <2>1, <2>2
  <2>4. Inserting(e)' = Inserting(e)
    BY <1>1, <1>3 DEF Inserting, Node
  <2>5. CASE e # d
    BY <1>0, <1>5, <2>3, <2>4, <2>5 DEF CountsFit
  <2>6. CASE e = d
    <3>1. Held(d) = {}
      BY <1>9, <2>2, <2>6
    <3>2. Inserting(d) = {}
      <4> SUFFICES ASSUME NEW q \in Inserting(d) PROVE FALSE
        OBVIOUS
      <4>1. q \in Pids /\ at[q] \in Searching /\ Node(q) = d
        BY DEF Inserting, Searching
      <4> QED
        BY <1>0, <1>8, <4>1 DEF CallsStand, CallStands, OnDisk
    <3> QED
      BY <1>5, <2>3, <2>4, <2>6, <3>1, <3>2, FS_EmptySet
  <2> QED
    BY <2>5, <2>6
<1>13. LocksFit'
  BY <1>0, <1>1, <1>5, <1>7, <1>9 DEF LocksFit
<1> QED
  BY <1>6, <1>10, <1>11, <1>12, <1>13 DEF FilesParts

\* The file is counted before its handle is there.
LEMMA FileCounted ==
  ASSUME FilesParts, NEW p \in Pids, Count(p)
  PROVE  FilesParts'
<1>0. FilesType /\ CallsStand /\ HandlesFit /\ CountsFit /\ LocksFit
  BY DEF FilesParts
<1> DEFINE d == job[p].node
<1>1. /\ at[p] = "count" /\ at' = [at EXCEPT ![p] = "insert"]
      /\ opencount' = [opencount EXCEPT ![d] = opencount[d] + 1]
      /\ UNCHANGED <<entry, locked, fcb, job>>
  BY DEF Count, Goes, Node
<1>2. d \in Nodes /\ OnDisk(d)
  BY <1>0, <1>1 DEF CallsStand, CallStands, Searching, Node
<1>3. /\ at' \in [Pids -> CallPlaces] /\ at'[p] = "insert" /\ \A q \in Pids \ {p} : at'[q] = at[q]
  BY <1>0, <1>1 DEF FilesType, CallPlaces
<1>4. /\ opencount' \in [Nodes -> Nat] /\ opencount'[d] = opencount[d] + 1
      /\ \A e \in Nodes \ {d} : opencount'[e] = opencount[e]
  BY <1>0, <1>1, <1>2 DEF FilesType
<1>5. FilesType'
  BY <1>0, <1>1, <1>3, <1>4 DEF FilesType
<1>6. /\ OpenHandles' = OpenHandles /\ Kept' = Kept
      /\ \A q : HandlesOf(q)' = HandlesOf(q)
  BY <1>1, <1>3 DEF OpenHandles, Kept, HandlesOf
<1>7. CallsStand'
  <2> SUFFICES ASSUME NEW q \in Pids PROVE CallStands(q)'
    BY DEF CallsStand
  <2>1. CASE q # p
    <3>1. at'[q] = at[q] /\ job'[q] = job[q] /\ CallStands(q)
      BY <1>0, <1>1, <1>3, <2>1 DEF CallsStand
    <3> QED
      BY <1>1, <1>6, <3>1 DEF CallStands, OnDisk, Node
  <2>2. CASE q = p
    BY <1>1, <1>2, <1>3, <2>2 DEF CallStands, OnDisk, Node, Searching
  <2> QED
    BY <2>1, <2>2
<1>8. HandlesFit'
  <2>1. \A q \in Pids : at'[q] \in Windows <=> at[q] \in Windows
    BY <1>1, <1>3 DEF Windows
  <2> QED
    BY <1>0, <1>1, <1>6, <2>1 DEF HandlesFit, Node
<1>9. CountsFit'
  <2> SUFFICES ASSUME NEW e \in Nodes
               PROVE  opencount'[e] = Cardinality(Held(e)') + Cardinality(Inserting(e)')
    BY DEF CountsFit
  <2>1. Held(e)' = {h \in Kept' : fcb'[h].ptr = e}
    BY DEF Held, HandlesOn, Kept
  <2>2. Held(e) = {h \in Kept : fcb[h].ptr = e}
    BY HeldIs
  <2>3. Held(e)' = Held(e)
    BY <1>1, <1>6, <2>1, <2>2
  <2>4. CASE e # d
    <3>1. Inserting(e)' = Inserting(e)
      BY <1>1, <1>3, <2>4 DEF Inserting, Node
    <3> QED
      BY <1>0, <1>4, <2>3, <2>4, <3>1 DEF CountsFit
  <2>5. CASE e = d
    <3>1. Inserting(e)' = Inserting(e) \cup {p} /\ p \notin Inserting(e)
      BY <1>1, <1>3, <2>5 DEF Inserting, Node
    <3>2. Cardinality(Inserting(e) \cup {p}) = Cardinality(Inserting(e)) + 1
      BY <3>1, HeldIsFinite, FS_AddElement
    <3>3. opencount[e] = Cardinality(Held(e)) + Cardinality(Inserting(e))
      BY <1>0 DEF CountsFit
    <3>4. Cardinality(Held(e)) \in Nat /\ Cardinality(Inserting(e)) \in Nat
      BY HeldIsFinite
    <3>5. opencount'[e] = opencount[e] + 1
      BY <1>4, <2>5
    <3>6. opencount'[e] = Cardinality(Held(e)) + Cardinality(Inserting(e) \cup {p})
      BY <3>2, <3>3, <3>4, <3>5
    <3> QED
      BY <2>3, <3>1, <3>6
  <2> QED
    BY <2>4, <2>5
<1>10. LocksFit'
  BY <1>0, <1>1, <1>6 DEF LocksFit
<1> QED
  BY <1>5, <1>7, <1>8, <1>9, <1>10 DEF FilesParts

\* The handle comes onto the list, and the file is locked if it is for writing.
LEMMA FileInserted ==
  ASSUME FilesParts, NEW p \in Pids, NEW h \in Handles, Insert(p, h)
  PROVE  FilesParts'
<1>0. FilesType /\ CallsStand /\ HandlesFit /\ CountsFit /\ LocksFit
  BY DEF FilesParts
<1> DEFINE d == job[p].node
           w == job[p].mode = "write"
           new == [processid |-> p, mode |-> job[p].mode, ptr |-> d, locked |-> w]
<1>1. /\ fcb[h] = NoFcb /\ at[p] = "inside" /\ at' = [at EXCEPT ![p] = "run"]
      /\ job' = [job EXCEPT ![p] = NoJob] /\ fcb' = [fcb EXCEPT ![h] = new]
      /\ locked' = [locked EXCEPT ![d] = locked[d] \/ w] /\ UNCHANGED <<entry, opencount>>
  BY DEF Insert, Returns, Goes, Node
<1>2. d \in Nodes /\ OnDisk(d)
  BY <1>0, <1>1 DEF CallsStand, CallStands, Searching, Node
<1>3. job[p].mode \in OpenModes
  BY <1>0 DEF FilesType, CallJobs
<1>4. /\ new \in FilePCBs /\ new # NoFcb /\ new.processid = p /\ new.mode = job[p].mode
      /\ new.ptr = d /\ new.locked = w
  <2>1. w \in BOOLEAN
    OBVIOUS
  <2>2. new \in FilePCBs
    BY <1>2, <1>3, <2>1 DEF FilePCBs
  <2> QED
    BY <2>2, OpenAssumption DEF OpenAssumption
<1>5. NoJob \in CallJobs
  BY DEF NoJob, CallJobs, OpenModes
<1>6. /\ at' \in [Pids -> CallPlaces] /\ at'[p] = "run" /\ \A q \in Pids \ {p} : at'[q] = at[q]
      /\ job' \in [Pids -> CallJobs] /\ \A q \in Pids \ {p} : job'[q] = job[q]
  BY <1>0, <1>1, <1>5 DEF FilesType, CallPlaces
<1> HIDE DEF new
<1>7. /\ fcb' \in [Handles -> {NoFcb} \cup FilePCBs] /\ fcb'[h] = new
      /\ \A k \in Handles \ {h} : fcb'[k] = fcb[k]
  BY <1>0, <1>1, <1>4 DEF FilesType
<1>8. /\ locked' \in [Nodes -> BOOLEAN] /\ locked'[d] = (locked[d] \/ w)
      /\ \A e \in Nodes \ {d} : locked'[e] = locked[e]
  <2>1. (locked[d] \/ w) \in BOOLEAN
    OBVIOUS
  <2> QED
    BY <1>0, <1>1, <1>2, <2>1 DEF FilesType
<1> HIDE DEF d, w
<1>9. FilesType'
  BY <1>0, <1>1, <1>6, <1>7, <1>8 DEF FilesType
<1>10. /\ OpenHandles' = OpenHandles \cup {h} /\ h \notin OpenHandles
       /\ \A k \in OpenHandles : fcb'[k] = fcb[k]
  BY <1>1, <1>4, <1>7 DEF OpenHandles
<1>11. \A q \in Pids : HandlesOf(q) \subseteq OpenHandles /\ HandlesOf(q) \subseteq HandlesOf(q)'
  BY <1>10 DEF HandlesOf
<1>12. \A q \in Pids \ {p} : HandlesOf(q)' = HandlesOf(q)
  BY <1>4, <1>7, <1>10 DEF HandlesOf
<1>13. Kept' = Kept \cup {h} /\ h \notin Kept /\ Kept \subseteq OpenHandles
  <2>1. \A q \in Pids : at'[q] = "unlink" => q # p /\ at[q] = "unlink" /\ job'[q] = job[q]
    BY <1>6
  <2>2. \A q \in Pids : at[q] = "unlink" => q # p /\ at'[q] = "unlink" /\ job'[q] = job[q]
    BY <1>1, <1>6
  <2>3. \A q \in Pids : at[q] = "unlink" => job[q].handle # h
    BY <1>0, <1>10, <1>11 DEF CallsStand, CallStands
  <2> QED
    BY <1>10, <2>1, <2>2, <2>3 DEF Kept
<1>14. CallsStand'
  <2> SUFFICES ASSUME NEW q \in Pids PROVE CallStands(q)'
    BY DEF CallsStand
  <2>1. CASE q # p
    <3>1. at'[q] = at[q] /\ job'[q] = job[q] /\ CallStands(q)
      BY <1>0, <1>6, <2>1 DEF CallsStand
    <3>2. at[q] \in Searching => \E n \in Names : entry'[n] = job[q].node
      BY <1>1, <3>1 DEF CallStands, OnDisk, Node
    <3>3. at[q] \in {"uncount", "unlink"} =>
            /\ job[q].handle \in HandlesOf(q)'
            /\ fcb'[job[q].handle].ptr = fcb[job[q].handle].ptr
      <4> SUFFICES ASSUME at[q] \in {"uncount", "unlink"}
                   PROVE  /\ job[q].handle \in HandlesOf(q)'
                          /\ fcb'[job[q].handle].ptr = fcb[job[q].handle].ptr
        OBVIOUS
      <4>1. job[q].handle \in HandlesOf(q)
        BY <3>1 DEF CallStands
      <4> QED
        BY <1>10, <1>11, <4>1
    <3>4. at[q] = "dead" => HandlesOf(q)' = {}
      BY <1>12, <2>1, <3>1 DEF CallStands
    <3> QED
      BY <1>0, <3>1, <3>2, <3>3, <3>4, OtherStands
  <2>2. CASE q = p
    BY <1>6, <2>2 DEF CallStands, Searching
  <2> QED
    BY <2>1, <2>2
<1>15. HandlesFit'
  <2>1. \A k \in Kept' : \E n \in Names : entry'[n] = fcb'[k].ptr
    <3>1. \A k \in Kept : \E n \in Names : entry[n] = fcb[k].ptr
      BY <1>0 DEF HandlesFit
    <3>2. \E n \in Names : entry[n] = new.ptr
      BY <1>2, <1>4 DEF OnDisk
    <3> QED
      BY <1>1, <1>7, <1>10, <1>13, <3>1, <3>2
  <2>2. \A k \in OpenHandles' : fcb'[k].locked <=> fcb'[k].mode = "write"
    <3>1. \A k \in OpenHandles : fcb[k].locked <=> fcb[k].mode = "write"
      BY <1>0 DEF HandlesFit
    <3>2. new.locked <=> new.mode = "write"
      BY <1>4 DEF w
    <3> QED
      BY <1>7, <1>10, <3>1, <3>2
  <2>3. \A k \in Kept : fcb[k].ptr = d => Compatible(fcb[k].mode, job[p].mode)
    BY <1>0, <1>1 DEF HandlesFit, Windows, Node, d
  <2>4. \A g, k \in Kept' : g # k /\ fcb'[g].ptr = fcb'[k].ptr
                            => Compatible(fcb'[g].mode, fcb'[k].mode)
    <3> SUFFICES ASSUME NEW g \in Kept', NEW k \in Kept', g # k, fcb'[g].ptr = fcb'[k].ptr
                 PROVE  Compatible(fcb'[g].mode, fcb'[k].mode)
      OBVIOUS
    <3>1. CASE g # h /\ k # h
      <4>1. g \in Kept /\ k \in Kept /\ fcb'[g] = fcb[g] /\ fcb'[k] = fcb[k]
        BY <1>10, <1>13, <3>1
      <4> QED
        BY <1>0, <4>1 DEF HandlesFit
    <3>2. CASE g = h
      <4>1. k \in Kept /\ fcb'[k] = fcb[k] /\ fcb'[g] = new
        BY <1>7, <1>10, <1>13, <3>2
      <4> QED
        BY <1>4, <2>3, <4>1 DEF Compatible
    <3>3. CASE k = h
      <4>1. g \in Kept /\ fcb'[g] = fcb[g] /\ fcb'[k] = new
        BY <1>7, <1>10, <1>13, <3>3
      <4> QED
        BY <1>4, <2>3, <4>1 DEF Compatible
    <3> QED
      BY <3>1, <3>2, <3>3
  <2>5. \A q \in Pids : at'[q] \in Windows => q # p /\ at[q] \in Windows /\ job'[q] = job[q]
    BY <1>6 DEF Windows
  <2>6. \A q, r \in Pids : /\ q # r /\ at'[q] \in Windows /\ at'[r] \in Windows
                           /\ job'[q].node = job'[r].node
                           => Compatible(job'[q].mode, job'[r].mode)
    BY <1>0, <2>5 DEF HandlesFit, Node
  <2>7. \A q \in Pids, k \in Kept' : at'[q] \in Windows /\ fcb'[k].ptr = job'[q].node
                           => Compatible(fcb'[k].mode, job'[q].mode)
    <3> SUFFICES ASSUME NEW q \in Pids, NEW k \in Kept', at'[q] \in Windows,
                        fcb'[k].ptr = job'[q].node
                 PROVE  Compatible(fcb'[k].mode, job'[q].mode)
      OBVIOUS
    <3>1. q # p /\ at[q] \in Windows /\ job'[q] = job[q]
      BY <2>5
    <3>2. CASE k # h
      <4>1. k \in Kept /\ fcb'[k] = fcb[k]
        BY <1>10, <1>13, <3>2
      <4> QED
        BY <1>0, <3>1, <4>1 DEF HandlesFit, Node
    <3>3. CASE k = h
      <4>1. fcb'[k].mode = job[p].mode /\ job[q].node = job[p].node
        BY <1>4, <1>7, <3>1, <3>3 DEF d
      <4> QED
        BY <1>0, <1>1, <3>1, <4>1 DEF HandlesFit, Windows, Node
    <3> QED
      BY <3>2, <3>3
  <2> QED
    BY <2>1, <2>2, <2>4, <2>6, <2>7 DEF HandlesFit, Node
<1>16. CountsFit'
  <2> SUFFICES ASSUME NEW e \in Nodes
               PROVE  opencount'[e] = Cardinality(Held(e)') + Cardinality(Inserting(e)')
    BY DEF CountsFit
  <2>1. Held(e)' = {k \in Kept' : fcb'[k].ptr = e}
    BY DEF Held, HandlesOn, Kept
  <2>2. Held(e) = {k \in Kept : fcb[k].ptr = e}
    BY HeldIs
  <2>3. opencount'[e] = Cardinality(Held(e)) + Cardinality(Inserting(e))
    BY <1>0, <1>1 DEF CountsFit
  <2>4. \A k \in Kept : fcb'[k] = fcb[k]
    BY <1>10, <1>13
  <2>5. CASE e # d
    <3>1. Held(e)' = Held(e)
      BY <1>4, <1>7, <1>13, <2>1, <2>2, <2>4, <2>5
    <3>2. Inserting(e)' = Inserting(e)
      BY <1>1, <1>6, <2>5 DEF Inserting, Node, d
    <3> QED
      BY <2>3, <3>1, <3>2
  <2>6. CASE e = d
    <3>1. Held(e)' = Held(e) \cup {h} /\ h \notin Held(e)
      BY <1>4, <1>7, <1>13, <2>1, <2>2, <2>4, <2>6
    <3>2. Inserting(e)' = Inserting(e) \ {p} /\ p \in Inserting(e)
      BY <1>1, <1>6, <2>6 DEF Inserting, Node, d
    <3>3. Cardinality(Held(e) \cup {h}) = Cardinality(Held(e)) + 1
      BY <3>1, HeldIsFinite, FS_AddElement
    <3>4. Cardinality(Inserting(e) \ {p}) = Cardinality(Inserting(e)) - 1
      BY <3>2, HeldIsFinite, FS_RemoveElement
    <3>5. Cardinality(Held(e)) \in Nat /\ Cardinality(Inserting(e)) \in Nat
      BY HeldIsFinite
    <3>6. opencount'[e] = Cardinality(Held(e) \cup {h}) + Cardinality(Inserting(e) \ {p})
      BY <2>3, <3>3, <3>4, <3>5
    <3> QED
      BY <3>1, <3>2, <3>6
  <2> QED
    BY <2>5, <2>6
<1>17. LocksFit'
  <2> SUFFICES ASSUME NEW e \in Nodes
               PROVE  locked'[e] <=> \E k \in Kept' : fcb'[k].ptr = e /\ fcb'[k].locked
    BY DEF LocksFit
  <2>1. locked[e] <=> \E k \in Kept : fcb[k].ptr = e /\ fcb[k].locked
    BY <1>0 DEF LocksFit
  <2>2. \A k \in Kept : fcb'[k] = fcb[k]
    BY <1>10, <1>13
  <2>3. (\E k \in Kept' : fcb'[k].ptr = e /\ fcb'[k].locked)
        <=> ((\E k \in Kept : fcb[k].ptr = e /\ fcb[k].locked) \/ (d = e /\ w))
    BY <1>4, <1>7, <1>13, <2>2
  <2> QED
    BY <1>8, <2>1, <2>3
<1> QED
  BY <1>9, <1>14, <1>15, <1>16, <1>17 DEF FilesParts

\* What is left goes together, when handles leave the list or are about to.
LEMMA FitRemains ==
  ASSUME HandlesFit, Kept' \subseteq Kept, OpenHandles' \subseteq OpenHandles,
         \A h \in OpenHandles' : fcb'[h] = fcb[h],
         \A h \in Kept' : \E n \in Names : entry'[n] = fcb[h].ptr,
         \A q \in Pids : at'[q] \in Windows => at[q] \in Windows /\ job'[q] = job[q]
  PROVE  HandlesFit'
<1>1. Kept' \subseteq OpenHandles'
  BY DEF Kept
<1>2. \A h \in Kept' : h \in Kept /\ fcb'[h] = fcb[h]
  BY <1>1
<1>3. \A h \in Kept' : \E n \in Names : entry'[n] = fcb'[h].ptr
  BY <1>2
<1>4. \A h \in OpenHandles' : fcb'[h].locked <=> fcb'[h].mode = "write"
  BY DEF HandlesFit
<1>5. \A g, h \in Kept' : g # h /\ fcb'[g].ptr = fcb'[h].ptr
                          => Compatible(fcb'[g].mode, fcb'[h].mode)
  BY <1>2 DEF HandlesFit
<1>6. \A p, q \in Pids : /\ p # q /\ at'[p] \in Windows /\ at'[q] \in Windows
                         /\ job'[p].node = job'[q].node
                         => Compatible(job'[p].mode, job'[q].mode)
  BY DEF HandlesFit, Node
<1>7. \A p \in Pids, h \in Kept' : at'[p] \in Windows /\ fcb'[h].ptr = job'[p].node
                         => Compatible(fcb'[h].mode, job'[p].mode)
  BY <1>2 DEF HandlesFit, Node
<1> QED
  BY <1>3, <1>4, <1>5, <1>6, <1>7 DEF HandlesFit, Node

\* A handle that locks its file is alone on it: the lock goes with it.
LEMMA LocksRemain ==
  ASSUME HandlesFit, LocksFit, NEW gone \in SUBSET Kept, Kept' = Kept \ gone,
         \A h \in Kept' : fcb'[h] = fcb[h],
         \A d \in Nodes : locked'[d] <=> /\ locked[d]
                                         /\ ~\E h \in gone : fcb[h].ptr = d /\ fcb[h].locked
  PROVE  LocksFit'
<1> SUFFICES ASSUME NEW d \in Nodes
             PROVE  locked'[d] <=> \E h \in Kept' : fcb'[h].ptr = d /\ fcb'[h].locked
  BY DEF LocksFit
<1>1. locked[d] <=> \E h \in Kept : fcb[h].ptr = d /\ fcb[h].locked
  BY DEF LocksFit
<1>2. ASSUME NEW g \in Kept, NEW h \in Kept, fcb[g].ptr = d, fcb[h].ptr = d,
             fcb[g].locked, fcb[h].locked
      PROVE  g = h
  <2>1. fcb[g].mode = "write"
    BY <1>2 DEF HandlesFit, Kept
  <2>2. ~Compatible(fcb[g].mode, fcb[h].mode)
    BY <2>1 DEF Compatible
  <2> QED
    BY <1>2, <2>2 DEF HandlesFit
<1> QED
  BY <1>1, <1>2

\* fclose: the count goes down and the lock is given back; the handle is to be unlinked.
LEMMA FileUncounted ==
  ASSUME FilesParts, NEW p \in Pids, CloseCounts(p)
  PROVE  FilesParts'
<1>0. FilesType /\ CallsStand /\ HandlesFit /\ CountsFit /\ LocksFit
  BY DEF FilesParts
<1> DEFINE h == job[p].handle
           d == fcb[h].ptr
<1>1. /\ at[p] = "uncount" /\ at' = [at EXCEPT ![p] = "unlink"]
      /\ opencount' = [opencount EXCEPT ![job[p].node] = opencount[job[p].node] - 1]
      /\ locked' = [locked EXCEPT ![d] = locked[d] /\ ~fcb[h].locked]
      /\ UNCHANGED <<entry, fcb, job>>
  BY DEF CloseCounts, Goes, Node, Unlock
<1>2. h \in HandlesOf(p) /\ job[p].why # "open" /\ job[p].node = d
  BY <1>0, <1>1 DEF CallsStand, CallStands, Node
<1>3. h \in OpenHandles /\ fcb[h].processid = p /\ fcb[h] \in FilePCBs
  BY <1>0, <1>2 DEF HandlesOf, OpenHandles, FilesType
<1>4. d \in Nodes /\ fcb[h].locked \in BOOLEAN
  BY <1>3 DEF FilePCBs
<1>5. /\ at' \in [Pids -> CallPlaces] /\ at'[p] = "unlink"
      /\ \A q \in Pids \ {p} : at'[q] = at[q]
  BY <1>0, <1>1 DEF FilesType, CallPlaces
<1>6. \A q \in Pids \ {p} : at[q] \in {"uncount", "unlink"} => job[q].handle # h
  <2> SUFFICES ASSUME NEW q \in Pids \ {p}, at[q] \in {"uncount", "unlink"}, job[q].handle = h
               PROVE  FALSE
    OBVIOUS
  <2>1. h \in HandlesOf(q)
    BY <1>0 DEF CallsStand, CallStands
  <2> QED
    BY <1>3, <2>1 DEF HandlesOf
<1>7. h \in Kept
  BY <1>1, <1>3, <1>6 DEF Kept
<1> HIDE DEF h
<1>8. /\ OpenHandles' = OpenHandles
      /\ \A q : HandlesOf(q)' = HandlesOf(q)
  BY <1>1 DEF OpenHandles, HandlesOf
<1>9. Kept' = Kept \ {h}
  <2>1. \A q \in Pids : at'[q] = "unlink" <=> q = p \/ at[q] = "unlink"
    BY <1>5
  <2> QED
    BY <1>1, <1>8, <2>1 DEF Kept, h
<1>10. \A e : Held(e)' = IF e = d THEN Held(e) \ {h} ELSE Held(e)
  <2> SUFFICES ASSUME NEW e PROVE Held(e)' = IF e = d THEN Held(e) \ {h} ELSE Held(e)
    OBVIOUS
  <2>1. Held(e)' = {k \in Kept' : fcb'[k].ptr = e}
    BY DEF Held, HandlesOn, Kept
  <2>2. Held(e) = {k \in Kept : fcb[k].ptr = e}
    BY HeldIs
  <2> QED
    BY <1>1, <1>9, <2>1, <2>2
<1>11. h \in Held(d)
  BY <1>7, HeldIs
<1> HIDE DEF d
<1>12. \A e : Inserting(e)' = Inserting(e)
  BY <1>1, <1>5 DEF Inserting, Node
<1>13. /\ Cardinality(Held(d) \ {h}) = Cardinality(Held(d)) - 1
       /\ Cardinality(Held(d) \ {h}) \in Nat
  <2>1. Cardinality(Held(d) \ {h}) = Cardinality(Held(d)) - 1
    BY <1>11, HeldIsFinite, FS_RemoveElement
  <2>2. IsFiniteSet(Held(d) \ {h})
    BY HeldIsFinite, FS_RemoveElement
  <2> QED
    BY <2>1, <2>2, FS_CardinalityType
<1>14. opencount'[d] = opencount[d] - 1 /\ \A e \in Nodes \ {d} : opencount'[e] = opencount[e]
  BY <1>0, <1>1, <1>2, <1>4 DEF FilesType
<1>15. opencount'[d] = Cardinality(Held(d) \ {h}) + Cardinality(Inserting(d))
  <2>1. opencount[d] = Cardinality(Held(d)) + Cardinality(Inserting(d))
    BY <1>0, <1>4 DEF CountsFit
  <2>2. Cardinality(Held(d)) \in Nat /\ Cardinality(Inserting(d)) \in Nat
    BY HeldIsFinite
  <2> QED
    BY <1>13, <1>14, <2>1, <2>2
<1>16. opencount' \in [Nodes -> Nat]
  <2>1. opencount'[d] \in Nat
    BY <1>13, <1>15, HeldIsFinite
  <2>2. \A e \in Nodes : opencount'[e] \in Nat
    BY <1>0, <1>14, <2>1 DEF FilesType
  <2>3. opencount' = [e \in Nodes |-> opencount'[e]]
    BY <1>0, <1>1 DEF FilesType
  <2> QED
    BY <2>2, <2>3
<1>17. /\ locked' \in [Nodes -> BOOLEAN] /\ locked'[d] = (locked[d] /\ ~fcb[h].locked)
       /\ \A e \in Nodes \ {d} : locked'[e] = locked[e]
  <2>1. (locked[d] /\ ~fcb[h].locked) \in BOOLEAN
    OBVIOUS
  <2> QED
    BY <1>0, <1>1, <1>4, <2>1 DEF FilesType
<1>18. FilesType'
  BY <1>0, <1>1, <1>5, <1>16, <1>17 DEF FilesType
<1>19. CallsStand'
  <2> SUFFICES ASSUME NEW q \in Pids PROVE CallStands(q)'
    BY DEF CallsStand
  <2>1. CASE q # p
    <3>1. at'[q] = at[q] /\ job'[q] = job[q] /\ CallStands(q)
      BY <1>0, <1>1, <1>5, <2>1 DEF CallsStand
    <3> QED
      BY <1>1, <1>8, <3>1 DEF CallStands, OnDisk, Node
  <2>2. CASE q = p
    BY <1>1, <1>2, <1>4, <1>5, <1>8, <2>2 DEF CallStands, Node, Searching, h
  <2> QED
    BY <2>1, <2>2
<1>20. HandlesFit'
  <2>1. \A q \in Pids : at'[q] \in Windows => at[q] \in Windows /\ job'[q] = job[q]
    BY <1>1, <1>5 DEF Windows
  <2>2. Kept' \subseteq Kept /\ OpenHandles' \subseteq OpenHandles
    BY <1>8, <1>9
  <2>3. \A k \in OpenHandles' : fcb'[k] = fcb[k]
    BY <1>1
  <2>4. \A k \in Kept' : \E n \in Names : entry'[n] = fcb[k].ptr
    BY <1>0, <1>1, <2>2 DEF HandlesFit
  <2> QED
    BY <1>0, <2>1, <2>2, <2>3, <2>4, FitRemains
<1>21. CountsFit'
  <2> SUFFICES ASSUME NEW e \in Nodes
               PROVE  opencount'[e] = Cardinality(Held(e)') + Cardinality(Inserting(e)')
    BY DEF CountsFit
  <2>1. CASE e = d
    BY <1>10, <1>12, <1>15, <2>1
  <2>2. CASE e # d
    BY <1>0, <1>10, <1>12, <1>14, <2>2 DEF CountsFit
  <2> QED
    BY <2>1, <2>2
<1>22. LocksFit'
  <2>1. \A e \in Nodes : locked'[e] <=> /\ locked[e]
                                        /\ ~\E k \in {h} : fcb[k].ptr = e /\ fcb[k].locked
    BY <1>17 DEF d
  <2>2. {h} \in SUBSET Kept
    BY <1>7
  <2>3. \A k \in Kept' : fcb'[k] = fcb[k]
    BY <1>1
  <2> QED
    BY <1>0, <1>9, <2>1, <2>2, <2>3, LocksRemain
<1> QED
  BY <1>18, <1>19, <1>20, <1>21, <1>22 DEF FilesParts

\* The handle leaves the list; the count and the lock have gone before.
LEMMA FileUnlinked ==
  ASSUME FilesParts, NEW p \in Pids, Unlink(p)
  PROVE  FilesParts'
<1>0. FilesType /\ CallsStand /\ HandlesFit /\ CountsFit /\ LocksFit
  BY DEF FilesParts
<1> DEFINE h == job[p].handle
<1>1. /\ at[p] = "unlink" /\ fcb' = [fcb EXCEPT ![h] = NoFcb]
      /\ UNCHANGED <<entry, opencount, locked>>
  BY DEF Unlink, Returns, Goes, countVars
<1>2. PICK s \in {"run", "dying", "remove"} : at' = [at EXCEPT ![p] = s]
  <2>1. \/ at' = [at EXCEPT ![p] = "run"] \/ at' = [at EXCEPT ![p] = "dying"]
        \/ at' = [at EXCEPT ![p] = "remove"]
    BY DEF Unlink, Returns, Goes
  <2> QED
    BY <2>1
<1>3. PICK j \in {NoJob, job[p]} : job' = [job EXCEPT ![p] = j] /\ (s = "remove" => j = job[p])
  <2>1. CASE job' = [job EXCEPT ![p] = NoJob] /\ s # "remove"
    BY <2>1
  <2>2. CASE job' = job
    BY <1>0, <2>2 DEF FilesType
  <2> QED
    BY <1>0, <1>1, <1>2, <2>1, <2>2 DEF Unlink, Returns, Goes, FilesType
<1>4. NoJob \in CallJobs
  BY DEF NoJob, CallJobs, OpenModes
<1>5. /\ at' \in [Pids -> CallPlaces] /\ at'[p] = s /\ \A q \in Pids \ {p} : at'[q] = at[q]
  BY <1>0, <1>2 DEF FilesType, CallPlaces
<1>6. /\ job' \in [Pids -> CallJobs] /\ job'[p] = j /\ \A q \in Pids \ {p} : job'[q] = job[q]
  BY <1>0, <1>3, <1>4 DEF FilesType
<1>7. h \in HandlesOf(p) /\ job[p].node \in Nodes
  BY <1>0, <1>1 DEF CallsStand, CallStands, Node
<1>8. h \in OpenHandles /\ h \in Handles /\ fcb[h].processid = p
  BY <1>7 DEF HandlesOf, OpenHandles
<1>9. \A q \in Pids \ {p} : at[q] \in {"uncount", "unlink"} => job[q].handle # h
  <2> SUFFICES ASSUME NEW q \in Pids \ {p}, at[q] \in {"uncount", "unlink"}, job[q].handle = h
               PROVE  FALSE
    OBVIOUS
  <2>1. h \in HandlesOf(q)
    BY <1>0 DEF CallsStand, CallStands
  <2> QED
    BY <1>8, <2>1 DEF HandlesOf
<1>10. h \notin Kept
  BY <1>1 DEF Kept
<1> HIDE DEF h
<1>11. /\ fcb' \in [Handles -> {NoFcb} \cup FilePCBs] /\ fcb'[h] = NoFcb
       /\ \A k \in Handles \ {h} : fcb'[k] = fcb[k]
  BY <1>0, <1>1, <1>8 DEF FilesType
<1>12. FilesType'
  BY <1>0, <1>1, <1>5, <1>6, <1>11 DEF FilesType
<1>13. OpenHandles' = OpenHandles \ {h} /\ OpenHandles \subseteq Handles
  BY <1>11 DEF OpenHandles
<1>14. \A q \in Pids : HandlesOf(q)' = HandlesOf(q) \ {h}
  BY <1>11, <1>13 DEF HandlesOf
<1>15. Kept' = Kept
  <2>1. \A q \in Pids : at'[q] = "unlink" <=> q # p /\ at[q] = "unlink"
    BY <1>5
  <2>2. \A q \in Pids : q # p /\ at[q] = "unlink" => job'[q] = job[q]
    BY <1>6
  <2>3. \A k \in OpenHandles \ {h} : (\A q \in Pids : at'[q] = "unlink" => job'[q].handle # k)
                                     <=> (\A q \in Pids : at[q] = "unlink" => job[q].handle # k)
    BY <1>1, <2>1, <2>2 DEF h
  <2> QED
    BY <1>10, <1>13, <2>3 DEF Kept
<1>16. \A k \in Kept : fcb'[k] = fcb[k]
  BY <1>10, <1>11, <1>13 DEF Kept
<1>17. \A e : Held(e)' = Held(e)
  <2> SUFFICES ASSUME NEW e PROVE Held(e)' = Held(e)
    OBVIOUS
  <2>1. Held(e)' = {k \in Kept' : fcb'[k].ptr = e}
    BY DEF Held, HandlesOn, Kept
  <2>2. Held(e) = {k \in Kept : fcb[k].ptr = e}
    BY HeldIs
  <2> QED
    BY <1>15, <1>16, <2>1, <2>2
<1>18. \A e : Inserting(e)' = Inserting(e)
  BY <1>1, <1>5, <1>6 DEF Inserting, Node
<1>19. CallsStand'
  <2> SUFFICES ASSUME NEW q \in Pids PROVE CallStands(q)'
    BY DEF CallsStand
  <2>1. CASE q # p
    <3>1. at'[q] = at[q] /\ job'[q] = job[q] /\ CallStands(q)
      BY <1>0, <1>5, <1>6, <2>1 DEF CallsStand
    <3>2. at[q] \in Searching => \E n \in Names : entry'[n] = job[q].node
      BY <1>1, <3>1 DEF CallStands, OnDisk, Node
    <3>3. at[q] \in {"uncount", "unlink"} =>
            /\ job[q].handle \in HandlesOf(q)'
            /\ fcb'[job[q].handle].ptr = fcb[job[q].handle].ptr
      <4> SUFFICES ASSUME at[q] \in {"uncount", "unlink"}
                   PROVE  /\ job[q].handle \in HandlesOf(q)'
                          /\ fcb'[job[q].handle].ptr = fcb[job[q].handle].ptr
        OBVIOUS
      <4>1. job[q].handle \in HandlesOf(q) /\ job[q].handle # h
        BY <1>9, <2>1, <3>1 DEF CallStands
      <4>2. job[q].handle \in OpenHandles
        BY <4>1 DEF HandlesOf
      <4> QED
        BY <1>11, <1>13, <1>14, <4>1, <4>2
    <3>4. at[q] = "dead" => HandlesOf(q)' = {}
      BY <1>14, <3>1 DEF CallStands
    <3> QED
      BY <1>0, <3>1, <3>2, <3>3, <3>4, OtherStands
  <2>2. CASE q = p
    BY <1>3, <1>5, <1>6, <1>7, <2>2 DEF CallStands, Node, Searching
  <2> QED
    BY <2>1, <2>2
<1>20. HandlesFit'
  <2>1. \A q \in Pids : at'[q] \in Windows => at[q] \in Windows /\ job'[q] = job[q]
    BY <1>5, <1>6 DEF Windows
  <2>2. Kept' \subseteq Kept /\ OpenHandles' \subseteq OpenHandles
    BY <1>13, <1>15
  <2>3. \A k \in OpenHandles' : fcb'[k] = fcb[k]
    BY <1>11, <1>13
  <2>4. \A k \in Kept' : \E n \in Names : entry'[n] = fcb[k].ptr
    BY <1>0, <1>1, <2>2 DEF HandlesFit
  <2> QED
    BY <1>0, <2>1, <2>2, <2>3, <2>4, FitRemains
<1>21. CountsFit'
  BY <1>0, <1>1, <1>17, <1>18 DEF CountsFit
<1>22. LocksFit'
  BY <1>0, <1>1, <1>15, <1>16 DEF LocksFit
<1> QED
  BY <1>12, <1>19, <1>20, <1>21, <1>22 DEF FilesParts

\* vfs_deletefile, when nobody uses the file any more.
LEMMA FileRemoved ==
  ASSUME FilesParts, NEW p \in Pids, DeleteRemoves(p), faults' = {}
  PROVE  FilesParts'
<1>0. FilesType /\ CallsStand /\ HandlesFit /\ CountsFit /\ LocksFit
  BY DEF FilesParts
<1> DEFINE d == job[p].node
<1>1. /\ at[p] = "remove" /\ at' = [at EXCEPT ![p] = "fsdel"] /\ ~locked[d]
      /\ entry' = [n \in Names |-> IF entry[n] = d THEN NoNode ELSE entry[n]]
      /\ UNCHANGED <<opencount, locked, fcb, job>>
  BY DEF DeleteRemoves, Goes, Deletable, Node, countVars
<1>2. ~StillUsed(p, d)
  BY DEF DeleteRemoves, Fault, Node
<1>3. d \in Nodes
  BY <1>0, <1>1 DEF CallsStand, CallStands, Node
<1>4. /\ at' \in [Pids -> CallPlaces] /\ at'[p] = "fsdel" /\ \A q \in Pids \ {p} : at'[q] = at[q]
  BY <1>0, <1>1 DEF FilesType, CallPlaces
<1>5. /\ entry' \in [Names -> Nodes \cup {NoNode}]
      /\ \A n \in Names : entry[n] # d => entry'[n] = entry[n]
  BY <1>0, <1>1 DEF FilesType
<1>6. FilesType'
  BY <1>0, <1>1, <1>4, <1>5 DEF FilesType
<1>7. \A h \in Kept : fcb[h].ptr # d
  <2> SUFFICES ASSUME NEW h \in Kept, fcb[h].ptr = d PROVE FALSE
    OBVIOUS
  <2>1. h \in Held(d)
    BY HeldIs
  <2>2. fcb[h].mode = "write"
    BY <1>2, <2>1 DEF StillUsed
  <2>3. fcb[h].locked
    BY <1>0, <2>2 DEF HandlesFit, Kept
  <2> QED
    BY <1>0, <1>1, <1>3, <2>3 DEF LocksFit
<1>8. \A q \in Pids \ {p} : at[q] \in Searching => job[q].node # d
  BY <1>2 DEF StillUsed, Others, Node, Searching
<1> HIDE DEF d
<1>9. /\ OpenHandles' = OpenHandles /\ Kept' = Kept
      /\ \A q : HandlesOf(q)' = HandlesOf(q)
  BY <1>1, <1>4 DEF OpenHandles, Kept, HandlesOf
<1>10. CallsStand'
  <2> SUFFICES ASSUME NEW q \in Pids PROVE CallStands(q)'
    BY DEF CallsStand
  <2>1. CASE q # p
    <3>1. at'[q] = at[q] /\ job'[q] = job[q] /\ CallStands(q)
      BY <1>0, <1>1, <1>4, <2>1 DEF CallsStand
    <3>2. at[q] \in Searching => \E n \in Names : entry'[n] = job[q].node
      BY <1>5, <1>8, <2>1, <3>1 DEF CallStands, OnDisk, Node
    <3>3. at[q] \in {"uncount", "unlink"} =>
            /\ job[q].handle \in HandlesOf(q)'
            /\ fcb'[job[q].handle].ptr = fcb[job[q].handle].ptr
      BY <1>1, <1>9, <3>1 DEF CallStands
    <3>4. at[q] = "dead" => HandlesOf(q)' = {}
      BY <1>9, <3>1 DEF CallStands
    <3> QED
      BY <1>0, <3>1, <3>2, <3>3, <3>4, OtherStands
  <2>2. CASE q = p
    BY <1>1, <1>3, <1>4, <2>2 DEF CallStands, Node, Searching, d
  <2> QED
    BY <2>1, <2>2
<1>11. HandlesFit'
  <2>1. \A q \in Pids : at'[q] \in Windows => at[q] \in Windows /\ job'[q] = job[q]
    BY <1>1, <1>4 DEF Windows
  <2>2. Kept' \subseteq Kept /\ OpenHandles' \subseteq OpenHandles
    BY <1>9
  <2>3. \A k \in OpenHandles' : fcb'[k] = fcb[k]
    BY <1>1
  <2>4. \A k \in Kept' : \E n \in Names : entry'[n] = fcb[k].ptr
    BY <1>0, <1>5, <1>7, <1>9 DEF HandlesFit
  <2> QED
    BY <1>0, <2>1, <2>2, <2>3, <2>4, FitRemains
<1>12. CountsFit'
  <2> SUFFICES ASSUME NEW e \in Nodes
               PROVE  opencount'[e] = Cardinality(Held(e)') + Cardinality(Inserting(e)')
    BY DEF CountsFit
  <2>1. Held(e)' = {k \in Kept' : fcb'[k].ptr = e}
    BY DEF Held, HandlesOn, Kept
  <2>2. Held(e) = {k \in Kept : fcb[k].ptr = e}
    BY HeldIs
  <2>3. Held(e)' = Held(e)
    BY <1>1, <1>9, <2>1, <2>2
  <2>4. Inserting(e)' = Inserting(e)
    BY <1>1, <1>4 DEF Inserting, Node
  <2> QED
    BY <1>0, <1>1, <2>3, <2>4 DEF CountsFit
<1>13. LocksFit'
  BY <1>0, <1>1, <1>9 DEF LocksFit
<1> QED
  BY <1>6, <1>10, <1>11, <1>12, <1>13 DEF FilesParts

\* kill_process closes what the process had open; nothing is left of its call.
LEMMA FileKilled ==
  ASSUME FilesParts, NEW c \in Pids, NEW v \in Pids, Kill(c, v), faults' = {}
  PROVE  FilesParts' /\ at[v] \notin {"fs", "insert", "inside", "unlink"} /\ vfs_busy.busy # v
<1>0. FilesType /\ CallsStand /\ HandlesFit /\ CountsFit /\ LocksFit
  BY DEF FilesParts
<1> DEFINE gone == HandlesOf(v)
<1>1. /\ at[v] \notin {"fs", "insert", "inside", "unlink"} /\ vfs_busy.busy # v
      /\ v \in Users \/ HandlesOf(v) = {}
  BY DEF Kill
<1>2. HandlesClosed(v) = gone
  BY <1>1 DEF HandlesClosed
<1>3. /\ at' = [at EXCEPT ![v] = "dead"] /\ job' = [job EXCEPT ![v] = NoJob]
      /\ fcb' = [h \in Handles |-> IF h \in gone THEN NoFcb ELSE fcb[h]]
      /\ opencount' = [d \in Nodes |-> opencount[d] - Cardinality(HandlesOn(d) \cap gone)]
      /\ locked' = [d \in Nodes |-> locked[d] /\ ~\E h \in gone : fcb[h].ptr = d /\ fcb[h].locked]
      /\ entry' = entry
  BY <1>2 DEF Kill
<1>4. NoJob \in CallJobs
  BY DEF NoJob, CallJobs, OpenModes
<1>5. /\ at' \in [Pids -> CallPlaces] /\ at'[v] = "dead" /\ \A q \in Pids \ {v} : at'[q] = at[q]
      /\ job' \in [Pids -> CallJobs] /\ \A q \in Pids \ {v} : job'[q] = job[q]
  BY <1>0, <1>3, <1>4 DEF FilesType, CallPlaces
<1>6. gone \subseteq OpenHandles /\ \A h \in gone : fcb[h].processid = v
  BY DEF HandlesOf
<1>7. \A q \in Pids \ {v} : at[q] \in {"uncount", "unlink"} => job[q].handle \in OpenHandles \ gone
  <2> SUFFICES ASSUME NEW q \in Pids \ {v}, at[q] \in {"uncount", "unlink"}
               PROVE  job[q].handle \in OpenHandles \ gone
    OBVIOUS
  <2>1. job[q].handle \in HandlesOf(q)
    BY <1>0 DEF CallsStand, CallStands
  <2> QED
    BY <1>6, <2>1 DEF HandlesOf
<1>8. gone \subseteq Kept
  BY <1>1, <1>6, <1>7 DEF Kept
<1>9. \A q \in Pids \ {v} : HandlesOf(q) \cap gone = {}
  BY <1>6 DEF HandlesOf
<1> HIDE DEF gone
<1>10. /\ fcb' \in [Handles -> {NoFcb} \cup FilePCBs]
       /\ \A h \in Handles : fcb'[h] = IF h \in gone THEN NoFcb ELSE fcb[h]
  BY <1>0, <1>3 DEF FilesType
<1>11. /\ OpenHandles' = OpenHandles \ gone /\ OpenHandles \subseteq Handles
       /\ \A h \in OpenHandles \ gone : fcb'[h] = fcb[h]
  BY <1>10 DEF OpenHandles
<1>12. \A q \in Pids : HandlesOf(q)' = HandlesOf(q) \ gone
  BY <1>11 DEF HandlesOf
<1>13. Kept' = Kept \ gone /\ \A h \in Kept' : fcb'[h] = fcb[h]
  <2>1. \A q \in Pids : at'[q] = "unlink" <=> q # v /\ at[q] = "unlink"
    BY <1>5
  <2>2. \A q \in Pids : at[q] = "unlink" => q # v /\ job'[q] = job[q]
    BY <1>1, <1>5
  <2>3. \A h : (\A q \in Pids : at'[q] = "unlink" => job'[q].handle # h)
               <=> (\A q \in Pids : at[q] = "unlink" => job[q].handle # h)
    BY <2>1, <2>2
  <2>4. Kept' = Kept \ gone
    BY <1>11, <2>3 DEF Kept
  <2> QED
    BY <1>11, <2>4 DEF Kept
<1>14. \A d : Held(d)' = Held(d) \ (HandlesOn(d) \cap gone)
  <2> SUFFICES ASSUME NEW d PROVE Held(d)' = Held(d) \ (HandlesOn(d) \cap gone)
    OBVIOUS
  <2>1. Held(d)' = {h \in Kept' : fcb'[h].ptr = d}
    BY DEF Held, HandlesOn, Kept
  <2>2. Held(d) = {h \in Kept : fcb[h].ptr = d}
    BY HeldIs
  <2> QED
    BY <1>6, <1>13, <2>1, <2>2 DEF HandlesOn
<1>15. \A d : HandlesOn(d) \cap gone = Held(d) \cap (HandlesOn(d) \cap gone)
  BY <1>8, HeldIs DEF HandlesOn
<1>16. \A d : Inserting(d)' = Inserting(d)
  BY <1>1, <1>5 DEF Inserting, Node
<1>17. \A d \in Nodes : /\ opencount'[d] = Cardinality(Held(d)') + Cardinality(Inserting(d)')
                        /\ opencount'[d] \in Nat
  <2> SUFFICES ASSUME NEW d \in Nodes
               PROVE  /\ opencount'[d] = Cardinality(Held(d)') + Cardinality(Inserting(d)')
                      /\ opencount'[d] \in Nat
    OBVIOUS
  <2> DEFINE closed == HandlesOn(d) \cap gone
             kept == Held(d) \ closed
  <2>1. opencount'[d] = opencount[d] - Cardinality(closed)
    BY <1>3
  <2>2. IsFiniteSet(kept) /\ Cardinality(kept) = Cardinality(Held(d)) - Cardinality(Held(d) \cap closed)
    BY HeldIsFinite, FS_Difference
  <2>3. Held(d) \cap closed = closed
    BY <1>15
  <2>4. Held(d)' = kept
    BY <1>14
  <2>5. IsFiniteSet(closed)
    BY <2>3, HeldIsFinite, FS_Intersection
  <2> HIDE DEF closed, kept
  <2>6. Cardinality(kept) \in Nat /\ Cardinality(closed) \in Nat
    BY <2>2, <2>5, FS_CardinalityType
  <2>7. Cardinality(kept) = Cardinality(Held(d)) - Cardinality(closed)
    BY <2>2, <2>3
  <2>8. opencount[d] = Cardinality(Held(d)) + Cardinality(Inserting(d))
    BY <1>0 DEF CountsFit
  <2>9. Cardinality(Held(d)) \in Nat /\ Cardinality(Inserting(d)) \in Nat
    BY HeldIsFinite
  <2>10. opencount'[d] = Cardinality(kept) + Cardinality(Inserting(d))
    BY <2>1, <2>6, <2>7, <2>8, <2>9
  <2> QED
    BY <1>16, <2>4, <2>6, <2>9, <2>10
<1>18. opencount' \in [Nodes -> Nat]
  <2>1. opencount' = [d \in Nodes |-> opencount'[d]]
    BY <1>3
  <2> QED
    BY <1>17, <2>1
<1>19. /\ locked' \in [Nodes -> BOOLEAN]
       /\ \A d \in Nodes : locked'[d] <=> /\ locked[d]
                                          /\ ~\E h \in gone : fcb[h].ptr = d /\ fcb[h].locked
  <2>1. \A d \in Nodes : (locked[d] /\ ~\E h \in gone : fcb[h].ptr = d /\ fcb[h].locked) \in BOOLEAN
    OBVIOUS
  <2> QED
    BY <1>3, <2>1
<1>20. FilesType'
  BY <1>0, <1>3, <1>5, <1>10, <1>18, <1>19 DEF FilesType
<1>21. CallsStand'
  <2> SUFFICES ASSUME NEW q \in Pids PROVE CallStands(q)'
    BY DEF CallsStand
  <2>1. CASE q # v
    <3>1. at'[q] = at[q] /\ job'[q] = job[q] /\ CallStands(q)
      BY <1>0, <1>5, <2>1 DEF CallsStand
    <3>2. at[q] \in Searching => \E n \in Names : entry'[n] = job[q].node
      BY <1>3, <3>1 DEF CallStands, OnDisk, Node
    <3>3. at[q] \in {"uncount", "unlink"} =>
            /\ job[q].handle \in HandlesOf(q)'
            /\ fcb'[job[q].handle].ptr = fcb[job[q].handle].ptr
      <4> SUFFICES ASSUME at[q] \in {"uncount", "unlink"}
                   PROVE  /\ job[q].handle \in HandlesOf(q)'
                          /\ fcb'[job[q].handle].ptr = fcb[job[q].handle].ptr
        OBVIOUS
      <4>1. job[q].handle \in HandlesOf(q) /\ job[q].handle \in OpenHandles \ gone
        BY <1>7, <2>1, <3>1 DEF CallStands
      <4> QED
        BY <1>11, <1>12, <4>1
    <3>4. at[q] = "dead" => HandlesOf(q)' = {}
      BY <1>12, <3>1 DEF CallStands
    <3> QED
      BY <1>0, <3>1, <3>2, <3>3, <3>4, OtherStands
  <2>2. CASE q = v
    <3>1. HandlesOf(v)' = {}
      BY <1>12 DEF gone
    <3> QED
      BY <1>5, <2>2, <3>1 DEF CallStands, Searching
  <2> QED
    BY <2>1, <2>2
<1>22. HandlesFit'
  <2>1. \A q \in Pids : at'[q] \in Windows => at[q] \in Windows /\ job'[q] = job[q]
    BY <1>5 DEF Windows
  <2>2. Kept' \subseteq Kept /\ OpenHandles' \subseteq OpenHandles
    BY <1>11, <1>13
  <2>3. \A k \in OpenHandles' : fcb'[k] = fcb[k]
    BY <1>11
  <2>4. \A k \in Kept' : \E n \in Names : entry'[n] = fcb[k].ptr
    BY <1>0, <1>3, <2>2 DEF HandlesFit
  <2> QED
    BY <1>0, <2>1, <2>2, <2>3, <2>4, FitRemains
<1>23. CountsFit'
  BY <1>17 DEF CountsFit
<1>24. LocksFit'
  <2>1. gone \in SUBSET Kept
    BY <1>8
  <2> QED
    BY <1>0, <1>13, <1>19, <2>1, LocksRemain
<1> QED
  BY <1>1, <1>20, <1>21, <1>22, <1>23, <1>24 DEF FilesParts

\* What a step of a call says of where the processes are then.
LEMMA CallMoves ==
  ASSUME FilesType, NEW p \in Pids, NEW s, NEW j,
         at' = [at EXCEPT ![p] = s], job' = [job EXCEPT ![p] = j]
  PROVE  /\ at'[p] = s /\ \A q \in Pids \ {p} : at'[q] = at[q]
         /\ job'[p] = j /\ \A q \in Pids \ {p} : job'[q] = job[q]
         /\ \A q \in Pids \ {p} : Inside(q)' <=> Inside(q)
<1>1. /\ at'[p] = s /\ \A q \in Pids \ {p} : at'[q] = at[q]
      /\ job'[p] = j /\ \A q \in Pids \ {p} : job'[q] = job[q]
  BY DEF FilesType
<1> QED
  BY <1>1 DEF Inside

\* vfs_busy names who is inside, if it is entered and left by those who go in and out.
LEMMA BusyFollows ==
  ASSUME BusyFits, NEW p \in Pids, \A q \in Pids \ {p} : Inside(q)' <=> Inside(q),
         \/ vfs_busy' = vfs_busy /\ (Inside(p)' <=> Inside(p))
         \/ OpenEnters(p) /\ ~Inside(p) /\ Inside(p)'
         \/ OpenLeaves /\ Inside(p) /\ ~Inside(p)'
  PROVE  BusyFits'
<1>1. NoPid \notin Pids
  BY OpenAssumption DEF OpenAssumption
<1>2. CASE vfs_busy' = vfs_busy /\ (Inside(p)' <=> Inside(p))
  BY <1>2 DEF BusyFits
<1>3. CASE OpenEnters(p) /\ ~Inside(p) /\ Inside(p)'
  <2>1. vfs_busy.busy = NoPid /\ vfs_busy.wait = 0
    BY <1>3 DEF BusyFits, OpenEnters, Passes
  <2>2. vfs_busy' = [busy |-> p, wait |-> 1]
    BY <1>3, <2>1 DEF OpenEnters, Entered
  <2>3. \A q \in Pids : ~Inside(q)
    BY <1>1, <2>1 DEF BusyFits
  <2>4. \A q \in Pids : Inside(q)' <=> p = q
    BY <1>3, <2>3
  <2> QED
    BY <1>1, <2>2, <2>4 DEF BusyFits
<1>4. CASE OpenLeaves /\ Inside(p) /\ ~Inside(p)'
  <2>1. vfs_busy.busy = p /\ vfs_busy.wait = 1
    BY <1>1, <1>4 DEF BusyFits
  <2>2. vfs_busy' = [busy |-> NoPid, wait |-> 0]
    BY <1>4, <2>1 DEF OpenLeaves, Left
  <2>3. \A q \in Pids : Inside(q) <=> p = q
    BY <2>1 DEF BusyFits
  <2>4. \A q \in Pids : ~Inside(q)'
    BY <1>4, <2>3
  <2> QED
    BY <1>1, <2>2, <2>4 DEF BusyFits
<1> QED
  BY <1>2, <1>3, <1>4

\* The test of openfilex: nobody who has the file, or is about to, is in the way.
LEMMA FileChecked ==
  ASSUME FilesParts, NEW p \in Pids, Check(p), faults' = {}
  PROVE  FilesParts'
<1>0. FilesType /\ CallsStand /\ HandlesFit /\ CountsFit /\ LocksFit
  BY DEF FilesParts
<1> DEFINE d == job[p].node
           m == job[p].mode
<1>1. /\ at[p] = "check" /\ at' = [at EXCEPT ![p] = "count"]
      /\ UNCHANGED <<entry, opencount, locked, fcb, job>>
  BY DEF Check, Goes, countVars
<1>2. d \in Nodes /\ OnDisk(d)
  BY <1>0, <1>1 DEF CallsStand, CallStands, Searching, Node
<1>3. ~locked[d] /\ (m # "read" => ~(opencount[d] > 0))
  BY DEF Check, Refused, Node
<1>4. \A q \in Pids \ {p} : at[q] \in Windows /\ job[q].node = d => Compatible(job[q].mode, m)
  BY DEF Check, Fault, Others, InWindow, Windows, Compatible, Node
<1>5. \A h \in Kept : fcb[h].ptr = d => Compatible(fcb[h].mode, m)
  <2> SUFFICES ASSUME NEW h \in Kept, fcb[h].ptr = d PROVE Compatible(fcb[h].mode, m)
    OBVIOUS
  <2>1. fcb[h].mode # "write"
    BY <1>0, <1>2, <1>3 DEF HandlesFit, LocksFit, Kept
  <2>2. h \in Held(d)
    BY HeldIs
  <2>3. Cardinality(Held(d)) # 0
    BY <2>2, HeldIsFinite, FS_EmptySet
  <2>4. opencount[d] = Cardinality(Held(d)) + Cardinality(Inserting(d))
    BY <1>0, <1>2 DEF CountsFit
  <2>5. opencount[d] > 0
    BY <2>3, <2>4, HeldIsFinite
  <2> QED
    BY <1>3, <2>1, <2>5 DEF Compatible
<1>6. job[p] \in CallJobs /\ job' = [job EXCEPT ![p] = job[p]]
  BY <1>0, <1>1 DEF FilesType
<1>7. "count" \in CallPlaces \ {"unlink", "dead"}
  BY DEF CallPlaces
<1> QED
  BY <1>1, <1>2, <1>4, <1>5, <1>6, <1>7, CallGoes DEF Windows

\* fclose, fdelete and exit begin with a handle of the caller.
LEMMA FileCloses ==
  ASSUME FilesParts, NEW p \in Pids, NEW h \in HandlesOf(p),
         NEW why \in {"close", "delete", "exit"}, at[p] = "run",
         at' = [at EXCEPT ![p] = "uncount"],
         job' = [job EXCEPT ![p] = [NoJob EXCEPT !.handle = h, !.node = fcb[h].ptr, !.why = why]],
         UNCHANGED <<entry, opencount, locked, fcb>>
  PROVE  FilesParts'
<1>0. FilesType
  BY DEF FilesParts
<1> DEFINE j == [NoJob EXCEPT !.handle = h, !.node = fcb[h].ptr, !.why = why]
<1>1. h \in Handles /\ fcb[h] \in FilePCBs
  BY <1>0 DEF HandlesOf, OpenHandles, FilesType
<1>2. fcb[h].ptr \in Nodes
  BY <1>1 DEF FilePCBs
<1>3. /\ j.handle = h /\ j.node = fcb[h].ptr /\ j.why = why
      /\ j \in CallJobs
  BY <1>1, <1>2 DEF NoJob, CallJobs, OpenModes
<1>4. "uncount" \in CallPlaces \ {"unlink", "dead"}
  BY DEF CallPlaces
<1> HIDE DEF j
<1>5. job' = [job EXCEPT ![p] = j]
  BY DEF j
<1> QED
  BY <1>3, <1>4, <1>5, CallGoes DEF Searching, Windows

\* openfilex has looked for the name.
LEMMA FileSearched ==
  ASSUME FilesParts, NEW p \in Pids, NEW n \in Names, NEW m \in OpenModes, OpenSearch(p, n, m)
  PROVE  FilesParts' /\ ~Inside(p) /\ ~Inside(p)'
<1>0. FilesType
  BY DEF FilesParts
<1> DEFINE d == entry[n]
           j == [NoJob EXCEPT !.name = n, !.mode = m, !.node = d]
           s == IF d = NoNode THEN "create"
                ELSE IF m = "write" /\ ~locked[d] /\ opencount[d] = 0 THEN "rewrite" ELSE "check"
<1>1. /\ at[p] = "run" /\ at' = [at EXCEPT ![p] = s] /\ job' = [job EXCEPT ![p] = j]
      /\ UNCHANGED <<entry, opencount, locked, fcb>>
  BY DEF OpenSearch, Goes, countVars
<1>2. d \in Nodes \cup {NoNode}
  BY <1>0 DEF FilesType
<1>3. j.name = n /\ j.mode = m /\ j.node = d /\ j \in CallJobs
  BY <1>2 DEF NoJob, CallJobs
<1>4. /\ s \in CallPlaces \ {"unlink", "dead"} /\ s \in {"create", "rewrite", "check"}
      /\ s # "create" => d \in Nodes /\ OnDisk(d)
  BY <1>2 DEF CallPlaces, OnDisk
<1> HIDE DEF j, s, d
<1>5. FilesParts'
  BY <1>1, <1>3, <1>4, CallGoes DEF Searching, Windows
<1>6. at'[p] = s
  BY <1>0, <1>1, CallMoves
<1> QED
  BY <1>1, <1>4, <1>5, <1>6 DEF Inside

\* A call that returns leaves the files as they are.
LEMMA FileReturns ==
  ASSUME FilesParts, NEW p \in Pids, at[p] \notin {"unlink", "dead", "insert", "inside"},
         at' = [at EXCEPT ![p] = "run"], job' = [job EXCEPT ![p] = NoJob],
         UNCHANGED <<entry, opencount, locked, fcb>>
  PROVE  FilesParts' /\ ~Inside(p)'
<1>1. NoJob \in CallJobs /\ "run" \in CallPlaces \ {"unlink", "dead"}
  BY DEF NoJob, CallJobs, OpenModes, CallPlaces
<1>2. FilesParts'
  BY <1>1, CallGoes DEF Searching, Windows
<1>3. at'[p] = "run"
  BY CallMoves DEF FilesParts
<1> QED
  BY <1>2, <1>3 DEF Inside

\* So does one that goes on within openfilex.
LEMMA FileGoesOn ==
  ASSUME FilesParts, NEW p \in Pids, NEW s \in {"check", "inside"},
         s = "check" => at[p] \in {"fs", "rewrite"}, s = "inside" => at[p] = "insert",
         at' = [at EXCEPT ![p] = s], UNCHANGED <<entry, opencount, locked, fcb, job>>
  PROVE  FilesParts' /\ (Inside(p)' <=> s = "inside")
<1>0. FilesType /\ CallsStand
  BY DEF FilesParts
<1>1. job[p] \in CallJobs /\ job' = [job EXCEPT ![p] = job[p]]
  BY <1>0 DEF FilesType
<1>2. s \in CallPlaces \ {"unlink", "dead"}
  BY DEF CallPlaces
<1>3. at[p] \in Searching /\ at[p] \notin {"unlink", "dead"}
  BY DEF Searching
<1>4. job[p].node \in Nodes /\ OnDisk(job[p].node)
  BY <1>0, <1>3 DEF CallsStand, CallStands, Node
<1>5. FilesParts'
  BY <1>1, <1>2, <1>3, <1>4, CallGoes DEF Windows
<1>6. at'[p] = s
  BY <1>0 DEF FilesType
<1> QED
  BY <1>5, <1>6 DEF Inside

\* Every step of a call.
LEMMA FileStep ==
  ASSUME FilesParts, BusyFits, NEW p \in Pids, OpenStep(p), faults' = {}
  PROVE  FilesParts' /\ BusyFits'
<1>0. FilesType /\ CallsStand
  BY DEF FilesParts
<1>1. CASE \E n \in Names, mode \in OpenModes : OpenSearch(p, n, mode)
  <2>1. PICK n \in Names, mode \in OpenModes : OpenSearch(p, n, mode)
    BY <1>1
  <2>2. FilesParts' /\ ~Inside(p) /\ ~Inside(p)'
    BY <2>1, FileSearched
  <2>3. PICK s, j : /\ at' = [at EXCEPT ![p] = s] /\ job' = [job EXCEPT ![p] = j]
                    /\ vfs_busy' = vfs_busy
    BY <2>1 DEF OpenSearch, Goes
  <2> QED
    BY <1>0, <2>2, <2>3, CallMoves, BusyFollows
<1>2. CASE OpenRewrites(p)
  <2>1. at[p] = "rewrite" /\ UNCHANGED <<entry, opencount, locked, fcb, vfs_busy>>
    BY <1>2 DEF OpenRewrites, Returns, Goes, countVars
  <2>2. \/ at' = [at EXCEPT ![p] = "check"] /\ job' = job
        \/ at' = [at EXCEPT ![p] = "run"] /\ job' = [job EXCEPT ![p] = NoJob]
    BY <1>2 DEF OpenRewrites, Returns, Goes
  <2>3. FilesParts' /\ ~Inside(p)'
    BY <2>1, <2>2, FileGoesOn, FileReturns
  <2>4. PICK s, j : at' = [at EXCEPT ![p] = s] /\ job' = [job EXCEPT ![p] = j]
    <3>1. job = [job EXCEPT ![p] = job[p]]
      BY <1>0 DEF FilesType
    <3> QED
      BY <2>2, <3>1
  <2>5. ~Inside(p)
    BY <2>1 DEF Inside
  <2> QED
    BY <1>0, <2>1, <2>3, <2>4, <2>5, CallMoves, BusyFollows
<1>3. CASE CreateLeaks(p) \/ CreateFails(p)
  BY <1>3 DEF CreateLeaks, CreateFails
<1>4. CASE \E d \in Nodes : createfile(p, d)
  <2>1. PICK d \in Nodes : createfile(p, d)
    BY <1>4
  <2>2. FilesParts'
    BY <2>1, FileCreated
  <2>3. /\ at[p] = "create" /\ at' = [at EXCEPT ![p] = "fs"]
        /\ job' = [job EXCEPT ![p] = [job[p] EXCEPT !.node = d]] /\ OpenEnters(p)
    BY <2>1 DEF createfile, Goes
  <2>4. at'[p] = "fs" /\ \A q \in Pids \ {p} : Inside(q)' <=> Inside(q)
    BY <1>0, <2>3, CallMoves
  <2>5. ~Inside(p) /\ Inside(p)'
    BY <2>3, <2>4 DEF Inside
  <2> QED
    BY <2>2, <2>3, <2>4, <2>5, BusyFollows
<1>5. CASE Created(p)
  <2>1. /\ at[p] = "fs" /\ at' = [at EXCEPT ![p] = "check"] /\ OpenLeaves
        /\ UNCHANGED <<entry, opencount, locked, fcb, job>>
    BY <1>5 DEF Created, Goes, countVars
  <2>2. FilesParts' /\ ~Inside(p)'
    BY <2>1, FileGoesOn
  <2>3. job' = [job EXCEPT ![p] = job[p]]
    BY <1>0, <2>1 DEF FilesType
  <2>4. Inside(p)
    BY <2>1 DEF Inside
  <2> QED
    BY <1>0, <2>1, <2>2, <2>3, <2>4, CallMoves, BusyFollows
<1>6. CASE OpenRefused(p)
  <2>1. /\ at[p] = "check" /\ at' = [at EXCEPT ![p] = "run"] /\ job' = [job EXCEPT ![p] = NoJob]
        /\ UNCHANGED <<entry, opencount, locked, fcb, vfs_busy>>
    BY <1>6 DEF OpenRefused, Returns, Goes, countVars
  <2>2. ~Inside(p)
    BY <2>1 DEF Inside
  <2> QED
    BY <1>0, <2>1, <2>2, FileReturns, CallMoves, BusyFollows
<1>7. CASE Check(p)
  <2>1. at[p] = "check" /\ at' = [at EXCEPT ![p] = "count"] /\ UNCHANGED <<vfs_busy, job>>
    BY <1>7 DEF Check, Goes
  <2>2. FilesParts'
    BY <1>7, FileChecked
  <2>3. job' = [job EXCEPT ![p] = job[p]]
    BY <1>0, <2>1 DEF FilesType
  <2>4. at'[p] = "count" /\ \A q \in Pids \ {p} : Inside(q)' <=> Inside(q)
    BY <1>0, <2>1, <2>3, CallMoves
  <2>5. ~Inside(p) /\ ~Inside(p)'
    BY <2>1, <2>4 DEF Inside
  <2> QED
    BY <2>1, <2>2, <2>4, <2>5, BusyFollows
<1>8. CASE Count(p)
  <2>1. at[p] = "count" /\ at' = [at EXCEPT ![p] = "insert"] /\ UNCHANGED <<vfs_busy, job>>
    BY <1>8 DEF Count, Goes
  <2>2. FilesParts'
    BY <1>8, FileCounted
  <2>3. job' = [job EXCEPT ![p] = job[p]]
    BY <1>0, <2>1 DEF FilesType
  <2>4. at'[p] = "insert" /\ \A q \in Pids \ {p} : Inside(q)' <=> Inside(q)
    BY <1>0, <2>1, <2>3, CallMoves
  <2>5. ~Inside(p) /\ ~Inside(p)'
    BY <2>1, <2>4 DEF Inside
  <2> QED
    BY <2>1, <2>2, <2>4, <2>5, BusyFollows
<1>9. CASE OpenLocks(p)
  <2>1. /\ at[p] = "insert" /\ at' = [at EXCEPT ![p] = "inside"] /\ OpenEnters(p)
        /\ UNCHANGED <<entry, opencount, locked, fcb, job>>
    BY <1>9 DEF OpenLocks, Goes, countVars
  <2>2. FilesParts' /\ Inside(p)'
    BY <2>1, FileGoesOn
  <2>3. job' = [job EXCEPT ![p] = job[p]]
    BY <1>0, <2>1 DEF FilesType
  <2>4. ~Inside(p)
    BY <2>1 DEF Inside
  <2> QED
    BY <1>0, <2>1, <2>2, <2>3, <2>4, CallMoves, BusyFollows
<1>10. CASE \E h \in Handles : Insert(p, h)
  <2>1. PICK h \in Handles : Insert(p, h)
    BY <1>10
  <2>2. FilesParts'
    BY <2>1, FileInserted
  <2>3. /\ at[p] = "inside" /\ at' = [at EXCEPT ![p] = "run"] /\ job' = [job EXCEPT ![p] = NoJob]
        /\ OpenLeaves
    BY <2>1 DEF Insert, Returns, Goes
  <2>4. at'[p] = "run" /\ \A q \in Pids \ {p} : Inside(q)' <=> Inside(q)
    BY <1>0, <2>3, CallMoves
  <2>5. Inside(p) /\ ~Inside(p)'
    BY <2>3, <2>4 DEF Inside
  <2> QED
    BY <2>2, <2>3, <2>4, <2>5, BusyFollows
<1>11. CASE \E h \in Handles, why \in {"close", "delete"} : CloseBegins(p, h, why)
  <2>1. PICK h \in Handles, why \in {"close", "delete"} : CloseBegins(p, h, why)
    BY <1>11
  <2> DEFINE j == [NoJob EXCEPT !.handle = h, !.node = fcb[h].ptr, !.why = why]
  <2>2. /\ h \in HandlesOf(p) /\ at[p] = "run" /\ at' = [at EXCEPT ![p] = "uncount"]
        /\ job' = [job EXCEPT ![p] = j] /\ UNCHANGED <<entry, opencount, locked, fcb, vfs_busy>>
    BY <2>1 DEF CloseBegins, Goes, countVars
  <2>3. FilesParts'
    BY <2>2, FileCloses
  <2>4. j.why = why
    BY DEF NoJob
  <2> HIDE DEF j
  <2>5. /\ at'[p] = "uncount" /\ job'[p] = j
        /\ \A q \in Pids \ {p} : Inside(q)' <=> Inside(q)
    BY <1>0, <2>2, CallMoves
  <2>6. ~Inside(p) /\ ~Inside(p)'
    BY <2>2, <2>4, <2>5 DEF Inside
  <2> QED
    BY <2>2, <2>3, <2>5, <2>6, BusyFollows
<1>12. CASE \E h \in Handles : exit(p, h)
  <2>1. PICK h \in Handles : exit(p, h)
    BY <1>12
  <2> DEFINE j == [NoJob EXCEPT !.handle = h, !.node = fcb[h].ptr, !.why = "exit"]
  <2>2. /\ h \in HandlesOf(p) /\ at[p] = "run" /\ at' = [at EXCEPT ![p] = "uncount"]
        /\ job' = [job EXCEPT ![p] = j] /\ UNCHANGED <<entry, opencount, locked, fcb>>
        /\ OpenEnters(p)
    BY <2>1 DEF exit, Goes, countVars
  <2>3. FilesParts'
    BY <2>2, FileCloses
  <2>4. j.why = "exit"
    BY DEF NoJob
  <2> HIDE DEF j
  <2>5. /\ at'[p] = "uncount" /\ job'[p] = j
        /\ \A q \in Pids \ {p} : Inside(q)' <=> Inside(q)
    BY <1>0, <2>2, CallMoves
  <2>6. ~Inside(p) /\ Inside(p)'
    BY <2>2, <2>4, <2>5 DEF Inside
  <2> QED
    BY <2>2, <2>3, <2>5, <2>6, BusyFollows
<1>13. CASE CloseCounts(p)
  <2>1. at[p] = "uncount" /\ at' = [at EXCEPT ![p] = "unlink"] /\ UNCHANGED <<vfs_busy, job>>
    BY <1>13 DEF CloseCounts, Goes
  <2>2. FilesParts'
    BY <1>13, FileUncounted
  <2>3. job' = [job EXCEPT ![p] = job[p]]
    BY <1>0, <2>1 DEF FilesType
  <2>4. at'[p] = "unlink" /\ \A q \in Pids \ {p} : Inside(q)' <=> Inside(q)
    BY <1>0, <2>1, <2>3, CallMoves
  <2>5. Inside(p)' <=> Inside(p)
    BY <2>1, <2>4 DEF Inside
  <2> QED
    BY <2>1, <2>2, <2>4, <2>5, BusyFollows
<1>14. CASE Unlink(p)
  <2>1. FilesParts'
    BY <1>14, FileUnlinked
  <2>2. job = [job EXCEPT ![p] = job[p]]
    BY <1>0 DEF FilesType
  <2>3. CASE /\ job[p].why = "close" /\ Returns(p, "unlink") /\ UNCHANGED vfs_busy
    <3>1. /\ at[p] = "unlink" /\ at' = [at EXCEPT ![p] = "run"]
          /\ job' = [job EXCEPT ![p] = NoJob]
      BY <2>3 DEF Returns, Goes
    <3>2. at'[p] = "run" /\ \A q \in Pids \ {p} : Inside(q)' <=> Inside(q)
      BY <1>0, <3>1, CallMoves
    <3>3. ~Inside(p) /\ ~Inside(p)'
      BY <2>3, <3>1, <3>2 DEF Inside
    <3> QED
      BY <2>1, <2>3, <3>2, <3>3, BusyFollows
  <2>4. CASE /\ job[p].why = "exit" /\ Goes(p, "unlink", "dying") /\ OpenLeaves
             /\ job' = [job EXCEPT ![p] = NoJob]
    <3>1. at[p] = "unlink" /\ at' = [at EXCEPT ![p] = "dying"]
      BY <2>4 DEF Goes
    <3>2. at'[p] = "dying" /\ \A q \in Pids \ {p} : Inside(q)' <=> Inside(q)
      BY <1>0, <2>4, <3>1, CallMoves
    <3>3. Inside(p) /\ ~Inside(p)'
      BY <2>4, <3>1, <3>2 DEF Inside
    <3> QED
      BY <2>1, <2>4, <3>2, <3>3, BusyFollows
  <2>5. CASE job[p].why = "delete" /\ Goes(p, "unlink", "remove") /\ UNCHANGED <<job, vfs_busy>>
    <3>1. at[p] = "unlink" /\ at' = [at EXCEPT ![p] = "remove"]
      BY <2>5 DEF Goes
    <3>2. job' = [job EXCEPT ![p] = job[p]]
      BY <2>2, <2>5
    <3>3. at'[p] = "remove" /\ \A q \in Pids \ {p} : Inside(q)' <=> Inside(q)
      BY <1>0, <3>1, <3>2, CallMoves
    <3>4. ~Inside(p) /\ ~Inside(p)'
      BY <2>5, <3>1, <3>3 DEF Inside
    <3> QED
      BY <2>1, <2>5, <3>3, <3>4, BusyFollows
  <2> QED
    BY <1>14, <2>3, <2>4, <2>5 DEF Unlink
<1>15. CASE DeleteRemoves(p)
  <2>1. at[p] = "remove" /\ at' = [at EXCEPT ![p] = "fsdel"] /\ UNCHANGED <<vfs_busy, job>>
    BY <1>15 DEF DeleteRemoves, Goes
  <2>2. FilesParts'
    BY <1>15, FileRemoved
  <2>3. job' = [job EXCEPT ![p] = job[p]]
    BY <1>0, <2>1 DEF FilesType
  <2>4. at'[p] = "fsdel" /\ \A q \in Pids \ {p} : Inside(q)' <=> Inside(q)
    BY <1>0, <2>1, <2>3, CallMoves
  <2>5. ~Inside(p) /\ ~Inside(p)'
    BY <2>1, <2>4 DEF Inside
  <2> QED
    BY <2>1, <2>2, <2>4, <2>5, BusyFollows
<1>16. CASE DeleteRefused(p) \/ Deleted(p)
  <2>1. /\ at[p] \in {"remove", "fsdel"} /\ at' = [at EXCEPT ![p] = "run"]
        /\ job' = [job EXCEPT ![p] = NoJob]
        /\ UNCHANGED <<entry, opencount, locked, fcb, vfs_busy>>
    BY <1>16 DEF DeleteRefused, Deleted, Returns, Goes, countVars
  <2>2. ~Inside(p)
    BY <2>1 DEF Inside
  <2> QED
    BY <1>0, <2>1, <2>2, FileReturns, CallMoves, BusyFollows
<1> QED
  BY <1>1, <1>2, <1>3, <1>4, <1>5, <1>6, <1>7, <1>8, <1>9, <1>10, <1>11, <1>12, <1>13, <1>14,
     <1>15, <1>16 DEF OpenStep

\* Every step keeps the invariant: one that goes wrong ends what it says.
LEMMA OpenInvStep == OpenInv /\ [OpenNext]_openVars => OpenInv'
<1> SUFFICES ASSUME OpenInv, [OpenNext]_openVars, faults' = {} PROVE FilesParts' /\ BusyFits'
  BY DEF OpenInv
<1>1. CASE \E p \in Pids : OpenStep(p)
  <2>1. PICK p \in Pids : OpenStep(p)
    BY <1>1
  <2>2. faults = {}
    BY <2>1 DEF OpenStep, OpenSearch, OpenRewrites, CreateLeaks, createfile, Created, CreateFails,
                OpenRefused, Check, Count, OpenLocks, Insert, CloseBegins, exit, CloseCounts,
                Unlink, DeleteRemoves, DeleteRefused, Deleted, Returns, Goes
  <2> QED
    BY <2>1, <2>2, FileStep DEF OpenInv
<1>2. CASE \E c, v \in Pids : Kill(c, v)
  <2>1. PICK c \in Pids, v \in Pids : Kill(c, v)
    BY <1>2
  <2>2. FilesParts /\ BusyFits
    BY <2>1 DEF OpenInv, Kill
  <2>3. FilesParts' /\ vfs_busy.busy # v
    BY <2>1, <2>2, FileKilled
  <2>4. /\ at' = [at EXCEPT ![v] = "dead"] /\ job' = [job EXCEPT ![v] = NoJob]
        /\ vfs_busy' = vfs_busy
    BY <2>1 DEF Kill
  <2>5. at'[v] = "dead" /\ \A q \in Pids \ {v} : Inside(q)' <=> Inside(q)
    BY <2>2, <2>4, CallMoves DEF FilesParts
  <2>6. ~Inside(v) /\ ~Inside(v)'
    BY <2>2, <2>3, <2>5 DEF BusyFits, Inside
  <2> QED
    BY <2>2, <2>3, <2>4, <2>5, <2>6, BusyFollows
<1>3. CASE UNCHANGED openVars
  <2>1. FilesParts /\ BusyFits
    BY <1>3 DEF OpenInv, openVars
  <2> QED
    BY <1>3, <2>1 DEF openVars, countVars, FilesParts, FilesType, CallsStand, CallStands, HandlesFit,
       CountsFit, LocksFit, BusyFits, Inside, Held, HandlesOn, OpenHandles, Inserting, Kept,
       HandlesOf, OnDisk, Node
<1> QED
  BY <1>1, <1>2, <1>3 DEF OpenNext, OpenStops

\* Nothing is open at first.
LEMMA OpenInvInit == OpenInit => OpenInv
<1> SUFFICES ASSUME OpenInit PROVE FilesParts /\ BusyFits
  BY DEF OpenInv
<1>1. NoJob \in CallJobs
  BY DEF NoJob, CallJobs, OpenModes
<1>2. \A p \in Pids : at[p] = "run" /\ job[p] = NoJob
  BY DEF OpenInit
<1>3. OpenHandles = {} /\ Kept = {}
  BY DEF OpenInit, OpenHandles, Kept
<1>4. FilesType
  BY <1>1 DEF OpenInit, FilesType, CallPlaces
<1>5. CallsStand
  BY <1>2 DEF CallsStand, CallStands, Searching
<1>6. HandlesFit
  BY <1>2, <1>3 DEF HandlesFit, Windows
<1>7. CountsFit
  <2> SUFFICES ASSUME NEW d \in Nodes
               PROVE  opencount[d] = Cardinality(Held(d)) + Cardinality(Inserting(d))
    BY DEF CountsFit
  <2>1. Held(d) = {} /\ Inserting(d) = {}
    BY <1>2, <1>3, HeldIs DEF Inserting
  <2> QED
    BY <2>1, FS_EmptySet DEF OpenInit
<1>8. LocksFit
  BY <1>3 DEF OpenInit, LocksFit
<1>9. BusyFits
  <2>1. NoPid \notin Pids
    BY OpenAssumption DEF OpenAssumption
  <2> QED
    BY <1>2, <2>1 DEF OpenInit, BusyFits, FreeVar, Inside
<1> QED
  BY <1>4, <1>5, <1>6, <1>7, <1>8, <1>9 DEF FilesParts

\* What the invariant says of the list, the counts, the locks, the directory and vfs_busy.
LEMMA OpenInvAgrees == OpenInv => OpenFilesAgree
<1> SUFFICES ASSUME FilesParts, BusyFits
             PROVE  /\ OpenTypeOK /\ OneWriter /\ OpenedIsCount /\ LockedByHandle
                    /\ WriterKeepsFile /\ BusyIsInside /\ DeadOwnNothing
  BY DEF OpenInv, OpenFilesAgree
<1>0. FilesType /\ CallsStand /\ HandlesFit /\ CountsFit /\ LocksFit
  BY DEF FilesParts
<1>1. NoPid \notin Pids
  BY OpenAssumption DEF OpenAssumption
<1>2. OpenTypeOK
  <2>1. vfs_busy \in SyncVars(Pids)
    BY DEF BusyFits, SyncVars
  <2>2. \A p \in Pids : at[p] \in {"uncount", "unlink"} => job[p].handle \in HandlesOf(p)
    BY <1>0 DEF CallsStand, CallStands
  <2> QED
    BY <1>0, <2>1, <2>2 DEF OpenTypeOK, FilesType, CallPlaces
<1>3. OneWriter
  <2> SUFFICES ASSUME NEW d \in Nodes, NEW g \in Held(d), NEW h \in Held(d), g # h
               PROVE  Compatible(fcb[g].mode, fcb[h].mode)
    BY DEF OneWriter, Compatible
  <2>1. g \in Kept /\ h \in Kept /\ fcb[g].ptr = fcb[h].ptr
    BY HeldIs
  <2> QED
    BY <1>0, <2>1 DEF HandlesFit
<1>4. OpenedIsCount
  BY <1>0 DEF OpenedIsCount, CountsFit, Inserting
<1>5. LockedByHandle
  BY <1>0, HeldIs DEF LockedByHandle, LocksFit
<1>6. WriterKeepsFile
  BY <1>0, HeldIs DEF WriterKeepsFile, HandlesFit
<1>7. BusyIsInside
  <2> DEFINE inside == {p \in Pids : \/ at[p] \in {"fs", "inside"}
                                     \/ at[p] \in {"uncount", "unlink"} /\ job[p].why = "exit"}
  <2>1. \A p \in Pids : p \in inside <=> vfs_busy.busy = p
    BY DEF BusyFits, Inside
  <2>2. inside \subseteq Pids
    OBVIOUS
  <2> HIDE DEF inside
  <2>3. Cardinality(inside) = vfs_busy.wait /\ vfs_busy.wait \in 0 .. 1
    <3>1. CASE vfs_busy.busy = NoPid
      <4>1. inside = {}
        BY <1>1, <2>1, <2>2, <3>1
      <4>2. vfs_busy.wait = 0
        BY <3>1 DEF BusyFits
      <4> QED
        BY <4>1, <4>2, FS_EmptySet
    <3>2. CASE vfs_busy.busy # NoPid
      <4>1. vfs_busy.busy \in Pids
        BY <3>2 DEF BusyFits
      <4>2. inside = {vfs_busy.busy}
        BY <2>1, <2>2, <4>1
      <4>3. vfs_busy.wait = 1
        BY <3>2 DEF BusyFits
      <4>4. Cardinality({vfs_busy.busy}) = 1
        BY FS_Singleton, Zenon
      <4> QED
        BY <4>2, <4>3, <4>4
    <3> QED
      BY <3>1, <3>2
  <2> QED
    BY <2>1, <2>3 DEF BusyIsInside, inside
<1>8. DeadOwnNothing
  BY <1>0 DEF DeadOwnNothing, CallsStand, CallStands
<1> QED
  BY <1>2, <1>3, <1>4, <1>5, <1>6, <1>7, <1>8

\* Whatever the order of opening, closing, deleting, exiting and being killed.
THEOREM AgreeingFiles == OpenSpec => []OpenFilesAgree
<1>1. OpenInit => OpenInv
  BY OpenInvInit
<1>2. OpenInv /\ [OpenNext]_openVars => OpenInv'
  BY OpenInvStep
<1>3. OpenInv => OpenFilesAgree
  BY OpenInvAgrees
<1> QED
  BY <1>1, <1>2, <1>3, PTL DEF OpenSpec
=============================================================================
