------------------------------ MODULE Environment ------------------------------
(***************************************************************************)
(* The environment strings (process/environment.c): one list of variables  *)
(* for the whole system, newest first, behind the flag env_busywait.  The  *)
(* consoles are kernel threads and can be preempted anywhere: a set is two *)
(* turns behind the flag, the search and the store.  The programs' calls   *)
(* run with interrupts off.  Nothing calls env_unsetenv, so that variables *)
(* stay: a pointer into the list is the number of nodes from there on.     *)
(* Their values are left out; a set of one that is there changes nothing.  *)
(*                                                                         *)
(* What the flag does not prevent is recorded in envHarm at the step that  *)
(* causes it, and the model stops there.                                   *)
(***************************************************************************)
EXTENDS Integers, Sequences, FiniteSets

CONSTANTS Setters,                  \* the consoles
          Variables, NoVariable     \* their names

ASSUME EnvironmentAssumption == NoVariable \notin Variables

EnvCalls == [op : {"set", "get"}, var : Variables] \cup [op : {"show"}, var : {NoVariable}]
NoEnvCall == [op |-> "none", var |-> NoVariable]

VARIABLES
  env,              \* the list
  env_busywait,
  turn, envCall,    \* where a console is, and in which call
  rest,             \* where its search begins
  environment,      \* and what it has found
  envHarm           \* auxiliary

envVars == <<env, env_busywait, turn, envCall, rest, environment, envHarm>>

EnvInit ==
  /\ env = <<>> /\ env_busywait = FALSE
  /\ turn = [c \in Setters |-> "idle"] /\ envCall = [c \in Setters |-> NoEnvCall]
  /\ rest = [c \in Setters |-> 0] /\ environment = [c \in Setters |-> 0]
  /\ envHarm = {}

------------------------------------------------------------------------------
\* The node from which on n are left, and the first of a name among the last n.
NodeAt(n) == Len(env) + 1 - n
Holding(v, n) == {k \in 1 .. n : env[NodeAt(k)] = v}
FoundIn(v, n) ==
  IF Holding(v, n) = {} THEN 0 ELSE CHOOSE k \in Holding(v, n) : \A j \in Holding(v, n) : j <= k
InsideEnv(c) == turn[c] \in {"search", "store"}

TurnsTo(c, from, to) == envHarm = {} /\ turn[c] = from /\ turn' = [turn EXCEPT ![c] = to]
EndsCall(c, from) ==
  /\ TurnsTo(c, from, "idle")
  /\ envCall' = [envCall EXCEPT ![c] = NoEnvCall]
  /\ rest' = [rest EXCEPT ![c] = 0] /\ environment' = [environment EXCEPT ![c] = 0]

\* A call of a console, and the look at the head with which env_getstring and
\* env_showenv begin.  The former does not wait when there is none.
env_getstring(c, call) ==
  /\ \/ /\ env # <<>> \/ call.op = "show"
        /\ TurnsTo(c, "idle", "test")
        /\ envCall' = [envCall EXCEPT ![c] = call] /\ rest' = [rest EXCEPT ![c] = Len(env)]
     \/ /\ env = <<>> /\ call.op = "set" /\ TurnsTo(c, "idle", "retest")
        /\ envCall' = [envCall EXCEPT ![c] = call] /\ UNCHANGED rest
  /\ UNCHANGED <<env, env_busywait, environment, envHarm>>

\* while (env_busywait); ... env_busywait = 1;
FindsIdle(c) ==
  /\ TurnsTo(c, "test", "enter") \/ TurnsTo(c, "retest", "reenter")
  /\ ~env_busywait
  /\ UNCHANGED <<env, env_busywait, envCall, rest, environment, envHarm>>
EntersList(c) ==
  /\ TurnsTo(c, "enter", "search") \/ TurnsTo(c, "reenter", "store")
  /\ env_busywait' = TRUE
  /\ envHarm' = IF \E d \in Setters \ {c} : InsideEnv(d) THEN {"two inside"} ELSE {}
  /\ UNCHANGED <<env, envCall, rest, environment>>

\* ... or the printing of the list.
SearchesList(c) ==
  LET found == FoundIn(envCall[c].var, rest[c]) IN
  /\ env_busywait' = FALSE
  /\ \/ /\ envCall[c].op = "set" \/ (envCall[c].op = "get" /\ found # 0)
        /\ TurnsTo(c, "search", "retest")
        /\ environment' = [environment EXCEPT ![c] = found] /\ UNCHANGED <<envCall, rest>>
     \/ /\ envCall[c].op = "show" \/ (envCall[c].op = "get" /\ found = 0)
        /\ EndsCall(c, "search")
  /\ UNCHANGED <<env, envHarm>>

\* The list after a call that has found n, or nothing.
Stored(call, n) ==
  IF call.op = "set" /\ n = 0 THEN <<call.var>> \o env ELSE env

\* Mutant: the flag stays set.
StoresAndKeeps(c) ==
  /\ EndsCall(c, "store") /\ env' = Stored(envCall[c], environment[c])
  /\ UNCHANGED <<env_busywait, envHarm>>

\* The second turn of env_setenv and env_getenv: somebody else may have added the
\* variable since the search.
StoresVariable(c) ==
  LET call == envCall[c]  n == environment[c] IN
  /\ EndsCall(c, "store")
  /\ env' = Stored(call, n)
  /\ env_busywait' = FALSE
  /\ envHarm' = IF n = 0 /\ Holding(call.var, Len(env)) # {} THEN {"two of a name"} ELSE {}

\* A program's call.  It waits for a flag that nobody can clear meanwhile.
SystemCall(call) ==
  /\ envHarm = {}
  /\ env' = IF env_busywait THEN env ELSE Stored(call, FoundIn(call.var, Len(env)))
  /\ envHarm' = IF env_busywait /\ (env # <<>> \/ call.op = "set") THEN {"hang"} ELSE {}
  /\ UNCHANGED <<env_busywait, turn, envCall, rest, environment>>

\* Nothing more is modelled after a harm.
EnvStops == envHarm # {} /\ UNCHANGED envVars

EnvNext ==
  \/ \E c \in Setters :
       \/ (\E call \in EnvCalls : env_getstring(c, call))
       \/ FindsIdle(c) \/ EntersList(c) \/ SearchesList(c) \/ StoresVariable(c)
  \/ \E call \in {e \in EnvCalls : e.op # "show"} : SystemCall(call)
  \/ EnvStops

EnvSpec == EnvInit /\ [][EnvNext]_envVars

------------------------------------------------------------------------------
\* A variable is on the list once, so that all who set and read it mean the same
\* node, by a search over a list that grows under it too: what a call has found has
\* its name, and it has found it if it was there when the call began.  The flag is
\* set just while one is inside.
EnvironmentIsSound ==
  envHarm = {} =>
    /\ \A v \in Variables : Cardinality(Holding(v, Len(env))) <= 1
    /\ Cardinality({c \in Setters : InsideEnv(c)}) = IF env_busywait THEN 1 ELSE 0
    /\ \A c \in Setters :
         turn[c] \in {"retest", "reenter", "store"} =>
           environment[c] = FoundIn(envCall[c].var, rest[c])
==============================================================================
