------------------------------ MODULE Scripts ------------------------------
(***************************************************************************)
(* The wasm scripts (script_wasm.rs, wasm_config.rs, and the callers of    *)
(* their hooks in mitm.rs and web.rs). A watcher task reloads the whole    *)
(* directory on every change: it loads every file into a new engine, swaps *)
(* the list of the registry, and then destroys the engines of the old list *)
(* one after another. Meanwhile proxies and web handlers call hooks: each  *)
(* takes a copy of the list and locks the engines on it one by one. An     *)
(* engine makes its guest instance when it is first called. A guest may    *)
(* trap; loop, which is only ended by the epoch that a timer advances for  *)
(* the engines the registry lists; or ask the program's own web server and *)
(* wait for the answer in the host, where no epoch reaches it.             *)
(* The settings a script declares live in a store of their own; its file,  *)
(* written by the same calls and read at the start only, is left out.      *)
(***************************************************************************)
EXTENDS Naturals, FiniteSets

CONSTANTS
    Paths,                           \* the script files, numbered in their order
    Proxies, Handlers,               \* tasks that call hooks: proxies; web handlers
                                     \* and those that hand on events
    Values,                          \* what a user may set a script's setting to
    Loops,                           \* hooks in which a guest may loop for ever
    Asks,                            \* hooks in which a guest may call rest_call
    MaxEngines, MaxEdits, MaxCalls   \* bounds

ASSUME PathsAssumption == Paths \subseteq Nat /\ IsFiniteSet(Paths)
Callers == Proxies \cup Handlers
ASSUME CallersAssumption == "watcher" \notin Callers /\ "free" \notin Callers
ASSUME ValuesAssumption == {"unset", "default"} \cap Values = {}
ASSUME EnginesAssumption == {MaxEngines, MaxEdits, MaxCalls} \subseteq Nat

VARIABLES
    disk,     \* what the directory holds
    dirs,     \* scripts whose private directory exists
    watch,    \* notifications the watcher has not read
    watching, \* the directory is being watched ...
    early,    \* ... and a file was changed before it was
    used,     \* number of engines made so far
    pathOf,   \* the script of each engine ...
    code,     \* ... and the file content it was loaded from
    reg,      \* the engines the registry lists
    wpc, fresh, old, \* the watcher, the engines it loads, those it destroys
    closed, live,    \* flags of each engine: destroyed; has an instance
    lock,     \* who holds the engine's mutex
    hook,     \* the hook each caller is calling
    todo,     \* its copy of the list, as far as it is not done
    at,       \* how far it is with the first of them
    value,    \* the value it sets
    mem,      \* the scripts' settings
    edits, calls     \* counters of the bounds: edits; hooks and rest_calls

fileVars   == <<disk, dirs, watch, watching, early, edits>>
watchVars  == <<used, pathOf, code, reg, wpc, fresh, old>>
engineVars == <<closed, live, lock>>
callVars   == <<hook, todo, at, value, calls>>
vars == <<fileVars, watchVars, engineVars, callVars, mem>>

Engines  == 1..MaxEngines
\* A file that does not load, as one that is still being copied, is "none".
Contents == {"none", "v1", "v2"}
Loadable(p) == disk[p] # "none"
Hooks    == {"modify", "configs", "changed"}

\* The lists of the code are sorted by path; engines are numbered in that order.
First(S) == CHOOSE e \in S : \A f \in S : e <= f
Current(c) == First(todo[c])

---------------------------------------------------------------------------
Init ==
    /\ disk \in [Paths -> {"none", "v1"}] /\ dirs = {} /\ watch = 0 /\ edits = 0
    /\ watching = FALSE /\ early = FALSE
    /\ used = 0 /\ pathOf = [e \in Engines |-> 0] /\ code = [e \in Engines |-> "none"]
    /\ reg = {} /\ wpc = "scan" /\ fresh = {} /\ old = {}
    /\ closed = [e \in Engines |-> FALSE] /\ live = [e \in Engines |-> FALSE]
    /\ lock = [e \in Engines |-> "free"]
    /\ hook = [c \in Callers |-> "none"] /\ todo = [c \in Callers |-> {}]
    /\ at = [c \in Callers |-> "idle"] /\ value = [c \in Callers |-> "unset"]
    /\ calls = 0
    /\ mem = [p \in Paths |-> "unset"]

\* Somebody changes a file of the directory.
EditFile(p) ==
    /\ edits < MaxEdits /\ edits' = edits + 1
    /\ \E x \in Contents \ {disk[p]} : disk' = [disk EXCEPT ![p] = x]
    /\ IF watching THEN watch' = watch + 1 /\ UNCHANGED early
                   ELSE early' = TRUE /\ UNCHANGED watch
    /\ UNCHANGED <<dirs, watching, watchVars, engineVars, callVars, mem>>

---------------------------------------------------------------------------
(* The watcher. The first reload is done by the start of the program, and  *)
(* the directory is watched only after it (start_wasm_engine).             *)

Recv ==
    /\ wpc = "idle" /\ watch > 0 /\ watch' = watch - 1 /\ wpc' = "scan"
    /\ UNCHANGED <<disk, dirs, watching, early, edits, used, pathOf, code, reg, fresh,
                   old, engineVars, callVars, mem>>

\* reload_dir, first half: a new engine for every file that loads.
Scan ==
    LET good == {p \in Paths : Loadable(p)}
        Rank(p) == Cardinality({q \in good : q <= p})
        made == used + 1 .. used + Cardinality(good)
        Of(e) == CHOOSE p \in good : used + Rank(p) = e
    IN
    /\ wpc = "scan" /\ used + Cardinality(good) <= MaxEngines
    /\ used' = used + Cardinality(good) /\ fresh' = made
    /\ pathOf' = [e \in Engines |-> IF e \in made THEN Of(e) ELSE pathOf[e]]
    /\ code' = [e \in Engines |-> IF e \in made THEN disk[Of(e)] ELSE code[e]]
    /\ wpc' = "swap"
    /\ UNCHANGED <<fileVars, reg, old, engineVars, callVars, mem>>

\* Mutant: the notifications of the meantime are taken to be served by this reload.
SwapDrains ==
    /\ wpc = "swap" /\ reg' = fresh /\ old' = reg /\ fresh' = {} /\ wpc' = "next"
    /\ watch' = 0
    /\ UNCHANGED <<disk, dirs, watching, early, edits, used, pathOf, code, engineVars,
                   callVars, mem>>

\* reload_dir, second half, under the registry's write lock.
Swap ==
    /\ wpc = "swap" /\ reg' = fresh /\ old' = reg /\ fresh' = {} /\ wpc' = "next"
    /\ UNCHANGED <<fileVars, used, pathOf, code, engineVars, callVars, mem>>

\* destroy_loaded_scripts: the next engine is marked as destroyed ...
Close ==
    /\ wpc = "next" /\ old # {}
    /\ closed' = [closed EXCEPT ![First(old)] = TRUE] /\ wpc' = "lock"
    /\ UNCHANGED <<fileVars, used, pathOf, code, reg, fresh, old, live, lock,
                   callVars, mem>>

\* Mutant: the reload writes to the directory that is watched.
ReloadedWrites ==
    /\ wpc = "next" /\ old = {} /\ wpc' = "idle" /\ watching' = TRUE /\ watch' = watch + 1
    /\ UNCHANGED <<disk, dirs, early, edits, used, pathOf, code, reg, fresh, old, engineVars,
                   callVars, mem>>

Reloaded ==
    /\ wpc = "next" /\ old = {} /\ wpc' = "idle" /\ watching' = TRUE
    /\ UNCHANGED <<disk, dirs, watch, early, edits, used, pathOf, code, reg, fresh, old, engineVars,
                   callVars, mem>>

\* ... and, once its mutex is free, loses its instance. on-destroy runs if
\* there was one.
Take ==
    LET e == First(old) IN
    /\ wpc = "lock" /\ lock[e] = "free"
    /\ \/ /\ live[e] /\ live' = [live EXCEPT ![e] = FALSE]
          /\ lock' = [lock EXCEPT ![e] = "watcher"] /\ wpc' = "destroy"
          /\ UNCHANGED old
       \/ /\ ~live[e] /\ old' = old \ {e} /\ wpc' = "next"
          /\ UNCHANGED <<live, lock>>
    /\ UNCHANGED <<fileVars, used, pathOf, code, reg, fresh, closed, callVars, mem>>

\* on-destroy returns or traps; an error is only logged.
Destroyed ==
    LET e == First(old) IN
    /\ wpc = "destroy" /\ old' = old \ {e}
    /\ lock' = [lock EXCEPT ![e] = "free"] /\ wpc' = "next"
    /\ UNCHANGED <<fileVars, used, pathOf, code, reg, fresh, closed, live,
                   callVars, mem>>

DestroyLoops ==
    /\ wpc = "destroy" /\ "destroy" \in Loops /\ wpc' = "stuck"
    /\ UNCHANGED <<fileVars, used, pathOf, code, reg, fresh, old, engineVars,
                   callVars, mem>>

\* on-destroy waits in rest_call ...
DestroyAsks ==
    /\ wpc = "destroy" /\ "destroy" \in Asks /\ wpc' = "host"
    /\ calls < MaxCalls /\ calls' = calls + 1
    /\ UNCHANGED <<fileVars, used, pathOf, code, reg, fresh, old, engineVars,
                   hook, todo, at, value, mem>>

\* ... for an answer that comes or not.
DestroyAnswered ==
    /\ wpc = "host" /\ wpc' = "destroy"
    /\ UNCHANGED <<fileVars, used, pathOf, code, reg, fresh, old, engineVars,
                   callVars, mem>>

---------------------------------------------------------------------------
(* The callers. They are tasks of two runtimes; a guest's code runs inside *)
(* its caller, with the engine's mutex held.                               *)

\* A hook is called for every script on the list.
Begin(c, h) ==
    /\ watching /\ at[c] = "idle" /\ calls < MaxCalls /\ calls' = calls + 1
    /\ hook' = [hook EXCEPT ![c] = h] /\ todo' = [todo EXCEPT ![c] = reg]
    /\ at' = [at EXCEPT ![c] = "next"]
    /\ UNCHANGED <<value, fileVars, watchVars, engineVars, mem>>

\* A packet (run_wasm_hooks), an event (run_wasm_ws_hooks), the settings page.
PacketHooks(c) == Begin(c, "modify")
EventHooks(c)  == Begin(c, "modify")
PageHooks(c)   == Begin(c, "configs")

\* update_custom_config_entry finds the script on the list and stores the
\* value before it tells the script. When the file cannot be written the value
\* stays in memory and the script is not told.
Update(c, p, v) ==
    /\ watching /\ at[c] = "idle" /\ calls < MaxCalls /\ calls' = calls + 1
    /\ \E e \in reg :
          /\ pathOf[e] = p
          /\ todo' = [todo EXCEPT ![c] = {e}]
    /\ hook' = [hook EXCEPT ![c] = "changed"] /\ value' = [value EXCEPT ![c] = v]
    /\ at' = [at EXCEPT ![c] = "store"]
    /\ UNCHANGED <<fileVars, watchVars, engineVars, mem>>

Done(c) ==
    /\ at' = [at EXCEPT ![c] = "idle"] /\ hook' = [hook EXCEPT ![c] = "none"]
    /\ todo' = [todo EXCEPT ![c] = {}] /\ value' = [value EXCEPT ![c] = "unset"]

SetJson(c) ==
    /\ at[c] = "store" /\ mem' = [mem EXCEPT ![pathOf[Current(c)]] = value[c]]
    /\ \/ at' = [at EXCEPT ![c] = "next"] /\ UNCHANGED <<hook, todo, value>>
       \/ Done(c)
    /\ UNCHANGED <<calls, fileVars, watchVars, engineVars>>

\* This script is done: the mutex is free again and the next one is to come.
Next1(c) ==
    /\ todo' = [todo EXCEPT ![c] = @ \ {Current(c)}] /\ at' = [at EXCEPT ![c] = "next"]
Unlock(c) == lock' = [lock EXCEPT ![Current(c)] = "free"]

\* Mutant: an engine that was destroyed while the caller waited is not refused.
EnterClosed(c) ==
    LET e == Current(c) IN
    /\ at[c] = "next" /\ todo[c] # {} /\ lock[e] = "free"
    /\ lock' = [lock EXCEPT ![e] = c]
    /\ at' = [at EXCEPT ![c] = IF live[e] THEN "run" ELSE "create"]
    /\ UNCHANGED <<hook, todo, value, calls, closed, live, fileVars, watchVars,
                   mem>>

\* ensure_live refuses an engine that is closed. The error is logged and the
\* next script is called.
Refused(c) ==
    LET e == Current(c) IN
    /\ at[c] = "next" /\ todo[c] # {} /\ lock[e] = "free" /\ closed[e]
    /\ Next1(c)
    /\ UNCHANGED <<hook, value, calls, engineVars, fileVars, watchVars, mem>>

Enter(c) ==
    LET e == Current(c) IN
    /\ at[c] = "next" /\ todo[c] # {} /\ lock[e] = "free" /\ ~closed[e]
    /\ lock' = [lock EXCEPT ![e] = c]
    /\ at' = [at EXCEPT ![c] = IF live[e] THEN "run" ELSE "create"]
    /\ UNCHANGED <<hook, todo, value, calls, closed, live, fileVars, watchVars,
                   mem>>

\* The private directory is made in the watched one, which notifies the watcher.
MakeDir(p) ==
    /\ dirs' = dirs \cup {p}
    /\ watch' = IF p \in dirs THEN watch ELSE watch + 1
    /\ UNCHANGED <<disk, watching, early, edits>>

Instantiate(c) ==
    /\ at[c] = "create" /\ MakeDir(pathOf[Current(c)])
    /\ at' = [at EXCEPT ![c] = "on_create"]
    /\ UNCHANGED <<hook, todo, value, calls, engineVars, watchVars, mem>>

\* The instance exists once on-create has returned.
Create(c) ==
    LET e == Current(c) IN
    /\ at[c] = "on_create"
    /\ \/ /\ live' = [live EXCEPT ![e] = TRUE] /\ at' = [at EXCEPT ![c] = "run"]
          /\ UNCHANGED <<todo, lock>>
       \/ Next1(c) /\ Unlock(c) /\ UNCHANGED live
    /\ UNCHANGED <<hook, value, calls, closed, fileVars, watchVars, mem>>

\* The hook returns and asks for the packet to be forwarded, or leaves the
\* event to others; or it traps, which counts as the same. custom_configs
\* persists the default of a setting that has no value yet.
Returns(c) ==
    LET e == Current(c)
        p == pathOf[e]
    IN
    /\ at[c] = "run" /\ Next1(c) /\ Unlock(c)
    /\ IF hook[c] = "configs" /\ mem[p] = "unset"
       THEN mem' = [mem EXCEPT ![p] = "default"]
       ELSE UNCHANGED mem
    /\ UNCHANGED <<hook, value, calls, closed, live, fileVars, watchVars>>

Traps(c) ==
    /\ at[c] = "run" /\ Next1(c) /\ Unlock(c)
    /\ UNCHANGED <<hook, value, calls, closed, live, fileVars, watchVars, mem>>

\* Decision::Drop, or an event that is answered with another, ends the round.
\* The packet is given to tx like a reply (SendBack in pkt_modify_hook).
Decides(c) ==
    LET e == Current(c) IN
    /\ at[c] = "run" /\ hook[c] = "modify" /\ Unlock(c) /\ Done(c)
    /\ UNCHANGED <<calls, closed, live, fileVars, watchVars, mem>>

Finish(c) ==
    /\ at[c] = "next" /\ todo[c] = {} /\ Done(c)
    /\ UNCHANGED <<calls, engineVars, fileVars, watchVars, mem>>

\* A guest runs a hook, or its on-create, of a kind in S.
Runs(c, S) == \/ at[c] = "run" /\ hook[c] \in S
              \/ at[c] = "on_create" /\ "create" \in S

\* It does not return.
HookLoops(c) ==
    /\ Runs(c, Loops) /\ at' = [at EXCEPT ![c] = "stuck"]
    /\ UNCHANGED <<hook, todo, value, calls, engineVars, fileVars, watchVars,
                   mem>>

\* It waits in rest_call for the program's own web server.
HookAsks(c) ==
    /\ Runs(c, Asks) /\ at' = [at EXCEPT ![c] = "host"]
    /\ calls < MaxCalls /\ calls' = calls + 1
    /\ UNCHANGED <<hook, todo, value, engineVars, fileVars, watchVars, mem>>

\* The answer comes, or an error. Nothing says that it does: the request has no
\* time limit, and the handler may wait for a proxy that runs this guest.
HookAnswered(c) ==
    /\ at[c] = "host"
    /\ at' = [at EXCEPT ![c] = IF live[Current(c)] THEN "run" ELSE "on_create"]
    /\ UNCHANGED <<hook, todo, value, calls, engineVars, fileVars, watchVars,
                   mem>>

---------------------------------------------------------------------------
(* The epoch. tick_all advances it for the engines the registry lists now. *)

\* Mutant: only a guest that has its instance is interrupted.
DeadlineLive(c) ==
    /\ at[c] = "stuck" /\ Current(c) \in reg /\ live[Current(c)] /\ Next1(c) /\ Unlock(c)
    /\ UNCHANGED <<hook, value, calls, closed, live, fileVars, watchVars, mem>>

\* A call has run for as many ticks as it may, and traps. An on-destroy is never
\* interrupted: the engine it runs in is no longer listed.
Deadline(c) ==
    /\ at[c] = "stuck" /\ Current(c) \in reg /\ Next1(c) /\ Unlock(c)
    /\ UNCHANGED <<hook, value, calls, closed, live, fileVars, watchVars, mem>>

---------------------------------------------------------------------------
Watcher == Recv \/ Scan \/ Swap \/ Close \/ Reloaded \/ Take \/ Destroyed

Call(c) == \/ SetJson(c) \/ Refused(c) \/ Enter(c) \/ Instantiate(c) \/ Create(c)
           \/ Returns(c) \/ Traps(c) \/ Decides(c) \/ Finish(c)

Next ==
    \/ Watcher \/ DestroyLoops \/ DestroyAsks \/ DestroyAnswered
    \/ \E p \in Paths : EditFile(p)
    \/ \E c \in Proxies : PacketHooks(c)
    \/ \E c \in Handlers : \/ EventHooks(c) \/ PageHooks(c)
                          \/ \E p \in Paths, v \in Values : Update(c, p, v)
    \/ \E c \in Callers :
          \/ Call(c) \/ HookLoops(c) \/ HookAsks(c) \/ HookAnswered(c)
          \/ Deadline(c)

Spec == Init /\ [][Next]_vars

\* The tasks run when they can, and the ticker never stops. Nothing is assumed of
\* the answers a guest waits for.
FairSpec ==
    /\ Spec /\ WF_vars(Watcher)
    /\ \A c \in Callers : WF_vars(Call(c)) /\ WF_vars(Deadline(c))

---------------------------------------------------------------------------
(* Properties.                                                             *)

\* A guest instance exists only in an engine that the registry lists or that
\* is still to be destroyed: a caller that got its list before a reload does
\* not bring a destroyed script back to life, where nothing would ever run its
\* on-destroy or free it (ensure_live, destroy).
NoOrphan == \A e \in Engines : live[e] => e \in reg \cup old

\* With no notification left and the watcher at rest, the registry lists
\* exactly the files that load, with their present content, whatever changed
\* while it was reloading (start_wasm_engine, reload_dir). Changes made between
\* the first reload and the start of the watch are not noticed.
RegistryFollowsFiles ==
    wpc = "idle" /\ watch = 0 /\ ~early
        => /\ {pathOf[e] : e \in reg} = {p \in Paths : Loadable(p)}
           /\ \A e \in reg : code[e] = disk[pathOf[e]]

\* Out of the epoch's reach: a guest that loops in an engine that is not listed
\* any more (a reload has replaced it, perhaps the one its own new directory
\* caused), and one that waits in rest_call.
Unreachable(e) ==
    \/ \E c \in Callers : /\ lock[e] = c
                          /\ at[c] = "host" \/ (at[c] = "stuck" /\ e \notin reg)
    \/ lock[e] = "watcher" /\ wpc \in {"stuck", "host"}

\* Every call comes to an end, also when a script on its list loops, traps, is
\* replaced or is destroyed, unless it waits for ever for a guest that is out of
\* the epoch's reach (run_wasm_hooks, ensure_live, tick_all).
CallsEnd ==
    \A c \in Callers : []<>(at[c] = "idle") \/ <>[](\E e \in todo[c] : Unreachable(e))

\* The watcher serves all changes and comes to rest, unless it waits for ever for
\* such a guest in an engine it is to destroy: callers do not hold it up, and the
\* directories it is notified of do not make it reload without end.
ReloadsEnd ==
    <>[](wpc = "idle" /\ watch = 0) \/ <>[](\E e \in old : Unreachable(e))
=============================================================================
