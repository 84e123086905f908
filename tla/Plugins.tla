------------------------------ MODULE Plugins ------------------------------
(* The plugin manager (pirc-plugin) and the client's /plugin commands.       *)
(*                                                                           *)
(* A library file on disk reports a name and the capabilities it wants, and  *)
(* may be replaced at any time.  Loaded libraries are plugins; the manager   *)
(* keeps them by name beside a registry of commands and one of events.       *)
(* Every call into a plugin may fail, so an operation is an operator from a  *)
(* world (plugins, registries, echoed lines) to the set of worlds it can     *)
(* leave, and the operations of the client compose those of the manager.     *)
EXTENDS Naturals, FiniteSets

CONSTANTS
    File,           \* library files
    Name,           \* names a library may report
    BadName,        \* a name that is_valid_plugin_name refuses
    Command, Event, \* what plugins register
    Nil,
    MaxVersion      \* bound on replacements of a library

VARIABLES
    disk,           \* file -> what a library loaded from it reports
    auto,           \* file -> "enabled" in its configuration
    world,          \* [plugins, commands, events, sink]
    delivered       \* plugins that received the last event or command
pluginVars == <<disk, auto, world, delivered>>

Capability == {"commands", "events"}
-----------------------------------------------------------------------------
(* registry.rs, sandbox.rs *)

Require(w, n, cap) == w.plugins[n] # Nil /\ cap \in w.plugins[n].caps

\* the first registrant owns a command
Register(w, n, c) == [w EXCEPT !.commands[c] = IF @ = Nil THEN n ELSE @]

Unregister(w, n, c) == [w EXCEPT !.commands[c] = IF @ = n THEN Nil ELSE @]

UnregisterAll(w, n) ==
    [w EXCEPT !.commands = [c \in Command |-> IF @[c] = n THEN Nil ELSE @[c]]]

Subscribe(w, n, e)   == [w EXCEPT !.events[e] = @ \cup {n}]
Unsubscribe(w, n, e) == [w EXCEPT !.events[e] = @ \ {n}]

UnsubscribeAll(w, n) == [w EXCEPT !.events = [e \in Event |-> @[e] \ {n}]]
-----------------------------------------------------------------------------
(* dispatch.rs and manager/mod.rs *)

RegisterCommand(w, n, c) ==
    IF Require(w, n, "commands") /\ w.commands[c] \in {Nil, n}
    THEN [Register(w, n, c) EXCEPT !.plugins[n].commands = @ \cup {c}]
    ELSE w

FaultUnregisterCommand(w, n, c) == IF w.plugins[n] = Nil THEN w ELSE Unregister(w, n, c)
UnregisterCommand(w, n, c) ==
    IF w.plugins[n] = Nil THEN w
    ELSE [Unregister(w, n, c) EXCEPT !.plugins[n].commands = @ \ {c}]

HookEvent(w, n, e) ==
    IF Require(w, n, "events")
    THEN [Subscribe(w, n, e) EXCEPT !.plugins[n].hooked = @ \cup {e}]
    ELSE w

UnhookEvent(w, n, e) ==
    IF w.plugins[n] = Nil THEN w
    ELSE [Unsubscribe(w, n, e) EXCEPT !.plugins[n].hooked = @ \ {e}]

Enabled(w, n) == w.plugins[n] # Nil /\ w.plugins[n].state = "enabled"

\* the plugins that a command, or an event, is passed to
CommandTargets(w, c) == {n \in {w.commands[c]} \ {Nil} : Enabled(w, n)}
EventTargets(w, e)   == {n \in w.events[e] : Enabled(w, n)}

\* a plugin called by the host may echo a line
Echoes(w) == {w, [w EXCEPT !.sink = TRUE]}
-----------------------------------------------------------------------------
(* manager/lifecycle.rs and manager/reload.rs.  Results are pairs of the     *)
(* outcome and the world.                                                    *)

Ok(w, n) == <<n, w>>
Failed(w) == <<Nil, w>>

LoadPlugin(w, f, enabled) ==
    LET lib == disk[f]
    IN {Failed(w)}
         \cup IF lib.name = BadName \/ w.plugins[lib.name] # Nil THEN {}
              ELSE {Failed(v) : v \in Echoes(w)}
                     \cup {Ok([v EXCEPT !.plugins[lib.name] =
                                [state |-> "loaded", commands |-> {}, hooked |-> {},
                                 caps |-> lib.caps, file |-> f, mtime |-> lib.version,
                                 enabled |-> enabled]], lib.name) : v \in Echoes(w)}

EnablePlugin(w, n) ==
    IF w.plugins[n] = Nil \/ Enabled(w, n) THEN {Failed(w)}
    ELSE {Failed(v) : v \in Echoes(w)}
           \cup {Ok([v EXCEPT !.plugins[n].state = "enabled"], n) : v \in Echoes(w)}

DisablePlugin(w, n) ==
    IF ~Enabled(w, n) THEN {Failed(w)}
    ELSE {Failed(v) : v \in Echoes(w)}
           \cup {Ok([v EXCEPT !.plugins[n].state = "disabled"], n) : v \in Echoes(w)}

FaultRemoved(w, n) == [UnregisterAll(w, n) EXCEPT !.plugins[n] = Nil]
Removed(w, n) == [UnsubscribeAll(UnregisterAll(w, n), n) EXCEPT !.plugins[n] = Nil]

UnloadPlugin(w, n) ==
    IF w.plugins[n] = Nil \/ Enabled(w, n) THEN {Failed(w)}
    ELSE {Failed(v) : v \in Echoes(w)} \cup {Ok(Removed(v, n), n) : v \in Echoes(w)}

\* a failing shutdown does not stop a reload; a failing load leaves it unloaded
ReloadPlugin(w, n) ==
    IF w.plugins[n] = Nil \/ Enabled(w, n) THEN {Failed(w)}
    ELSE UNION {LoadPlugin(Removed(v, n), w.plugins[n].file, w.plugins[n].enabled) : v \in Echoes(w)}

\* every plugin not enabled, each once, in the order of the map
RECURSIVE ReloadEach(_, _)
ReloadEach(worlds, names) ==
    IF names = {} THEN worlds
    ELSE UNION {ReloadEach(UNION {{r[2] : r \in ReloadPlugin(w, n)} : w \in worlds}, names \ {n}) : n \in names}

ReloadAll(w) == ReloadEach({w}, {n \in Name : w.plugins[n] # Nil /\ ~Enabled(w, n)})

CheckForChanges(w) ==
    {n \in Name : w.plugins[n] # Nil /\ disk[w.plugins[n].file].version > w.plugins[n].mtime}

\* config.rs: a missing or malformed file means enabled
LoadPluginConfig(f) == auto[f]

\* one library of the directory after another, in the order of their names
RECURSIVE LoadEach(_, _)
LoadEach(results, files) ==
    IF files = {} THEN results
    ELSE LET f == CHOOSE x \in files : TRUE
         IN LoadEach(UNION {{<<r[1] \cup ({q[1]} \ {Nil}), q[2]>> : q \in LoadPlugin(r[2], f, LoadPluginConfig(f))}
                              : r \in results}, files \ {f})

LoadPluginsDir(w) == LoadEach({<<{}, w>>}, File)
-----------------------------------------------------------------------------
(* pirc-client/src/app/plugin.rs *)

Drained(w) == [w EXCEPT !.sink = FALSE]

\* enable a plugin just loaded when its configuration says so
AutoEnable(w, n) ==
    IF w.plugins[n] # Nil /\ w.plugins[n].enabled /\ w.plugins[n].state = "loaded"
    THEN {r[2] : r \in EnablePlugin(w, n)}
    ELSE {w}

RECURSIVE AutoEnableEach(_, _)
AutoEnableEach(worlds, names) ==
    IF names = {} THEN worlds
    ELSE LET n == CHOOSE x \in names : TRUE
         IN AutoEnableEach(UNION {AutoEnable(w, n) : w \in worlds}, names \ {n})

Becomes(worlds) == world' \in worlds /\ delivered' = {} /\ UNCHANGED <<disk, auto>>

InitPlugins(w) ==
    {Drained(v) : v \in UNION {AutoEnableEach({r[2]}, r[1]) : r \in LoadPluginsDir(w)}}

PluginLoad(f) ==
    Becomes({Drained(v) : v \in UNION {IF r[1] = Nil THEN {r[2]} ELSE AutoEnable(r[2], r[1])
                                         : r \in LoadPlugin(world, f, TRUE)}})

\* disables first; nothing is drained
PluginUnload(n) ==
    Becomes(IF Enabled(world, n)
            THEN UNION {IF r[1] = Nil THEN {r[2]} ELSE {q[2] : q \in UnloadPlugin(r[2], n)}
                          : r \in DisablePlugin(world, n)}
            ELSE {q[2] : q \in UnloadPlugin(world, n)})

\* auto-enables under the old name
PluginReload(n) ==
    Becomes({Drained(v) : v \in UNION {IF r[1] = Nil THEN {r[2]} ELSE AutoEnable(r[2], n)
                                         : r \in ReloadPlugin(world, n)}})

PluginEnable(n)  == Becomes({Drained(r[2]) : r \in EnablePlugin(world, n)})
PluginDisable(n) == Becomes({r[2] : r \in DisablePlugin(world, n)})

DispatchPluginCommand(c) ==
    /\ delivered' = CommandTargets(world, c)
    /\ world' = Drained(world)
    /\ UNCHANGED <<disk, auto>>

DispatchPluginEvent(e) ==
    /\ delivered' = EventTargets(world, e)
    /\ world' \in IF delivered' = {} THEN {world} ELSE Echoes(world)
    /\ UNCHANGED <<disk, auto>>

\* what the host API offers a plugin; the client's vtable does not call it
HostCall ==
    \E n \in Name :
        \/ \E c \in Command : Becomes({RegisterCommand(world, n, c)})
        \/ \E c \in Command : Becomes({UnregisterCommand(world, n, c)})
        \/ \E e \in Event : Becomes({HookEvent(world, n, e)})
        \/ \E e \in Event : Becomes({UnhookEvent(world, n, e)})

ReplaceLibrary(f) ==
    /\ \A g \in File : disk[g].version < MaxVersion
    /\ \E n \in Name \cup {BadName}, caps \in {Capability, {"events"}} :
          disk' = [disk EXCEPT ![f] = [name |-> n, caps |-> caps, version |-> @.version + 1]]
    /\ UNCHANGED <<auto, world, delivered>>

NoPlugins == [plugins |-> [n \in Name |-> Nil], commands |-> [c \in Command |-> Nil],
              events |-> [e \in Event |-> {}], sink |-> FALSE]

PluginInit ==
    /\ disk \in [File -> [name : Name, caps : {Capability}, version : {0}]]
    /\ auto \in [File -> BOOLEAN]
    /\ world \in InitPlugins(NoPlugins)
    /\ delivered = {}

PluginNext ==
    \/ \E f \in File : PluginLoad(f)
    \/ \E n \in Name : PluginUnload(n)
    \/ \E n \in Name : PluginReload(n)
    \/ \E n \in Name : PluginEnable(n)
    \/ \E n \in Name : PluginDisable(n)
    \/ Becomes(ReloadAll(world))
    \/ HostCall
    \/ \E c \in Command : DispatchPluginCommand(c)
    \/ \E e \in Event : DispatchPluginEvent(e)
    \/ \E f \in File : ReplaceLibrary(f)

PluginSpec == PluginInit /\ [][PluginNext]_pluginVars
-----------------------------------------------------------------------------
(* Whatever calls into plugins fail and however libraries are replaced       *)
(* between loads: each plugin's own list of commands and events and the      *)
(* registries say the same, nothing in a registry belongs to a plugin that   *)
(* is gone, a plugin holds only what its loaded library declared the         *)
(* capability for, only enabled plugins receive anything, and a plugin whose *)
(* library check_for_changes calls unchanged runs what is on disk.           *)
PluginsExact ==
    /\ \A c \in Command, n \in Name :
          (world.commands[c] = n) <=> (world.plugins[n] # Nil /\ c \in world.plugins[n].commands)
    /\ \A e \in Event, n \in Name :
          (n \in world.events[e]) <=> (world.plugins[n] # Nil /\ e \in world.plugins[n].hooked)
    /\ \A n \in Name : world.plugins[n] # Nil =>
          LET p == world.plugins[n]
          IN /\ p.commands # {} => "commands" \in p.caps
             /\ p.hooked # {} => "events" \in p.caps
             /\ n \notin CheckForChanges(world) => disk[p.file].name = n /\ disk[p.file].caps = p.caps
    /\ \A n \in delivered : Enabled(world, n)

(* app/plugin.rs: "Messages produced by plugin echo() calls are buffered     *)
(* here and drained by the client after each plugin operation": no line      *)
(* stays in the sink.                                                        *)
EchoDrained == ~world.sink
=============================================================================
