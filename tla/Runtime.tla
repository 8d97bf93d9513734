------------------------------- MODULE Runtime -------------------------------
(***************************************************************************)
(* Runtime: the lifecycle of the process, the requests of signals and Lua, *)
(* and the transactional reload of init.lua.                               *)
(*                                                                         *)
(* A configuration is a record: its tag, what it sets, and how loading it  *)
(* ends.  Every part of the live state holds the tag of the configuration  *)
(* it comes from, or None.  The main thread moves pc through run() and     *)
(* tick(); an editor, signals and key bindings act between its steps.      *)
(***************************************************************************)
CONSTANTS Tags,         \* names of configurations
          Configs,      \* what an editor may leave in init.lua
          Defaults,     \* what init.lua.default may be
          None

Parts    == {"bar", "theme", "binds", "mouse", "layout", "on"}
Outcomes == {"ok", "syntax", "exec", "reject", "invalid"}
Script   == [tag : Tags, sets : SUBSET Parts, outcome : Outcomes]

ASSUME ConfigsAssumption ==
  /\ Configs \subseteq Script /\ Defaults \subseteq Script /\ Defaults # {}
  /\ None \notin Tags

\* The default configuration sets what a script that failed before it can
\* have left in the store.
ASSUME DefaultsAssumption == \A c \in Defaults : {"bar", "theme"} \subseteq c.sets

VARIABLES state,    \* RuntimeState, or "Exited"
          pc,       \* where run() or tick() is
          flags,    \* stop_requested, reload_pending, exec_restart_pending
          disk,     \* the files init.lua and init.lua.default
          path,     \* Core::config_path
          live,     \* what the configurations left in the store, Core and the modules
          loaded,   \* history: the configuration last applied
          asked     \* history: a reload was asked for since the last edit

vars == <<state, pc, flags, disk, path, live, loaded, asked>>
-----------------------------------------------------------------------------
(* Loading.                                                                *)

\* RuntimeStore: imperative bar_set, declarative theme, deferred mouse_bindings.
default_store == [bar   |-> [tag |-> None, theme |-> None],
                  theme |-> None,
                  mouse |-> None]

fresh == [store       |-> default_store,
          settings    |-> None,            \* Core::settings
          keybindings |-> None,            \* Core::keybindings
          layout      |-> None,            \* Core::layout_cfg, active_layout
          arranged    |-> None,            \* the layout arrange last used
          handlers    |-> None,            \* LuaHost::event_handlers_
          pending     |-> [binds |-> None, mouse |-> None],
          grabs       |-> None,            \* keys grabbed from the server
          bar_set_cfg |-> [tag |-> None, theme |-> None]]

\* What exec_file and apply_from_lua get to: an error stops the script
\* anywhere, a value apply_from_lua rejects is not set.
reached(c) ==
  CASE c.outcome = "exec"   -> SUBSET (c.sets \ {"theme"})
    [] c.outcome = "reject" -> {c.sets, c.sets \ {"theme"}}
    [] c.outcome = "syntax" -> {{}}
    [] OTHER                -> {c.sets}

\* What bar.settings leaves open is filled from the theme Core has now.
parse_setup(l, c) == [tag |-> c.tag, theme |-> l.settings]

\* bar.settings is parsed at once; bindings wait for on_start or on_reload; a
\* layout is set and arranged at once.
load(l, c, done) ==
  LET of(part, old) == IF part \in done THEN c.tag ELSE old
  IN  [l EXCEPT
         !.store = [bar   |-> IF "bar" \in done THEN parse_setup(l, c) ELSE l.store.bar,
                    theme |-> of("theme", l.store.theme),
                    mouse |-> l.store.mouse],
         !.pending     = [binds |-> of("binds", None), mouse |-> of("mouse", None)],
         !.layout      = of("layout", l.layout),
         !.arranged    = of("layout", l.arranged),
         !.handlers    = of("on", None)]

apply_settings(l) == [l EXCEPT !.settings = l.store.theme]

\* What is empty in the bar's configuration is taken from the theme.
apply_theme(bar, theme) ==
  [tag |-> bar.tag, theme |-> IF bar.theme # None THEN bar.theme ELSE theme]

\* on_start, on_reload of the keybindings and the bar: pending bindings are
\* applied and keys grabbed.
start_modules(l) ==
  LET binds == IF l.pending.binds # None THEN l.pending.binds ELSE l.keybindings
  IN  [l EXCEPT
         !.keybindings = binds,
         !.grabs       = binds,
         !.store = [bar   |-> l.store.bar,
                    theme |-> l.store.theme,
                    mouse |-> IF l.pending.mouse # None THEN l.pending.mouse ELSE l.store.mouse],
         !.pending     = [binds |-> None, mouse |-> None],
         !.bar_set_cfg = apply_theme(l.store.bar, l.settings)]

clear_all(l) == [l EXCEPT !.store = default_store, !.keybindings = None]

\* Mutant: Core is restored, the store is not.
restore_core_only(l, before) ==
  [l EXCEPT !.settings = before.settings, !.keybindings = before.keybindings,
            !.layout = before.layout]

\* restore_snapshot.
restore_snapshot(l, before) ==
  [l EXCEPT !.store = before.store, !.settings = before.settings,
            !.keybindings = before.keybindings, !.layout = before.layout]

\* The end of a reload that succeeds: the modules, then the display change,
\* which arranges all.
commit_reload(l) == LET m == start_modules(apply_settings(l))
                    IN  [m EXCEPT !.arranged = m.layout]

reload_runtime_config(l, c, done) ==
  LET tried == load(clear_all(l), c, done)
  IN  IF c.outcome = "ok" THEN commit_reload(tried) ELSE restore_snapshot(tried, l)
-----------------------------------------------------------------------------
(* The main thread.                                                        *)

no_flags == [stop |-> FALSE, reload |-> FALSE, exec |-> FALSE]

config_file == disk[path]

Init ==
  /\ state = "Idle" /\ pc = "load" /\ flags = no_flags
  /\ disk \in [init : Configs, default : Defaults] /\ path = "init" /\ live = fresh
  /\ loaded = disk.default /\ asked = FALSE

\* run() in Idle: init.lua, and the default configuration when it fails.
LoadConfig ==
  /\ state = "Idle" /\ pc = "load"
  /\ \E done \in reached(config_file) :
       LET l == load(live, config_file, done)
       IN  \/ /\ config_file.outcome = "ok"
              /\ live' = apply_settings(l) /\ loaded' = config_file
              /\ state' = "Configured" /\ pc' = "start" /\ UNCHANGED path
           \/ /\ config_file.outcome # "ok" /\ path = "init"
              /\ live' = l /\ path' = "default" /\ UNCHANGED <<state, pc, loaded>>
           \/ /\ config_file.outcome # "ok" /\ path = "default"
              /\ live' = l /\ state' = "Stopped" /\ pc' = "exit" /\ UNCHANGED <<path, loaded>>
  /\ UNCHANGED <<flags, disk, asked>>

\* start(): the topology is applied, the modules start.
Start ==
  /\ state = "Configured" /\ pc = "start"
  /\ state' = "Starting" /\ pc' = "loop"
  /\ live' = [start_modules(live) EXCEPT !.arranged = live.layout]
  /\ UNCHANGED <<flags, disk, path, loaded, asked>>

EnterLoop ==
  /\ state = "Starting" /\ pc = "loop"
  /\ state' = "Running" /\ pc' = "pump"
  /\ flags' = [flags EXCEPT !.stop = FALSE]
  /\ UNCHANGED <<disk, path, live, loaded, asked>>

\* poll and pump_events: the clients that act meanwhile are ChangeWindows;
\* here the pump ends.
EndPump ==
  /\ pc = "pump" /\ pc' = "reload"
  /\ UNCHANGED <<state, flags, disk, path, live, loaded, asked>>

\* consume_reload_request, check_syntax.
ConsumeReload ==
  /\ pc = "reload"
  /\ flags' = [flags EXCEPT !.reload = FALSE]
  /\ pc' = IF flags.reload /\ config_file.outcome # "syntax" THEN "apply" ELSE "drain"
  /\ UNCHANGED <<state, disk, path, live, loaded, asked>>

\* The rest of process_pending_reload: the file is read again.
ApplyReload ==
  /\ pc = "apply" /\ pc' = "drain"
  /\ \E done \in reached(config_file) : live' = reload_runtime_config(live, config_file, done)
  /\ loaded' = IF config_file.outcome = "ok" THEN config_file ELSE loaded
  /\ UNCHANGED <<state, flags, disk, path, asked>>

\* Mutant: the requests are taken back when the tick is over.
EndTickForgetting ==
  /\ pc = "drain" /\ flags' = [flags EXCEPT !.reload = FALSE]
  /\ IF flags.stop THEN state' = "Stopping" /\ pc' = "stop"
     ELSE pc' = "pump" /\ UNCHANGED state
  /\ UNCHANGED <<disk, path, live, loaded, asked>>

\* drain_events, in which key bindings act, ends; render_frame, and the condition of run_loop.
EndTick ==
  /\ pc = "drain"
  /\ IF flags.stop THEN state' = "Stopping" /\ pc' = "stop"
     ELSE pc' = "pump" /\ UNCHANGED state
  /\ UNCHANGED <<flags, disk, path, live, loaded, asked>>

Stop ==
  /\ state = "Stopping" /\ state' = "Stopped" /\ pc' = "exit"
  /\ UNCHANGED <<flags, disk, path, live, loaded, asked>>

\* main: the process ends, or is replaced by a new one.
Exit ==
  /\ state = "Stopped"
  /\ \/ /\ state' = "Exited" /\ UNCHANGED <<pc, flags, path, live, loaded, asked>>
     \/ /\ flags.exec
        /\ state' = "Idle" /\ pc' = "load" /\ flags' = no_flags /\ path' = "init"
        /\ live' = fresh /\ loaded' = disk.default /\ asked' = FALSE
  /\ UNCHANGED disk

MainThread ==
  \/ LoadConfig \/ Start \/ EnterLoop \/ EndPump \/ ConsumeReload \/ ApplyReload
  \/ EndTick \/ Stop \/ Exit
-----------------------------------------------------------------------------
(* Everyone else.                                                          *)

Alive == state \notin {"Stopped", "Exited"}

Edit == /\ Alive /\ \E c \in Configs : disk' = [disk EXCEPT !.init = c]
        /\ asked' = FALSE
        /\ UNCHANGED <<state, pc, flags, path, live, loaded>>

\* SIGHUP at any time, or siren.reload() of a key binding.
RequestReload ==
  /\ Alive
  /\ flags' = [flags EXCEPT !.reload = TRUE] /\ asked' = TRUE
  /\ UNCHANGED <<state, pc, disk, path, live, loaded>>

\* SIGINT at any time.
RequestStop ==
  /\ Alive
  /\ flags' = [flags EXCEPT !.stop = TRUE]
  /\ UNCHANGED <<state, pc, disk, path, live, loaded, asked>>

\* siren.restart() of a key binding, which drain_events runs.
RequestExecRestart ==
  /\ pc = "drain" /\ config_file.outcome # "syntax"
  /\ flags' = [flags EXCEPT !.stop = TRUE, !.exec = TRUE]
  /\ UNCHANGED <<state, pc, disk, path, live, loaded, asked>>

\* A client maps, moves or closes a window, or a key binding does.
ChangeWindows ==
  /\ pc \in {"pump", "drain"}
  /\ live' = [live EXCEPT !.arranged = live.layout]
  /\ UNCHANGED <<state, pc, flags, disk, path, loaded, asked>>

Next == \/ MainThread \/ Edit \/ RequestReload \/ RequestStop
        \/ RequestExecRestart \/ ChangeWindows

Spec == Init /\ [][Next]_vars

\* The main thread never blocks for ever: poll returns after 100 ms.
FairSpec == Spec /\ WF_vars(MainThread)
-----------------------------------------------------------------------------
(* Properties.                                                             *)

Holder == Tags \cup {None}
Bar    == [tag : Holder, theme : Holder]
Store  == [bar : Bar, theme : Holder, mouse : Holder]
Live   == [store : Store, settings : Holder, keybindings : Holder, layout : Holder,
           arranged : Holder, handlers : Holder, pending : [binds : Holder, mouse : Holder],
           grabs : Holder, bar_set_cfg : Bar]

\* Lifecycle, flags and what configurations left in store, Core, Lua host and
\* modules have their types; load() always records the path it read.
TypeOK ==
  /\ state \in {"Idle", "Configured", "Starting", "Running", "Stopping", "Stopped", "Exited"}
  /\ pc \in {"load", "start", "loop", "pump", "reload", "apply", "drain", "stop", "exit"}
  /\ flags \in [stop : BOOLEAN, reload : BOOLEAN, exec : BOOLEAN]
  /\ disk \in [init : Configs, default : Defaults] /\ path \in {"init", "default"}
  /\ live \in Live
  /\ loaded \in Configs \cup Defaults /\ asked \in BOOLEAN

\* The tag a part has when configuration c set it, or nobody did.
From(c, part) == IF part \in c.sets THEN c.tag ELSE None

\* Store, settings, bar, bindings and grabs all come from c.
Serves(l, c) ==
  /\ l.store.theme = From(c, "theme") /\ l.settings = From(c, "theme")
  /\ l.store.bar.tag = From(c, "bar") /\ l.bar_set_cfg.tag = From(c, "bar")
  /\ l.keybindings = From(c, "binds") /\ l.grabs = From(c, "binds")
  /\ l.store.mouse = From(c, "mouse")

\* While ticks run, store, settings, bar, bindings and grabs all come from the
\* configuration last applied and from no other, whatever scripts failed since,
\* at the start too (process_pending_reload, restore_snapshot, load_config).
Coherent == state = "Running" => Serves(live, loaded)

\* A reload asked for after the last edit of a valid init.lua loads that file,
\* also when the request comes while an older one is being served; unless the
\* process stops, or runs init.lua.default.
LatestLoaded ==
  (state = "Running" /\ asked /\ path = "init" /\ disk.init.outcome = "ok")
    ~> (loaded = disk.init \/ ~ asked \/ state # "Running")
=============================================================================
