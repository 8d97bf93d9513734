---------------------------- MODULE RuntimeProofs ----------------------------
(* Coherent for every set of configurations.  A failed reload restores what
   a successful one will overwrite; a failed start leaves only what the
   default configuration overwrites.                                       *)
EXTENDS Runtime, TLAPS

\* Where the main thread is in every state of the lifecycle.
Located ==
  /\ state = "Idle" => pc = "load"
  /\ state = "Configured" => pc = "start"
  /\ state = "Starting" => pc = "loop"
  /\ state = "Running" => pc \in {"pump", "reload", "apply", "drain"}
  /\ state = "Stopping" => pc = "stop"
  /\ state \in {"Stopped", "Exited"} => pc = "exit"

\* Nothing of a failed start but a bar and a theme can be in the way.
Blank(l) == l.settings = None /\ l.keybindings = None /\ l.store.mouse = None

\* Configuration c is loaded; its bindings wait for the modules.
Waits(l, c) ==
  /\ l.store.theme = From(c, "theme")
  /\ l.store.bar.tag = From(c, "bar")
  /\ l.pending.binds = From(c, "binds") /\ l.keybindings = None
  /\ l.pending.mouse = From(c, "mouse") /\ l.store.mouse = None

Phase ==
  /\ state = "Idle" => Blank(live) /\ (path = "init" => live.store = default_store)
  /\ state = "Configured" => Waits(live, loaded) /\ live.settings = live.store.theme
  /\ state \in {"Starting", "Running"} => Serves(live, loaded)

\* The inductive invariant.
Invariant == TypeOK /\ Located /\ Phase

\* What apply_settings, start_modules and the like need of their argument.
LEMMA LiveFields ==
  ASSUME NEW l \in Live
  PROVE  /\ l.store \in Store /\ l.store.bar \in Bar /\ l.bar_set_cfg \in Bar
         /\ l.store.theme \in Holder /\ l.store.mouse \in Holder
         /\ l.store.bar.tag \in Holder /\ l.store.bar.theme \in Holder
         /\ l.pending \in [binds : Holder, mouse : Holder]
         /\ l.pending.binds \in Holder /\ l.pending.mouse \in Holder
         /\ l.settings \in Holder /\ l.keybindings \in Holder /\ l.layout \in Holder
         /\ l.arranged \in Holder /\ l.handlers \in Holder /\ l.grabs \in Holder
  BY DEF Live, Store, Bar

\* None names no part of a script; a part comes from c or from nobody.
LEMMA FromHolder ==
  ASSUME NEW c \in Script, NEW part
  PROVE  From(c, part) \in Holder
  BY DEF From, Holder, Script

\* load keeps the type, and leaves settings and applied bindings alone.
LEMMA LoadKeeps ==
  ASSUME NEW l \in Live, NEW c \in Script, NEW done \in SUBSET Parts
  PROVE  /\ load(l, c, done) \in Live
         /\ load(l, c, done).settings = l.settings
         /\ load(l, c, done).keybindings = l.keybindings
         /\ load(l, c, done).grabs = l.grabs
         /\ load(l, c, done).bar_set_cfg = l.bar_set_cfg
         /\ load(l, c, done).store.mouse = l.store.mouse
         /\ load(l, c, done).store.theme = IF "theme" \in done THEN c.tag ELSE l.store.theme
         /\ load(l, c, done).store.bar.tag = IF "bar" \in done THEN c.tag ELSE l.store.bar.tag
         /\ load(l, c, done).pending.binds = IF "binds" \in done THEN c.tag ELSE None
         /\ load(l, c, done).pending.mouse = IF "mouse" \in done THEN c.tag ELSE None
<1> DEFINE of(part, old) == IF part \in done THEN c.tag ELSE old
           store == [bar   |-> IF "bar" \in done THEN [tag |-> c.tag, theme |-> l.settings]
                               ELSE l.store.bar,
                     theme |-> of("theme", l.store.theme),
                     mouse |-> l.store.mouse]
           pending == [binds |-> of("binds", None), mouse |-> of("mouse", None)]
           m == load(l, c, done)
<1>1. c.tag \in Holder /\ None \in Holder
  BY DEF Script, Holder
<1>2. store \in Store
  BY <1>1, LiveFields DEF Store, Bar
<1>3. pending \in [binds : Holder, mouse : Holder]
  BY <1>1
<1>4. of("layout", l.layout) \in Holder /\ of("layout", l.arranged) \in Holder
      /\ of("on", None) \in Holder
  BY <1>1, LiveFields
<1>5. m = [l EXCEPT !.store = store, !.pending = pending,
                    !.layout = of("layout", l.layout), !.arranged = of("layout", l.arranged),
                    !.handlers = of("on", None)]
  BY DEF load, parse_setup
<1> HIDE DEF store, pending, of, m
<1>6. m \in Live /\ m.store = store /\ m.pending = pending
      /\ m.settings = l.settings /\ m.keybindings = l.keybindings
      /\ m.grabs = l.grabs /\ m.bar_set_cfg = l.bar_set_cfg
  BY <1>2, <1>3, <1>4, <1>5 DEF Live
<1>7. /\ m.store.mouse = l.store.mouse
      /\ m.store.theme = IF "theme" \in done THEN c.tag ELSE l.store.theme
      /\ m.store.bar.tag = IF "bar" \in done THEN c.tag ELSE l.store.bar.tag
      /\ m.pending.binds = IF "binds" \in done THEN c.tag ELSE None
      /\ m.pending.mouse = IF "mouse" \in done THEN c.tag ELSE None
  BY <1>6 DEF store, pending, of
<1> QED
  BY <1>6, <1>7 DEF m

\* What the modules make of a configuration that waits for them.
LEMMA StartServes ==
  ASSUME NEW l \in Live, NEW c \in Script, Waits(l, c), l.settings = l.store.theme
  PROVE  start_modules(l) \in Live /\ Serves(start_modules(l), c)
<1> DEFINE m == start_modules(l)
<1> DEFINE binds == IF l.pending.binds # None THEN l.pending.binds ELSE l.keybindings
           store == [bar   |-> l.store.bar,
                     theme |-> l.store.theme,
                     mouse |-> IF l.pending.mouse # None THEN l.pending.mouse ELSE l.store.mouse]
           cfg == [tag   |-> l.store.bar.tag,
                   theme |-> IF l.store.bar.theme # None THEN l.store.bar.theme ELSE l.settings]
           none == [binds |-> None, mouse |-> None]
<1>a. binds \in Holder /\ store \in Store /\ cfg \in Bar
      /\ none \in [binds : Holder, mouse : Holder]
  BY LiveFields DEF Store, Bar, Holder
<1>b. m = [l EXCEPT !.keybindings = binds, !.grabs = binds, !.store = store,
                    !.pending = none, !.bar_set_cfg = cfg]
  BY DEF start_modules, apply_theme
<1>1. m \in Live
  <2> HIDE DEF m, binds, store, cfg, none
  <2> QED
    BY <1>a, <1>b DEF Live
<1>2. /\ m.keybindings = From(c, "binds") /\ m.grabs = From(c, "binds")
      /\ m.store.mouse = From(c, "mouse")
  BY LiveFields DEF start_modules, Waits, Live, Store
<1>3. /\ m.store.theme = l.store.theme /\ m.settings = l.settings
      /\ m.store.bar = l.store.bar /\ m.bar_set_cfg.tag = l.store.bar.tag
  BY LiveFields DEF start_modules, apply_theme, Live, Store, Bar
<1> QED
  BY <1>1, <1>2, <1>3 DEF Serves, Waits

\* The scripts on disk, whichever is read.
LEMMA Files ==
  ASSUME TypeOK
  PROVE  config_file \in Script /\ loaded \in Script /\ disk.default \in Script
         /\ \A done \in reached(config_file) : done \in SUBSET Parts
<1>1. config_file \in Script /\ loaded \in Script /\ disk.default \in Script
  BY ConfigsAssumption DEF TypeOK, config_file
<1>2. config_file.sets \in SUBSET Parts
  BY <1>1 DEF Script
<1> QED
  BY <1>1, <1>2 DEF reached

\* A reload ends with all of the new configuration or all of the old one.
LEMMA ReloadServes ==
  ASSUME NEW l \in Live, NEW old \in Script, Serves(l, old),
         NEW c \in Script, NEW done \in SUBSET Parts,
         c.outcome = "ok" => done = c.sets
  PROVE  /\ reload_runtime_config(l, c, done) \in Live
         /\ Serves(reload_runtime_config(l, c, done), IF c.outcome = "ok" THEN c ELSE old)
<1> DEFINE k == clear_all(l)
           t == load(k, c, done)
<1>1. k \in Live /\ k.store = default_store /\ k.keybindings = None /\ k.settings = l.settings
      /\ k.grabs = l.grabs /\ k.bar_set_cfg = l.bar_set_cfg
  BY DEF clear_all, Live, default_store, Store, Bar, Holder
<1>2. t \in Live
  BY <1>1, LoadKeeps
<1>3. t.grabs = l.grabs /\ t.bar_set_cfg = l.bar_set_cfg
  BY <1>1, LoadKeeps
<1>4. CASE c.outcome = "ok"
  <2> DEFINE s == apply_settings(t)
             m == start_modules(s)
  <2>1. Waits(t, c)
    BY <1>1, <1>4, LoadKeeps DEF Waits, From, default_store
  <2>2. s \in Live /\ s.settings = s.store.theme /\ s.store = t.store
        /\ s.pending = t.pending /\ s.keybindings = t.keybindings
    BY <1>2, LiveFields DEF apply_settings, Live
  <2>3. Waits(s, c)
    BY <2>1, <2>2 DEF Waits
  <2>4. m \in Live /\ Serves(m, c)
    BY <2>2, <2>3, StartServes
  <2>5. [m EXCEPT !.arranged = m.layout] \in Live /\ Serves([m EXCEPT !.arranged = m.layout], c)
    BY <2>4 DEF Live, Serves
  <2> QED
    BY <1>4, <2>5 DEF reload_runtime_config, commit_reload
<1>5. CASE c.outcome # "ok"
  <2> DEFINE r == restore_snapshot(t, l)
  <2>1. r \in Live
    BY <1>2, LiveFields DEF restore_snapshot, Live
  <2>2. r.store = l.store /\ r.settings = l.settings /\ r.keybindings = l.keybindings
        /\ r.grabs = l.grabs /\ r.bar_set_cfg = l.bar_set_cfg
    BY <1>2, <1>3 DEF restore_snapshot, Live
  <2>3. Serves(r, old)
    BY <2>2 DEF Serves
  <2> QED
    BY <1>5, <2>1, <2>3 DEF reload_runtime_config
<1> QED
  BY <1>4, <1>5

\* run() starts the invariant.
LEMMA Initially == Init => Invariant
<1> SUFFICES ASSUME Init PROVE Invariant
  OBVIOUS
<1>1. fresh \in Live
  BY DEF fresh, default_store, Live, Store, Bar, Holder
<1>2. TypeOK
  <2>1. disk.default \in Defaults
    BY DEF Init
  <2> QED
    BY <1>1, <2>1 DEF Init, TypeOK, no_flags
<1>3. Located /\ Phase
  BY DEF Init, Located, Phase, Blank, fresh, default_store
<1> QED
  BY <1>2, <1>3 DEF Invariant

\* Everyone but the main thread leaves the live configuration alone.
LEMMA OthersKeep ==
  ASSUME Invariant,
         Edit \/ RequestReload \/ RequestStop \/ RequestExecRestart \/ ChangeWindows
  PROVE  Invariant'
<1> USE DEF Invariant
<1>1. CASE Edit
  <2>1. TypeOK'
    BY <1>1, ConfigsAssumption DEF Edit, TypeOK
  <2> QED
    BY <1>1, <2>1 DEF Edit, Located, Phase
<1>2. CASE RequestReload
  BY <1>2 DEF RequestReload, TypeOK, Located, Phase
<1>3. CASE RequestStop
  BY <1>3 DEF RequestStop, TypeOK, Located, Phase
<1>4. CASE RequestExecRestart
  BY <1>4 DEF RequestExecRestart, TypeOK, Located, Phase
<1>5. CASE ChangeWindows
  <2>1. live' = [live EXCEPT !.arranged = live.layout]
    BY <1>5 DEF ChangeWindows, TypeOK, Live
  <2>2. live' \in Live /\ live'.store = live.store /\ live'.settings = live.settings
        /\ live'.keybindings = live.keybindings /\ live'.grabs = live.grabs
        /\ live'.bar_set_cfg = live.bar_set_cfg /\ live'.pending = live.pending
    BY <2>1 DEF TypeOK, Live
  <2>3. TypeOK'
    BY <1>5, <2>2 DEF ChangeWindows, TypeOK
  <2>4. Phase'
    BY <1>5, <2>2 DEF ChangeWindows, Phase, Blank, Waits, Serves
  <2> QED
    BY <1>5, <2>3, <2>4 DEF ChangeWindows, Located
<1> QED
  BY <1>1, <1>2, <1>3, <1>4, <1>5

\* Loading at the start: the configuration waits whole, or the next one will.
LEMMA LoadConfigKeeps == ASSUME Invariant, LoadConfig PROVE Invariant'
<1> USE DEF Invariant
<1>1. PICK done \in reached(config_file) :
        LET l == load(live, config_file, done)
        IN  \/ /\ config_file.outcome = "ok"
               /\ live' = apply_settings(l) /\ loaded' = config_file
               /\ state' = "Configured" /\ pc' = "start" /\ UNCHANGED path
            \/ /\ config_file.outcome # "ok" /\ path = "init"
               /\ live' = l /\ path' = "default" /\ UNCHANGED <<state, pc, loaded>>
            \/ /\ config_file.outcome # "ok" /\ path = "default"
               /\ live' = l /\ state' = "Stopped" /\ pc' = "exit" /\ UNCHANGED <<path, loaded>>
  BY DEF LoadConfig
<1> DEFINE c == config_file
           l == load(live, c, done)
<1>2. /\ state = "Idle" /\ UNCHANGED <<flags, disk, asked>>
      /\ c \in Script /\ c \in Configs \cup Defaults /\ done \in SUBSET Parts /\ live \in Live
  BY Files DEF LoadConfig, TypeOK, config_file
<1>3. /\ l \in Live /\ Blank(l)
      /\ l.store.theme = IF "theme" \in done THEN c.tag ELSE live.store.theme
      /\ l.store.bar.tag = IF "bar" \in done THEN c.tag ELSE live.store.bar.tag
      /\ l.pending.binds = IF "binds" \in done THEN c.tag ELSE None
      /\ l.pending.mouse = IF "mouse" \in done THEN c.tag ELSE None
  BY <1>2, LoadKeeps DEF Phase, Blank
<1>4. CASE c.outcome = "ok"
  <2>1. done = c.sets
    BY <1>4 DEF reached
  <2>2. path = "default" => {"bar", "theme"} \subseteq c.sets
    BY DefaultsAssumption DEF TypeOK, config_file
  <2>3. path = "init" => live.store.theme = None /\ live.store.bar.tag = None
    BY <1>2 DEF Phase, default_store
  <2>4. Waits(l, c)
    BY <1>3, <2>1, <2>2, <2>3 DEF Waits, From, Blank, TypeOK
  <2>5. live' = [l EXCEPT !.settings = l.store.theme] /\ loaded' = c
        /\ state' = "Configured" /\ pc' = "start" /\ path' = path
    BY <1>1, <1>4 DEF apply_settings
  <2> HIDE DEF l, c
  <2>6. live' \in Live /\ Waits(live', c) /\ live'.settings = live'.store.theme
    BY <1>3, <2>4, <2>5, LiveFields DEF Live, Waits
  <2>7. TypeOK'
    BY <1>2, <2>5, <2>6 DEF TypeOK
  <2> QED
    BY <2>5, <2>6, <2>7 DEF Located, Phase
<1>5. CASE c.outcome # "ok"
  <2>1. live' = l /\ loaded' = loaded
        /\ \/ path' = "default" /\ state' = state /\ pc' = pc
           \/ path' = path /\ state' = "Stopped" /\ pc' = "exit"
    BY <1>1, <1>5
  <2> HIDE DEF l, c
  <2>2. TypeOK'
    BY <1>2, <1>3, <2>1 DEF TypeOK
  <2> QED
    BY <1>2, <1>3, <2>1, <2>2 DEF Located, Phase, TypeOK
<1> QED
  BY <1>4, <1>5

\* Starting applies what waits; a reload replaces all or nothing.
LEMMA MainThreadKeeps == ASSUME Invariant, MainThread PROVE Invariant'
<1> USE DEF Invariant
<1>0. live \in Live /\ loaded \in Script
  BY Files DEF TypeOK
<1>1. CASE LoadConfig
  BY <1>1, LoadConfigKeeps
<1>2. CASE Start
  <2> DEFINE m == start_modules(live)
  <2>1. m \in Live /\ Serves(m, loaded)
    BY <1>0, <1>2, StartServes DEF Start, Phase
  <2>2. live' = [m EXCEPT !.arranged = live.layout] /\ live.layout \in Holder
    BY <1>0, <1>2, LiveFields DEF Start
  <2> HIDE DEF m
  <2>3. live' \in Live /\ Serves(live', loaded)
    BY <2>1, <2>2 DEF Live, Serves
  <2>4. TypeOK'
    BY <1>2, <2>3 DEF Start, TypeOK
  <2> QED
    BY <1>2, <2>3, <2>4 DEF Start, Located, Phase
<1>3. CASE EnterLoop
  BY <1>3 DEF EnterLoop, TypeOK, Located, Phase
<1>4. CASE EndPump
  BY <1>4 DEF EndPump, TypeOK, Located, Phase
<1>5. CASE ConsumeReload
  BY <1>5 DEF ConsumeReload, TypeOK, Located, Phase
<1>6. CASE ApplyReload
  <2>1. PICK done \in reached(config_file) :
          live' = reload_runtime_config(live, config_file, done)
    BY <1>6 DEF ApplyReload
  <2>2. state = "Running" /\ Serves(live, loaded)
    BY <1>6 DEF ApplyReload, Located, Phase, TypeOK
  <2>3. config_file \in Script /\ config_file \in Configs \cup Defaults
        /\ done \in SUBSET Parts
    BY Files DEF TypeOK, config_file
  <2>4. config_file.outcome = "ok" => done = config_file.sets
    BY DEF reached
  <2>5. loaded' = IF config_file.outcome = "ok" THEN config_file ELSE loaded
    BY <1>6 DEF ApplyReload
  <2>6. live' \in Live /\ Serves(live', loaded')
    BY <1>0, <2>1, <2>2, <2>3, <2>4, <2>5, ReloadServes
  <2>7. TypeOK'
    BY <1>6, <2>3, <2>5, <2>6 DEF ApplyReload, TypeOK
  <2> QED
    BY <1>6, <2>2, <2>6, <2>7 DEF ApplyReload, Located, Phase
<1>7. CASE EndTick
  BY <1>7 DEF EndTick, TypeOK, Located, Phase
<1>8. CASE Stop
  BY <1>8 DEF Stop, TypeOK, Located, Phase
<1>9. CASE Exit
  <2>1. CASE state' = "Exited" /\ UNCHANGED <<pc, flags, path, live, loaded, asked>>
    BY <1>9, <2>1 DEF Exit, TypeOK, Located, Phase
  <2>2. CASE /\ state' = "Idle" /\ pc' = "load" /\ flags' = no_flags /\ path' = "init"
             /\ live' = fresh /\ loaded' = disk.default /\ asked' = FALSE
    <3>1. fresh \in Live
      BY DEF fresh, default_store, Live, Store, Bar, Holder
    <3>2. disk' = disk
      BY <1>9 DEF Exit
    <3>3. TypeOK'
      BY <2>2, <3>1, <3>2 DEF TypeOK, no_flags
    <3> QED
      BY <2>2, <3>3 DEF Located, Phase, Blank, fresh, default_store
  <2> QED
    BY <1>9, <2>1, <2>2 DEF Exit
<1> QED
  BY <1>1, <1>2, <1>3, <1>4, <1>5, <1>6, <1>7, <1>8, <1>9 DEF MainThread

\* The invariant holds of every reachable state.
LEMMA Always == Spec => []Invariant
<1>1. Invariant /\ [Next]_vars => Invariant'
  <2> SUFFICES ASSUME Invariant, [Next]_vars PROVE Invariant'
    OBVIOUS
  <2>1. CASE MainThread
    BY <2>1, MainThreadKeeps
  <2>2. CASE Edit \/ RequestReload \/ RequestStop \/ RequestExecRestart \/ ChangeWindows
    BY <2>2, OthersKeep
  <2>3. CASE UNCHANGED vars
    BY <2>3 DEF vars, Invariant, TypeOK, Located, Phase
  <2> QED
    BY <2>1, <2>2, <2>3 DEF Next
<1> QED
  BY <1>1, Initially, PTL DEF Spec

\* For any scripts in init.lua and init.lua.default, edited, failing and
\* reloaded in any order, what runs comes whole from the configuration last
\* applied (Runtime::reload_runtime_config, load_config, the modules).
THEOREM RunsOneConfiguration == Spec => []Coherent
<1>1. Invariant => Coherent
  BY DEF Invariant, Phase, Coherent
<1> QED
  BY <1>1, Always, PTL
=============================================================================
