------------------------- MODULE ChildProcessRegistry -------------------------
(***************************************************************************)
(* The processes of the Wayland build: window managers (main.cpp), the     *)
(* display servers they spawn or adopt, and the registry that records the  *)
(* servers in a file under a lock (src/process/child_process_registry.cpp).*)
(*                                                                         *)
(* The registry has one role, so its entries_ and its state file hold one  *)
(* entry or none.  lock_fd_ is opened without O_CLOEXEC: a child inherits  *)
(* the locked description, and so does the image exec puts in the place of *)
(* the window manager.  A description is locked while any process has it.  *)
(* Signals to a server take effect when the server gets to run.            *)
(*                                                                         *)
(* Assumed: the lock file can be opened and locked, and the state file     *)
(* written and renamed.  The code ignores when they cannot (184-197,       *)
(* 205-208) and goes on without the lock or the file.                      *)
(***************************************************************************)
EXTENDS Naturals, FiniteSets

CONSTANTS Managers,     \* window manager processes, each with its own pid
          Pids,         \* process ids a display server may get
          Sockets,      \* names a display server may publish
          None

ASSUME RegistryAssumption ==
  /\ None \notin Managers \cup Pids \cup Sockets /\ Managers \cap Pids = {}
  /\ "user" \notin Managers /\ None \notin [pid : Pids, socket : Sockets]
  /\ IsFiniteSet(Managers) /\ IsFiniteSet(Pids)

VARIABLES
  wm,      \* per window manager: [pc, entry, child, env]
  proc,    \* per pid: [kind, parent, socket, signalled]
  path,    \* per socket name: the pid that listens, "stale" or None
  file,    \* the state file: an entry [pid, socket] or None
  locked,  \* the processes that have the locked description
  lost     \* history: servers whose window manager was killed in spawn()

vars == <<wm, proc, path, file, locked, lost>>

PCs   == {"none", "lock", "ensure", "wait", "attach", "run"}
Entry == [pid : Pids, socket : Sockets]

no_process == [kind |-> "none", parent |-> None, socket |-> None, signalled |-> FALSE]
not_started == [pc |-> "none", entry |-> None, child |-> None, env |-> None]

Init ==
  /\ wm = [m \in Managers |-> not_started] /\ proc = [p \in Pids |-> no_process]
  /\ path = [s \in Sockets |-> None] /\ file = None
  /\ locked = {} /\ lost = {}
-----------------------------------------------------------------------------
(* The registry.                                                           *)

\* kill(pid, 0): a zombie answers too.
is_process_alive(p) == proc[p].kind # "none"

\* has_all_keys holds of every entry save_state writes.
entry_ready(e) == e # None /\ is_process_alive(e.pid) /\ path[e.socket] # None

\* SIGTERM reaches whatever has the pid; a zombie is only collected.
terminate(p) ==
  [proc EXCEPT ![p] = IF @.kind = "zombie" THEN no_process
                      ELSE [@ EXCEPT !.signalled = TRUE]]

\* The process ends: children go to init, which collects the dead ones.
ends(m, procs) ==
  [p \in Pids |-> IF procs[p].parent # m THEN procs[p]
                  ELSE IF procs[p].kind = "zombie" THEN no_process
                  ELSE [procs[p] EXCEPT !.parent = None]]

\* Mutant: the entry is dropped, the server is not told.
shutdown_silently(m) ==
  /\ file' = IF wm[m].entry = None THEN file ELSE None
  /\ proc' = ends(m, proc)

\* shutdown_owned, and the end of the process.  Every entry is owned: this
\* process spawned it, or adopted what a predecessor spawned.
shutdown_owned(m) ==
  LET e == wm[m].entry IN
  /\ file' = IF e = None THEN file ELSE None
  /\ proc' = ends(m, IF e # None /\ is_process_alive(e.pid) THEN terminate(e.pid) ELSE proc)
-----------------------------------------------------------------------------
(* main().                                                                 *)

\* A user or a session starts a window manager, alone or, with
\* WAYLAND_DISPLAY set, for a display server started on its own.
Launch(m, env) ==
  /\ wm[m].pc = "none"
  /\ env \in {None} \cup {s \in Sockets : path[s] \in Pids /\ proc[path[s]].parent = "user"}
  /\ wm' = [wm EXCEPT ![m] = [not_started EXCEPT !.pc = "lock", !.env = env]]
  /\ UNCHANGED <<proc, path, file, locked, lost>>

\* Mutant: flock is called without waiting for the lock.
LockAtOnce(m) ==
  /\ wm[m].pc = "lock"
  /\ locked' = locked \cup {m}
  /\ wm' = [wm EXCEPT ![m].pc = "ensure", ![m].entry = file]
  /\ UNCHANGED <<proc, path, file, lost>>

\* The constructor: flock(LOCK_EX) waits; then the state is loaded.
Lock(m) ==
  /\ wm[m].pc = "lock" /\ locked = {}
  /\ locked' = {m}
  /\ wm' = [wm EXCEPT ![m].pc = "ensure", ![m].entry = file]
  /\ UNCHANGED <<proc, path, file, lost>>

\* adopt(): an entry that is not ready is dropped from memory and file.
adopt(m, next) ==
  /\ wm' = [wm EXCEPT ![m] = [next EXCEPT !.entry = IF entry_ready(@) THEN @ ELSE None]]
  /\ file' = IF wm[m].entry = None \/ entry_ready(wm[m].entry) THEN file ELSE None

\* ensure_embedded_display_server with WAYLAND_DISPLAY set.
EnsureGiven(m) ==
  /\ wm[m].pc = "ensure" /\ wm[m].env # None
  /\ adopt(m, [wm[m] EXCEPT !.pc = "attach"])
  /\ UNCHANGED <<proc, path, locked, lost>>

\* spawn_or_adopt finds a server that runs.
EnsureAdopted(m) ==
  /\ wm[m].pc = "ensure" /\ wm[m].env = None /\ entry_ready(wm[m].entry)
  /\ wm' = [wm EXCEPT ![m].pc = "attach", ![m].env = wm[m].entry.socket]
  /\ UNCHANGED <<proc, path, file, locked, lost>>

server(parent, s) == [kind |-> "server", parent |-> parent, socket |-> s, signalled |-> FALSE]

\* spawn_or_adopt has none: fork() and exec; the child has lock_fd_ too.
EnsureSpawned(m, p) ==
  /\ wm[m].pc = "ensure" /\ wm[m].env = None /\ ~ entry_ready(wm[m].entry)
  /\ proc[p].kind = "none"
  /\ adopt(m, [wm[m] EXCEPT !.pc = "wait", !.child = p])
  /\ proc' = [proc EXCEPT ![p] = server(m, None)]
  /\ locked' = locked \cup {p}
  /\ UNCHANGED <<path, lost>>

\* pipe or fork fails: main returns 1.
ForkFailed(m) ==
  /\ wm[m].pc = "ensure" /\ wm[m].env = None /\ ~ entry_ready(wm[m].entry)
  /\ adopt(m, not_started) /\ locked' = {}
  /\ UNCHANGED <<proc, path, lost>>

\* add_socket_auto: the display server takes a name no live server has.
Publish(p, s) ==
  /\ proc[p].kind = "server" /\ proc[p].socket = None /\ ~ proc[p].signalled
  /\ path[s] \notin Pids
  /\ proc' = [proc EXCEPT ![p].socket = s] /\ path' = [path EXCEPT ![s] = p]
  /\ UNCHANGED <<wm, file, locked, lost>>

\* wait_for_env_lines got the names: the entry is saved.
Spawned(m) ==
  LET p == wm[m].child
      e == [pid |-> p, socket |-> proc[p].socket]
  IN
  /\ wm[m].pc = "wait" /\ proc[p].socket # None
  /\ wm' = [wm EXCEPT ![m] = [@ EXCEPT !.pc = "attach", !.child = None,
                                       !.env = e.socket, !.entry = e]]
  /\ file' = e
  /\ UNCHANGED <<proc, path, locked, lost>>

\* Mutant: the wait has no timeout.
SpawnDied(m) ==
  LET p == wm[m].child IN
  /\ wm[m].pc = "wait" /\ proc[p].kind = "zombie"
  /\ proc' = ends(m, [proc EXCEPT ![p] = no_process])
  /\ wm' = [wm EXCEPT ![m] = not_started] /\ locked' = {}
  /\ UNCHANGED <<path, file, lost>>

\* The child died, or startup_timeout_ms passed: it is killed and waited
\* for, and main returns 1.
SpawnFailed(m) ==
  LET p == wm[m].child IN
  /\ wm[m].pc = "wait"
  /\ proc' = ends(m, [proc EXCEPT ![p] = no_process])
  /\ path' = [s \in Sockets |-> IF path[s] = p THEN "stale" ELSE path[s]]
  /\ wm' = [wm EXCEPT ![m] = not_started] /\ locked' = {}
  /\ UNCHANGED <<file, lost>>

\* The backend connects to the server, and takes its snapshot.
Attach(m) ==
  /\ wm[m].pc = "attach" /\ path[wm[m].env] \in Pids
  /\ wm' = [wm EXCEPT ![m].pc = "run"]
  /\ UNCHANGED <<proc, path, file, locked, lost>>

\* main's catch, and its end: nobody listens, the connection closed or timed
\* out, or the runtime stopped.  The destructor's LOCK_UN frees the lock
\* whoever else has the description.
Exit(m) ==
  /\ wm[m].pc \in {"attach", "run"}
  /\ shutdown_owned(m)
  /\ wm' = [wm EXCEPT ![m] = not_started] /\ locked' = {}
  /\ UNCHANGED <<path, lost>>

\* execvp: the same process, lock_fd_ still open, and a new registry.
ExecRestart(m) ==
  /\ wm[m].pc = "run"
  /\ wm' = [wm EXCEPT ![m] = [@ EXCEPT !.pc = "lock", !.entry = None]]
  /\ UNCHANGED <<proc, path, file, locked, lost>>

\* Runtime::reap_children.
Reap(m, p) ==
  /\ wm[m].pc = "run" /\ proc[p].kind = "zombie" /\ proc[p].parent = m
  /\ proc' = [proc EXCEPT ![p] = no_process]
  /\ UNCHANGED <<wm, path, file, locked, lost>>
-----------------------------------------------------------------------------
(* Everyone else.                                                          *)

\* A crash or SIGKILL of the window manager.
Kill(m) ==
  /\ wm[m].pc # "none"
  /\ lost' = lost \cup (IF wm[m].pc = "wait" THEN {wm[m].child} ELSE {})
  /\ proc' = ends(m, proc)
  /\ wm' = [wm EXCEPT ![m] = not_started] /\ locked' = locked \ {m}
  /\ UNCHANGED <<path, file>>

\* sirenwm-wayland --display-server, run by hand.
StartServer(p) ==
  /\ proc[p].kind = "none"
  /\ proc' = [proc EXCEPT ![p] = server("user", None)]
  /\ UNCHANGED <<wm, path, file, locked, lost>>

\* A server crashes, its output window is closed, or SIGTERM is delivered.
\* Its socket stays in the directory.
ServerEnds(p) ==
  /\ proc[p].kind = "server"
  /\ proc' = [proc EXCEPT ![p] = IF @.parent \in Managers
                                 THEN [@ EXCEPT !.kind = "zombie", !.signalled = FALSE]
                                 ELSE no_process]
  /\ path' = [s \in Sockets |-> IF path[s] = p THEN "stale" ELSE path[s]]
  /\ locked' = locked \ {p} /\ lost' = lost \ {p}
  /\ UNCHANGED <<wm, file>>

\* The system gives the pid to an unrelated process.
Recycle(p) ==
  /\ proc[p].kind = "none"
  /\ proc' = [proc EXCEPT ![p] = [no_process EXCEPT !.kind = "other"]]
  /\ UNCHANGED <<wm, path, file, locked, lost>>

Stranger(p) ==
  /\ proc[p].kind = "other" /\ proc' = [proc EXCEPT ![p] = no_process]
  /\ UNCHANGED <<wm, path, file, locked, lost>>

Main(m) ==
  \/ Lock(m) \/ EnsureGiven(m) \/ EnsureAdopted(m)
  \/ \E p \in Pids : EnsureSpawned(m, p)
  \/ ForkFailed(m) \/ Spawned(m) \/ SpawnFailed(m) \/ Attach(m)

\* What a display server and the kernel do with it.
Server(p) == \E s \in Sockets : Publish(p, s)

Next ==
  \/ \E m \in Managers : \/ Main(m) \/ Exit(m) \/ ExecRestart(m) \/ Kill(m)
                         \/ \E env \in Sockets \cup {None} : Launch(m, env)
                         \/ \E p \in Pids : Reap(m, p)
  \/ \E p \in Pids : Server(p) \/ StartServer(p) \/ ServerEnds(p) \/ Recycle(p) \/ Stranger(p)

Spec == Init /\ [][Next]_vars

\* main runs on; flock is granted once it is free; a process that has been
\* sent SIGTERM dies; attaching ends with a snapshot or with an exception.
FairSpec ==
  /\ Spec
  /\ \A m \in Managers : WF_vars(Main(m)) /\ WF_vars(wm[m].pc = "attach" /\ Exit(m))
  /\ \A p \in Pids : WF_vars(proc[p].signalled /\ (ServerEnds(p) \/ Stranger(p)))
-----------------------------------------------------------------------------
(* Properties.                                                             *)

Process == [kind : {"none", "server", "zombie", "other"},
            parent : Managers \cup {None, "user"},
            socket : Sockets \cup {None}, signalled : BOOLEAN]

\* The registry, its file and the lock name processes of main.cpp's run: an
\* entry always has both its pid and its socket.
TypeOK ==
  /\ wm \in [Managers -> [pc : PCs, entry : Entry \cup {None}, child : Pids \cup {None},
                          env : Sockets \cup {None}]]
  /\ proc \in [Pids -> Process]
  /\ path \in [Sockets -> Pids \cup {"stale", None}] /\ file \in Entry \cup {None}
  /\ locked \subseteq Managers \cup Pids /\ lost \subseteq Pids

Inside == {m \in Managers : wm[m].pc \in {"ensure", "wait", "attach", "run"}}

\* The file has one writer, also across crashes and restarts: lock() keeps a
\* second window manager out until the first is gone.
OneRegistry == Cardinality(Inside) <= 1

\* What the registry in memory says is what the file says, so a successor
\* inherits exactly the server its predecessor had.
FileMatches == \A m \in Inside : wm[m].entry = file

\* One window manager at a time has the registry, and its file says what it does.
OneWriter == TypeOK /\ OneRegistry /\ FileMatches

Spawnees == {p \in Pids : proc[p].kind = "server" /\ proc[p].parent # "user"}

\* No server is left behind: whoever started it, a server is in the file, where
\* the next window manager finds it, unless it has been told to end, its
\* window manager still waits for it, or was killed while it did.
NoneForgotten ==
  \A p \in Spawnees :
    \/ file # None /\ file.pid = p
    \/ proc[p].signalled
    \/ \E m \in Managers : wm[m].child = p
    \/ p \in lost

\* Never two display servers of ours at once, but for one that has been told
\* to end and is still dying.
OneServer == Cardinality({p \in Spawnees : ~ proc[p].signalled}) <= 1

\* There is one server, and the next window manager will find it.
ServersKept == NoneForgotten /\ OneServer

\* Starting ends: a window manager that has the lock attaches or gives up.
StartEnds == \A m \in Managers : m \in Inside ~> wm[m].pc \in {"run", "none", "lock"}

\* CONFIG.md: "siren.restart() -- replace the WM process via exec (preserves
\* windows)": a window manager that execs comes back, unless it is killed.
RestartComesBack ==
  \A m \in Managers : (wm[m].pc = "lock" /\ m \in locked) ~> wm[m].pc # "lock"
=============================================================================
