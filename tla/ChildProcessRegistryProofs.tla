---------------------- MODULE ChildProcessRegistryProofs ----------------------
(***************************************************************************)
(* Proof that the state file has one writer and says what its registry     *)
(* says, for any number of window managers, process ids and socket names.  *)
(*                                                                         *)
(* That at most one window manager is inside is not inductive: the flock   *)
(* keeps a second one out only because whoever is inside has the locked    *)
(* description, and because no two window managers ever have it.           *)
(***************************************************************************)
EXTENDS ChildProcessRegistry, FiniteSetTheorems, TLAPS

\* Who is inside has the lock, and one window manager at most has it.
LockHeld ==
  /\ Inside \subseteq locked
  /\ \A m, n \in Managers \cap locked : m = n

\* A window manager that waits for its child has one.
WaitsForChild == \A m \in Managers : wm[m].pc = "wait" => wm[m].child \in Pids

Invariant == TypeOK /\ WaitsForChild /\ LockHeld /\ FileMatches

Manager == [pc : PCs, entry : Entry \cup {None}, child : Pids \cup {None},
            env : Sockets \cup {None}]
-----------------------------------------------------------------------------
(* What the helpers return.                                                *)

LEMMA EndsType ==
  ASSUME NEW m \in Managers, NEW procs \in [Pids -> Process]
  PROVE  ends(m, procs) \in [Pids -> Process]
<1> SUFFICES ASSUME NEW p \in Pids
             PROVE  (IF procs[p].parent # m THEN procs[p]
                     ELSE IF procs[p].kind = "zombie" THEN no_process
                     ELSE [procs[p] EXCEPT !.parent = None]) \in Process
  BY DEF ends
<1> QED
  BY DEF Process, no_process

LEMMA TerminateType ==
  ASSUME proc \in [Pids -> Process], NEW p \in Pids
  PROVE  terminate(p) \in [Pids -> Process]
BY DEF terminate, Process, no_process

LEMMA NotStarted == not_started \in Manager
BY DEF not_started, Manager, PCs

\* Whoever is inside alone: the others are not.
LEMMA Alone ==
  ASSUME Invariant, NEW m \in Inside
  PROVE  /\ m \in Managers /\ m \in locked
         /\ \A n \in Managers \ {m} : n \notin Inside /\ n \notin locked
BY DEF Invariant, LockHeld, Inside
-----------------------------------------------------------------------------
LEMMA Initially == Init => Invariant
<1> SUFFICES ASSUME Init PROVE Invariant
  OBVIOUS
<1>1. TypeOK
  BY NotStarted DEF Init, TypeOK, Manager, Process, no_process
<1>2. Inside = {}
  BY DEF Init, Inside, not_started
<1> QED
  BY <1>1, <1>2 DEF Init, Invariant, WaitsForChild, LockHeld, FileMatches, not_started

\* Steps that change neither a window manager nor the file: the lock may lose
\* a process that is not a window manager.
LEMMA OthersKeep ==
  ASSUME Invariant, NEW p \in Pids,
         Server(p) \/ StartServer(p) \/ ServerEnds(p) \/ Recycle(p) \/ Stranger(p)
  PROVE  Invariant'
<1>1. wm' = wm /\ file' = file /\ locked' \in {locked, locked \ {p}}
  BY DEF Server, Publish, StartServer, ServerEnds, Recycle, Stranger
<1>2. proc' \in [Pids -> Process]
  <2>1. ASSUME NEW s \in Sockets, Publish(p, s)
        PROVE  proc' \in [Pids -> Process]
    BY <2>1 DEF Invariant, TypeOK, Publish, Process
  <2>2. CASE StartServer(p)
    <3>1. server("user", None) \in Process
      BY DEF server, Process
    <3> QED
      BY <2>2, <3>1 DEF Invariant, TypeOK, StartServer
  <2>3. CASE ServerEnds(p)
    <3>1. no_process \in Process
      BY DEF no_process, Process
    <3>2. proc[p] \in Process
      BY DEF Invariant, TypeOK
    <3>3. [proc[p] EXCEPT !.kind = "zombie", !.signalled = FALSE] \in Process
      BY <3>2 DEF Process
    <3> QED
      BY <2>3, <3>1, <3>3 DEF Invariant, TypeOK, ServerEnds
  <2>4. CASE Recycle(p)
    BY <2>4 DEF Invariant, TypeOK, Recycle, Process, no_process
  <2>5. CASE Stranger(p)
    BY <2>5 DEF Invariant, TypeOK, Stranger, Process, no_process
  <2> QED
    BY <2>1, <2>2, <2>3, <2>4, <2>5 DEF Server
<1>3. path' \in [Sockets -> Pids \cup {"stale", None}] /\ lost' \subseteq Pids
  BY DEF Invariant, TypeOK, Server, Publish, StartServer, ServerEnds, Recycle, Stranger
<1>4. TypeOK'
  BY <1>1, <1>2, <1>3 DEF Invariant, TypeOK
<1>5. Inside' = Inside /\ Inside \subseteq Managers
  BY <1>1 DEF Inside
<1>6. LockHeld'
  BY <1>1, <1>5, RegistryAssumption DEF Invariant, LockHeld
<1> QED
  BY <1>1, <1>4, <1>5, <1>6 DEF Invariant, WaitsForChild, FileMatches

\* A window manager m that is not inside, and stays outside.
LEMMA LaunchKeeps ==
  ASSUME Invariant, NEW m \in Managers, NEW env \in Sockets \cup {None}, Launch(m, env)
  PROVE  Invariant'
<1>1. wm' = [wm EXCEPT ![m] = [not_started EXCEPT !.pc = "lock", !.env = env]]
  BY DEF Launch
<1>2. UNCHANGED <<proc, path, file, locked, lost>>
  BY DEF Launch
<1>3. [not_started EXCEPT !.pc = "lock", !.env = env] \in Manager
  BY DEF not_started, Manager, PCs
<1>4. TypeOK'
  BY <1>1, <1>2, <1>3 DEF Invariant, TypeOK, Manager
<1>5. Inside' \subseteq Inside /\ \A n \in Inside' : wm'[n] = wm[n]
  BY <1>1 DEF Inside, Invariant, TypeOK, not_started
<1> QED
  BY <1>1, <1>2, <1>4, <1>5 DEF Invariant, WaitsForChild, FileMatches, LockHeld, TypeOK,
     not_started

LEMMA LockKeeps ==
  ASSUME Invariant, NEW m \in Managers, Lock(m)
  PROVE  Invariant'
<1>1. Inside = {} /\ locked' = {m} /\ UNCHANGED <<proc, path, file, lost>>
  BY DEF Lock, Invariant, LockHeld
<1>2. wm' = [wm EXCEPT ![m] = [@ EXCEPT !.pc = "ensure", !.entry = file]]
  BY DEF Lock, Invariant, TypeOK
<1>3. TypeOK'
  BY <1>1, <1>2, ZenonT(60) DEF Invariant, TypeOK, PCs
<1>4. Inside' = {m} /\ wm'[m].entry = file /\ wm'[m].pc = "ensure"
  BY <1>1, <1>2 DEF Inside, Invariant, TypeOK
<1>5. WaitsForChild'
  BY <1>2 DEF Invariant, WaitsForChild, TypeOK
<1> QED
  BY <1>1, <1>3, <1>4, <1>5 DEF Invariant, FileMatches, LockHeld

\* A window manager m that is inside writes file and entry alike, or leaves.
LEMMA InsideKeeps ==
  ASSUME Invariant, NEW m \in Inside, TypeOK', NEW next \in Manager,
         wm' = [wm EXCEPT ![m] = next],
         next.pc = "wait" => next.child \in Pids,
         \/ /\ next.pc \in {"ensure", "wait", "attach", "run"} /\ next.entry = file'
            /\ locked \subseteq locked' /\ locked' \subseteq locked \cup Pids
         \/ next.pc = "none" /\ locked' \subseteq locked \ {m}
         \/ next.pc = "lock" /\ locked' = locked
  PROVE  Invariant'
<1> USE RegistryAssumption
<1>1. /\ m \in Managers /\ m \in locked
      /\ \A n \in Managers \ {m} : n \notin Inside /\ n \notin locked
  BY Alone
<1>2. wm'[m] = next /\ \A n \in Managers \ {m} : wm'[n] = wm[n]
  BY <1>1 DEF Invariant, TypeOK
<1>3. WaitsForChild'
  BY <1>2 DEF Invariant, WaitsForChild
<1>4. Inside' \subseteq {m}
  BY <1>1, <1>2 DEF Inside
<1>5. FileMatches'
  BY <1>1, <1>2, <1>4 DEF FileMatches, Inside
<1>6. LockHeld'
  BY <1>1, <1>2, <1>4 DEF LockHeld, Inside
<1> QED
  BY <1>3, <1>5, <1>6 DEF Invariant
-----------------------------------------------------------------------------
(* main(), one lemma per step inside.                                      *)

\* adopt() keeps an entry that is ready in memory and file, and drops any
\* other from both.
LEMMA AdoptAgrees ==
  ASSUME Invariant, NEW m \in Inside,
         file' = IF wm[m].entry = None \/ entry_ready(wm[m].entry) THEN file ELSE None
  PROVE  /\ file' = IF entry_ready(wm[m].entry) THEN wm[m].entry ELSE None
         /\ file' \in Entry \cup {None}
<1>1. wm[m].entry = file /\ file \in Entry \cup {None}
  BY DEF Invariant, FileMatches, TypeOK
<1>2. ~ entry_ready(None)
  BY DEF entry_ready
<1> QED
  BY <1>1, <1>2

LEMMA EnsureKeeps ==
  ASSUME Invariant, NEW m \in Managers,
         \/ EnsureGiven(m) \/ EnsureAdopted(m)
         \/ \E p \in Pids : EnsureSpawned(m, p)
         \/ ForkFailed(m)
  PROVE  Invariant'
<1>1. m \in Inside /\ wm[m] \in Manager /\ wm[m].entry = file
  BY DEF EnsureGiven, EnsureAdopted, EnsureSpawned, ForkFailed, Inside, Invariant, TypeOK,
         Manager, FileMatches
<1>2. CASE EnsureGiven(m)
  <2> DEFINE next == [wm[m] EXCEPT !.pc = "attach", !.entry = file']
  <2>1. file' \in Entry \cup {None}
        /\ file' = IF entry_ready(wm[m].entry) THEN wm[m].entry ELSE None
    BY <1>1, <1>2, AdoptAgrees DEF EnsureGiven, adopt
  <2>2. next \in Manager /\ next.entry = file' /\ next.pc = "attach"
    BY <1>1, <2>1 DEF Manager, PCs
  <2>3. /\ wm' = [wm EXCEPT ![m] = [wm[m] EXCEPT !.pc = "attach",
                     !.entry = IF entry_ready(wm[m].entry) THEN wm[m].entry ELSE None]]
        /\ UNCHANGED <<proc, path, locked, lost>>
    BY <1>1, <1>2 DEF EnsureGiven, adopt, Manager
  <2>4. wm' = [wm EXCEPT ![m] = next]
    BY <2>1, <2>3
  <2> HIDE DEF next
  <2>5. TypeOK'
    BY <2>1, <2>2, <2>3, <2>4 DEF Invariant, TypeOK, Manager
  <2> QED
    BY <1>1, <2>2, <2>3, <2>4, <2>5, InsideKeeps
<1>3. CASE EnsureAdopted(m)
  <2> DEFINE next == [wm[m] EXCEPT !.pc = "attach", !.env = wm[m].entry.socket]
  <2>1. wm[m].entry \in Entry
    BY <1>1, <1>3 DEF EnsureAdopted, entry_ready, Manager
  <2>2. next \in Manager /\ next.entry = file /\ next.pc = "attach"
    BY <1>1, <2>1 DEF Manager, PCs, Entry
  <2>3. wm' = [wm EXCEPT ![m] = next] /\ UNCHANGED <<proc, path, file, locked, lost>>
    BY <1>3 DEF EnsureAdopted, Invariant, TypeOK
  <2> HIDE DEF next
  <2>4. TypeOK'
    BY <2>2, <2>3 DEF Invariant, TypeOK, Manager
  <2> QED
    BY <1>1, <2>2, <2>3, <2>4, InsideKeeps
<1>4. ASSUME NEW p \in Pids, EnsureSpawned(m, p) PROVE Invariant'
  <2> DEFINE next == [wm[m] EXCEPT !.pc = "wait", !.child = p, !.entry = file']
  <2>1. file' \in Entry \cup {None}
        /\ file' = IF entry_ready(wm[m].entry) THEN wm[m].entry ELSE None
    BY <1>1, <1>4, AdoptAgrees DEF EnsureSpawned, adopt
  <2>2. next \in Manager /\ next.entry = file' /\ next.pc = "wait" /\ next.child = p
    BY <1>1, <2>1 DEF Manager, PCs
  <2>3. /\ wm' = [wm EXCEPT ![m] = [wm[m] EXCEPT !.pc = "wait", !.child = p,
                     !.entry = IF entry_ready(wm[m].entry) THEN wm[m].entry ELSE None]]
        /\ proc' = [proc EXCEPT ![p] = server(m, None)]
        /\ locked' = locked \cup {p} /\ UNCHANGED <<path, lost>>
    BY <1>1, <1>4 DEF EnsureSpawned, adopt, Manager
  <2>4. wm' = [wm EXCEPT ![m] = next]
    BY <2>1, <2>3
  <2> HIDE DEF next
  <2>5. server(m, None) \in Process
    BY DEF server, Process
  <2>6. TypeOK'
    BY <2>1, <2>2, <2>3, <2>4, <2>5 DEF Invariant, TypeOK, Manager
  <2> QED
    BY <1>1, <2>2, <2>3, <2>4, <2>6, InsideKeeps, ZenonT(60)
<1>5. CASE ForkFailed(m)
  <2>1. file' \in Entry \cup {None}
    BY <1>1, <1>5, AdoptAgrees DEF ForkFailed, adopt
  <2>2. ~ entry_ready(None) /\ not_started.entry = None
    BY DEF entry_ready, not_started
  <2>3. [not_started EXCEPT !.entry = None] = not_started
    BY DEF not_started
  <2>4. /\ wm' = [wm EXCEPT ![m] = not_started]
        /\ locked' = {} /\ UNCHANGED <<proc, path, lost>>
    BY <1>5, <2>2, <2>3 DEF ForkFailed, adopt
  <2>5. TypeOK'
    BY <2>1, <2>4, NotStarted DEF Invariant, TypeOK, Manager
  <2>6. not_started.pc = "none"
    BY DEF not_started
  <2> QED
    BY <1>1, <2>4, <2>5, <2>6, NotStarted, InsideKeeps
<1> QED
  BY <1>2, <1>3, <1>4, <1>5

LEMMA SpawnedKeeps ==
  ASSUME Invariant, NEW m \in Managers, Spawned(m)
  PROVE  Invariant'
<1> DEFINE p == wm[m].child
           e == [pid |-> p, socket |-> proc[p].socket]
           next == [wm[m] EXCEPT !.pc = "attach", !.child = None, !.env = e.socket, !.entry = e]
<1>1. m \in Inside /\ wm[m] \in Manager /\ p \in Pids
  BY DEF Spawned, Inside, Invariant, TypeOK, Manager, WaitsForChild
<1>2. e \in Entry /\ e.socket \in Sockets
  BY <1>1 DEF Spawned, Invariant, TypeOK, Process, Entry
<1>3. next \in Manager /\ next.pc = "attach" /\ next.entry = e
  BY <1>1, <1>2 DEF Manager, PCs
<1>4. /\ wm' = [wm EXCEPT ![m] = next] /\ file' = e
      /\ UNCHANGED <<proc, path, locked, lost>>
  BY DEF Spawned
<1> HIDE DEF next, e
<1>5. TypeOK'
  BY <1>2, <1>3, <1>4 DEF Invariant, TypeOK, Manager
<1> QED
  BY <1>1, <1>3, <1>4, <1>5, InsideKeeps

LEMMA SpawnFailedKeeps ==
  ASSUME Invariant, NEW m \in Managers, SpawnFailed(m)
  PROVE  Invariant'
<1> DEFINE p == wm[m].child
           procs == [proc EXCEPT ![p] = no_process]
<1>1. m \in Inside /\ p \in Pids
  BY DEF SpawnFailed, Inside, Invariant, WaitsForChild
<1>2. procs \in [Pids -> Process]
  BY <1>1 DEF Invariant, TypeOK, Process, no_process
<1>3. /\ proc' = ends(m, procs)
      /\ path' = [s \in Sockets |-> IF path[s] = p THEN "stale" ELSE path[s]]
      /\ wm' = [wm EXCEPT ![m] = not_started] /\ locked' = {} /\ UNCHANGED <<file, lost>>
  BY DEF SpawnFailed
<1> HIDE DEF procs
<1>4. proc' \in [Pids -> Process]
  BY <1>2, <1>3, EndsType
<1>5. TypeOK'
  BY <1>3, <1>4, NotStarted DEF Invariant, TypeOK, Manager
<1>6. not_started.pc = "none"
  BY DEF not_started
<1> QED
  BY <1>1, <1>3, <1>5, <1>6, NotStarted, InsideKeeps

LEMMA AttachKeeps ==
  ASSUME Invariant, NEW m \in Managers, Attach(m)
  PROVE  Invariant'
<1> DEFINE next == [wm[m] EXCEPT !.pc = "run"]
<1>1. m \in Inside /\ wm[m] \in Manager /\ wm[m].entry = file
  BY DEF Attach, Inside, Invariant, TypeOK, Manager, FileMatches
<1>2. next \in Manager /\ next.pc = "run" /\ next.entry = file
  BY <1>1 DEF Manager, PCs
<1>3. wm' = [wm EXCEPT ![m] = next] /\ UNCHANGED <<proc, path, file, locked, lost>>
  BY DEF Attach, Invariant, TypeOK
<1> HIDE DEF next
<1>4. TypeOK'
  BY <1>2, <1>3 DEF Invariant, TypeOK, Manager
<1> QED
  BY <1>1, <1>2, <1>3, <1>4, InsideKeeps

LEMMA ExitKeeps ==
  ASSUME Invariant, NEW m \in Managers, Exit(m)
  PROVE  Invariant'
<1> DEFINE e == wm[m].entry
           procs == IF e # None /\ is_process_alive(e.pid) THEN terminate(e.pid) ELSE proc
<1>1. m \in Inside
  BY DEF Exit, Inside
<1>2. e \in Entry \cup {None} /\ file \in Entry \cup {None}
  BY DEF Invariant, TypeOK
<1>3. procs \in [Pids -> Process]
  BY <1>2, TerminateType DEF Invariant, TypeOK, Entry
<1>4. /\ proc' = ends(m, procs) /\ file' \in {file, None}
      /\ wm' = [wm EXCEPT ![m] = not_started] /\ locked' = {} /\ UNCHANGED <<path, lost>>
  BY DEF Exit, shutdown_owned
<1> HIDE DEF procs
<1>5. proc' \in [Pids -> Process]
  BY <1>3, <1>4, EndsType
<1>6. TypeOK'
  BY <1>2, <1>4, <1>5, NotStarted DEF Invariant, TypeOK, Manager
<1>7. not_started.pc = "none"
  BY DEF not_started
<1> QED
  BY <1>1, <1>4, <1>6, <1>7, NotStarted, InsideKeeps

\* The new image waits for the lock its own process has.
LEMMA ExecRestartKeeps ==
  ASSUME Invariant, NEW m \in Managers, ExecRestart(m)
  PROVE  Invariant'
<1> DEFINE next == [wm[m] EXCEPT !.pc = "lock", !.entry = None]
<1>1. m \in Inside /\ wm[m] \in Manager
  BY DEF ExecRestart, Inside, Invariant, TypeOK, Manager
<1>2. next \in Manager /\ next.pc = "lock"
  BY <1>1 DEF Manager, PCs
<1>3. wm' = [wm EXCEPT ![m] = next] /\ UNCHANGED <<proc, path, file, locked, lost>>
  BY DEF ExecRestart
<1> HIDE DEF next
<1>4. TypeOK'
  BY <1>2, <1>3 DEF Invariant, TypeOK, Manager
<1> QED
  BY <1>1, <1>2, <1>3, <1>4, InsideKeeps

LEMMA ReapKeeps ==
  ASSUME Invariant, NEW m \in Managers, NEW p \in Pids, Reap(m, p)
  PROVE  Invariant'
<1>1. /\ proc' = [proc EXCEPT ![p] = no_process]
      /\ UNCHANGED <<wm, path, file, locked, lost>>
  BY DEF Reap
<1>2. TypeOK'
  BY <1>1 DEF Invariant, TypeOK, Process, no_process
<1>3. Inside' = Inside
  BY <1>1 DEF Inside
<1> QED
  BY <1>1, <1>2, <1>3 DEF Invariant, WaitsForChild, LockHeld, FileMatches

\* Killed inside, or before it got there: with the description inherited
\* through exec, or without.
LEMMA KillKeeps ==
  ASSUME Invariant, NEW m \in Managers, Kill(m)
  PROVE  Invariant'
<1>1. /\ lost' = lost \cup (IF wm[m].pc = "wait" THEN {wm[m].child} ELSE {})
      /\ proc' = ends(m, proc)
      /\ wm' = [wm EXCEPT ![m] = not_started] /\ locked' = locked \ {m}
      /\ UNCHANGED <<path, file>>
  BY DEF Kill
<1>2. proc' \in [Pids -> Process]
  BY <1>1, EndsType DEF Invariant, TypeOK
<1>3. lost' \subseteq Pids
  BY <1>1 DEF Invariant, TypeOK, WaitsForChild
<1>4. TypeOK'
  BY <1>1, <1>2, <1>3, NotStarted DEF Invariant, TypeOK, Manager
<1>5. not_started.pc = "none"
  BY DEF not_started
<1>6. wm'[m].pc = "none" /\ \A n \in Managers \ {m} : wm'[n] = wm[n]
  BY <1>1, <1>5 DEF Invariant, TypeOK
<1>7. Inside' = Inside \ {m}
  BY <1>6 DEF Inside
<1>8. WaitsForChild'
  BY <1>6 DEF Invariant, WaitsForChild
<1>9. LockHeld'
  BY <1>1, <1>7 DEF Invariant, LockHeld
<1>10. FileMatches'
  <2> SUFFICES ASSUME NEW n \in Inside' PROVE wm'[n].entry = file'
    BY DEF FileMatches
  <2>1. n \in Inside /\ n \in Managers \ {m}
    BY <1>7 DEF Inside
  <2> QED
    BY <1>1, <1>6, <2>1 DEF Invariant, FileMatches
<1> QED
  BY <1>4, <1>8, <1>9, <1>10 DEF Invariant
-----------------------------------------------------------------------------
LEMMA NextKeeps == Invariant /\ [Next]_vars => Invariant'
<1> SUFFICES ASSUME Invariant, [Next]_vars PROVE Invariant'
  OBVIOUS
<1>1. CASE UNCHANGED vars
  <2>1. Inside' = Inside
    BY <1>1 DEF vars, Inside
  <2> QED
    BY <1>1, <2>1 DEF vars, Invariant, TypeOK, WaitsForChild, LockHeld, FileMatches
<1>2. ASSUME NEW m \in Managers, Main(m) PROVE Invariant'
  BY <1>2, LockKeeps, EnsureKeeps, SpawnedKeeps, SpawnFailedKeeps, AttachKeeps DEF Main
<1>3. ASSUME NEW m \in Managers,
             \/ Exit(m) \/ ExecRestart(m) \/ Kill(m)
             \/ \E env \in Sockets \cup {None} : Launch(m, env)
             \/ \E p \in Pids : Reap(m, p)
      PROVE  Invariant'
  BY <1>3, ExitKeeps, ExecRestartKeeps, KillKeeps, LaunchKeeps, ReapKeeps
<1>4. ASSUME NEW p \in Pids,
             Server(p) \/ StartServer(p) \/ ServerEnds(p) \/ Recycle(p) \/ Stranger(p)
      PROVE  Invariant'
  BY <1>4, OthersKeep
<1> QED
  BY <1>1, <1>2, <1>3, <1>4 DEF Next

\* At most one window manager inside: it is the one that has the lock.
LEMMA InvariantImpliesOneWriter == Invariant => OneWriter
<1> SUFFICES ASSUME Invariant PROVE OneRegistry
  BY DEF Invariant, OneWriter
<1>1. CASE Inside = {}
  BY <1>1, FS_EmptySet DEF OneRegistry
<1>2. CASE Inside # {}
  <2>1. PICK m \in Inside : TRUE
    BY <1>2
  <2>2. Inside = {m}
    BY <2>1, Alone DEF Inside
  <2>3. Cardinality({m}) = 1
    BY FS_Singleton
  <2> QED
    BY <2>2, <2>3 DEF OneRegistry
<1> QED
  BY <1>1, <1>2

\* The state file of ChildProcessRegistry has one writer at a time, and what
\* that writer holds in memory is what the file says: whatever number of
\* window managers start, exec, crash or are killed at any step, and whatever
\* becomes of the process ids the file names.
THEOREM RegistryHasOneWriter == Spec => []OneWriter
<1>1. Init => Invariant
  BY Initially
<1>2. Invariant /\ [Next]_vars => Invariant'
  BY NextKeeps
<1>3. Invariant => OneWriter
  BY InvariantImpliesOneWriter
<1> QED
  BY <1>1, <1>2, <1>3, PTL DEF Spec
-----------------------------------------------------------------------------
(* The display servers.  A server that the lock would outlive is never      *)
(* forgotten, because it has the lock itself: it inherited the description, *)
(* and nobody gets in before it has ended, or before the window manager in  *)
(* charge has told it to.                                                   *)

\* The server the window manager m answers for.
charge(m) ==
  IF wm[m].pc = "wait" THEN {wm[m].child}
  ELSE IF wm[m].pc \in {"attach", "run"} /\ wm[m].entry # None THEN {wm[m].entry.pid}
  ELSE {}

\* Whoever is inside answers for every server that has the lock.
InCharge == \A m \in Inside : locked \cap Pids \subseteq charge(m)

\* A server of ours that was not told to end has the lock, and it is one.
SpawneesLock ==
  /\ \A p \in Spawnees : proc[p].signalled \/ p \in locked
  /\ \A p, q \in locked \cap Pids : p = q

\* A server that has the lock is in the file, or awaited, or was when its
\* window manager was killed.
Accounted ==
  \A p \in locked \cap Pids :
    \/ file # None /\ file.pid = p
    \/ \E m \in Managers : wm[m].pc = "wait" /\ wm[m].child = p
    \/ p \in lost

Kept == InCharge /\ SpawneesLock /\ Accounted

\* The end of a window manager makes no server its own, and tells none to end.
LEMMA EndsSpawnee ==
  ASSUME NEW m \in Managers, NEW procs \in [Pids -> Process], NEW p \in Pids,
         ends(m, procs)[p].kind = "server", ends(m, procs)[p].parent # "user"
  PROVE  /\ procs[p].kind = "server" /\ procs[p].parent # "user"
         /\ procs[p].signalled = ends(m, procs)[p].signalled
<1>1. ends(m, procs)[p] = IF procs[p].parent # m THEN procs[p]
                          ELSE IF procs[p].kind = "zombie" THEN no_process
                          ELSE [procs[p] EXCEPT !.parent = None]
  BY DEF ends
<1>2. procs[p] \in Process
  OBVIOUS
<1>3. CASE procs[p].parent # m
  BY <1>1, <1>3
<1>4. CASE procs[p].parent = m /\ procs[p].kind = "zombie"
  BY <1>1, <1>4 DEF no_process
<1>5. CASE procs[p].parent = m /\ procs[p].kind # "zombie"
  <2>1. ends(m, procs)[p] = [procs[p] EXCEPT !.parent = None]
    BY <1>1, <1>5
  <2> QED
    BY <1>2, <1>5, <2>1, RegistryAssumption DEF Process
<1> QED
  BY <1>3, <1>4, <1>5

LEMMA KeptInitially == Init => Kept
BY DEF Init, Kept, InCharge, SpawneesLock, Accounted, Spawnees, no_process

\* No server becomes one of ours, and those that are keep the lock.
LEMMA KeptOutside ==
  ASSUME Invariant, Kept, NEW p \in Pids,
         Server(p) \/ StartServer(p) \/ ServerEnds(p) \/ Recycle(p) \/ Stranger(p)
  PROVE  Kept'
<1>1. wm' = wm /\ file' = file /\ proc \in [Pids -> Process]
  BY DEF Server, Publish, StartServer, ServerEnds, Recycle, Stranger, Invariant, TypeOK
<1>2. \/ locked' = locked /\ lost' = lost
      \/ locked' = locked \ {p} /\ lost' = lost \ {p} /\ ServerEnds(p)
  BY DEF Server, Publish, StartServer, ServerEnds, Recycle, Stranger
<1>3. \A q \in Pids \ {p} : proc'[q] = proc[q]
  BY <1>1 DEF Server, Publish, StartServer, ServerEnds, Recycle, Stranger
<1>4. CASE ServerEnds(p)
  <2>1. proc[p] \in Process
    BY <1>1
  <2>2. [proc[p] EXCEPT !.kind = "zombie", !.signalled = FALSE].kind = "zombie"
    BY <2>1 DEF Process
  <2>3. p \notin Spawnees'
    BY <1>1, <1>4, <2>2 DEF ServerEnds, Spawnees, no_process
  <2> QED
    BY <1>1, <1>2, <1>3, <2>3 DEF Kept, SpawneesLock, InCharge, Inside, charge, Accounted, Spawnees
<1>5. CASE ~ ServerEnds(p)
  <2>1. p \in Spawnees' => p \in Spawnees /\ proc'[p].signalled = proc[p].signalled
    <3>1. ASSUME NEW s \in Sockets, Publish(p, s)
          PROVE  /\ proc'[p].kind = proc[p].kind /\ proc'[p].parent = proc[p].parent
                 /\ proc'[p].signalled = proc[p].signalled
      BY <1>1, <3>1 DEF Publish, Process
    <3>2. CASE StartServer(p)
      BY <1>1, <3>2 DEF StartServer, Spawnees, server
    <3>3. CASE Recycle(p)
      BY <1>1, <3>3 DEF Recycle, Spawnees, no_process
    <3>4. CASE Stranger(p)
      BY <1>1, <3>4 DEF Stranger, Spawnees, no_process
    <3> QED
      BY <1>5, <3>1, <3>2, <3>3, <3>4 DEF Server, Spawnees
  <2> QED
    BY <1>1, <1>2, <1>3, <1>5, <2>1 DEF Kept, SpawneesLock, InCharge, Inside, charge, Accounted,
       Spawnees
<1> QED
  BY <1>4, <1>5
-----------------------------------------------------------------------------
(* main().                                                                  *)

\* Steps before a server is spawned, or with the one there is.
LEMMA KeptQuietly ==
  ASSUME Invariant, Kept, NEW m \in Managers,
         \/ \E env \in Sockets \cup {None} : Launch(m, env)
         \/ Lock(m) \/ EnsureGiven(m) \/ EnsureAdopted(m) \/ Attach(m) \/ ExecRestart(m)
  PROVE  Kept'
<1> USE RegistryAssumption
<1>1. proc' = proc /\ lost' = lost /\ \A n \in Managers \ {m} : wm'[n] = wm[n]
  BY DEF Launch, Lock, EnsureGiven, EnsureAdopted, adopt, Attach, ExecRestart, Invariant, TypeOK
<1>2. Spawnees' = Spawnees
  BY <1>1 DEF Spawnees
<1>3. CASE Lock(m)
  <2>1. locked = {} /\ locked' = {m} /\ locked' \cap Pids = {} /\ locked \cap Pids = {}
    BY <1>3 DEF Lock
  <2> QED
    BY <1>1, <1>2, <2>1 DEF Kept, InCharge, SpawneesLock, Accounted
<1>4. CASE ~ Lock(m)
  <2>1. locked' = locked
    BY <1>4 DEF Launch, EnsureGiven, EnsureAdopted, Attach, ExecRestart
  <2>2. SpawneesLock'
    BY <1>1, <1>2, <2>1 DEF Kept, SpawneesLock
  <2>3. CASE EnsureGiven(m) \/ EnsureAdopted(m)
    <3>1. m \in Inside /\ charge(m) = {}
      BY <2>3 DEF EnsureGiven, EnsureAdopted, Inside, charge
    <3>2. locked \cap Pids = {}
      BY <3>1 DEF Kept, InCharge
    <3> QED
      BY <2>1, <2>2, <3>2 DEF Kept, InCharge, Accounted
  <2>4. CASE ~ (EnsureGiven(m) \/ EnsureAdopted(m))
    <3>1. PICK env \in Sockets \cup {None} : Launch(m, env) \/ Attach(m) \/ ExecRestart(m)
      BY <1>4, <2>4
    <3>2. Accounted'
      <4>1. file' = file /\ wm[m].pc # "wait"
        BY <3>1 DEF Launch, Attach, ExecRestart
      <4> QED
        BY <1>1, <2>1, <4>1 DEF Kept, Accounted
    <3>3. ASSUME NEW n \in Inside' PROVE n \in Inside /\ charge(n)' = charge(n)
      <4>1. CASE n # m
        BY <1>1, <3>3, <4>1 DEF Inside, charge
      <4>2. CASE n = m /\ Attach(m)
        BY <4>2 DEF Attach, Inside, charge, Invariant, TypeOK
      <4>3. CASE n = m /\ ~ Attach(m)
        <5>1. wm'[m].pc = "lock"
          <6>1. CASE Launch(m, env)
            BY <6>1 DEF Launch, Invariant, TypeOK, not_started
          <6>2. CASE ExecRestart(m)
            BY <6>2 DEF ExecRestart, Invariant, TypeOK
          <6> QED
            BY <3>1, <4>3, <6>1, <6>2
        <5> QED
          BY <3>3, <4>3, <5>1 DEF Inside
      <4> QED
        BY <4>1, <4>2, <4>3
    <3>4. InCharge'
      BY <2>1, <3>3 DEF Kept, InCharge
    <3> QED
      BY <2>2, <3>2, <3>4 DEF Kept
  <2> QED
    BY <2>3, <2>4
<1> QED
  BY <1>3, <1>4

\* The child inherits the lock: it is the only server that has it.
LEMMA KeptSpawning ==
  ASSUME Invariant, Kept, NEW m \in Managers, NEW p \in Pids, EnsureSpawned(m, p)
  PROVE  Kept'
<1> USE RegistryAssumption
<1>1. m \in Inside /\ charge(m) = {}
  BY DEF EnsureSpawned, Inside, charge
<1>2. locked \cap Pids = {}
  BY <1>1 DEF Kept, InCharge
<1>3. locked' \cap Pids = {p} /\ lost' = lost
  BY <1>2 DEF EnsureSpawned
<1>4. wm'[m].pc = "wait" /\ wm'[m].child = p
  <2>1. wm[m] \in Manager
    BY DEF Invariant, TypeOK, Manager
  <2>2. wm' = [wm EXCEPT ![m] = [wm[m] EXCEPT !.pc = "wait", !.child = p,
                     !.entry = IF entry_ready(wm[m].entry) THEN wm[m].entry ELSE None]]
    BY <2>1 DEF EnsureSpawned, adopt, Manager
  <2> QED
    BY <2>1, <2>2 DEF Invariant, TypeOK, Manager
<1>5. \A n \in Managers \ {m} : wm'[n] = wm[n] /\ n \notin Inside
  BY <1>1, Alone DEF EnsureSpawned, adopt, Invariant, TypeOK
<1>6. InCharge'
  <2>1. Inside' \subseteq {m}
    BY <1>5 DEF Inside
  <2>2. charge(m)' = {p}
    BY <1>4 DEF charge
  <2> QED
    BY <1>3, <2>1, <2>2 DEF InCharge
<1>7. \A q \in Spawnees' \ {p} : q \in Spawnees /\ proc'[q].signalled = proc[q].signalled
  BY DEF EnsureSpawned, Spawnees, Invariant, TypeOK
<1>8. SpawneesLock'
  BY <1>2, <1>3, <1>7 DEF Kept, SpawneesLock, EnsureSpawned, Spawnees
<1>9. Accounted'
  BY <1>3, <1>4 DEF Accounted
<1> QED
  BY <1>6, <1>8, <1>9 DEF Kept

LEMMA KeptSpawned ==
  ASSUME Invariant, Kept, NEW m \in Managers, Spawned(m)
  PROVE  Kept'
<1> DEFINE p == wm[m].child
           e == [pid |-> p, socket |-> proc[p].socket]
<1>1. m \in Inside /\ charge(m) = {p}
  BY DEF Spawned, Inside, charge
<1>2. UNCHANGED <<proc, locked, lost>> /\ file' = e
  BY DEF Spawned
<1>3. wm'[m].pc = "attach" /\ wm'[m].entry = e
  BY DEF Spawned, Invariant, TypeOK
<1>4. locked \cap Pids \subseteq {p}
  BY <1>1 DEF Kept, InCharge
<1>5. p \in Pids /\ e # None /\ e.pid = p
  <2>1. p \in Pids
    BY DEF Spawned, Invariant, WaitsForChild
  <2>2. e \in Entry
    BY <2>1 DEF Spawned, Entry, Invariant, TypeOK, Process
  <2> QED
    BY <2>1, <2>2, RegistryAssumption DEF Entry
<1>6. \A n \in Managers \ {m} : wm'[n] = wm[n] /\ n \notin Inside
  BY <1>1, Alone DEF Spawned, Invariant, TypeOK
<1> HIDE DEF e
<1>7. InCharge'
  <2>1. Inside' \subseteq {m}
    BY <1>6 DEF Inside
  <2>2. charge(m)' = {p}
    BY <1>3, <1>5 DEF charge
  <2> QED
    BY <1>2, <1>4, <2>1, <2>2 DEF InCharge
<1>8. SpawneesLock'
  BY <1>2 DEF Kept, SpawneesLock, Spawnees
<1>9. Accounted'
  BY <1>2, <1>4, <1>5 DEF Accounted
<1> QED
  BY <1>7, <1>8, <1>9 DEF Kept

\* Whoever leaves frees the lock, and leaves no server of ours that was not
\* told to end: the only one there was is in its charge.
LEMMA KeptFreeing ==
  ASSUME Invariant, Kept, NEW m \in Inside, locked' = {},
         \A q \in Spawnees' \ charge(m) : q \in Spawnees /\ proc'[q].signalled = proc[q].signalled,
         \A q \in Spawnees' \cap charge(m) : proc'[q].signalled
  PROVE  Kept'
<1>1. SpawneesLock'
  BY DEF Kept, SpawneesLock, InCharge, Spawnees
<1> QED
  BY <1>1 DEF Kept, InCharge, Accounted

LEMMA KeptFailing ==
  ASSUME Invariant, Kept, NEW m \in Managers, ForkFailed(m) \/ SpawnFailed(m)
  PROVE  Kept'
<1>1. m \in Inside /\ locked' = {}
  BY DEF ForkFailed, SpawnFailed, Inside
<1>2. CASE ForkFailed(m)
  <2>1. proc' = proc /\ charge(m) = {}
    BY <1>2 DEF ForkFailed, charge
  <2> QED
    BY <1>1, <2>1, KeptFreeing DEF Spawnees
<1>3. CASE SpawnFailed(m)
  <2> DEFINE p == wm[m].child
             procs == [proc EXCEPT ![p] = no_process]
  <2>1. charge(m) = {p} /\ p \in Pids /\ proc' = ends(m, procs)
    BY <1>3 DEF SpawnFailed, charge, Invariant, WaitsForChild
  <2>2. procs \in [Pids -> Process]
    BY <2>1 DEF Invariant, TypeOK, Process, no_process
  <2>3. procs[p].kind = "none" /\ \A q \in Pids \ {p} : procs[q] = proc[q]
    BY <2>1 DEF Invariant, TypeOK, no_process
  <2> HIDE DEF procs
  <2>4. \A q \in Spawnees' : /\ procs[q].kind = "server" /\ procs[q].parent # "user"
                             /\ procs[q].signalled = proc'[q].signalled
    BY <2>1, <2>2, EndsSpawnee DEF Spawnees
  <2>5. \A q \in Spawnees' : q # p /\ q \in Spawnees /\ proc'[q].signalled = proc[q].signalled
    BY <2>3, <2>4 DEF Spawnees
  <2> QED
    BY <1>1, <2>1, <2>5, KeptFreeing
<1> QED
  BY <1>2, <1>3

LEMMA KeptLeaving ==
  ASSUME Invariant, Kept, NEW m \in Managers, Exit(m)
  PROVE  Kept'
<1> DEFINE e == wm[m].entry
           procs == IF e # None /\ is_process_alive(e.pid) THEN terminate(e.pid) ELSE proc
<1>1. /\ m \in Inside /\ locked' = {} /\ e \in Entry \cup {None}
      /\ charge(m) = IF e = None THEN {} ELSE {e.pid}
  BY DEF Exit, Inside, charge, Invariant, TypeOK
<1>2. procs \in [Pids -> Process]
  BY <1>1, TerminateType DEF Invariant, TypeOK, Entry
<1>3. proc' = ends(m, procs)
  BY DEF Exit, shutdown_owned
<1>4. \A q \in Pids \ charge(m) : procs[q] = proc[q]
  BY <1>1 DEF terminate, Invariant, TypeOK, Entry
<1>5. \A q \in charge(m) : procs[q].kind = "server" => procs[q].signalled
  <2> SUFFICES ASSUME NEW q \in charge(m), procs[q].kind = "server" PROVE procs[q].signalled
    OBVIOUS
  <2>1. e # None /\ q = e.pid /\ q \in Pids /\ proc[q] \in Process
    BY <1>1 DEF Entry, Invariant, TypeOK
  <2>2. CASE is_process_alive(e.pid)
    <3>1. procs[q] = IF proc[q].kind = "zombie" THEN no_process
                     ELSE [proc[q] EXCEPT !.signalled = TRUE]
      BY <2>1, <2>2 DEF terminate, Invariant, TypeOK
    <3>2. proc[q].kind # "zombie"
      BY <3>1 DEF no_process
    <3> QED
      BY <2>1, <3>1, <3>2 DEF Process
  <2>3. CASE ~ is_process_alive(e.pid)
    BY <2>1, <2>3 DEF is_process_alive
  <2> QED
    BY <2>2, <2>3
<1> HIDE DEF procs
<1>6. \A q \in Spawnees' : /\ procs[q].kind = "server" /\ procs[q].parent # "user"
                           /\ procs[q].signalled = proc'[q].signalled /\ q \in Pids
  BY <1>2, <1>3, EndsSpawnee DEF Spawnees
<1>7. \A q \in Spawnees' \ charge(m) : q \in Spawnees /\ proc'[q].signalled = proc[q].signalled
  BY <1>4, <1>6 DEF Spawnees
<1>8. \A q \in Spawnees' \cap charge(m) : proc'[q].signalled
  BY <1>5, <1>6
<1> QED
  BY <1>1, <1>7, <1>8, KeptFreeing

LEMMA KeptReaping ==
  ASSUME Invariant, Kept, NEW m \in Managers, NEW p \in Pids, Reap(m, p)
  PROVE  Kept'
<1>1. UNCHANGED <<wm, file, locked, lost>>
  BY DEF Reap
<1>2. \A q \in Spawnees' : q \in Spawnees /\ proc'[q].signalled = proc[q].signalled
  BY DEF Reap, Spawnees, no_process, Invariant, TypeOK
<1>3. SpawneesLock'
  BY <1>1, <1>2 DEF Kept, SpawneesLock
<1> QED
  BY <1>1, <1>3 DEF Kept, InCharge, Inside, charge, Accounted

\* The server keeps the lock; if it was awaited, it is remembered as lost.
LEMMA KeptKilling ==
  ASSUME Invariant, Kept, NEW m \in Managers, Kill(m)
  PROVE  Kept'
<1> USE RegistryAssumption
<1>1. /\ proc' = ends(m, proc) /\ locked' = locked \ {m} /\ file' = file
      /\ lost' = lost \cup (IF wm[m].pc = "wait" THEN {wm[m].child} ELSE {})
      /\ locked' \cap Pids = locked \cap Pids
  BY DEF Kill
<1>2. wm'[m].pc = "none" /\ \A n \in Managers \ {m} : wm'[n] = wm[n]
  BY DEF Kill, Invariant, TypeOK, not_started
<1>3. proc \in [Pids -> Process]
  BY DEF Invariant, TypeOK
<1>4. \A q \in Spawnees' : q \in Spawnees /\ proc'[q].signalled = proc[q].signalled /\ q \in Pids
  BY <1>1, <1>3, EndsSpawnee DEF Spawnees
<1>5. SpawneesLock'
  BY <1>1, <1>4 DEF Kept, SpawneesLock
<1>6. \A n \in Inside' : n \in Inside /\ charge(n)' = charge(n)
  BY <1>2 DEF Inside, charge
<1>7. InCharge'
  BY <1>1, <1>6 DEF Kept, InCharge
<1>8. Accounted'
  <2> SUFFICES ASSUME NEW p \in locked \cap Pids
               PROVE  \/ file' # None /\ file'.pid = p
                      \/ \E n \in Managers : wm'[n].pc = "wait" /\ wm'[n].child = p
                      \/ p \in lost'
    BY <1>1 DEF Accounted
  <2>1. CASE wm[m].pc = "wait" /\ wm[m].child = p
    BY <1>1, <2>1
  <2>2. CASE ~ (wm[m].pc = "wait" /\ wm[m].child = p)
    BY <1>1, <1>2, <2>2 DEF Kept, Accounted
  <2> QED
    BY <2>1, <2>2
<1> QED
  BY <1>5, <1>7, <1>8 DEF Kept

LEMMA NextKeepsServers == Invariant /\ Kept /\ [Next]_vars => Kept'
<1> SUFFICES ASSUME Invariant, Kept, [Next]_vars PROVE Kept'
  OBVIOUS
<1>1. CASE UNCHANGED vars
  BY <1>1 DEF vars, Kept, InCharge, Inside, charge, SpawneesLock, Spawnees, Accounted
<1>2. ASSUME NEW m \in Managers, Main(m) PROVE Kept'
  BY <1>2, KeptQuietly, KeptSpawning, KeptSpawned, KeptFailing DEF Main
<1>3. ASSUME NEW m \in Managers,
             \/ Exit(m) \/ ExecRestart(m) \/ Kill(m)
             \/ \E env \in Sockets \cup {None} : Launch(m, env)
             \/ \E p \in Pids : Reap(m, p)
      PROVE  Kept'
  BY <1>3, KeptLeaving, KeptQuietly, KeptKilling, KeptReaping
<1>4. ASSUME NEW p \in Pids,
             Server(p) \/ StartServer(p) \/ ServerEnds(p) \/ Recycle(p) \/ Stranger(p)
      PROVE  Kept'
  BY <1>4, KeptOutside
<1> QED
  BY <1>1, <1>2, <1>3, <1>4 DEF Next

LEMMA KeptImpliesServersKept == Kept => ServersKept
<1> SUFFICES ASSUME Kept PROVE ServersKept
  OBVIOUS
<1>1. NoneForgotten
  BY DEF Kept, SpawneesLock, Accounted, NoneForgotten, Spawnees
<1>2. OneServer
  <2> DEFINE S == {p \in Spawnees : ~ proc[p].signalled}
  <2>1. \A p, q \in S : p = q
    BY DEF Kept, SpawneesLock, Spawnees
  <2>2. CASE S = {}
    BY <2>2, FS_EmptySet DEF OneServer
  <2>3. CASE S # {}
    <3>1. PICK p \in S : TRUE
      BY <2>3
    <3>2. S = {p}
      BY <2>1, <3>1
    <3>3. Cardinality({p}) = 1
      BY FS_Singleton
    <3> QED
      BY <3>2, <3>3 DEF OneServer
  <2> QED
    BY <2>2, <2>3
<1> QED
  BY <1>1, <1>2 DEF ServersKept

\* Every display server a window manager started is in the state file, where
\* the next one finds it, or has been told to end, or is still awaited, or lost
\* its window manager while it was; and there is one that was not told to end,
\* at most: whatever number of window managers start, fail, exec, crash or are
\* killed, and whoever gets the process ids of the dead.
THEOREM ServersAreKept == Spec => []ServersKept
<1>1. Init => Invariant /\ Kept
  BY Initially, KeptInitially
<1>2. Invariant /\ Kept /\ [Next]_vars => Invariant' /\ Kept'
  BY NextKeeps, NextKeepsServers
<1>3. Kept => ServersKept
  BY KeptImpliesServersKept
<1> QED
  BY <1>1, <1>2, <1>3, PTL DEF Spec
=============================================================================
