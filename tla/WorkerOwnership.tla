-------------------------- MODULE WorkerOwnership --------------------------
(***************************************************************************)
(* Who may write the vault: the desktop app that forks the worker and      *)
(* starts it again when it dies, the worker process that boots, serves and *)
(* closes, the single-owner lock file it takes on the way, and the fence   *)
(* before a commit, which asks what that attempt returned.  An app that is *)
(* closed does not wait for its worker, so the next one may meet it.       *)
(***************************************************************************)
EXTENDS Naturals

CONSTANTS
  Pids,         \* process ids; a dead one may be given out again
  NoChild, NoLock,
  Threshold,    \* crashes inside the window that end the restarts (5)
  MaxLaunches,  \* bound: times the app is opened
  MaxFaults     \* bound: deaths, failed boots and file errors

ASSUME OwnershipAssumption ==
  /\ NoChild \notin Pids /\ Threshold \in Nat \ {0}
  /\ NoLock \notin Pids \X BOOLEAN /\ MaxLaunches \in Nat /\ MaxFaults \in Nat

VARIABLES
  lock,     \* the file: the process that made it, and whether its pid is in it
  phase,    \* what each process is at
  held,     \* the processes whose attempt at the lock succeeded
  robbed,   \* history: those whose file another one removed as a stale one
  spine,    \* the processes whose Temporal worker runs its activities
  commits,  \* the processes past the fence with a commit under way
  told,     \* the processes asked to stop: SIGTERM, or a channel that closed
  main,     \* the app: "up", "quitting", "down"
  sup,      \* the status the supervisor shows
  child,    \* its child
  stopped, timer, crashes,
  mail,     \* messages of the processes it has not heard
  exits,    \* exits it has not heard
  launches, faults

file == <<lock, held, robbed, spine, commits>>
supervisor == <<main, sup, child, stopped, timer, crashes>>
vars == <<file, phase, told, supervisor, mail, exits, launches, faults>>

Phases == {"none", "forked", "found", "stale", "again", "name", "boot", "connect", "ready",
           "hung", "closing"}
Live(w) == phase[w] # "none"

\* The synchronous stretch of the lock: no signal is handled in it.
Locking == {"found", "stale", "again", "name"}

TypeOK ==
  /\ lock \in (Pids \X BOOLEAN) \cup {NoLock}
  /\ phase \in [Pids -> Phases]
  /\ held \subseteq Pids /\ commits \subseteq held \cap spine
  /\ robbed \subseteq Pids /\ spine \subseteq Pids /\ told \subseteq Pids
  /\ main \in {"up", "quitting", "down"}
  /\ sup \in {"starting", "ready", "stopped", "worker_down"}
  /\ child \in Pids \cup {NoChild} /\ stopped \in BOOLEAN /\ timer \in BOOLEAN
  /\ crashes \in 0..Threshold /\ (stopped \/ crashes < Threshold)
  /\ mail \subseteq Pids \X {"ready", "error"} /\ exits \subseteq Pids
  /\ launches \in 0..MaxLaunches /\ faults \in 0..MaxFaults

Init ==
  /\ lock = NoLock /\ phase = [w \in Pids |-> "none"]
  /\ held = {} /\ robbed = {} /\ spine = {} /\ commits = {} /\ told = {}
  /\ main = "down" /\ sup = "stopped" /\ child = NoChild
  /\ stopped = FALSE /\ timer = FALSE /\ crashes = 0
  /\ mail = {} /\ exits = {} /\ launches = 0 /\ faults = 0

-----------------------------------------------------------------------------
(* The worker process *)

Fault == faults < MaxFaults /\ faults' = faults + 1
Goto(w, p) == phase' = [phase EXCEPT ![w] = p]

\* Exclusive create.  A second EEXIST, after a stale file was removed, is final.
Open(w) ==
  /\ phase[w] \in {"forked", "again"}
  /\ \/ lock = NoLock /\ lock' = <<w, FALSE>> /\ Goto(w, "name") /\ UNCHANGED faults
     \/ lock # NoLock /\ Goto(w, IF phase[w] = "forked" THEN "found" ELSE "boot")
        /\ UNCHANGED <<lock, faults>>
     \/ Fault /\ Goto(w, "boot") /\ UNCHANGED lock
  /\ UNCHANGED <<held, robbed, spine, commits, told, supervisor, mail, exits, launches>>

\* Only a file that names a process that is gone is stale; one without a pid,
\* or whose pid is somebody's again, is held.
ReadHolder(w) ==
  /\ phase[w] = "found"
  /\ Goto(w, IF \E v \in Pids : lock = <<v, TRUE>> /\ ~Live(v) THEN "stale" ELSE "boot")
  /\ UNCHANGED <<file, told, supervisor, mail, exits, launches, faults>>

\* (mutant) The stale file is taken over as it is.
UnlinkTakesOver(w) ==
  /\ phase[w] = "stale" /\ Goto(w, "boot") /\ held' = held \cup {w}
  /\ UNCHANGED <<lock, robbed, spine, commits, told, supervisor, mail, exits, launches, faults>>

\* Whatever file is there by now is removed, a living worker's too.
Unlink(w) ==
  /\ phase[w] = "stale" /\ Goto(w, "again")
  /\ lock' = NoLock
  /\ robbed' = robbed \cup {v \in Pids : /\ v \in held \/ phase[v] = "name"
                                        /\ lock \in {<<v, TRUE>>, <<v, FALSE>>}}
  /\ UNCHANGED <<held, spine, commits, told, supervisor, mail, exits, launches, faults>>

\* The pid goes into the file that was created, which may have been removed since.
WriteHolder(w) ==
  /\ phase[w] = "name" /\ Goto(w, "boot")
  /\ \/ /\ lock' = IF lock = <<w, FALSE>> THEN <<w, TRUE>> ELSE lock
        /\ held' = held \cup {w} /\ UNCHANGED faults
     \/ Fault /\ UNCHANGED <<lock, held>>
  /\ UNCHANGED <<robbed, spine, commits, told, supervisor, mail, exits, launches>>

\* A refused lock does not stop the boot; an error of the boot is reported and
\* leaves the process alive, for its channel is open.
Boot(w) ==
  /\ phase[w] = "boot"
  /\ \/ Goto(w, "connect") /\ UNCHANGED <<mail, faults>>
     \/ Fault /\ Goto(w, "hung") /\ mail' = mail \cup {<<w, "error">>}
  /\ UNCHANGED <<file, told, supervisor, exits, launches>>

\* The worker that booted waits for its first connect to Temporal before it says it
\* is ready.  With the proof spine the connect is the spine's whole run: the worker
\* then serves and is not heard of.  Without it, or with Temporal down, it is ready.
Connect(w) ==
  /\ phase[w] = "connect" /\ w \notin spine
  /\ \/ spine' = spine \cup {w} /\ UNCHANGED <<phase, mail>>
     \/ Goto(w, "ready") /\ mail' = mail \cup {<<w, "ready">>} /\ UNCHANGED spine
  /\ UNCHANGED <<lock, held, robbed, commits, told, supervisor, exits, launches, faults>>

\* The spine's worker fails: bootstrapWorker connects again, a bounded number of times.
SpineFails(w) ==
  /\ Fault /\ w \in spine \ commits /\ phase[w] = "connect" /\ spine' = spine \ {w}
  /\ UNCHANGED <<lock, held, robbed, commits, phase, told, supervisor, mail, exits, launches>>

\* The activities of the spine commit, until the process is gone.  The fence asks the
\* outcome of the boot, before each commit.
Commit(w) ==
  /\ w \in spine /\ w \in held \ commits
  /\ commits' = commits \cup {w}
  /\ UNCHANGED <<lock, held, robbed, spine, phase, told, supervisor, mail, exits, launches, faults>>

Committed(w) ==
  /\ w \in commits /\ commits' = commits \ {w}
  /\ UNCHANGED <<lock, held, robbed, spine, phase, told, supervisor, mail, exits, launches, faults>>

\* The process is gone: with a lock of its own still there, if it did not close.
Gone(w) ==
  /\ Goto(w, "none")
  /\ held' = held \ {w} /\ robbed' = robbed \ {w} /\ spine' = spine \ {w}
  /\ commits' = commits \ {w} /\ told' = told \ {w}
  /\ exits' = IF main = "down" THEN exits ELSE exits \cup {w}

\* A worker that has booted closes, and gives the lock back first; any other exits.
Stop(w) ==
  /\ w \in told /\ phase[w] \in {"forked", "boot", "connect", "ready", "hung"}
  /\ \/ /\ phase[w] \in {"connect", "ready"} /\ Goto(w, "closing")
        /\ lock' = IF w \in held /\ lock = <<w, TRUE>> THEN NoLock ELSE lock
        /\ UNCHANGED <<held, robbed, spine, commits, told, exits>>
     \/ phase[w] \notin {"connect", "ready"} /\ Gone(w) /\ UNCHANGED lock
  /\ UNCHANGED <<supervisor, mail, launches, faults>>

Closed(w) ==
  /\ phase[w] = "closing" /\ Gone(w)
  /\ UNCHANGED <<lock, supervisor, mail, launches, faults>>

Dies(w) ==
  /\ Fault /\ Live(w) /\ Gone(w)
  /\ UNCHANGED <<lock, supervisor, mail, launches>>

-----------------------------------------------------------------------------
(* The app and its supervisor *)

\* The operating system gives a pid that is free.
Fork(w) ==
  /\ ~Live(w) /\ w \notin exits /\ Goto(w, "forked")
  /\ child' = w /\ sup' = "starting"

\* The app may be opened while a worker of an earlier one still runs or closes.
Launch ==
  /\ main = "down" /\ launches < MaxLaunches /\ launches' = launches + 1
  /\ main' = "up" /\ stopped' = FALSE /\ timer' = FALSE /\ crashes' = 0
  /\ \E w \in Pids : Fork(w)
  /\ UNCHANGED <<file, told, mail, exits, faults>>

\* (mutant) A boot that failed is tried again.
HearRetrying ==
  \E w \in Pids, k \in {"ready", "error"} :
    /\ <<w, k>> \in mail /\ mail' = mail \ {<<w, k>>} /\ main # "down"
    /\ sup' = IF k = "ready" THEN "ready" ELSE sup
    /\ timer' = (timer \/ (k = "error" /\ ~stopped))
    /\ UNCHANGED <<file, phase, told, main, child, stopped, crashes, exits, launches, faults>>

\* Whoever sends "ready", and whenever it is heard; an error is only logged.
Hear ==
  \E w \in Pids, k \in {"ready", "error"} :
    /\ <<w, k>> \in mail /\ mail' = mail \ {<<w, k>>} /\ main # "down"
    /\ sup' = IF k = "ready" THEN "ready" ELSE sup
    /\ UNCHANGED <<file, phase, told, main, child, stopped, timer, crashes, exits, launches, faults>>

\* (mutant) Only a worker that had come up is started again.
HearExitOfReady(w) ==
  /\ w \in exits /\ main # "down" /\ exits' = exits \ {w}
  /\ \/ (stopped \/ w # child \/ sup # "ready") /\ UNCHANGED supervisor
     \/ /\ ~stopped /\ w = child /\ sup = "ready" /\ crashes' = crashes + 1
        /\ \/ crashes' >= Threshold /\ stopped' = TRUE /\ child' = NoChild
              /\ sup' = "worker_down" /\ UNCHANGED timer
           \/ crashes' < Threshold /\ sup' = "starting" /\ timer' = TRUE
              /\ UNCHANGED <<child, stopped>>
        /\ UNCHANGED main
  /\ UNCHANGED <<file, phase, told, mail, launches, faults>>

\* The exit of its own child: one more start after a while, or none.
HearExit(w) ==
  /\ w \in exits /\ main # "down" /\ exits' = exits \ {w}
  /\ \/ (stopped \/ w # child) /\ UNCHANGED supervisor
     \/ /\ ~stopped /\ w = child /\ crashes' = crashes + 1
        /\ \/ crashes' >= Threshold /\ stopped' = TRUE /\ child' = NoChild
              /\ sup' = "worker_down" /\ UNCHANGED timer
           \/ crashes' < Threshold /\ sup' = "starting" /\ timer' = TRUE
              /\ UNCHANGED <<child, stopped>>
        /\ UNCHANGED main
  /\ UNCHANGED <<file, phase, told, mail, launches, faults>>

\* The oldest crash leaves the window.
Forget ==
  /\ crashes > 0 /\ ~stopped /\ crashes' = crashes - 1
  /\ UNCHANGED <<file, phase, told, main, sup, child, stopped, timer, mail, exits, launches, faults>>

Restart ==
  /\ timer /\ timer' = FALSE /\ ~stopped
  /\ \E w \in Pids : Fork(w)
  /\ UNCHANGED <<file, told, main, stopped, crashes, mail, exits, launches, faults>>

\* The owner quits: the timer is cancelled and the child asked to stop.
Quit ==
  /\ main = "up" /\ main' = "quitting" /\ stopped' = TRUE /\ sup' = "stopped"
  /\ timer' = FALSE /\ child' = NoChild
  /\ told' = told \cup {w \in Pids : w = child /\ Live(w)}
  /\ UNCHANGED <<file, phase, crashes, mail, exits, launches, faults>>

\* The app is gone, by a quit or a crash: the channels close and nobody listens.
MainGone ==
  /\ main # "down" /\ main' = "down"
  /\ \/ main = "quitting" /\ UNCHANGED faults
     \/ main = "up" /\ Fault
  /\ told' = {w \in Pids : Live(w)}
  /\ child' = NoChild /\ timer' = FALSE /\ mail' = {} /\ exits' = {}
  /\ UNCHANGED <<file, phase, sup, stopped, crashes, launches>>

Work(w) == Open(w) \/ ReadHolder(w) \/ Unlink(w) \/ WriteHolder(w) \/ Boot(w) \/ Connect(w)
           \/ Stop(w) \/ Closed(w)
Supervise == Hear \/ (\E w \in Pids : HearExit(w)) \/ Restart

Next ==
  \/ \E w \in Pids : Work(w) \/ SpineFails(w) \/ Commit(w) \/ Committed(w) \/ Dies(w)
  \/ Supervise \/ Forget
  \/ Launch \/ Quit \/ MainGone

\* A process runs, signals and messages arrive, a timer fires, and an app that
\* quits is gone in the end.
Spec == /\ Init /\ [][Next]_vars
        /\ \A w \in Pids : WF_vars(Work(w))
        /\ WF_vars(Supervise) /\ WF_vars(MainGone /\ main = "quitting")

-----------------------------------------------------------------------------
(* Properties *)

\* Of the workers nobody has asked to stop, there is one: the supervisor starts
\* another one only when its child is gone (worker-supervisor.ts), and an app that
\* goes takes its channel with it (worker-host/index.ts).
OneStanding ==
  \A v, w \in Pids : Live(v) /\ Live(w) /\ {v, w} \cap told = {} => v = w

\* However launches overlap, the lock file names every worker that believes to hold it,
\* until it closes, so that the fence, which asks the outcome of the boot only
\* (writeFenceProbe.ts), tells the truth.  The one exception is a worker whose file
\* another one removed: between its look at a dead holder's file and the removal
\* (singleOwnerLock.ts:88-98) the file may have become a living worker's.
LockIsOwn ==
  \A w \in held : phase[w] # "closing" /\ w \notin robbed => lock = <<w, TRUE>>

\* A second worker is "PHYSICALLY refused" (boot.ts:3297): two at a time are past the
\* fence with a commit only when one of them closes, which gives the lock back before
\* it stops committing, or has been robbed of its file.
OneWriter ==
  \A v, w \in commits : v = w \/ {v, w} \cap robbed # {} \/ "closing" \in {phase[v], phase[w]}

\* Nobody is left behind: the app is closed, or starts no more workers, or has one that
\* booted, and shows it as ready if it said so.  (An app that gave up may show anything:
\* the "ready" of a dead worker, heard last, stands over worker_down.)
AtRest ==
  /\ \A w \in Pids : Live(w) => w = child /\ phase[w] \in {"connect", "ready"}
  /\ main = "up" => stopped \/ \E w \in Pids : Live(w)
  /\ \A w \in Pids : phase[w] = "ready" => sup = "ready"

\* The child's boot failed: it lives on and nothing ends it, though a worker that can
\* never start is to end in worker_down (worker-supervisor.ts:94-102).
Hangs == child \in Pids /\ phase[child] = "hung"

\* In the end everything is at rest, or hangs in that one way: no exit, message or
\* timer that comes late leaves the app without a worker or with one of another launch.
OwnershipSettles == <>[]AtRest \/ <>[]Hangs
=============================================================================
