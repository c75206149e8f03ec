------------------------------ MODULE LaunchTree ------------------------------
(***************************************************************************)
(* Autoware's launch trees: launch_autoware.sh starts a tree in the        *)
(* background, records its root in a pid file and, best effort, the root's *)
(* command line in a sidecar; stop_launch_tree.sh reads both and takes the *)
(* tree down.  Beside the two scripts the container's processes start,     *)
(* fork, exit and reuse each other's pids as they like.                    *)
(*                                                                         *)
(* A signal has no effect of its own here: a process may end or survive    *)
(* whatever it is sent (SIGINT is ignored by a nohup'ed root, SIGKILL does *)
(* not reach a process stuck in the kernel), so every death is free, and   *)
(* what a signal leaves is the record of whom it struck.  A zombie is      *)
(* dead: alive() says so.                                                  *)
(***************************************************************************)
EXTENDS Integers, FiniteSets

CONSTANTS
  Pids,        \* the pids of the container
  Files,       \* the pid files, numbered in the order --stop takes them
  Maps,        \* what two launches' command lines may differ in
  MaxLaunches, \* bound: launches
  MaxStops     \* bound: runs of --stop

NoPid == "absent"
Junk == "junk"

ASSUME LaunchConstants ==
  /\ IsFiniteSet(Pids)
  /\ NoPid \notin Pids
  /\ Junk \notin Pids
  /\ Files \in Nat \ {0}
  /\ MaxLaunches \in Nat
  /\ MaxStops \in Nat

(* Command lines: of a root before and after nohup's exec, of any other    *)
(* process of a launch, of a stranger; and the kernel's own.               *)
Stages == {"forked", "running"}
RootCmd(s, f, m) == [kind |-> s, file |-> f, map |-> m]
RootCmds(f) == {RootCmd(s, f, m) : s \in Stages, m \in Maps}
NodeCmd == [kind |-> "node"]
OtherCmd == [kind |-> "other"]
KernelCmd == [kind |-> "kernel"]
NoCmd == [kind |-> "none"]
Cmds == (UNION {RootCmds(f) : f \in 1..Files}) \cup {NodeCmd, OtherCmd}

VARIABLES
  up,        \* pids of live processes
  parent,    \* their parents, NoPid for pid 1
  owner,     \* the launch they belong to, 0 for a stranger
  cmd,       \* /proc/<pid>/cmdline
  launches,  \* launches so far
  pidfile,   \* per file: a pid, Junk when it is empty, NoPid when there is none
  sidecar,   \* per file: <pidfile>.cmd
  polling,   \* the file a launch is still polling for, 0 for none
  steady,    \* the command line that the poll read last
  pc,        \* stop_launch_tree.sh: where it is
  file,      \* the pid file it works on
  tree,      \* the recorded root's descendants
  rung,      \* the rung of the signal ladder
  left,      \* the processes that the wait in progress is for
  totalLeft, \* TOTAL_LEFT
  skipped,   \* TOTAL_SKIPPED
  heading,   \* the last summary line
  stops,     \* runs of --stop
  current,   \* history: the launch each pid file was last written for
  over,      \* history: files a launch wrote over, their sidecar not rewritten since
  late,      \* history: files whose sidecar was written without a pid file
  guarded,   \* history: a command line was compared for this file
  taken,     \* history: pids given to a new process since the stop began
  swept,     \* history: processes of this stop's snapshots that still live
  stranger,  \* history: a guarded ladder struck a process of something else
  wrongSkip  \* history: why live, recorded roots have been skipped

procs == <<up, parent, owner, cmd, taken>>
files == <<pidfile, sidecar, current, over, late>>
launch == <<launches, polling, steady>>
counts == <<totalLeft, skipped>>
past == <<stranger, wrongSkip>>
ladder == <<tree, rung, left>>
vars == <<procs, swept, launch, files, pc, file, ladder, counts, heading, stops, guarded,
          past>>

Steps == {"idle", "read", "snapshot", "root", "wait", "ladder", "summary"}
Rungs == {"root", "INT", "TERM", "KILL", "over"}
Excuses == {"over", "late", "forked", "none"}

TypeOK ==
  /\ up \subseteq Pids
  /\ parent \in [Pids -> Pids \cup {NoPid}]
  /\ owner \in [Pids -> 0..MaxLaunches]
  /\ cmd \in [Pids -> Cmds]
  /\ launches \in 0..MaxLaunches
  /\ pidfile \in [1..Files -> Pids \cup {NoPid, Junk}]
  /\ sidecar \in [1..Files -> Cmds \cup {KernelCmd, NoCmd}]
  /\ polling \in 0..Files
  /\ steady \in Cmds \cup {KernelCmd, NoCmd}
  /\ pc \in Steps
  /\ file \in 1..(Files + 1)
  /\ tree \subseteq Pids
  /\ rung \in Rungs
  /\ left \subseteq Pids
  /\ totalLeft \in Nat
  /\ skipped \in 0..Files
  /\ heading \in {"none", "stopped", "not_stopped"}
  /\ stops \in 0..MaxStops
  /\ current \in [1..Files -> 0..MaxLaunches]
  /\ over \subseteq 1..Files
  /\ late \subseteq 1..Files
  /\ guarded \in BOOLEAN
  /\ taken \subseteq Pids
  /\ swept \subseteq Pids
  /\ stranger \in BOOLEAN
  /\ wrongSkip \subseteq Excuses

Init ==
  /\ up = {}
  /\ parent = [p \in Pids |-> NoPid]
  /\ owner = [p \in Pids |-> 0]
  /\ cmd = [p \in Pids |-> OtherCmd]
  /\ launches = 0
  /\ pidfile = [f \in 1..Files |-> NoPid]
  /\ sidecar = [f \in 1..Files |-> NoCmd]
  /\ polling = 0
  /\ steady = NoCmd
  /\ pc = "idle"
  /\ file = 1
  /\ tree = {}
  /\ rung = "root"
  /\ left = {}
  /\ totalLeft = 0
  /\ skipped = 0
  /\ heading = "none"
  /\ stops = 0
  /\ current = [f \in 1..Files |-> 0]
  /\ over = {}
  /\ late = {}
  /\ guarded = FALSE
  /\ taken = {}
  /\ swept = {}
  /\ stranger = FALSE
  /\ wrongSkip = {}

-------------------------------------------------------------------------------
(* The container's processes.                                              *)

(* A process begins under a free pid; not under the one that a launch is   *)
(* polling, which would have to come round again within its five seconds.  *)
Begins(p, par, own, line) ==
  /\ p \notin up
  /\ polling # 0 => p # pidfile[polling]
  /\ up' = up \cup {p}
  /\ parent' = [parent EXCEPT ![p] = par]
  /\ owner' = [owner EXCEPT ![p] = own]
  /\ cmd' = [cmd EXCEPT ![p] = line]
  /\ taken' = taken \cup {p}

script == <<launch, files, pc, file, ladder, counts, heading, stops, guarded, past>>

(* A process of a launch, or a stranger, forks.                            *)
Fork(p, q) ==
  /\ p \in up
  /\ Begins(q, p, owner[p], IF owner[p] = 0 THEN OtherCmd ELSE NodeCmd)
  /\ UNCHANGED <<swept, script>>

(* An unrelated process.                                                   *)
Stranger(q) ==
  /\ Begins(q, NoPid, 0, OtherCmd)
  /\ UNCHANGED <<swept, script>>

(* A process ends, for whatever reason; its children go to pid 1.          *)
Dies(p) ==
  /\ p \in up
  /\ up' = up \ {p}
  /\ parent' = [q \in Pids |-> IF p \in {q, parent[q]} THEN NoPid ELSE parent[q]]
  /\ owner' = [owner EXCEPT ![p] = 0]
  /\ cmd' = [cmd EXCEPT ![p] = OtherCmd]
  /\ swept' = swept \ {p}
  /\ UNCHANGED <<taken, script>>

(* nohup has become ros2.                                                  *)
Exec(p) ==
  /\ p \in up
  /\ \E f \in 1..Files, m \in Maps :
       /\ cmd[p] = RootCmd("forked", f, m)
       /\ cmd' = [cmd EXCEPT ![p] = RootCmd("running", f, m)]
  /\ UNCHANGED <<up, parent, owner, taken, swept, script>>

-------------------------------------------------------------------------------
(* launch_autoware.sh.  An interrupted `docker compose exec` leaves the    *)
(* container side running, so the poll and a --stop may overlap.           *)

stopping == <<swept, pc, file, ladder, counts, heading, stops, guarded, past>>

(* nohup ros2 launch ... & echo $! >"$AW_PIDFILE"; the sidecar of an       *)
(* earlier launch is not touched.  The write may fail and leave the file   *)
(* empty.  Only the poll overlaps with a stop: nobody brings a stack up    *)
(* while it is taken down.  So nobody reads the file between the fork and  *)
(* the write, and what the root does in between -- exec, fork, end, with   *)
(* its pid kept by the shell that has not waited for it -- may as well     *)
(* come after: the two are one step.                                       *)
Launch(f, m, p) ==
  /\ pc = "idle"
  /\ polling = 0
  /\ launches < MaxLaunches
  /\ launches' = launches + 1
  /\ Begins(p, NoPid, launches', RootCmd("forked", f, m))
  /\ \/ pidfile' = [pidfile EXCEPT ![f] = p]
     \/ pidfile' = [pidfile EXCEPT ![f] = Junk]
  /\ over' = IF pidfile[f] = NoPid THEN over ELSE over \cup {f}
  /\ current' = [current EXCEPT ![f] = launches']
  /\ polling' = f
  /\ steady' = NoCmd
  /\ UNCHANGED <<sidecar, late, stopping>>

(* The poll reads the command line of the pid in the file.  Without one it *)
(* reads /proc//cmdline, which is the kernel's.                            *)
PollRead ==
  /\ polling # 0
  /\ steady' = IF pidfile[polling] \in {NoPid, Junk} THEN KernelCmd
               ELSE IF pidfile[polling] \in up THEN cmd[pidfile[polling]] ELSE NoCmd
  /\ UNCHANGED <<procs, launches, polling, files, stopping>>

(* The reading has been steady for two seconds: it is written.             *)
PollWrite ==
  /\ polling # 0
  /\ steady # NoCmd
  /\ sidecar' = [sidecar EXCEPT ![polling] = steady]
  /\ over' = over \ {polling}
  /\ late' = IF pidfile[polling] = NoPid THEN late \cup {polling} ELSE late \ {polling}
  /\ UNCHANGED <<procs, launch, pidfile, current, stopping>>

(* Fifty polls are over.                                                   *)
PollEnds ==
  /\ polling # 0
  /\ polling' = 0
  /\ steady' = NoCmd
  /\ UNCHANGED <<procs, launches, files, stopping>>

-------------------------------------------------------------------------------
(* stop_launch_tree.sh.                                                    *)

world == <<procs, launch>>
root == pidfile[file]

(* descendants(): what the root's children lead to, from one scan.         *)
Descendants(r) ==
  {q \in Pids : \A S \in SUBSET Pids :
     (\A p \in up : parent[p] = r \/ parent[p] \in S => p \in S) => q \in S}

(* rm -f "$pf" "$pf.cmd".                                                  *)
Remove ==
  /\ pidfile' = [pidfile EXCEPT ![file] = NoPid]
  /\ sidecar' = [sidecar EXCEPT ![file] = NoCmd]
  /\ over' = over \ {file}
  /\ late' = late \ {file}
  /\ UNCHANGED current

\* Mutant: a tree that is gone after the first SIGINT leaves its sidecar.
RemovePidFile ==
  /\ pidfile' = [pidfile EXCEPT ![file] = NoPid]
  /\ over' = over \ {file}
  /\ late' = late \ {file}
  /\ UNCHANGED <<sidecar, current>>

RemoveAfterInt == Remove

(* On to the next pid file, or to the summary.                             *)
NextFile ==
  /\ file' = file + 1
  /\ pc' = IF file = Files THEN "summary" ELSE "read"
  /\ tree' = {} /\ rung' = "root" /\ left' = {}
  /\ guarded' = FALSE

StopBegins ==
  /\ pc = "idle"
  /\ stops < MaxStops
  /\ stops' = stops + 1
  /\ pc' = "read" /\ file' = 1
  /\ totalLeft' = 0 /\ skipped' = 0
  /\ taken' = {} /\ swept' = {}
  /\ UNCHANGED <<up, parent, owner, cmd, launch, files, ladder, heading, guarded, past>>

(* Nothing to stop: no pid file, no pid in it, or no process under it.     *)
NothingRecorded ==
  /\ pc = "read"
  /\ root \notin up
  /\ Remove
  /\ NextFile
  /\ UNCHANGED <<world, swept, counts, heading, stops, past>>

Mismatch == sidecar[file] # NoCmd /\ sidecar[file] # cmd[root]

(* How the sidecar of a live, recorded root came to differ from it.        *)
Excuse == IF sidecar[file].kind = "forked" THEN "forked"
          ELSE IF file \in over THEN "over" ELSE IF file \in late THEN "late" ELSE "none"

(* The pid-reuse guard: nothing is touched.                                *)
SkipReused ==
  /\ pc = "read"
  /\ root \in up
  /\ Mismatch
  /\ skipped' = skipped + 1
  /\ wrongSkip' = wrongSkip \cup
       {e \in Excuses : owner[root] = current[file] /\ cmd[root] # NodeCmd /\ e = Excuse}
  /\ NextFile
  /\ UNCHANGED <<world, swept, files, totalLeft, heading, stops, stranger>>

\* Mutant: the command lines are not compared.
AcceptsAny ==
  /\ pc = "read"
  /\ root \in up
  /\ guarded' = (sidecar[file] # NoCmd)
  /\ pc' = "snapshot"
  /\ UNCHANGED <<world, swept, files, file, ladder, counts, heading, stops, past>>

(* The root is the one recorded, or there is no sidecar to tell.           *)
Accept ==
  /\ pc = "read"
  /\ root \in up
  /\ ~Mismatch
  /\ guarded' = (sidecar[file] # NoCmd)
  /\ pc' = "snapshot"
  /\ UNCHANGED <<world, swept, files, file, ladder, counts, heading, stops, past>>

(* scan_proc and descendants, before the first signal.                     *)
Snapshot ==
  /\ pc = "snapshot"
  /\ tree' = Descendants(root)
  /\ swept' = swept \cup (({root} \cup tree') \cap up)
  /\ rung' = "root"
  /\ left' = {root} \cup tree'
  /\ pc' = "root"
  /\ UNCHANGED <<world, files, file, counts, heading, stops, guarded, past>>

(* survivors "$pid" "${tree[@]}"                                           *)
Survivors == ({root} \cup tree) \cap up

(* A signal: whom it struck, if the command line had been compared, and    *)
(* the process was there when the stop began.                              *)
Strikes(pids) ==
  stranger' = (stranger \/ (guarded /\ \E p \in (pids \cap up) \ taken : owner[p] # current[file]))

(* Rung 1: SIGINT to the root alone.                                       *)
IntRoot ==
  /\ pc = "root"
  /\ Strikes({root})
  /\ pc' = "wait"
  /\ UNCHANGED <<world, swept, files, file, ladder, counts, heading, stops, guarded, wrongSkip>>

(* wait_gone sees the whole tree gone after the SIGINT to the root.        *)
GoneAfterInt ==
  /\ pc = "wait"
  /\ rung = "root"
  /\ left \cap up = {}
  /\ RemoveAfterInt
  /\ NextFile
  /\ UNCHANGED <<world, swept, counts, heading, stops, past>>

NextRung(r) == CASE r = "root" -> "INT" [] r = "INT" -> "TERM" [] r = "TERM" -> "KILL"
                 [] OTHER -> "over"

(* The wait ends: what it waited for is gone or the time is up.            *)
WaitEnds ==
  /\ pc = "wait"
  /\ \/ /\ rung # "root" /\ left \cap up = {}
        /\ rung' = "over"
     \/ rung' = NextRung(rung)
  /\ pc' = "ladder"
  /\ UNCHANGED <<world, swept, files, file, tree, left, counts, heading, stops, guarded, past>>

(* Rungs 2-4: the signal goes to whoever of the snapshot is still there.   *)
Signal ==
  /\ pc = "ladder"
  /\ rung # "over"
  /\ Survivors # {}
  /\ Strikes(Survivors)
  /\ left' = Survivors
  /\ pc' = "wait"
  /\ UNCHANGED <<world, swept, files, file, tree, rung, counts, heading, stops, guarded,
                 wrongSkip>>

LadderOver == pc = "ladder" /\ (rung = "over" \/ Survivors = {})

(* The tree is gone.                                                       *)
TreeGone ==
  /\ LadderOver
  /\ Survivors = {}
  /\ Remove
  /\ NextFile
  /\ UNCHANGED <<world, swept, counts, heading, stops, past>>

\* Mutant: the survivors of the last file only.
TreeSurvivesCountsLast ==
  /\ LadderOver
  /\ Survivors # {}
  /\ totalLeft' = IF file = Files THEN Cardinality(Survivors) ELSE 0
  /\ NextFile
  /\ UNCHANGED <<world, swept, files, skipped, heading, stops, past>>

(* Survivors: reported, and both files kept.                               *)
TreeSurvives ==
  /\ LadderOver
  /\ Survivors # {}
  /\ totalLeft' = totalLeft + Cardinality(Survivors)
  /\ NextFile
  /\ UNCHANGED <<world, swept, files, skipped, heading, stops, past>>

(* The one line that a reader trusts.                                      *)
Summary ==
  /\ pc = "summary"
  /\ heading' = IF totalLeft > 0 \/ skipped > 0 THEN "not_stopped" ELSE "stopped"
  /\ pc' = "idle"
  /\ UNCHANGED <<world, swept, files, file, ladder, counts, stops, guarded, past>>

-------------------------------------------------------------------------------
Container ==
  \/ \E p, q \in Pids : Fork(p, q)
  \/ \E q \in Pids : Stranger(q)
  \/ \E p \in Pids : Dies(p)
  \/ \E p \in Pids : Exec(p)

Launching ==
  \/ \E f \in 1..Files, m \in Maps, p \in Pids : Launch(f, m, p)
  \/ PollRead \/ PollWrite \/ PollEnds

Stopping ==
  \/ StopBegins \/ NothingRecorded \/ SkipReused \/ Accept \/ Snapshot \/ IntRoot
  \/ GoneAfterInt \/ WaitEnds \/ Signal \/ TreeGone \/ TreeSurvives \/ Summary

Next == Container \/ Launching \/ Stopping

Spec == Init /\ [][Next]_vars

-------------------------------------------------------------------------------
(* Properties.                                                             *)

(* stop_launch_tree.sh:56-61, 66-84: "bounded to what was launched".  When *)
(* there is a sidecar to compare with, nothing that was running when the   *)
(* stop began is signalled unless it belongs to the recorded launch --     *)
(* whatever was forked, died and had its pid reused since.                 *)
OnlyTheRecordedTree == ~stranger

(* stop_launch_tree.sh:424-468: "stopped" is only said when every process  *)
(* that was in a snapshot is dead, over all pid files.                     *)
StoppedIsTrue == pc = "idle" /\ heading = "stopped" => swept = {}

(* stop_launch_tree.sh:86-106, the sidecar invariant: a launch that is     *)
(* there to be stopped is skipped only when it was started over files that *)
(* were still there, when a poll wrote behind a stop's back, or when the   *)
(* sidecar still holds the command line from before nohup's exec.          *)
SkipsOnlyLeftovers == "none" \notin wrongSkip
===============================================================================
