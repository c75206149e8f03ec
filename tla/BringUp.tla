-------------------------------- MODULE BringUp --------------------------------
(***************************************************************************)
(* scripts/e2e/run_e2e.sh with the readiness poll of launch_autoware.sh:   *)
(* CARLA, then Autoware, then the ego.  Autoware's carla_interface loads   *)
(* the world once at its start, which wipes whatever has been spawned.     *)
(*                                                                         *)
(* The harness is run again and again, one run at a time; a run may be     *)
(* killed and leave its processes and its pid file to the next.  Run r     *)
(* starts CARLA r and launches stack r.  The spawning and the teardown of  *)
(* the ego are Runner's, the stop of a launch is LaunchTree's.             *)
(***************************************************************************)
EXTENDS Integers

CONSTANTS
  Runs,       \* how many runs there are
  PortWait,   \* polls for the port to be released (60)
  BindWait,   \* polls for CARLA to bind it (120)
  ReadyPolls, \* polls for the stack to settle (READY_TIMEOUT_S / 3)
  TermWait    \* polls for CARLA to obey SIGTERM (30)

ASSUME BringUpConstants == {Runs, PortWait, BindWait, ReadyPolls, TermWait} \subseteq Nat \ {0}

Run == 1..Runs

VARIABLES
  run,      \* the run under way
  pc,       \* where it is
  elapsed,  \* the counter of the loop it is in
  autoware, \* WITH_AUTOWARE
  ready,    \* consecutive_ready
  pidfile,  \* the CARLA that CARLA_PID_FILE names, 0: no file
  alive,    \* CARLAs that run
  port,     \* who holds port 2000, 0: nobody
  stack,    \* launches with all their nodes up
  iface,    \* the launches' carla_interface: none, unborn, alive, gone
  ego,      \* the CARLA that the runner of this run has its ego on, 0: none
  wiped,    \* a world was loaded under that ego
  past      \* history: see Past

vars == <<run, pc, elapsed, autoware, ready, pidfile, alive, port, stack, iface, ego, wiped, past>>
world == <<alive, port, stack, iface>>

(* Of this run: was the port's holder warned of; did an older CARLA bind   *)
(* it afterwards; was an older launch still there when it started; did     *)
(* its carla_interface come after its other nodes; polls in a row that     *)
(* missed one.  Of all runs: the ones that were killed, the ones that left *)
(* after the trap and without a pid file of their own, whom they struck,   *)
(* and the CARLAs that were sent SIGKILL.                                  *)
Past == [warned : BOOLEAN, outrun : BOOLEAN, leftover : BOOLEAN, slow : BOOLEAN, missed : 0..3,
         killed : SUBSET Run, early : SUBSET Run, struck : SUBSET (Run \X Run),
         doomed : SUBSET Run]

Init ==
  /\ run = 1
  /\ pc = "preflight"
  /\ elapsed = 0
  /\ autoware \in BOOLEAN
  /\ ready = 0
  /\ pidfile = 0
  /\ alive = {}
  /\ port = 0
  /\ stack = {}
  /\ iface = [r \in Run |-> "none"]
  /\ ego = 0
  /\ wiped = FALSE
  /\ past = [warned |-> FALSE, outrun |-> FALSE, leftover |-> FALSE, slow |-> FALSE, missed |-> 0,
             killed |-> {}, early |-> {}, struck |-> {}, doomed |-> {}]

Goto(l) == pc' = l /\ elapsed' = 0
Tick(bound) == /\ elapsed < bound
               /\ elapsed' = elapsed + 1
               /\ UNCHANGED pc

-------------------------------------------------------------------------------
(* run_e2e.sh up to the port.                                              *)

Preflight ==
  /\ pc = "preflight"
  /\ \/ Goto("port")
     \/ Goto("done")
  /\ UNCHANGED <<run, autoware, ready, pidfile, world, ego, wiped, past>>

\* Mutant: the port is not looked at again when the time is up.
AwaitReleaseQuietly ==
  /\ pc = "port"
  /\ \/ port # 0 /\ Tick(PortWait)
     \/ (port = 0 \/ elapsed = PortWait) /\ Goto("boot")
  /\ UNCHANGED <<run, autoware, ready, pidfile, world, ego, wiped, past>>

(* The port is waited for, but not to the end: there is only a warning.    *)
AwaitRelease ==
  /\ pc = "port"
  /\ \/ /\ port # 0
        /\ Tick(PortWait)
        /\ UNCHANGED past
     \/ /\ port = 0 \/ elapsed = PortWait
        /\ past' = [past EXCEPT !.warned = (port # 0)]
        /\ Goto("boot")
  /\ UNCHANGED <<run, autoware, ready, pidfile, world, ego, wiped>>

(* The trap stands; CARLA is started, and then its pid is written.         *)
Boot ==
  /\ pc = "boot"
  /\ alive' = alive \cup {run}
  /\ Goto("pid")
  /\ UNCHANGED <<run, autoware, ready, pidfile, port, stack, iface, ego, wiped, past>>

\* Mutant: a pid file that is there is kept.
WritePidOnce ==
  /\ pc = "pid"
  /\ pidfile' = IF pidfile = 0 THEN run ELSE pidfile
  /\ Goto("bind")
  /\ UNCHANGED <<run, autoware, ready, world, ego, wiped, past>>

(* A pid that cannot be written leaves the file as it was, or empty, which *)
(* names nobody; the script ends there, and its trap runs.                 *)
WritePid ==
  /\ pc = "pid"
  /\ \/ /\ pidfile' = run
        /\ Goto("bind")
        /\ UNCHANGED past
     \/ /\ pidfile' \in {pidfile, 0}
        /\ past' = [past EXCEPT !.early = @ \cup {run}]
        /\ Goto("stop")
  /\ UNCHANGED <<run, autoware, ready, world, ego, wiped>>

(* The port is bound -- by whom is not asked -- or this took too long.     *)
AwaitBind ==
  /\ pc = "bind"
  /\ \/ port # 0 /\ Goto(IF autoware THEN "launch" ELSE "runner")
     \/ port = 0 /\ Tick(BindWait)
     \/ port = 0 /\ elapsed = BindWait /\ Goto("stop")
  /\ UNCHANGED <<run, autoware, ready, pidfile, world, ego, wiped, past>>

-------------------------------------------------------------------------------
(* launch_autoware.sh.                                                     *)

(* Its preflights, of which the port is one; then the stack is started.    *)
Launch ==
  /\ pc = "launch"
  /\ \/ /\ port # 0
        /\ iface' = [iface EXCEPT ![run] = "unborn"]
        /\ ready' = 0
        /\ Goto("poll")
     \/ Goto("stop") /\ UNCHANGED <<iface, ready>>
  /\ UNCHANGED <<run, autoware, pidfile, alive, port, stack, ego, wiped, past>>

\* Mutant: the polls need not be consecutive.
CountAny(ok) == IF ok THEN ready + 1 ELSE ready

(* consecutive_ready.                                                      *)
Count(ok) == IF ok THEN ready + 1 ELSE 0

\* Mutant: the time starts again when the count does.
PollTimeUnready(ok) == IF ok THEN elapsed + 1 ELSE 0

PollTime(ok) == elapsed + 1

Settled(n) == n >= 3

(* One poll: are enough nodes listed, and is no carla_interface?  A list   *)
(* may miss one that is there.                                             *)
Poll(missed) ==
  /\ pc = "poll"
  /\ elapsed < ReadyPolls
  /\ LET there == \E k \in Run : iface[k] = "alive"
         ok == stack # {} /\ (~there \/ missed)
     IN  /\ missed => there
         /\ ready' = Count(ok)
         /\ past' = [past EXCEPT !.missed = IF ok /\ missed THEN @ + 1 ELSE 0]
         /\ IF Settled(ready') THEN Goto("runner")
                          ELSE elapsed' = PollTime(ok) /\ UNCHANGED pc
  /\ UNCHANGED <<run, autoware, pidfile, world, ego, wiped>>

PollsOver ==
  /\ pc = "poll"
  /\ elapsed = ReadyPolls
  /\ Goto("stop")
  /\ UNCHANGED <<run, autoware, ready, pidfile, world, ego, wiped, past>>

-------------------------------------------------------------------------------
(* The runner, and the EXIT trap.                                          *)

(* It connects to whoever holds the port, and has its ego there.           *)
StartRunner ==
  /\ pc = "runner"
  /\ port # 0
  /\ ego' = port
  /\ Goto("drive")
  /\ UNCHANGED <<run, autoware, ready, pidfile, world, wiped, past>>

(* It ends, and has destroyed its ego; or it could not connect.            *)
RunnerEnds ==
  /\ pc \in {"runner", "drive"}
  /\ ego' = 0
  /\ Goto("stop")
  /\ UNCHANGED <<run, autoware, ready, pidfile, world, wiped, past>>

(* SIGINT or SIGTERM once the trap stands.  A second one, while the trap   *)
(* runs, ends it where it is: that is Killed.                              *)
Signal ==
  /\ pc \in {"boot", "pid", "bind", "launch", "poll", "runner", "drive"}
  /\ past' = [past EXCEPT !.early = IF pc \in {"boot", "pid"} THEN @ \cup {run} ELSE @]
  /\ Goto("stop")
  /\ UNCHANGED <<run, autoware, ready, pidfile, world, ego, wiped>>

(* cleanup: launch_autoware.sh --stop stops the latest launch, if it can.  *)
StopLaunch ==
  /\ pc = "stop"
  /\ \/ /\ autoware
        /\ \E k \in Run : /\ iface[k] # "none"
                          /\ \A j \in Run : j > k => iface[j] = "none"
                          /\ iface' = [iface EXCEPT ![k] = "none"]
                          /\ stack' = stack \ {k}
     \/ UNCHANGED <<stack, iface>>
  /\ Goto("term")
  /\ UNCHANGED <<run, autoware, ready, pidfile, alive, port, ego, wiped, past>>

(* SIGTERM to what the pid file names, if that runs.                       *)
Term ==
  /\ pc = "term"
  /\ IF pidfile \in alive
     THEN /\ past' = [past EXCEPT !.struck = @ \cup {<<run, pidfile>>}]
          /\ Goto("wait")
     ELSE /\ Goto("rm")
          /\ UNCHANGED past
  /\ UNCHANGED <<run, autoware, ready, pidfile, world, ego, wiped>>

\* Mutant: no SIGKILL.
AwaitDeathOnly ==
  /\ pc = "wait"
  /\ \/ pidfile \in alive /\ Tick(TermWait)
     \/ (pidfile \notin alive \/ elapsed = TermWait) /\ Goto("rm")
  /\ UNCHANGED <<run, autoware, ready, pidfile, world, ego, wiped, past>>

(* SIGKILL is sent and not waited for: CARLA is gone when CarlaDies.       *)
AwaitDeath ==
  /\ pc = "wait"
  /\ \/ pidfile \in alive /\ Tick(TermWait) /\ UNCHANGED past
     \/ pidfile \notin alive /\ Goto("rm") /\ UNCHANGED past
     \/ /\ pidfile \in alive /\ elapsed = TermWait
        /\ past' = [past EXCEPT !.doomed = @ \cup {pidfile}]
        /\ Goto("rm")
  /\ UNCHANGED <<run, autoware, ready, pidfile, world, ego, wiped>>

RemovePidFile ==
  /\ pc = "rm"
  /\ pidfile' = 0
  /\ Goto("done")
  /\ UNCHANGED <<run, autoware, ready, world, ego, wiped, past>>

(* SIGKILL to the harness, or any signal before the trap stands or while   *)
(* it runs.                                                                *)
Killed ==
  /\ pc # "done"
  /\ past' = [past EXCEPT !.killed = @ \cup {run}]
  /\ Goto("done")
  /\ UNCHANGED <<run, autoware, ready, pidfile, world, ego, wiped>>

(* The harness is started again.                                           *)
NextRun ==
  /\ pc = "done"
  /\ run < Runs
  /\ run' = run + 1
  /\ Goto("preflight")
  /\ autoware' \in BOOLEAN
  /\ ready' = 0
  /\ ego' = 0
  /\ wiped' = FALSE
  /\ past' = [past EXCEPT !.warned = FALSE, !.outrun = FALSE, !.slow = FALSE, !.missed = 0,
                          !.leftover = \E k \in Run : iface[k] # "none"]
  /\ UNCHANGED <<pidfile, world>>

-------------------------------------------------------------------------------
(* What they start.                                                        *)

CarlaBinds(k) ==
  /\ k \in alive \ past.doomed
  /\ port = 0
  /\ port' = k
  /\ past' = [past EXCEPT !.outrun = @ \/ k # run]
  /\ UNCHANGED <<run, pc, elapsed, autoware, ready, pidfile, alive, stack, iface, ego, wiped>>

(* On a signal, by a crash, or because it could not bind.  Until then it   *)
(* keeps the port, for as long as its core is being dumped.                *)
CarlaDies(k) ==
  /\ k \in alive
  /\ alive' = alive \ {k}
  /\ port' = IF port = k THEN 0 ELSE port
  /\ ego' = IF ego = k THEN 0 ELSE ego
  /\ UNCHANGED <<run, pc, elapsed, autoware, ready, pidfile, stack, iface, wiped, past>>

StackUp(k) ==
  /\ iface[k] # "none"
  /\ k \notin stack
  /\ stack' = stack \cup {k}
  /\ UNCHANGED <<run, pc, elapsed, autoware, ready, pidfile, alive, port, iface, ego, wiped, past>>

InterfaceBorn(k) ==
  /\ iface[k] = "unborn"
  /\ iface' = [iface EXCEPT ![k] = "alive"]
  /\ past' = [past EXCEPT !.slow = @ \/ k \in stack]
  /\ UNCHANGED <<run, pc, elapsed, autoware, ready, pidfile, alive, port, stack, ego, wiped>>

(* load_world on the CARLA it finds, if any; then it dies.                 *)
InterfaceFires(k) ==
  /\ iface[k] = "alive"
  /\ iface' = [iface EXCEPT ![k] = "gone"]
  /\ wiped' = (wiped \/ (ego # 0 /\ ego = port))
  /\ UNCHANGED <<run, pc, elapsed, autoware, ready, pidfile, alive, port, stack, ego, past>>

Harness ==
  \/ Preflight \/ AwaitRelease \/ Boot \/ WritePid \/ AwaitBind \/ Launch \/ PollsOver
  \/ (\E missed \in BOOLEAN : Poll(missed))
  \/ StartRunner \/ (pc = "runner" /\ RunnerEnds) \/ StopLaunch \/ Term \/ AwaitDeath \/ RemovePidFile

Next ==
  \/ Harness \/ RunnerEnds \/ Signal \/ Killed \/ NextRun
  \/ \E k \in Run : CarlaBinds(k) \/ CarlaDies(k) \/ StackUp(k) \/ InterfaceBorn(k) \/ InterfaceFires(k)

Spec == Init /\ [][Next]_vars

(* The scripts run on; nothing is asked of CARLA, of the stack or of the   *)
(* runner, nor that anybody starts the harness again.  A poll is one step: *)
(* `docker compose exec ... ros2 node list' is taken to return, though     *)
(* launch_autoware.sh:271 gives it no timeout.                             *)
FairSpec == Spec /\ WF_vars(Harness)

-------------------------------------------------------------------------------
(* Properties.                                                             *)

TypeOK ==
  /\ run \in Run
  /\ pc \in {"preflight", "port", "boot", "pid", "bind", "launch", "poll", "runner", "drive",
             "stop", "term", "wait", "rm", "done"}
  /\ elapsed \in 0..(PortWait + BindWait + ReadyPolls + TermWait)
  /\ autoware \in BOOLEAN
  /\ ready \in 0..3
  /\ pidfile \in 0..run
  /\ alive \subseteq 1..run
  /\ port \in {0} \cup alive
  /\ stack \subseteq 1..run
  /\ iface \in [Run -> {"none", "unborn", "alive", "gone"}]
  /\ ego \in {0} \cup alive
  /\ wiped \in BOOLEAN
  /\ past \in Past

(* run_e2e.sh:9-15, launch_autoware.sh:260-266, "so a transient list read  *)
(* cannot pass us": no world is loaded under the ego, unless an earlier    *)
(* launch was still there, or the interface started only when the rest of  *)
(* its stack was up, or three lists in a row missed it.                    *)
EgoOutlivesInterface == wiped => past.leftover \/ past.slow \/ past.missed = 3

(* run_e2e.sh:233-242, 297-306: the ego is on this run's CARLA, or the     *)
(* harness has warned, or an older CARLA that nobody had stopped came to   *)
(* bind the port after the harness had found it free.                      *)
OwnServerOrWarned == ego \notin {0, run} => past.warned \/ past.outrun

(* run_e2e.sh:244-248, 274-290: teardown signals no CARLA but the one that  *)
(* its run has started, unless the run left after the trap was set and     *)
(* without a pid file of its own: then it is an older run's.               *)
OnlyOwnCarlaIsStruck == \A s \in past.struck : s[1] = s[2] \/ s[1] \in past.early

(* run_e2e.sh:6-7, "torn down on every exit path": a run that is over has  *)
(* left no CARLA, unless it was killed or left in that same gap, or CARLA  *)
(* has yet to die of the SIGKILL it was sent.                              *)
TornDown ==
  pc = "done" => run \notin alive \/ run \in past.killed \cup past.early \cup past.doomed

(* run_e2e.sh:237-241, 297-305, launch_autoware.sh:268-340: no wait of the *)
(* bring-up or of the teardown is for ever: a run drives or is over.       *)
BringUpEnds == pc # "done" ~> pc \in {"drive", "done"}
===============================================================================
