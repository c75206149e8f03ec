----------------------------- MODULE BringUpProofs -----------------------------
(***************************************************************************)
(* What BringUp guarantees for every number of runs and every length of    *)
(* the waits.  IInv adds to the four properties what has to be known       *)
(* before them: whom the pid file names, who may hold the port, and what   *)
(* a row of good polls says about the stack.                               *)
(***************************************************************************)
EXTENDS BringUp, TLAPS

(* Before this run's ego.                                                  *)
Unspawned == {"preflight", "port", "boot", "pid", "bind", "launch", "poll"}

(* Once the port was waited for, while the run has not begun to leave.     *)
Upright == {"boot", "pid", "bind", "launch", "poll", "runner", "drive"}

(* Before this run has launched a stack.                                   *)
Unlaunched == {"preflight", "port", "boot", "pid", "bind", "launch"}

Leaving == {"stop", "term", "wait", "rm"}

(* No run has a CARLA before it boots one, and a run at the last line of   *)
(* its teardown has none, unless it left without a pid file of its own, or *)
(* has sent it SIGKILL.                                                    *)
CarlaInv ==
  /\ pc \in {"preflight", "port", "boot"} => run \notin alive
  /\ pc = "rm" => run \notin alive \/ run \in past.early \cup past.doomed

(* Whom the teardown would signal.                                         *)
PidInv ==
  /\ pc \in {"bind", "launch", "poll", "runner", "drive"} => pidfile = run
  /\ pc \in Leaving => pidfile = run \/ run \in past.early

(* A stranger on the port is one the run was told of, or that came later.  *)
PortInv ==
  /\ pc \in Unspawned => ego = 0 /\ ~wiped
  /\ pc \in Upright => (port \notin {0, run} => past.warned \/ past.outrun)

(* Which launches there can be.                                            *)
StackInv ==
  /\ \A k \in Run : k > run => iface[k] = "none"
  /\ pc \in Unlaunched => iface[run] = "none"
  /\ ~past.leftover => \A k \in Run : k # run => iface[k] = "none"
  /\ \A k \in stack : iface[k] # "none"

(* No interface is there, and none will come before the rest of its stack. *)
Quiet == \A k \in Run : iface[k] # "alive" /\ (iface[k] = "unborn" => k \in stack)

Excused == past.leftover \/ past.slow

(* A good poll that missed nobody has seen a quiet stack.                  *)
PollInv ==
  /\ pc \in Unlaunched => past.missed = 0
  /\ pc = "poll" => ready <= 2 /\ past.missed <= ready
  /\ pc = "poll" /\ ready > past.missed => Excused \/ Quiet

QuietInv == ego # 0 \/ pc \in {"runner", "drive"} => Excused \/ past.missed = 3 \/ Quiet

IInv == /\ TypeOK /\ CarlaInv /\ PidInv /\ PortInv /\ StackInv /\ PollInv /\ QuietInv
        /\ EgoOutlivesInterface /\ OwnServerOrWarned /\ OnlyOwnCarlaIsStruck /\ TornDown
-------------------------------------------------------------------------------
(* One step of each part of IInv.                                          *)

(* The first run starts in a clean place.                                  *)
LEMMA InitInv == Init => IInv
<1> SUFFICES ASSUME Init PROVE IInv
  OBVIOUS
<1> USE BringUpConstants
<1> USE DEF Init, Run
<1>1. past \in Past
  BY DEF Past
<1>2. TypeOK
  <2>1. run \in Run /\ elapsed \in 0..(PortWait + BindWait + ReadyPolls + TermWait)
    OBVIOUS
  <2>2. iface \in [Run -> {"none", "unborn", "alive", "gone"}] /\ wiped \in BOOLEAN
    OBVIOUS
  <2> QED
    BY <1>1, <2>1, <2>2 DEF TypeOK
<1>3. CarlaInv /\ PidInv /\ PortInv
  BY DEF CarlaInv, PidInv, PortInv, Leaving, Unspawned, Upright
<1>4. StackInv /\ PollInv /\ QuietInv
  BY DEF StackInv, PollInv, QuietInv, Unlaunched
<1>5. EgoOutlivesInterface /\ OwnServerOrWarned /\ OnlyOwnCarlaIsStruck /\ TornDown
  BY DEF EgoOutlivesInterface, OwnServerOrWarned, OnlyOwnCarlaIsStruck, TornDown
<1> QED
  BY <1>2, <1>3, <1>4, <1>5 DEF IInv

(* cleanup's SIGTERM adds to whom the runs have struck, and to nothing    *)
(* else of the history.                                                    *)
LEMMA TermStrikes ==
  ASSUME TypeOK, Term
  PROVE  \E S : past' = [past EXCEPT !.struck = S]
<1>1. CASE pidfile \in alive
  BY <1>1 DEF Term
<1>2. CASE pidfile \notin alive
  <2>1. past' = [past EXCEPT !.struck = past.struck]
    BY <1>2 DEF Term, TypeOK, Past
  <2> QED
    BY <2>1
<1> QED
  BY <1>1, <1>2

(* Nothing else of the state or of the history changes with it.            *)
LEMMA TermKeeps ==
  ASSUME TypeOK, Term
  PROVE  /\ pc = "term" /\ pc' \in {"wait", "rm"} /\ elapsed' = 0
         /\ UNCHANGED <<run, autoware, ready, pidfile, alive, port, stack, iface, ego, wiped>>
         /\ past'.warned = past.warned /\ past'.outrun = past.outrun
         /\ past'.leftover = past.leftover /\ past'.slow = past.slow
         /\ past'.missed = past.missed /\ past'.early = past.early
<1>1. PICK S : past' = [past EXCEPT !.struck = S]
  BY TermStrikes
<1>2. /\ pc = "term" /\ pc' \in {"wait", "rm"} /\ elapsed' = 0
      /\ UNCHANGED <<run, autoware, ready, pidfile, alive, port, stack, iface, ego, wiped>>
  BY DEF Term, Goto, world
<1> QED
  BY <1>1, <1>2 DEF TypeOK, Past

(* The history stays typed; three good polls in a row are the most there  *)
(* can be.                                                                 *)
LEMMA PastType ==
  ASSUME TypeOK, PollInv, [Next]_vars
  PROVE  past' \in Past
<1> USE DEF Goto, Tick
<1>1. CASE AwaitRelease
  BY <1>1 DEF AwaitRelease, TypeOK, Past
<1>2. CASE \E missed \in BOOLEAN : Poll(missed)
  <2>1. PICK m \in 0..3 : past' = [past EXCEPT !.missed = m]
    BY <1>2 DEF Poll, TypeOK, Past, PollInv
  <2> QED
    BY <2>1 DEF TypeOK, Past
<1>3. CASE Signal
  <2>1. PICK S \in SUBSET Run : past' = [past EXCEPT !.early = S]
    BY <1>3 DEF Signal, TypeOK, Past
  <2> QED
    BY <2>1 DEF TypeOK, Past
<1>4. CASE Term
  <2>1. CASE pidfile \in alive
    <3>1. <<run, pidfile>> \in Run \X Run
      BY <2>1, BringUpConstants DEF TypeOK, Run
    <3> DEFINE S == past.struck \cup {<<run, pidfile>>}
    <3>2. S \in SUBSET (Run \X Run)
      BY <3>1 DEF TypeOK, Past
    <3>3. past' = [past EXCEPT !.struck = S]
      BY <1>4, <2>1 DEF Term
    <3> HIDE DEF S
    <3> QED
      BY <3>2, <3>3 DEF TypeOK, Past
  <2> QED
    BY <1>4, <2>1 DEF Term, TypeOK
<1>5. CASE Killed
  <2> DEFINE S == past.killed \cup {run}
  <2>1. S \in SUBSET Run /\ past' = [past EXCEPT !.killed = S]
    BY <1>5 DEF Killed, TypeOK, Past
  <2> HIDE DEF S
  <2> QED
    BY <2>1 DEF TypeOK, Past
<1>6. CASE NextRun
  <2>1. PICK l \in BOOLEAN :
          past' = [warned |-> FALSE, outrun |-> FALSE, leftover |-> l, slow |-> FALSE, missed |-> 0,
                   killed |-> past.killed, early |-> past.early, struck |-> past.struck,
                   doomed |-> past.doomed]
    BY <1>6 DEF NextRun, TypeOK, Past
  <2> QED
    BY <2>1 DEF TypeOK, Past
<1>7. CASE \E k \in Run : CarlaBinds(k)
  BY <1>7 DEF CarlaBinds, TypeOK, Past
<1>8. CASE \E k \in Run : InterfaceBorn(k)
  BY <1>8 DEF InterfaceBorn, TypeOK, Past
<1>9. CASE WritePid
  <2>1. PICK S \in SUBSET Run : past' = [past EXCEPT !.early = S]
    <3>1. CASE UNCHANGED past
      <4>1. past' = [past EXCEPT !.early = past.early] /\ past.early \in SUBSET Run
        BY <3>1 DEF TypeOK, Past
      <4> QED
        BY <4>1
    <3>2. CASE past' = [past EXCEPT !.early = @ \cup {run}]
      BY <3>2 DEF TypeOK, Past
    <3> QED
      BY <1>9, <3>1, <3>2 DEF WritePid
  <2> QED
    BY <2>1 DEF TypeOK, Past
<1>10. CASE AwaitDeath
  <2>1. CASE UNCHANGED past
    BY <2>1 DEF TypeOK
  <2>2. CASE pidfile \in alive /\ past' = [past EXCEPT !.doomed = @ \cup {pidfile}]
    <3> DEFINE S == past.doomed \cup {pidfile}
    <3>1. S \in SUBSET Run /\ past' = [past EXCEPT !.doomed = S]
      BY <2>2, BringUpConstants DEF TypeOK, Past, Run
    <3> HIDE DEF S
    <3> QED
      BY <3>1 DEF TypeOK, Past
  <2> QED
    BY <1>10, <2>1, <2>2 DEF AwaitDeath
<1>11. CASE UNCHANGED past
  BY <1>11 DEF TypeOK
<1> QED
  BY <1>1, <1>2, <1>3, <1>4, <1>5, <1>6, <1>7, <1>8, <1>9, <1>10, <1>11
  DEF Next, Harness, vars, Preflight, Boot, AwaitBind, Launch, PollsOver, StartRunner,
      RunnerEnds, StopLaunch, RemovePidFile, CarlaDies, StackUp, InterfaceFires

(* A row of good polls in which one missed nobody has seen the stack       *)
(* quiet: with no older launch about, the nodes that were listed are this  *)
(* launch's, and its interface was not among them.                         *)
LEMMA PollSees ==
  ASSUME TypeOK, StackInv, PollInv, \E missed \in BOOLEAN : Poll(missed)
  PROVE  /\ ready' \in 0..3 /\ past'.missed \in 0..ready'
         /\ ready' > past'.missed => Excused \/ Quiet
         /\ (Excused => Excused') /\ (Quiet => Quiet')
         /\ pc' = IF ready' = 3 THEN "runner" ELSE "poll"
<1> USE DEF TypeOK, Past, PollInv
<1>1. PICK missed \in BOOLEAN : Poll(missed)
  OBVIOUS
<1> DEFINE there == \E k \in Run : iface[k] = "alive"
           ok == stack # {} /\ (~there \/ missed)
<1>2. /\ missed => there
      /\ ready' = IF ok THEN ready + 1 ELSE 0
      /\ past'.missed = IF ok /\ missed THEN past.missed + 1 ELSE 0
      /\ past'.leftover = past.leftover /\ past'.slow = past.slow
      /\ pc = "poll" /\ UNCHANGED <<stack, iface>>
  BY <1>1 DEF Poll, Count, world
<1>3. ready' \in 0..3 /\ past'.missed \in 0..ready'
  BY <1>2
<1>4. ASSUME ready' > past'.missed PROVE Excused \/ Quiet
  <2>1. CASE missed
    BY <1>2, <1>4, <2>1
  <2>2. CASE ~missed
    <3>1. stack # {} /\ ~there
      BY <1>2, <1>3, <1>4, <2>2
    <3>2. SUFFICES ASSUME ~past.leftover PROVE Quiet
      BY DEF Excused
    <3>3. PICK k \in stack : iface[k] # "none"
      BY <3>1 DEF StackInv
    <3>4. k \in Run /\ k = run
      BY <3>2, <3>3, BringUpConstants DEF StackInv, Run
    <3> QED
      BY <3>1, <3>2, <3>4 DEF StackInv, Quiet
  <2> QED
    BY <2>1, <2>2
<1>5. (Excused => Excused') /\ (Quiet => Quiet')
  BY <1>2 DEF Excused, Quiet
<1>6. pc' = IF ready' = 3 THEN "runner" ELSE "poll"
  BY <1>1, <1>2, <1>3 DEF Poll, Goto, Settled
<1> QED
  BY <1>3, <1>4, <1>5, <1>6

(* Each step of run_e2e.sh, of launch_autoware.sh and of what they start     *)
(* leaves every variable in its type.                                      *)
LEMMA TypeStep ==
  ASSUME TypeOK, StackInv, PollInv, [Next]_vars
  PROVE  TypeOK'
<1> USE BringUpConstants
<1> USE DEF TypeOK, StackInv, PollInv, Run, world, Goto, Tick
<1>1. CASE Preflight
  BY <1>1, PastType DEF Preflight
<1>2. CASE AwaitRelease
  <2>1. past' \in Past /\ pc' \in {"port", "boot"}
    BY <1>2, PastType DEF AwaitRelease
  <2>2. elapsed' \in 0..(PortWait + BindWait + ReadyPolls + TermWait)
    BY <1>2 DEF AwaitRelease
  <2> QED
    BY <1>2, <2>1, <2>2 DEF AwaitRelease
<1>3. CASE Boot
  BY <1>3, PastType DEF Boot
<1>4. CASE WritePid
  <2>1. past' \in Past /\ pc' \in {"bind", "stop"} /\ elapsed' = 0
    BY <1>4, PastType DEF WritePid
  <2>2. pidfile' \in 0..run
    BY <1>4 DEF WritePid
  <2>3. UNCHANGED <<run, autoware, ready, world, ego, wiped>>
    BY <1>4 DEF WritePid
  <2> QED
    BY <2>1, <2>2, <2>3
<1>5. CASE AwaitBind
  BY <1>5, PastType DEF AwaitBind
<1>6. CASE Launch
  <2>1. iface' \in [Run -> {"none", "unborn", "alive", "gone"}]
    BY <1>6 DEF Launch
  <2>2. pc' \in {"poll", "stop"} /\ elapsed' = 0 /\ ready' \in 0..3 /\ past' \in Past
    BY <1>6, PastType DEF Launch
  <2> QED
    BY <1>6, <2>1, <2>2 DEF Launch
<1>7. CASE PollsOver
  BY <1>7, PastType DEF PollsOver
<1>8. CASE \E missed \in BOOLEAN : Poll(missed)
  <2>1. past' \in Past
    BY PastType
  <2>2. ready' \in 0..3
    BY <1>8, PollSees
  <2>3. elapsed' \in 0..(PortWait + BindWait + ReadyPolls + TermWait) /\ pc' \in {"poll", "runner"}
    <3>1. /\ elapsed < ReadyPolls /\ (elapsed' = 0 \/ elapsed' = elapsed + 1)
          /\ pc' \in {"poll", "runner"}
      BY <1>8 DEF Poll, PollTime
    <3> QED
      BY <3>1
  <2> QED
    BY <1>8, <2>1, <2>2, <2>3 DEF Poll
<1>9. CASE StartRunner
  BY <1>9, PastType DEF StartRunner
<1>10. CASE RunnerEnds
  BY <1>10, PastType DEF RunnerEnds
<1>11. CASE StopLaunch
  <2>1. iface' \in [Run -> {"none", "unborn", "alive", "gone"}] /\ stack' \subseteq stack
    BY <1>11 DEF StopLaunch
  <2>2. pc' = "term" /\ elapsed' = 0 /\ past' \in Past
    BY <1>11, PastType DEF StopLaunch
  <2> QED
    BY <1>11, <2>1, <2>2 DEF StopLaunch
<1>12. CASE Term
  <2>1. past' \in Past
    BY PastType
  <2>2. /\ pc' \in {"wait", "rm"} /\ elapsed' = 0
        /\ UNCHANGED <<run, autoware, ready, pidfile, alive, port, stack, iface, ego, wiped>>
    <3> HIDE DEF TypeOK
    <3> QED
      BY <1>12, TermKeeps
  <2> QED
    BY <2>1, <2>2
<1>13. CASE AwaitDeath
  <2>1. alive' \subseteq alive /\ port' \in {0} \cup alive' /\ ego' \in {0} \cup alive'
    BY <1>13 DEF AwaitDeath
  <2>2. pc' \in {"wait", "rm"} /\ past' \in Past
    BY <1>13, PastType DEF AwaitDeath
  <2>3. elapsed' \in 0..(PortWait + BindWait + ReadyPolls + TermWait)
    <3>1. elapsed' \in {0, elapsed} \/ (elapsed < TermWait /\ elapsed' = elapsed + 1)
      BY <1>13 DEF AwaitDeath
    <3> QED
      BY <3>1
  <2> QED
    BY <1>13, <2>1, <2>2, <2>3 DEF AwaitDeath
<1>14. CASE RemovePidFile
  BY <1>14, PastType DEF RemovePidFile
<1>15. CASE Signal
  <2>1. past' \in Past /\ pc' = "stop" /\ elapsed' = 0
    BY <1>15, PastType DEF Signal
  <2>2. UNCHANGED <<run, autoware, ready, pidfile, world, ego, wiped>>
    BY <1>15 DEF Signal
  <2> QED
    BY <2>1, <2>2
<1>16. CASE Killed
  BY <1>16, PastType, SMTT(30) DEF Killed
<1>17. CASE NextRun
  <2>1. past' \in Past /\ pc' = "preflight" /\ elapsed' = 0
    BY <1>17, PastType DEF NextRun
  <2>2. run' \in Run /\ pidfile' \in 0..run' /\ alive' \subseteq 1..run' /\ stack' \subseteq 1..run'
    BY <1>17 DEF NextRun
  <2>3. wiped' \in BOOLEAN /\ autoware' \in BOOLEAN
    BY <1>17 DEF NextRun
  <2> QED
    BY <1>17, <2>1, <2>2, <2>3 DEF NextRun
<1>18. CASE \E k \in Run : CarlaBinds(k)
  BY <1>18, PastType DEF CarlaBinds
<1>19. CASE \E k \in Run : CarlaDies(k)
  BY <1>19, PastType DEF CarlaDies
<1>20. CASE \E k \in Run : StackUp(k)
  BY <1>20, PastType DEF StackUp
<1>21. CASE \E k \in Run : InterfaceBorn(k)
  BY <1>21, PastType DEF InterfaceBorn
<1>22. CASE \E k \in Run : InterfaceFires(k)
  BY <1>22, PastType DEF InterfaceFires
<1>23. CASE UNCHANGED vars
  BY <1>23, PastType DEF vars
<1> QED
  BY <1>1, <1>2, <1>3, <1>4, <1>5, <1>6, <1>7, <1>8, <1>9, <1>10, <1>11, <1>12,
     <1>13, <1>14, <1>15, <1>16, <1>17, <1>18, <1>19, <1>20, <1>21, <1>22, <1>23
  DEF Next, Harness

(* A run's CARLA is born at boot; cleanup does not get to rm before it is  *)
(* dead or has been sent SIGKILL, if the pid file names it.                *)
LEMMA CarlaStep ==
  ASSUME TypeOK, CarlaInv, PidInv, [Next]_vars
  PROVE  CarlaInv'
<1> USE BringUpConstants
<1> USE DEF TypeOK, CarlaInv, PidInv, Run, Past, Leaving, world, Goto, Tick
<1>1. CASE Preflight
  BY <1>1 DEF Preflight
<1>2. CASE AwaitRelease
  BY <1>2 DEF AwaitRelease
<1>3. CASE Boot
  BY <1>3 DEF Boot
<1>4. CASE WritePid
  BY <1>4 DEF WritePid
<1>5. CASE AwaitBind
  BY <1>5 DEF AwaitBind
<1>6. CASE Launch
  BY <1>6 DEF Launch
<1>7. CASE PollsOver
  BY <1>7 DEF PollsOver
<1>8. CASE \E missed \in BOOLEAN : Poll(missed)
  BY <1>8 DEF Poll, Count, PollTime, Settled
<1>9. CASE StartRunner
  BY <1>9 DEF StartRunner
<1>10. CASE RunnerEnds
  BY <1>10 DEF RunnerEnds
<1>11. CASE StopLaunch
  BY <1>11 DEF StopLaunch
<1>12. CASE Term
  BY <1>12 DEF Term
<1>13. CASE AwaitDeath
  BY <1>13 DEF AwaitDeath
<1>14. CASE RemovePidFile
  BY <1>14 DEF RemovePidFile
<1>15. CASE Signal
  BY <1>15 DEF Signal
<1>16. CASE Killed
  BY <1>16 DEF Killed
<1>17. CASE NextRun
  BY <1>17 DEF NextRun
<1>18. CASE \E k \in Run : CarlaBinds(k)
  BY <1>18 DEF CarlaBinds
<1>19. CASE \E k \in Run : CarlaDies(k)
  BY <1>19 DEF CarlaDies
<1>20. CASE \E k \in Run : StackUp(k)
  BY <1>20 DEF StackUp
<1>21. CASE \E k \in Run : InterfaceBorn(k)
  BY <1>21 DEF InterfaceBorn
<1>22. CASE \E k \in Run : InterfaceFires(k)
  BY <1>22 DEF InterfaceFires
<1>23. CASE UNCHANGED vars
  BY <1>23 DEF vars
<1> QED
  BY <1>1, <1>2, <1>3, <1>4, <1>5, <1>6, <1>7, <1>8, <1>9, <1>10, <1>11, <1>12,
     <1>13, <1>14, <1>15, <1>16, <1>17, <1>18, <1>19, <1>20, <1>21, <1>22, <1>23
  DEF Next, Harness

(* The pid file names this run's CARLA from WritePid to the teardown.      *)
LEMMA PidStep ==
  ASSUME TypeOK, PidInv, [Next]_vars
  PROVE  PidInv'
<1> USE BringUpConstants
<1> USE DEF TypeOK, PidInv, Run, Past, Leaving, world, Goto, Tick
<1>1. CASE Preflight
  BY <1>1 DEF Preflight
<1>2. CASE AwaitRelease
  BY <1>2 DEF AwaitRelease
<1>3. CASE Boot
  BY <1>3 DEF Boot
<1>4. CASE WritePid
  BY <1>4 DEF WritePid
<1>5. CASE AwaitBind
  BY <1>5 DEF AwaitBind
<1>6. CASE Launch
  BY <1>6 DEF Launch
<1>7. CASE PollsOver
  BY <1>7 DEF PollsOver
<1>8. CASE \E missed \in BOOLEAN : Poll(missed)
  BY <1>8 DEF Poll, Count, PollTime, Settled
<1>9. CASE StartRunner
  BY <1>9 DEF StartRunner
<1>10. CASE RunnerEnds
  BY <1>10 DEF RunnerEnds
<1>11. CASE StopLaunch
  BY <1>11 DEF StopLaunch
<1>12. CASE Term
  BY <1>12, TermKeeps
<1>13. CASE AwaitDeath
  BY <1>13 DEF AwaitDeath
<1>14. CASE RemovePidFile
  BY <1>14 DEF RemovePidFile
<1>15. CASE Signal
  BY <1>15 DEF Signal
<1>16. CASE Killed
  BY <1>16 DEF Killed
<1>17. CASE NextRun
  BY <1>17 DEF NextRun
<1>18. CASE \E k \in Run : CarlaBinds(k)
  BY <1>18 DEF CarlaBinds
<1>19. CASE \E k \in Run : CarlaDies(k)
  BY <1>19 DEF CarlaDies
<1>20. CASE \E k \in Run : StackUp(k)
  BY <1>20 DEF StackUp
<1>21. CASE \E k \in Run : InterfaceBorn(k)
  BY <1>21 DEF InterfaceBorn
<1>22. CASE \E k \in Run : InterfaceFires(k)
  BY <1>22 DEF InterfaceFires
<1>23. CASE UNCHANGED vars
  BY <1>23 DEF vars
<1> QED
  BY <1>1, <1>2, <1>3, <1>4, <1>5, <1>6, <1>7, <1>8, <1>9, <1>10, <1>11, <1>12,
     <1>13, <1>14, <1>15, <1>16, <1>17, <1>18, <1>19, <1>20, <1>21, <1>22, <1>23
  DEF Next, Harness

(* The ego waits for the runner, and only CarlaBinds brings a stranger to  *)
(* the port once the run has looked at it.                                 *)
LEMMA PortStep ==
  ASSUME TypeOK, PortInv, [Next]_vars
  PROVE  PortInv'
<1> USE BringUpConstants
<1> USE DEF TypeOK, PortInv, Run, Past, Unspawned, Upright, world, Goto, Tick
<1>1. CASE Preflight
  BY <1>1 DEF Preflight
<1>2. CASE AwaitRelease
  BY <1>2 DEF AwaitRelease
<1>3. CASE Boot
  BY <1>3 DEF Boot
<1>4. CASE WritePid
  BY <1>4 DEF WritePid
<1>5. CASE AwaitBind
  BY <1>5 DEF AwaitBind
<1>6. CASE Launch
  BY <1>6 DEF Launch
<1>7. CASE PollsOver
  BY <1>7 DEF PollsOver
<1>8. CASE \E missed \in BOOLEAN : Poll(missed)
  BY <1>8 DEF Poll, Count, PollTime, Settled
<1>9. CASE StartRunner
  BY <1>9 DEF StartRunner
<1>10. CASE RunnerEnds
  BY <1>10 DEF RunnerEnds
<1>11. CASE StopLaunch
  BY <1>11 DEF StopLaunch
<1>12. CASE Term
  BY <1>12 DEF Term
<1>13. CASE AwaitDeath
  BY <1>13 DEF AwaitDeath
<1>14. CASE RemovePidFile
  BY <1>14 DEF RemovePidFile
<1>15. CASE Signal
  BY <1>15 DEF Signal
<1>16. CASE Killed
  BY <1>16 DEF Killed
<1>17. CASE NextRun
  BY <1>17 DEF NextRun
<1>18. CASE \E k \in Run : CarlaBinds(k)
  <2>1. PICK k \in Run : CarlaBinds(k)
    BY <1>18
  <2>2. k # run => past'.outrun
    BY <2>1 DEF CarlaBinds
  <2>3. port' = k /\ UNCHANGED <<run, pc, ego, wiped>>
    BY <2>1 DEF CarlaBinds
  <2> QED
    BY <2>2, <2>3
<1>19. CASE \E k \in Run : CarlaDies(k)
  BY <1>19 DEF CarlaDies
<1>20. CASE \E k \in Run : StackUp(k)
  BY <1>20 DEF StackUp
<1>21. CASE \E k \in Run : InterfaceBorn(k)
  BY <1>21 DEF InterfaceBorn
<1>22. CASE \E k \in Run : InterfaceFires(k)
  BY <1>22 DEF InterfaceFires
<1>23. CASE UNCHANGED vars
  BY <1>23 DEF vars
<1> QED
  BY <1>1, <1>2, <1>3, <1>4, <1>5, <1>6, <1>7, <1>8, <1>9, <1>10, <1>11, <1>12,
     <1>13, <1>14, <1>15, <1>16, <1>17, <1>18, <1>19, <1>20, <1>21, <1>22, <1>23
  DEF Next, Harness

(* Only launch_autoware.sh brings a launch into being, and only this run's. *)
LEMMA StackStep ==
  ASSUME TypeOK, StackInv, [Next]_vars
  PROVE  StackInv'
<1> USE BringUpConstants
<1> USE DEF TypeOK, StackInv, Run, Past, Unlaunched, world, Goto, Tick
<1>1. CASE Preflight
  BY <1>1 DEF Preflight
<1>2. CASE AwaitRelease
  BY <1>2 DEF AwaitRelease
<1>3. CASE Boot
  BY <1>3 DEF Boot
<1>4. CASE WritePid
  BY <1>4 DEF WritePid
<1>5. CASE AwaitBind
  BY <1>5 DEF AwaitBind
<1>6. CASE Launch
  <2>1. \A k \in Run : k # run => iface'[k] = iface[k]
    BY <1>6 DEF Launch
  <2>2. \A k \in Run : iface'[k] = "none" => iface[k] = "none"
    BY <1>6 DEF Launch
  <2>3. pc' \notin Unlaunched /\ UNCHANGED <<run, stack, past>>
    BY <1>6 DEF Launch
  <2> QED
    BY <2>1, <2>2, <2>3, SMTT(30)
<1>7. CASE PollsOver
  BY <1>7 DEF PollsOver
<1>8. CASE \E missed \in BOOLEAN : Poll(missed)
  BY <1>8, SMTT(30) DEF Poll, Count, PollTime, Settled
<1>9. CASE StartRunner
  BY <1>9 DEF StartRunner
<1>10. CASE RunnerEnds
  BY <1>10 DEF RunnerEnds
<1>11. CASE StopLaunch
  <2>1. pc' = "term" /\ UNCHANGED <<run, past>>
    BY <1>11 DEF StopLaunch
  <2>2. \A k \in Run : iface[k] = "none" => iface'[k] = "none"
    BY <1>11 DEF StopLaunch
  <2>3. ASSUME NEW k \in stack' PROVE iface'[k] # "none"
    <3>1. CASE UNCHANGED <<stack, iface>>
      BY <2>3, <3>1
    <3>2. CASE ~UNCHANGED <<stack, iface>>
      <4>1. PICK j \in Run : iface' = [iface EXCEPT ![j] = "none"] /\ stack' = stack \ {j}
        BY <1>11, <3>2 DEF StopLaunch
      <4>2. k \in stack /\ k \in Run /\ k # j
        BY <2>3, <4>1
      <4> QED
        BY <4>1, <4>2
    <3> QED
      BY <3>1, <3>2
  <2> QED
    BY <2>1, <2>2, <2>3
<1>12. CASE Term
  <2>1. /\ UNCHANGED <<run, stack, iface>> /\ pc' \in {"wait", "rm"}
        /\ past'.leftover = past.leftover
    <3> HIDE DEF TypeOK
    <3> QED
      BY <1>12, TermKeeps
  <2> QED
    BY <2>1
<1>13. CASE AwaitDeath
  BY <1>13 DEF AwaitDeath
<1>14. CASE RemovePidFile
  BY <1>14 DEF RemovePidFile
<1>15. CASE Signal
  BY <1>15 DEF Signal
<1>16. CASE Killed
  BY <1>16 DEF Killed
<1>17. CASE NextRun
  <2>1. run' = run + 1 /\ run' \in Run /\ UNCHANGED <<stack, iface>> /\ pc' = "preflight"
    BY <1>17 DEF NextRun
  <2>2. past'.leftover = \E k \in Run : iface[k] # "none"
    BY <1>17 DEF NextRun
  <2>3. \A k \in Run : k > run' => iface'[k] = "none"
    BY <2>1
  <2>4. iface'[run'] = "none"
    BY <2>1
  <2> QED
    BY <2>1, <2>2, <2>3, <2>4
<1>18. CASE \E k \in Run : CarlaBinds(k)
  BY <1>18 DEF CarlaBinds
<1>19. CASE \E k \in Run : CarlaDies(k)
  BY <1>19 DEF CarlaDies
<1>20. CASE \E k \in Run : StackUp(k)
  BY <1>20 DEF StackUp
<1>21. CASE \E k \in Run : InterfaceBorn(k)
  BY <1>21 DEF InterfaceBorn
<1>22. CASE \E k \in Run : InterfaceFires(k)
  BY <1>22, SMTT(30) DEF InterfaceFires
<1>23. CASE UNCHANGED vars
  BY <1>23 DEF vars
<1> QED
  BY <1>1, <1>2, <1>3, <1>4, <1>5, <1>6, <1>7, <1>8, <1>9, <1>10, <1>11, <1>12,
     <1>13, <1>14, <1>15, <1>16, <1>17, <1>18, <1>19, <1>20, <1>21, <1>22, <1>23
  DEF Next, Harness

(* consecutive_ready starts again with every list that shows an interface. *)
LEMMA PollStep ==
  ASSUME TypeOK, StackInv, PollInv, [Next]_vars
  PROVE  PollInv'
<1> USE BringUpConstants
<1> USE DEF TypeOK, StackInv, PollInv, Run, Past, Unlaunched, Excused, Quiet, world, Goto, Tick
<1>1. CASE Preflight
  BY <1>1 DEF Preflight
<1>2. CASE AwaitRelease
  BY <1>2 DEF AwaitRelease
<1>3. CASE Boot
  BY <1>3 DEF Boot
<1>4. CASE WritePid
  BY <1>4 DEF WritePid
<1>5. CASE AwaitBind
  BY <1>5 DEF AwaitBind
<1>6. CASE Launch
  BY <1>6 DEF Launch
<1>7. CASE PollsOver
  BY <1>7 DEF PollsOver
<1>8. CASE \E missed \in BOOLEAN : Poll(missed)
  <2>1. /\ ready' \in 0..3 /\ past'.missed \in 0..ready'
        /\ pc' = IF ready' = 3 THEN "runner" ELSE "poll"
    BY <1>8, PollSees
  <2>2. ready' > past'.missed => Excused' \/ Quiet'
    BY <1>8, PollSees
  <2> HIDE DEF Excused, Quiet
  <2> QED
    BY <2>1, <2>2
<1>9. CASE StartRunner
  BY <1>9 DEF StartRunner
<1>10. CASE RunnerEnds
  BY <1>10 DEF RunnerEnds
<1>11. CASE StopLaunch
  BY <1>11 DEF StopLaunch
<1>12. CASE Term
  BY <1>12 DEF Term
<1>13. CASE AwaitDeath
  BY <1>13 DEF AwaitDeath
<1>14. CASE RemovePidFile
  BY <1>14 DEF RemovePidFile
<1>15. CASE Signal
  BY <1>15 DEF Signal
<1>16. CASE Killed
  BY <1>16 DEF Killed
<1>17. CASE NextRun
  BY <1>17 DEF NextRun
<1>18. CASE \E k \in Run : CarlaBinds(k)
  BY <1>18 DEF CarlaBinds
<1>19. CASE \E k \in Run : CarlaDies(k)
  BY <1>19 DEF CarlaDies
<1>20. CASE \E k \in Run : StackUp(k)
  BY <1>20 DEF StackUp
<1>21. CASE \E k \in Run : InterfaceBorn(k)
  <2>1. PICK k \in Run : InterfaceBorn(k)
    BY <1>21
  <2>2. UNCHANGED <<pc, ready, run, stack>> /\ past'.missed = past.missed
    BY <2>1 DEF InterfaceBorn
  <2>3. past'.leftover = past.leftover /\ past'.slow = (past.slow \/ k \in stack)
    BY <2>1 DEF InterfaceBorn
  <2>4. Excused => Excused'
    BY <2>3 DEF Excused
  <2>5. Quiet => Excused'
    BY <2>1, <2>3 DEF InterfaceBorn, Quiet, Excused
  <2> HIDE DEF Excused, Quiet
  <2> QED
    BY <2>2, <2>4, <2>5
<1>22. CASE \E k \in Run : InterfaceFires(k)
  BY <1>22 DEF InterfaceFires
<1>23. CASE UNCHANGED vars
  BY <1>23 DEF vars
<1> QED
  BY <1>1, <1>2, <1>3, <1>4, <1>5, <1>6, <1>7, <1>8, <1>9, <1>10, <1>11, <1>12,
     <1>13, <1>14, <1>15, <1>16, <1>17, <1>18, <1>19, <1>20, <1>21, <1>22, <1>23
  DEF Next, Harness

(* A stack that was quiet when the polls settled stays quiet, unless its   *)
(* interface is a late one.                                                *)
LEMMA QuietStep ==
  ASSUME TypeOK, StackInv, PortInv, PollInv, QuietInv, [Next]_vars
  PROVE  QuietInv'
<1> USE BringUpConstants
<1> USE DEF TypeOK, StackInv, PortInv, PollInv, QuietInv, Run, Past, Unspawned, Unlaunched,
           Excused, Quiet, world, Goto, Tick
<1>1. CASE Preflight
  BY <1>1 DEF Preflight
<1>2. CASE AwaitRelease
  BY <1>2 DEF AwaitRelease
<1>3. CASE Boot
  BY <1>3 DEF Boot
<1>4. CASE WritePid
  BY <1>4 DEF WritePid
<1>5. CASE AwaitBind
  BY <1>5 DEF AwaitBind
<1>6. CASE Launch
  BY <1>6 DEF Launch
<1>7. CASE PollsOver
  BY <1>7 DEF PollsOver
<1>8. CASE \E missed \in BOOLEAN : Poll(missed)
  <2>1. /\ ready' \in 0..3 /\ past'.missed \in 0..ready'
        /\ pc' = IF ready' = 3 THEN "runner" ELSE "poll"
    BY <1>8, PollSees
  <2>2. ready' > past'.missed => Excused' \/ Quiet'
    BY <1>8, PollSees
  <2>3. ego' = 0
    BY <1>8 DEF Poll
  <2> HIDE DEF Excused, Quiet
  <2> QED
    BY <2>1, <2>2, <2>3
<1>9. CASE StartRunner
  BY <1>9 DEF StartRunner
<1>10. CASE RunnerEnds
  BY <1>10 DEF RunnerEnds
<1>11. CASE StopLaunch
  <2>1. UNCHANGED <<ego, past>> /\ pc' = "term"
    BY <1>11 DEF StopLaunch
  <2>2. Quiet => Quiet'
    <3>1. CASE UNCHANGED <<stack, iface>>
      BY <3>1 DEF Quiet
    <3>2. ASSUME NEW k \in Run, iface' = [iface EXCEPT ![k] = "none"], stack' = stack \ {k}
          PROVE  Quiet => Quiet'
      BY <3>2 DEF Quiet, TypeOK
    <3> QED
      BY <1>11, <3>1, <3>2 DEF StopLaunch
  <2> HIDE DEF Quiet
  <2> QED
    BY <2>1, <2>2
<1>12. CASE Term
  <2>1. PICK S : past' = [past EXCEPT !.struck = S]
    BY <1>12, TermStrikes
  <2> QED
    BY <1>12, <2>1 DEF Term
<1>13. CASE AwaitDeath
  BY <1>13 DEF AwaitDeath
<1>14. CASE RemovePidFile
  BY <1>14 DEF RemovePidFile
<1>15. CASE Signal
  BY <1>15 DEF Signal
<1>16. CASE Killed
  BY <1>16 DEF Killed
<1>17. CASE NextRun
  BY <1>17 DEF NextRun
<1>18. CASE \E k \in Run : CarlaBinds(k)
  BY <1>18 DEF CarlaBinds
<1>19. CASE \E k \in Run : CarlaDies(k)
  BY <1>19 DEF CarlaDies
<1>20. CASE \E k \in Run : StackUp(k)
  BY <1>20 DEF StackUp
<1>21. CASE \E k \in Run : InterfaceBorn(k)
  BY <1>21 DEF InterfaceBorn
<1>22. CASE \E k \in Run : InterfaceFires(k)
  BY <1>22 DEF InterfaceFires
<1>23. CASE UNCHANGED vars
  BY <1>23 DEF vars
<1> QED
  BY <1>1, <1>2, <1>3, <1>4, <1>5, <1>6, <1>7, <1>8, <1>9, <1>10, <1>11, <1>12,
     <1>13, <1>14, <1>15, <1>16, <1>17, <1>18, <1>19, <1>20, <1>21, <1>22, <1>23
  DEF Next, Harness

(* Where an ego stands, an interface that fires is an excused one.         *)
LEMMA EgoStep ==
  ASSUME TypeOK, PortInv, PollInv, QuietInv, EgoOutlivesInterface, [Next]_vars
  PROVE  EgoOutlivesInterface'
<1> USE BringUpConstants
<1> USE DEF TypeOK, PortInv, QuietInv, EgoOutlivesInterface, Run, Past, Unspawned,
           Excused, Quiet, world, Goto, Tick
<1>1. CASE Preflight
  BY <1>1 DEF Preflight
<1>2. CASE AwaitRelease
  BY <1>2 DEF AwaitRelease
<1>3. CASE Boot
  BY <1>3 DEF Boot
<1>4. CASE WritePid
  BY <1>4 DEF WritePid
<1>5. CASE AwaitBind
  BY <1>5 DEF AwaitBind
<1>6. CASE Launch
  BY <1>6 DEF Launch
<1>7. CASE PollsOver
  BY <1>7 DEF PollsOver
<1>8. CASE \E missed \in BOOLEAN : Poll(missed)
  BY <1>8 DEF Poll, Count, PollTime, Settled
<1>9. CASE StartRunner
  BY <1>9 DEF StartRunner
<1>10. CASE RunnerEnds
  BY <1>10 DEF RunnerEnds
<1>11. CASE StopLaunch
  BY <1>11 DEF StopLaunch
<1>12. CASE Term
  <2>1. PICK S : past' = [past EXCEPT !.struck = S]
    BY <1>12, TermStrikes
  <2> QED
    BY <1>12, <2>1 DEF Term
<1>13. CASE AwaitDeath
  BY <1>13 DEF AwaitDeath
<1>14. CASE RemovePidFile
  BY <1>14 DEF RemovePidFile
<1>15. CASE Signal
  BY <1>15 DEF Signal
<1>16. CASE Killed
  BY <1>16 DEF Killed
<1>17. CASE NextRun
  BY <1>17 DEF NextRun
<1>18. CASE \E k \in Run : CarlaBinds(k)
  BY <1>18 DEF CarlaBinds
<1>19. CASE \E k \in Run : CarlaDies(k)
  BY <1>19 DEF CarlaDies
<1>20. CASE \E k \in Run : StackUp(k)
  BY <1>20 DEF StackUp
<1>21. CASE \E k \in Run : InterfaceBorn(k)
  BY <1>21 DEF InterfaceBorn
<1>22. CASE \E k \in Run : InterfaceFires(k)
  BY <1>22 DEF InterfaceFires
<1>23. CASE UNCHANGED vars
  BY <1>23 DEF vars
<1> QED
  BY <1>1, <1>2, <1>3, <1>4, <1>5, <1>6, <1>7, <1>8, <1>9, <1>10, <1>11, <1>12,
     <1>13, <1>14, <1>15, <1>16, <1>17, <1>18, <1>19, <1>20, <1>21, <1>22, <1>23
  DEF Next, Harness

(* The runner takes whom it finds on the port.                             *)
LEMMA OwnStep ==
  ASSUME TypeOK, PortInv, OwnServerOrWarned, [Next]_vars
  PROVE  OwnServerOrWarned'
<1> USE BringUpConstants
<1> USE DEF TypeOK, PortInv, OwnServerOrWarned, Run, Past, Unspawned, Upright, world, Goto, Tick
<1>1. CASE Preflight
  BY <1>1 DEF Preflight
<1>2. CASE AwaitRelease
  BY <1>2 DEF AwaitRelease
<1>3. CASE Boot
  BY <1>3 DEF Boot
<1>4. CASE WritePid
  BY <1>4 DEF WritePid
<1>5. CASE AwaitBind
  BY <1>5 DEF AwaitBind
<1>6. CASE Launch
  BY <1>6 DEF Launch
<1>7. CASE PollsOver
  BY <1>7 DEF PollsOver
<1>8. CASE \E missed \in BOOLEAN : Poll(missed)
  BY <1>8 DEF Poll, Count, PollTime, Settled
<1>9. CASE StartRunner
  BY <1>9 DEF StartRunner
<1>10. CASE RunnerEnds
  BY <1>10 DEF RunnerEnds
<1>11. CASE StopLaunch
  BY <1>11 DEF StopLaunch
<1>12. CASE Term
  BY <1>12, TermKeeps
<1>13. CASE AwaitDeath
  BY <1>13, SMTT(30) DEF AwaitDeath
<1>14. CASE RemovePidFile
  BY <1>14 DEF RemovePidFile
<1>15. CASE Signal
  BY <1>15 DEF Signal
<1>16. CASE Killed
  BY <1>16 DEF Killed
<1>17. CASE NextRun
  BY <1>17 DEF NextRun
<1>18. CASE \E k \in Run : CarlaBinds(k)
  BY <1>18 DEF CarlaBinds
<1>19. CASE \E k \in Run : CarlaDies(k)
  BY <1>19 DEF CarlaDies
<1>20. CASE \E k \in Run : StackUp(k)
  BY <1>20 DEF StackUp
<1>21. CASE \E k \in Run : InterfaceBorn(k)
  BY <1>21 DEF InterfaceBorn
<1>22. CASE \E k \in Run : InterfaceFires(k)
  BY <1>22 DEF InterfaceFires
<1>23. CASE UNCHANGED vars
  BY <1>23 DEF vars
<1> QED
  BY <1>1, <1>2, <1>3, <1>4, <1>5, <1>6, <1>7, <1>8, <1>9, <1>10, <1>11, <1>12,
     <1>13, <1>14, <1>15, <1>16, <1>17, <1>18, <1>19, <1>20, <1>21, <1>22, <1>23
  DEF Next, Harness

(* cleanup strikes whom the pid file names.                                *)
LEMMA StruckStep ==
  ASSUME TypeOK, PidInv, OnlyOwnCarlaIsStruck, [Next]_vars
  PROVE  OnlyOwnCarlaIsStruck'
<1> USE BringUpConstants
<1> USE DEF TypeOK, PidInv, OnlyOwnCarlaIsStruck, Run, Past, Leaving, world, Goto, Tick
<1>1. CASE Preflight
  BY <1>1 DEF Preflight
<1>2. CASE AwaitRelease
  BY <1>2 DEF AwaitRelease
<1>3. CASE Boot
  BY <1>3 DEF Boot
<1>4. CASE WritePid
  <2>1. past'.struck = past.struck /\ past.early \subseteq past'.early
    BY <1>4 DEF WritePid
  <2> QED
    BY <2>1
<1>5. CASE AwaitBind
  BY <1>5 DEF AwaitBind
<1>6. CASE Launch
  BY <1>6 DEF Launch
<1>7. CASE PollsOver
  BY <1>7 DEF PollsOver
<1>8. CASE \E missed \in BOOLEAN : Poll(missed)
  BY <1>8 DEF Poll, Count, PollTime, Settled
<1>9. CASE StartRunner
  BY <1>9 DEF StartRunner
<1>10. CASE RunnerEnds
  BY <1>10 DEF RunnerEnds
<1>11. CASE StopLaunch
  BY <1>11 DEF StopLaunch
<1>12. CASE Term
  <2>1. CASE pidfile \in alive
    <3>1. past'.struck = past.struck \cup {<<run, pidfile>>} /\ past'.early = past.early
      BY <1>12, <2>1 DEF Term
    <3>2. run = pidfile \/ run \in past.early
      BY <1>12 DEF Term
    <3> QED
      BY <3>1, <3>2
  <2>2. CASE pidfile \notin alive
    BY <1>12, <2>2 DEF Term
  <2> QED
    BY <2>1, <2>2
<1>13. CASE AwaitDeath
  BY <1>13 DEF AwaitDeath
<1>14. CASE RemovePidFile
  BY <1>14 DEF RemovePidFile
<1>15. CASE Signal
  BY <1>15 DEF Signal
<1>16. CASE Killed
  BY <1>16 DEF Killed
<1>17. CASE NextRun
  BY <1>17 DEF NextRun
<1>18. CASE \E k \in Run : CarlaBinds(k)
  BY <1>18 DEF CarlaBinds
<1>19. CASE \E k \in Run : CarlaDies(k)
  BY <1>19 DEF CarlaDies
<1>20. CASE \E k \in Run : StackUp(k)
  BY <1>20 DEF StackUp
<1>21. CASE \E k \in Run : InterfaceBorn(k)
  BY <1>21 DEF InterfaceBorn
<1>22. CASE \E k \in Run : InterfaceFires(k)
  BY <1>22 DEF InterfaceFires
<1>23. CASE UNCHANGED vars
  BY <1>23 DEF vars
<1> QED
  BY <1>1, <1>2, <1>3, <1>4, <1>5, <1>6, <1>7, <1>8, <1>9, <1>10, <1>11, <1>12,
     <1>13, <1>14, <1>15, <1>16, <1>17, <1>18, <1>19, <1>20, <1>21, <1>22, <1>23
  DEF Next, Harness

(* A run comes to its end through rm, by SIGKILL, or before its CARLA.     *)
LEMMA DownStep ==
  ASSUME TypeOK, CarlaInv, TornDown, [Next]_vars
  PROVE  TornDown'
<1> USE BringUpConstants
<1> USE DEF TypeOK, CarlaInv, TornDown, Run, Past, world, Goto, Tick
<1>1. CASE Preflight
  BY <1>1 DEF Preflight
<1>2. CASE AwaitRelease
  BY <1>2 DEF AwaitRelease
<1>3. CASE Boot
  BY <1>3 DEF Boot
<1>4. CASE WritePid
  BY <1>4 DEF WritePid
<1>5. CASE AwaitBind
  BY <1>5 DEF AwaitBind
<1>6. CASE Launch
  BY <1>6 DEF Launch
<1>7. CASE PollsOver
  BY <1>7 DEF PollsOver
<1>8. CASE \E missed \in BOOLEAN : Poll(missed)
  BY <1>8 DEF Poll, Count, PollTime, Settled
<1>9. CASE StartRunner
  BY <1>9 DEF StartRunner
<1>10. CASE RunnerEnds
  BY <1>10 DEF RunnerEnds
<1>11. CASE StopLaunch
  BY <1>11 DEF StopLaunch
<1>12. CASE Term
  BY <1>12 DEF Term
<1>13. CASE AwaitDeath
  BY <1>13 DEF AwaitDeath
<1>14. CASE RemovePidFile
  BY <1>14 DEF RemovePidFile
<1>15. CASE Signal
  BY <1>15 DEF Signal
<1>16. CASE Killed
  BY <1>16 DEF Killed
<1>17. CASE NextRun
  BY <1>17 DEF NextRun
<1>18. CASE \E k \in Run : CarlaBinds(k)
  BY <1>18 DEF CarlaBinds
<1>19. CASE \E k \in Run : CarlaDies(k)
  BY <1>19 DEF CarlaDies
<1>20. CASE \E k \in Run : StackUp(k)
  BY <1>20 DEF StackUp
<1>21. CASE \E k \in Run : InterfaceBorn(k)
  BY <1>21 DEF InterfaceBorn
<1>22. CASE \E k \in Run : InterfaceFires(k)
  BY <1>22 DEF InterfaceFires
<1>23. CASE UNCHANGED vars
  BY <1>23 DEF vars
<1> QED
  BY <1>1, <1>2, <1>3, <1>4, <1>5, <1>6, <1>7, <1>8, <1>9, <1>10, <1>11, <1>12,
     <1>13, <1>14, <1>15, <1>16, <1>17, <1>18, <1>19, <1>20, <1>21, <1>22, <1>23
  DEF Next, Harness

-------------------------------------------------------------------------------
(* The theorems.                                                           *)

(* However often the harness is run, killed and started again, and however *)
(* the processes it leaves behind go on, IInv holds.                       *)
THEOREM Invariance == Spec => []IInv
<1>1. ASSUME IInv, [Next]_vars PROVE IInv'
  BY <1>1, TypeStep, CarlaStep, PidStep, PortStep, StackStep, PollStep, QuietStep, EgoStep,
     OwnStep, StruckStep, DownStep
  DEF IInv
<1> QED
  BY InitInv, <1>1, PTL DEF Spec

(* Every variable of the bring-up keeps to its type.                       *)
THEOREM TypeCorrect == Spec => []TypeOK
BY Invariance, PTL DEF IInv

(* launch_autoware.sh:260-266, run_e2e.sh:9-15: three good polls in a row  *)
(* are enough to keep load_world from the ego, for any READY_TIMEOUT_S,    *)
(* unless an older launch was there, the interface came after its stack,   *)
(* or three lists missed it.                                               *)
THEOREM WorldStaysLoaded == Spec => []EgoOutlivesInterface
BY Invariance, PTL DEF IInv

(* run_e2e.sh:233-242, 297-306: an ego on a CARLA that is not this run's   *)
(* is one that was warned of, or that bound the port after it was found    *)
(* free.                                                                   *)
THEOREM EgoOnOwnServer == Spec => []OwnServerOrWarned
BY Invariance, PTL DEF IInv

(* run_e2e.sh:274-290: cleanup signals no CARLA of another run, unless its *)
(* run left after the trap and without a pid file of its own.              *)
THEOREM StrikesItsOwn == Spec => []OnlyOwnCarlaIsStruck
BY Invariance, PTL DEF IInv

(* run_e2e.sh:6-7: no run that could run its trap leaves its CARLA, unless *)
(* it left in that gap or has sent it SIGKILL.                             *)
THEOREM LeavesNoCarla == Spec => []TornDown
BY Invariance, PTL DEF IInv
===============================================================================
