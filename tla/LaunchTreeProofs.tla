--------------------------- MODULE LaunchTreeProofs ---------------------------
(***************************************************************************)
(* What LaunchTree guarantees for any number of pids, pid files, launches  *)
(* and stops.  Three arguments: a process of a launch leads only to        *)
(* processes of that launch or to ones younger than the stop; a sidecar    *)
(* that is neither overtaken nor late holds its own root's command line;   *)
(* and what a stop has snapshotted and not seen die is counted.            *)
(***************************************************************************)
EXTENDS LaunchTree, FiniteSetTheorems, TLAPS

Busy == {"read", "snapshot", "root", "wait", "ladder"}
InLadder == {"root", "wait", "ladder"}

(* Where the script is among the pid files.                                *)
PlaceInv ==
  /\ pc \in Busy => file \in 1..Files
  /\ pc \in Busy \cup {"summary"} => skipped < file
  /\ pc = "summary" => file = Files + 1
  /\ pc \in InLadder \cup {"snapshot"} => root \in Pids
  /\ pc = "ladder" => rung # "root"
  /\ pc \in {"root", "wait"} /\ rung = "root" => left = {root} \cup tree

(* The process tree: parents live, children belong to the same launch and  *)
(* are younger.                                                            *)
ProcInv ==
  /\ \A p \in up : parent[p] # NoPid => parent[p] \in up /\ owner[p] = owner[parent[p]]
  /\ \A p \in up : parent[p] \in taken => p \in taken
  /\ \A p \in up : owner[p] <= launches
  /\ \A p \in up : owner[p] = 0 => cmd[p] = OtherCmd
  /\ \A p \in up : owner[p] # 0 => cmd[p] # OtherCmd

(* Whose command line it is that a root, a reading or a sidecar shows.     *)
CmdInv ==
  /\ \A f \in 1..Files : current[f] <= launches
  /\ \A f \in 1..Files : pidfile[f] # NoPid => current[f] # 0
  /\ \A f, g \in 1..Files, p \in up : cmd[p] \in RootCmds(g) /\ owner[p] = current[f] => f = g
  /\ \A f \in 1..Files, p \in up : pidfile[f] = p /\ cmd[p] \in RootCmds(f) => owner[p] = current[f]
  /\ \A f \in 1..Files : sidecar[f] \notin {NoCmd, KernelCmd} => sidecar[f] \in RootCmds(f)
  /\ polling # 0 /\ pidfile[polling] \in up => cmd[pidfile[polling]] \in RootCmds(polling)
  /\ steady # NoCmd => polling # 0
  /\ steady \notin {NoCmd, KernelCmd} => steady \in RootCmds(polling)

(* A sidecar that is this launch's own and was taken after the exec.       *)
SideInv ==
  /\ \A f \in 1..Files : sidecar[f] # NoCmd /\ f \notin over \cup late => pidfile[f] # NoPid
  /\ \A f \in 1..Files, p \in up :
       /\ sidecar[f] # NoCmd /\ sidecar[f].kind # "forked" /\ f \notin over \cup late
       /\ pidfile[f] = p /\ cmd[p] \in RootCmds(f)
       => cmd[p] = sidecar[f]
  /\ \A p \in up : polling # 0 /\ steady # NoCmd /\ steady.kind # "forked" /\ pidfile[polling] = p
       => cmd[p] = steady
  /\ \A f \in 1..Files : sidecar[f] = KernelCmd /\ f \notin over \cup late => pidfile[f] \notin Pids
  /\ polling # 0 /\ steady = KernelCmd => pidfile[polling] \notin Pids
  /\ "none" \notin wrongSkip

(* What a guarded ladder may strike.                                       *)
GuardInv ==
  /\ guarded /\ pc \in InLadder \cup {"snapshot"} /\ root \in up \ taken =>
       owner[root] = current[file]
  /\ guarded /\ pc \in InLadder => \A p \in tree : p \in up \ taken => owner[p] = current[file]
  /\ ~stranger

(* What has been snapshotted and still lives is in the tree at hand, or    *)
(* has been counted.                                                       *)
SweptInv ==
  /\ swept \subseteq up
  /\ pc \in {"read", "snapshot", "summary"} /\ totalLeft = 0 => swept = {}
  /\ pc \in InLadder /\ totalLeft = 0 => swept \subseteq {root} \cup tree
  /\ StoppedIsTrue

IInv == TypeOK /\ PlaceInv /\ ProcInv /\ CmdInv /\ SideInv /\ GuardInv /\ SweptInv

-------------------------------------------------------------------------------
(* The kinds of command lines differ.                                      *)
LEMMA Kinds ==
  /\ NodeCmd # OtherCmd /\ NoCmd \notin Cmds /\ KernelCmd \notin Cmds /\ KernelCmd # NoCmd
  /\ \A f \in 1..Files : NodeCmd \notin RootCmds(f) /\ OtherCmd \notin RootCmds(f)
  /\ \A f \in 1..Files : NoCmd \notin RootCmds(f)
  /\ \A f, g \in 1..Files : \A c : c \in RootCmds(f) /\ c \in RootCmds(g) => f = g
<1>1. /\ NodeCmd.kind = "node" /\ OtherCmd.kind = "other" /\ NoCmd.kind = "none"
      /\ KernelCmd.kind = "kernel"
  BY DEF NodeCmd, OtherCmd, NoCmd, KernelCmd
<1>2. \A f : \A c \in RootCmds(f) : c.kind \in Stages /\ c.file = f
  BY DEF RootCmds, RootCmd
<1> QED
  BY <1>1, <1>2 DEF Cmds, Stages

(* A root's command line, before and after its exec.                       *)
LEMMA RootKinds ==
  ASSUME NEW f \in 1..Files, NEW m \in Maps, NEW s \in Stages
  PROVE  /\ RootCmd(s, f, m) \in RootCmds(f)
         /\ RootCmd(s, f, m) \in Cmds
         /\ RootCmd(s, f, m).kind = s
BY DEF RootCmds, RootCmd, Cmds

(* Whoever survives can be counted.                                        *)
LEMMA CountSurvivors ==
  ASSUME TypeOK
  PROVE  /\ Cardinality(Survivors) \in Nat
         /\ Survivors # {} => Cardinality(Survivors) > 0
<1>1. IsFiniteSet(Survivors)
  BY LaunchConstants, FS_Subset DEF TypeOK, Survivors
<1>2. Cardinality(Survivors) \in Nat /\ (Cardinality(Survivors) = 0 <=> Survivors = {})
  BY <1>1, FS_CardinalityType, FS_EmptySet
<1> QED
  BY <1>2

(* Nothing is running, written or remembered at first.                     *)
LEMMA InitInv == Init => IInv
<1> SUFFICES ASSUME Init PROVE IInv
  OBVIOUS
<1> USE LaunchConstants DEF LaunchConstants
<1> USE DEF Init
<1>1. TypeOK
  <2>1. OtherCmd \in Cmds
    BY DEF Cmds
  <2>2. guarded \in BOOLEAN /\ stranger \in BOOLEAN
    OBVIOUS
  <2> QED
    BY <2>1, <2>2 DEF TypeOK, Steps, Rungs, Excuses
<1>2. PlaceInv
  BY DEF PlaceInv, Busy, InLadder
<1>3. ProcInv
  BY DEF ProcInv
<1>4. CmdInv
  BY DEF CmdInv
<1>5. SideInv
  BY Kinds DEF SideInv
<1>6. GuardInv
  BY DEF GuardInv
<1>7. SweptInv
  BY DEF SweptInv, InLadder, StoppedIsTrue
<1> QED
  BY <1>1, <1>2, <1>3, <1>4, <1>5, <1>6, <1>7 DEF IInv

(* A new process has the types of one.                                     *)
LEMMA BeginsType ==
  ASSUME TypeOK, NEW p \in Pids, NEW par \in Pids \cup {NoPid}, NEW own \in 0..MaxLaunches,
         NEW line \in Cmds, Begins(p, par, own, line)
  PROVE  /\ up' \subseteq Pids /\ taken' \subseteq Pids
         /\ parent' \in [Pids -> Pids \cup {NoPid}]
         /\ owner' \in [Pids -> 0..MaxLaunches] /\ cmd' \in [Pids -> Cmds]
BY DEF TypeOK, Begins

(* So has what is left when the script goes on to the next file.           *)
LEMMA NextFileType ==
  ASSUME TypeOK, PlaceInv, NextFile, pc \in Busy
  PROVE  /\ file' \in 1..(Files + 1) /\ pc' \in Steps /\ tree' \subseteq Pids /\ rung' \in Rungs
         /\ left' \subseteq Pids /\ guarded' \in BOOLEAN
<1>1. guarded' \in BOOLEAN /\ pc' \in Steps /\ rung' \in Rungs
  BY DEF NextFile, Steps, Rungs
<1>2. file \in 1..Files
  BY DEF PlaceInv
<1> QED
  BY LaunchConstants, <1>1, <1>2 DEF NextFile, LaunchConstants

(* And what is left when a pid file and its sidecar are removed.           *)
LEMMA RemoveType ==
  ASSUME TypeOK, Remove
  PROVE  /\ pidfile' \in [1..Files -> Pids \cup {NoPid, Junk}]
         /\ sidecar' \in [1..Files -> Cmds \cup {KernelCmd, NoCmd}]
         /\ over' \subseteq 1..Files /\ late' \subseteq 1..Files
         /\ current' \in [1..Files -> 0..MaxLaunches]
BY DEF TypeOK, Remove

(* Every step keeps the types.                                             *)
LEMMA TypeStep == TypeOK /\ PlaceInv /\ [Next]_vars => TypeOK'
<1> SUFFICES ASSUME TypeOK, PlaceInv, [Next]_vars PROVE TypeOK'
  OBVIOUS
<1> USE LaunchConstants DEF LaunchConstants
<1> USE DEF TypeOK, world, procs, launch, files, counts, past, ladder
<1>1. NodeCmd \in Cmds /\ OtherCmd \in Cmds
  BY DEF Cmds
<1>2. ASSUME NEW p \in Pids, NEW q \in Pids, Fork(p, q) PROVE TypeOK'
  <2>1. owner[p] \in 0..MaxLaunches
    OBVIOUS
  <2>2. /\ up' \subseteq Pids /\ taken' \subseteq Pids
        /\ parent' \in [Pids -> Pids \cup {NoPid}]
        /\ owner' \in [Pids -> 0..MaxLaunches] /\ cmd' \in [Pids -> Cmds]
    BY BeginsType, <1>1, <1>2, <2>1 DEF Fork
  <2> QED
    BY <1>2, <2>2 DEF Fork, script
<1>3. ASSUME NEW q \in Pids, Stranger(q) PROVE TypeOK'
  <2>1. /\ up' \subseteq Pids /\ taken' \subseteq Pids
        /\ parent' \in [Pids -> Pids \cup {NoPid}]
        /\ owner' \in [Pids -> 0..MaxLaunches] /\ cmd' \in [Pids -> Cmds]
    <3>1. 0 \in 0..MaxLaunches /\ NoPid \in Pids \cup {NoPid}
      OBVIOUS
    <3>2. Begins(q, NoPid, 0, OtherCmd)
      BY <1>3 DEF Stranger
    <3> HIDE DEF TypeOK
    <3> QED
      BY BeginsType, <1>1, <3>1, <3>2
  <2> QED
    BY <1>3, <2>1 DEF Stranger, script
<1>4. ASSUME NEW p \in Pids, Dies(p) PROVE TypeOK'
  <2>1. up' \subseteq Pids /\ swept' \subseteq Pids /\ owner' \in [Pids -> 0..MaxLaunches]
    BY <1>4 DEF Dies
  <2>2. parent' \in [Pids -> Pids \cup {NoPid}]
    BY <1>4 DEF Dies
  <2>3. cmd' \in [Pids -> Cmds]
    BY <1>1, <1>4 DEF Dies
  <2> QED
    BY <1>4, <2>1, <2>2, <2>3 DEF Dies, script
<1>5. ASSUME NEW p \in Pids, Exec(p) PROVE TypeOK'
  <2>1. cmd' \in [Pids -> Cmds]
    <3>1. PICK f \in 1..Files, m \in Maps : cmd' = [cmd EXCEPT ![p] = RootCmd("running", f, m)]
      BY <1>5 DEF Exec
    <3>2. RootCmd("running", f, m) \in Cmds
      BY RootKinds DEF Stages
    <3> QED
      BY <3>1, <3>2
  <2> QED
    BY <1>5, <2>1 DEF Exec, script
<1>6. ASSUME NEW f \in 1..Files, NEW m \in Maps, NEW p \in Pids, Launch(f, m, p) PROVE TypeOK'
  <2>1. launches' \in 0..MaxLaunches /\ RootCmd("forked", f, m) \in Cmds
    <3>1. RootCmd("forked", f, m) \in Cmds
      BY RootKinds DEF Stages
    <3> QED
      BY <1>6, <3>1 DEF Launch
  <2>2. /\ up' \subseteq Pids /\ taken' \subseteq Pids
        /\ parent' \in [Pids -> Pids \cup {NoPid}]
        /\ owner' \in [Pids -> 0..MaxLaunches] /\ cmd' \in [Pids -> Cmds]
    BY BeginsType, <1>6, <2>1 DEF Launch
  <2>3. /\ pidfile' \in [1..Files -> Pids \cup {NoPid, Junk}]
        /\ current' \in [1..Files -> 0..MaxLaunches]
        /\ over' \subseteq 1..Files
    BY <1>6, <2>1 DEF Launch
  <2> QED
    BY <1>6, <2>1, <2>2, <2>3 DEF Launch, stopping
<1>7. CASE PollRead
  BY <1>7 DEF PollRead, stopping
<1>8. CASE PollWrite
  <2>1. polling \in 1..Files
    BY <1>8 DEF PollWrite
  <2>2. sidecar' \in [1..Files -> Cmds \cup {KernelCmd, NoCmd}] /\ over' \subseteq 1..Files
    BY <1>8, <2>1 DEF PollWrite
  <2>3. late' \subseteq 1..Files
    BY <1>8, <2>1 DEF PollWrite
  <2> QED
    BY <1>8, <2>2, <2>3 DEF PollWrite, stopping
<1>9. CASE PollEnds
  BY <1>9 DEF PollEnds, stopping
<1>10. CASE StopBegins
  <2>1. stops' \in 0..MaxStops /\ file' \in 1..(Files + 1)
    BY <1>10 DEF StopBegins
  <2>2. totalLeft' \in Nat /\ skipped' \in 0..Files
    BY <1>10 DEF StopBegins
  <2> QED
    BY <1>10, <2>1, <2>2 DEF StopBegins, Steps
<1>11. CASE NothingRecorded \/ GoneAfterInt \/ TreeGone
  <2>1. /\ Remove /\ NextFile /\ pc \in Busy
        /\ UNCHANGED <<world, swept, counts, heading, stops, past>>
    BY <1>11 DEF NothingRecorded, GoneAfterInt, TreeGone, RemoveAfterInt, LadderOver, Busy
  <2> QED
    BY NextFileType, RemoveType, <2>1
<1>12. CASE SkipReused
  <2>1. pc \in Busy
    BY <1>12 DEF SkipReused, Busy
  <2>2. skipped' \in 0..Files
    BY <1>12, <2>1 DEF SkipReused, PlaceInv
  <2>3. wrongSkip' \subseteq Excuses
    BY <1>12 DEF SkipReused
  <2> QED
    BY NextFileType, <1>12, <2>1, <2>2, <2>3 DEF SkipReused
<1>13. CASE Accept
  BY <1>13 DEF Accept, Steps
<1>14. CASE Snapshot
  <2>1. Descendants(root) \subseteq Pids /\ root \in Pids
    BY <1>14 DEF Descendants, Snapshot, PlaceInv
  <2>2. tree' \subseteq Pids /\ swept' \subseteq Pids /\ rung' \in Rungs /\ pc' \in Steps
    BY <1>14, <2>1 DEF Snapshot, Rungs, Steps
  <2>3. left' \subseteq Pids
    BY <1>14, <2>1, <2>2 DEF Snapshot
  <2> QED
    BY <1>14, <2>2, <2>3 DEF Snapshot
<1>15. CASE IntRoot \/ Signal
  <2>1. stranger' \in BOOLEAN
    BY <1>15 DEF IntRoot, Signal, Strikes
  <2>2. Survivors \subseteq Pids
    BY DEF Survivors
  <2> QED
    BY <1>15, <2>1, <2>2 DEF IntRoot, Signal, Steps
<1>16. CASE WaitEnds
  <2>1. rung' \in Rungs
    BY <1>16 DEF WaitEnds, NextRung, Rungs
  <2> QED
    BY <1>16, <2>1 DEF WaitEnds, Steps
<1>17. CASE TreeSurvives
  <2>1. pc \in Busy
    BY <1>17 DEF TreeSurvives, LadderOver, Busy
  <2>2. Cardinality(Survivors) \in Nat
    BY CountSurvivors
  <2>3. totalLeft' \in Nat
    BY <1>17, <2>2 DEF TreeSurvives
  <2> QED
    BY NextFileType, <1>17, <2>1, <2>3 DEF TreeSurvives
<1>18. CASE Summary
  BY <1>18 DEF Summary, Steps
<1>19. CASE UNCHANGED vars
  BY <1>19 DEF vars
<1> QED
  BY <1>2, <1>3, <1>4, <1>5, <1>6, <1>7, <1>8, <1>9, <1>10, <1>11, <1>12, <1>13, <1>14, <1>15,
     <1>16, <1>17, <1>18, <1>19 DEF Next, Container, Launching, Stopping

(* The script keeps its place among the files.                             *)
LEMMA PlaceStep == TypeOK /\ PlaceInv /\ [Next]_vars => PlaceInv'
<1> SUFFICES ASSUME TypeOK, PlaceInv, [Next]_vars PROVE PlaceInv'
  OBVIOUS
<1> USE LaunchConstants
<1> USE DEF PlaceInv, Busy, InLadder, root, world, procs, launch, files, counts, past, ladder
<1>1. file \in Int /\ skipped \in Int /\ Files \in Int /\ Files >= 1
  BY DEF TypeOK
<1>2. CASE Container \/ PollRead \/ PollWrite \/ PollEnds \/ UNCHANGED vars
  <2>1. UNCHANGED <<pidfile, pc, file, tree, rung, left, skipped>>
    BY <1>2 DEF Container, Fork, Stranger, Dies, Exec, script, PollRead, PollWrite, PollEnds,
       stopping, vars
  <2> QED
    BY <2>1
<1>3. ASSUME NEW f \in 1..Files, NEW m \in Maps, NEW p \in Pids, Launch(f, m, p) PROVE PlaceInv'
  BY <1>3 DEF Launch, stopping
<1>4. CASE StopBegins
  BY <1>1, <1>4 DEF StopBegins
<1>5. ASSUME NextFile, pc \in Busy, skipped' \in Int, skipped' <= skipped + 1 PROVE PlaceInv'
  <2>1. file \in 1..Files /\ skipped < file
    BY <1>5
  <2>2. skipped' < file' /\ (file # Files => file' \in 1..Files) /\ (file = Files => file' = Files + 1)
    BY <1>1, <1>5, <2>1 DEF NextFile
  <2> QED
    BY <1>5, <2>2 DEF NextFile
<1>6. CASE NothingRecorded \/ GoneAfterInt \/ TreeGone \/ TreeSurvives
  <2>1. NextFile /\ pc \in Busy /\ skipped' = skipped
    BY <1>6 DEF NothingRecorded, GoneAfterInt, TreeGone, TreeSurvives, LadderOver
  <2> QED
    BY <1>1, <1>5, <2>1
<1>7. CASE SkipReused
  <2>1. NextFile /\ pc \in Busy /\ skipped' = skipped + 1
    BY <1>7 DEF SkipReused
  <2> QED
    BY <1>1, <1>5, <2>1
<1>8. CASE Accept
  <2>1. root \in Pids
    BY <1>8 DEF Accept, TypeOK
  <2> QED
    BY <1>8, <2>1 DEF Accept
<1>9. CASE Snapshot
  BY <1>9 DEF Snapshot
<1>10. CASE IntRoot
  BY <1>10 DEF IntRoot
<1>11. CASE WaitEnds
  BY <1>11 DEF WaitEnds, NextRung
<1>12. CASE Signal
  BY <1>12 DEF Signal
<1>13. CASE Summary
  BY <1>13 DEF Summary
<1> QED
  BY <1>2, <1>3, <1>4, <1>6, <1>7, <1>8, <1>9, <1>10, <1>11, <1>12, <1>13
     DEF Next, Launching, Stopping

(* What the container's processes and the polls leave alone, and what the  *)
(* stop does: used for each part below.                                    *)
LEMMA StopKeeps ==
  ASSUME Stopping
  PROVE  /\ UNCHANGED <<up, parent, owner, cmd, launches, polling, steady, current>>
         /\ taken' = taken \/ taken' = {}
BY DEF Stopping, StopBegins, NothingRecorded, SkipReused, Accept, Snapshot, IntRoot, GoneAfterInt,
   RemoveAfterInt, Remove, WaitEnds, Signal, TreeGone, TreeSurvives, Summary, world, procs, launch,
   files

(* A stop changes the pid file and the sidecar only by removing both.      *)
LEMMA StopFiles ==
  ASSUME Stopping
  PROVE  Remove \/ UNCHANGED files
BY DEF Stopping, StopBegins, NothingRecorded, SkipReused, Accept, Snapshot, IntRoot, GoneAfterInt,
   RemoveAfterInt, WaitEnds, Signal, TreeGone, TreeSurvives, Summary

(* A new process joins the tree: its parent lives, and no one's parent is  *)
(* the free pid it got.                                                    *)
LEMMA BeginsProc ==
  ASSUME TypeOK, ProcInv, NEW p \in Pids, NEW par, NEW own \in 0..MaxLaunches, NEW line \in Cmds,
         Begins(p, par, own, line),
         par = NoPid \/ (par \in up /\ own = owner[par]),
         launches' \in Nat, launches <= launches', own <= launches',
         own = 0 <=> line = OtherCmd
  PROVE  ProcInv'
<1> USE DEF Begins
<1>1. /\ up' = up \cup {p} /\ taken' = taken \cup {p} /\ p \notin up
      /\ \A q \in up' : q \in Pids
      /\ NoPid \notin taken' /\ NoPid \notin up'
  BY LaunchConstants DEF TypeOK
<1>2. /\ parent'[p] = par /\ owner'[p] = own /\ cmd'[p] = line
      /\ \A q \in up : parent'[q] = parent[q] /\ owner'[q] = owner[q] /\ cmd'[q] = cmd[q]
  BY DEF TypeOK
<1>3. \A q \in up : parent[q] # p
  BY <1>1, LaunchConstants DEF ProcInv
<1>4. \A q \in up' : parent'[q] # NoPid => parent'[q] \in up' /\ owner'[q] = owner'[parent'[q]]
  BY <1>1, <1>2, <1>3 DEF ProcInv
<1>5. \A q \in up' : parent'[q] \in taken' => q \in taken'
  BY <1>1, <1>2, <1>3 DEF ProcInv
<1>6. \A q \in up' : owner'[q] <= launches'
  <2>1. launches \in Int /\ \A q \in up : owner[q] \in Int /\ owner[q] <= launches
    BY DEF TypeOK, ProcInv
  <2> QED
    BY <1>1, <1>2, <2>1
<1>7. \A q \in up' : (owner'[q] = 0 => cmd'[q] = OtherCmd) /\ (owner'[q] # 0 => cmd'[q] # OtherCmd)
  BY <1>1, <1>2 DEF ProcInv
<1> QED
  BY <1>4, <1>5, <1>6, <1>7 DEF ProcInv

(* Every step keeps the process tree.                                      *)
LEMMA ProcStep == TypeOK /\ ProcInv /\ [Next]_vars => ProcInv'
<1> SUFFICES ASSUME TypeOK, ProcInv, [Next]_vars PROVE ProcInv'
  OBVIOUS
<1> USE LaunchConstants
<1>1. launches \in Nat /\ OtherCmd \in Cmds /\ NodeCmd \in Cmds
  BY DEF TypeOK, Cmds
<1>2. ASSUME NEW p \in Pids, NEW q \in Pids, Fork(p, q) PROVE ProcInv'
  <2>1. owner[p] \in 0..MaxLaunches /\ owner[p] <= launches
    BY <1>2 DEF TypeOK, ProcInv, Fork
  <2>2. launches' = launches
    BY <1>2 DEF Fork, script, launch
  <2>3. PICK line \in Cmds : Begins(q, p, owner[p], line) /\ (owner[p] = 0 <=> line = OtherCmd)
    BY <1>1, <1>2, Kinds DEF Fork
  <2> QED
    BY <1>1, <1>2, <2>1, <2>2, <2>3, BeginsProc DEF Fork
<1>3. ASSUME NEW q \in Pids, Stranger(q) PROVE ProcInv'
  <2>1. launches' = launches /\ Begins(q, NoPid, 0, OtherCmd)
    BY <1>3 DEF Stranger, script, launch
  <2>2. PICK own \in 0..MaxLaunches : own = 0 /\ own <= launches /\ Begins(q, NoPid, own, OtherCmd)
    BY <1>1, <2>1
  <2> QED
    BY <1>1, <2>1, <2>2, BeginsProc
<1>4. ASSUME NEW p \in Pids, Dies(p) PROVE ProcInv'
  <2>1. /\ up' = up \ {p} /\ taken' = taken /\ launches' = launches
        /\ \A q \in up' : q \in Pids /\ owner'[q] = owner[q] /\ cmd'[q] = cmd[q]
        /\ \A q \in up' : parent'[q] = IF parent[q] = p THEN NoPid ELSE parent[q]
        /\ \A q \in up' : parent[q] \in Pids \cup {NoPid}
        /\ NoPid \notin taken
    BY <1>4 DEF Dies, TypeOK, script, launch
  <2> QED
    BY <2>1 DEF ProcInv
<1>5. ASSUME NEW p \in Pids, Exec(p) PROVE ProcInv'
  <2>1. PICK f \in 1..Files, m \in Maps :
          /\ cmd[p] = RootCmd("forked", f, m)
          /\ cmd' = [cmd EXCEPT ![p] = RootCmd("running", f, m)]
    BY <1>5 DEF Exec
  <2>2. cmd[p] # OtherCmd /\ RootCmd("running", f, m) # OtherCmd
    BY <2>1, RootKinds, Kinds DEF Stages
  <2>3. \A q \in up : q \in Pids /\ (cmd'[q] = OtherCmd <=> cmd[q] = OtherCmd)
    BY <2>1, <2>2 DEF TypeOK
  <2> QED
    BY <1>5, <2>3 DEF Exec, ProcInv, script, launch
<1>6. ASSUME NEW f \in 1..Files, NEW m \in Maps, NEW p \in Pids, Launch(f, m, p) PROVE ProcInv'
  <2>1. /\ launches' = launches + 1 /\ launches' \in 0..MaxLaunches
        /\ Begins(p, NoPid, launches', RootCmd("forked", f, m))
    BY <1>1, <1>6 DEF Launch
  <2>2. RootCmd("forked", f, m) \in Cmds /\ RootCmd("forked", f, m) # OtherCmd
    BY RootKinds, Kinds DEF Stages
  <2>3. launches' \in Nat /\ launches <= launches' /\ launches' <= launches' /\ launches' # 0
    BY <1>1, <2>1
  <2> QED
    <3>1. PICK own \in 0..MaxLaunches : own = launches' /\ Begins(p, NoPid, own, RootCmd("forked", f, m))
      BY <2>1
    <3>2. PICK line \in Cmds : line # OtherCmd /\ Begins(p, NoPid, own, line)
      BY <2>2, <3>1
    <3> QED
      BY <2>3, <3>1, <3>2, BeginsProc
<1>7. CASE PollRead \/ PollWrite \/ PollEnds \/ UNCHANGED vars
  BY <1>7 DEF PollRead, PollWrite, PollEnds, procs, launch, vars, ProcInv
<1>8. CASE Stopping
  BY <1>8, StopKeeps DEF ProcInv
<1> QED
  BY <1>2, <1>3, <1>4, <1>5, <1>6, <1>7, <1>8 DEF Next, Container, Launching

(* What the container's processes do to what the scripts know: they leave  *)
(* the files alone, a root's command line is only ever exec'ed further,    *)
(* and whoever is new is known to be new.                                  *)
ContainerKept ==
  /\ UNCHANGED script
  /\ \A g \in 1..Files : \A q \in up' : cmd'[q] \in RootCmds(g) =>
       /\ q \in up /\ cmd[q] \in RootCmds(g) /\ owner'[q] = owner[q]
       /\ cmd'[q] = cmd[q] \/ cmd[q].kind = "forked"
  /\ polling # 0 /\ pidfile[polling] \in up' =>
       /\ pidfile[polling] \in up
       /\ \/ cmd'[pidfile[polling]] = cmd[pidfile[polling]]
          \/ cmd[pidfile[polling]].kind = "forked"
       /\ \A g \in 1..Files : cmd[pidfile[polling]] \in RootCmds(g) =>
            cmd'[pidfile[polling]] \in RootCmds(g)
  /\ \A q \in up' \ taken' : q \in up \ taken /\ owner'[q] = owner[q]
  /\ \A q \in up : q \in up' \/ q \notin swept'
  /\ swept' \subseteq swept

(* Every step of theirs is like that.                                      *)
LEMMA ContainerKeeps ==
  ASSUME TypeOK, Container
  PROVE  ContainerKept
<1> USE LaunchConstants
<1> USE DEF ContainerKept
<1>1. up \subseteq Pids /\ DOMAIN cmd = Pids /\ DOMAIN owner = Pids
  BY DEF TypeOK
<1>2. ASSUME NEW p \in Pids, NEW par, NEW own, NEW line \in {NodeCmd, OtherCmd},
             Begins(p, par, own, line), UNCHANGED <<swept, script>>
      PROVE  ContainerKept
  <2>1. \A q \in up : cmd'[q] = cmd[q] /\ owner'[q] = owner[q]
    BY <1>1, <1>2 DEF Begins, TypeOK
  <2>2. \A g \in 1..Files : cmd'[p] \notin RootCmds(g)
    BY <1>1, <1>2, Kinds DEF Begins, TypeOK
  <2>3. up' = up \cup {p} /\ taken' = taken \cup {p} /\ (polling # 0 => p # pidfile[polling])
    BY <1>2 DEF Begins
  <2> QED
    BY <1>2, <2>1, <2>2, <2>3
<1>3. ASSUME NEW p \in Pids, NEW q \in Pids, Fork(p, q) PROVE ContainerKept
  <2>1. PICK line \in {NodeCmd, OtherCmd} : Begins(q, p, owner[p], line)
    BY <1>3 DEF Fork
  <2> QED
    BY <1>2, <1>3, <2>1 DEF Fork
<1>4. ASSUME NEW q \in Pids, Stranger(q) PROVE ContainerKept
  <2>1. PICK own : own = 0 /\ Begins(q, NoPid, own, OtherCmd)
    BY <1>4 DEF Stranger
  <2> QED
    BY <1>2, <1>4, <2>1 DEF Stranger
<1>5. ASSUME NEW p \in Pids, Dies(p) PROVE ContainerKept
  <2>1. \A q \in up' : q \in up /\ cmd'[q] = cmd[q] /\ owner'[q] = owner[q]
    BY <1>1, <1>5 DEF Dies, TypeOK
  <2>2. UNCHANGED <<taken, script>> /\ up' = up \ {p} /\ swept' = swept \ {p}
    BY <1>5 DEF Dies
  <2> QED
    BY <2>1, <2>2
<1>6. ASSUME NEW p \in Pids, Exec(p) PROVE ContainerKept
  <2>1. PICK f \in 1..Files, m \in Maps :
          /\ cmd[p] = RootCmd("forked", f, m)
          /\ cmd' = [cmd EXCEPT ![p] = RootCmd("running", f, m)]
    BY <1>6 DEF Exec
  <2>2. /\ cmd[p].kind = "forked" /\ cmd[p] \in RootCmds(f) /\ cmd'[p] \in RootCmds(f)
    BY <1>1, <2>1, RootKinds DEF Stages
  <2>3. \A g \in 1..Files : cmd[p] \in RootCmds(g) <=> cmd'[p] \in RootCmds(g)
    BY <2>2, Kinds
  <2>4. \A q \in up : q # p => cmd'[q] = cmd[q]
    BY <1>1, <2>1 DEF TypeOK
  <2>5. UNCHANGED <<up, owner, taken, swept, script>>
    BY <1>6 DEF Exec
  <2> QED
    BY <2>2, <2>3, <2>4, <2>5
<1> QED
  BY <1>3, <1>4, <1>5, <1>6 DEF Container

(* A stop removes files of its own only; no process bears the pid NoPid.   *)
LEMMA RemoveKeeps ==
  ASSUME TypeOK, Remove
  PROVE  /\ current' = current
         /\ \A f \in 1..Files :
              \/ pidfile'[f] = NoPid /\ sidecar'[f] = NoCmd
              \/ /\ pidfile'[f] = pidfile[f] /\ sidecar'[f] = sidecar[f]
                 /\ f \in over <=> f \in over'
                 /\ f \in late <=> f \in late'
BY DEF TypeOK, Remove

(* Every step keeps what a command line says about its process.            *)
LEMMA CmdStep == TypeOK /\ ProcInv /\ CmdInv /\ [Next]_vars => CmdInv'
<1> SUFFICES ASSUME TypeOK, ProcInv, CmdInv, [Next]_vars PROVE CmdInv'
  OBVIOUS
<1> USE LaunchConstants
<1>1. /\ launches \in Nat /\ NoPid \notin up /\ Junk \notin up /\ up \subseteq Pids
      /\ \A f \in 1..Files : current[f] \in Nat
      /\ \A p \in up : owner[p] \in Nat
      /\ polling # 0 => polling \in 1..Files
  BY DEF TypeOK
<1>2. CASE Container
  <2>1. UNCHANGED <<launches, pidfile, sidecar, current, polling, steady>>
    BY <1>2, ContainerKeeps DEF ContainerKept, script, files, launch
  <2>2. \A g \in 1..Files : \A q \in up' : cmd'[q] \in RootCmds(g) =>
          q \in up /\ cmd[q] \in RootCmds(g) /\ owner'[q] = owner[q]
    BY <1>2, ContainerKeeps DEF ContainerKept
  <2>3. polling # 0 /\ pidfile[polling] \in up' =>
          /\ pidfile[polling] \in up
          /\ cmd[pidfile[polling]] \in RootCmds(polling) => cmd'[pidfile[polling]] \in RootCmds(polling)
    BY <1>1, <1>2, ContainerKeeps DEF ContainerKept
  <2> QED
    BY <2>1, <2>2, <2>3 DEF CmdInv
<1>3. ASSUME NEW f \in 1..Files, NEW m \in Maps, NEW p \in Pids, Launch(f, m, p) PROVE CmdInv'
  <2>1. /\ launches' = launches + 1 /\ up' = up \cup {p} /\ p \notin up /\ sidecar' = sidecar
        /\ polling' = f /\ steady' = NoCmd
    BY <1>3 DEF Launch, Begins
  <2>2. /\ owner'[p] = launches' /\ cmd'[p] \in RootCmds(f)
        /\ \A q \in up : owner'[q] = owner[q] /\ cmd'[q] = cmd[q]
    BY <1>1, <1>3, RootKinds DEF Launch, Begins, TypeOK, Stages
  <2>3. /\ current'[f] = launches' /\ pidfile'[f] \in {p, Junk}
        /\ \A g \in 1..Files \ {f} : current'[g] = current[g] /\ pidfile'[g] = pidfile[g]
    BY <1>3 DEF Launch, TypeOK
  <2>4. \A g \in 1..Files : cmd'[p] \in RootCmds(g) => g = f
    BY <2>2, Kinds
  <2>5. /\ \A g \in 1..Files : current[g] < launches'
        /\ \A q \in up : owner[q] < launches'
    BY <1>1, <2>1 DEF CmdInv, ProcInv
  <2>6. /\ \A g \in 1..Files : current'[g] <= launches'
        /\ \A g \in 1..Files : pidfile'[g] # NoPid => current'[g] # 0
    BY <1>1, <2>1, <2>3, <2>5 DEF CmdInv
  <2>7. \A h, g \in 1..Files, q \in up' : cmd'[q] \in RootCmds(g) /\ owner'[q] = current'[h] => h = g
    BY <1>1, <2>1, <2>2, <2>3, <2>4, <2>5 DEF CmdInv
  <2>8. \A g \in 1..Files, q \in up' :
          pidfile'[g] = q /\ cmd'[q] \in RootCmds(g) => owner'[q] = current'[g]
    <3>1. Junk \notin up'
      BY <1>1, <2>1
    <3> QED
      BY <2>1, <2>2, <2>3, <2>4, <3>1 DEF CmdInv
  <2>9. polling' # 0 /\ pidfile'[polling'] \in up' => cmd'[pidfile'[polling']] \in RootCmds(polling')
    <3>1. Junk \notin up'
      BY <1>1, <2>1
    <3> QED
      BY <2>1, <2>2, <2>3, <3>1
  <2> QED
    BY <2>1, <2>6, <2>7, <2>8, <2>9 DEF CmdInv
<1>4. CASE PollRead
  BY <1>1, <1>4 DEF PollRead, CmdInv, procs, files
<1>5. CASE PollWrite
  <2>1. \A g \in 1..Files : sidecar'[g] = IF g = polling THEN steady ELSE sidecar[g]
    BY <1>1, <1>5 DEF PollWrite, TypeOK
  <2> QED
    BY <1>1, <1>5, <2>1 DEF PollWrite, CmdInv, procs, launch
<1>6. CASE PollEnds
  BY <1>6 DEF PollEnds, CmdInv, procs, files
<1>7. CASE Stopping
  <2>1. CASE Remove
    BY <1>1, <1>7, <2>1, StopKeeps, RemoveKeeps DEF CmdInv
  <2>2. CASE UNCHANGED files
    BY <1>7, <2>2, StopKeeps DEF CmdInv, files
  <2> QED
    BY <1>7, <2>1, <2>2, StopFiles
<1>8. CASE UNCHANGED vars
  BY <1>8 DEF vars, CmdInv, procs, launch, files
<1> QED
  BY <1>2, <1>3, <1>4, <1>5, <1>6, <1>7, <1>8 DEF Next, Launching

(* Every step keeps a sidecar true to its root, and no live root is        *)
(* skipped without an excuse.                                              *)
LEMMA SideStep == TypeOK /\ PlaceInv /\ ProcInv /\ CmdInv /\ SideInv /\ [Next]_vars => SideInv'
<1> SUFFICES ASSUME TypeOK, PlaceInv, ProcInv, CmdInv, SideInv, [Next]_vars PROVE SideInv'
  OBVIOUS
<1> USE LaunchConstants
<1>1. /\ NoPid \notin up /\ Junk \notin up /\ up \subseteq Pids
      /\ polling # 0 => polling \in 1..Files
  BY DEF TypeOK
<1>2. CASE Container
  <2>1. UNCHANGED <<pidfile, sidecar, over, late, polling, steady, wrongSkip>>
    BY <1>2, ContainerKeeps DEF ContainerKept, script, files, launch, past
  <2>2. \A g \in 1..Files : \A q \in up' : cmd'[q] \in RootCmds(g) =>
          /\ q \in up /\ cmd[q] \in RootCmds(g)
          /\ cmd'[q] = cmd[q] \/ cmd[q].kind = "forked"
    BY <1>2, ContainerKeeps DEF ContainerKept
  <2>3. polling # 0 /\ pidfile[polling] \in up' =>
          /\ pidfile[polling] \in up
          /\ \/ cmd'[pidfile[polling]] = cmd[pidfile[polling]]
             \/ cmd[pidfile[polling]].kind = "forked"
    BY <1>2, ContainerKeeps DEF ContainerKept
  <2> QED
    BY <2>1, <2>2, <2>3 DEF SideInv
<1>3. ASSUME NEW f \in 1..Files, NEW m \in Maps, NEW p \in Pids, Launch(f, m, p) PROVE SideInv'
  <2>1. /\ up' = up \cup {p} /\ p \notin up /\ UNCHANGED <<sidecar, late, wrongSkip>>
        /\ polling' = f /\ steady' = NoCmd
    BY <1>3 DEF Launch, Begins, stopping, past
  <2>2. /\ cmd'[p] \in RootCmds(f)
        /\ \A q \in up : cmd'[q] = cmd[q]
    BY <1>1, <1>3, RootKinds DEF Launch, Begins, TypeOK, Stages
  <2>3. /\ pidfile'[f] \in {p, Junk} /\ pidfile'[f] # NoPid
        /\ \A g \in 1..Files \ {f} : pidfile'[g] = pidfile[g] /\ (g \in over' <=> g \in over)
        /\ pidfile[f] = NoPid => over' = over
        /\ pidfile[f] # NoPid => f \in over'
    BY <1>3 DEF Launch, TypeOK, NoPid, Junk
  <2>4. \A g \in 1..Files : cmd'[p] \in RootCmds(g) => g = f
    BY <2>2, Kinds
  <2>5. f \notin over' \cup late' => sidecar'[f] = NoCmd
    BY <2>1, <2>3 DEF SideInv
  <2>6. \A g \in 1..Files : sidecar'[g] # NoCmd /\ g \notin over' \cup late' => pidfile'[g] # NoPid
    BY <2>1, <2>3 DEF SideInv
  <2>7. \A g \in 1..Files, q \in up' :
          /\ sidecar'[g] # NoCmd /\ sidecar'[g].kind # "forked" /\ g \notin over' \cup late'
          /\ pidfile'[g] = q /\ cmd'[q] \in RootCmds(g)
          => cmd'[q] = sidecar'[g]
    BY <2>1, <2>2, <2>3, <2>4, <2>5 DEF SideInv
  <2>8. \A g \in 1..Files : sidecar'[g] = KernelCmd /\ g \notin over' \cup late' => pidfile'[g] \notin Pids
    BY <2>1, <2>3, <2>5, Kinds DEF SideInv
  <2> QED
    BY <2>1, <2>6, <2>7, <2>8, Kinds DEF SideInv
<1>4. CASE PollRead
  <2>1. /\ UNCHANGED <<up, cmd, pidfile, sidecar, over, late, polling, wrongSkip>> /\ polling # 0
        /\ steady' = IF pidfile[polling] \in {NoPid, Junk} THEN KernelCmd
                     ELSE IF pidfile[polling] \in up THEN cmd[pidfile[polling]] ELSE NoCmd
    BY <1>4 DEF PollRead, procs, files, stopping, past
  <2>2. \A p \in up : pidfile[polling] = p => steady' = cmd[p]
    BY <1>1, <2>1
  <2>3. steady' = KernelCmd => pidfile[polling] \notin Pids
    BY <1>1, <2>1, Kinds DEF TypeOK
  <2> QED
    BY <2>1, <2>2, <2>3 DEF SideInv
<1>5. CASE PollWrite
  <2>1. /\ \A g \in 1..Files : sidecar'[g] = IF g = polling THEN steady ELSE sidecar[g]
        /\ \A g \in 1..Files : g # polling =>
             (g \in over' <=> g \in over) /\ (g \in late' <=> g \in late)
        /\ polling \notin late' => pidfile[polling] # NoPid
        /\ UNCHANGED <<up, cmd, pidfile, polling, steady, wrongSkip>> /\ polling # 0 /\ steady # NoCmd
    BY <1>1, <1>5 DEF PollWrite, TypeOK, procs, launch, stopping, past
  <2> QED
    BY <2>1 DEF SideInv
<1>6. CASE PollEnds
  <2>1. UNCHANGED <<up, cmd, pidfile, sidecar, over, late, wrongSkip>> /\ polling' = 0
    BY <1>6 DEF PollEnds, procs, files, stopping, past
  <2> QED
    BY <2>1 DEF SideInv
<1>7. ASSUME Stopping, wrongSkip' = wrongSkip PROVE SideInv'
  <2>1. CASE Remove
    <3>1. UNCHANGED <<up, cmd, polling, steady>>
      BY <1>7, StopKeeps
    <3>2. \A f \in 1..Files :
            \/ pidfile'[f] = NoPid /\ sidecar'[f] = NoCmd
            \/ /\ pidfile'[f] = pidfile[f] /\ sidecar'[f] = sidecar[f]
               /\ f \in over <=> f \in over'
               /\ f \in late <=> f \in late'
      BY <2>1, RemoveKeeps
    <3> QED
      BY <1>1, <1>7, <3>1, <3>2, Kinds DEF SideInv
  <2>2. CASE UNCHANGED files
    BY <1>7, <2>2, StopKeeps DEF SideInv, files
  <2> QED
    BY <1>7, <2>1, <2>2, StopFiles
<1>8. CASE SkipReused
  <2>1. /\ root \in up /\ file \in 1..Files /\ sidecar[file] # NoCmd /\ sidecar[file] # cmd[root]
        /\ UNCHANGED <<up, cmd, pidfile, sidecar, over, late, polling, steady>>
    BY <1>8 DEF SkipReused, Mismatch, PlaceInv, Busy, world, procs, files, launch
  <2>2. ASSUME owner[root] = current[file], cmd[root] # NodeCmd, Excuse = "none" PROVE FALSE
    <3>1. current[file] # 0
      BY <1>1, <2>1 DEF CmdInv, root
    <3>2. cmd[root] # OtherCmd
      BY <2>1, <2>2, <3>1 DEF ProcInv
    <3>3. cmd[root] \in Cmds
      BY <1>1, <2>1 DEF TypeOK
    <3>4. PICK g \in 1..Files : cmd[root] \in RootCmds(g)
      BY <2>2, <3>2, <3>3 DEF Cmds
    <3>5. cmd[root] \in RootCmds(file)
      BY <2>1, <2>2, <3>4 DEF CmdInv
    <3>6. sidecar[file].kind # "forked" /\ file \notin over \cup late
      BY <2>2 DEF Excuse
    <3> QED
      BY <2>1, <3>5, <3>6 DEF SideInv, root
  <2>3. "none" \notin wrongSkip'
    BY <1>8, <2>2 DEF SkipReused, SideInv
  <2> QED
    BY <2>1, <2>3 DEF SideInv
<1>9. CASE Stopping
  <2>1. SkipReused \/ wrongSkip' = wrongSkip
    BY <1>9 DEF Stopping, StopBegins, NothingRecorded, Accept, Snapshot, IntRoot, GoneAfterInt,
       WaitEnds, Signal, TreeGone, TreeSurvives, Summary, past
  <2> QED
    BY <1>7, <1>8, <1>9, <2>1
<1>10. CASE UNCHANGED vars
  BY <1>10 DEF vars, SideInv, procs, launch, files, past
<1> QED
  BY <1>2, <1>3, <1>4, <1>5, <1>6, <1>9, <1>10 DEF Next, Launching

(* What a stop strikes is the root and the tree that it recorded.          *)
LEMMA StrikesOwn ==
  ASSUME GuardInv, pc \in InLadder, NEW pids, pids \subseteq {root} \cup tree, Strikes(pids)
  PROVE  ~stranger'
BY DEF GuardInv, Strikes

(* The descendants of the recorded root belong to its launch, or are       *)
(* younger than the stop.                                                  *)
LEMMA DescendantsBelong ==
  ASSUME TypeOK, ProcInv, root \in Pids, NEW own, root \in up \ taken => owner[root] = own
  PROVE  \A q \in Descendants(root) : q \in up \ taken => owner[q] = own
<1> DEFINE S == {q \in up : q \notin taken => owner[q] = own}
<1>1. S \in SUBSET Pids
  BY DEF TypeOK
<1>2. NoPid \notin up /\ root # NoPid
  BY LaunchConstants DEF TypeOK
<1>3. \A p \in up : parent[p] = root => p \in S
  BY <1>2 DEF ProcInv
<1>4. \A p \in up : parent[p] \in S => p \in S
  BY <1>2 DEF ProcInv
<1>5. Descendants(root) \subseteq S
  <2> HIDE DEF S
  <2> QED
    BY <1>1, <1>3, <1>4 DEF Descendants
<1> QED
  BY <1>5

(* Every step keeps a guarded ladder on the recorded launch.               *)
LEMMA GuardStep == TypeOK /\ PlaceInv /\ ProcInv /\ CmdInv /\ GuardInv /\ [Next]_vars => GuardInv'
<1> SUFFICES ASSUME TypeOK, PlaceInv, ProcInv, CmdInv, GuardInv, [Next]_vars PROVE GuardInv'
  OBVIOUS
<1> USE DEF InLadder
<1>1. CASE Container
  <2>1. /\ UNCHANGED <<pidfile, current, pc, file, tree, guarded, stranger>>
        /\ \A q \in up' \ taken' : q \in up \ taken /\ owner'[q] = owner[q]
    BY <1>1, ContainerKeeps DEF ContainerKept, script, files, ladder, past
  <2> QED
    BY <2>1 DEF GuardInv, root
<1>2. ASSUME NEW f \in 1..Files, NEW m \in Maps, NEW p \in Pids, Launch(f, m, p) PROVE GuardInv'
  BY <1>2 DEF Launch, stopping, past, GuardInv
<1>3. CASE PollRead \/ PollWrite \/ PollEnds \/ UNCHANGED vars
  BY <1>3 DEF PollRead, PollWrite, PollEnds, vars, procs, files, stopping, ladder, past, GuardInv, root
<1>4. CASE StopBegins \/ Summary
  BY <1>4 DEF StopBegins, Summary, past, GuardInv
<1>5. CASE NothingRecorded \/ SkipReused \/ GoneAfterInt \/ TreeGone \/ TreeSurvives
  <2>1. NextFile /\ stranger' = stranger
    BY <1>5 DEF NothingRecorded, SkipReused, GoneAfterInt, TreeGone, TreeSurvives, past
  <2> QED
    BY <2>1 DEF NextFile, GuardInv
<1>6. CASE Accept
  <2>1. /\ root \in up /\ file \in 1..Files /\ UNCHANGED <<up, owner, pidfile, current, file, stranger>>
        /\ guarded' => sidecar[file] # NoCmd /\ sidecar[file] = cmd[root]
        /\ pc' = "snapshot"
    BY <1>6 DEF Accept, Mismatch, PlaceInv, Busy, world, procs, files, past
  <2>2. guarded' => cmd[root] \in RootCmds(file)
    BY <2>1, Kinds DEF CmdInv, TypeOK
  <2>3. guarded' => owner[root] = current[file]
    BY <2>1, <2>2 DEF CmdInv, root
  <2> QED
    BY <2>1, <2>3 DEF GuardInv, root
<1>7. CASE Snapshot
  <2>1. /\ pc = "snapshot" /\ tree' = Descendants(root)
        /\ UNCHANGED <<up, owner, taken, pidfile, current, file, guarded, stranger>>
    BY <1>7 DEF Snapshot, world, procs, files, past
  <2>2. guarded => (root \in up \ taken => owner[root] = current[file])
    BY <2>1 DEF GuardInv
  <2>3. guarded => \A q \in Descendants(root) : q \in up \ taken => owner[q] = current[file]
    BY <2>1, <2>2, DescendantsBelong DEF PlaceInv
  <2> QED
    BY <2>1, <2>2, <2>3 DEF GuardInv, root
<1>8. CASE IntRoot \/ Signal
  <2>1. /\ pc \in InLadder /\ (Strikes({root}) \/ Strikes(Survivors))
        /\ UNCHANGED <<up, owner, taken, pidfile, current, file, tree, guarded>>
    BY <1>8 DEF IntRoot, Signal, world, procs, files, ladder
  <2>2. ~stranger'
    BY <2>1, StrikesOwn DEF Survivors
  <2> QED
    BY <2>1, <2>2 DEF GuardInv, root
<1>9. CASE WaitEnds
  BY <1>9 DEF WaitEnds, world, procs, files, past, GuardInv, root
<1> QED
  BY <1>1, <1>2, <1>3, <1>4, <1>5, <1>6, <1>7, <1>8, <1>9 DEF Next, Launching, Stopping

(* Every step keeps account of what was snapshotted and still lives.       *)
LEMMA SweptStep == TypeOK /\ PlaceInv /\ SweptInv /\ [Next]_vars => SweptInv'
<1> SUFFICES ASSUME TypeOK, PlaceInv, SweptInv, [Next]_vars PROVE SweptInv'
  OBVIOUS
<1> USE DEF InLadder, StoppedIsTrue
<1>1. CASE Container
  <2>1. /\ UNCHANGED <<pidfile, pc, file, tree, totalLeft, heading>>
        /\ \A q \in up : q \in up' \/ q \notin swept'
        /\ swept' \subseteq swept
    BY <1>1, ContainerKeeps DEF ContainerKept, script, files, ladder, counts
  <2> QED
    BY <2>1 DEF SweptInv, root
<1>2. ASSUME NEW f \in 1..Files, NEW m \in Maps, NEW p \in Pids, Launch(f, m, p) PROVE SweptInv'
  BY <1>2 DEF Launch, Begins, stopping, SweptInv
<1>3. CASE PollRead \/ PollWrite \/ PollEnds \/ UNCHANGED vars
  BY <1>3 DEF PollRead, PollWrite, PollEnds, vars, procs, files, stopping, ladder, counts, SweptInv, root
<1>4. CASE StopBegins
  BY <1>4 DEF StopBegins, SweptInv
<1>5. CASE NothingRecorded \/ SkipReused
  <2>1. pc = "read" /\ NextFile /\ UNCHANGED <<up, swept, totalLeft, heading>>
    BY <1>5 DEF NothingRecorded, SkipReused, world, procs, counts
  <2> QED
    BY <2>1 DEF NextFile, SweptInv
<1>6. CASE GoneAfterInt \/ TreeGone
  <2>1. pc \in InLadder /\ NextFile /\ UNCHANGED <<up, swept, totalLeft, heading>>
    BY <1>6 DEF GoneAfterInt, TreeGone, LadderOver, world, procs, counts
  <2>2. ({root} \cup tree) \cap up = {}
    BY <1>6 DEF GoneAfterInt, TreeGone, Survivors, PlaceInv
  <2>3. totalLeft = 0 => swept = {}
    BY <2>1, <2>2 DEF SweptInv
  <2> QED
    BY <2>1, <2>3 DEF NextFile, SweptInv
<1>7. CASE TreeSurvives
  <2>1. NextFile /\ totalLeft' = totalLeft + Cardinality(Survivors) /\ UNCHANGED <<up, swept, heading>>
    BY <1>7 DEF TreeSurvives, world, procs
  <2>2. totalLeft' > 0
    BY <1>7, <2>1, CountSurvivors DEF TreeSurvives, TypeOK
  <2> QED
    BY <2>1, <2>2 DEF NextFile, SweptInv
<1>8. CASE Accept
  BY <1>8 DEF Accept, world, procs, counts, SweptInv
<1>9. CASE Snapshot
  <2>1. /\ pc = "snapshot" /\ swept' = swept \cup (({root} \cup tree') \cap up) /\ pc' = "root"
        /\ UNCHANGED <<up, pidfile, file, totalLeft>>
    BY <1>9 DEF Snapshot, world, procs, files, counts
  <2> QED
    BY <2>1 DEF SweptInv, root
<1>10. CASE IntRoot \/ Signal \/ WaitEnds
  <2>1. pc \in InLadder /\ pc' \in InLadder /\ UNCHANGED <<up, swept, pidfile, file, tree, totalLeft>>
    BY <1>10 DEF IntRoot, Signal, WaitEnds, world, procs, files, ladder, counts
  <2> QED
    BY <2>1 DEF SweptInv, root
<1>11. CASE Summary
  BY <1>11 DEF Summary, TypeOK, world, procs, counts, SweptInv
<1> QED
  BY <1>1, <1>2, <1>3, <1>4, <1>5, <1>6, <1>7, <1>8, <1>9, <1>10, <1>11
     DEF Next, Launching, Stopping

-------------------------------------------------------------------------------
(* The inductive invariant holds in every behaviour.                       *)
THEOREM Invariance == Spec => []IInv
<1>1. IInv /\ [Next]_vars => IInv'
  BY TypeStep, PlaceStep, ProcStep, CmdStep, SideStep, GuardStep, SweptStep DEF IInv
<1> QED
  BY InitInv, <1>1, PTL DEF Spec

(* launch_autoware.sh, stop_launch_tree.sh: the state is well typed.       *)
THEOREM TypeCorrect == Spec => []TypeOK
<1>1. IInv => TypeOK
  BY DEF IInv
<1> QED
  BY Invariance, <1>1, PTL

(* stop_launch_tree.sh:56-61, 66-84: when there is a sidecar to compare    *)
(* with, every process that was running when the stop began and is struck  *)
(* by any rung of the ladder belongs to the recorded launch, for any       *)
(* number of processes, and whatever pids are reused meanwhile.            *)
THEOREM StrikesTheRecorded == Spec => []OnlyTheRecordedTree
<1>1. IInv => OnlyTheRecordedTree
  BY DEF IInv, GuardInv, OnlyTheRecordedTree
<1> QED
  BY Invariance, <1>1, PTL

(* stop_launch_tree.sh:86-106: a live, recorded root is skipped only over  *)
(* a sidecar that a later launch, a late poll or an early reading left.    *)
THEOREM SkipsHaveExcuses == Spec => []SkipsOnlyLeftovers
<1>1. IInv => SkipsOnlyLeftovers
  BY DEF IInv, SideInv, SkipsOnlyLeftovers
<1> QED
  BY Invariance, <1>1, PTL

(* stop_launch_tree.sh:424-468: the heading says "stopped" only when every *)
(* process of every snapshot is dead.                                      *)
THEOREM HeadingIsTrue == Spec => []StoppedIsTrue
<1>1. IInv => StoppedIsTrue
  BY DEF IInv, SweptInv
<1> QED
  BY Invariance, <1>1, PTL
===============================================================================
