--------------------------------- MODULE Duel ---------------------------------
(***************************************************************************)
(* benchmarks/scripts/duel.sh: Pairs pairs of runs of two cells,           *)
(* interleaved, each run a whole run.sh invocation.  The host's load       *)
(* average is the one thing that connects a run with the next: run.sh's    *)
(* preflight refuses a loaded host, and the pacing between two runs is     *)
(* there to let the load decay first.                                      *)
(*                                                                         *)
(* The results tree is reduced to counters; RunHarness has the run itself. *)
(***************************************************************************)
EXTENDS Integers

CONSTANTS
  Pairs,       \* --pairs N
  MaxFailures, \* MAX_CONSECUTIVE_FAILURES
  Ceiling,     \* PACE_CEILING_S
  Poll,        \* PACE_POLL_S
  Target,      \* PACE_TARGET_LOADAVG
  Gate,        \* preflight.sh's MAX_LOADAVG
  Peak,        \* the load a run leaves behind
  TickUp       \* what the load average rises between a reading and preflight's

ASSUME DuelConstants ==
  /\ Pairs \in Nat \ {0}
  /\ MaxFailures \in Nat \ {0}
  /\ Ceiling \in Nat
  /\ Poll \in Nat \ {0}
  /\ Target \in Nat \ {0}
  /\ Gate \in Nat
  /\ TickUp \in Nat
  /\ Peak \in Nat
  /\ Target + TickUp <= Gate  \* "a margin under preflight's own gate"
  /\ Gate <= Peak

Duellists == {"a", "b"}

VARIABLES
  pc,          \* where the script is
  checkArgs,   \* --check-args is among the passed-through flags
  pair,        \* the loop variable
  slot,        \* which run of the pair comes next
  runCount,    \* RUN_COUNT
  completed,   \* COMPLETED
  failed,      \* FAILED
  consecutive, \* consecutive
  topup,       \* seconds the poll has slept
  load,        \* the host's load average
  status,      \* the script's exit status, -1 while it runs
  paced,       \* history: how the wait before this run ended
  started,     \* history: runs started per cell
  first,       \* history: pairs that a cell opened
  refusal,     \* history: how the wait before a refusal for load had ended
  unscored     \* history: runs in a row that left no scorable directory

counters == <<completed, failed, consecutive>>
history == <<paced, started, first, refusal, unscored>>
vars == <<pc, checkArgs, pair, slot, runCount, counters, topup, load, status, history>>

Waits == {"none", "target", "ceiling", "unread"}

TypeOK ==
  /\ pc \in {"next", "floor", "poll", "run", "exit"}
  /\ checkArgs \in BOOLEAN
  /\ pair \in 1..(Pairs + 1)
  /\ slot \in 1..2
  /\ runCount \in Nat
  /\ completed \in [Duellists -> Nat]
  /\ failed \in [Duellists -> Nat]
  /\ consecutive \in 0..MaxFailures
  /\ topup \in Nat
  /\ load \in 0..(Peak + TickUp)
  /\ status \in {-1, 0, 1, 2}
  /\ paced \in Waits
  /\ started \in [Duellists -> Nat]
  /\ first \in [Duellists -> Nat]
  /\ refusal \in Waits \cup {"never"}
  /\ unscored \in Nat

Zero == [c \in Duellists |-> 0]

(* An operator starts a duel from a quiescent host (duel.sh:134-136).      *)
Init ==
  /\ pc = "next"
  /\ checkArgs \in BOOLEAN
  /\ pair = 1
  /\ slot = 1
  /\ runCount = 0
  /\ completed = Zero
  /\ failed = Zero
  /\ consecutive = 0
  /\ topup = 0
  /\ load = 0
  /\ status = -1
  /\ paced = "none"
  /\ started = Zero
  /\ first = Zero
  /\ refusal = "never"
  /\ unscored = 0

-------------------------------------------------------------------------------
\* Mutant: every pair runs in the same order.
SameOrder(p, s) == IF s = 1 THEN "a" ELSE "b"

(* Order alternates per pair.                                              *)
Slot(p, s) == IF (p % 2 = 1) = (s = 1) THEN "a" ELSE "b"

cell == Slot(pair, slot)

(* one_run up to the pacing: none before the first run, none for           *)
(* --check-args.                                                           *)
OneRun ==
  /\ pc = "next"
  /\ pair <= Pairs
  /\ runCount' = runCount + 1
  /\ paced' = "none"
  /\ pc' = IF runCount' > 1 /\ ~checkArgs THEN "floor" ELSE "run"
  /\ UNCHANGED <<checkArgs, pair, slot, counters, topup, load, status, started, first,
                 refusal, unscored>>

Decays == load' \in 0..load

(* pace_between_runs: the floor.                                           *)
PaceFloor ==
  /\ pc = "floor"
  /\ Decays
  /\ topup' = 0
  /\ pc' = "poll"
  /\ UNCHANGED <<checkArgs, pair, slot, runCount, counters, status, history>>

\* Mutant: the poll waits for the gate itself.
GateIsTarget == load < Gate

(* The reading is below the target.                                        *)
TargetMet == load < Target

\* Mutant: the ceiling is compared with the floor's start, and never reached.
CeilingNever == FALSE

CeilingReached == topup >= Ceiling

(* pace_between_runs: one reading of the top-up poll.  The target is met,  *)
(* the ceiling ends the wait anyway, or it sleeps.  A source that cannot   *)
(* be read counts as 0.                                                    *)
PacePoll ==
  /\ pc = "poll"
  /\ \/ /\ TargetMet
        /\ pc' = "run" /\ paced' = "target"
        /\ UNCHANGED <<topup, load>>
     \/ /\ pc' = "run" /\ paced' = "unread"
        /\ UNCHANGED <<topup, load>>
     \/ /\ ~TargetMet
        /\ CeilingReached
        /\ pc' = "run" /\ paced' = "ceiling"
        /\ UNCHANGED <<topup, load>>
     \/ /\ ~TargetMet
        /\ ~CeilingReached
        /\ topup' = topup + Poll
        /\ Decays
        /\ UNCHANGED <<pc, paced>>
  /\ UNCHANGED <<checkArgs, pair, slot, runCount, counters, status, started, first,
                 refusal, unscored>>

-------------------------------------------------------------------------------
(* The two ways run.sh ends, as duel.sh counts them.                       *)

Advance ==
  /\ pair' = IF slot = 2 THEN pair + 1 ELSE pair
  /\ slot' = 3 - slot

\* Mutant: a success does not end the row of failures.
SucceedsKeepsRow ==
  /\ completed' = [completed EXCEPT ![cell] = @ + 1]
  /\ consecutive' = consecutive
  /\ pc' = "next"
  /\ UNCHANGED <<failed, status>>

Succeeds ==
  /\ completed' = [completed EXCEPT ![cell] = @ + 1]
  /\ consecutive' = 0
  /\ pc' = "next"
  /\ UNCHANGED <<failed, status>>

(* The last of MaxFailures failures in a row stops the duel.               *)
Fails ==
  /\ failed' = [failed EXCEPT ![cell] = @ + 1]
  /\ consecutive' = consecutive + 1
  /\ IF consecutive' >= MaxFailures
     THEN pc' = "exit" /\ status' = 2
     ELSE pc' = "next" /\ UNCHANGED status
  /\ UNCHANGED completed

Scores(yes) == unscored' = IF yes THEN 0 ELSE unscored + 1

Starts ==
  /\ started' = [started EXCEPT ![cell] = @ + 1]
  /\ first' = IF slot = 1 THEN [first EXCEPT ![cell] = @ + 1] ELSE first

(* preflight reads the load again; the average may have risen a little.    *)
Preflight(reading) == reading \in load..(load + TickUp)

(* run.sh --check-args: resolves its arguments and exits.                  *)
RunChecksArgs ==
  /\ pc = "run"
  /\ checkArgs
  /\ Succeeds \/ Fails
  /\ Starts /\ Advance /\ Scores(FALSE)
  /\ UNCHANGED <<checkArgs, runCount, topup, load, paced, refusal>>

(* run.sh refuses the loaded host: no run directory, exit 2.               *)
RunRefused ==
  /\ pc = "run"
  /\ ~checkArgs
  /\ \E reading \in 0..(Peak + TickUp) :
       /\ Preflight(reading)
       /\ reading >= Gate
       /\ load' = reading
  /\ Fails
  /\ Starts /\ Advance /\ Scores(FALSE)
  /\ refusal' = paced
  /\ UNCHANGED <<checkArgs, runCount, topup, paced>>

(* run.sh gets past preflight.  It exits 0 for a run that is complete and  *)
(* for one that step 14 excluded; every other way it ends is a failure.    *)
RunMakes ==
  /\ pc = "run"
  /\ ~checkArgs
  /\ \E reading \in 0..(Peak + TickUp) : Preflight(reading) /\ reading < Gate
  /\ load' \in {load, Peak}
  /\ \/ Succeeds /\ Scores(TRUE)
     \/ Succeeds /\ Scores(FALSE)
     \/ Fails /\ Scores(FALSE)
  /\ Starts /\ Advance
  /\ UNCHANGED <<checkArgs, runCount, topup, paced, refusal>>

(* The loop is over: exit 1 if any run failed.                             *)
Finish ==
  /\ pc = "next"
  /\ pair > Pairs
  /\ pc' = "exit"
  /\ status' = IF \E c \in Duellists : failed[c] > 0 THEN 1 ELSE 0
  /\ UNCHANGED <<checkArgs, pair, slot, runCount, counters, topup, load, history>>

Step == OneRun \/ PaceFloor \/ PacePoll \/ RunChecksArgs \/ RunRefused \/ RunMakes
        \/ Finish

Done == pc = "exit" /\ UNCHANGED vars

Next == Step \/ Done

Spec == Init /\ [][Next]_vars

-------------------------------------------------------------------------------
(* Properties.                                                             *)

(* duel.sh:7-22: drift of the host cannot favour a cell.  At every moment  *)
(* the two cells have started equally many runs, give or take one, and     *)
(* opened equally many pairs, give or take one -- however runs fail.       *)
Interleaved ==
  /\ started["a"] - started["b"] \in -1..1
  /\ first["a"] - first["b"] \in -1..1

(* duel.sh:317-323: a clean exit means that every requested run of both    *)
(* cells was made and exited 0, and a duel that ran to its end with a      *)
(* failure says so.                                                        *)
ExitTellsFailures ==
  /\ status = 0 => completed = [c \in Duellists |-> Pairs] /\ failed = Zero
  /\ status = 1 => /\ \A c \in Duellists : completed[c] + failed[c] = Pairs
                   /\ \E c \in Duellists : failed[c] > 0

(* duel.sh:38-40: two failures in a row end the duel with exit 2, and      *)
(* nothing else does: it is never still running after them, and a success  *)
(* in between starts the count afresh.                                     *)
StopsOnlyOnARow ==
  /\ pc # "exit" => consecutive < MaxFailures
  /\ status = 2 => consecutive = MaxFailures /\ unscored >= MaxFailures

(* duel.sh:112-126: a wait that reached its target leaves a host preflight *)
(* accepts; only an unpaced first run, a ceiling or an unreadable source   *)
(* can be followed by a refusal for load.                                  *)
PacingClearsGate == refusal # "target"

(* duel.sh:121-126: the top-up is bounded by the ceiling and one poll.     *)
PacingIsBounded == topup < Ceiling + Poll
===============================================================================
