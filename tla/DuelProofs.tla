------------------------------ MODULE DuelProofs ------------------------------
(***************************************************************************)
(* What Duel guarantees for every number of pairs and every pacing.  The   *)
(* invariant counts: where the loop stands fixes how many runs each cell   *)
(* has started and how many pairs it opened, whatever the runs' outcomes.  *)
(***************************************************************************)
EXTENDS Duel, TLAPS

(* The loop's position and the runs started.                               *)
OrderInv ==
  /\ started["a"] = IF slot = 2 /\ pair % 2 = 1 THEN pair ELSE pair - 1
  /\ started["b"] = IF slot = 2 /\ pair % 2 = 0 THEN pair ELSE pair - 1
  /\ first["a"] - first["b"] = IF slot = 1 THEN (pair - 1) % 2 ELSE pair % 2

(* Every run started is counted once, but for the one that is being made.  *)
CountInv ==
  /\ \A c \in Duellists : completed[c] + failed[c] = started[c]
  /\ pc \notin {"next", "exit"} => pair <= Pairs
  /\ pair = Pairs + 1 => slot = 1
  /\ status \in {0, 1} => pair = Pairs + 1
  /\ status # -1 <=> pc = "exit"
  /\ status = 0 => \A c \in Duellists : failed[c] = 0
  /\ status = 1 => \E c \in Duellists : failed[c] > 0

(* A row of failures is a row of runs without a scorable directory.        *)
RowInv ==
  /\ consecutive <= unscored
  /\ pc # "exit" => consecutive < MaxFailures
  /\ status = 2 => consecutive = MaxFailures

(* What the wait before a run established.                                 *)
PaceInv ==
  /\ topup < Ceiling + Poll
  /\ pc = "run" /\ paced = "target" => load < Target
  /\ refusal # "target"

IInv == OrderInv /\ CountInv /\ RowInv /\ PaceInv

-------------------------------------------------------------------------------
(* The parity of the pair number decides who goes first in it.             *)
LEMMA Parity ==
  ASSUME NEW n \in Nat \ {0}
  PROVE  /\ n % 2 \in {0, 1}
         /\ (n - 1) % 2 = 1 - (n % 2)
         /\ (n + 1) % 2 = 1 - (n % 2)
OBVIOUS

(* Whoever's turn it is, is a duellist.                                    *)
LEMMA CellType == cell \in Duellists
BY DEF cell, Slot, Duellists

(* Every step of duel.sh keeps the types.                                  *)
LEMMA TypeStep == TypeOK /\ CountInv /\ RowInv /\ [Next]_vars => TypeOK'
<1> SUFFICES ASSUME TypeOK, CountInv, RowInv, [Next]_vars PROVE TypeOK'
  OBVIOUS
<1> USE DuelConstants
<1> USE DEF TypeOK, counters, history, Waits
<1>1. CASE OneRun
  BY <1>1 DEF OneRun
<1>2. CASE PaceFloor
  BY <1>2 DEF PaceFloor, Decays
<1>3. CASE PacePoll
  BY <1>3 DEF PacePoll, Decays
<1>4. ASSUME pc = "run", Advance PROVE pair' \in 1..(Pairs + 1) /\ slot' \in 1..2
  BY <1>4 DEF Advance, CountInv
<1>5. ASSUME Succeeds \/ (pc = "run" /\ Fails)
      PROVE  /\ completed' \in [Duellists -> Nat] /\ failed' \in [Duellists -> Nat]
             /\ consecutive' \in 0..MaxFailures /\ status' \in {-1, 0, 1, 2}
             /\ pc' \in {"next", "exit"}
  BY <1>5, CellType DEF Succeeds, Fails, RowInv
<1>6. ASSUME Starts PROVE started' \in [Duellists -> Nat] /\ first' \in [Duellists -> Nat]
  BY <1>6, CellType DEF Starts
<1>7. ASSUME NEW yes \in BOOLEAN, Scores(yes) PROVE unscored' \in Nat
  BY <1>7 DEF Scores
<1>8. CASE RunChecksArgs
  BY <1>4, <1>5, <1>6, <1>7, <1>8 DEF RunChecksArgs
<1>9. CASE RunRefused
  BY <1>4, <1>5, <1>6, <1>7, <1>9 DEF RunRefused
<1>10. CASE RunMakes
  <2>1. load' \in 0..(Peak + TickUp)
    BY <1>10 DEF RunMakes
  <2>2. unscored' \in Nat
    BY <1>7, <1>10 DEF RunMakes
  <2> QED
    BY <1>4, <1>5, <1>6, <1>10, <2>1, <2>2 DEF RunMakes
<1>11. CASE Finish
  BY <1>11 DEF Finish
<1>12. CASE UNCHANGED vars
  BY <1>12 DEF vars
<1> QED
  BY <1>1, <1>2, <1>3, <1>8, <1>9, <1>10, <1>11, <1>12 DEF Next, Step, Done

(* A run moves the loop on by one slot and is counted for its own cell.    *)
LEMMA OrderStep == TypeOK /\ OrderInv /\ [Next]_vars => OrderInv'
<1> SUFFICES ASSUME TypeOK, OrderInv, [Next]_vars PROVE OrderInv'
  OBVIOUS
<1> USE DEF TypeOK, counters, history
<1>1. ASSUME Starts, Advance PROVE OrderInv'
  <2>1. pair \in Nat \ {0} /\ pair % 2 \in {0, 1} /\ (pair - 1) % 2 = 1 - (pair % 2)
        /\ (pair + 1) % 2 = 1 - (pair % 2)
    BY Parity, DuelConstants
  <2>2. CASE slot = 1
    BY <1>1, <2>1, <2>2 DEF Starts, Advance, OrderInv, cell, Slot, Duellists
  <2>3. CASE slot = 2
    BY <1>1, <2>1, <2>3 DEF Starts, Advance, OrderInv, cell, Slot, Duellists
  <2> QED
    BY <2>2, <2>3
<1>2. CASE RunChecksArgs \/ RunRefused \/ RunMakes
  BY <1>1, <1>2 DEF RunChecksArgs, RunRefused, RunMakes
<1>3. CASE OneRun \/ PaceFloor \/ PacePoll \/ Finish \/ UNCHANGED vars
  BY <1>3 DEF OneRun, PaceFloor, PacePoll, Finish, vars, OrderInv
<1> QED
  BY <1>2, <1>3 DEF Next, Step, Done

(* A run is counted as completed or as failed, and the exit status is      *)
(* decided by those counts alone.                                          *)
LEMMA CountStep == TypeOK /\ CountInv /\ RowInv /\ [Next]_vars => CountInv'
<1> SUFFICES ASSUME TypeOK, CountInv, RowInv, [Next]_vars PROVE CountInv'
  OBVIOUS
<1> USE DuelConstants
<1> USE DEF TypeOK, counters, history, CountInv
<1>1. ASSUME pc = "run", Succeeds \/ Fails, Starts, Advance PROVE CountInv'
  <2>1. \A c \in Duellists : completed'[c] + failed'[c] = started'[c]
    BY <1>1, CellType DEF Succeeds, Fails, Starts
  <2>2. pair' \in 1..(Pairs + 1) /\ (pair' = Pairs + 1 => slot' = 1)
    BY <1>1 DEF Advance
  <2>3. status = -1
    BY <1>1
  <2>4. CASE Succeeds
    BY <2>1, <2>2, <2>3, <2>4 DEF Succeeds
  <2>5. CASE Fails
    BY <2>1, <2>2, <2>3, <2>5 DEF Fails
  <2> QED
    BY <1>1, <2>4, <2>5
<1>2. CASE RunChecksArgs \/ RunRefused \/ RunMakes
  BY <1>1, <1>2 DEF RunChecksArgs, RunRefused, RunMakes
<1>3. CASE OneRun
  BY <1>3 DEF OneRun
<1>4. CASE PaceFloor \/ PacePoll
  BY <1>4 DEF PaceFloor, PacePoll
<1>5. CASE Finish
  BY <1>5 DEF Finish
<1>6. CASE UNCHANGED vars
  BY <1>6 DEF vars
<1> QED
  BY <1>2, <1>3, <1>4, <1>5, <1>6 DEF Next, Step, Done

(* A success ends the row, and the row's last failure ends the duel.       *)
LEMMA RowStep == TypeOK /\ CountInv /\ RowInv /\ [Next]_vars => RowInv'
<1> SUFFICES ASSUME TypeOK, CountInv, RowInv, [Next]_vars PROVE RowInv'
  OBVIOUS
<1> USE DuelConstants
<1> USE DEF TypeOK, counters, history, RowInv
<1>1. CASE RunChecksArgs
  <2>1. unscored' = unscored + 1 /\ status = -1
    BY <1>1 DEF RunChecksArgs, Scores, CountInv
  <2>2. CASE Succeeds
    BY <2>1, <2>2 DEF Succeeds
  <2>3. CASE Fails
    BY <1>1, <2>1, <2>3 DEF Fails, RunChecksArgs
  <2> QED
    BY <1>1, <2>2, <2>3 DEF RunChecksArgs
<1>2. CASE RunRefused
  BY <1>2 DEF RunRefused, Fails, Scores, CountInv
<1>3. CASE RunMakes
  BY <1>3 DEF RunMakes, Succeeds, Fails, Scores, CountInv
<1>4. CASE OneRun \/ PaceFloor \/ PacePoll
  BY <1>4 DEF OneRun, PaceFloor, PacePoll, CountInv
<1>5. CASE Finish
  BY <1>5 DEF Finish, CountInv
<1>6. CASE UNCHANGED vars
  BY <1>6 DEF vars
<1> QED
  BY <1>1, <1>2, <1>3, <1>4, <1>5, <1>6 DEF Next, Step, Done

(* The margin between the target and the gate covers what the load average *)
(* can rise by before preflight reads it.                                  *)
LEMMA PaceStep == TypeOK /\ PaceInv /\ [Next]_vars => PaceInv'
<1> SUFFICES ASSUME TypeOK, PaceInv, [Next]_vars PROVE PaceInv'
  OBVIOUS
<1> USE DuelConstants
<1> USE DEF TypeOK, counters, history, PaceInv
<1>1. CASE OneRun
  BY <1>1 DEF OneRun
<1>2. CASE PaceFloor
  BY <1>2 DEF PaceFloor
<1>3. CASE PacePoll
  BY <1>3 DEF PacePoll, TargetMet, CeilingReached
<1>4. CASE RunRefused
  <2>1. paced # "target"
    BY <1>4 DEF RunRefused, Preflight
  <2> QED
    BY <1>4, <2>1 DEF RunRefused, Fails
<1>5. CASE RunChecksArgs \/ RunMakes
  BY <1>5 DEF RunChecksArgs, RunMakes, Succeeds, Fails
<1>6. CASE Finish
  BY <1>6 DEF Finish
<1>7. CASE UNCHANGED vars
  BY <1>7 DEF vars
<1> QED
  BY <1>1, <1>2, <1>3, <1>4, <1>5, <1>6, <1>7 DEF Next, Step, Done

(* The inductive invariant: the types and the counting.                    *)
THEOREM InductiveInvariant == Spec => [](TypeOK /\ IInv)
<1>1. Init => TypeOK /\ IInv
  <2> SUFFICES ASSUME Init PROVE TypeOK /\ IInv
    OBVIOUS
  <2> USE DuelConstants
  <2>1. TypeOK
    BY DEF Init, TypeOK, Zero, Waits
  <2>2. OrderInv /\ CountInv
    BY DEF Init, OrderInv, CountInv, Zero, Duellists
  <2>3. RowInv /\ PaceInv
    BY DEF Init, RowInv, PaceInv
  <2> QED
    BY <2>1, <2>2, <2>3 DEF IInv
<1>2. TypeOK /\ IInv /\ [Next]_vars => TypeOK' /\ IInv'
  BY TypeStep, OrderStep, CountStep, RowStep, PaceStep DEF IInv
<1> QED
  BY <1>1, <1>2, PTL DEF Spec

(* duel.sh's alternation: neither cell is ever more than one run or one    *)
(* opened pair ahead, for every number of pairs and every pattern of       *)
(* failures.                                                               *)
THEOREM InterleavedAlways == Spec => []Interleaved
<1>1. TypeOK /\ IInv => Interleaved
  <2> SUFFICES ASSUME TypeOK, IInv PROVE Interleaved
    OBVIOUS
  <2>1. pair \in Nat \ {0} /\ pair % 2 \in {0, 1} /\ (pair - 1) % 2 \in {0, 1}
    BY Parity, DuelConstants DEF TypeOK
  <2> QED
    BY <2>1 DEF IInv, OrderInv, Interleaved, TypeOK, Duellists
<1> QED
  BY <1>1, InductiveInvariant, PTL

(* duel.sh's exit status tells whether the requested n was reached.        *)
THEOREM ExitStatusIsTrue == Spec => []ExitTellsFailures
<1>1. TypeOK /\ IInv => ExitTellsFailures
  <2> SUFFICES ASSUME TypeOK, IInv PROVE ExitTellsFailures
    OBVIOUS
  <2>1. status \in {0, 1} => \A c \in Duellists : completed[c] + failed[c] = Pairs
    <3>1. status \in {0, 1} => started["a"] = Pairs /\ started["b"] = Pairs
      BY DuelConstants DEF TypeOK, IInv, CountInv, OrderInv
    <3> QED
      BY <3>1 DEF IInv, CountInv, Duellists
  <2>2. status = 0 => \A c \in Duellists : completed[c] = Pairs /\ failed[c] = 0
    BY <2>1 DEF TypeOK, IInv, CountInv
  <2>3. status = 0 => completed = [c \in Duellists |-> Pairs] /\ failed = Zero
    BY <2>2 DEF TypeOK, Zero
  <2> QED
    BY <2>1, <2>3 DEF ExitTellsFailures, IInv, CountInv
<1> QED
  BY <1>1, InductiveInvariant, PTL

(* MAX_CONSECUTIVE_FAILURES: the duel stops at the row's last failure and  *)
(* for no other reason.                                                    *)
THEOREM StopsOnARow == Spec => []StopsOnlyOnARow
<1>1. TypeOK /\ IInv => StopsOnlyOnARow
  BY DuelConstants DEF TypeOK, IInv, RowInv, StopsOnlyOnARow
<1> QED
  BY <1>1, InductiveInvariant, PTL

(* duel.sh:112-126: a wait that reached its target is enough for preflight. *)
THEOREM PacingWorks == Spec => []PacingClearsGate
<1>1. IInv => PacingClearsGate
  BY DEF IInv, PaceInv, PacingClearsGate
<1> QED
  BY <1>1, InductiveInvariant, PTL

(* duel.sh:214-222: no top-up outlasts the ceiling by more than one poll.  *)
THEOREM PacingEnds == Spec => []PacingIsBounded
<1>1. IInv => PacingIsBounded
  BY DEF IInv, PaceInv, PacingIsBounded
<1> QED
  BY <1>1, InductiveInvariant, PTL
===============================================================================
