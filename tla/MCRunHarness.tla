----------------------------- MODULE MCRunHarness -----------------------------
(* RunHarness for TLC: the cell and arm combinations of cells.yaml that    *)
(* run.sh treats differently.                                              *)
EXTENDS RunHarness

Cell(simClock, gt, injector, arm, closedLoop, unpaced, ablation) ==
  [simClock |-> simClock, gt |-> gt, injector |-> injector, arm |-> arm,
   closedLoop |-> closedLoop, unpaced |-> unpaced, ablation |-> ablation]

MCCells == {
  Cell(TRUE, TRUE, TRUE, TRUE, FALSE, FALSE, FALSE),    \* A, B static
  Cell(TRUE, TRUE, TRUE, TRUE, TRUE, FALSE, FALSE),     \* A, B closed loop
  Cell(TRUE, TRUE, FALSE, TRUE, TRUE, FALSE, FALSE),    \* E closed loop
  Cell(TRUE, TRUE, TRUE, TRUE, TRUE, TRUE, FALSE),      \* A, B unpaced
  Cell(TRUE, FALSE, FALSE, FALSE, TRUE, FALSE, TRUE),   \* ablation
  Cell(FALSE, FALSE, FALSE, FALSE, FALSE, FALSE, FALSE) \* calibration
}
===============================================================================
