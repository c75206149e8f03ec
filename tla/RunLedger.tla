------------------------------ MODULE RunLedger -------------------------------
(***************************************************************************)
(* What an invocation of the measurement harness owes the results          *)
(* directory: runs are made one at a time and in order; each has at most   *)
(* one entry, which is filed under at most one reason while its run lasts  *)
(* and is never touched again; the next run begins only when this one is   *)
(* filed or complete.  A fault -- a signal, a disk that takes no label --  *)
(* may end everything as it stands or spoil the entry in hand, and nothing *)
(* else may.  No processes, no traps and no order of steps: RunHarness is  *)
(* shown to implement this.                                                *)
(***************************************************************************)
EXTENDS Naturals

CONSTANTS Size, Reasons \* runs to make; what a run may be filed under

VARIABLES
  current, \* the run being made, or made last
  phase,   \* between two runs, during one, or over
  book,    \* the entry of each run: absent, fresh, torn or a reason
  whole,   \* the runs whose files are complete
  fault    \* something from outside has gone wrong

ledger == <<current, phase, book, whole, fault>>

Init ==
  /\ current = 0
  /\ phase = "between"
  /\ book = [r \in 1..Size |-> "absent"]
  /\ whole = {}
  /\ fault = FALSE

Begin ==
  /\ phase = "between"
  /\ current < Size
  /\ current' = current + 1
  /\ phase' = "during"
  /\ UNCHANGED <<book, whole, fault>>

(* The run directory is created.                                           *)
Enter ==
  /\ phase = "during"
  /\ book[current] = "absent"
  /\ book' = [book EXCEPT ![current] = "fresh"]
  /\ UNCHANGED <<current, phase, whole, fault>>

(* The entry is filed; the invocation may end with it.                     *)
File(reason) ==
  /\ phase = "during"
  /\ book[current] = "fresh"
  /\ book' = [book EXCEPT ![current] = reason]
  /\ phase' \in {"during", "over"}
  /\ UNCHANGED <<current, whole, fault>>

(* The run's files are found complete, and it may yet be filed.            *)
Complete ==
  /\ phase = "during"
  /\ whole' = whole \cup {current}
  /\ UNCHANGED <<current, phase, book, fault>>

(* The next run may come only after one that is filed or complete.         *)
Pass ==
  /\ phase = "during"
  /\ whole' \in {whole, whole \cup {current}}
  /\ book[current] \in Reasons \/ (book[current] = "fresh" /\ current \in whole')
  /\ phase' = "between"
  /\ UNCHANGED <<current, book, fault>>

(* The invocation ends in a run that has left nothing, or after the last.  *)
End ==
  /\ \/ phase = "during" /\ book[current] = "absent"
     \/ phase = "between" /\ current = Size
  /\ phase' = "over"
  /\ UNCHANGED <<current, book, whole, fault>>

(* A signal, or a write that fails, which may leave an entry not yet filed *)
(* unreadable: it is never filed then, nor passed.                         *)
Fail ==
  /\ phase # "over"
  /\ fault' = TRUE
  /\ phase' \in {phase, "over"}
  /\ \/ UNCHANGED book
     \/ /\ phase = "during"
        /\ book[current] \in {"absent", "fresh"}
        /\ book' = [book EXCEPT ![current] = "torn"]
  /\ UNCHANGED <<current, whole>>

Next ==
  \/ Begin \/ Enter \/ Complete \/ Pass \/ End \/ Fail
  \/ \E reason \in Reasons : File(reason)

Spec == Init /\ [][Next]_ledger
===============================================================================
