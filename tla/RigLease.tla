------------------------------- MODULE RigLease -------------------------------
(***************************************************************************)
(* What the runner owes a CARLA server that others use before and after    *)
(* it: it takes the ego, then what hangs on it, may enter a mode of its    *)
(* own, and gives everything back, the ego last.  Any call may fail or     *)
(* come late; what the client may not do is close with something in hand   *)
(* that it never tried to give back.  No order of source lines, no         *)
(* exceptions and no signals: Runner is shown to implement this.           *)
(***************************************************************************)
CONSTANTS Actors, Root \* Root: the actor the others hang on

VARIABLES
  phase, \* taking, using, giving, closed, abandoned
  held,  \* what the client has taken and not yet tried to give back
  world, \* what is on the server
  mine,  \* the server runs in the client's mode
  kept   \* the mode was entered late, or giving it back failed

lease == <<phase, held, world, mine, kept>>

Init ==
  /\ phase = "taking"
  /\ held = {}
  /\ world = {}
  /\ mine = FALSE
  /\ kept = FALSE

(* An actor is in hand from the moment it is there; the ego comes first.   *)
Take(a) ==
  /\ phase = "taking"
  /\ a = Root <=> held = {}
  /\ held' = held \cup {a}
  /\ world' = world \cup {a}
  /\ UNCHANGED <<phase, mine, kept>>

(* One actor is not got, or got by nobody: no more is taken.               *)
Miss(a) ==
  /\ phase = "taking"
  /\ world' \in {world, world \cup {a}}
  /\ phase' = "giving"
  /\ UNCHANGED <<held, mine, kept>>

(* With the whole rig in hand the client enters its mode, or does not and  *)
(* gives up.                                                               *)
Enter ==
  /\ phase = "taking"
  /\ held = Actors
  /\ phase' \in {"using", "giving"}
  /\ mine' \in BOOLEAN
  /\ kept' \in BOOLEAN
  /\ phase' = "giving" /\ mine' => kept'
  /\ UNCHANGED <<held, world>>

(* The mode is given back before any actor is.                             *)
Leave ==
  /\ phase = "using"
  /\ phase' = "giving"
  /\ mine' \in {FALSE, mine}
  /\ kept' \in BOOLEAN
  /\ mine' => kept'
  /\ UNCHANGED <<held, world>>

(* An actor that others hang on is not given back.                         *)
Give(a) ==
  /\ phase = "giving"
  /\ a \in held \ {Root}
  /\ held' = held \ {a}
  /\ world' \in {world, world \ {a}}
  /\ UNCHANGED <<phase, mine, kept>>

(* The ego is all that is left: it goes, and the lease ends.               *)
Close ==
  /\ phase = "giving"
  /\ held \subseteq {Root}
  /\ held' = {}
  /\ world' \in {world, world \ held}
  /\ phase' = "closed"
  /\ UNCHANGED <<mine, kept>>

(* The client ends before it has taken anything.                           *)
Decline ==
  /\ phase = "taking"
  /\ held = {}
  /\ phase' = "closed"
  /\ UNCHANGED <<held, world, mine, kept>>

(* The client is killed.                                                   *)
Abandon ==
  /\ phase \notin {"closed", "abandoned"}
  /\ phase' = "abandoned"
  /\ UNCHANGED <<held, world, mine, kept>>

Next ==
  \/ \E a \in Actors : Take(a) \/ Miss(a) \/ Give(a)
  \/ Enter \/ Leave \/ Close \/ Decline \/ Abandon

Spec == Init /\ [][Next]_lease
===============================================================================
