------------------------------ MODULE InteropGate ------------------------------
(***************************************************************************)
(* scripts/interop_check.py and interop_lib.py: the G0 gate.  For every    *)
(* topic of the contract it runs up to three commands of the ros2 CLI, one *)
(* after the other, while publishers come and go; then it writes two       *)
(* reports and exits 0 if every topic passed.                              *)
(*                                                                         *)
(* A topic's wanted type and QoS are fixed by its spec, so an endpoint is  *)
(* known by which of them it meets.  A report is the rows it shows.        *)
(***************************************************************************)
EXTENDS Integers, Sequences

CONSTANTS
  Specs,     \* the contract: for every topic the optional checks it pins
  Graphs,    \* what a topic may look like on the wire: see GateConstants
  MaxChanges \* how often the graph changes during a run

Offers == {"durability", "reliability"}
Pins == Offers \cup {"echo", "rate"}

ASSUME GateConstants ==
  /\ Specs \in Seq(SUBSET Pins)
  /\ Graphs \subseteq [type : BOOLEAN, \* is the topic's type the wanted one?
                       ends : Seq([pub : BOOLEAN, meets : SUBSET Offers])]
  /\ MaxChanges \in Nat

Topics == DOMAIN Specs

VARIABLES
  pc,      \* start, info, echo, rate, json, md, exit, done
  results, \* the rows of the topics that are finished
  row,     \* the checks of the topic under way: the ones that ran, and their outcome
  json,    \* interop_results.json: whose it is, and the rows it shows
  md,      \* interop_results.md
  exit,    \* none, 0, 1 (the verdict), discover, raised (a traceback, status 1), killed
  graph,   \* the wire: every topic's type and endpoints
  changes, \* how often it has changed
  lost,    \* history: a command was given up on, and that ended the gate
  proof    \* history: what was really so of a topic when it was looked at

vars == <<pc, results, row, json, md, exit, graph, changes, lost, proof>>
wire == <<graph, changes>>

Old == [of |-> "earlier", rows |-> <<>>] \* no file, or an earlier run's
Torn == [of |-> "torn", rows |-> <<>>]   \* truncated, and not written to the end
Unchecked == [c \in {} |-> TRUE]

(* The topic under way.                                                    *)
This == Len(results) + 1

Init ==
  /\ pc = "start"
  /\ results = <<>>
  /\ row = Unchecked
  /\ json = Old
  /\ md = Old
  /\ exit = "none"
  /\ graph \in [Topics -> Graphs]
  /\ changes = 0
  /\ lost = FALSE
  /\ proof = [t \in Topics |-> {}]

-------------------------------------------------------------------------------
(* interop_lib.py.                                                         *)

Published(g) == \E i \in DOMAIN g.ends : g.ends[i].pub

\* Mutant: a QoS line of any publisher counts.
ParseAnyPublisherQos(ends) == UNION {ends[i].meets : i \in {j \in DOMAIN ends : ends[j].pub}}

(* parse_publisher_qos: what the first publisher of the dump meets.        *)
ParsePublisherQos(ends) ==
  UNION {ends[i].meets : i \in {j \in DOMAIN ends : /\ ends[j].pub
                                                    /\ \A k \in 1..(j - 1) : ~ends[k].pub}}

(* evaluate_topic: presence, and what else the info command shows.         *)
Presence(o, g) == o = "ok" /\ Published(g)
InfoChecks(pins, g) ==
  [c \in {"presence", "type"} \cup (pins \cap Offers) |->
     CASE c = "presence" -> TRUE
       [] c = "type" -> g.type
       [] OTHER -> c \in ParsePublisherQos(g.ends)]

With(r, c, b) == [d \in DOMAIN r \cup {c} |-> IF d = c THEN b ELSE r[d]]

Passed(r) == \A c \in DOMAIN r : r[c]

(* any(not r["ok"]), as the exit status and the summary count it.          *)
AllPass(rs) == \A i \in DOMAIN rs : Passed(rs[i])

-------------------------------------------------------------------------------
(* sh(): a command ends by itself, with its status, or is given up on.     *)
(* Then it reports 124 and what was written -- but what was written comes  *)
(* as bytes.  With output on one stream the sum of bytes and a string      *)
(* raises; with output on both the sum is bytes, in which no string can be *)
(* searched for.                                                           *)

Outcomes == {"ok", "error", "silent", "partial", "both"}

Raise == /\ pc' = "done"
         /\ exit' = "raised"
         /\ lost' = TRUE
         /\ UNCHANGED <<results, row, json, md, wire, proof>>

\* Mutant: a topic that has failed is checked again.
NextCommandRetry(s) ==
  IF s = "info" /\ "echo" \in Specs[This] THEN "echo"
  ELSE IF s # "rate" /\ "rate" \in Specs[This] THEN "rate"
  ELSE IF s = "rate" /\ ~Passed(row) THEN "info" ELSE "none"

(* The command that a topic needs after s.                                 *)
NextCommand(s) ==
  IF s = "info" /\ "echo" \in Specs[This] THEN "echo"
  ELSE IF s # "rate" /\ "rate" \in Specs[This] THEN "rate" ELSE "none"

(* What follows with the checks r: that command, or else the next topic,   *)
(* or the reports.                                                         *)
Continue(command, r) ==
  IF command # "none" THEN /\ pc' = command
                           /\ row' = r
                           /\ UNCHANGED results
                      ELSE /\ results' = Append(results, r)
                           /\ row' = Unchecked
                           /\ pc' = IF This = Len(Specs) THEN "json" ELSE "info"

(* main(): --discover prints a list and returns; a contract that cannot be *)
(* read raises; an empty one goes straight to the reports.                 *)
Discover(o) ==
  /\ pc = "start"
  /\ IF o = "partial" THEN Raise
     ELSE /\ pc' = "done"
          /\ exit' = "discover"
          /\ UNCHANGED <<results, row, json, md, wire, lost, proof>>

LoadFails ==
  /\ pc = "start"
  /\ pc' = "done"
  /\ exit' = "raised"
  /\ UNCHANGED <<results, row, json, md, wire, lost, proof>>

(* An entry of the contract without a name or a type, with an offer that   *)
(* is no string or a rate that is no number raises when it is come to.     *)
Malformed ==
  /\ pc \in {"info", "rate"}
  /\ pc' = "done"
  /\ exit' = "raised"
  /\ UNCHANGED <<results, row, json, md, wire, lost, proof>>

Load ==
  /\ pc = "start"
  /\ pc' = IF Specs = <<>> THEN "json" ELSE "info"
  /\ UNCHANGED <<results, row, json, md, exit, wire, lost, proof>>

(* One publisher of the right type meets all that is pinned, at once.      *)
Offered(pins, g) ==
  g.type /\ \E i \in DOMAIN g.ends : g.ends[i].pub /\ pins \cap Offers \subseteq g.ends[i].meets

(* ros2 topic info --verbose: without a publisher nothing else is checked. *)
Info(o) ==
  /\ pc = "info"
  /\ IF o \in {"partial", "both"} THEN Raise
     ELSE LET g == graph[This] IN
          /\ IF Presence(o, g)
             THEN Continue(NextCommand("info"), InfoChecks(Specs[This], g))
             ELSE Continue("none", [c \in {"presence"} |-> FALSE])
          /\ proof' = [proof EXCEPT ![This] =
               IF Offered(Specs[This], g) THEN @ \cup {"offer"} ELSE @]
          /\ UNCHANGED <<json, md, exit, wire, lost>>

(* timeout 20 ros2 topic echo --once: one message of the wanted type.  The *)
(* output is not looked at when the status is 124.                         *)
Echo(o) ==
  /\ pc = "echo"
  /\ o = "ok" => graph[This].type /\ Published(graph[This])
  /\ IF o = "partial" THEN Raise
     ELSE /\ Continue(NextCommand("echo"), With(row, "echo", o = "ok"))
          /\ proof' = [proof EXCEPT ![This] = IF o = "ok" THEN @ \cup {"echo"} ELSE @]
          /\ UNCHANGED <<json, md, exit, wire, lost>>

(* timeout 15 ros2 topic hz, whose status is not looked at: it prints an   *)
(* average that is high enough, or a lower one, or none.                   *)
Rate(o) ==
  /\ pc = "rate"
  /\ o = "ok" => Published(graph[This])
  /\ IF o \in {"partial", "both"} THEN Raise
     ELSE /\ Continue(NextCommand("rate"), With(row, "rate", o = "ok"))
          /\ proof' = [proof EXCEPT ![This] = IF o = "ok" THEN @ \cup {"rate"} ELSE @]
          /\ UNCHANGED <<json, md, exit, wire, lost>>

-------------------------------------------------------------------------------
(* The reports, the exit and the rest of the world.                        *)

WriteJson ==
  /\ pc = "json"
  /\ json' = [of |-> "this", rows |-> results]
  /\ pc' = "md"
  /\ UNCHANGED <<results, row, md, exit, wire, lost, proof>>

\* Mutant: the table shows what failed.
WriteMdFailures ==
  /\ pc = "md"
  /\ md' = [of |-> "this", rows |-> SelectSeq(results, LAMBDA r : ~Passed(r))]
  /\ pc' = "exit"
  /\ UNCHANGED <<results, row, json, exit, wire, lost, proof>>

WriteMd ==
  /\ pc = "md"
  /\ md' = [of |-> "this", rows |-> results]
  /\ pc' = "exit"
  /\ UNCHANGED <<results, row, json, exit, wire, lost, proof>>

(* A file is opened for writing and cut short, or not even opened.         *)
CutShort ==
  /\ json' \in IF pc = "json" THEN {json, Torn} ELSE {json}
  /\ md' \in IF pc = "md" THEN {md, Torn} ELSE {md}

WriteFails ==
  /\ pc \in {"json", "md"}
  /\ CutShort
  /\ pc' = "done"
  /\ exit' = "raised"
  /\ UNCHANGED <<results, row, wire, lost, proof>>

Exit ==
  /\ pc = "exit"
  /\ exit' = IF AllPass(results) THEN "0" ELSE "1"
  /\ pc' = "done"
  /\ UNCHANGED <<results, row, json, md, wire, lost, proof>>

Killed ==
  /\ pc # "done"
  /\ pc' = "done"
  /\ exit' = "killed"
  /\ CutShort
  /\ UNCHANGED <<results, row, wire, lost, proof>>

(* A publisher or a subscriber of t comes or goes.                         *)
Change(t, g) ==
  /\ pc # "done"
  /\ changes < MaxChanges
  /\ g # graph[t]
  /\ graph' = [graph EXCEPT ![t] = g]
  /\ changes' = changes + 1
  /\ UNCHANGED <<pc, results, row, json, md, exit, lost, proof>>

Main ==
  \/ LoadFails \/ Load \/ Malformed \/ WriteJson \/ WriteMd \/ WriteFails \/ Exit
  \/ \E o \in Outcomes : Discover(o) \/ Info(o) \/ Echo(o) \/ Rate(o)

Next == Main \/ Killed \/ \E t \in Topics, g \in Graphs : Change(t, g)

Spec == Init /\ [][Next]_vars

(* Every command has a timeout, so main() does not stand still.            *)
FairSpec == Spec /\ WF_vars(Main)

-------------------------------------------------------------------------------
(* Properties.                                                             *)

(* A row: the checks that ran, and what came out.                          *)
Rows == UNION {[D -> BOOLEAN] : D \in SUBSET ({"presence", "type"} \cup Pins)}
Reports == [of : {"earlier", "torn", "this"}, rows : Seq(Rows)]

TypeOK ==
  /\ pc \in {"start", "info", "echo", "rate", "json", "md", "exit", "done"}
  /\ results \in Seq(Rows)
  /\ row \in Rows
  /\ json \in Reports /\ md \in Reports
  /\ exit \in {"none", "0", "1", "discover", "raised", "killed"}
  /\ graph \in [Topics -> Graphs]
  /\ changes \in 0..MaxChanges
  /\ lost \in BOOLEAN
  /\ proof \in [Topics -> SUBSET ({"offer"} \cup Pins)]

(* interop_lib.py:47-52, interop_check.py:6: status 0 means that for every *)
(* topic of the contract, at a moment of this run, one publisher offered   *)
(* the wanted type, durability and reliability together, and that every    *)
(* message and rate the contract asks for was received -- though by then   *)
(* another publisher may have taken its place.                             *)
PassIsEarned ==
  exit = "0" => \A t \in Topics : {"offer"} \cup (Specs[t] \ Offers) \subseteq proof[t]

(* interop_check.py:5-6, 47-58, interop_lib.py:65-80: the two reports and  *)
(* the exit status of a finished run tell the same: each row is there, a   *)
(* dash in a pinned column means that presence failed, and the status is 0 *)
(* only if every pinned check of every row passed; and Markdown of this    *)
(* run never stands beside JSON of an earlier one.                         *)
ReportsAgree ==
  /\ md.of = "this" => json = md
  /\ exit \in {"0", "1"} =>
       LET pinned(t) == {"presence", "type"} \cup Specs[t]
       IN  /\ md.of = "this" /\ Len(md.rows) = Len(Specs)
           /\ \A t \in Topics : DOMAIN md.rows[t] =
                IF md.rows[t]["presence"] THEN pinned(t) ELSE {"presence"}
           /\ exit = "0" <=> \A t \in Topics : \A c \in pinned(t) :
                               c \in DOMAIN md.rows[t] /\ md.rows[t][c]

(* interop_check.py:20-29: whatever the commands do, the gate ends.        *)
GateEnds == <>(pc = "done")

(* interop_check.py:23-24, "A timeout is reported as return code 124": no  *)
(* timeout ends the gate.                                                  *)
TimeoutIsReported == ~lost
===============================================================================
