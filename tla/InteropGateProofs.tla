-------------------------- MODULE InteropGateProofs ---------------------------
(***************************************************************************)
(* What the G0 gate's verdict is worth for every contract, every set of    *)
(* graphs and however often the graph changes under it.  IInv says of each *)
(* row, finished or under way, which checks it holds and what a row        *)
(* without a failed check has seen.                                        *)
(***************************************************************************)
EXTENDS InteropGate, SequenceTheorems, TLAPS

(* The checks of topic t that run before the command s.                    *)
Checked(t, s) ==
  {"presence", "type"} \cup (Specs[t] \ IF s = "echo" THEN {"echo", "rate"} ELSE {"rate"})

(* Where main() is in the contract.                                        *)
PlaceInv ==
  /\ pc = "start" => Len(results) = 0
  /\ pc \in {"info", "echo", "rate"} => Len(results) < Len(Specs)
  /\ pc \in {"json", "md", "exit"} => Len(results) = Len(Specs)
  /\ Len(results) <= Len(Specs)

(* A finished row holds every pinned check, unless the topic is absent.    *)
Complete(t, r) ==
  /\ "presence" \in DOMAIN r
  /\ DOMAIN r = IF r["presence"] THEN {"presence", "type"} \cup Specs[t] ELSE {"presence"}

(* A row with no failed check has seen what it stands for.                 *)
RowsInv ==
  \A t \in 1..Len(results) :
    /\ Complete(t, results[t])
    /\ Passed(results[t]) => {"offer"} \cup (Specs[t] \ Offers) \subseteq proof[t]

(* The same of the topic under way, for the checks that have run.          *)
RowInv ==
  pc \in {"echo", "rate"} =>
    /\ pc \in Specs[This]
    /\ DOMAIN row = Checked(This, pc)
    /\ row["presence"]
    /\ Passed(row) => {"offer"} \cup ((Specs[This] \cap Checked(This, pc)) \ Offers) \subseteq proof[This]

(* Which reports are there, and that nothing is added to them.             *)
ReportInv ==
  /\ pc \in {"start", "info", "echo", "rate", "json"} => json.of # "this"
  /\ json.of = "this" => json.rows = results
  /\ pc \in {"md", "exit"} => json.of = "this"
  /\ pc \in {"start", "info", "echo", "rate", "json", "md"} => md.of # "this"
  /\ md.of = "this" => json.of = "this" /\ md.rows = results
  /\ pc = "exit" => md.of = "this"

(* The verdict is on all the rows.                                         *)
ExitInv ==
  /\ pc # "done" => exit = "none"
  /\ exit \in {"0", "1"} => md.of = "this" /\ Len(results) = Len(Specs)
  /\ exit = "0" => AllPass(results)
  /\ exit = "1" => ~AllPass(results)

IInv == TypeOK /\ PlaceInv /\ RowsInv /\ RowInv /\ ReportInv /\ ExitInv
-------------------------------------------------------------------------------
(* Facts about the contract, the rows and interop_lib.py.                  *)

(* A topic's pins are checks, and its number is its place.                 *)
LEMMA SpecFacts ==
  Topics = 1..Len(Specs) /\ Len(Specs) \in Nat /\ \A t \in Topics : Specs[t] \subseteq Pins
<1>1. Specs \in Seq(SUBSET Pins)
  BY GateConstants
<1>2. Topics = 1..Len(Specs) /\ Len(Specs) \in Nat /\ Specs \in [1..Len(Specs) -> SUBSET Pins]
  BY <1>1, LenProperties DEF Topics
<1> QED
  BY <1>2

(* parse_publisher_qos reads one publisher's block: what it finds there,   *)
(* one publisher offers at once.                                           *)
LEMMA OneBlock ==
  ASSUME NEW g \in Graphs, NEW pins, g.type, Published(g),
         pins \cap Offers \subseteq ParsePublisherQos(g.ends)
  PROVE  Offered(pins, g)
<1> DEFINE first == {j \in DOMAIN g.ends : g.ends[j].pub /\ \A k \in 1..(j - 1) : ~g.ends[k].pub}
<1>1. g.ends \in Seq([pub : BOOLEAN, meets : SUBSET Offers])
  BY GateConstants
<1>2. DOMAIN g.ends = 1..Len(g.ends) /\ Len(g.ends) \in Nat
  BY <1>1, LenProperties
<1>3. ParsePublisherQos(g.ends) = UNION {g.ends[i].meets : i \in first}
  BY DEF ParsePublisherQos
<1>4. CASE first = {}
  <2>1. pins \cap Offers = {}
    BY <1>3, <1>4
  <2>2. PICK i \in DOMAIN g.ends : g.ends[i].pub
    BY DEF Published
  <2> QED
    BY <2>1, <2>2 DEF Offered
<1>5. ASSUME NEW i \in first PROVE Offered(pins, g)
  <2>1. ASSUME NEW j \in first PROVE j = i
    <3>1. i \in 1..Len(g.ends) /\ j \in 1..Len(g.ends)
      BY <1>2, <1>5, <2>1
    <3>2. ~(i < j) /\ ~(j < i)
      BY <1>2, <1>5, <2>1, <3>1
    <3> QED
      BY <3>1, <3>2, <1>2
  <2>2. pins \cap Offers \subseteq g.ends[i].meets
    BY <1>3, <2>1
  <2> QED
    BY <1>5, <2>2 DEF Offered
<1> QED
  BY <1>4, <1>5

(* A function on some of the checks with truth values is a row.            *)
LEMMA RowIsRow ==
  ASSUME NEW D \in SUBSET ({"presence", "type"} \cup Pins), NEW r \in [D -> BOOLEAN]
  PROVE  r \in Rows
BY DEF Rows

(* One more check on a row.                                                *)
LEMMA WithRow ==
  ASSUME NEW r \in Rows, NEW c \in Pins, NEW b \in BOOLEAN
  PROVE  /\ With(r, c, b) \in Rows
         /\ DOMAIN With(r, c, b) = DOMAIN r \cup {c}
         /\ With(r, c, b)[c] = b
         /\ \A d \in DOMAIN r : d # c => With(r, c, b)[d] = r[d]
<1>1. PICK D \in SUBSET ({"presence", "type"} \cup Pins) : r \in [D -> BOOLEAN]
  BY DEF Rows
<1>2. With(r, c, b) \in [D \cup {c} -> BOOLEAN]
  BY <1>1 DEF With
<1>3. With(r, c, b) \in Rows
  BY <1>2, RowIsRow
<1> QED
  BY <1>1, <1>3 DEF With

(* What the next row or the next command does to the invariant, given what *)
(* the checks r so far hold and have seen.                                 *)
LEMMA ContinueStep ==
  ASSUME TypeOK, PlaceInv, RowsInv, pc \in {"info", "echo", "rate"},
         NEW command \in {"none", "echo", "rate"}, NEW r \in Rows, Continue(command, r),
         \A t \in Topics : proof[t] \subseteq proof'[t],
         command = "none" =>
           /\ Complete(This, r)
           /\ Passed(r) => {"offer"} \cup (Specs[This] \ Offers) \subseteq proof'[This],
         command # "none" =>
           /\ command \in Specs[This]
           /\ DOMAIN r = Checked(This, command)
           /\ r["presence"]
           /\ Passed(r) => {"offer"} \cup ((Specs[This] \cap Checked(This, command)) \ Offers)
                           \subseteq proof'[This]
  PROVE  /\ results' \in Seq(Rows) /\ row' \in Rows /\ pc' \in {"info", "echo", "rate", "json"}
         /\ PlaceInv' /\ RowsInv' /\ RowInv'
<1>1. Len(results) \in Nat /\ Len(results) < Len(Specs) /\ Len(Specs) \in Nat /\ This \in Topics
  BY SpecFacts, LenProperties DEF TypeOK, PlaceInv, This
<1>2. CASE command = "none"
  <2>1. results' = Append(results, r) /\ row' = Unchecked
    BY <1>2 DEF Continue
  <2>2. pc' = IF This = Len(Specs) THEN "json" ELSE "info"
    BY <1>2 DEF Continue
  <2>3. /\ results' \in Seq(Rows) /\ Len(results') = Len(results) + 1
        /\ \A i \in 1..Len(results) : results'[i] = results[i]
        /\ results'[Len(results) + 1] = r
    BY <2>1, AppendProperties DEF TypeOK
  <2>4. row' \in Rows
    <3>1. Unchecked \in [{} -> BOOLEAN]
      BY DEF Unchecked
    <3> QED
      BY <2>1, <3>1, RowIsRow
  <2>5. PlaceInv'
    BY <1>1, <2>2, <2>3 DEF PlaceInv, This
  <2>6. ASSUME NEW t \in 1..Len(results')
        PROVE  /\ Complete(t, results'[t])
               /\ Passed(results'[t]) => {"offer"} \cup (Specs[t] \ Offers) \subseteq proof'[t]
    <3>1. CASE t = This
      BY <1>2, <2>3, <3>1 DEF This
    <3>2. CASE t # This
      <4>1. t \in 1..Len(results) /\ t \in Topics
        BY <1>1, <2>3, <2>6, <3>2, SpecFacts DEF This
      <4>2. results'[t] = results[t] /\ proof[t] \subseteq proof'[t]
        BY <2>3, <4>1
      <4> QED
        BY <4>1, <4>2 DEF RowsInv
    <3> QED
      BY <3>1, <3>2
  <2>7. RowsInv'
    BY <2>6 DEF RowsInv, Complete, Passed
  <2> QED
    BY <2>2, <2>3, <2>4, <2>5, <2>7 DEF RowInv
<1>3. CASE command # "none"
  <2>1. pc' = command /\ row' = r /\ results' = results
    BY <1>3 DEF Continue
  <2>2. PlaceInv'
    BY <1>1, <1>3, <2>1 DEF PlaceInv
  <2>3. ASSUME NEW t \in 1..Len(results')
        PROVE  /\ Complete(t, results'[t])
               /\ Passed(results'[t]) => {"offer"} \cup (Specs[t] \ Offers) \subseteq proof'[t]
    <3>1. t \in Topics
      BY <1>1, <2>1, <2>3, SpecFacts
    <3> QED
      BY <2>1, <2>3, <3>1 DEF RowsInv
  <2>4. RowsInv'
    BY <2>3 DEF RowsInv, Complete, Passed
  <2>5. RowInv'
    BY <1>3, <2>1 DEF RowInv, Passed, This, Checked
  <2> QED
    BY <1>3, <2>1, <2>2, <2>4, <2>5 DEF TypeOK
<1> QED
  BY <1>2, <1>3

-------------------------------------------------------------------------------
(* The three commands.                                                     *)

(* interop_lib.evaluate_topic after "ros2 topic info": an absent topic is  *)
(* one failed check; a present one is checked for its type and offers, and *)
(* when none of these failed one publisher met them all.                   *)
LEMMA InfoStep ==
  ASSUME IInv, NEW o \in Outcomes, Info(o), o \notin {"partial", "both"}
  PROVE  /\ results' \in Seq(Rows) /\ row' \in Rows /\ pc' \in {"info", "echo", "rate", "json"}
         /\ PlaceInv' /\ RowsInv' /\ RowInv'
         /\ proof' \in [Topics -> SUBSET ({"offer"} \cup Pins)]
<1> USE DEF IInv
<1>1. pc = "info" /\ This \in Topics /\ Specs[This] \subseteq Pins /\ graph[This] \in Graphs
  BY SpecFacts, LenProperties DEF Info, TypeOK, PlaceInv, This
<1> DEFINE g == graph[This]
           pins == Specs[This]
           absent == [c \in {"presence"} |-> FALSE]
<1>2. /\ IF Presence(o, g) THEN Continue(NextCommand("info"), InfoChecks(pins, g))
                           ELSE Continue("none", absent)
      /\ proof' = [proof EXCEPT ![This] = IF Offered(pins, g) THEN @ \cup {"offer"} ELSE @]
  BY DEF Info
<1>3. /\ proof' \in [Topics -> SUBSET ({"offer"} \cup Pins)]
      /\ \A t \in Topics : proof[t] \subseteq proof'[t]
      /\ Offered(pins, g) => "offer" \in proof'[This]
  BY <1>1, <1>2 DEF TypeOK
<1> HIDE DEF g, pins, absent
<1>4. CASE ~Presence(o, g)
  <2>1. absent \in Rows /\ DOMAIN absent = {"presence"} /\ ~absent["presence"]
    BY RowIsRow DEF absent
  <2>2. Complete(This, absent) /\ ~Passed(absent)
    BY <2>1 DEF Complete, Passed
  <2>3. Continue("none", absent)
    BY <1>2, <1>4
  <2> QED
    BY <1>1, <1>3, <2>1, <2>2, <2>3, ContinueStep
<1>5. CASE Presence(o, g)
  <2> DEFINE r == InfoChecks(pins, g)
             D == {"presence", "type"} \cup (pins \cap Offers)
             command == NextCommand("info")
  <2>1. g.type \in BOOLEAN /\ Published(g)
    BY <1>1, <1>5, GateConstants DEF Presence, g
  <2>2. r \in [D -> BOOLEAN] /\ r["presence"] /\ r["type"] = g.type
    <3>1. ASSUME NEW c \in D
          PROVE  r[c] = CASE c = "presence" -> TRUE
                          [] c = "type" -> g.type
                          [] OTHER -> c \in ParsePublisherQos(g.ends)
      BY DEF InfoChecks
    <3>2. r["presence"] = TRUE /\ r["type"] = g.type
      BY <3>1
    <3>3. ASSUME NEW c \in D PROVE r[c] \in BOOLEAN
      <4>1. CASE c \in {"presence", "type"}
        BY <2>1, <3>2, <4>1
      <4>2. CASE c \notin {"presence", "type"}
        <5>1. r[c] = (c \in ParsePublisherQos(g.ends))
          BY <3>1, <4>2
        <5> QED
          BY <5>1
      <4> QED
        BY <4>1, <4>2
    <3>4. r = [c \in D |-> r[c]]
      BY DEF InfoChecks
    <3> QED
      BY <3>2, <3>3, <3>4
  <2>3. \A c \in pins \cap Offers : r[c] = (c \in ParsePublisherQos(g.ends))
    BY DEF InfoChecks, Offers
  <2>4. r \in Rows /\ DOMAIN r = D
    BY <1>1, <2>2, RowIsRow DEF pins
  <2> HIDE DEF r
  <2>5. ASSUME Passed(r) PROVE "offer" \in proof'[This]
    <3>1. g.type /\ pins \cap Offers \subseteq ParsePublisherQos(g.ends)
      BY <2>2, <2>3, <2>4, <2>5 DEF Passed
    <3>2. Offered(pins, g)
      BY <1>1, <2>1, <3>1, OneBlock DEF g
    <3> QED
      BY <1>3, <3>2
  <2>6. /\ command = "none" => pins \subseteq Offers
        /\ command # "none" => command \in pins /\ D = Checked(This, command)
        /\ command \in {"none", "echo", "rate"}
        /\ (pins \cap Checked(This, command)) \ Offers = {}
    BY <1>1 DEF NextCommand, pins, Checked, Pins, Offers
  <2>7. Continue(command, r)
    BY <1>2, <1>5 DEF r
  <2> HIDE DEF command
  <2>8. command = "none" =>
           /\ Complete(This, r)
           /\ Passed(r) => {"offer"} \cup (Specs[This] \ Offers) \subseteq proof'[This]
    BY <2>2, <2>4, <2>5, <2>6 DEF Complete, pins
  <2>9. command # "none" =>
           /\ command \in Specs[This]
           /\ DOMAIN r = Checked(This, command)
           /\ r["presence"]
           /\ Passed(r) => {"offer"} \cup ((Specs[This] \cap Checked(This, command)) \ Offers)
                           \subseteq proof'[This]
    BY <2>2, <2>4, <2>5, <2>6 DEF pins
  <2> QED
    BY <1>1, <1>3, <2>4, <2>6, <2>7, <2>8, <2>9, ContinueStep
<1> QED
  BY <1>4, <1>5

(* "ros2 topic echo" and "ros2 topic hz" each add the check of their name, *)
(* which passes only if it was seen to.                                    *)
LEMMA CommandStep ==
  ASSUME IInv, NEW s \in {"echo", "rate"}, pc = s, NEW b \in BOOLEAN,
         Continue(NextCommand(s), With(row, s, b)),
         proof' = [proof EXCEPT ![This] = IF b THEN @ \cup {s} ELSE @]
  PROVE  /\ results' \in Seq(Rows) /\ row' \in Rows /\ pc' \in {"info", "echo", "rate", "json"}
         /\ PlaceInv' /\ RowsInv' /\ RowInv'
         /\ proof' \in [Topics -> SUBSET ({"offer"} \cup Pins)]
<1> USE DEF IInv
<1>1. This \in Topics /\ Specs[This] \subseteq Pins
  BY SpecFacts, LenProperties DEF TypeOK, PlaceInv, This
<1>2. /\ s \in Specs[This] /\ DOMAIN row = Checked(This, s) /\ row["presence"] /\ s \in Pins
      /\ Passed(row) => {"offer"} \cup ((Specs[This] \cap Checked(This, s)) \ Offers) \subseteq proof[This]
  BY <1>1 DEF RowInv
<1>3. /\ proof' \in [Topics -> SUBSET ({"offer"} \cup Pins)]
      /\ \A t \in Topics : proof[t] \subseteq proof'[t]
      /\ b => s \in proof'[This]
  BY <1>1, <1>2 DEF TypeOK
<1> DEFINE r == With(row, s, b)
           command == NextCommand(s)
<1>4. /\ r \in Rows /\ DOMAIN r = Checked(This, s) \cup {s} /\ r[s] = b
      /\ \A d \in DOMAIN row : d # s => r[d] = row[d]
  <2>1. row \in Rows
    BY DEF TypeOK
  <2>2. r \in Rows /\ DOMAIN r = DOMAIN row \cup {s} /\ r[s] = b
    <3> HIDE DEF IInv
    <3>1. s \in Pins
      BY <1>2
    <3> QED
      BY <2>1, <3>1, WithRow
  <2>3. ASSUME NEW d \in DOMAIN row, d # s PROVE r[d] = row[d]
    BY <2>3 DEF With
  <2> QED
    BY <1>2, <2>2, <2>3
<1>5. Continue(command, r)
  OBVIOUS
<1> HIDE DEF r
<1>6. s \notin Checked(This, s) /\ "presence" \in Checked(This, s)
  BY <1>2 DEF Checked
<1>7. r["presence"]
  BY <1>2, <1>4, <1>6
<1>8. ASSUME Passed(r)
      PROVE  {"offer"} \cup ((Specs[This] \cap (Checked(This, s) \cup {s})) \ Offers) \subseteq proof'[This]
  <2>1. b /\ Passed(row)
    BY <1>2, <1>4, <1>6, <1>8 DEF Passed
  <2> QED
    BY <1>1, <1>2, <1>3, <2>1
<1>9. /\ command = "none" => Checked(This, s) \cup {s} = {"presence", "type"} \cup Specs[This]
      /\ command # "none" => command \in Specs[This] /\ Checked(This, s) \cup {s} = Checked(This, command)
      /\ command \in {"none", "echo", "rate"}
  BY <1>1, <1>2 DEF NextCommand, Checked, Pins, Offers
<1> HIDE DEF command
<1>10. command = "none" =>
           /\ Complete(This, r)
           /\ Passed(r) => {"offer"} \cup (Specs[This] \ Offers) \subseteq proof'[This]
  BY <1>4, <1>7, <1>8, <1>9 DEF Complete
<1>11. command # "none" =>
           /\ command \in Specs[This]
           /\ DOMAIN r = Checked(This, command)
           /\ r["presence"]
           /\ Passed(r) => {"offer"} \cup ((Specs[This] \cap Checked(This, command)) \ Offers)
                           \subseteq proof'[This]
  BY <1>4, <1>7, <1>8, <1>9
<1> QED
  BY <1>1, <1>3, <1>4, <1>5, <1>9, <1>10, <1>11, ContinueStep

-------------------------------------------------------------------------------
(* One step of the gate.                                                   *)

(* A step that leaves the topics alone and is no command.                  *)
LEMMA RowsKept ==
  ASSUME PlaceInv, RowsInv, RowInv, UNCHANGED <<results, row, proof>>,
         pc' \in {"json", "md", "exit", "done"} \/ pc' = pc,
         pc' \in {"json", "md", "exit"} => Len(results) = Len(Specs)
  PROVE  PlaceInv' /\ RowsInv' /\ RowInv'
<1>1. PlaceInv'
  BY DEF PlaceInv
<1>2. RowsInv'
  BY DEF RowsInv, Complete, Passed
<1>3. RowInv'
  BY DEF RowInv, Passed, This, Checked
<1> QED
  BY <1>1, <1>2, <1>3

(* A command that is finished leaves the reports and the exit alone.       *)
LEMMA ReportsKept ==
  ASSUME ReportInv, ExitInv, UNCHANGED <<json, md, exit>>, pc \in {"info", "echo", "rate"},
         pc' \in {"info", "echo", "rate", "json"}
  PROVE  ReportInv' /\ ExitInv'
BY DEF ReportInv, ExitInv

(* Nothing is checked and nothing written yet.                            *)
LEMMA InitInv == Init => IInv
<1> SUFFICES ASSUME Init PROVE IInv
  OBVIOUS
<1>1. results \in Seq(Rows) /\ Len(results) = 0 /\ Old \in Reports
  BY EmptySeq DEF Init, Old, Reports
<1>2. row \in Rows
  <2>1. Unchecked \in [{} -> BOOLEAN]
    BY DEF Unchecked
  <2> QED
    BY <2>1, RowIsRow DEF Init
<1>3. TypeOK
  <2>1. changes \in 0..MaxChanges
    BY GateConstants DEF Init
  <2>4. lost \in BOOLEAN
    BY Zenon DEF Init
  <2>2. proof \in [Topics -> SUBSET ({"offer"} \cup Pins)]
    BY DEF Init
  <2>3. json \in Reports /\ md \in Reports /\ graph \in [Topics -> Graphs]
    BY <1>1 DEF Init
  <2> QED
    BY <1>1, <1>2, <2>1, <2>2, <2>3, <2>4 DEF Init, TypeOK
<1>4. PlaceInv /\ RowsInv /\ RowInv
  BY <1>1, SpecFacts DEF Init, PlaceInv, RowsInv, RowInv
<1>5. ReportInv /\ ExitInv
  BY DEF Init, ReportInv, ExitInv, Old
<1> QED
  BY <1>3, <1>4, <1>5 DEF IInv

(* Every command, write, failure, kill and change on the wire keeps IInv.  *)
LEMMA NextInv == ASSUME IInv, [Next]_vars PROVE IInv'
<1> USE DEF IInv, wire
<1>1. CASE \E o \in Outcomes : Info(o) /\ o \notin {"partial", "both"}
  <2>1. PICK o \in Outcomes : Info(o) /\ o \notin {"partial", "both"}
    BY <1>1
  <2>2. UNCHANGED <<json, md, exit, graph, changes, lost>> /\ pc = "info"
    BY <2>1 DEF Info
  <2> QED
    BY <2>1, <2>2, InfoStep, ReportsKept DEF TypeOK
<1>2. CASE \E o \in Outcomes : Echo(o) /\ o # "partial"
  <2>1. PICK o \in Outcomes : Echo(o) /\ o # "partial"
    BY <1>2
  <2>2. UNCHANGED <<json, md, exit, graph, changes, lost>> /\ pc = "echo"
    BY <2>1 DEF Echo
  <2>3. /\ Continue(NextCommand("echo"), With(row, "echo", o = "ok"))
        /\ proof' = [proof EXCEPT ![This] = IF o = "ok" THEN @ \cup {"echo"} ELSE @]
    BY <2>1 DEF Echo
  <2> QED
    BY <2>2, <2>3, CommandStep, ReportsKept DEF TypeOK
<1>3. CASE \E o \in Outcomes : Rate(o) /\ o \notin {"partial", "both"}
  <2>1. PICK o \in Outcomes : Rate(o) /\ o \notin {"partial", "both"}
    BY <1>3
  <2>2. UNCHANGED <<json, md, exit, graph, changes, lost>> /\ pc = "rate"
    BY <2>1 DEF Rate
  <2>3. /\ Continue(NextCommand("rate"), With(row, "rate", o = "ok"))
        /\ proof' = [proof EXCEPT ![This] = IF o = "ok" THEN @ \cup {"rate"} ELSE @]
    BY <2>1 DEF Rate
  <2> QED
    BY <2>2, <2>3, CommandStep, ReportsKept DEF TypeOK
<1>4. CASE Raise /\ pc \in {"start", "info", "echo", "rate"}
  <2>1. TypeOK'
    BY <1>4 DEF Raise, TypeOK
  <2>2. PlaceInv' /\ RowsInv' /\ RowInv'
    BY <1>4, RowsKept DEF Raise
  <2> QED
    BY <1>4, <2>1, <2>2 DEF Raise, ReportInv, ExitInv
<1>5. CASE \E o \in Outcomes : Discover(o) /\ o # "partial"
  <2>1. /\ pc = "start" /\ pc' = "done" /\ exit' = "discover"
        /\ UNCHANGED <<results, row, json, md, graph, changes, lost, proof>>
    BY <1>5 DEF Discover
  <2>2. PlaceInv' /\ RowsInv' /\ RowInv'
    BY <2>1, RowsKept
  <2> QED
    BY <2>1, <2>2 DEF TypeOK, ReportInv, ExitInv
<1>6. CASE LoadFails
  <2>1. PlaceInv' /\ RowsInv' /\ RowInv'
    BY <1>6, RowsKept DEF LoadFails
  <2> QED
    BY <1>6, <2>1 DEF LoadFails, TypeOK, ReportInv, ExitInv
<1>7. CASE Load
  <2>1. Specs # <<>> => Len(Specs) > 0
    BY GateConstants, EmptySeq
  <2>2. Specs = <<>> => Len(Specs) = 0
    BY EmptySeq
  <2>3. PlaceInv'
    BY <1>7, <2>1, <2>2, SpecFacts DEF Load, PlaceInv
  <2>4. RowsInv'
    BY <1>7 DEF Load, RowsInv, Complete, Passed
  <2> QED
    BY <1>7, <2>3, <2>4 DEF Load, TypeOK, RowInv, ReportInv, ExitInv
<1>8. CASE WriteJson
  <2>1. PlaceInv' /\ RowsInv' /\ RowInv'
    BY <1>8, RowsKept DEF WriteJson, PlaceInv
  <2>2. json' \in Reports
    BY <1>8 DEF WriteJson, TypeOK, Reports
  <2> QED
    BY <1>8, <2>1, <2>2 DEF WriteJson, TypeOK, ReportInv, ExitInv
<1>9. CASE WriteMd
  <2>1. PlaceInv' /\ RowsInv' /\ RowInv'
    BY <1>9, RowsKept DEF WriteMd, PlaceInv
  <2>2. md' \in Reports
    BY <1>9 DEF WriteMd, TypeOK, Reports
  <2> QED
    BY <1>9, <2>1, <2>2 DEF WriteMd, TypeOK, ReportInv, ExitInv
<1>10. CASE CutShort /\ pc # "done" /\ pc' = "done" /\ exit' \in {"raised", "killed"}
            /\ UNCHANGED <<results, row, graph, changes, lost, proof>>
  <2>1. PlaceInv' /\ RowsInv' /\ RowInv'
    BY <1>10, RowsKept
  <2>2. Torn \in Reports /\ Torn.of # "this"
    BY EmptySeq DEF Torn, Reports
  <2>3. json' \in Reports /\ md' \in Reports
    BY <1>10, <2>2 DEF CutShort, TypeOK
  <2>4. ReportInv'
    BY <1>10, <2>2 DEF CutShort, ReportInv
  <2> QED
    BY <1>10, <2>1, <2>3, <2>4 DEF TypeOK, ExitInv
<1>11. CASE WriteFails
  BY <1>10, <1>11 DEF WriteFails
<1>12. CASE Exit
  <2>1. PlaceInv' /\ RowsInv' /\ RowInv'
    BY <1>12, RowsKept DEF Exit
  <2>2. ExitInv'
    BY <1>12 DEF Exit, ExitInv, PlaceInv, ReportInv, AllPass, Passed
  <2> QED
    BY <1>12, <2>1, <2>2 DEF Exit, TypeOK, ReportInv
<1>13. CASE Killed
  BY <1>10, <1>13 DEF Killed
<1>14. CASE \E t \in Topics, g \in Graphs : Change(t, g)
  <2>1. /\ pc' = pc /\ UNCHANGED <<results, row, json, md, exit, lost, proof>>
        /\ graph' \in [Topics -> Graphs] /\ changes' \in 0..MaxChanges
    BY <1>14, GateConstants DEF Change, TypeOK
  <2>2. PlaceInv' /\ RowsInv' /\ RowInv'
    BY <2>1, RowsKept DEF PlaceInv
  <2> QED
    BY <2>1, <2>2 DEF TypeOK, ReportInv, ExitInv, AllPass, Passed
<1>15. CASE UNCHANGED vars
  <2>1. PlaceInv' /\ RowsInv' /\ RowInv'
    BY <1>15, RowsKept DEF vars, PlaceInv
  <2> QED
    BY <1>15, <2>1 DEF vars, TypeOK, ReportInv, ExitInv, AllPass, Passed
<1>16. CASE Malformed
  <2>1. PlaceInv' /\ RowsInv' /\ RowInv'
    BY <1>16, RowsKept DEF Malformed
  <2> QED
    BY <1>16, <2>1 DEF Malformed, TypeOK, ReportInv, ExitInv
<1> QED
  BY <1>1, <1>2, <1>3, <1>4, <1>5, <1>6, <1>7, <1>8, <1>9, <1>11, <1>12, <1>13, <1>14, <1>15, <1>16
  DEF Next, Main, Info, Echo, Rate, Discover

-------------------------------------------------------------------------------
(* The theorems.                                                           *)

(* For every contract and whatever comes and goes on the wire, IInv holds. *)
THEOREM Invariance == Spec => []IInv
BY InitInv, NextInv, PTL DEF Spec

(* Every variable of the gate keeps to its type.                           *)
THEOREM TypeCorrect == Spec => []TypeOK
BY Invariance, PTL DEF IInv

(* interop_lib.py:47-52, interop_check.py:6: a status of 0 was earned      *)
(* topic by topic: one publisher met type, durability and reliability at   *)
(* once, and every message and rate asked for was received.                *)
THEOREM StatusZeroIsEarned == Spec => []PassIsEarned
<1>1. ASSUME IInv, exit = "0", NEW t \in Topics
      PROVE  {"offer"} \cup (Specs[t] \ Offers) \subseteq proof[t]
  <2>1. Len(results) = Len(Specs) /\ AllPass(results) /\ DOMAIN results = 1..Len(results)
    BY <1>1, LenProperties DEF IInv, ExitInv, TypeOK
  <2>2. t \in 1..Len(results) /\ Passed(results[t])
    BY <1>1, <2>1, SpecFacts DEF AllPass
  <2> QED
    BY <1>1, <2>2 DEF IInv, RowsInv
<1>2. IInv => PassIsEarned
  BY <1>1 DEF PassIsEarned
<1> QED
  BY Invariance, <1>2, PTL

(* interop_check.py:47-58, interop_lib.py:65-80: JSON, Markdown and exit   *)
(* status tell the same of every topic, and Markdown of this run stands    *)
(* beside JSON of this run.                                                *)
THEOREM ReportsTellTheSame == Spec => []ReportsAgree
<1>1. ASSUME IInv, md.of = "this" PROVE json = md
  BY <1>1 DEF IInv, TypeOK, Reports, ReportInv
<1>2. ASSUME IInv, exit \in {"0", "1"}
      PROVE  /\ md.of = "this" /\ md.rows = results /\ Len(results) = Len(Specs)
             /\ \A t \in Topics : Complete(t, results[t])
             /\ exit = "0" <=> \A t \in Topics : Passed(results[t])
  <2>1. md.of = "this" /\ md.rows = results /\ Len(results) = Len(Specs)
    BY <1>2 DEF IInv, ReportInv, ExitInv
  <2>2. DOMAIN results = Topics
    BY <1>2, <2>1, SpecFacts, LenProperties DEF IInv, TypeOK
  <2>3. exit = "0" <=> AllPass(results)
    BY <1>2 DEF IInv, ExitInv
  <2> QED
    BY <1>2, <2>1, <2>2, <2>3, SpecFacts DEF IInv, RowsInv, AllPass
<1>3. ASSUME NEW t \in Topics, NEW r, Complete(t, r)
      PROVE  Passed(r) <=> \A c \in {"presence", "type"} \cup Specs[t] : c \in DOMAIN r /\ r[c]
  BY <1>3 DEF Complete, Passed
<1>4. IInv => ReportsAgree
  <2>1. SUFFICES ASSUME IInv, exit \in {"0", "1"}
                 PROVE  /\ md.of = "this" /\ Len(md.rows) = Len(Specs)
                        /\ \A t \in Topics : DOMAIN md.rows[t] =
                             IF md.rows[t]["presence"] THEN {"presence", "type"} \cup Specs[t]
                                                       ELSE {"presence"}
                        /\ exit = "0" <=> \A t \in Topics : \A c \in {"presence", "type"} \cup Specs[t] :
                                            c \in DOMAIN md.rows[t] /\ md.rows[t][c]
    BY <1>1 DEF ReportsAgree
  <2>2. \A t \in Topics : Complete(t, md.rows[t])
    BY <1>2, <2>1
  <2> QED
    BY <1>2, <1>3, <2>1, <2>2 DEF Complete
<1> QED
  BY Invariance, <1>4, PTL
===============================================================================
