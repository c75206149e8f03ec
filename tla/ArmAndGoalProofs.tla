--------------------------- MODULE ArmAndGoalProofs ---------------------------
(***************************************************************************)
(* What ArmAndGoal guarantees for every timeout, retry pause and window.   *)
(* Two arguments: the time a phase has spent plus what its current wait    *)
(* may still take never exceeds the phase's budget; and whatever the node  *)
(* holds while it verifies was stamped or reported after the engage.       *)
(***************************************************************************)
EXTENDS ArmAndGoal, FiniteSetTheorems, TLAPS

Calling == {"route_ready", "route_call", "route_pause"}
Opened == {"publish", "verify"}

(* Spent and still to come, against the budget of the phase.               *)
TimeInv ==
  /\ pc = "localize" => spent + left <= Timeout
  /\ pc = "clear_ready" => spent + left <= ClearReady
  /\ pc = "clear_call" => spent + left <= ClearReady + ClearCall
  /\ pc \in Calling => spent + left <= ClearReady + ClearCall + Timeout
  /\ pc \in Attempt => spent + left <= Timeout
  /\ pc = "discover" => spent + left <= Timeout + Discovery
  /\ pc \in Opened => spent + left <= Timeout + Discovery + Publishing

(* Once the engage is out, AUTONOMOUS is AUTONOMOUS since the engage: a    *)
(* report from before it is drained by the first slice of the publishing.  *)
EarnInv ==
  /\ pc # "exit" => code = -1
  /\ pc \in Engage => routeSet
  /\ pc \in Opened /\ mode => proved
  /\ pc = "publish" /\ left < Publishing /\ queued = "autonomous" => proved
  /\ pc = "verify" /\ (autonomous \/ queued = "autonomous") => proved
  /\ pc = "verify" => cmds \subseteq flowed
  /\ ArmedIsEarned

IInv == TimeInv /\ EarnInv

-------------------------------------------------------------------------------
(* Both predicates on a window count its samples, so more is never worse.  *)
LEMMA MoreSamples ==
  ASSUME NEW T \in SUBSET Ages, NEW S \in SUBSET T, SustainedRateOk(S)
  PROVE  SustainedRateOk(T)
<1>1. IsFiniteSet(Ages)
  BY FS_Interval, ArmConstants DEF Ages
<1>2. IsFiniteSet(T) /\ IsFiniteSet(S) /\ Cardinality(S) <= Cardinality(T)
  BY <1>1, FS_Subset
<1>3. Cardinality(S) \in Nat /\ Cardinality(T) \in Nat
  BY <1>2, FS_CardinalityType
<1> QED
  BY <1>2, <1>3, ArmConstants DEF SustainedRateOk

(* A second of spinning keeps the types.                                   *)
LEMMA SpinType ==
  ASSUME TypeOK, Spin
  PROVE  /\ left' \in Nat /\ spent' \in Nat
         /\ kin' \subseteq Ages /\ cmds' \subseteq Ages /\ flowed' \in SUBSET Ages
         /\ autonomous' \in BOOLEAN /\ queued' \in Reports
         /\ UNCHANGED <<waitOnly, mode, routeSet, proved>>
<1>1. 0 \in Ages /\ \A S : Aged(S) \subseteq Ages
  BY ArmConstants DEF Ages, Aged
<1>2. left' \in Nat /\ spent' \in Nat
  BY DEF Spin, TypeOK
<1>3. kin' \subseteq Ages /\ cmds' \subseteq Ages
  BY <1>1 DEF Spin, TypeOK
<1>4. flowed' \in SUBSET Ages
  BY <1>1, <1>3 DEF Spin, TypeOK
<1> QED
  BY <1>2, <1>3, <1>4 DEF Spin, TypeOK, Reports

(* Every step of the script and of the stack keeps the types.              *)
LEMMA TypeStep == TypeOK /\ [Next]_vars => TypeOK'
<1> SUFFICES ASSUME TypeOK, [Next]_vars PROVE TypeOK'
  OBVIOUS
<1> USE ArmConstants
<1>1. ASSUME NEW at \in Phases, Waiting(at) PROVE TypeOK'
  BY <1>1, SpinType DEF Waiting, TypeOK
<1>2. ASSUME NEW at \in Phases, Pausing(at) PROVE TypeOK'
  BY <1>2, SpinType DEF Pausing, TypeOK
<1>3. ASSUME NEW at \in Phases, NEW b \in Nat, Then(at, b), UNCHANGED <<node, stack, past>>
      PROVE TypeOK'
  BY <1>3 DEF Then, TypeOK, node, stack, past
<1>4. ASSUME NEW c \in {0, 2}, Exit(c) PROVE TypeOK'
  BY <1>4 DEF Exit, TypeOK, node, stack, past, Phases
<1>5. ASSUME NEW call \in Phases, NEW at \in Phases,
             Refused(call, at) \/ CallAgain(at, call) \/ ServiceFound(at, call)
      PROVE TypeOK'
  <2>1. CASE Refused(call, at)
    BY <2>1 DEF Refused, TypeOK, node, stack, past
  <2> QED
    BY <1>3, <1>5, <2>1 DEF CallAgain, ServiceFound, TypeOK
<1>6. Remaining \in Nat /\ AdapiBudget \in Nat
  BY DEF TypeOK, Remaining, AdapiBudget
<1>7. CASE Localizing \/ ClearWaiting \/ CallWaiting("route_ready", "route_call") \/ MrmWaiting
           \/ CallWaiting("adapi_ready", "adapi_call") \/ DiscoverWaiting \/ PublishWaiting
           \/ Verifying
  BY <1>1, <1>7 DEF Localizing, ClearWaiting, CallWaiting, MrmWaiting, DiscoverWaiting,
     PublishWaiting, Verifying, Phases
<1>8. CASE LocalizedOnly \/ NotLocalized \/ RouteFails \/ Armed \/ NotArmed
  BY <1>4, <1>8 DEF LocalizedOnly, NotLocalized, RouteFails, Armed, NotArmed
<1>9. CASE ClearFound \/ ClearOver \/ MrmFound \/ MrmOver \/ AdapiFails
  BY <1>3, <1>6, <1>9 DEF ClearFound, ClearOver, MrmFound, MrmOver, AdapiFails, Phases, TypeOK
<1>10. CASE Localized \/ RouteSucceeds
  <2>1. /\ pc' \in Phases /\ left' \in Nat /\ spent' \in Nat
        /\ UNCHANGED <<waitOnly, pause, code, kin, cmds, autonomous, mode, queued, flowed, proved>>
    BY <1>10 DEF Localized, RouteSucceeds, TypeOK, Phases, node, stack, past
  <2>2. routeSet' \in BOOLEAN
    BY <1>10 DEF Localized, RouteSucceeds, TypeOK, stack
  <2> QED
    BY <2>1, <2>2 DEF TypeOK
<1>11. CASE Pausing("route_pause") \/ Pausing("adapi_pause")
  BY <1>2, <1>11 DEF Phases
<1>12. CASE \/ ServiceFound("route_ready", "route_call") \/ ServiceFound("adapi_ready", "adapi_call")
            \/ Refused("route_call", "route_pause") \/ Refused("adapi_call", "adapi_pause")
            \/ CallAgain("route_pause", "route_call") \/ CallAgain("adapi_pause", "adapi_call")
  BY <1>5, <1>12 DEF Phases
<1>13. CASE AdapiSucceeds \/ Discovered \/ Verify
  <2>1. /\ pc' \in Phases /\ left' \in Nat /\ pause' = 0
        /\ UNCHANGED <<waitOnly, spent, code, kin, queued, routeSet>>
    BY <1>6, <1>13 DEF AdapiSucceeds, Discovered, Verify, Then, Phases, node, stack, past
  <2>2. cmds' \subseteq Ages /\ flowed' \in SUBSET Ages
    BY <1>13 DEF AdapiSucceeds, Discovered, Verify, TypeOK, node, stack, past
  <2>3. autonomous' \in BOOLEAN /\ mode' \in BOOLEAN /\ proved' \in BOOLEAN
    BY <1>13 DEF AdapiSucceeds, Discovered, Verify, TypeOK, node, stack, past
  <2> QED
    BY <2>1, <2>2, <2>3 DEF TypeOK
<1>14. CASE Stack
  BY <1>14 DEF Stack, Report, EngageTakes, Stops, TypeOK, Reports, node, past
<1>15. CASE UNCHANGED vars
  BY <1>15 DEF vars, TypeOK, node, stack, past
<1> QED
  BY <1>7, <1>8, <1>9, <1>10, <1>11, <1>12, <1>13, <1>14, <1>15 DEF Next, Script, Done

(* A wait moves its time from what is to come to what is spent; the next   *)
(* wait of a phase is given no more than the phase's budget has left.      *)
LEMMA TimeStep == TypeOK /\ TimeInv /\ [Next]_vars => TimeInv'
<1> SUFFICES ASSUME TypeOK, TimeInv, [Next]_vars PROVE TimeInv'
  OBVIOUS
<1> USE ArmConstants
<1> USE DEF TypeOK, TimeInv, Calling, Attempt, Opened
<1>1. ASSUME Spin, UNCHANGED pc PROVE TimeInv'
  BY <1>1 DEF Spin
<1>2. ASSUME pc' = "exit" PROVE TimeInv'
  BY <1>2
<1>3. CASE Localizing \/ ClearWaiting \/ CallWaiting("route_ready", "route_call") \/ MrmWaiting
           \/ CallWaiting("adapi_ready", "adapi_call") \/ DiscoverWaiting \/ PublishWaiting
           \/ Verifying \/ Pausing("route_pause") \/ Pausing("adapi_pause")
  BY <1>1, <1>3 DEF Localizing, ClearWaiting, CallWaiting, MrmWaiting, DiscoverWaiting,
     PublishWaiting, Verifying, Waiting, Pausing
<1>4. CASE LocalizedOnly \/ NotLocalized \/ RouteFails \/ Armed \/ NotArmed
  BY <1>2, <1>4 DEF LocalizedOnly, NotLocalized, RouteFails, Armed, NotArmed, Exit
<1>5. CASE Localized \/ RouteSucceeds
  BY <1>5 DEF Localized, RouteSucceeds
<1>6. CASE ClearFound \/ ClearOver
  BY <1>6 DEF ClearFound, ClearOver, Then
<1>7. CASE \/ ServiceFound("route_ready", "route_call") \/ ServiceFound("adapi_ready", "adapi_call")
           \/ Refused("route_call", "route_pause") \/ Refused("adapi_call", "adapi_pause")
           \/ CallAgain("route_pause", "route_call") \/ CallAgain("adapi_pause", "adapi_call")
  BY <1>7 DEF ServiceFound, Refused, CallAgain, Then
<1>8. CASE MrmFound \/ MrmOver
  BY <1>8 DEF MrmFound, MrmOver, Then, AdapiBudget, Remaining
<1>9. CASE AdapiSucceeds \/ AdapiFails
  BY <1>9 DEF AdapiSucceeds, AdapiFails, GivesUp, Then
<1>10. CASE Discovered \/ Verify
  BY <1>10 DEF Discovered, Verify, Then, Remaining
<1>11. CASE Stack \/ UNCHANGED vars
  BY <1>11 DEF Stack, Report, EngageTakes, Stops, vars
<1> QED
  BY <1>3, <1>4, <1>5, <1>6, <1>7, <1>8, <1>9, <1>10, <1>11 DEF Next, Script, Done

(* What is known of the engage survives a second of spinning.              *)
LEMMA SpinEarns ==
  ASSUME TypeOK, EarnInv, pc # "exit", Spin, UNCHANGED <<pc, code>>
  PROVE  EarnInv'
<1> USE DEF TypeOK, EarnInv, Opened, Engage, Attempt
<1>1. pc = "verify" => cmds' \subseteq flowed'
  BY DEF Spin, Aged
<1>2. ArmedIsEarned'
  BY DEF ArmedIsEarned
<1> QED
  BY <1>1, <1>2 DEF Spin

(* The engage's invariant is kept by every step.                           *)
LEMMA EarnStep == TypeOK /\ EarnInv /\ [Next]_vars => EarnInv'
<1> SUFFICES ASSUME TypeOK, EarnInv, [Next]_vars PROVE EarnInv'
  OBVIOUS
<1> USE ArmConstants
<1> USE DEF Opened, Engage, Attempt
<1>1. CASE Localizing \/ ClearWaiting \/ CallWaiting("route_ready", "route_call") \/ MrmWaiting
           \/ CallWaiting("adapi_ready", "adapi_call") \/ DiscoverWaiting \/ PublishWaiting
           \/ Verifying \/ Pausing("route_pause") \/ Pausing("adapi_pause")
  BY <1>1, SpinEarns DEF Localizing, ClearWaiting, CallWaiting, MrmWaiting, DiscoverWaiting,
     PublishWaiting, Verifying, Waiting, Pausing
<1>2. CASE LocalizedOnly \/ NotLocalized \/ RouteFails \/ NotArmed
  BY <1>2 DEF LocalizedOnly, NotLocalized, RouteFails, NotArmed, Exit, EarnInv, ArmedIsEarned
<1>3. CASE Armed
  <2>1. routeSet /\ proved /\ cmds \subseteq flowed /\ SustainedRateOk(cmds)
    BY <1>3 DEF Armed, ArmedOk, EarnInv
  <2>2. SustainedRateOk(flowed)
    BY <2>1, MoreSamples DEF TypeOK
  <2>3. UNCHANGED <<waitOnly, routeSet, proved, flowed>> /\ pc' = "exit"
    BY <1>3 DEF Armed, Exit, stack, past
  <2>4. SustainedRateOk(flowed)'
    BY <2>2, <2>3 DEF SustainedRateOk
  <2> QED
    BY <2>1, <2>3, <2>4 DEF EarnInv, ArmedIsEarned
<1>4. CASE Localized \/ ClearFound \/ ClearOver \/ RouteSucceeds
  BY <1>4 DEF Localized, ClearFound, ClearOver, RouteSucceeds, Then, EarnInv, ArmedIsEarned,
     node, stack, past
<1>5. CASE \/ ServiceFound("route_ready", "route_call") \/ ServiceFound("adapi_ready", "adapi_call")
           \/ Refused("route_call", "route_pause") \/ Refused("adapi_call", "adapi_pause")
           \/ CallAgain("route_pause", "route_call") \/ CallAgain("adapi_pause", "adapi_call")
  BY <1>5 DEF ServiceFound, Refused, CallAgain, Then, EarnInv, ArmedIsEarned, node, stack, past
<1>6. CASE MrmFound \/ MrmOver \/ AdapiSucceeds \/ AdapiFails
  BY <1>6 DEF MrmFound, MrmOver, AdapiSucceeds, AdapiFails, GivesUp, Then, EarnInv,
     ArmedIsEarned, node, stack, past
<1>7. CASE Discovered
  BY <1>7 DEF Discovered, Then, EarnInv, ArmedIsEarned, node, stack
<1>8. CASE Verify
  BY <1>8 DEF Verify, Then, EarnInv, ArmedIsEarned, stack, past
<1>9. CASE Stack
  BY <1>9 DEF Stack, Report, EngageTakes, Stops, EarnInv, ArmedIsEarned, TypeOK, node, past
<1>10. CASE UNCHANGED vars
  BY <1>10 DEF vars, EarnInv, ArmedIsEarned, node, stack, past
<1> QED
  BY <1>1, <1>2, <1>3, <1>4, <1>5, <1>6, <1>7, <1>8, <1>9, <1>10 DEF Next, Script, Done

-------------------------------------------------------------------------------
(* Type correctness of arm_and_goal.py's node and waits, for every timeout *)
(* and window.                                                             *)
THEOREM TypeCorrect == Spec => []TypeOK
<1>1. Init => TypeOK
  <2> SUFFICES ASSUME Init PROVE TypeOK
    OBVIOUS
  <2>1. waitOnly \in BOOLEAN /\ autonomous \in BOOLEAN /\ mode \in BOOLEAN
        /\ routeSet \in BOOLEAN /\ proved \in BOOLEAN
    BY DEF Init
  <2>2. kin \subseteq Ages /\ cmds \subseteq Ages /\ flowed \in SUBSET Ages
    BY DEF Init
  <2>3. pc \in Phases /\ left \in Nat /\ pause \in Nat /\ spent \in Nat
        /\ code \in {-1, 0, 2} /\ queued \in Reports
    BY ArmConstants DEF Init, Phases, Reports
  <2> QED
    BY <2>1, <2>2, <2>3 DEF TypeOK
<1> QED
  BY <1>1, TypeStep, PTL DEF Spec

(* The inductive invariant: spent plus left against the budget, and what   *)
(* the node holds after the engage postdates it.                           *)
THEOREM InductiveInvariant == Spec => []IInv
<1>1. Init => IInv
  BY ArmConstants DEF Init, IInv, TimeInv, EarnInv, ArmedIsEarned, Calling, Attempt, Opened, Engage
<1>2. TypeOK /\ IInv /\ [Next]_vars => IInv'
  BY TimeStep, EarnStep DEF IInv
<1> QED
  BY <1>1, <1>2, TypeCorrect, PTL DEF Spec

(* ARMED (exit 0 without --wait-localized-only) is only ever printed after *)
(* the stack was autonomous and gated control flowed since the engage.     *)
THEOREM ArmedWasEarned == Spec => []ArmedIsEarned
<1>1. IInv => ArmedIsEarned
  BY DEF IInv, EarnInv
<1> QED
  BY <1>1, InductiveInvariant, PTL

(* No phase outlasts its timeout by more than the waits that do not ask    *)
(* for its deadline: clear_route's two, the discovery, the publishing.     *)
THEOREM PhasesEnd == Spec => []PhasesAreBounded
<1>1. TypeOK /\ IInv => PhasesAreBounded
  BY ArmConstants DEF IInv, TimeInv, TypeOK, PhasesAreBounded, Route, Attempt, Engage, Calling, Opened
<1> QED
  BY <1>1, TypeCorrect, InductiveInvariant, PTL
===============================================================================
