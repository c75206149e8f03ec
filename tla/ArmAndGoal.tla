------------------------------ MODULE ArmAndGoal ------------------------------
(***************************************************************************)
(* benchmarks/injector/arm_and_goal.py: the one script that arms every     *)
(* cell.  It waits for localization, sets a route, engages over two paths  *)
(* (the AD API service, then the /autoware/engage topic) and reports ARMED *)
(* only when the stack then says it is autonomous and gated control flows. *)
(*                                                                         *)
(* One process, its callbacks run only while it spins; beside it the       *)
(* Autoware stack, whose mode changes and whose reports arrive when they   *)
(* like.  Time is counted in whole seconds: `left` is what remains to the  *)
(* deadline of the wait in progress, `spent` what the phase has taken.     *)
(***************************************************************************)
EXTENDS Integers, FiniteSets

CONSTANTS
  Timeout,    \* --timeout, per phase
  ClearReady, \* set_route's wait for the clear_route service
  ClearCall,  \* set_route's wait for its answer
  RetryPause, \* SERVICE_RETRY_PERIOD_S
  Mrm,        \* MRM_PARAM_TIMEOUT_S
  Adapi,      \* ADAPI_ENGAGE_ATTEMPT_TIMEOUT_S
  Discovery,  \* ENGAGE_DISCOVERY_TIMEOUT_S
  Publishing, \* ENGAGE_PUBLISH_COUNT * ENGAGE_PUBLISH_PERIOD_S
  Window,     \* LOCALIZED_WINDOW_S, CONTROL_CMD_WINDOW_S
  MinCount    \* seconds of the window, both ends counted, that carry traffic

ASSUME ArmConstants ==
  /\ Timeout \in Nat \ {0}
  /\ ClearReady \in Nat /\ ClearCall \in Nat
  /\ RetryPause \in Nat \ {0}
  /\ Mrm \in Nat /\ Adapi \in Nat
  /\ Discovery \in Nat /\ Publishing \in Nat \ {0}
  /\ Window \in Nat
  /\ MinCount \in 1..(Window + 1)

Phases == {"localize", "clear_ready", "clear_call", "route_ready", "route_call",
           "route_pause", "mrm_ready", "mrm_call", "adapi_ready", "adapi_call",
           "adapi_pause", "discover", "publish", "verify", "exit"}
Route == {"clear_ready", "clear_call", "route_ready", "route_call", "route_pause"}
Attempt == {"mrm_ready", "mrm_call", "adapi_ready", "adapi_call", "adapi_pause"}
Engage == Attempt \cup {"discover", "publish", "verify"}

VARIABLES
  pc,         \* where the script waits
  waitOnly,   \* --wait-localized-only
  left,       \* seconds to the deadline of this wait
  pause,      \* seconds left of a pause between two calls
  spent,      \* seconds since the phase began
  kin,        \* ages of the kinematic_state samples in the window
  cmds,       \* ages of the control_cmd samples in the window
  autonomous, \* _autonomous_mode
  code,       \* the exit code, -1 while it runs
  mode,       \* the stack: is it in AUTONOMOUS?
  queued,     \* a mode report that was published and not yet delivered
  routeSet,   \* the stack: it has accepted the route
  flowed,     \* history: seconds of control traffic since the engage publish
  proved      \* history: AUTONOMOUS held at some time since the engage publish

node == <<kin, cmds, autonomous>>
stack == <<mode, queued, routeSet>>
past == <<flowed, proved>>
vars == <<pc, waitOnly, left, pause, spent, node, code, stack, past>>

Ages == 0..Window
Reports == {"none", "stop", "autonomous"}

TypeOK ==
  /\ pc \in Phases
  /\ waitOnly \in BOOLEAN
  /\ left \in Nat
  /\ pause \in Nat
  /\ spent \in Nat
  /\ kin \subseteq Ages
  /\ cmds \subseteq Ages
  /\ autonomous \in BOOLEAN
  /\ code \in {-1, 0, 2}
  /\ mode \in BOOLEAN
  /\ queued \in Reports
  /\ routeSet \in BOOLEAN
  /\ flowed \in SUBSET Ages
  /\ proved \in BOOLEAN

(* The stack may be driving already, and a report of it may be on its way. *)
Init ==
  /\ pc = "localize"
  /\ waitOnly \in BOOLEAN
  /\ left = Timeout
  /\ pause = 0
  /\ spent = 0
  /\ kin = {}
  /\ cmds = {}
  /\ autonomous = FALSE
  /\ code = -1
  /\ mode \in BOOLEAN
  /\ queued = "none"
  /\ routeSet = FALSE
  /\ flowed = {}
  /\ proved = FALSE

-------------------------------------------------------------------------------
Aged(samples) == {a \in Ages : a - 1 \in samples}

(* sustained_rate_ok: enough samples in the closed trailing window.        *)
SustainedRateOk(samples) == Cardinality(samples) >= MinCount

(* armed_ok: authority and liveness.                                       *)
ArmedOk(auto, samples) == auto /\ SustainedRateOk(samples)

(* A second of spinning: what is queued is delivered, samples that arrive  *)
(* are stamped, the ones that left the window are trimmed.                 *)
Spin ==
  /\ left > 0
  /\ left' = left - 1
  /\ spent' = spent + 1
  /\ autonomous' = IF queued = "none" THEN autonomous ELSE queued = "autonomous"
  /\ queued' = "none"
  /\ IF pc = "localize"
     THEN /\ kin' \in {Aged(kin), Aged(kin) \cup {0}}
          /\ UNCHANGED cmds
     ELSE /\ cmds' \in {Aged(cmds), Aged(cmds) \cup {0}}
          /\ UNCHANGED kin
  /\ flowed' = IF pc \in {"publish", "verify"} THEN Aged(flowed) \cup (cmds' \cap {0})
                                               ELSE flowed
  /\ UNCHANGED <<waitOnly, mode, routeSet, proved>>

(* The wait goes on.                                                       *)
Waiting(at) == pc = at /\ Spin /\ UNCHANGED <<pc, pause, code>>

(* The wait is over: the next one begins, within the same phase.           *)
Then(at, budget) ==
  /\ pc' = at
  /\ left' = budget
  /\ pause' = 0
  /\ UNCHANGED <<waitOnly, spent, code>>

Exit(c) ==
  /\ pc' = "exit"
  /\ code' = c
  /\ UNCHANGED <<waitOnly, left, pause, spent, node, stack, past>>

-------------------------------------------------------------------------------
(* Phase 1: wait_localized.                                                *)

Localizing == Waiting("localize") /\ ~SustainedRateOk(kin)

(* static arm: confirmed, and nothing else is touched.                     *)
LocalizedOnly ==
  /\ pc = "localize"
  /\ SustainedRateOk(kin)
  /\ waitOnly
  /\ Exit(0)

Localized ==
  /\ pc = "localize"
  /\ SustainedRateOk(kin)
  /\ ~waitOnly
  /\ pc' = "clear_ready" /\ left' = ClearReady /\ spent' = 0
  /\ UNCHANGED <<waitOnly, pause, code, node, stack, past>>

NotLocalized ==
  /\ pc = "localize"
  /\ ~SustainedRateOk(kin)
  /\ left = 0
  /\ Exit(2)

-------------------------------------------------------------------------------
(* Phase 2: set_route.  clear_route is best effort and has waits of its    *)
(* own; set_route_points then gets the whole timeout.                      *)

ClearWaiting == Waiting("clear_ready") \/ Waiting("clear_call")

ClearFound == pc = "clear_ready" /\ Then("clear_call", ClearCall)
              /\ UNCHANGED <<node, stack, past>>

(* Answered, or given up.                                                  *)
ClearOver ==
  /\ pc = "clear_call" \/ (pc = "clear_ready" /\ left = 0)
  /\ Then("route_ready", Timeout)
  /\ UNCHANGED <<node, stack, past>>

(* _call_with_retries: one deadline for the service, the calls and the     *)
(* pauses between them.                                                    *)
CallWaiting(ready, call) == Waiting(ready) \/ Waiting(call)

ServiceFound(ready, call) ==
  /\ pc = ready
  /\ left > 0
  /\ Then(call, left)
  /\ UNCHANGED <<node, stack, past>>

\* Mutant: the call is repeated at once.
RefusedAtOnce(call, at) ==
  /\ pc = call
  /\ left > 0
  /\ pc' = at
  /\ pause' = 0
  /\ UNCHANGED <<waitOnly, left, spent, code, node, stack, past>>

(* The answer is no: pause, then call again.                               *)
Refused(call, at) ==
  /\ pc = call
  /\ left > 0
  /\ pc' = at
  /\ pause' = IF RetryPause < left THEN RetryPause ELSE left
  /\ UNCHANGED <<waitOnly, left, spent, code, node, stack, past>>

Pausing(at) ==
  /\ pc = at
  /\ pause > 0
  /\ Spin
  /\ pause' = pause - 1
  /\ UNCHANGED <<pc, code>>

CallAgain(at, call) ==
  /\ pc = at
  /\ pause = 0
  /\ left > 0
  /\ Then(call, left)
  /\ UNCHANGED <<node, stack, past>>

(* The deadline has passed in whichever of the waits.                      *)
GivesUp(waits) == pc \in waits /\ left = 0 /\ pause = 0

RouteFails == GivesUp({"route_ready", "route_call", "route_pause"}) /\ Exit(2)

(* The route is set; engage() begins with the false MRM's parameter.       *)
RouteSucceeds ==
  /\ pc = "route_call"
  /\ routeSet' = TRUE
  /\ pc' = "mrm_ready"
  /\ left' = IF Mrm < Timeout THEN Mrm ELSE Timeout
  /\ spent' = 0
  /\ UNCHANGED <<waitOnly, pause, code, node, mode, queued, past>>

-------------------------------------------------------------------------------
(* Phase 3: engage.                                                        *)

Remaining == IF spent < Timeout THEN Timeout - spent ELSE 0

MrmWaiting == Waiting("mrm_ready") \/ Waiting("mrm_call")

MrmFound == pc = "mrm_ready" /\ Then("mrm_call", left) /\ UNCHANGED <<node, stack, past>>

\* Mutant: the AD API attempt has a budget of its own.
OwnBudget == Adapi

(* What the AD API attempt may take out of the phase.                      *)
AdapiBudget == IF Adapi < Remaining THEN Adapi ELSE Remaining

(* Set, refused or out of time: the attempt on the AD API follows.         *)
MrmOver ==
  /\ pc = "mrm_call" \/ (pc = "mrm_ready" /\ left = 0)
  /\ Then("adapi_ready", AdapiBudget)
  /\ UNCHANGED <<node, stack, past>>

(* change_to_autonomous is accepted: the stack is autonomous from here.    *)
AdapiSucceeds ==
  /\ pc = "adapi_call"
  /\ mode' = TRUE
  /\ Then("discover", Discovery)
  /\ UNCHANGED <<node, queued, routeSet, past>>

(* Not fatal.                                                              *)
AdapiFails ==
  /\ GivesUp({"adapi_ready", "adapi_call", "adapi_pause"})
  /\ Then("discover", Discovery)
  /\ UNCHANGED <<node, stack, past>>

DiscoverWaiting == Waiting("discover")

(* A subscriber, or none and publish anyway.                               *)
Discovered ==
  /\ pc = "discover"
  /\ Then("publish", Publishing)
  /\ flowed' = {}
  /\ proved' = mode
  /\ UNCHANGED <<node, stack>>

PublishWaiting == Waiting("publish")

\* Mutant: what was seen before the engage still counts.
VerifyWithoutReset ==
  /\ pc = "publish"
  /\ left = 0
  /\ Then("verify", Remaining)
  /\ UNCHANGED <<node, stack, past>>

(* The engage is out: both terms are reset, then verify_control_flowing    *)
(* gets what is left of the phase.                                         *)
Verify ==
  /\ pc = "publish"
  /\ left = 0
  /\ Then("verify", Remaining)
  /\ cmds' = {}
  /\ autonomous' = FALSE
  /\ UNCHANGED <<kin, stack, past>>

Verifying == Waiting("verify") /\ ~ArmedOk(autonomous, cmds)

Armed == pc = "verify" /\ ArmedOk(autonomous, cmds) /\ Exit(0)

NotArmed == pc = "verify" /\ left = 0 /\ ~ArmedOk(autonomous, cmds) /\ Exit(2)

-------------------------------------------------------------------------------
(* The stack.                                                              *)

(* It publishes its operation mode.                                        *)
Report ==
  /\ pc # "exit"
  /\ queued' = IF mode THEN "autonomous" ELSE "stop"
  /\ queued' # queued
  /\ UNCHANGED <<pc, waitOnly, left, pause, spent, node, code, mode, routeSet, past>>

(* A request takes effect, over either path and perhaps late: a service    *)
(* call that nobody waits for any more, an engage that has latched.        *)
EngageTakes ==
  /\ pc \in {"adapi_call", "adapi_pause", "discover", "publish", "verify"}
  /\ ~mode
  /\ mode' = TRUE
  /\ proved' = (proved \/ pc \in {"publish", "verify"})
  /\ UNCHANGED <<pc, waitOnly, left, pause, spent, node, code, queued, routeSet, flowed>>

(* An MRM or an operator stops the vehicle.                                *)
Stops ==
  /\ pc # "exit"
  /\ mode
  /\ mode' = FALSE
  /\ UNCHANGED <<pc, waitOnly, left, pause, spent, node, code, queued, routeSet, past>>

-------------------------------------------------------------------------------
Script ==
  \/ Localizing \/ LocalizedOnly \/ Localized \/ NotLocalized
  \/ ClearWaiting \/ ClearFound \/ ClearOver
  \/ CallWaiting("route_ready", "route_call") \/ ServiceFound("route_ready", "route_call")
  \/ Refused("route_call", "route_pause") \/ Pausing("route_pause")
  \/ CallAgain("route_pause", "route_call") \/ RouteFails \/ RouteSucceeds
  \/ MrmWaiting \/ MrmFound \/ MrmOver
  \/ CallWaiting("adapi_ready", "adapi_call") \/ ServiceFound("adapi_ready", "adapi_call")
  \/ Refused("adapi_call", "adapi_pause") \/ Pausing("adapi_pause")
  \/ CallAgain("adapi_pause", "adapi_call") \/ AdapiSucceeds \/ AdapiFails
  \/ DiscoverWaiting \/ Discovered \/ PublishWaiting \/ Verify
  \/ Verifying \/ Armed \/ NotArmed

Stack == Report \/ EngageTakes \/ Stops

Done == pc = "exit" /\ UNCHANGED vars

Next == Script \/ Stack \/ Done

Spec == Init /\ [][Next]_vars

(* Seconds pass: the script's waits are all bounded.                       *)
FairSpec == Spec /\ WF_vars(Script)

-------------------------------------------------------------------------------
(* Properties.                                                             *)

(* ARMED is earned after the engage: the stack really was autonomous at    *)
(* some time since the engage was published, and enough of the gated       *)
(* control traffic flowed since.  A mode or a rate from before it -- the   *)
(* 19.9 Hz of zero commands of a stack in STOP (arm_and_goal.py:100-140)   *)
(* -- does not count, whatever was queued at the reset.                    *)
ArmedIsEarned ==
  code = 0 /\ ~waitOnly => routeSet /\ proved /\ SustainedRateOk(flowed)

(* No phase outlasts its budget: localization takes at most the timeout,   *)
(* the route that plus the two waits on clear_route, the engage that plus  *)
(* the discovery and the publishing that do not ask for the deadline.      *)
PhasesAreBounded ==
  /\ pc = "localize" => spent <= Timeout
  /\ pc \in Route => spent <= ClearReady + ClearCall + Timeout
  /\ pc \in Attempt => spent <= Timeout
  /\ pc \in Engage => spent <= Timeout + Discovery + Publishing

(* The script always gives an answer, so step 9 of run.sh, which sets no   *)
(* timeout of its own, ends.                                               *)
AlwaysAnswers == <>(pc = "exit")
===============================================================================
