--------------------------- MODULE CircuitMachine ---------------------------
(***************************************************************************)
(* What a circuit breaker promises: "the standard three-state circuit       *)
(* breaker (Closed -> Open -> Half-Open) with configurable thresholds" of    *)
(* isolate-core/src/ratelimit/circuit_breaker.rs:3, which tests recovery     *)
(* only after open_duration.  Every change of state has one cause.           *)
(***************************************************************************)
EXTENDS Naturals

CONSTANTS
  FailureThreshold,  \* number of failures to trip the circuit
  SuccessThreshold   \* successful requests needed to close it from HalfOpen

VARIABLES
  state,     \* "Closed", "Open" or "HalfOpen"
  count,     \* failures when Closed, successes when HalfOpen
  young,     \* has it been Open for less than open_duration?
  resetting  \* is an operator's reset in progress?

machineVars == << state, count, young, resetting >>

MachineInit == state = "Closed" /\ count = 0 /\ young = FALSE /\ resetting = FALSE

Enter(s) == state' = s /\ count' = 0

Fail == state = "Closed" /\ count' = count + 1 /\ UNCHANGED << state, young, resetting >>

\* A success after the window clears the failures.
Forget == state = "Closed" /\ count' = 0 /\ UNCHANGED << state, young, resetting >>

\* Enough failures, or any while recovery is tested.
Trip ==
  /\ \/ state = "Closed" /\ count >= FailureThreshold
     \/ state = "HalfOpen"
  /\ Enter("Open") /\ young' = TRUE
  /\ UNCHANGED resetting

\* Recovery is tested once open_duration has passed.
Probe ==
  /\ state = "Open" /\ ~young
  /\ Enter("HalfOpen")
  /\ UNCHANGED << young, resetting >>

Succeed == state = "HalfOpen" /\ count' = count + 1 /\ UNCHANGED << state, young, resetting >>

Close ==
  /\ state = "HalfOpen" /\ count >= SuccessThreshold
  /\ Enter("Closed")
  /\ UNCHANGED << young, resetting >>

Elapse == young' = FALSE /\ UNCHANGED << state, count, resetting >>

\* One reset closes the breaker once.
Reset == ~resetting /\ resetting' = TRUE /\ Enter("Closed") /\ UNCHANGED young

EndReset == resetting /\ resetting' = FALSE /\ UNCHANGED << state, count, young >>

MachineNext ==
  Fail \/ Forget \/ Trip \/ Probe \/ Succeed \/ Close \/ Elapse \/ Reset \/ EndReset

MachineSpec == MachineInit /\ [][MachineNext]_machineVars
=============================================================================
