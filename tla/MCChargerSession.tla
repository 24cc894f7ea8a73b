-------------------------- MODULE MCChargerSession --------------------------
(* ChargerSession on small instances.  Two callers stand for the tasks of an *)
(* application, `poll` for _poll_maintenance; setpoints are two levels.      *)
EXTENDS ChargerSession, TLC

CONSTANTS ann, bob, poll
OneCaller == {ann}
TwoCallers == {ann, bob}
OnePoller == {poll}
OneAndPoll == {ann, poll}
TwoAndPoll == {ann, bob, poll}
CallerSymmetry == Permutations(TwoCallers)
OneSetter == {"set_voltage"}
BothSetters == {"set_voltage", "set_current"}
TwoLevels == {1, 2}
AnyPair == [Setters -> Levels]
LowPair == [Setters -> {1}]
=============================================================================
