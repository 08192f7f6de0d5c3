---------------------------- MODULE RunLifecycle ----------------------------
(***************************************************************************)
(* What the triage agent promises about every failed workflow run, with no *)
(* poll loop, file, thread or crash in sight: a run is open until it is    *)
(* closed by success or by giving up after MaxAttempts failures; only an   *)
(* open run is announced; a run closed by success has reached the channel; *)
(* and nothing reopens a closed run.  Delivery is at least once.           *)
(***************************************************************************)
EXTENDS Naturals

CONSTANTS Runs, MaxAttempts

VARIABLES
    outcome,    \* "open", "success" or "gave_up"
    attempts,   \* failed attempts on record
    announced,  \* messages handed to Discord
    arrived     \* messages in the channel

vars == <<outcome, attempts, announced, arrived>>

Init ==
    /\ outcome = [r \in Runs |-> "open"]
    /\ attempts = [r \in Runs |-> 0]
    /\ announced = [r \in Runs |-> 0]
    /\ arrived = [r \in Runs |-> 0]

Announce(r) ==
    /\ outcome[r] = "open"
    /\ announced' = [announced EXCEPT ![r] = @ + 1]
    /\ UNCHANGED <<outcome, attempts, arrived>>

Arrive(r) ==
    /\ arrived[r] < announced[r]
    /\ arrived' = [arrived EXCEPT ![r] = @ + 1]
    /\ UNCHANGED <<outcome, attempts, announced>>

Fail(r) ==
    /\ outcome[r] = "open" /\ attempts[r] < MaxAttempts
    /\ attempts' = [attempts EXCEPT ![r] = @ + 1]
    /\ outcome' = [outcome EXCEPT
                     ![r] = IF attempts'[r] = MaxAttempts THEN "gave_up" ELSE "open"]
    /\ UNCHANGED <<announced, arrived>>

Succeed(r) ==
    /\ outcome[r] = "open" /\ arrived[r] > 0
    /\ outcome' = [outcome EXCEPT ![r] = "success"]
    /\ UNCHANGED <<attempts, announced, arrived>>

Next == \E r \in Runs : Announce(r) \/ Arrive(r) \/ Fail(r) \/ Succeed(r)

Spec == Init /\ [][Next]_vars

=============================================================================
