----------------------------- MODULE StateStore -----------------------------
(***************************************************************************)
(* The triage agent's persistent memory of workflow runs (core/state.py).  *)
(* A store is a value, so the agent's copy in memory and the image in      *)
(* state.json are two stores, and every method of the class is an operator *)
(* from stores to stores.                                                  *)
(*                                                                         *)
(* Abstracted: last_error and last_attempted_at (written, never read), and *)
(* the decimal keys of run_states.  The JSON file holds integers, floats   *)
(* and strings that survive a dump and a load unchanged, so an image is    *)
(* the store it was written from.                                          *)
(*                                                                         *)
(* An operator named Op_What is Op with a plausible bug; the properties    *)
(* are tried against it.                                                   *)
(***************************************************************************)
EXTENDS Integers, Sequences

CONSTANTS
    Runs,             \* ids of workflow runs
    SeenCap,          \* length of the seen list (500 in the code)
    MaxAttempts,      \* TRIAGE_MAX_ATTEMPTS
    InitialBackoff,   \* TRIAGE_RETRY_INITIAL_BACKOFF_SECONDS, in clock ticks
    MaxBackoff        \* TRIAGE_RETRY_MAX_BACKOFF_SECONDS, in clock ticks

ASSUME SeenCapAssumption == SeenCap \in Nat \ {0}
ASSUME MaxAttemptsAssumption == MaxAttempts \in Nat \ {0}
ASSUME BackoffAssumption ==
    /\ MaxBackoff \in Nat
    /\ \A k \in 0 .. MaxAttempts : InitialBackoff * 2^k \in Nat

None == -1    \* Python's None where a time is expected; clock readings are in Nat

Statuses == {"absent", "retry_scheduled", "seen_with_failure", "success"}

RunState ==
    [status: Statuses, attempts: Nat, nextRetry: Nat \cup {None}]

Store == [seen: Seq(Runs), states: [Runs -> RunState]]

(***************************************************************************)
(* No entry in run_states: what `_get_run_state(run_id) or {}` defaults to *)
(***************************************************************************)
NoState == [status |-> "absent", attempts |-> 0, nextRetry |-> None]

EmptyStore == [seen |-> <<>>, states |-> [r \in Runs |-> NoState]]

SeenRuns(s) == {s.seen[i] : i \in 1 .. Len(s.seen)}

HasSeen(s, r) == r \in SeenRuns(s)

-----------------------------------------------------------------------------
(* get_retry_decision *)

InBackoff_Ignored(s, r, t) == FALSE

InBackoff_Forever(s, r, t) == s.states[r].status = "retry_scheduled"

InBackoff(s, r, t) ==
    /\ s.states[r].status = "retry_scheduled"
    /\ s.states[r].nextRetry # None
    /\ t < s.states[r].nextRetry

RetryDecision(s, r, t) ==
    CASE HasSeen(s, r)                    -> "seen"
      [] ~HasSeen(s, r) /\ InBackoff(s, r, t)  -> "backoff"
      [] OTHER -> IF s.states[r].attempts = 0 THEN "new" ELSE "retry_due"

ShouldProcess(s, r, t) == RetryDecision(s, r, t) \in {"new", "retry_due"}

-----------------------------------------------------------------------------
(* The seen list keeps the newest SeenCap ids, oldest first. *)

Newest(ids) ==
    IF Len(ids) <= SeenCap THEN ids
    ELSE SubSeq(ids, Len(ids) - SeenCap + 1, Len(ids))

AddSeen_NotTrimmed(s, r) == IF HasSeen(s, r) THEN s.seen ELSE Append(s.seen, r)

AddSeen(s, r) == IF HasSeen(s, r) THEN s.seen ELSE Newest(Append(s.seen, r))

(* The ids that adding r to the seen list pushes out of it. *)
PushedOut(s, r) ==
    (SeenRuns(s) \cup {r}) \ {AddSeen(s, r)[i] : i \in 1 .. Len(AddSeen(s, r))}

-----------------------------------------------------------------------------
(* record_failed_attempt and mark_seen *)

Terminal_OneLate(n) == n > MaxAttempts

Terminal(n) == n >= MaxAttempts

Backoff(n) ==
    LET doubled == InitialBackoff * 2^(n - 1)
    IN  IF MaxBackoff < doubled THEN MaxBackoff ELSE doubled

FailedState_NotCounted(old, t) ==
    LET n == old.attempts + 1
    IN  [status    |-> IF Terminal(n) THEN "seen_with_failure" ELSE "retry_scheduled",
         attempts  |-> old.attempts,
         nextRetry |-> IF Terminal(n) THEN None ELSE t + Backoff(n)]

FailedState(old, t) ==
    LET n == old.attempts + 1
    IN  [status    |-> IF Terminal(n) THEN "seen_with_failure" ELSE "retry_scheduled",
         attempts  |-> n,
         nextRetry |-> IF Terminal(n) THEN None ELSE t + Backoff(n)]

RecordFailedAttempt_Unlisted(s, r, t) ==
    [s EXCEPT !.states[r] = FailedState(@, t)]

RecordFailedAttempt(s, r, t) ==
    [seen   |-> IF Terminal(s.states[r].attempts + 1) THEN AddSeen(s, r) ELSE s.seen,
     states |-> [s.states EXCEPT ![r] = FailedState(@, t)]]

SuccessState(old) ==
    [status |-> "success", attempts |-> old.attempts, nextRetry |-> None]

MarkSeen_Unlisted(s, r) == [s EXCEPT !.states[r] = SuccessState(@)]

MarkSeen(s, r) ==
    [seen   |-> AddSeen(s, r),
     states |-> [s.states EXCEPT ![r] = SuccessState(@)]]

=============================================================================
