------------------------- MODULE TriageAgentProofs -------------------------
EXTENDS TriageAgent, FiniteSetTheorems, SequenceTheorems, TLAPS

LEMMA AddSeenType ==
    ASSUME NEW s \in Store, Len(s.seen) <= SeenCap, NEW r \in Runs
    PROVE  /\ AddSeen(s, r) \in Seq(Runs)
           /\ Len(AddSeen(s, r)) <= SeenCap
<1>1. s.seen \in Seq(Runs)
  BY DEF Store
<1>2. CASE HasSeen(s, r)
  BY <1>1, <1>2 DEF AddSeen
<1>3. CASE ~HasSeen(s, r)
  <2> DEFINE ids == Append(s.seen, r)
             from == Len(ids) - SeenCap + 1
  <2>1. ids \in Seq(Runs) /\ Len(ids) \in Nat /\ SeenCap \in Nat \ {0}
    BY <1>1, SeenCapAssumption
  <2>2. AddSeen(s, r) = Newest(ids)
    BY <1>3 DEF AddSeen
  <2> HIDE DEF ids
  <2>3. CASE Len(ids) <= SeenCap
    BY <2>1, <2>2, <2>3 DEF Newest
  <2>4. CASE Len(ids) > SeenCap
    <3>1. Newest(ids) = SubSeq(ids, from, Len(ids))
      BY <2>1, <2>4 DEF Newest
    <3>2. from \in Int /\ from <= Len(ids) /\ \A i \in from .. Len(ids) : ids[i] \in Runs
      BY <2>1, <2>4
    <3>3. /\ SubSeq(ids, from, Len(ids)) \in Seq(Runs)
          /\ Len(SubSeq(ids, from, Len(ids))) = Len(ids) - from + 1
      BY <2>1, <3>2, SubSeqProperties
    <3> QED
      BY <2>1, <2>2, <3>1, <3>3
  <2> QED
    BY <2>1, <2>3, <2>4
<1> QED
  BY <1>2, <1>3

LEMMA FailedStateType ==
    ASSUME NEW old \in RunState, NEW t \in Nat
    PROVE  FailedState(old, t) \in RunState
<1> DEFINE n == old.attempts + 1
<1>1. n \in Nat /\ n >= 1
  BY DEF RunState
<1>2. CASE Terminal(n)
  BY <1>1, <1>2 DEF FailedState, RunState, Statuses, None
<1>3. CASE ~Terminal(n)
  <2>1. n - 1 \in 0 .. MaxAttempts
    BY <1>1, <1>3, MaxAttemptsAssumption DEF Terminal
  <2>2. Backoff(n) \in Nat
    <3> DEFINE doubled == InitialBackoff * 2^(n - 1)
    <3>1. doubled \in Nat
      BY <2>1, BackoffAssumption
    <3>2. Backoff(n) = IF MaxBackoff < doubled THEN MaxBackoff ELSE doubled
      BY DEF Backoff
    <3> HIDE DEF doubled
    <3> QED
      BY <3>1, <3>2, BackoffAssumption
  <2>3. t + Backoff(n) \in Nat
    BY <2>2
  <2> HIDE DEF n
  <2>4. FailedState(old, t) =
          [status |-> "retry_scheduled", attempts |-> n, nextRetry |-> t + Backoff(n)]
    BY <1>3 DEF FailedState, n
  <2> QED
    BY <1>1, <2>3, <2>4 DEF RunState, Statuses
<1> QED
  BY <1>2, <1>3

LEMMA RecordFailedAttemptType ==
    ASSUME NEW s \in Store, Len(s.seen) <= SeenCap, NEW r \in Runs, NEW t \in Nat
    PROVE  /\ RecordFailedAttempt(s, r, t) \in Store
           /\ Len(RecordFailedAttempt(s, r, t).seen) <= SeenCap
<1>1. s.states[r] \in RunState /\ s.states \in [Runs -> RunState] /\ s.seen \in Seq(Runs)
  BY DEF Store
<1>2. FailedState(s.states[r], t) \in RunState
  BY <1>1, FailedStateType
<1> QED
  BY <1>1, <1>2, AddSeenType DEF RecordFailedAttempt, Store

LEMMA MarkSeenType ==
    ASSUME NEW s \in Store, Len(s.seen) <= SeenCap, NEW r \in Runs
    PROVE  /\ MarkSeen(s, r) \in Store
           /\ Len(MarkSeen(s, r).seen) <= SeenCap
<1>1. s.states[r] \in RunState /\ s.states \in [Runs -> RunState]
  BY DEF Store
<1>2. SuccessState(s.states[r]) \in RunState
  BY <1>1 DEF SuccessState, RunState, Statuses
<1> QED
  BY <1>1, <1>2, AddSeenType DEF MarkSeen, Store

LEMMA EmptyStoreType == EmptyStore \in Store /\ Len(EmptyStore.seen) = 0
  BY DEF EmptyStore, Store, NoState, RunState, Statuses

-----------------------------------------------------------------------------
(* Type correctness *)

LEMMA InitType == Init => TypeOK
<1> SUFFICES ASSUME Init PROVE TypeOK
  OBVIOUS
<1>1. store \in Store /\ Len(store.seen) <= SeenCap
      /\ disk \in Store /\ Len(disk.seen) <= SeenCap
  BY EmptyStoreType, SeenCapAssumption DEF Init
<1> QED
  BY <1>1, RunsAssumption DEF Init, TypeOK, PcValues, TriageSteps, None

LEMMA PollStepType == TypeOK /\ PollStep => TypeOK'
<1> SUFFICES ASSUME TypeOK, PollStep PROVE TypeOK'
  OBVIOUS
<1> USE RunsAssumption DEF TypeOK, PcValues, TriageSteps, UnchangedOutsidePass,
          githubVars, passVars, fileVars, discordVars, LeavePass, ForgetPass
<1>1. CASE WakeUp
  BY <1>1 DEF WakeUp
<1>2. CASE ListRuns
  <2>1. listing' \in SUBSET Runs
    BY <1>2 DEF ListRuns, Page
  <2>2. targetIx' = 1 /\ pc' = "match" /\ cur' = cur /\ pc = "list"
    BY <1>2 DEF ListRuns
  <2>3. UNCHANGED <<repoIx, queue, cur>> /\ UnchangedOutsidePass
    BY <1>2 DEF ListRuns
  <2> QED
    BY <2>1, <2>2, <2>3
<1>3. CASE ListRunsRaises
  BY <1>3 DEF ListRunsRaises
<1>4. CASE EndPass
  BY <1>4 DEF EndPass
<1>5. CASE MatchRuns
  BY <1>5 DEF MatchRuns
<1>6. CASE NextRepository
  BY <1>6 DEF NextRepository
<1>7. CASE NextTarget
  BY <1>7 DEF NextTarget
<1>8. ASSUME NEW r \in Runs, SkipRun(r) PROVE TypeOK'
  BY <1>8 DEF SkipRun
<1>9. ASSUME NEW r \in Runs, DetectRun(r) PROVE TypeOK'
  BY <1>9 DEF DetectRun
<1> QED
  BY <1>1, <1>2, <1>3, <1>4, <1>5, <1>6, <1>7, <1>8, <1>9 DEF PollStep

(* The handlers before the outcome is recorded leave store and disk alone. *)
StageStep ==
    \/ AssembleIncident \/ Diagnose \/ StageRaises \/ StartSend \/ SendWithoutGateway
    \/ SendDelivered \/ SendRefused \/ SendTimesOut

LEMMA StageStepType == TypeOK /\ StageStep => TypeOK'
<1> SUFFICES ASSUME TypeOK, StageStep PROVE TypeOK'
  OBVIOUS
<1> USE RunsAssumption DEF TypeOK, PcValues, TriageSteps, UnchangedInStage,
          githubVars, passVars, fileVars, discordVars
<1>1. CASE AssembleIncident
  BY <1>1 DEF AssembleIncident
<1>2. CASE Diagnose
  BY <1>2 DEF Diagnose
<1>3. CASE StageRaises
  BY <1>3 DEF StageRaises
<1>4. CASE StartSend
  BY <1>4 DEF StartSend
<1>5. CASE SendWithoutGateway
  BY <1>5 DEF SendWithoutGateway
<1>6. CASE SendDelivered
  BY <1>6 DEF SendDelivered
<1>7. CASE SendRefused
  BY <1>7 DEF SendRefused
<1>8. CASE SendTimesOut
  BY <1>8 DEF SendTimesOut, AfterTimeout
<1> QED
  BY <1>1, <1>2, <1>3, <1>4, <1>5, <1>6, <1>7, <1>8 DEF StageStep

LEMMA PushedOutType ==
    ASSUME NEW s \in Store, NEW r \in Runs PROVE PushedOut(s, r) \in SUBSET Runs
  BY DEF PushedOut, SeenRuns, Store

LEMMA MarkRunSeenType == TypeOK /\ MarkRunSeen => TypeOK'
<1> SUFFICES ASSUME TypeOK, MarkRunSeen PROVE TypeOK'
  OBVIOUS
<1>1. cur \in Runs /\ store \in Store /\ Len(store.seen) <= SeenCap
  BY DEF TypeOK, MarkRunSeen, TriageSteps
<1>2. store' \in Store /\ Len(store'.seen) <= SeenCap
  BY <1>1, MarkSeenType DEF MarkRunSeen
<1>3. evicted' \in SUBSET Runs
  BY <1>1, PushedOutType DEF MarkRunSeen, TypeOK
<1>4. /\ disk' \in Store /\ Len(disk'.seen) <= SeenCap
      /\ file' \in {"whole", "torn"} /\ writeFails' \in Nat
  BY <1>2 DEF TypeOK, MarkRunSeen, Write, WriteRaises
<1>5. \/ pc' = "runs" /\ cur' = NoRun
      \/ pc' = "failed" /\ cur' = cur
  BY DEF MarkRunSeen
<1>6. UNCHANGED <<passVars, queue, lastFail>> /\ UnchangedInRecord
  BY DEF MarkRunSeen
<1> QED
  BY <1>1, <1>2, <1>3, <1>4, <1>5, <1>6, RunsAssumption
     DEF TypeOK, PcValues, TriageSteps, UnchangedInRecord, githubVars, passVars, discordVars

LEMMA RecordFailureType == TypeOK /\ RecordFailure => TypeOK'
<1> SUFFICES ASSUME TypeOK, RecordFailure PROVE TypeOK'
  OBVIOUS
<1>1. cur \in Runs /\ store \in Store /\ Len(store.seen) <= SeenCap /\ now \in Nat
  BY DEF TypeOK, RecordFailure, TriageSteps
<1>2. store' \in Store /\ Len(store'.seen) <= SeenCap
  BY <1>1, RecordFailedAttemptType DEF RecordFailure
<1>3. evicted' \in SUBSET Runs
  BY <1>1, PushedOutType DEF RecordFailure, TypeOK
<1>4. /\ disk' \in Store /\ Len(disk'.seen) <= SeenCap
      /\ file' \in {"whole", "torn"} /\ writeFails' \in Nat
  BY <1>2 DEF TypeOK, RecordFailure, Write, WriteRaises
<1>5. /\ cur' = NoRun
      /\ pc' \in {"runs", "sleep"}
      /\ UNCHANGED <<passVars, queue>> \/ ForgetPass
  BY DEF RecordFailure, LeavePass
<1>6. lastFail' = [lastFail EXCEPT ![cur] = now] /\ UnchangedInRecord
  BY DEF RecordFailure
<1> QED
  BY <1>1, <1>2, <1>3, <1>4, <1>5, <1>6, RunsAssumption
     DEF TypeOK, PcValues, TriageSteps, UnchangedInRecord, githubVars, passVars, discordVars,
         ForgetPass

LEMMA RestartType == TypeOK /\ (Crash \/ Restart \/ RestartRaises) => TypeOK'
<1> SUFFICES ASSUME TypeOK, Crash \/ Restart \/ RestartRaises PROVE TypeOK'
  OBVIOUS
<1> USE RunsAssumption DEF TypeOK, PcValues, TriageSteps, githubVars, passVars, fileVars,
          discordVars
<1>1. CASE Crash
  <2>1. store' \in Store /\ Len(store'.seen) <= SeenCap
    BY <1>1, EmptyStoreType, SeenCapAssumption DEF Crash
  <2> QED
    BY <1>1, <2>1 DEF Crash, ForgetPass
<1>2. CASE Restart
  BY <1>2 DEF Restart
<1>3. CASE RestartRaises
  BY <1>3 DEF RestartRaises, vars
<1> QED
  BY <1>1, <1>2, <1>3

LEMMA EnvironmentType ==
    ASSUME TypeOK,
           Tick \/ GatewayDies \/ \E r \in Runs : CreateRun(r) \/ CompleteRun(r) \/ LateMessage(r)
    PROVE  TypeOK'
<1> USE RunsAssumption DEF TypeOK, PcValues, TriageSteps, githubVars, passVars, fileVars,
          discordVars
<1>1. CASE Tick
  BY <1>1 DEF Tick
<1>2. CASE GatewayDies
  BY <1>2 DEF GatewayDies
<1>3. ASSUME NEW r \in Runs, CreateRun(r) PROVE TypeOK'
  <2>1. Cardinality({q \in Runs : serial[q] # 0}) \in Nat
    BY FS_Subset, FS_CardinalityType
  <2> QED
    BY <1>3, <2>1 DEF CreateRun
<1>4. ASSUME NEW r \in Runs, CompleteRun(r) PROVE TypeOK'
  BY <1>4 DEF CompleteRun
<1>5. ASSUME NEW r \in Runs, LateMessage(r) PROVE TypeOK'
  <2>1. late' \in [Runs -> Nat]
    BY <1>5 DEF LateMessage
  <2>2. posted' \in [Runs -> Nat]
    <3>1. posted \in [Runs -> Nat] /\ posted[r] + 1 \in Nat
      OBVIOUS
    <3>2. posted' = posted \/ posted' = [posted EXCEPT ![r] = posted[r] + 1]
      BY <1>5 DEF LateMessage
    <3> HIDE DEF TypeOK
    <3> QED
      BY <3>1, <3>2
  <2>3. UNCHANGED <<pc, sent>> /\ UnchangedInStage
    BY <1>5 DEF LateMessage
  <2> QED
    BY <2>1, <2>2, <2>3 DEF UnchangedInStage
<1> QED
  BY <1>1, <1>2, <1>3, <1>4, <1>5

LEMMA TypeStep == TypeOK /\ [Next]_vars => TypeOK'
<1> SUFFICES ASSUME TypeOK, [Next]_vars PROVE TypeOK'
  OBVIOUS
<1>1. CASE UNCHANGED vars
  BY <1>1 DEF TypeOK, vars, githubVars, passVars, fileVars, discordVars
<1>2. CASE AgentStep
  BY <1>2, PollStepType, StageStepType, MarkRunSeenType, RecordFailureType
     DEF AgentStep, HandlerStep, StageStep
<1>3. CASE Restart \/ RestartRaises \/ Environment
  BY <1>3, RestartType, EnvironmentType DEF Environment
<1> QED
  BY <1>1, <1>2, <1>3 DEF Next

(* Every variable keeps its type, for any number of runs, any watch list,  *)
(* any cap, any fault: in particular memory and file never hold more than  *)
(* SeenCap seen ids, and a run is in hand exactly in the triage steps.     *)
THEOREM TypeCorrect == Spec => []TypeOK
<1> QED
  BY InitType, TypeStep, PTL DEF Spec

-----------------------------------------------------------------------------
(* Outcomes.  The invariant is about one store at a time, so that the same  *)
(* lemma serves memory and file; ev and po are the evicted runs and the     *)
(* messages in the channel.  Besides the three properties it says that a    *)
(* run at the attempt limit is in the seen list: has_seen alone keeps it    *)
(* from another attempt.                                                    *)

ClosedStatus == {"success", "seen_with_failure"}

OutcomeOK(s, ev, po) ==
    \A r \in Runs :
        /\ s.states[r].status \in ClosedStatus => r \in SeenRuns(s) \cup ev
        /\ s.states[r].status = "success" => po[r] > 0
        /\ s.states[r].attempts >= MaxAttempts => r \in SeenRuns(s) \cup ev
        /\ r \notin ev => s.states[r].attempts <= MaxAttempts

OutcomeInv ==
    /\ OutcomeOK(store, evicted, posted)
    /\ OutcomeOK(disk, evicted, posted)
    /\ pc \in TriageSteps => cur \in evicted \/ store.states[cur].attempts < MaxAttempts
    /\ pc = "mark" => posted[cur] > 0

LEMMA OutcomeMonotone ==
    ASSUME NEW s, NEW ev, NEW ev2, ev \subseteq ev2,
           NEW po \in [Runs -> Nat], NEW po2 \in [Runs -> Nat],
           \A r \in Runs : po[r] <= po2[r],
           OutcomeOK(s, ev, po)
    PROVE  OutcomeOK(s, ev2, po2)
<1>1. ASSUME NEW r \in Runs, po[r] > 0 PROVE po2[r] > 0
  BY <1>1
<1> QED
  BY <1>1 DEF OutcomeOK

LEMMA MarkSeenSeen ==
    ASSUME NEW s \in Store, NEW r \in Runs
    PROVE  SeenRuns(s) \cup {r} \subseteq SeenRuns(MarkSeen(s, r)) \cup PushedOut(s, r)
  BY DEF MarkSeen, SeenRuns, PushedOut

LEMMA MarkSeenOutcome ==
    ASSUME NEW s \in Store, NEW ev, NEW po \in [Runs -> Nat], NEW r \in Runs,
           OutcomeOK(s, ev, po), po[r] > 0
    PROVE  OutcomeOK(MarkSeen(s, r), ev \cup PushedOut(s, r), po)
<1> DEFINE t == MarkSeen(s, r)
<1>1. t.states = [s.states EXCEPT ![r] = SuccessState(s.states[r])]
  BY DEF MarkSeen
<1>2. s.states \in [Runs -> RunState] /\ s.states[r] \in RunState
  BY DEF Store
<1>3. t.states[r].attempts = s.states[r].attempts
  BY <1>1, <1>2 DEF SuccessState
<1>4. \A q \in Runs \ {r} : t.states[q] = s.states[q]
  BY <1>1, <1>2
<1>5. SeenRuns(s) \cup {r} \subseteq SeenRuns(t) \cup PushedOut(s, r)
  BY MarkSeenSeen
<1> DEFINE ev2 == ev \cup PushedOut(s, r)
<1>6. ev \subseteq ev2 /\ SeenRuns(s) \cup ev \subseteq SeenRuns(t) \cup ev2 /\ r \in SeenRuns(t) \cup ev2
  BY <1>5
<1> HIDE DEF t, ev2
<1>7. \A q \in Runs \ {r} :
        /\ t.states[q].status \in ClosedStatus => q \in SeenRuns(t) \cup ev2
        /\ t.states[q].status = "success" => po[q] > 0
        /\ t.states[q].attempts >= MaxAttempts => q \in SeenRuns(t) \cup ev2
        /\ q \notin ev2 => t.states[q].attempts <= MaxAttempts
  BY <1>4, <1>6 DEF OutcomeOK
<1>8. r \notin ev2 => t.states[r].attempts <= MaxAttempts
  BY <1>3, <1>6 DEF OutcomeOK
<1>9. OutcomeOK(t, ev2, po)
  BY <1>6, <1>7, <1>8 DEF OutcomeOK
<1> QED
  BY <1>9 DEF t, ev2

LEMMA RecordFailedOutcome ==
    ASSUME NEW s \in Store, NEW ev, NEW po \in [Runs -> Nat], NEW r \in Runs, NEW now0 \in Nat,
           OutcomeOK(s, ev, po),
           r \in ev \/ s.states[r].attempts < MaxAttempts
    PROVE  OutcomeOK(RecordFailedAttempt(s, r, now0),
                     IF Terminal(s.states[r].attempts + 1) THEN ev \cup PushedOut(s, r) ELSE ev,
                     po)
<1> DEFINE t == RecordFailedAttempt(s, r, now0)
           ev2 == IF Terminal(s.states[r].attempts + 1) THEN ev \cup PushedOut(s, r) ELSE ev
<1>1. t.states = [s.states EXCEPT ![r] = FailedState(s.states[r], now0)]
  BY DEF RecordFailedAttempt
<1>2. /\ s.states \in [Runs -> RunState] /\ s.states[r] \in RunState
      /\ s.states[r].attempts \in Nat
  BY DEF Store, RunState
<1>3. /\ t.states[r].attempts = s.states[r].attempts + 1
      /\ t.states[r].status = IF Terminal(s.states[r].attempts + 1)
                              THEN "seen_with_failure" ELSE "retry_scheduled"
  BY <1>1, <1>2 DEF FailedState
<1>4. \A q \in Runs \ {r} : t.states[q] = s.states[q]
  BY <1>1, <1>2
<1>5. ev \subseteq ev2 /\ SeenRuns(s) \subseteq SeenRuns(t) \cup ev2
  BY DEF RecordFailedAttempt, SeenRuns, PushedOut
<1>6. Terminal(s.states[r].attempts + 1) => r \in SeenRuns(t) \cup ev2
  BY DEF RecordFailedAttempt, SeenRuns, PushedOut
<1> HIDE DEF t, ev2
<1>7. \A q \in Runs \ {r} :
        /\ t.states[q].status \in ClosedStatus => q \in SeenRuns(t) \cup ev2
        /\ t.states[q].status = "success" => po[q] > 0
        /\ t.states[q].attempts >= MaxAttempts => q \in SeenRuns(t) \cup ev2
        /\ q \notin ev2 => t.states[q].attempts <= MaxAttempts
  BY <1>4, <1>5 DEF OutcomeOK
<1>8. /\ t.states[r].status \in ClosedStatus => r \in SeenRuns(t) \cup ev2
      /\ t.states[r].status # "success"
      /\ t.states[r].attempts >= MaxAttempts => r \in SeenRuns(t) \cup ev2
      /\ r \notin ev2 => t.states[r].attempts <= MaxAttempts
  BY <1>2, <1>3, <1>5, <1>6, MaxAttemptsAssumption DEF ClosedStatus, Terminal
<1>9. OutcomeOK(t, ev2, po)
  BY <1>7, <1>8 DEF OutcomeOK
<1> QED
  BY <1>9 DEF t, ev2

LEMMA EmptyOutcome ==
    ASSUME NEW ev, NEW po \in [Runs -> Nat] PROVE OutcomeOK(EmptyStore, ev, po)
  BY MaxAttemptsAssumption DEF OutcomeOK, EmptyStore, NoState, ClosedStatus

LEMMA OutcomeInit == Init => OutcomeInv
<1> SUFFICES ASSUME Init PROVE OutcomeInv
  OBVIOUS
<1>1. posted \in [Runs -> Nat] /\ store = EmptyStore /\ disk = EmptyStore /\ pc = "list"
  BY DEF Init
<1>2. OutcomeOK(EmptyStore, evicted, posted)
  BY <1>1, EmptyOutcome
<1> QED
  BY <1>1, <1>2 DEF OutcomeInv, TriageSteps

(* A run is taken up only if it is not in the seen list, so by the          *)
(* invariant it is below the attempt limit.                                 *)
LEMMA OutcomePoll == TypeOK /\ OutcomeInv /\ PollStep => OutcomeInv'
<1> SUFFICES ASSUME TypeOK, OutcomeInv, PollStep PROVE OutcomeInv'
  OBVIOUS
<1>1. UNCHANGED <<store, disk, evicted, posted>>
  BY DEF PollStep, WakeUp, ListRuns, ListRunsRaises, EndPass, MatchRuns, NextRepository,
         NextTarget, SkipRun, DetectRun, UnchangedOutsidePass, fileVars, discordVars
<1>2. OutcomeOK(store', evicted', posted') /\ OutcomeOK(disk', evicted', posted')
  BY <1>1 DEF OutcomeInv
<1>3. pc' # "mark"
  BY DEF PollStep, WakeUp, ListRuns, ListRunsRaises, EndPass, MatchRuns, NextRepository,
         NextTarget, SkipRun, DetectRun, LeavePass
<1>4. pc' \in TriageSteps => cur' \in evicted \/ store.states[cur'].attempts < MaxAttempts
  <2> SUFFICES ASSUME pc' \in TriageSteps
               PROVE  cur' \in evicted \/ store.states[cur'].attempts < MaxAttempts
    OBVIOUS
  <2>1. PICK r \in Runs : DetectRun(r)
    BY DEF PollStep, WakeUp, ListRuns, ListRunsRaises, EndPass, MatchRuns, NextRepository,
           NextTarget, SkipRun, LeavePass, TriageSteps
  <2>2. cur' = r /\ r \notin SeenRuns(store)
    BY <2>1 DEF DetectRun, ShouldProcess, RetryDecision, HasSeen
  <2>3. store.states[r].attempts \in Nat
    BY DEF TypeOK, Store, RunState
  <2> QED
    BY <2>2, <2>3, MaxAttemptsAssumption DEF OutcomeInv, OutcomeOK
<1> QED
  BY <1>1, <1>2, <1>3, <1>4 DEF OutcomeInv

LEMMA OutcomeStage == TypeOK /\ OutcomeInv /\ StageStep => OutcomeInv'
<1> SUFFICES ASSUME TypeOK, OutcomeInv, StageStep PROVE OutcomeInv'
  OBVIOUS
<1> USE DEF AssembleIncident, Diagnose, StageRaises, StartSend, SendWithoutGateway,
            SendDelivered, SendRefused, SendTimesOut, AfterTimeout, UnchangedInStage,
            fileVars, discordVars, TriageSteps
<1>1. UNCHANGED <<store, disk, evicted, cur>> /\ pc \in TriageSteps /\ cur \in Runs
  BY DEF StageStep, TypeOK
<1>2. posted \in [Runs -> Nat] /\ posted' \in [Runs -> Nat]
  BY StageStepType DEF TypeOK
<1>3. \A r \in Runs : posted[r] <= posted'[r]
  BY <1>1, <1>2 DEF StageStep
<1>4. OutcomeOK(store', evicted', posted') /\ OutcomeOK(disk', evicted', posted')
  BY <1>1, <1>2, <1>3, OutcomeMonotone DEF OutcomeInv
<1>5. pc' = "mark" => posted'[cur'] > 0
  BY <1>1, <1>2 DEF StageStep
<1> QED
  BY <1>1, <1>4, <1>5 DEF OutcomeInv

LEMMA OutcomeMark == TypeOK /\ OutcomeInv /\ MarkRunSeen => OutcomeInv'
<1> SUFFICES ASSUME TypeOK, OutcomeInv, MarkRunSeen PROVE OutcomeInv'
  OBVIOUS
<1>1. /\ cur \in Runs /\ store \in Store /\ posted \in [Runs -> Nat] /\ posted' = posted
      /\ posted[cur] > 0 /\ store.states[cur] \in RunState
      /\ store.states \in [Runs -> RunState]
  BY DEF TypeOK, OutcomeInv, MarkRunSeen, TriageSteps, UnchangedInRecord, discordVars, Store
<1>2. store' = MarkSeen(store, cur) /\ evicted' = evicted \cup PushedOut(store, cur)
  BY DEF MarkRunSeen
<1>3. OutcomeOK(store', evicted', posted')
  BY <1>1, <1>2, MarkSeenOutcome DEF OutcomeInv
<1>4. OutcomeOK(disk, evicted', posted')
  BY <1>1, <1>2, OutcomeMonotone DEF OutcomeInv
<1>5. disk' = store' \/ disk' = disk
  BY DEF MarkRunSeen, Write, WriteRaises
<1>6. store'.states[cur].attempts = store.states[cur].attempts
  BY <1>1, <1>2 DEF MarkSeen, SuccessState
<1>7. pc' # "mark" /\ (pc' \in TriageSteps => cur' = cur)
  BY DEF MarkRunSeen, TriageSteps
<1>8. cur \in evicted \/ store.states[cur].attempts < MaxAttempts
  BY DEF OutcomeInv, MarkRunSeen, TriageSteps
<1> QED
  BY <1>2, <1>3, <1>4, <1>5, <1>6, <1>7, <1>8 DEF OutcomeInv

LEMMA OutcomeRecord == TypeOK /\ OutcomeInv /\ RecordFailure => OutcomeInv'
<1> SUFFICES ASSUME TypeOK, OutcomeInv, RecordFailure PROVE OutcomeInv'
  OBVIOUS
<1>1. /\ cur \in Runs /\ store \in Store /\ posted \in [Runs -> Nat] /\ posted' = posted
      /\ now \in Nat /\ (cur \in evicted \/ store.states[cur].attempts < MaxAttempts)
  BY DEF TypeOK, OutcomeInv, RecordFailure, TriageSteps, UnchangedInRecord, discordVars
<1>2. /\ store' = RecordFailedAttempt(store, cur, now)
      /\ evicted' = IF Terminal(store.states[cur].attempts + 1)
                    THEN evicted \cup PushedOut(store, cur) ELSE evicted
  BY DEF RecordFailure
<1>3. OutcomeOK(store', evicted', posted')
  BY <1>1, <1>2, RecordFailedOutcome DEF OutcomeInv
<1>4. OutcomeOK(disk, evicted', posted')
  <2>1. evicted \subseteq evicted'
    BY <1>2
  <2> QED
    BY <1>1, <2>1, OutcomeMonotone DEF OutcomeInv
<1>5. disk' = store' \/ disk' = disk
  BY DEF RecordFailure, Write, WriteRaises
<1>6. pc' \notin TriageSteps
  BY DEF RecordFailure, TriageSteps, LeavePass
<1> QED
  BY <1>3, <1>4, <1>5, <1>6 DEF OutcomeInv, TriageSteps

LEMMA OutcomeOther ==
    TypeOK /\ OutcomeInv /\ (Restart \/ RestartRaises \/ Environment) => OutcomeInv'
<1> SUFFICES ASSUME TypeOK, OutcomeInv, Restart \/ RestartRaises \/ Environment
             PROVE  OutcomeInv'
  OBVIOUS
<1> USE DEF Tick, GatewayDies, Crash, CreateRun, CompleteRun, LateMessage, UnchangedInStage,
            Restart, RestartRaises, vars, fileVars, discordVars, githubVars, passVars
<1>1. posted \in [Runs -> Nat] /\ posted' \in [Runs -> Nat]
  BY TypeStep DEF TypeOK, Next
<1>2. /\ disk' = disk /\ evicted' = evicted
      /\ store' \in {store, disk, EmptyStore}
      /\ \A r \in Runs : posted[r] <= posted'[r]
  <2>1. disk' = disk /\ evicted' = evicted /\ store' \in {store, disk, EmptyStore}
    BY DEF Environment
  <2>2. \/ posted' = posted
        \/ \E q \in Runs : posted' = [posted EXCEPT ![q] = posted[q] + 1]
    BY DEF Environment
  <2>3. \A r \in Runs : posted[r] <= posted'[r]
    BY <1>1, <2>2
  <2> QED
    BY <2>1, <2>3
<1>3. OutcomeOK(EmptyStore, evicted, posted)
  BY <1>1, EmptyOutcome
<1>4. OutcomeOK(store', evicted', posted') /\ OutcomeOK(disk', evicted', posted')
  <2>1. OutcomeOK(store', evicted, posted)
    BY <1>2, <1>3 DEF OutcomeInv
  <2> QED
    BY <1>1, <1>2, <2>1, OutcomeMonotone DEF OutcomeInv
<1>5. pc' \in TriageSteps => UNCHANGED <<pc, cur, store>>
  BY DEF Environment, TriageSteps
<1>6. pc' = "mark" => posted'[cur'] > 0
  <2> SUFFICES ASSUME pc' = "mark" PROVE posted'[cur'] > 0
    OBVIOUS
  <2>1. pc = "mark" /\ cur' = cur /\ cur \in Runs /\ posted[cur] > 0
    BY <1>5 DEF OutcomeInv, TypeOK, TriageSteps
  <2> QED
    BY <1>1, <1>2, <2>1
<1> QED
  BY <1>2, <1>4, <1>5, <1>6 DEF OutcomeInv

LEMMA OutcomeStep == TypeOK /\ OutcomeInv /\ [Next]_vars => OutcomeInv'
<1> SUFFICES ASSUME TypeOK, OutcomeInv, [Next]_vars PROVE OutcomeInv'
  OBVIOUS
<1>1. CASE UNCHANGED vars
  BY <1>1, OutcomeOther DEF OutcomeInv, vars, fileVars, discordVars
<1>2. CASE AgentStep
  BY <1>2, OutcomePoll, OutcomeStage, OutcomeMark, OutcomeRecord
     DEF AgentStep, HandlerStep, StageStep
<1>3. CASE Restart \/ RestartRaises \/ Environment
  BY <1>3, OutcomeOther
<1> QED
  BY <1>1, <1>2, <1>3 DEF Next

LEMMA OutcomeInvariant == Spec => []OutcomeInv
<1> QED
  BY TypeCorrect, OutcomeInit, OutcomeStep, PTL DEF Spec

(* However often the process dies and whatever fails, a run has at most     *)
(* MaxAttempts recorded failures, unless it fell off the seen list.         *)
THEOREM AttemptsAreBounded == Spec => []AttemptsBounded
<1>1. OutcomeInv => AttemptsBounded
  BY DEF OutcomeInv, OutcomeOK, AttemptsBounded
<1> QED
  BY <1>1, OutcomeInvariant, PTL

(* No success on record, in memory or in the file, without a message in the *)
(* channel.                                                                 *)
THEOREM SuccessImpliesPosted == Spec => []SuccessWasPosted
<1>1. OutcomeInv => SuccessWasPosted
  BY DEF OutcomeInv, OutcomeOK, SuccessWasPosted
<1> QED
  BY <1>1, OutcomeInvariant, PTL

(* The cheap membership test and the recorded outcome agree in every store  *)
(* the program ever holds or writes.                                        *)
THEOREM ClosedImpliesSeen == Spec => []ClosedRunsAreSeen
<1>1. OutcomeInv => ClosedRunsAreSeen
  BY DEF OutcomeInv, OutcomeOK, ClosedRunsAreSeen, Closed, ClosedStatus
<1> QED
  BY <1>1, OutcomeInvariant, PTL

-----------------------------------------------------------------------------
(* The file.  Memory is never behind the file while the process is up, and  *)
(* a run in the first triage steps was not in the seen list of the file.    *)

Behind(d, s, ev) ==
    /\ SeenRuns(d) \subseteq SeenRuns(s) \cup ev
    /\ \A r \in Runs : d.states[r].attempts <= s.states[r].attempts

FileInv ==
    /\ DiskIsCurrent
    /\ pc # "down" => Behind(disk, store, evicted)
    /\ pc \in {"assemble", "diagnose", "notify"} => cur \in evicted \/ cur \notin SeenRuns(disk)

LEMMA BehindItself == ASSUME NEW s \in Store, NEW ev PROVE Behind(s, s, ev)
<1>1. \A r \in Runs : s.states[r].attempts \in Nat
  BY DEF Store, RunState
<1> QED
  BY <1>1 DEF Behind

LEMMA BehindMarkSeen ==
    ASSUME NEW d \in Store, NEW s \in Store, NEW ev, NEW r \in Runs, Behind(d, s, ev)
    PROVE  /\ Behind(d, MarkSeen(s, r), ev \cup PushedOut(s, r))
           /\ r \in SeenRuns(MarkSeen(s, r)) \cup ev \cup PushedOut(s, r)
<1> DEFINE t == MarkSeen(s, r)
<1>1. SeenRuns(s) \cup {r} \subseteq SeenRuns(t) \cup PushedOut(s, r)
  BY MarkSeenSeen
<1>2. \A q \in Runs : t.states[q].attempts = s.states[q].attempts
  BY DEF MarkSeen, Store, SuccessState
<1> HIDE DEF t
<1>3. Behind(d, t, ev \cup PushedOut(s, r))
  BY <1>1, <1>2 DEF Behind
<1> QED
  BY <1>1, <1>3 DEF t

LEMMA BehindRecordFailed ==
    ASSUME NEW d \in Store, NEW s \in Store, NEW ev, NEW r \in Runs, NEW t0 \in Nat,
           Behind(d, s, ev),
           NEW t, t = RecordFailedAttempt(s, r, t0),
           NEW ev2,
           ev2 = IF Terminal(s.states[r].attempts + 1) THEN ev \cup PushedOut(s, r) ELSE ev
    PROVE  /\ Behind(d, t, ev2)
           /\ ev \subseteq ev2
           /\ t.states[r].attempts = s.states[r].attempts + 1
<1>1. t.states = [s.states EXCEPT ![r] = FailedState(s.states[r], t0)]
  BY DEF RecordFailedAttempt
<1>2. /\ s.states \in [Runs -> RunState]
      /\ \A q \in Runs : s.states[q].attempts \in Nat /\ d.states[q].attempts \in Nat
  BY DEF Store, RunState
<1>3. t.states[r].attempts = s.states[r].attempts + 1
  BY <1>1, <1>2 DEF FailedState
<1>4. \A q \in Runs \ {r} : t.states[q] = s.states[q]
  BY <1>1, <1>2
<1>5. ev \subseteq ev2 /\ SeenRuns(s) \subseteq SeenRuns(t) \cup ev2
  BY DEF RecordFailedAttempt, SeenRuns, PushedOut
<1>6. Behind(d, t, ev2)
  <2>1. SeenRuns(d) \subseteq SeenRuns(t) \cup ev2
    BY <1>5 DEF Behind
  <2>2. ASSUME NEW q \in Runs PROVE d.states[q].attempts <= t.states[q].attempts
    <3>1. d.states[q].attempts <= s.states[q].attempts
      BY DEF Behind
    <3>2. CASE q = r
      BY <1>2, <1>3, <3>1, <3>2
    <3>3. CASE q # r
      BY <1>4, <3>1, <3>3
    <3> QED
      BY <3>2, <3>3
  <2> QED
    BY <2>1, <2>2 DEF Behind
<1> QED
  BY <1>3, <1>5, <1>6

LEMMA FileInit == Init => FileInv
<1> SUFFICES ASSUME Init PROVE FileInv
  OBVIOUS
<1>1. Behind(EmptyStore, EmptyStore, evicted)
  BY EmptyStoreType, BehindItself
<1> QED
  BY <1>1 DEF Init, FileInv, DiskIsCurrent

LEMMA FilePoll == TypeOK /\ FileInv /\ PollStep => FileInv'
<1> SUFFICES ASSUME TypeOK, FileInv, PollStep PROVE FileInv'
  OBVIOUS
<1>1. /\ UNCHANGED <<store, disk, file, writeFails, evicted>>
      /\ pc # "down" /\ pc' # "down"
  BY DEF PollStep, WakeUp, ListRuns, ListRunsRaises, EndPass, MatchRuns, NextRepository,
         NextTarget, SkipRun, DetectRun, UnchangedOutsidePass, fileVars, LeavePass
<1>2. Behind(disk, store, evicted) /\ DiskIsCurrent
  BY <1>1 DEF FileInv
<1>3. Behind(disk', store', evicted') /\ DiskIsCurrent'
  BY <1>1, <1>2 DEF DiskIsCurrent
<1>4. ASSUME pc' \in {"assemble", "diagnose", "notify"}
      PROVE  cur' \in evicted' \/ cur' \notin SeenRuns(disk')
  <2>1. PICK r \in Runs : DetectRun(r)
    BY <1>4 DEF PollStep, WakeUp, ListRuns, ListRunsRaises, EndPass, MatchRuns,
                NextRepository, NextTarget, SkipRun, LeavePass
  <2>2. cur' = r /\ r \notin SeenRuns(store)
    BY <2>1 DEF DetectRun, ShouldProcess, RetryDecision, HasSeen
  <2> QED
    BY <1>1, <1>2, <2>2 DEF Behind
<1> QED
  BY <1>3, <1>4 DEF FileInv

LEMMA FileStage == TypeOK /\ FileInv /\ StageStep => FileInv'
<1> SUFFICES ASSUME TypeOK, FileInv, StageStep PROVE FileInv'
  OBVIOUS
<1>1. /\ UNCHANGED <<store, disk, file, writeFails, evicted, cur>>
      /\ pc # "down"
      /\ pc' \in {"assemble", "diagnose", "notify"} => pc \in {"assemble", "diagnose", "notify"}
  BY DEF StageStep, AssembleIncident, Diagnose, StageRaises, StartSend, SendWithoutGateway,
         SendDelivered, SendRefused, SendTimesOut, AfterTimeout, UnchangedInStage, fileVars
<1> QED
  BY <1>1 DEF FileInv, DiskIsCurrent

(* A write that returns leaves file and memory equal; one that raises is on *)
(* record in writeFails, and memory only moved further ahead.               *)
LEMMA FileMark == TypeOK /\ FileInv /\ MarkRunSeen => FileInv'
<1> SUFFICES ASSUME TypeOK, FileInv, MarkRunSeen PROVE FileInv'
  OBVIOUS
<1>1. /\ cur \in Runs /\ store \in Store /\ disk \in Store /\ writeFails \in Nat
      /\ Behind(disk, store, evicted)
  BY DEF TypeOK, FileInv, MarkRunSeen, TriageSteps
<1>2. store' \in Store
  BY MarkRunSeenType DEF TypeOK
<1>3. Behind(disk, store', evicted') /\ Behind(store', store', evicted')
  BY <1>1, <1>2, BehindMarkSeen, BehindItself DEF MarkRunSeen
<1>4. \/ disk' = store' /\ file' = "whole"
      \/ disk' = disk /\ writeFails' = writeFails + 1
  BY DEF MarkRunSeen, Write, WriteRaises
<1>5. pc' \notin {"assemble", "diagnose", "notify"}
  BY DEF MarkRunSeen
<1> QED
  BY <1>1, <1>3, <1>4, <1>5 DEF FileInv, DiskIsCurrent

LEMMA FileRecord == TypeOK /\ FileInv /\ RecordFailure => FileInv'
<1> SUFFICES ASSUME TypeOK, FileInv, RecordFailure PROVE FileInv'
  OBVIOUS
<1>1. /\ cur \in Runs /\ store \in Store /\ disk \in Store /\ writeFails \in Nat
      /\ now \in Nat /\ Behind(disk, store, evicted)
  BY DEF TypeOK, FileInv, RecordFailure, TriageSteps
<1>2. store' \in Store
  BY RecordFailureType DEF TypeOK
<1>3. Behind(disk, store', evicted') /\ Behind(store', store', evicted')
  BY <1>1, <1>2, BehindRecordFailed, BehindItself DEF RecordFailure
<1>4. \/ disk' = store' /\ file' = "whole"
      \/ disk' = disk /\ writeFails' = writeFails + 1
  BY DEF RecordFailure, Write, WriteRaises
<1>5. pc' \notin {"assemble", "diagnose", "notify"}
  BY DEF RecordFailure, LeavePass
<1> QED
  BY <1>1, <1>3, <1>4, <1>5 DEF FileInv, DiskIsCurrent

LEMMA FileOther == TypeOK /\ FileInv /\ (Restart \/ RestartRaises \/ Environment) => FileInv'
<1> SUFFICES ASSUME TypeOK, FileInv, Restart \/ RestartRaises \/ Environment PROVE FileInv'
  OBVIOUS
<1>1. CASE Restart
  <2>1. Behind(disk, disk, evicted)
    BY BehindItself DEF TypeOK
  <2> QED
    BY <1>1, <2>1 DEF Restart, FileInv, DiskIsCurrent, fileVars
<1>2. CASE Crash
  BY <1>2 DEF Crash, FileInv, DiskIsCurrent
<1>3. CASE RestartRaises \/ Tick \/ GatewayDies
           \/ \E r \in Runs : CreateRun(r) \/ CompleteRun(r) \/ LateMessage(r)
  <2>1. UNCHANGED <<store, disk, file, writeFails, evicted, cur, pc>>
    BY <1>3 DEF RestartRaises, vars, Tick, GatewayDies, CreateRun, CompleteRun, LateMessage,
                UnchangedInStage, fileVars
  <2> QED
    BY <2>1 DEF FileInv, DiskIsCurrent
<1> QED
  BY <1>1, <1>2, <1>3 DEF Environment

LEMMA FileStep == TypeOK /\ FileInv /\ [Next]_vars => FileInv'
<1> SUFFICES ASSUME TypeOK, FileInv, [Next]_vars PROVE FileInv'
  OBVIOUS
<1>1. CASE UNCHANGED vars
  BY <1>1 DEF FileInv, DiskIsCurrent, vars, fileVars
<1>2. CASE AgentStep
  BY <1>2, FilePoll, FileStage, FileMark, FileRecord DEF AgentStep, HandlerStep, StageStep
<1>3. CASE Restart \/ RestartRaises \/ Environment
  BY <1>3, FileOther
<1> QED
  BY <1>1, <1>2, <1>3 DEF Next

LEMMA FileInvariant == Spec => []FileInv
<1> QED
  BY TypeCorrect, FileInit, FileStep, PTL DEF Spec

(* Until a write fails, no crash can lose a recorded outcome.               *)
THEOREM DiskStaysCurrent == Spec => []DiskIsCurrent
<1>1. FileInv => DiskIsCurrent
  BY DEF FileInv
<1> QED
  BY <1>1, FileInvariant, PTL

-----------------------------------------------------------------------------
(* Messages.  Each is charged to a recorded failure, a crash or a failed    *)
(* write; the one on top is the message of the attempt under way, or of the *)
(* success the file already knows about.                                    *)

Delivered(r) ==
    /\ posted[r] + late[r] <= sent[r]
    /\ pc = "sending" /\ cur = r => posted[r] + late[r] < sent[r]

OpenAttempt(r) == cur = r /\ pc \in {"sending", "mark", "failed"}

Charged(r) ==
    LET charges == disk.states[r].attempts + crashes + writeFails
    IN  /\ sent[r] <= charges + 1
        /\ r \notin SeenRuns(disk) /\ ~OpenAttempt(r) => sent[r] <= charges

MessageInv ==
    /\ \A r \in Runs : Delivered(r)
    /\ \A r \in Runs \ evicted : Charged(r)

LEMMA CountType ==
    ASSUME TypeOK, NEW r \in Runs
    PROVE  /\ posted[r] \in Nat /\ late[r] \in Nat /\ sent[r] \in Nat
           /\ disk.states[r].attempts \in Nat /\ store.states[r].attempts \in Nat
           /\ crashes \in Nat /\ writeFails \in Nat
  BY DEF TypeOK, Store, RunState

LEMMA MessageInit == Init => MessageInv
<1> SUFFICES ASSUME Init PROVE MessageInv
  OBVIOUS
<1>1. ASSUME NEW r \in Runs PROVE Delivered(r) /\ Charged(r)
  BY DEF Init, Delivered, Charged, EmptyStore, NoState
<1> QED
  BY <1>1 DEF MessageInv

LEMMA MessagePoll == TypeOK /\ MessageInv /\ PollStep => MessageInv'
<1> SUFFICES ASSUME TypeOK, MessageInv, PollStep PROVE MessageInv'
  OBVIOUS
<1>1. /\ UNCHANGED <<disk, writeFails, evicted, crashes, late, posted, sent>>
      /\ pc \notin {"sending", "mark", "failed"} /\ pc' \notin {"sending", "mark", "failed"}
  BY DEF PollStep, WakeUp, ListRuns, ListRunsRaises, EndPass, MatchRuns, NextRepository,
         NextTarget, SkipRun, DetectRun, UnchangedOutsidePass, fileVars, discordVars, LeavePass
<1> QED
  BY <1>1 DEF MessageInv, Delivered, Charged, OpenAttempt

(* Only StartSend hands over a message, and only for a run that was charged *)
(* in full before: it is not in the seen list of the file.                  *)
LEMMA MessageStage == TypeOK /\ FileInv /\ MessageInv /\ StageStep => MessageInv'
<1> SUFFICES ASSUME TypeOK, FileInv, MessageInv, StageStep PROVE MessageInv'
  OBVIOUS
<1> USE DEF AssembleIncident, Diagnose, StageRaises, StartSend, SendWithoutGateway,
            SendDelivered, SendRefused, SendTimesOut, AfterTimeout, UnchangedInStage,
            fileVars, discordVars
<1>1. /\ UNCHANGED <<disk, writeFails, evicted, crashes, cur>> /\ cur \in Runs
      /\ late \in [Runs -> Nat] /\ posted \in [Runs -> Nat] /\ sent \in [Runs -> Nat]
  BY DEF StageStep, TypeOK, TriageSteps
<1>2. CASE StartSend
  <2>1. /\ UNCHANGED <<late, posted>> /\ pc' = "sending" /\ pc = "notify"
        /\ sent' = [sent EXCEPT ![cur] = sent[cur] + 1]
    BY <1>2
  <2>2. ASSUME NEW r \in Runs PROVE Delivered(r)'
    BY <1>1, <2>1, <2>2, CountType DEF MessageInv, Delivered
  <2>3. ASSUME NEW r \in Runs \ evicted PROVE Charged(r)'
    <3>1. CASE r = cur
      <4>1. r \notin SeenRuns(disk)
        BY <2>1, <2>3, <3>1 DEF FileInv
      <4>2. sent[r] <= disk.states[r].attempts + crashes + writeFails
        BY <2>1, <2>3, <4>1 DEF MessageInv, Charged, OpenAttempt
      <4> QED
        BY <1>1, <2>1, <2>3, <3>1, <4>2, CountType DEF Charged, OpenAttempt
    <3>2. CASE r # cur
      BY <1>1, <2>1, <2>3, <3>2 DEF MessageInv, Charged, OpenAttempt
    <3> QED
      BY <3>1, <3>2
  <2> QED
    BY <1>1, <2>2, <2>3 DEF MessageInv
<1>3. CASE SendDelivered \/ SendTimesOut
  <2>1. /\ sent' = sent /\ pc = "sending" /\ pc' \in {"mark", "failed"}
        /\ \/ late' = late /\ posted' = [posted EXCEPT ![cur] = posted[cur] + 1]
           \/ posted' = posted /\ late' = [late EXCEPT ![cur] = late[cur] + 1]
    BY <1>3
  <2>2. ASSUME NEW r \in Runs PROVE Delivered(r)'
    <3>1. Delivered(r)
      BY DEF MessageInv
    <3>2. posted'[r] + late'[r] <= sent'[r]
      BY <1>1, <2>1, <3>1, CountType DEF Delivered
    <3> QED
      BY <2>1, <3>2 DEF Delivered
  <2>3. ASSUME NEW r \in Runs \ evicted PROVE Charged(r)'
    BY <1>1, <2>1, <2>3 DEF MessageInv, Charged, OpenAttempt
  <2> QED
    BY <1>1, <2>2, <2>3 DEF MessageInv
<1>4. CASE AssembleIncident \/ Diagnose \/ StageRaises \/ SendWithoutGateway \/ SendRefused
  <2>1. /\ UNCHANGED <<late, posted, sent>>
        /\ pc' # "sending"
        /\ pc \in {"sending", "mark", "failed"} => pc' \in {"sending", "mark", "failed"}
    BY <1>4
  <2> QED
    BY <1>1, <2>1 DEF MessageInv, Delivered, Charged, OpenAttempt
<1> QED
  BY <1>2, <1>3, <1>4 DEF StageStep

LEMMA MessageMark == TypeOK /\ FileInv /\ MessageInv /\ MarkRunSeen => MessageInv'
<1> SUFFICES ASSUME TypeOK, FileInv, MessageInv, MarkRunSeen PROVE MessageInv'
  OBVIOUS
<1>1. /\ cur \in Runs /\ store \in Store /\ disk \in Store /\ evicted \subseteq evicted'
      /\ UNCHANGED <<crashes, late, posted, sent>> /\ pc = "mark"
      /\ Behind(disk, store, evicted)
  BY DEF TypeOK, FileInv, MarkRunSeen, TriageSteps, UnchangedInRecord, discordVars
<1>2. /\ Behind(disk, store', evicted')
      /\ cur \in SeenRuns(store') \cup evicted'
  BY <1>1, BehindMarkSeen DEF MarkRunSeen
<1>3. ASSUME NEW r \in Runs PROVE Delivered(r)'
  BY <1>1, <1>3 DEF MessageInv, Delivered, MarkRunSeen
<1>4. ASSUME NEW r \in Runs \ evicted' PROVE Charged(r)'
  <2>1. Charged(r) /\ r \notin evicted
    BY <1>1, <1>4 DEF MessageInv
  <2>2. CASE disk' = store' /\ writeFails' = writeFails /\ pc' = "runs"
    <3>1. disk.states[r].attempts <= disk'.states[r].attempts
      BY <1>2, <2>2 DEF Behind
    <3>2. r \notin SeenRuns(disk') => r \notin SeenRuns(disk) /\ r # cur
      BY <1>2, <1>4, <2>2 DEF Behind
    <3>3. disk'.states[r].attempts \in Nat
      BY MarkRunSeenType, CountType DEF TypeOK, Store, RunState
    <3> QED
      BY <1>1, <2>1, <2>2, <3>1, <3>2, <3>3, CountType DEF Charged, OpenAttempt
  <2>3. CASE disk' = disk /\ writeFails' = writeFails + 1
    BY <1>1, <2>1, <2>3, CountType DEF Charged, OpenAttempt
  <2> QED
    BY <2>2, <2>3 DEF MarkRunSeen, Write, WriteRaises
<1> QED
  BY <1>3, <1>4 DEF MessageInv

LEMMA MessageRecord == TypeOK /\ FileInv /\ MessageInv /\ RecordFailure => MessageInv'
<1> SUFFICES ASSUME TypeOK, FileInv, MessageInv, RecordFailure PROVE MessageInv'
  OBVIOUS
<1>1. /\ cur \in Runs /\ store \in Store /\ disk \in Store /\ now \in Nat
      /\ UNCHANGED <<crashes, late, posted, sent>> /\ pc = "failed"
      /\ Behind(disk, store, evicted)
      /\ pc' \in {"runs", "sleep"} /\ cur' = NoRun
  BY DEF TypeOK, FileInv, RecordFailure, TriageSteps, UnchangedInRecord, discordVars, LeavePass
<1>2. /\ Behind(disk, store', evicted') /\ evicted \subseteq evicted'
      /\ store'.states[cur].attempts = store.states[cur].attempts + 1
  BY <1>1, BehindRecordFailed DEF RecordFailure
<1>3. ASSUME NEW r \in Runs PROVE Delivered(r)'
  BY <1>1, <1>3 DEF MessageInv, Delivered
<1>4. ASSUME NEW r \in Runs \ evicted' PROVE Charged(r)'
  <2>1. Charged(r) /\ r \notin evicted
    BY <1>2, <1>4 DEF MessageInv
  <2>2. CASE disk' = store' /\ writeFails' = writeFails
    <3>1. disk.states[r].attempts <= disk'.states[r].attempts
      BY <1>2, <2>2 DEF Behind
    <3>2. r \notin SeenRuns(disk') => r \notin SeenRuns(disk)
      BY <1>2, <1>4, <2>2 DEF Behind
    <3>3. r = cur => disk.states[r].attempts + 1 <= disk'.states[r].attempts
      BY <1>1, <1>2, <2>2, CountType DEF Behind
    <3>4. disk'.states[r].attempts \in Nat
      BY RecordFailureType DEF TypeOK, Store, RunState
    <3> QED
      BY <1>1, <2>1, <2>2, <3>1, <3>2, <3>3, <3>4, CountType DEF Charged, OpenAttempt
  <2>3. CASE disk' = disk /\ writeFails' = writeFails + 1
    BY <1>1, <2>1, <2>3, CountType DEF Charged, OpenAttempt
  <2> QED
    BY <2>2, <2>3 DEF RecordFailure, Write, WriteRaises
<1> QED
  BY <1>3, <1>4 DEF MessageInv

LEMMA MessageOther ==
    TypeOK /\ MessageInv /\ (Restart \/ RestartRaises \/ Environment) => MessageInv'
<1> SUFFICES ASSUME TypeOK, MessageInv, Restart \/ RestartRaises \/ Environment
             PROVE  MessageInv'
  OBVIOUS
<1>1. CASE Crash
  <2>1. /\ UNCHANGED <<disk, writeFails, evicted, posted, sent>> /\ crashes' = crashes + 1
        /\ pc' = "down"
        /\ late' = IF pc = "sending" THEN [late EXCEPT ![cur] = late[cur] + 1] ELSE late
    BY <1>1 DEF Crash
  <2>2. ASSUME NEW r \in Runs PROVE Delivered(r)'
    <3>1. Delivered(r) /\ late \in [Runs -> Nat]
      BY DEF MessageInv, TypeOK
    <3>2. posted'[r] + late'[r] <= sent'[r]
      BY <2>1, <3>1, CountType DEF Delivered
    <3> QED
      BY <2>1, <3>2 DEF Delivered
  <2>3. ASSUME NEW r \in Runs \ evicted PROVE Charged(r)'
    BY <2>1, <2>3, CountType DEF MessageInv, Charged, OpenAttempt
  <2> QED
    BY <2>1, <2>2, <2>3 DEF MessageInv
<1>2. ASSUME NEW q \in Runs, LateMessage(q) PROVE MessageInv'
  <2>1. /\ UNCHANGED <<disk, writeFails, evicted, crashes, sent, pc, cur>>
        /\ late[q] > 0 /\ late' = [late EXCEPT ![q] = late[q] - 1]
        /\ posted' = posted \/ posted' = [posted EXCEPT ![q] = posted[q] + 1]
    BY <1>2 DEF LateMessage, UnchangedInStage, fileVars
  <2>2. ASSUME NEW r \in Runs PROVE Delivered(r)'
    <3>1. Delivered(r) /\ late \in [Runs -> Nat] /\ posted \in [Runs -> Nat]
      BY DEF MessageInv, TypeOK
    <3>2. posted'[r] + late'[r] <= posted[r] + late[r]
      BY <2>1, <3>1, CountType
    <3>3. posted'[r] \in Nat /\ late'[r] \in Nat
      BY <2>1, <3>1, CountType
    <3> QED
      BY <2>1, <3>1, <3>2, <3>3, CountType DEF Delivered
  <2> QED
    BY <2>1, <2>2 DEF MessageInv, Charged, OpenAttempt
<1>3. CASE Restart \/ RestartRaises \/ Tick \/ GatewayDies
           \/ \E r \in Runs : CreateRun(r) \/ CompleteRun(r)
  <2>1. /\ UNCHANGED <<disk, writeFails, evicted, crashes, late, posted, sent, cur>>
        /\ pc' = pc \/ (pc = "down" /\ pc' = "list")
    BY <1>3 DEF Restart, RestartRaises, vars, Tick, GatewayDies, CreateRun, CompleteRun,
                fileVars, discordVars
  <2> QED
    BY <2>1 DEF MessageInv, Delivered, Charged, OpenAttempt
<1> QED
  BY <1>1, <1>2, <1>3 DEF Environment

LEMMA MessageStep == TypeOK /\ FileInv /\ MessageInv /\ [Next]_vars => MessageInv'
<1> SUFFICES ASSUME TypeOK, FileInv, MessageInv, [Next]_vars PROVE MessageInv'
  OBVIOUS
<1>1. CASE UNCHANGED vars
  BY <1>1 DEF MessageInv, Delivered, Charged, OpenAttempt, vars, fileVars, discordVars
<1>2. CASE AgentStep
  BY <1>2, MessagePoll, MessageStage, MessageMark, MessageRecord
     DEF AgentStep, HandlerStep, StageStep
<1>3. CASE Restart \/ RestartRaises \/ Environment
  BY <1>3, MessageOther
<1> QED
  BY <1>1, <1>2, <1>3 DEF Next

LEMMA MessageInvariant == Spec => []MessageInv
<1> QED
  BY TypeCorrect, FileInvariant, MessageInit, MessageStep, PTL DEF Spec

(* Operators are never sent a message without a cause on record: all but    *)
(* one are paid for by a recorded failure, a crash or a failed write.       *)
THEOREM MessagesAreBounded == Spec => []MessagesBounded
<1>1. MessageInv => MessagesBounded
  BY DEF MessageInv, Delivered, Charged, MessagesBounded
<1> QED
  BY <1>1, MessageInvariant, PTL

-----------------------------------------------------------------------------
(* Backoff.  What the file says about a run whose last attempt failed, as   *)
(* long as every write succeeded; memory then says the same.                *)

Waiting(s, r) ==
    /\ s.states[r].status = "retry_scheduled"
    /\ s.states[r].nextRetry \in Nat
    /\ s.states[r].nextRetry = lastFail[r] + Backoff(s.states[r].attempts)

BackoffInv ==
    writeFails = 0 =>
        \A r \in Runs \ evicted : lastFail[r] # None => r \in SeenRuns(disk) \/ Waiting(disk, r)

LEMMA RecordFailedWaits ==
    ASSUME NEW s \in Store, NEW r \in Runs, NEW t0 \in Nat,
           ~Terminal(s.states[r].attempts + 1)
    PROVE  LET new == RecordFailedAttempt(s, r, t0).states[r]
           IN  /\ new.status = "retry_scheduled" /\ new.nextRetry \in Nat
               /\ new.nextRetry = t0 + Backoff(new.attempts)
<1> DEFINE n == s.states[r].attempts + 1
           new == RecordFailedAttempt(s, r, t0).states[r]
<1>1. s.states[r] \in RunState /\ s.states \in [Runs -> RunState]
  BY DEF Store
<1>2. FailedState(s.states[r], t0) =
        [status |-> "retry_scheduled", attempts |-> n, nextRetry |-> t0 + Backoff(n)]
  BY DEF FailedState
<1>3. new = FailedState(s.states[r], t0)
  BY <1>1 DEF RecordFailedAttempt
<1>4. new \in RunState /\ new.nextRetry \in Nat \cup {None}
  BY <1>1, <1>3, FailedStateType DEF RunState
<1>5. Backoff(n) \in Nat
  <2>1. n - 1 \in 0 .. MaxAttempts
    BY <1>1, MaxAttemptsAssumption DEF Terminal, RunState
  <2> DEFINE doubled == InitialBackoff * 2^(n - 1)
  <2>2. doubled \in Nat
    BY <2>1, BackoffAssumption
  <2>3. Backoff(n) = IF MaxBackoff < doubled THEN MaxBackoff ELSE doubled
    BY DEF Backoff
  <2> HIDE DEF doubled
  <2> QED
    BY <2>2, <2>3, BackoffAssumption
<1> HIDE DEF n
<1>6. new.status = "retry_scheduled" /\ new.attempts = n /\ new.nextRetry = t0 + Backoff(n)
  BY <1>2, <1>3
<1> QED
  BY <1>5, <1>6

LEMMA BackoffStep == TypeOK /\ FileInv /\ BackoffInv /\ [Next]_vars => BackoffInv'
<1> SUFFICES ASSUME TypeOK, FileInv, BackoffInv, [Next]_vars, writeFails' = 0,
                    NEW r \in Runs \ evicted', lastFail'[r] # None
             PROVE  r \in SeenRuns(disk') \/ Waiting(disk, r)'
  BY DEF BackoffInv
<1>1. CASE RecordFailure
  <2>1. /\ cur \in Runs /\ store \in Store /\ now \in Nat /\ disk = store
        /\ lastFail \in [Runs -> Nat \cup {None}] /\ writeFails = 0
        /\ disk' = store' /\ store' = RecordFailedAttempt(store, cur, now)
        /\ lastFail' = [lastFail EXCEPT ![cur] = now]
        /\ Behind(disk, store, evicted)
    BY <1>1 DEF TypeOK, FileInv, DiskIsCurrent, RecordFailure, TriageSteps, Write, WriteRaises
  <2>2. Behind(disk, disk', evicted') /\ evicted \subseteq evicted'
    BY <1>1, <2>1, BehindRecordFailed DEF RecordFailure
  <2>3. CASE r = cur
    <3>1. CASE Terminal(store.states[cur].attempts + 1)
      BY <1>1, <2>1, <2>3, <3>1 DEF RecordFailure, RecordFailedAttempt, SeenRuns, PushedOut
    <3>2. CASE ~Terminal(store.states[cur].attempts + 1)
      BY <2>1, <2>3, <3>2, RecordFailedWaits DEF Waiting
    <3> QED
      BY <3>1, <3>2
  <2>4. CASE r # cur
    <3>1. lastFail'[r] = lastFail[r] /\ disk'.states[r] = disk.states[r]
      BY <2>1, <2>4 DEF RecordFailedAttempt, Store
    <3>2. r \in SeenRuns(disk) \/ Waiting(disk, r)
      BY <2>1, <2>2, <3>1 DEF BackoffInv
    <3> QED
      BY <2>2, <3>1, <3>2 DEF Behind, Waiting
  <2> QED
    BY <2>3, <2>4
<1>2. CASE MarkRunSeen
  <2>1. /\ cur \in Runs /\ store \in Store /\ disk = store /\ lastFail' = lastFail
        /\ writeFails = 0 /\ disk' = store' /\ store' = MarkSeen(store, cur)
        /\ Behind(disk, store, evicted)
    BY <1>2 DEF TypeOK, FileInv, DiskIsCurrent, MarkRunSeen, TriageSteps, Write, WriteRaises
  <2>2. /\ Behind(disk, disk', evicted') /\ evicted \subseteq evicted'
        /\ cur \in SeenRuns(disk') \cup evicted'
    BY <1>2, <2>1, BehindMarkSeen DEF MarkRunSeen
  <2>3. CASE r = cur
    BY <2>2, <2>3
  <2>4. CASE r # cur
    <3>1. disk'.states[r] = disk.states[r]
      BY <2>1, <2>4 DEF MarkSeen, Store
    <3>2. r \in SeenRuns(disk) \/ Waiting(disk, r)
      BY <2>1, <2>2 DEF BackoffInv
    <3> QED
      BY <2>1, <2>2, <3>1, <3>2 DEF Behind, Waiting
  <2> QED
    BY <2>3, <2>4
<1>3. CASE UNCHANGED vars \/ PollStep \/ StageStep \/ Restart \/ RestartRaises \/ Environment
  <2>1. UNCHANGED <<disk, lastFail, writeFails, evicted>>
    <3>1. CASE UNCHANGED vars \/ PollStep
      BY <3>1 DEF PollStep, WakeUp, ListRuns, ListRunsRaises, EndPass, MatchRuns,
         NextRepository, NextTarget, SkipRun, DetectRun, UnchangedOutsidePass, fileVars, vars
    <3>2. CASE StageStep
      BY <3>2 DEF StageStep, AssembleIncident, Diagnose, StageRaises, StartSend,
         SendWithoutGateway, SendDelivered, SendRefused, SendTimesOut, UnchangedInStage, fileVars
    <3>3. CASE Restart \/ RestartRaises \/ Environment
      BY <3>3 DEF Environment, Restart, RestartRaises, Tick, GatewayDies, Crash, CreateRun,
         CompleteRun, LateMessage, UnchangedInStage, fileVars, vars
    <3> QED
      BY <1>3, <3>1, <3>2, <3>3
  <2> QED
    BY <2>1 DEF BackoffInv, Waiting
<1> QED
  BY <1>1, <1>2, <1>3 DEF Next, AgentStep, HandlerStep, StageStep

(* A retry never starts before the backoff of the last recorded failure has *)
(* passed, restarts included, as long as the file could be written.         *)
THEOREM RetriesWaitOutBackoff == Spec => BackoffHonoured
<1>1. Init => BackoffInv
  BY DEF Init, BackoffInv
<1>2. TypeOK /\ FileInv /\ BackoffInv => RetriesWait
  <2> SUFFICES ASSUME TypeOK, FileInv, BackoffInv, NEW r \in Runs, DetectRun(r),
                      writeFails = 0, r \notin evicted, lastFail[r] # None
               PROVE  now >= lastFail[r] + Backoff(store.states[r].attempts)
    BY DEF RetriesWait
  <2>1. store = disk /\ r \notin SeenRuns(store) /\ ~InBackoff(store, r, now)
    BY DEF FileInv, DiskIsCurrent, DetectRun, ShouldProcess, RetryDecision, HasSeen
  <2>2. Waiting(store, r)
    BY <2>1 DEF BackoffInv
  <2>3. now \in Nat /\ store.states[r].nextRetry \in Nat
    BY <2>2 DEF TypeOK, Waiting
  <2>4. now >= store.states[r].nextRetry
    BY <2>1, <2>2, <2>3 DEF InBackoff, Waiting, None
  <2> QED
    BY <2>2, <2>4 DEF Waiting
<1> QED
  BY <1>1, <1>2, TypeCorrect, FileInvariant, BackoffStep, PTL DEF Spec, BackoffHonoured

=============================================================================
