--------------------------- MODULE LifecycleProofs ---------------------------
(***************************************************************************)
(* The triage agent implements RunLifecycle, for every value of the        *)
(* constants, as long as no write of state.json fails and no run is pushed *)
(* out of the seen list.                                                   *)
(***************************************************************************)
EXTENDS TriageAgentProofs

Undisturbed == writeFails = 0 /\ evicted = {}

(* The run in hand is open in the file.                                    *)
OpenInv == Undisturbed /\ pc \in TriageSteps => Outcome(cur) = "open"

LEMMA OutcomeCases ==
    ASSUME NEW r \in Runs, disk.states[r].status \in Statuses
    PROVE  /\ disk.states[r].status \in {"absent", "retry_scheduled"} => Outcome(r) = "open"
           /\ disk.states[r].status = "success" => Outcome(r) = "success"
           /\ disk.states[r].status = "seen_with_failure" => Outcome(r) = "gave_up"
  BY DEF Outcome, Statuses

(* A fault on record stays on record.                                      *)
LEMMA DisturbanceStays == TypeOK /\ [Next]_vars /\ Undisturbed' => Undisturbed
<1> SUFFICES ASSUME TypeOK, [Next]_vars, Undisturbed' PROVE Undisturbed
  OBVIOUS
<1> USE DEF Undisturbed
<1>1. writeFails \in Nat
  BY DEF TypeOK
<1>2. CASE MarkRunSeen
  BY <1>1, <1>2 DEF MarkRunSeen, WriteRaises
<1>3. CASE RecordFailure
  <2>1. evicted = {}
    BY <1>3 DEF RecordFailure
  <2>2. writeFails = 0
    BY <1>1, <1>3 DEF RecordFailure, WriteRaises
  <2> QED
    BY <2>1, <2>2
<1>4. CASE UNCHANGED vars \/ PollStep \/ StageStep \/ Restart \/ RestartRaises \/ Environment
  <2>1. CASE UNCHANGED vars \/ PollStep
    BY <2>1 DEF PollStep, WakeUp, ListRuns, ListRunsRaises, EndPass, MatchRuns, NextRepository,
       NextTarget, SkipRun, DetectRun, UnchangedOutsidePass, fileVars, vars
  <2>2. CASE StageStep
    BY <2>2 DEF StageStep, AssembleIncident, Diagnose, StageRaises, StartSend,
       SendWithoutGateway, SendDelivered, SendRefused, SendTimesOut, UnchangedInStage, fileVars
  <2>3. CASE Restart \/ RestartRaises \/ Environment
    BY <2>3 DEF Environment, Restart, RestartRaises, Tick, GatewayDies, Crash, CreateRun,
       CompleteRun, LateMessage, UnchangedInStage, fileVars, vars
  <2> QED
    BY <1>4, <2>1, <2>2, <2>3
<1> QED
  BY <1>2, <1>3, <1>4 DEF Next, AgentStep, HandlerStep, StageStep

(* What is taken up is not in the seen list, and every closed run is.      *)
LEMMA DetectedIsOpen ==
    ASSUME TypeOK, OutcomeInv, FileInv, Undisturbed, NEW r \in Runs, DetectRun(r)
    PROVE  Outcome(r) = "open"
<1>1. disk = store /\ r \notin SeenRuns(store)
  BY DEF FileInv, DiskIsCurrent, Undisturbed, DetectRun, ShouldProcess, RetryDecision, HasSeen
<1>2. disk.states[r].status \notin ClosedStatus
  BY <1>1 DEF OutcomeInv, OutcomeOK, Undisturbed
<1>3. disk.states[r].status \in Statuses
  BY DEF TypeOK, Store, RunState
<1> QED
  BY <1>2, <1>3, OutcomeCases DEF ClosedStatus, Statuses

LEMMA OpenStep == TypeOK /\ OutcomeInv /\ FileInv /\ OpenInv /\ [Next]_vars => OpenInv'
<1> SUFFICES ASSUME TypeOK, OutcomeInv, FileInv, OpenInv, [Next]_vars,
                    Undisturbed', pc' \in TriageSteps
             PROVE  Outcome(cur)' = "open"
  BY DEF OpenInv
<1>1. Undisturbed
  BY DisturbanceStays
<1>2. CASE PollStep
  <2>1. PICK r \in Runs : DetectRun(r)
    BY <1>2 DEF PollStep, WakeUp, ListRuns, ListRunsRaises, EndPass, MatchRuns, NextRepository,
       NextTarget, SkipRun, LeavePass, TriageSteps
  <2>2. cur' = r /\ disk' = disk
    BY <2>1 DEF DetectRun, UnchangedOutsidePass, fileVars
  <2> QED
    BY <1>1, <2>1, <2>2, DetectedIsOpen DEF Outcome
<1>3. CASE UNCHANGED vars \/ StageStep \/ Restart \/ RestartRaises \/ Environment
  <2>1. UNCHANGED <<disk, cur>> /\ pc \in TriageSteps
    <3>1. CASE UNCHANGED vars
      BY <3>1 DEF vars, fileVars
    <3>2. CASE StageStep
      BY <3>2 DEF StageStep, AssembleIncident, Diagnose, StageRaises, StartSend, TriageSteps,
         SendWithoutGateway, SendDelivered, SendRefused, SendTimesOut, UnchangedInStage, fileVars
    <3>3. CASE Restart \/ RestartRaises \/ Environment
      BY <3>3 DEF Environment, Restart, RestartRaises, Tick, GatewayDies, Crash, CreateRun,
         CompleteRun, LateMessage, UnchangedInStage, fileVars, vars, TriageSteps
    <3> QED
      BY <1>3, <3>1, <3>2, <3>3
  <2> QED
    BY <1>1, <2>1 DEF OpenInv, Outcome
<1>4. CASE MarkRunSeen
  <2>1. writeFails \in Nat /\ writeFails = 0 /\ writeFails' = 0
    BY <1>1 DEF TypeOK, Undisturbed
  <2> QED
    BY <1>4, <2>1 DEF MarkRunSeen, WriteRaises, TriageSteps
<1>5. CASE RecordFailure
  BY <1>5 DEF RecordFailure, LeavePass, TriageSteps
<1> QED
  BY <1>2, <1>3, <1>4, <1>5 DEF Next, AgentStep, HandlerStep, StageStep

LEMMA OpenInvariant == Spec => []OpenInv
<1>1. Init => OpenInv
  BY DEF Init, OpenInv, TriageSteps
<1> QED
  BY <1>1, OpenStep, TypeCorrect, OutcomeInvariant, FileInvariant, PTL DEF Spec

-----------------------------------------------------------------------------
(* The refinement, one abstract action at a time.  The mapping reads the    *)
(* image of the file only, so it is a function of that image.              *)

OutcomesOf(d) ==
    [r \in Runs |->
        CASE d.states[r].status = "success"           -> "success"
          [] d.states[r].status = "seen_with_failure" -> "gave_up"
          [] OTHER                                    -> "open"]

AttemptsOf(d) == [r \in Runs |-> d.states[r].attempts]

LEMMA MappedOutcomes ==
    /\ [r \in Runs |-> Outcome(r)] = OutcomesOf(disk)
    /\ [r \in Runs |-> Outcome(r)]' = OutcomesOf(disk')
  BY DEF Outcome, OutcomesOf

LEMMA LifecycleInit == Init => Lifecycle!Init
<1> SUFFICES ASSUME Init PROVE Lifecycle!Init
  OBVIOUS
<1>1. \A r \in Runs : Outcome(r) = "open" /\ disk.states[r].attempts = 0
  BY DEF Init, EmptyStore, NoState, Outcome
<1> QED
  BY <1>1 DEF Init, Lifecycle!Init

(* StartSend is Announce.                                                  *)
LEMMA StartSendAnnounces ==
    ASSUME TypeOK, OpenInv, Undisturbed, StartSend
    PROVE  Lifecycle!Announce(cur)
<1>1. Outcome(cur) = "open" /\ cur \in Runs
  BY DEF OpenInv, StartSend, TriageSteps, TypeOK
<1>2. sent' = [sent EXCEPT ![cur] = @ + 1] /\ UNCHANGED <<disk, posted>>
  BY DEF StartSend, UnchangedInStage, fileVars
<1> QED
  BY <1>1, <1>2 DEF Lifecycle!Announce, Outcome

(* SendDelivered and a late message that arrives are Arrive.               *)
LEMMA DeliveryArrives ==
    ASSUME TypeOK, NEW r \in Runs, posted[r] < sent[r],
           posted' = [posted EXCEPT ![r] = @ + 1], UNCHANGED <<disk, sent>>
    PROVE  Lifecycle!Arrive(r)
  BY DEF Lifecycle!Arrive, Outcome

LEMMA SendDeliveredArrives ==
    ASSUME TypeOK, MessageInv, SendDelivered
    PROVE  Lifecycle!Arrive(cur)
<1>1. cur \in Runs
  BY DEF SendDelivered, TriageSteps, TypeOK
<1>2. posted[cur] < sent[cur]
  BY <1>1, CountType DEF MessageInv, Delivered, SendDelivered
<1>3. posted' = [posted EXCEPT ![cur] = @ + 1] /\ UNCHANGED <<disk, sent>>
  BY DEF SendDelivered, UnchangedInStage, fileVars
<1> QED
  BY <1>1, <1>2, <1>3, DeliveryArrives

LEMMA LateMessageArrives ==
    ASSUME TypeOK, MessageInv, NEW r \in Runs, LateMessage(r), posted' # posted
    PROVE  Lifecycle!Arrive(r)
<1>1. posted[r] < sent[r]
  BY CountType DEF MessageInv, Delivered, LateMessage
<1>2. posted' = [posted EXCEPT ![r] = @ + 1] /\ UNCHANGED <<disk, sent>>
  BY DEF LateMessage, UnchangedInStage, fileVars
<1> QED
  BY <1>1, <1>2, DeliveryArrives

(* RecordFailure is Fail: the file had the count that memory had, one more  *)
(* failure is within the limit, and the last one closes the run.           *)
LEMMA RecordFailureFails ==
    ASSUME TypeOK, OutcomeInv, FileInv, OpenInv, Undisturbed, Undisturbed', RecordFailure,
           NEW r \in Runs, r = cur
    PROVE  Lifecycle!Fail(r)
<1>1. Outcome(r) = "open"
  BY DEF OpenInv, RecordFailure, TriageSteps
<1>2. disk = store /\ disk.states[r].attempts < MaxAttempts
  BY DEF FileInv, DiskIsCurrent, OutcomeInv, RecordFailure, TriageSteps, Undisturbed
<1>3. disk' = RecordFailedAttempt(disk, r, now)
  <2>1. writeFails = 0 /\ writeFails' = 0
    BY DEF Undisturbed
  <2> QED
    BY <1>2, <2>1 DEF RecordFailure, Write, WriteRaises
<1> DEFINE n == disk.states[r].attempts + 1
<1>4. disk'.states = [disk.states EXCEPT ![r] = FailedState(disk.states[r], now)]
  BY <1>3 DEF RecordFailedAttempt
<1>5. disk.states \in [Runs -> RunState] /\ disk.states[r].attempts \in Nat
  BY <1>1 DEF TypeOK, Store, RunState
<1>6. /\ disk'.states[r].attempts = n
      /\ disk'.states[r].status = IF Terminal(n) THEN "seen_with_failure" ELSE "retry_scheduled"
  BY <1>4, <1>5 DEF FailedState
<1>7. Terminal(n) <=> n = MaxAttempts
  BY <1>2, <1>5, MaxAttemptsAssumption DEF Terminal
<1>8. \A q \in Runs \ {r} : disk'.states[q] = disk.states[q]
  BY <1>4, <1>5
<1>9. UNCHANGED <<posted, sent>>
  BY DEF RecordFailure, UnchangedInRecord, discordVars
<1>10. AttemptsOf(disk') = [AttemptsOf(disk) EXCEPT ![r] = n]
  BY <1>1, <1>6, <1>8 DEF AttemptsOf
<1>11. OutcomesOf(disk') =
         [OutcomesOf(disk) EXCEPT ![r] = IF n = MaxAttempts THEN "gave_up" ELSE "open"]
  BY <1>1, <1>6, <1>7, <1>8 DEF OutcomesOf
<1>12. Lifecycle!Fail(r) <=>
         /\ Outcome(r) = "open" /\ disk.states[r].attempts < MaxAttempts
         /\ AttemptsOf(disk') = [AttemptsOf(disk) EXCEPT ![r] = @ + 1]
         /\ OutcomesOf(disk') =
              [OutcomesOf(disk) EXCEPT
                 ![r] = IF AttemptsOf(disk')[r] = MaxAttempts THEN "gave_up" ELSE "open"]
         /\ UNCHANGED <<posted, sent>>
  BY <1>1, MappedOutcomes DEF Lifecycle!Fail, AttemptsOf
<1>13. AttemptsOf(disk)[r] + 1 = n /\ AttemptsOf(disk')[r] = n
  BY <1>1, <1>6 DEF AttemptsOf
<1> QED
  BY <1>1, <1>2, <1>9, <1>10, <1>11, <1>12, <1>13

(* MarkRunSeen is Succeed: its message is in the channel.                  *)
LEMMA MarkRunSeenSucceeds ==
    ASSUME TypeOK, OutcomeInv, FileInv, OpenInv, Undisturbed, Undisturbed', MarkRunSeen
    PROVE  Lifecycle!Succeed(cur)
<1>1. Outcome(cur) = "open" /\ cur \in Runs /\ posted[cur] > 0
  BY DEF OpenInv, OutcomeInv, MarkRunSeen, TriageSteps, TypeOK
<1>2. disk = store
  BY DEF FileInv, DiskIsCurrent, MarkRunSeen, Undisturbed
<1>3. disk' = MarkSeen(disk, cur)
  <2>1. writeFails = 0 /\ writeFails' = 0
    BY DEF Undisturbed
  <2> QED
    BY <1>2, <2>1 DEF MarkRunSeen, Write, WriteRaises
<1>4. disk.states \in [Runs -> RunState]
  BY DEF TypeOK, Store
<1>5. disk'.states = [disk.states EXCEPT ![cur] = SuccessState(disk.states[cur])]
  BY <1>3 DEF MarkSeen
<1>6. /\ disk'.states[cur].status = "success"
      /\ disk'.states[cur].attempts = disk.states[cur].attempts
      /\ \A r \in Runs \ {cur} : disk'.states[r] = disk.states[r]
  BY <1>1, <1>4, <1>5 DEF SuccessState
<1>7. UNCHANGED <<posted, sent>>
  BY DEF MarkRunSeen, UnchangedInRecord, discordVars
<1>8. AttemptsOf(disk') = AttemptsOf(disk)
  BY <1>6 DEF AttemptsOf
<1>9. OutcomesOf(disk') = [OutcomesOf(disk) EXCEPT ![cur] = "success"]
  BY <1>1, <1>6 DEF OutcomesOf
<1>10. Lifecycle!Succeed(cur) <=>
         /\ Outcome(cur) = "open" /\ posted[cur] > 0
         /\ OutcomesOf(disk') = [OutcomesOf(disk) EXCEPT ![cur] = "success"]
         /\ UNCHANGED <<AttemptsOf(disk), posted, sent>>
  BY <1>1, MappedOutcomes DEF Lifecycle!Succeed, AttemptsOf
<1> QED
  BY <1>1, <1>7, <1>8, <1>9, <1>10

(* All other steps leave the file's outcomes and the messages alone.       *)
LEMMA Stutters ==
    ASSUME UNCHANGED <<disk, posted, sent>> PROVE UNCHANGED Lifecycle!vars
  BY DEF Lifecycle!vars, Outcome

LEMMA LifecycleStep ==
    ASSUME TypeOK, OutcomeInv, FileInv, MessageInv, OpenInv, Undisturbed, Undisturbed',
           [Next]_vars
    PROVE  [Lifecycle!Next]_(Lifecycle!vars)
<1>1. CASE StartSend
  BY <1>1, StartSendAnnounces DEF Lifecycle!Next, StartSend, TriageSteps, TypeOK
<1>2. CASE SendDelivered
  BY <1>2, SendDeliveredArrives DEF Lifecycle!Next, SendDelivered, TriageSteps, TypeOK
<1>3. ASSUME NEW r \in Runs, LateMessage(r) PROVE [Lifecycle!Next]_(Lifecycle!vars)
  <2>1. CASE posted' # posted
    BY <1>3, <2>1, LateMessageArrives DEF Lifecycle!Next
  <2>2. CASE posted' = posted
    <3>1. UNCHANGED <<disk, posted, sent>>
      BY <1>3, <2>2 DEF LateMessage, UnchangedInStage, fileVars
    <3> QED
      BY <3>1, Stutters
  <2> QED
    BY <2>1, <2>2
<1>4. CASE RecordFailure
  <2>1. cur \in Runs
    BY <1>4 DEF RecordFailure, TriageSteps, TypeOK
  <2>2. PICK r \in Runs : r = cur
    BY <2>1
  <2>3. Lifecycle!Fail(r)
    BY <1>4, <2>2, RecordFailureFails
  <2> QED
    BY <2>3 DEF Lifecycle!Next
<1>5. CASE MarkRunSeen
  <2>1. Lifecycle!Succeed(cur)
    BY <1>5, MarkRunSeenSucceeds
  <2>2. cur \in Runs
    BY <1>5 DEF MarkRunSeen, TriageSteps, TypeOK
  <2>3. \E r \in Runs : Lifecycle!Succeed(r)
    BY <2>1, <2>2
  <2> QED
    BY <2>3 DEF Lifecycle!Next
<1>6. ASSUME UNCHANGED <<disk, posted, sent>> PROVE [Lifecycle!Next]_(Lifecycle!vars)
  BY <1>6, Stutters
<1>7. CASE UNCHANGED vars \/ PollStep
  BY <1>6, <1>7 DEF PollStep, WakeUp, ListRuns, ListRunsRaises, EndPass, MatchRuns,
     NextRepository, NextTarget, SkipRun, DetectRun, UnchangedOutsidePass, fileVars,
     discordVars, vars
<1>8. CASE AssembleIncident \/ Diagnose \/ StageRaises \/ SendWithoutGateway \/ SendRefused
           \/ SendTimesOut
  BY <1>6, <1>8 DEF AssembleIncident, Diagnose, StageRaises, SendWithoutGateway, SendRefused,
     SendTimesOut, UnchangedInStage, fileVars, discordVars
<1>9. CASE Restart \/ RestartRaises \/ Tick \/ GatewayDies \/ Crash
           \/ \E r \in Runs : CreateRun(r) \/ CompleteRun(r)
  BY <1>6, <1>9 DEF Restart, RestartRaises, Tick, GatewayDies, Crash, CreateRun, CompleteRun,
     fileVars, discordVars, vars
<1> QED
  BY <1>1, <1>2, <1>3, <1>4, <1>5, <1>7, <1>8, <1>9
     DEF Next, AgentStep, HandlerStep, Environment

(* Whatever GitHub, Discord and crashes do, as long as the file can be     *)
(* written and no run is pushed out of the seen list, the file goes        *)
(* through the life of a run that RunLifecycle describes: it is announced  *)
(* only while open, succeeds only after a message arrived, is given up at  *)
(* the limit, and is never opened again.                                   *)
THEOREM UndisturbedLifecycle == Spec /\ []Undisturbed => ImplementsLifecycle
<1> DEFINE AbstractStep == [Lifecycle!Next]_(Lifecycle!vars)
<1>1. TypeOK /\ OutcomeInv /\ FileInv /\ MessageInv /\ OpenInv /\ Undisturbed /\ Undisturbed'
        /\ [Next]_vars => AbstractStep
  BY LifecycleStep
<1>2. ImplementsLifecycle <=> Lifecycle!Init /\ [][Lifecycle!Next]_(Lifecycle!vars)
  BY DEF ImplementsLifecycle, Lifecycle!Spec
<1> QED
  BY <1>1, <1>2, LifecycleInit, TypeCorrect, OutcomeInvariant, FileInvariant, MessageInvariant,
     OpenInvariant, PTL DEF Spec

-----------------------------------------------------------------------------
(* With room for every run the seen list never overflows: it has no         *)
(* duplicates, so it is as long as the set of its runs is large.           *)

Counted(s) == Len(s.seen) = Cardinality(SeenRuns(s))

LEMMA AddSeenCounted ==
    ASSUME NEW s \in Store, NEW r \in Runs, Counted(s), Cardinality(Runs) <= SeenCap
    PROVE  /\ PushedOut(s, r) = {}
           /\ Len(AddSeen(s, r)) = Cardinality({AddSeen(s, r)[i] : i \in 1 .. Len(AddSeen(s, r))})
<1>1. s.seen \in Seq(Runs) /\ SeenRuns(s) \subseteq Runs
  BY DEF Store, SeenRuns
<1>2. IsFiniteSet(SeenRuns(s))
  BY <1>1, RunsAssumption, FS_Subset
<1>3. CASE HasSeen(s, r)
  <2>1. AddSeen(s, r) = s.seen
    BY <1>3 DEF AddSeen
  <2> QED
    BY <1>3, <2>1 DEF Counted, PushedOut, SeenRuns, HasSeen
<1>4. CASE ~HasSeen(s, r)
  <2> DEFINE ids == Append(s.seen, r)
             members == {ids[i] : i \in 1 .. Len(ids)}
  <2>1. Len(ids) = Len(s.seen) + 1 /\ members = SeenRuns(s) \cup {r}
    <3>1. /\ Len(ids) = Len(s.seen) + 1 /\ Len(s.seen) \in Nat
          /\ ids[Len(s.seen) + 1] = r
          /\ \A i \in 1 .. Len(s.seen) : ids[i] = s.seen[i]
      BY <1>1
    <3> HIDE DEF ids
    <3> QED
      BY <3>1 DEF SeenRuns
  <2>2. Cardinality(members) = Cardinality(SeenRuns(s)) + 1
    BY <1>2, <1>4, <2>1, FS_AddElement DEF HasSeen
  <2>3. Cardinality(members) <= Cardinality(Runs)
    BY <1>1, <2>1, RunsAssumption, FS_Subset
  <2>4. Len(ids) = Cardinality(members)
    BY <2>1, <2>2 DEF Counted
  <2>5. Cardinality(Runs) \in Nat /\ SeenCap \in Nat /\ Len(ids) \in Nat
    BY <1>1, RunsAssumption, FS_CardinalityType, SeenCapAssumption
  <2> HIDE DEF members
  <2>6. Len(ids) <= SeenCap
    BY <2>3, <2>4, <2>5
  <2>7. AddSeen(s, r) = ids
    BY <1>4, <2>6 DEF AddSeen, Newest
  <2> HIDE DEF ids
  <2> QED
    BY <2>1, <2>4, <2>7 DEF PushedOut, members
<1> QED
  BY <1>3, <1>4

RoomInv == evicted = {} /\ Counted(store) /\ Counted(disk)

LEMMA EmptyCounted == Counted(EmptyStore)
<1>1. SeenRuns(EmptyStore) = {}
  BY EmptyStoreType DEF SeenRuns
<1> QED
  BY <1>1, EmptyStoreType, FS_EmptySet DEF Counted

LEMMA MarkSeenCounted ==
    ASSUME NEW s \in Store, NEW r \in Runs, Counted(s), Cardinality(Runs) <= SeenCap
    PROVE  PushedOut(s, r) = {} /\ Counted(MarkSeen(s, r))
<1>1. MarkSeen(s, r).seen = AddSeen(s, r)
  BY DEF MarkSeen
<1> QED
  BY <1>1, AddSeenCounted DEF Counted, SeenRuns

LEMMA RecordFailedCounted ==
    ASSUME NEW s \in Store, NEW r \in Runs, NEW t, Counted(s), Cardinality(Runs) <= SeenCap
    PROVE  PushedOut(s, r) = {} /\ Counted(RecordFailedAttempt(s, r, t))
<1>1. RecordFailedAttempt(s, r, t).seen
        = IF Terminal(s.states[r].attempts + 1) THEN AddSeen(s, r) ELSE s.seen
  BY DEF RecordFailedAttempt
<1> QED
  BY <1>1, AddSeenCounted DEF Counted, SeenRuns

LEMMA RoomStep ==
    ASSUME Cardinality(Runs) <= SeenCap, TypeOK, RoomInv, [Next]_vars PROVE RoomInv'
<1>1. CASE MarkRunSeen
  <2>1. cur \in Runs /\ store \in Store
    BY <1>1 DEF TypeOK, MarkRunSeen, TriageSteps
  <2>2. PushedOut(store, cur) = {} /\ Counted(MarkSeen(store, cur))
    BY <2>1, MarkSeenCounted DEF RoomInv
  <2>3. /\ store' = MarkSeen(store, cur) /\ evicted' = evicted \cup PushedOut(store, cur)
        /\ disk' = store' \/ disk' = disk
    BY <1>1 DEF MarkRunSeen, Write, WriteRaises
  <2> QED
    BY <2>2, <2>3 DEF RoomInv, Counted
<1>2. CASE RecordFailure
  <2>1. cur \in Runs /\ store \in Store
    BY <1>2 DEF TypeOK, RecordFailure, TriageSteps
  <2>2. PushedOut(store, cur) = {} /\ Counted(RecordFailedAttempt(store, cur, now))
    BY <2>1, RecordFailedCounted DEF RoomInv
  <2>3. /\ store' = RecordFailedAttempt(store, cur, now)
        /\ evicted' = evicted \/ evicted' = evicted \cup PushedOut(store, cur)
        /\ disk' = store' \/ disk' = disk
    BY <1>2 DEF RecordFailure, Write, WriteRaises
  <2> QED
    BY <2>2, <2>3 DEF RoomInv, Counted
<1>3. CASE UNCHANGED vars \/ PollStep \/ StageStep \/ Restart \/ RestartRaises \/ Environment
  <2>1. UNCHANGED <<disk, evicted>> /\ store' \in {store, disk, EmptyStore}
    <3>1. CASE UNCHANGED vars \/ PollStep
      BY <3>1 DEF PollStep, WakeUp, ListRuns, ListRunsRaises, EndPass, MatchRuns,
         NextRepository, NextTarget, SkipRun, DetectRun, UnchangedOutsidePass, fileVars, vars
    <3>2. CASE StageStep
      BY <3>2 DEF StageStep, AssembleIncident, Diagnose, StageRaises, StartSend,
         SendWithoutGateway, SendDelivered, SendRefused, SendTimesOut, UnchangedInStage, fileVars
    <3>3. CASE Restart \/ RestartRaises \/ Environment
      BY <3>3 DEF Environment, Restart, RestartRaises, Tick, GatewayDies, Crash, CreateRun,
         CompleteRun, LateMessage, UnchangedInStage, fileVars, vars
    <3> QED
      BY <1>3, <3>1, <3>2, <3>3
  <2> QED
    BY <2>1, EmptyCounted DEF RoomInv, Counted
<1> QED
  BY <1>1, <1>2, <1>3 DEF Next, AgentStep, HandlerStep, StageStep

LEMMA NothingEvicted ==
    ASSUME Cardinality(Runs) <= SeenCap PROVE Spec => []RoomInv
<1>1. Init => RoomInv
  BY EmptyCounted DEF Init, RoomInv
<1>2. TypeOK /\ RoomInv /\ [Next]_vars => RoomInv'
  BY RoomStep
<1> QED
  BY <1>1, <1>2, TypeCorrect, PTL DEF Spec

WritesReturn == writeFails = 0

LEMMA NoWriteFails ==
    ASSUME MaxWriteFails = 0 PROVE Spec => []WritesReturn
<1>1. Init => WritesReturn
  BY DEF Init, WritesReturn
<1>2. TypeOK /\ WritesReturn /\ [Next]_vars => WritesReturn'
  <2> SUFFICES ASSUME TypeOK, writeFails = 0, [Next]_vars PROVE writeFails' = 0
    BY DEF WritesReturn
  <2>1. CASE MarkRunSeen \/ RecordFailure
    BY <2>1 DEF MarkRunSeen, RecordFailure, WriteRaises
  <2>2. CASE UNCHANGED vars \/ PollStep
    BY <2>2 DEF PollStep, WakeUp, ListRuns, ListRunsRaises, EndPass, MatchRuns,
       NextRepository, NextTarget, SkipRun, DetectRun, UnchangedOutsidePass, fileVars, vars
  <2>3. CASE StageStep
    BY <2>3 DEF StageStep, AssembleIncident, Diagnose, StageRaises, StartSend,
       SendWithoutGateway, SendDelivered, SendRefused, SendTimesOut, UnchangedInStage, fileVars
  <2>4. CASE Restart \/ RestartRaises \/ Environment
    BY <2>4 DEF Environment, Restart, RestartRaises, Tick, GatewayDies, Crash, CreateRun,
       CompleteRun, LateMessage, UnchangedInStage, fileVars, vars
  <2> QED
    BY <2>1, <2>2, <2>3, <2>4 DEF Next, AgentStep, HandlerStep, StageStep
<1> QED
  BY <1>1, <1>2, TypeCorrect, PTL DEF Spec

(* ImplementsLifecycle from the configuration alone: a seen list with room  *)
(* for every run, and writes of state.json that succeed.                   *)
THEOREM AgentImplementsLifecycle ==
    ASSUME MaxWriteFails = 0, Cardinality(Runs) <= SeenCap
    PROVE  Spec => ImplementsLifecycle
<1>1. RoomInv /\ WritesReturn => Undisturbed
  BY DEF RoomInv, WritesReturn, Undisturbed
<1> QED
  BY <1>1, NothingEvicted, NoWriteFails, UndisturbedLifecycle, PTL

=============================================================================
