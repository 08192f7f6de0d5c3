---------------------- MODULE IncidentWorkspacesProofs ----------------------
(***************************************************************************)
(* Theorems of IncidentWorkspaces, for any number of runs, worker threads, *)
(* restarts, any limits of count and age, and any end of the clock.        *)
(***************************************************************************)
EXTENDS IncidentWorkspaces, NaturalLemmas, FiniteSetTheorems, TLAPS

LEMMA PollerIsThread == Poller \in Threads
BY DEF Threads

(* A conversation is about a run.                                          *)
ConversationInv == pc[Poller] = "conversation" <=> current # NoRun

(* A step of the agent keeps the types of all variables.                   *)
LEMMA TypeStep == TypeOK /\ ConversationInv /\ [Next]_vars => TypeOK' /\ ConversationInv'
<1> SUFFICES ASSUME TypeOK, ConversationInv, [Next]_vars PROVE TypeOK' /\ ConversationInv'
  OBVIOUS
<1> USE WorkspacesAssumption, PollerIsThread DEF TypeOK, ConversationInv, dirVars, pruneVars, Goto
<1>1. CASE UNCHANGED vars
  BY <1>1 DEF vars
<1>2. ASSUME NEW i \in Runs, StartDiagnosis(i) PROVE TypeOK' /\ ConversationInv'
  BY <1>2 DEF StartDiagnosis, Touch
<1>3. CASE WriteDiagnosis
  BY <1>3 DEF WriteDiagnosis, Touch
<1>4. CASE FinishDiagnosis \/ DiagnosisRaises
  BY <1>4 DEF FinishDiagnosis, DiagnosisRaises
<1>5. ASSUME NEW t \in Threads, OperatorReplyEnds(t) PROVE TypeOK' /\ ConversationInv'
  BY <1>5 DEF OperatorReplyEnds
<1>6. ASSUME NEW t \in Threads, ListWorkspaces(t) PROVE TypeOK' /\ ConversationInv'
  BY <1>6 DEF ListWorkspaces, Kept
<1>7. ASSUME NEW t \in Threads, RemoveWorkspace(t) PROVE TypeOK' /\ ConversationInv'
  BY <1>7 DEF RemoveWorkspace, Rmtree
<1>8. ASSUME NEW t \in Threads, EndPruning(t) PROVE TypeOK' /\ ConversationInv'
  BY <1>8 DEF EndPruning
<1>9. CASE DayPasses
  BY <1>9 DEF DayPasses
<1>10. CASE Restart
  <2>1. /\ pc' \in [Threads -> {"idle", "conversation", "prune", "remove"}]
        /\ pc'[Poller] = "prune"
    BY <1>10 DEF Restart
  <2>2. /\ victims' \in [Threads -> SUBSET Runs] /\ kept' \in [Threads -> SUBSET Runs]
        /\ since' \in [Threads -> SUBSET Runs]
    BY <1>10 DEF Restart
  <2>3. restarts' \in 0..MaxRestarts
    BY <1>10 DEF Restart
  <2> QED
    BY <1>10, <2>1, <2>2, <2>3 DEF Restart
<1> QED
  BY <1>1, <1>2, <1>3, <1>4, <1>5, <1>6, <1>7, <1>8, <1>9, <1>10 DEF Next

LEMMA TypeInvariant == Spec => [](TypeOK /\ ConversationInv)
<1>1. Init => TypeOK /\ ConversationInv
  <2> SUFFICES ASSUME Init PROVE TypeOK /\ ConversationInv
    OBVIOUS
  <2> USE WorkspacesAssumption, PollerIsThread DEF Init
  <2>1. /\ pc \in [Threads -> {"idle", "conversation", "prune", "remove"}]
        /\ pc[Poller] = "prune"
    OBVIOUS
  <2>2. /\ victims \in [Threads -> SUBSET Runs] /\ kept \in [Threads -> SUBSET Runs]
        /\ since \in [Threads -> SUBSET Runs]
    OBVIOUS
  <2>3. now \in 0..LastTime /\ restarts \in 0..MaxRestarts /\ mtime \in [Runs -> 0..LastTime]
    OBVIOUS
  <2> QED
    BY <2>1, <2>2, <2>3 DEF TypeOK, ConversationInv
<1> QED
  BY <1>1, TypeStep, PTL DEF Spec

(* Clock, directories, threads and histories keep their types, and what a  *)
(* thread will remove or keep are workspaces.                              *)
THEOREM WorkspacesTypeCorrect == Spec => []TypeOK
BY TypeInvariant, PTL

-----------------------------------------------------------------------------
(* Retention *)

(* No two workspaces are of one age.                                       *)
TimesInv ==
    /\ \A i \in dirs : mtime[i] <= now
    /\ \A i, j \in dirs : mtime[i] = mtime[j] => i = j

(* The pruning keeps MaxCount workspaces at most.                          *)
LEMMA KeptBounded ==
    ASSUME TypeOK, TimesInv
    PROVE  Kept \subseteq dirs /\ Cardinality(Kept) <= MaxCount
<1> USE WorkspacesAssumption
<1>1. Kept \subseteq dirs /\ IsFiniteSet(Kept)
  BY FS_Subset DEF Kept, TypeOK
<1>2. CASE Kept = {}
  BY <1>1, <1>2, FS_EmptySet
<1>3. CASE Kept # {}
  <2> DEFINE times == {mtime[i] : i \in Kept}
  <2>1. times \subseteq Nat /\ times # {}
    BY <1>1, <1>3 DEF TypeOK
  <2>2. PICK i \in Kept : \A j \in Kept : mtime[i] <= mtime[j]
    <3>1. PICK m \in times : \A n \in times : m <= n
      BY <2>1, LeastNatural
    <3> QED
      BY <3>1
  <2> DEFINE newer == {j \in Ahead(i) : Young(j)}
  <2>3. IsFiniteSet(newer) /\ Cardinality(newer) \in Nat /\ Cardinality(newer) < MaxCount
    BY <2>2, FS_Subset, FS_CardinalityType DEF Kept, Ahead, TypeOK
  <2>4. Kept \ {i} \subseteq newer
    <3> SUFFICES ASSUME NEW j \in Kept \ {i} PROVE j \in newer
      OBVIOUS
    <3>1. mtime[i] <= mtime[j] /\ mtime[i] # mtime[j] /\ mtime[i] \in Nat /\ mtime[j] \in Nat
      BY <1>1, <2>2 DEF TimesInv, TypeOK
    <3> QED
      BY <3>1 DEF Kept, Ahead
  <2>5. Cardinality(Kept \ {i}) = Cardinality(Kept) - 1
    BY <1>1, <2>2, FS_RemoveElement
  <2>6. Cardinality(Kept \ {i}) <= Cardinality(newer)
    BY <2>3, <2>4, FS_Subset
  <2>7. Cardinality(Kept) \in Nat
    BY <1>1, FS_CardinalityType
  <2> HIDE DEF newer
  <2> QED
    BY <1>1, <2>3, <2>5, <2>6, <2>7
<1> QED
  BY <1>2, <1>3

(* What a thread saw when it listed, what it has not removed yet and what  *)
(* was made since are all there is.                                        *)
ListInv ==
    \A t \in Threads :
        IF pc[t] = "remove"
        THEN /\ dirs \subseteq kept[t] \cup victims[t] \cup since[t]
             /\ Cardinality(kept[t]) <= MaxCount
        ELSE victims[t] = {}

RetentionInv == TimesInv /\ ListInv /\ WorkspacesBounded

(* A file is created in a workspace: no age is taken twice, and a new      *)
(* workspace is in every history.                                          *)
LEMMA RetentionTouch ==
    ASSUME TypeOK, RetentionInv, NEW i \in Runs, Touch(i),
           UNCHANGED <<victims, kept, lastKept>>,
           \A t \in Threads : pc'[t] = "remove" <=> pc[t] = "remove"
    PROVE  RetentionInv'
<1> USE WorkspacesAssumption DEF RetentionInv, TypeOK
<1>1. TimesInv'
  BY DEF TimesInv, Touch
<1>2. dirs' = dirs \cup {i} /\ (i \notin dirs => i \in sinceLast') /\ sinceLast \subseteq sinceLast'
  BY DEF Touch
<1>3. WorkspacesBounded'
  BY <1>2 DEF WorkspacesBounded
<1>4. \A t \in Threads : pc[t] = "remove" =>
          (i \notin dirs => i \in since'[t]) /\ since[t] \subseteq since'[t]
  BY DEF Touch
<1>5. ListInv'
  BY <1>2, <1>4 DEF ListInv
<1> QED
  BY <1>1, <1>3, <1>5

LEMMA RetentionStep ==
    TypeOK /\ ConversationInv /\ RetentionInv /\ [Next]_vars => RetentionInv'
<1> SUFFICES ASSUME TypeOK, ConversationInv, RetentionInv, [Next]_vars PROVE RetentionInv'
  OBVIOUS
<1> USE WorkspacesAssumption
    DEF RetentionInv, TimesInv, ListInv, WorkspacesBounded, dirVars, pruneVars, Goto
<1>1. CASE UNCHANGED vars
  BY <1>1 DEF vars
<1>2. ASSUME NEW i \in Runs, StartDiagnosis(i) PROVE RetentionInv'
  <2>1. /\ \A t \in Threads : pc'[t] = "remove" <=> pc[t] = "remove"
        /\ UNCHANGED <<victims, kept, lastKept>>
    BY <1>2 DEF StartDiagnosis, TypeOK
  <2>2. CASE Touch(i)
    BY <2>1, <2>2, RetentionTouch
  <2>3. CASE UNCHANGED <<now, dirs, mtime, since, sinceLast>>
    BY <2>1, <2>3
  <2> QED
    BY <1>2, <2>2, <2>3 DEF StartDiagnosis
<1>3. CASE WriteDiagnosis
  <2>1. current \in Runs /\ Touch(current) /\ UNCHANGED <<pc, victims, kept, lastKept>>
    BY <1>3 DEF WriteDiagnosis, TypeOK, ConversationInv
  <2> QED
    BY <2>1, RetentionTouch
<1>4. CASE FinishDiagnosis \/ DiagnosisRaises
  BY <1>4 DEF FinishDiagnosis, DiagnosisRaises, TypeOK
<1>5. ASSUME NEW t \in Threads, OperatorReplyEnds(t) PROVE RetentionInv'
  BY <1>5 DEF OperatorReplyEnds, TypeOK
<1>6. ASSUME NEW t \in Threads, ListWorkspaces(t) PROVE RetentionInv'
  <2>1. /\ kept'[t] = Kept /\ victims'[t] = dirs \ Kept
        /\ \A u \in Threads \ {t} : kept'[u] = kept[u] /\ victims'[u] = victims[u]
                                    /\ since'[u] = since[u] /\ pc'[u] = pc[u]
        /\ UNCHANGED <<now, dirs, mtime, lastKept, sinceLast>>
    BY <1>6 DEF ListWorkspaces, TypeOK
  <2>2. pc'[t] = "remove"
    BY <1>6 DEF ListWorkspaces, TypeOK
  <2> QED
    BY <2>1, <2>2, KeptBounded
<1>7. ASSUME NEW t \in Threads, RemoveWorkspace(t) PROVE RetentionInv'
  <2>1. PICK i \in victims[t] : victims' = [victims EXCEPT ![t] = @ \ {i}] /\ dirs' = dirs \ {i}
    BY <1>7 DEF RemoveWorkspace, Rmtree
  <2>2. /\ victims'[t] = victims[t] \ {i} /\ pc[t] = "remove"
        /\ \A u \in Threads \ {t} : victims'[u] = victims[u]
        /\ UNCHANGED <<now, mtime, pc, kept, since, lastKept, sinceLast>>
    BY <1>7, <2>1 DEF RemoveWorkspace, TypeOK
  <2> QED
    BY <2>1, <2>2
<1>8. ASSUME NEW t \in Threads, EndPruning(t) PROVE RetentionInv'
  <2>1. /\ pc[t] = "remove" /\ victims[t] = {} /\ pc'[t] = "idle"
        /\ lastKept' = kept[t] /\ sinceLast' = since[t]
        /\ \A u \in Threads \ {t} : kept'[u] = kept[u] /\ since'[u] = since[u] /\ pc'[u] = pc[u]
        /\ UNCHANGED <<now, dirs, mtime, victims>>
    BY <1>8 DEF EndPruning, TypeOK
  <2> QED
    BY <2>1
<1>9. CASE DayPasses
  BY <1>9 DEF DayPasses, TypeOK
<1>10. CASE Restart
  BY <1>10 DEF Restart, TypeOK
<1> QED
  BY <1>1, <1>2, <1>3, <1>4, <1>5, <1>6, <1>7, <1>8, <1>9, <1>10 DEF Next

(* Beyond MaxCount there are only workspaces made since the last pruning   *)
(* that ended took its list.                                               *)
THEOREM WorkspacesStayBounded == Spec => []WorkspacesBounded
<1>1. Init => RetentionInv
  BY WorkspacesAssumption, FS_EmptySet DEF Init, RetentionInv, TimesInv, ListInv, WorkspacesBounded, Threads
<1>2. RetentionInv => WorkspacesBounded
  BY DEF RetentionInv
<1> QED
  BY <1>1, <1>2, RetentionStep, TypeInvariant, PTL DEF Spec

-----------------------------------------------------------------------------
(* The workspace of the running diagnosis *)

(* A workspace that the running diagnosis made is the newest of all, and   *)
(* only excused threads have it among those to remove.                     *)
NewestInv ==
    pc[Poller] = "conversation" /\ fresh =>
        /\ \A i \in dirs : mtime[i] <= mtime[current]
        /\ \A t \in Threads : current \in victims[t] => t \in excused

(* The newest workspace is kept by a pruning unless it is past MaxAge.     *)
LEMMA NewestIsKept ==
    ASSUME TypeOK, NEW i \in dirs, Young(i), \A j \in dirs : mtime[j] <= mtime[i]
    PROVE  i \in Kept
<1>1. {j \in Ahead(i) : Young(j)} = {}
  BY DEF Ahead, TypeOK
<1> QED
  BY <1>1, FS_EmptySet, WorkspacesAssumption DEF Kept

LEMMA NewestStep ==
    TypeOK /\ ConversationInv /\ RetentionInv /\ NewestInv /\ [Next]_vars => NewestInv'
<1> SUFFICES ASSUME TypeOK, ConversationInv, RetentionInv, NewestInv, [Next]_vars,
                    pc'[Poller] = "conversation", fresh'
             PROVE  /\ \A i \in dirs' : mtime'[i] <= mtime'[current']
                    /\ \A t \in Threads : current' \in victims'[t] => t \in excused'
  BY DEF NewestInv
<1> USE WorkspacesAssumption DEF NewestInv, dirVars, pruneVars, Goto
<1> DEFINE Goal == /\ \A i \in dirs' : mtime'[i] <= mtime'[current']
                   /\ \A t \in Threads : current' \in victims'[t] => t \in excused'
<1>1. CASE UNCHANGED vars
  BY <1>1 DEF vars
<1>2. ASSUME NEW i \in Runs, StartDiagnosis(i) PROVE Goal
  <2>1. i \notin dirs /\ Touch(i) /\ current' = i
    BY <1>2 DEF StartDiagnosis
  <2>2. \A t \in Threads : t \notin excused' => victims'[t] = {}
    BY <1>2 DEF StartDiagnosis, RetentionInv, ListInv
  <2> QED
    BY <2>1, <2>2 DEF Touch, RetentionInv, TimesInv, TypeOK
<1>3. CASE WriteDiagnosis
  <2>1. current \in Runs
    BY <1>3 DEF TypeOK, ConversationInv, WriteDiagnosis
  <2> QED
    BY <1>3, <2>1 DEF WriteDiagnosis, Touch, RetentionInv, TimesInv, TypeOK
<1>4. CASE FinishDiagnosis \/ DiagnosisRaises
  BY <1>4 DEF FinishDiagnosis, DiagnosisRaises, TypeOK, Threads
<1>5. ASSUME NEW t \in Threads, OperatorReplyEnds(t) PROVE Goal
  BY <1>5 DEF OperatorReplyEnds, TypeOK, Threads
<1>6. ASSUME NEW t \in Threads, ListWorkspaces(t) PROVE Goal
  <2>1. /\ pc[Poller] = "conversation" /\ fresh
        /\ UNCHANGED <<dirs, mtime, current>> /\ excused \subseteq excused'
        /\ victims'[t] = dirs \ Kept
        /\ \A u \in Threads \ {t} : victims'[u] = victims[u]
    BY <1>6 DEF ListWorkspaces, TypeOK, Threads
  <2>2. current # NoRun /\ (Young(current) \/ t \in excused')
    BY <1>6, <2>1 DEF ListWorkspaces, ConversationInv
  <2>3. current \in dirs /\ Young(current) => current \in Kept
    BY <2>1, NewestIsKept
  <2> QED
    BY <2>1, <2>2, <2>3
<1>7. ASSUME NEW t \in Threads, RemoveWorkspace(t) PROVE Goal
  BY <1>7 DEF RemoveWorkspace, Rmtree, TypeOK
<1>8. ASSUME NEW t \in Threads, EndPruning(t) PROVE Goal
  BY <1>8 DEF EndPruning, TypeOK, Threads
<1>9. CASE DayPasses
  BY <1>9 DEF DayPasses
<1>10. CASE Restart
  BY <1>10 DEF Restart, Threads
<1> QED
  BY <1>1, <1>2, <1>3, <1>4, <1>5, <1>6, <1>7, <1>8, <1>9, <1>10 DEF Next

(* A workspace under a running conversation is removed only by a thread    *)
(* that listed before the diagnosis began or when it was past MaxAge, or   *)
(* if an earlier attempt made it.                                          *)
THEOREM RunningWorkspaceStays == Spec => RunningWorkspaceIsKept
<1> DEFINE Step ==
      \A t \in Threads :
         pc[Poller] = "conversation" /\ current \in victims[t] \ victims'[t] /\ restarts' = restarts =>
             t \in excused \/ ~fresh
<1>1. Init => RetentionInv /\ NewestInv
  BY WorkspacesAssumption, FS_EmptySet
  DEF Init, RetentionInv, TimesInv, ListInv, WorkspacesBounded, NewestInv, Threads
<1>2. NewestInv => Step
  BY DEF NewestInv
<1>3. Spec => [](RetentionInv /\ NewestInv)
  BY <1>1, RetentionStep, NewestStep, TypeInvariant, PTL DEF Spec
<1>4. RunningWorkspaceIsKept <=> [][Step]_vars
  BY DEF RunningWorkspaceIsKept
<1> HIDE DEF Step
<1> QED
  BY <1>2, <1>3, <1>4, PTL

=============================================================================
