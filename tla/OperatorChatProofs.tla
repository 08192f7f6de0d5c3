------------------------ MODULE OperatorChatProofs ------------------------
(***************************************************************************)
(* Theorems of OperatorChat, for any number of messages, channels, threads *)
(* of the executor, any budget and any set of steps that raise.            *)
(***************************************************************************)
EXTENDS OperatorChat, FiniteSetTheorems, TLAPS

(* One step of the chat keeps the types of all variables.                  *)
LEMMA TypeStep == TypeOK /\ [Next]_vars => TypeOK'
<1> SUFFICES ASSUME TypeOK, [Next]_vars
             PROVE  TypeOK'
  OBVIOUS
<1> USE NamesAssumption, ChannelsAssumption, BudgetAssumption
<1>1. CASE UNCHANGED vars
  BY <1>1 DEF TypeOK, vars
<1>2. ASSUME NEW m \in Messages, Receive(m) PROVE TypeOK'
  BY <1>2 DEF Receive, Goto, UnchangedFiles, TypeOK, Threads
<1>3. ASSUME NEW m \in Messages, WriteReply(m) PROVE TypeOK'
  BY <1>3 DEF WriteReply, ConversationKey, TypeOK
<1>4. ASSUME NEW m \in Messages, WorkerRaises(m) PROVE TypeOK'
  BY <1>4 DEF WorkerRaises, Goto, UnchangedFiles, TypeOK, Threads, WorkerSteps
<1>5. ASSUME NEW m \in Messages,
             StartWorker(m) \/ Converse(m) \/ FinishConversation(m) \/ EndSweep(m)
      PROVE  TypeOK'
  BY <1>5 DEF StartWorker, Converse, FinishConversation, EndSweep, Goto, UnchangedFiles,
              TypeOK, Threads, WorkerSteps
<1>6. ASSUME NEW m \in Messages, AppendPrompt(m) \/ AppendAnswer(m) PROVE TypeOK'
  BY <1>6 DEF AppendPrompt, AppendAnswer, AppendHistory, ConversationKey, Goto,
              TypeOK, Threads, WorkerSteps
<1>7. ASSUME NEW m \in Messages, ReadReply(m) PROVE TypeOK'
  BY <1>7 DEF ReadReply, ConversationKey, Histories, Goto, TypeOK, Threads, WorkerSteps
<1>8. ASSUME NEW m \in Messages, StartSweep(m) PROVE TypeOK'
  BY <1>8 DEF StartSweep, Histories, Goto, TypeOK, Threads, WorkerSteps
<1>9. ASSUME NEW m \in Messages, Deliver(m) \/ Excuse(m) PROVE TypeOK'
  BY <1>9 DEF Deliver, Excuse, Goto, UnchangedFiles, TypeOK, Threads
<1>10. ASSUME NEW t \in Threads, Trim(t) PROVE TypeOK'
  <2>1. CASE TrimRead(t)
    BY <2>1 DEF TrimRead, UnchangedInTrim, TypeOK
  <2>2. CASE TrimWrite(t)
    BY <2>2 DEF TrimWrite, UnchangedInTrim, TypeOK
  <2>3. CASE SweepNext(t)
    <3>1. PICK c \in todo[t] :
            /\ todo' = [todo EXCEPT ![t] = @ \ {c}]
            /\ IF Oversize(c)
               THEN cutting' = cutting \cup {t} /\ trimOf' = [trimOf EXCEPT ![t] = c]
               ELSE UNCHANGED <<cutting, trimOf>>
      BY <2>3 DEF SweepNext
    <3>2. c \in Channels
      BY <3>1 DEF TypeOK
    <3> QED
      BY <2>3, <3>1, <3>2 DEF SweepNext, TypeOK
  <2> QED
    BY <1>10, <2>1, <2>2, <2>3 DEF Trim
<1>11. CASE PollerSweeps
  BY <1>11 DEF PollerSweeps, Histories, Goto, TypeOK, Threads, WorkerSteps
<1> QED
  BY <1>1, <1>2, <1>3, <1>4, <1>5, <1>6, <1>7, <1>8, <1>9, <1>10, <1>11
  DEF Next, WorkerStep, Threads

(* Every variable keeps its type.                                          *)
THEOREM ChatTypeCorrect == Spec => []TypeOK
<1>1. Init => TypeOK
  BY NamesAssumption DEF Init, TypeOK, Threads
<1> QED
  BY <1>1, TypeStep, PTL DEF Spec

-----------------------------------------------------------------------------
(* Pending threads are counted by a natural number.                        *)
LEMMA PendingFinite ==
    \A c \in Channels : IsFiniteSet(Pending(c)) /\ Cardinality(Pending(c)) \in Nat
<1> TAKE c \in Channels
<1>1. Pending(c) \in SUBSET Messages
  BY DEF Pending
<1> QED
  BY <1>1, NamesAssumption, FS_Subset, FS_CardinalityType

(* A step that changes neither the histories nor who is pending.           *)
LEMMA PendingUnchanged ==
    ASSUME HistoryBounded, UNCHANGED history, \A c \in Channels : Pending(c)' = Pending(c)
    PROVE  HistoryBounded'
BY DEF HistoryBounded

(* An append adds one entry and its own thread to those about to trim.     *)
LEMMA AppendStep ==
    ASSUME TypeOK, HistoryBounded, NEW m \in Messages, AppendPrompt(m) \/ AppendAnswer(m)
    PROVE  HistoryBounded'
<1> DEFINE d == ConversationKey(m)
<1>1. /\ m \in Threads /\ d \in Channels
      /\ pc[m] \in {"prompt", "answer"}
      /\ \E to \in {"prompted", "answered"} : pc' = [pc EXCEPT ![m] = to]
      /\ history' = [history EXCEPT ![d] = @ + 1]
      /\ trimOf' = [trimOf EXCEPT ![m] = d]
  BY ChannelsAssumption
  DEF AppendPrompt, AppendAnswer, AppendHistory, Goto, Threads, ConversationKey
<1> HIDE DEF d
<1>2. \A t \in Messages :
        /\ pc'[t] = IF t = m THEN pc'[m] ELSE pc[t]
        /\ trimOf'[t] = IF t = m THEN d ELSE trimOf[t]
        /\ pc'[m] \in {"prompted", "answered"}
  BY <1>1 DEF TypeOK, Threads
<1>3. Pending(d)' = Pending(d) \cup {m} /\ m \notin Pending(d)
  BY <1>1, <1>2 DEF Pending
<1>4. \A c \in Channels \ {d} : Pending(c)' = Pending(c)
  BY <1>1, <1>2 DEF Pending
<1>5. Cardinality(Pending(d)') = Cardinality(Pending(d)) + 1
  BY <1>1, <1>3, PendingFinite, FS_AddElement
<1>6. ASSUME NEW c \in Channels
      PROVE  history'[c] <= MaxEntries + Cardinality(Pending(c)')
  <2>1. history[c] <= MaxEntries + Cardinality(Pending(c)) /\ history[c] \in Nat
    BY DEF HistoryBounded, TypeOK
  <2>2. CASE c = d
    <3>1. history'[c] = history[c] + 1
      BY <1>1, <2>2 DEF TypeOK
    <3> QED
      BY <1>1, <1>5, <2>1, <2>2, <3>1, PendingFinite, BudgetAssumption
  <2>3. CASE c # d
    BY <1>1, <1>4, <2>1, <2>3 DEF TypeOK
  <2> QED
    BY <2>2, <2>3
<1> QED
  BY <1>6 DEF HistoryBounded

(* Reading a history that fits ends a trim; writing the tail of one that   *)
(* does not brings it back to the budget, whatever was appended meanwhile. *)
LEMMA TrimStep ==
    ASSUME TypeOK, HistoryBounded, NEW t \in Threads, Trim(t)
    PROVE  HistoryBounded'
<1>1. ASSUME TrimRead(t) \/ TrimWrite(t), NEW c \in Channels
      PROVE  history'[c] <= MaxEntries + Cardinality(Pending(c)')
  <2>1. pc' = pc /\ trimOf' \in [Threads -> Channels \cup {NoChannel}]
    BY <1>1 DEF TrimRead, TrimWrite, UnchangedInTrim, TypeOK
  <2>2. history[c] <= MaxEntries + Cardinality(Pending(c)) /\ history[c] \in Nat
    BY DEF HistoryBounded, TypeOK
  <2>3. IsFiniteSet(Pending(c)') /\ Cardinality(Pending(c)') \in Nat
    <3>1. Pending(c)' \in SUBSET Messages
      BY DEF Pending
    <3> QED
      BY <3>1, NamesAssumption, FS_Subset, FS_CardinalityType
  <2>4. CASE trimOf[t] = c /\ TrimRead(t) /\ ~Oversize(c)
    <3>1. history' = history /\ history[c] <= MaxEntries
      BY <2>2, <2>4, BudgetAssumption DEF TrimRead, Oversize
    <3> QED
      BY <2>2, <2>3, <3>1, BudgetAssumption
  <2>5. CASE trimOf[t] = c /\ TrimRead(t) /\ Oversize(c)
    BY <2>2, <2>5 DEF TrimRead, UnchangedInTrim, Pending
  <2>6. CASE trimOf[t] = c /\ TrimWrite(t)
    <3>1. history'[c] = MaxEntries
      BY <2>6 DEF TrimWrite, TypeOK
    <3> QED
      BY <2>3, <3>1, BudgetAssumption
  <2>7. CASE trimOf[t] # c
    <3>1. history'[c] = history[c]
      BY <1>1, <2>7 DEF TrimRead, TrimWrite, TypeOK
    <3>2. \A m \in Messages : trimOf'[m] = c <=> trimOf[m] = c
      BY <1>1, <2>7, NamesAssumption DEF TrimRead, TrimWrite, TypeOK, Threads
    <3>3. Pending(c)' = Pending(c)
      BY <2>1, <3>2 DEF Pending
    <3> QED
      BY <2>2, <3>1, <3>3
  <2> QED
    BY <1>1, <2>4, <2>5, <2>6, <2>7
<1>2. CASE SweepNext(t)
  <2>1. pc' = pc /\ history' = history /\ pc[t] = "sweep"
    BY <1>2 DEF SweepNext
  <2>2. \A m \in Messages : m # t => trimOf'[m] = trimOf[m]
    BY <1>2 DEF SweepNext, TypeOK, Threads
  <2>3. \A c \in Channels : Pending(c)' = Pending(c)
    BY <2>1, <2>2 DEF Pending
  <2> QED
    BY <2>1, <2>3, PendingUnchanged
<1> QED
  BY <1>1, <1>2 DEF Trim, HistoryBounded

(* A thread moves from a step without a pending trim to another such step. *)
LEMMA MoveStep ==
    ASSUME TypeOK, HistoryBounded, NEW t \in Threads, UNCHANGED <<history, trimOf>>,
           NEW to \in {"queued", "prompt", "converse", "read", "answer", "sweep",
                       "raised", "deliver", "done", "idle"},
           pc' = [pc EXCEPT ![t] = to],
           pc[t] \notin {"prompted", "answered"} \/ trimOf[t] = NoChannel
    PROVE  HistoryBounded'
<1>1. \A m \in Messages : pc'[m] = IF m = t THEN to ELSE pc[m]
  BY DEF TypeOK, Threads
<1>2. \A c \in Channels : Pending(c)' = Pending(c)
  BY <1>1, NamesAssumption DEF Pending
<1> QED
  BY <1>2, PendingUnchanged

(* However appends, sweeps and rewrites of any number of threads           *)
(* interleave, a history exceeds its budget by at most one entry per       *)
(* thread that has appended to it and is about to trim it.                 *)
THEOREM HistoryStaysBounded == Spec => []HistoryBounded
<1>1. Init => HistoryBounded
  <2> SUFFICES ASSUME Init, NEW c \in Channels
               PROVE  history[c] <= MaxEntries + Cardinality(Pending(c))
    BY DEF HistoryBounded
  <2> QED
    BY PendingFinite, BudgetAssumption DEF Init
<1>2. TypeOK /\ HistoryBounded /\ [Next]_vars => HistoryBounded'
  <2> SUFFICES ASSUME TypeOK, HistoryBounded, [Next]_vars
               PROVE  HistoryBounded'
    OBVIOUS
  <2>1. CASE UNCHANGED vars
    BY <2>1, PendingUnchanged DEF vars, Pending
  <2>2. ASSUME NEW m \in Messages, Receive(m) PROVE HistoryBounded'
    <3>1. m \in Threads /\ pc[m] = "new" /\ UNCHANGED <<history, trimOf>>
      BY <2>2 DEF Receive, UnchangedFiles, Threads
    <3>2. \E to \in {"queued", "done"} : pc' = [pc EXCEPT ![m] = to]
      BY <2>2 DEF Receive, Goto
    <3> QED
      BY <3>1, <3>2, MoveStep
  <2>3. ASSUME NEW m \in Messages, WriteReply(m) PROVE HistoryBounded'
    BY <2>3, PendingUnchanged DEF WriteReply, Pending
  <2>4. ASSUME NEW m \in Messages, WorkerRaises(m) PROVE HistoryBounded'
    <3>1. /\ m \in Threads /\ pc[m] \in {"prompt", "converse", "read", "answer"}
          /\ UNCHANGED <<history, trimOf>> /\ pc' = [pc EXCEPT ![m] = "raised"]
      BY <2>4 DEF WorkerRaises, UnchangedFiles, Threads, Goto
    <3> QED
      BY <3>1, MoveStep
  <2>5. ASSUME NEW m \in Messages, StartWorker(m) \/ FinishConversation(m) \/ EndSweep(m)
        PROVE  HistoryBounded'
    <3>1. /\ m \in Threads /\ pc[m] \in {"queued", "converse", "sweep"}
          /\ UNCHANGED <<history, trimOf>>
          /\ \E to \in {"prompt", "read", "deliver"} : pc' = [pc EXCEPT ![m] = to]
      BY <2>5 DEF StartWorker, FinishConversation, EndSweep, UnchangedFiles, Threads, Goto
    <3> QED
      BY <3>1, MoveStep
  <2>6. ASSUME NEW m \in Messages, Converse(m) \/ StartSweep(m) PROVE HistoryBounded'
    <3>1. /\ m \in Threads /\ trimOf[m] = NoChannel
          /\ UNCHANGED <<history, trimOf>>
          /\ \E to \in {"converse", "sweep"} : pc' = [pc EXCEPT ![m] = to]
      BY <2>6 DEF Converse, StartSweep, UnchangedFiles, Threads, Goto
    <3> QED
      BY <3>1, MoveStep
  <2>7. ASSUME NEW m \in Messages, ReadReply(m) \/ Deliver(m) \/ Excuse(m)
        PROVE  HistoryBounded'
    <3>1. /\ m \in Threads /\ pc[m] \in {"read", "deliver", "raised"}
          /\ UNCHANGED <<history, trimOf>>
          /\ \E to \in {"answer", "sweep", "done"} : pc' = [pc EXCEPT ![m] = to]
      BY <2>7 DEF ReadReply, Deliver, Excuse, UnchangedFiles, Threads, Goto
    <3> QED
      BY <3>1, MoveStep
  <2>8. CASE PollerSweeps
    <3>1. /\ Poller \in Threads /\ pc[Poller] \in {"idle", "sweep"}
          /\ UNCHANGED <<history, trimOf>>
          /\ \E to \in {"idle", "sweep"} : pc' = [pc EXCEPT ![Poller] = to]
      BY <2>8 DEF PollerSweeps, Threads, Goto
    <3> QED
      BY <3>1, MoveStep
  <2> QED
    BY <2>1, <2>2, <2>3, <2>4, <2>5, <2>6, <2>7, <2>8, AppendStep, TrimStep
    DEF Next, WorkerStep, Threads
<1> QED
  BY <1>1, <1>2, ChatTypeCorrect, PTL DEF Spec

-----------------------------------------------------------------------------
(* REPLY.md, what a worker read and what an operator sees all stem from    *)
(* the channel or thread they belong to.                                   *)
ChannelInv ==
    /\ \A c \in Channels : reply[c] \in Messages => ChannelOf[reply[c]] = c
    /\ \A m \in Messages : got[m] \in Messages => ChannelOf[got[m]] = ChannelOf[m]
    /\ AnswersStayInConversation

(* The workspaces are keyed by channel or thread, so no step carries an    *)
(* answer from one to another.                                             *)
LEMMA ChannelStep == TypeOK /\ ChannelInv /\ [Next]_vars => ChannelInv'
<1> SUFFICES ASSUME TypeOK, ChannelInv, [Next]_vars
             PROVE  ChannelInv'
  OBVIOUS
<1> USE DEF ChannelInv, AnswersStayInConversation
<1>1. CASE UNCHANGED <<reply, got, shown>>
  BY <1>1
<1>2. ASSUME NEW m \in Messages, Receive(m) PROVE ChannelInv'
  <2>1. UNCHANGED <<reply, got>> /\ "thinking" \notin Messages
    BY <1>2, NamesAssumption DEF Receive, UnchangedFiles
  <2>2. \A n \in Messages : shown'[n] \in {shown[n], "thinking"}
    BY <1>2 DEF Receive, TypeOK
  <2> QED
    BY <2>1, <2>2
<1>3. ASSUME NEW m \in Messages, WriteReply(m) PROVE ChannelInv'
  <2>1. UNCHANGED <<got, shown>>
    BY <1>3 DEF WriteReply
  <2>2. \A c \in Channels : reply'[c] = IF c = ChannelOf[m] THEN m ELSE reply[c]
    BY <1>3 DEF WriteReply, TypeOK, ConversationKey
  <2> QED
    BY <2>1, <2>2
<1>4. ASSUME NEW m \in Messages, ReadReply(m) PROVE ChannelInv'
  <2>1. UNCHANGED <<reply, shown>>
    BY <1>4 DEF ReadReply
  <2>2. \A n \in Messages : got'[n] = IF n = m THEN reply[ChannelOf[m]] ELSE got[n]
    BY <1>4 DEF ReadReply, TypeOK, ConversationKey
  <2>3. ChannelOf[m] \in Channels
    BY ChannelsAssumption
  <2> QED
    BY <2>1, <2>2, <2>3
<1>5. ASSUME NEW m \in Messages, Deliver(m) PROVE ChannelInv'
  <2>1. UNCHANGED <<reply, got>> /\ "refused" \notin Messages
    BY <1>5, NamesAssumption DEF Deliver, UnchangedFiles
  <2>2. \A n \in Messages :
          shown'[n] \in {shown[n], "refused"} \/ (n = m /\ shown'[n] = got[m])
    BY <1>5 DEF Deliver, TypeOK
  <2> QED
    BY <2>1, <2>2
<1>6. ASSUME NEW m \in Messages, Excuse(m) PROVE ChannelInv'
  <2>1. UNCHANGED <<reply, got>> /\ "refused" \notin Messages
    BY <1>6, NamesAssumption DEF Excuse, UnchangedFiles
  <2>2. \A n \in Messages : shown'[n] \in {shown[n], "refused"}
    BY <1>6 DEF Excuse, TypeOK
  <2> QED
    BY <2>1, <2>2
<1>7. ASSUME NEW t \in Threads, Trim(t) PROVE UNCHANGED <<reply, got, shown>>
  BY <1>7 DEF Trim, TrimRead, TrimWrite, SweepNext, UnchangedInTrim
<1>8. ASSUME NEW m \in Messages,
             \/ WorkerRaises(m) \/ StartWorker(m) \/ AppendPrompt(m) \/ Converse(m)
             \/ FinishConversation(m) \/ AppendAnswer(m) \/ StartSweep(m) \/ EndSweep(m)
      PROVE  UNCHANGED <<reply, got, shown>>
  BY <1>8 DEF WorkerRaises, StartWorker, AppendPrompt, Converse, FinishConversation,
              AppendAnswer, StartSweep, EndSweep, AppendHistory, UnchangedFiles
<1>9. CASE PollerSweeps
  BY <1>1, <1>9 DEF PollerSweeps
<1>10. CASE UNCHANGED vars
  BY <1>1, <1>10 DEF vars
<1> QED
  BY <1>1, <1>2, <1>3, <1>4, <1>5, <1>6, <1>7, <1>8, <1>9, <1>10
  DEF Next, WorkerStep, Threads

(* No answer crosses from one channel or thread to another, whichever      *)
(* conversation wrote it.                                                  *)
THEOREM AnswersStayInChannel == Spec => []AnswersStayInConversation
<1>1. Init => ChannelInv
  BY NamesAssumption DEF Init, ChannelInv, AnswersStayInConversation
<1>2. ChannelInv => AnswersStayInConversation
  BY DEF ChannelInv
<1> QED
  BY <1>1, <1>2, ChannelStep, ChatTypeCorrect, PTL DEF Spec

=============================================================================
