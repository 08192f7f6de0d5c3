---------------------------- MODULE OperatorChat ----------------------------
(***************************************************************************)
(* The operator chat of the triage agent: Discord messages answered by     *)
(* OpenHands conversations (functions/discord.py on_message,               *)
(* functions/diagnoser.py, core/openhands_runtime.py run_operator_reply).  *)
(*                                                                         *)
(* Every accepted message gets a placeholder and a worker thread.  Workers *)
(* of one conversation share its workspace: REPLY.md, of which reply says  *)
(* whose answer it holds, and HISTORY.md, measured in entries.  The poll   *)
(* loop's thread trims histories too, after every diagnosis.               *)
(*                                                                         *)
(* Abstracted: STATUS.md and the words of prompts and answers.  A trimmed  *)
(* history is rewritten in one step.                                       *)
(***************************************************************************)
EXTENDS Integers, FiniteSets

CONSTANTS
    Messages,      \* messages of the run, from operators
    Channels,      \* channels and threads the bot can read
    ChannelOf,     \* ChannelOf[m]: channel or thread of message m
    ParentOf,      \* ParentOf[c]: channel of thread c, NoChannel for a channel
    Target,        \* DISCORD_CHANNEL_ID
    NoChannel,
    NoMessage,
    Poller,        \* the thread of the poll loop
    Workers,       \* threads of the gateway loop's executor
    MaxEntries,    \* OPERATOR_HISTORY_MAX_BYTES, in entries
    MayRaise       \* steps of a worker that may raise in this instance

Threads == Messages \cup {Poller}

ASSUME NamesAssumption ==
    /\ IsFiniteSet(Messages) /\ NoMessage \notin Messages /\ Poller \notin Messages
    /\ NoChannel \notin Channels /\ Target \in Channels
    /\ {"none", "thinking", "refused"} \cap (Messages \cup {NoMessage}) = {}
ASSUME ChannelsAssumption ==
    /\ ChannelOf \in [Messages -> Channels]
    /\ ParentOf \in [Channels -> Channels \cup {NoChannel}]
ASSUME BudgetAssumption == Workers \in Nat \ {0} /\ MaxEntries \in Nat \ {0}

VARIABLES
    pc,        \* where a thread stands
    got,       \* message whose answer the worker read from REPLY.md, or NoMessage
    shown,     \* what the operator sees below the message
    reply,     \* message whose answer REPLY.md of a conversation holds, or NoMessage
    wrote,     \* history: messages whose own conversation wrote REPLY.md
    history,   \* entries in HISTORY.md of a conversation
    trimOf,    \* conversation whose history the thread is trimming, or NoChannel
    cutting,   \* threads that read an oversize history and will rewrite it
    todo       \* conversations the retention sweep of a thread has not reached

vars == <<pc, got, shown, reply, wrote, history, trimOf, cutting, todo>>

WorkerSteps ==
    {"prompt", "prompted", "converse", "read", "answer", "answered", "sweep", "raised", "deliver"}

TypeOK ==
    /\ pc \in [Threads -> {"new", "queued", "done", "idle"} \cup WorkerSteps]
    /\ got \in [Messages -> Messages \cup {NoMessage}]
    /\ shown \in [Messages -> {"none", "thinking", "refused"} \cup Messages]
    /\ reply \in [Channels -> Messages \cup {NoMessage}]
    /\ wrote \in SUBSET Messages
    /\ history \in [Channels -> Nat]
    /\ trimOf \in [Threads -> Channels \cup {NoChannel}]
    /\ cutting \in SUBSET Threads
    /\ todo \in [Threads -> SUBSET Channels]

Init ==
    /\ pc = [t \in Threads |-> IF t = Poller THEN "idle" ELSE "new"]
    /\ got = [m \in Messages |-> NoMessage]
    /\ shown = [m \in Messages |-> "none"]
    /\ reply = [c \in Channels |-> NoMessage]
    /\ wrote = {}
    /\ history = [c \in Channels |-> 0]
    /\ trimOf = [t \in Threads |-> NoChannel]
    /\ cutting = {}
    /\ todo = [t \in Threads |-> {}]

-----------------------------------------------------------------------------
(* on_message *)

IsTargetChannel(m) == Target \in {ChannelOf[m], ParentOf[ChannelOf[m]]}

ConversationKey_Parent(m) ==
    IF ParentOf[ChannelOf[m]] = NoChannel THEN ChannelOf[m] ELSE ParentOf[ChannelOf[m]]

(* The id of the thread or channel; operators have one guild.              *)
ConversationKey(m) == ChannelOf[m]

Goto(t, where) == pc' = [pc EXCEPT ![t] = where]

UnchangedFiles == UNCHANGED <<reply, wrote, history, trimOf, cutting, todo>>

Receive(m) ==
    /\ pc[m] = "new"
    /\ IF IsTargetChannel(m)
       THEN Goto(m, "queued") /\ shown' = [shown EXCEPT ![m] = "thinking"]
       ELSE Goto(m, "done") /\ UNCHANGED shown
    /\ UNCHANGED got /\ UnchangedFiles

Working == {m \in Messages : pc[m] \in WorkerSteps \ {"raised", "deliver"}}

(* asyncio.to_thread: the command waits for a free thread.                 *)
StartWorker(m) ==
    /\ pc[m] = "queued" /\ Cardinality(Working) < Workers
    /\ Goto(m, "prompt")
    /\ UNCHANGED <<got, shown>> /\ UnchangedFiles

Deliver_Unchecked(m) ==
    /\ pc[m] = "deliver"
    /\ shown' = [shown EXCEPT ![m] = got[m]]
    /\ Goto(m, "done")
    /\ UNCHANGED got /\ UnchangedFiles

(* An answer, or the text of the OpenHandsFlowError for a missing one.     *)
Deliver(m) ==
    /\ pc[m] = "deliver"
    /\ shown' = [shown EXCEPT ![m] = IF got[m] = NoMessage THEN "refused" ELSE got[m]]
    /\ Goto(m, "done")
    /\ UNCHANGED got /\ UnchangedFiles

Excuse_Silent(m) ==
    /\ pc[m] = "raised"
    /\ Goto(m, "done")
    /\ UNCHANGED <<got, shown>> /\ UnchangedFiles

(* Both except clauses of on_message edit the placeholder.                 *)
Excuse(m) ==
    /\ pc[m] = "raised"
    /\ shown' = [shown EXCEPT ![m] = "refused"]
    /\ Goto(m, "done")
    /\ UNCHANGED got /\ UnchangedFiles

-----------------------------------------------------------------------------
(* run_operator_reply, on a worker thread *)

(* What the glob of the retention sweep finds.                             *)
Histories == {c \in Channels : history[c] > 0}

(* append_history_event: the entry, and then _trim_file.                   *)
AppendHistory(m, from, to) ==
    /\ pc[m] = from
    /\ LET c == ConversationKey(m)
       IN  /\ history' = [history EXCEPT ![c] = @ + 1]
           /\ trimOf' = [trimOf EXCEPT ![m] = c]
    /\ Goto(m, to)
    /\ UNCHANGED <<got, shown, reply, wrote, cutting, todo>>

AppendPrompt(m) == AppendHistory(m, "prompt", "prompted")

Converse(m) ==
    /\ pc[m] = "prompted" /\ trimOf[m] = NoChannel
    /\ Goto(m, "converse")
    /\ UNCHANGED <<got, shown>> /\ UnchangedFiles

(* The model writes REPLY.md with its file tool, if it does at all.        *)
WriteReply(m) ==
    /\ pc[m] = "converse" /\ m \notin wrote
    /\ reply' = [reply EXCEPT ![ConversationKey(m)] = m]
    /\ wrote' = wrote \cup {m}
    /\ UNCHANGED <<pc, got, shown, history, trimOf, cutting, todo>>

FinishConversation(m) ==
    /\ pc[m] = "converse"
    /\ Goto(m, "read")
    /\ UNCHANGED <<got, shown>> /\ UnchangedFiles

(* Without an answer there is no second entry, but the sweep takes place.  *)
ReadReply(m) ==
    /\ pc[m] = "read"
    /\ got' = [got EXCEPT ![m] = reply[ConversationKey(m)]]
    /\ IF got'[m] = NoMessage
       THEN Goto(m, "sweep") /\ todo' = [todo EXCEPT ![m] = Histories]
       ELSE Goto(m, "answer") /\ UNCHANGED todo
    /\ UNCHANGED <<shown, reply, wrote, history, trimOf, cutting>>

AppendAnswer(m) == AppendHistory(m, "answer", "answered")

StartSweep(m) ==
    /\ pc[m] = "answered" /\ trimOf[m] = NoChannel
    /\ Goto(m, "sweep") /\ todo' = [todo EXCEPT ![m] = Histories]
    /\ UNCHANGED <<got, shown, reply, wrote, history, trimOf, cutting>>

EndSweep(m) ==
    /\ pc[m] = "sweep" /\ todo[m] = {} /\ m \notin cutting
    /\ Goto(m, "deliver")
    /\ UNCHANGED <<got, shown>> /\ UnchangedFiles

(* Reading the status, writing a file or the conversation itself raises.   *)
WorkerRaises(m) ==
    /\ pc[m] \in MayRaise \cap {"prompt", "converse", "read", "answer"}
    /\ Goto(m, "raised")
    /\ UNCHANGED <<got, shown>> /\ UnchangedFiles

-----------------------------------------------------------------------------
(* _trim_file and the retention sweep, on any thread *)

UnchangedInTrim == UNCHANGED <<pc, got, shown, reply, wrote, todo>>

Oversize_ByOne(c) == history[c] > MaxEntries + 1

Oversize(c) == history[c] > MaxEntries

TrimRead(t) ==
    /\ trimOf[t] # NoChannel /\ t \notin cutting
    /\ IF Oversize(trimOf[t])
       THEN cutting' = cutting \cup {t} /\ UNCHANGED trimOf
       ELSE trimOf' = [trimOf EXCEPT ![t] = NoChannel] /\ UNCHANGED cutting
    /\ UNCHANGED history /\ UnchangedInTrim

(* The tail read before replaces the file, whatever it holds by now.       *)
TrimWrite(t) ==
    /\ t \in cutting
    /\ history' = [history EXCEPT ![trimOf[t]] = MaxEntries]
    /\ trimOf' = [trimOf EXCEPT ![t] = NoChannel]
    /\ cutting' = cutting \ {t}
    /\ UnchangedInTrim

(* _trim_operator_history takes the files in the glob's order.             *)
SweepNext(t) ==
    /\ pc[t] = "sweep" /\ t \notin cutting
    /\ \E c \in todo[t] :
         /\ todo' = [todo EXCEPT ![t] = @ \ {c}]
         /\ IF Oversize(c)
            THEN cutting' = cutting \cup {t} /\ trimOf' = [trimOf EXCEPT ![t] = c]
            ELSE UNCHANGED <<cutting, trimOf>>
    /\ UNCHANGED <<pc, got, shown, reply, wrote, history>>

(* run_incident_diagnosis ends with the same sweep.                        *)
PollerSweeps ==
    /\ \/ pc[Poller] = "idle" /\ Goto(Poller, "sweep")
          /\ todo' = [todo EXCEPT ![Poller] = Histories]
       \/ pc[Poller] = "sweep" /\ todo[Poller] = {} /\ Poller \notin cutting
          /\ Goto(Poller, "idle") /\ UNCHANGED todo
    /\ UNCHANGED <<got, shown, reply, wrote, history, trimOf, cutting>>

-----------------------------------------------------------------------------
Trim(t) == TrimRead(t) \/ TrimWrite(t) \/ SweepNext(t)

WorkerStep(m) ==
    \/ StartWorker(m) \/ AppendPrompt(m) \/ Converse(m) \/ FinishConversation(m)
    \/ ReadReply(m) \/ AppendAnswer(m) \/ StartSweep(m) \/ EndSweep(m)
    \/ Deliver(m) \/ Excuse(m) \/ Trim(m)

Next ==
    \/ \E m \in Messages : Receive(m) \/ WriteReply(m) \/ WorkerRaises(m) \/ WorkerStep(m)
    \/ PollerSweeps \/ Trim(Poller)

Spec == Init /\ [][Next]_vars

(* Threads are scheduled, the iteration limit ends every conversation, and *)
(* Discord takes the edits.  Nothing is assumed of operators, of what the  *)
(* model writes, or of the poll loop.                                      *)
FairSpec == Spec /\ \A m \in Messages : WF_vars(WorkerStep(m))

-----------------------------------------------------------------------------
(* Threads that appended to the history of c and have not trimmed it yet.  *)
Pending(c) == {m \in Messages : pc[m] \in {"prompted", "answered"} /\ trimOf[m] = c}

(* README "HISTORY.md is truncated to the latest bytes budget": a history  *)
(* exceeds its budget by at most one entry per thread that is about to     *)
(* trim it, however appends, sweeps and rewrites of threads interleave.    *)
HistoryBounded == \A c \in Channels : history[c] <= MaxEntries + Cardinality(Pending(c))

(* What the operator reads below a message was written for a message of    *)
(* the same channel or thread.                                             *)
AnswersStayInConversation ==
    \A m \in Messages : shown[m] \in Messages => ChannelOf[shown[m]] = ChannelOf[m]

(* A placeholder does not stay: every accepted message ends with an answer *)
(* or an excuse, also when more messages arrive than there are threads.    *)
EveryPromptIsAnswered ==
    \A m \in Messages : shown[m] = "thinking" ~> shown[m] \in Messages \cup {"refused"}

(* diagnoser.py refuses with "OpenHands operator reply completed without   *)
(* producing REPLY.md": a shown answer comes from a conversation that      *)
(* produced one.                                                           *)
AnswersAreProduced == \A m \in Messages : shown[m] \in Messages => m \in wrote

=============================================================================
