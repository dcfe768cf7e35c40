------------------------------ MODULE ChatPage ------------------------------
(***************************************************************************)
(* The chat page of the web application.  A question is a chain of timers: *)
(* four stages, then a word at a time.  isStreaming, currentStage and the  *)
(* abort controller belong to the page, not to the question, and a stop    *)
(* frees the page at once while the chain goes on to its next timer: the   *)
(* next question may be asked before the stopped one has settled.          *)
(***************************************************************************)
EXTENDS Naturals, Sequences, FiniteSets, Functions, Filters

CONSTANTS Chat,      \* conversations
          FirstChat, \* the one the page starts with
          Ask,       \* questions asked; each is asked once
          Topics,    \* what questions are about
          Words,     \* words of an answer
          None

VARIABLES conversations, \* the list, newest first
          thread,        \* the messages of every conversation, deleted or not
          spent,         \* totalOutputTokens of every conversation
          activeConvId,
          isStreaming, currentStage,
          controller,    \* abortControllerRef: whose controller it holds
          ask            \* the chain of every question; None before it is asked

vars == <<conversations, thread, spent, activeConvId, isStreaming, currentStage, controller, ask>>

Stages == <<"query_processing", "query_embedding", "hybrid_retrieval", "context_building", "generating">>

\* How many citations the answer to a question of each topic carries.
Evidence == [auth |-> 3, checkout |-> 2, architecture |-> 2, postgres |-> 2, order |-> 2, other |-> 1]

UserMessage(q) == [id |-> q, role |-> "user", words |-> Words, sources |-> 0, status |-> "completed"]
AnswerTo(q, words, sources, status) ==
  [id |-> q, role |-> "assistant", words |-> words, sources |-> sources, status |-> status]
Placeholder(q) == AnswerTo(q, 0, 0, "streaming")
IsAnswer(m, q) == m.id = q /\ m.role = "assistant"

SeedThread == <<UserMessage("seed"), AnswerTo("seed", Words, 3, "completed")>>

Init ==
  /\ conversations = <<FirstChat>>
  /\ thread = [c \in Chat |-> IF c = FirstChat THEN SeedThread ELSE <<>>]
  /\ spent = [c \in Chat |-> IF c = FirstChat THEN Words ELSE 0]
  /\ activeConvId = FirstChat
  /\ isStreaming = FALSE /\ currentStage = None /\ controller = None
  /\ ask = [q \in Ask |-> None]

Listed == Range(conversations)
UnderWay(q) == ask[q] # None /\ ask[q].stage # "settled"

-----------------------------------------------------------------------------
\* Ids come from the clock, so the new conversation is one never listed.
Fresh(c) == c \notin Listed /\ thread[c] = <<>> /\ \A q \in Ask : ask[q] # None => ask[q].chat # c

NewChat(c) ==
  /\ Fresh(c)
  /\ conversations' = <<c>> \o conversations
  /\ activeConvId' = c
  /\ UNCHANGED <<thread, spent, isStreaming, currentStage, controller, ask>>

Select(c) ==
  /\ c \in Listed
  /\ activeConvId' = c
  /\ UNCHANGED <<conversations, thread, spent, isStreaming, currentStage, controller, ask>>

\* Deleting the last conversation makes a new one of the list as it was, so
\* the deleted one stays behind it.
DeleteConv(c) ==
  /\ c \in Listed
  /\ LET filtered == Kept(conversations, {i \in DOMAIN conversations : conversations[i] # c})
     IN \/ activeConvId # c /\ conversations' = filtered /\ UNCHANGED activeConvId
        \/ activeConvId = c /\ filtered # <<>>
           /\ conversations' = filtered /\ activeConvId' = filtered[1]
        \/ activeConvId = c /\ filtered = <<>>
           /\ \E n \in Chat : Fresh(n) /\ conversations' = <<n>> \o conversations /\ activeConvId' = n
  /\ UNCHANGED <<thread, spent, isStreaming, currentStage, controller, ask>>

\* What handleSendMessage does before its first timer, on the messages kept.
Send(q, topic, kept) ==
  /\ ask[q] = None
  /\ ask' = [ask EXCEPT ![q] = [chat |-> activeConvId, stage |-> Stages[1], topic |-> topic,
                                words |-> 0, aborted |-> FALSE]]
  /\ thread' = [thread EXCEPT ![activeConvId] = kept \o <<UserMessage(q), Placeholder(q)>>]
  /\ isStreaming' = TRUE /\ currentStage' = Stages[1] /\ controller' = q
  /\ UNCHANGED <<conversations, spent, activeConvId>>

CanSend == ~isStreaming
HandleSendMessage(q, topic) == CanSend /\ Send(q, topic, thread[activeConvId])

\* Asks again what was answered by message i, which is removed.
HandleRetry(q, topic, i) ==
  /\ ~isStreaming
  /\ i \in 2 .. Len(thread[activeConvId])
  /\ thread[activeConvId][i].role = "assistant" /\ thread[activeConvId][i - 1].role = "user"
  /\ Send(q, topic, Kept(thread[activeConvId], DOMAIN thread[activeConvId] \ {i}))

\* Stages 1 to 3 end with a timer whatever became of the controller.
NextStage(q) ==
  \E k \in 1 .. 3 :
    /\ ask[q] # None /\ ask[q].stage = Stages[k]
    /\ ask' = [ask EXCEPT ![q].stage = Stages[k + 1]]
    /\ currentStage' = Stages[k + 1]
    /\ UNCHANGED <<conversations, thread, spent, activeConvId, isStreaming, controller>>

\* The answer to q as it reads after so many words; nothing when it was removed.
Answer(q, words, status) ==
  thread' = [thread EXCEPT ![ask[q].chat] =
               [i \in DOMAIN @ |->
                  IF IsAnswer(@[i], q) THEN AnswerTo(q, words, Evidence[ask[q].topic], status) ELSE @[i]]]

InLoop(q) == ask[q] # None /\ ask[q].stage \in {"context_building", "generating"}

StreamWord(q) ==
  /\ InLoop(q) /\ ~ask[q].aborted /\ ask[q].words < Words
  /\ ask' = [ask EXCEPT ![q].stage = "generating", ![q].words = @ + 1]
  /\ Answer(q, ask[q].words + 1, "streaming")
  /\ currentStage' = "generating"
  /\ UNCHANGED <<conversations, spent, activeConvId, isStreaming, controller>>

\* Fault variant of Settled: the streaming status stays when it was stopped.
SettledUnlessStopped(q) == Answer(q, ask[q].words, IF ask[q].aborted THEN "streaming" ELSE "completed")

Settled(q) == Answer(q, ask[q].words, IF ask[q].aborted THEN "stopped" ELSE "completed")

\* The end of the loop and the finally block: the page is freed, whichever
\* question it is streaming by now.
Settle(q) ==
  /\ InLoop(q) /\ (ask[q].aborted \/ ask[q].words = Words)
  /\ ask' = [ask EXCEPT ![q].stage = "settled"]
  /\ Settled(q)
  /\ spent' = IF ask[q].chat \in Listed THEN [spent EXCEPT ![ask[q].chat] = @ + ask[q].words] ELSE spent
  /\ isStreaming' = FALSE /\ currentStage' = None /\ controller' = None
  /\ UNCHANGED <<conversations, activeConvId>>

HandleStopGeneration ==
  /\ isStreaming
  /\ ask' = IF controller # None THEN [ask EXCEPT ![controller].aborted = TRUE] ELSE ask
  /\ isStreaming' = FALSE /\ currentStage' = None
  /\ UNCHANGED <<conversations, thread, spent, activeConvId, controller>>

Next ==
  \/ \E c \in Chat : NewChat(c) \/ Select(c) \/ DeleteConv(c)
  \/ \E q \in Ask, topic \in Topics :
       HandleSendMessage(q, topic) \/ \E i \in 1 .. 2 * Cardinality(Ask) + 2 : HandleRetry(q, topic, i)
  \/ \E q \in Ask : NextStage(q) \/ StreamWord(q) \/ Settle(q)
  \/ HandleStopGeneration

Spec == Init /\ [][Next]_vars

-----------------------------------------------------------------------------
(***************************************************************************)
(* Properties                                                              *)
(***************************************************************************)
Message == [id : Ask \cup {"seed"}, role : {"user", "assistant"}, words : 0 .. Words, sources : 0 .. 3,
            status : {"streaming", "completed", "stopped"}]

Question == [chat : Chat, stage : Range(Stages) \cup {"settled"}, topic : Topics,
             words : 0 .. Words, aborted : BOOLEAN]

\* Types; the active conversation is a listed one.
TypeOK ==
  /\ Listed \subseteq Chat /\ IsInjective(conversations) /\ activeConvId \in Listed
  /\ \A c \in Chat : Range(thread[c]) \subseteq Message /\ spent[c] \in Nat
  /\ isStreaming \in BOOLEAN /\ currentStage \in Range(Stages) \cup {None}
  /\ controller \in Ask \cup {None}
  /\ ask \in [Ask -> Question \cup {None}]

\* No answer is left streaming, and the page is not left busy, when no chain
\* is under way that will settle it; a stage is shown only of a chain under way.
NothingHangs ==
  /\ \A c \in Listed : \A i \in DOMAIN thread[c] :
       thread[c][i].status = "streaming" => UnderWay(thread[c][i].id)
  /\ isStreaming => \E q \in Ask : UnderWay(q) /\ ~ask[q].aborted
  /\ currentStage # None => \E q \in Ask : UnderWay(q)

\* A settled answer cites its sources; it is marked stopped if and only if
\* its own controller was aborted, and completed only with all its words.
AnswersAreGrounded ==
  \A c \in Listed : \A i \in DOMAIN thread[c] :
    LET m == thread[c][i]
    IN m.role = "assistant" /\ m.status # "streaming" =>
         /\ m.sources > 0
         /\ m.status = "completed" => m.words = Words
         /\ m.id \in Ask => (m.status = "stopped" <=> ask[m.id].aborted)
=============================================================================
