---------------------------- MODULE Conversations ---------------------------
(***************************************************************************)
(* ConversationService with LlmEngineService and the streaming endpoints   *)
(* of IntelligenceController.  An answer is streamed word by word, 15 ms   *)
(* apart: meanwhile it can be stopped, its client can leave, it can be     *)
(* retried, and its conversation can be deleted under it (the stream keeps *)
(* the object, so a deleted conversation is kept here too).                *)
(***************************************************************************)
EXTENDS Naturals, SequencesExt, FiniteSetsExt

CONSTANTS Conv, Welcome,   \* conversations, and the seeded one
          Words,           \* words of an answer
          None,
          MaxMessages      \* bound: messages of one behaviour

VARIABLES conv,        \* conv[c]: AiChatConversation, None before its creation
          msg,         \* msg[m]: the message, m by order of creation
          controllers, \* activeAbortControllers
          aborted,     \* messages whose signal is aborted
          stopped      \* history: stopped[m], words when the stop was promised

vars == <<conv, msg, controllers, aborted, stopped>>

Message == 1 .. MaxMessages
AiChatConversation == [live : BOOLEAN, titled : BOOLEAN, messages : Seq(Message), charged : Nat]
User(c) == [conv |-> c, role |-> "user", status |-> "completed", words |-> 0]
Assistant(c, status, n) == [conv |-> c, role |-> "assistant", status |-> status, words |-> n]
NoMessage == [conv |-> None, role |-> "none", status |-> "none", words |-> 0]

\* calculateUsage: the tokens of the context and those of the words.
Usage(n) == 1 + n

\* seedSampleConversation.
Init ==
  /\ conv = [c \in Conv |-> IF c = Welcome
                            THEN [live |-> TRUE, titled |-> TRUE, messages |-> <<1, 2>>, charged |-> Usage(Words)]
                            ELSE None]
  /\ msg = [m \in Message |-> CASE m = 1 -> User(Welcome)
                                [] m = 2 -> Assistant(Welcome, "completed", Words)
                                [] OTHER -> NoMessage]
  /\ controllers = {} /\ aborted = {}
  /\ stopped = [m \in Message |-> None]

Live(c) == conv[c] # None /\ conv[c].live
Used == {m \in Message : msg[m] # NoMessage}
AnswerId == Cardinality(Used) + 2  \* the second of two new messages

-----------------------------------------------------------------------------
CreateConversation(c, titled) ==
  /\ conv[c] = None
  /\ conv' = [conv EXCEPT ![c] = [live |-> TRUE, titled |-> titled, messages |-> <<>>, charged |-> 0]]
  /\ UNCHANGED <<msg, controllers, aborted, stopped>>

DeleteConversation(c) ==
  /\ Live(c)
  /\ conv' = [conv EXCEPT ![c].live = FALSE]
  /\ UNCHANGED <<msg, controllers, aborted, stopped>>

UpdateConversationTitle(c) ==
  /\ Live(c)
  /\ conv' = [conv EXCEPT ![c].titled = TRUE]
  /\ UNCHANGED <<msg, controllers, aborted, stopped>>

-----------------------------------------------------------------------------
\* sendMessage up to the await of generateResponse: the answer's place is
\* kept, but it enters the conversation only with its text.
SendMessage(c) ==
  /\ Live(c) /\ AnswerId <= MaxMessages
  /\ conv' = [conv EXCEPT ![c].messages = Append(@, AnswerId - 1)]
  /\ msg' = [msg EXCEPT ![AnswerId - 1] = User(c), ![AnswerId] = Assistant(c, "asked", 0)]
  /\ UNCHANGED <<controllers, aborted, stopped>>

\* What a finished answer changes in its conversation.
Charge(c, n) == [c EXCEPT !.charged = @ + Usage(n), !.titled = TRUE]

AnswerMessage(m) ==
  /\ msg[m].status = "asked"
  /\ msg' = [msg EXCEPT ![m].status = "completed", ![m].words = Words]
  /\ conv' = [conv EXCEPT ![msg[m].conv] = Charge([conv[msg[m].conv] EXCEPT !.messages = Append(@, m)], Words)]
  /\ UNCHANGED <<controllers, aborted, stopped>>

\* The conversation's messages after streamMessage of one more question.
Streamed(c, messages) ==
  /\ AnswerId <= MaxMessages
  /\ conv' = [conv EXCEPT ![c].messages = messages \o <<AnswerId - 1, AnswerId>>]
  /\ msg' = [msg EXCEPT ![AnswerId - 1] = User(c), ![AnswerId] = Assistant(c, "streaming", 0)]
  /\ controllers' = controllers \cup {AnswerId}
  /\ UNCHANGED <<aborted, stopped>>

StreamMessage(c) == Live(c) /\ Streamed(c, conv[c].messages)

Streaming(m) == msg[m].status = "streaming"

\* One turn of generateStream's loop and of the loop over it.
StreamWord(m) ==
  /\ Streaming(m) /\ m \notin aborted /\ msg[m].words < Words
  /\ msg' = [msg EXCEPT ![m].words = @ + 1]
  /\ UNCHANGED <<conv, controllers, aborted, stopped>>

\* Fault variant of FinalStatus: the end of a stream does not look at its signal.
FinalStatusCompleted(m) == "completed"

FinalStatus(m) == IF m \in aborted THEN "stopped" ELSE "completed"
\* Fault variant of Charged: stopped answers are free.
ChargedIfCompleted(m) ==
  IF m \in aborted THEN [conv[msg[m].conv] EXCEPT !.titled = TRUE]
  ELSE Charge(conv[msg[m].conv], msg[m].words)

Charged(m) == Charge(conv[msg[m].conv], msg[m].words)

\* The end of the stream, which sends its usage when it was aborted as well.
FinalizeMessage(m) ==
  /\ Streaming(m) /\ (m \in aborted \/ msg[m].words = Words)
  /\ msg' = [msg EXCEPT ![m].status = FinalStatus(m)]
  /\ conv' = [conv EXCEPT ![msg[m].conv] = Charged(m)]
  /\ controllers' = controllers \ {m}
  /\ UNCHANGED <<aborted, stopped>>

-----------------------------------------------------------------------------
Abort(m) ==
  /\ aborted' = aborted \cup {m}
  /\ controllers' = controllers \ {m}
  /\ stopped' = IF m \in aborted THEN stopped ELSE [stopped EXCEPT ![m] = msg[m].words]
  /\ UNCHANGED <<conv, msg>>

\* stopGeneration, answering true.
StopGeneration(m) == m \in controllers /\ Abort(m)

\* The teardown of the subscription, when the client closes the response.
ClientCloses(m) == Streaming(m) /\ Abort(m)

\* retryMessage.  The old answer goes first, even one that still streams; the
\* question before it is asked again, if there is one.
RetryMessage(c, m) ==
  /\ Live(c) /\ Contains(conv[c].messages, m)
  /\ LET i == CHOOSE j \in DOMAIN conv[c].messages : conv[c].messages[j] = m
         others == RemoveAt(conv[c].messages, i)
     IN \/ /\ msg[m].role = "user"
           /\ Streamed(c, conv[c].messages)
        \/ /\ msg[m].role = "assistant"
           /\ i > 1 /\ msg[conv[c].messages[i - 1]].role = "user"
           /\ Streamed(c, others)
        \/ /\ msg[m].role = "assistant"
           /\ i = 1 \/ msg[conv[c].messages[i - 1]].role # "user"
           /\ conv' = [conv EXCEPT ![c].messages = others]
           /\ UNCHANGED <<msg, controllers, aborted, stopped>>

-----------------------------------------------------------------------------
StreamStep(m) == StreamWord(m) \/ FinalizeMessage(m)

Next ==
  \/ \E c \in Conv : \/ \E titled \in BOOLEAN : CreateConversation(c, titled)
                     \/ DeleteConversation(c) \/ UpdateConversationTitle(c)
                     \/ SendMessage(c) \/ StreamMessage(c)
                     \/ \E m \in Message : RetryMessage(c, m)
  \/ \E m \in Message : \/ AnswerMessage(m) \/ StreamStep(m)
                        \/ StopGeneration(m) \/ ClientCloses(m)

Spec == Init /\ [][Next]_vars

-----------------------------------------------------------------------------
(***************************************************************************)
(* Properties                                                              *)
(***************************************************************************)
\* Types; a conversation lists messages of its own, none twice.
TypeOK ==
  /\ conv \in [Conv -> AiChatConversation \cup {None}]
  /\ msg \in [Message -> [conv : Conv \cup {None}, role : {"none", "user", "assistant"}, words : 0 .. Words,
                          status : {"none", "asked", "streaming", "stopped", "completed"}]]
  /\ \A c \in Conv : conv[c] # None =>
       /\ IsInjective(conv[c].messages)
       /\ \A i \in DOMAIN conv[c].messages : msg[conv[c].messages[i]].conv = c
  /\ controllers \subseteq Message /\ aborted \subseteq Message
  /\ stopped \in [Message -> 0 .. Words \cup {None}]

\* Once a stop was answered with true, or the client left, not a word more is
\* produced and the answer is never marked completed; any other streaming
\* answer can still be stopped, and no controller outlives its stream.
StopIsHonoured ==
  /\ \A m \in Message : stopped[m] # None =>
       msg[m].status \in {"streaming", "stopped"} /\ msg[m].words = stopped[m]
  /\ controllers = {m \in Message : Streaming(m) /\ m \notin aborted}
  /\ \A m \in Message : msg[m].role = "assistant" /\ msg[m].status = "completed" => msg[m].words = Words

\* What each message costs the conversation c: an answer that is over, the
\* words that were delivered.
Cost(c) == [m \in Message |->
  IF msg[m].conv = c /\ msg[m].role = "assistant" /\ msg[m].status \in {"completed", "stopped"}
  THEN Usage(msg[m].words) ELSE 0]

Total(cost) ==
  LET upTo[m \in 0 .. MaxMessages] == IF m = 0 THEN 0 ELSE upTo[m - 1] + cost[m]
  IN upTo[MaxMessages]

\* A conversation is charged, once, for every answer that is over, for the
\* words that were delivered: stopped ones, ones a retry has replaced, and
\* ones that ended after the conversation was deleted.
ChargedForWhatWasDelivered == \A c \in Conv : conv[c] # None => conv[c].charged = Total(Cost(c))
=============================================================================
