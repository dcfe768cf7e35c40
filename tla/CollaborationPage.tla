-------------------------- MODULE CollaborationPage -------------------------
(***************************************************************************)
(* The collaboration page of the web application, which has no server      *)
(* behind it.  A document is held three times: as a row of documents, as   *)
(* activeDoc and as the text of the editor; an edit reaches the last two,  *)
(* a rewind the last one only, and a selection copies the row over both.   *)
(***************************************************************************)
EXTENDS Naturals, Sequences, FiniteSets, Functions, Filters

CONSTANTS NewId,    \* ids of created documents: four digits of the clock, which may repeat
          Text,     \* what is typed into the editor
          Name,     \* who may be mentioned
          MaxSteps  \* bound: edits, comments, mentions and documents created

VARIABLES documents, activeDoc, docContent,
          draft,           \* newCommentText: names it mentions and words between them
          comments, notifications, activityFeed,
          activeTab, selectedSnapshot, typingUser,
          steps,           \* how many steps there were
          edits            \* history: edits since activeDoc was selected

docVars == <<documents, activeDoc, docContent, edits>>
talkVars == <<draft, comments, notifications, activityFeed>>
vars == <<docVars, talkVars, activeTab, selectedSnapshot, typingUser, steps>>

INITIAL_DOCUMENTS == <<[id |-> "doc_arch_01", content |-> "arch_v4", version |-> 4],
                       [id |-> "doc_sec_02", content |-> "sec_v2", version |-> 2]>>
INITIAL_COMMENTS == <<[doc |-> "doc_arch_01", mentions |-> <<"priya">>],
                      [doc |-> "doc_arch_01", mentions |-> <<"rahul">>]>>
INITIAL_ACTIVITY == <<"VIEWED_FILE", "REVIEWED_PR", "EDITED_DOC", "GENERATED_TESTS">>
INITIAL_SNAPSHOTS == [version : {1}, content : {"arch_v1"}] \cup [version : {2}, content : {"arch_v2"}]
                       \cup [version : {4}, content : {"arch_v4"}]
NoSnapshot == [version |-> 0, content |-> "none"]

Init ==
  /\ documents = INITIAL_DOCUMENTS
  /\ activeDoc = INITIAL_DOCUMENTS[1] /\ docContent = activeDoc.content /\ edits = 0
  /\ draft = <<>> /\ comments = INITIAL_COMMENTS /\ notifications = <<"you">>
  /\ activityFeed = INITIAL_ACTIVITY
  /\ activeTab = "editor" /\ selectedSnapshot = NoSnapshot /\ typingUser = TRUE
  /\ steps = 0

Step == steps < MaxSteps /\ steps' = steps + 1

-----------------------------------------------------------------------------
\* The indicator that a simulated peer is typing turns on and off.
TypingTimer ==
  /\ typingUser' = ~typingUser
  /\ UNCHANGED <<docVars, talkVars, activeTab, selectedSnapshot, steps>>

HandleDocChange(text) ==
  /\ Step /\ activeTab = "editor" /\ text # docContent
  /\ docContent' = text
  /\ activeDoc' = [activeDoc EXCEPT !.content = text, !.version = @ + 1]
  /\ edits' = edits + 1
  /\ UNCHANGED <<documents, talkVars, activeTab, selectedSnapshot, typingUser>>

\* A name is typed or inserted by its button; "prose" is text that mentions nobody.
WriteComment(word) ==
  /\ Step
  /\ draft' = Append(draft, word)
  /\ UNCHANGED <<docVars, comments, notifications, activityFeed, activeTab, selectedSnapshot, typingUser>>

\* Everyone mentioned is notified, once for every mention.
HandlePostComment ==
  /\ Step /\ draft # <<>>
  /\ LET mentions == Kept(draft, {i \in DOMAIN draft : draft[i] # "prose"})
     IN /\ comments' = Append(comments, [doc |-> activeDoc.id, mentions |-> mentions])
        /\ notifications' = mentions \o notifications
  /\ activityFeed' = <<"POSTED_COMMENT">> \o activityFeed
  /\ draft' = <<>>
  /\ UNCHANGED <<docVars, activeTab, selectedSnapshot, typingUser>>

SelectDocument(i) ==
  /\ i \in DOMAIN documents
  /\ activeDoc' = documents[i] /\ docContent' = documents[i].content /\ edits' = 0
  /\ selectedSnapshot' = NoSnapshot
  /\ UNCHANGED <<documents, talkVars, activeTab, typingUser, steps>>

HandleCreateNewDoc(id) ==
  /\ Step
  /\ LET newDoc == [id |-> id, content |-> "new", version |-> 1]
     IN /\ documents' = <<newDoc>> \o documents
        /\ activeDoc' = newDoc /\ docContent' = newDoc.content
  /\ edits' = 0
  /\ UNCHANGED <<talkVars, activeTab, selectedSnapshot, typingUser>>

OpenTab(t) ==
  /\ activeTab' = t
  /\ UNCHANGED <<docVars, talkVars, selectedSnapshot, typingUser, steps>>

\* Of the first document, whichever one is active.
SelectSnapshot(s) ==
  /\ activeTab = "history"
  /\ selectedSnapshot' = s
  /\ UNCHANGED <<docVars, talkVars, activeTab, typingUser, steps>>

Rewind ==
  /\ activeTab = "history" /\ selectedSnapshot # NoSnapshot
  /\ docContent' = selectedSnapshot.content
  /\ activeTab' = "editor"
  /\ UNCHANGED <<documents, activeDoc, edits, talkVars, selectedSnapshot, typingUser, steps>>

Next ==
  \/ \E text \in Text : HandleDocChange(text)
  \/ \E word \in Name \cup {"prose"} : WriteComment(word)
  \/ \E i \in DOMAIN documents : SelectDocument(i)
  \/ \E id \in NewId : HandleCreateNewDoc(id)
  \/ \E t \in {"editor", "history"} : OpenTab(t)
  \/ \E s \in INITIAL_SNAPSHOTS : SelectSnapshot(s)
  \/ TypingTimer \/ HandlePostComment \/ Rewind

Spec == Init /\ [][Next]_vars

-----------------------------------------------------------------------------
(***************************************************************************)
(* Properties                                                              *)
(***************************************************************************)
CollaborativeDoc == [id : NewId \cup {"doc_arch_01", "doc_sec_02"},
                     content : Text \cup {"arch_v4", "sec_v2", "new"}, version : Nat \ {0}]

\* Types of the three copies, the discussion and the tabs.
TypeOK ==
  /\ documents \in Seq(CollaborativeDoc) /\ activeDoc \in CollaborativeDoc
  /\ draft \in Seq(Name \cup {"prose"}) /\ activeTab \in {"editor", "history"} /\ typingUser \in BOOLEAN
  /\ selectedSnapshot \in INITIAL_SNAPSHOTS \cup {NoSnapshot} /\ steps \in 0 .. MaxSteps

\* Who was notified of the comments posted here, the latest first.
Notified ==
  LET sofar[n \in 2 .. Len(comments)] == IF n = 2 THEN <<"you">> ELSE comments[n].mentions \o sofar[n - 1]
  IN sofar[Len(comments)]

\* Whatever is edited, rewound, created or selected, the active document is a
\* row with the edits since its selection on top; the editor shows it or a
\* snapshot just rewound to; every comment is in the feed, and everyone it
\* mentions was notified.
EditsAndMentionsKept ==
  /\ \E row \in Range(documents) : row.id = activeDoc.id /\ activeDoc.version = row.version + edits
  /\ edits = 0 => activeDoc \in Range(documents)
  /\ docContent # activeDoc.content => docContent \in {s.content : s \in INITIAL_SNAPSHOTS}
  /\ Len(activityFeed) - Len(INITIAL_ACTIVITY) = Len(comments) - Len(INITIAL_COMMENTS)
  /\ notifications = Notified
=============================================================================
