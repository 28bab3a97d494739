------------------------------- MODULE Assistant -------------------------------
(***************************************************************************)
(* The AI assistant beside the chat: the panel of the window (UI thread),  *)
(* the worker thread of each of its tasks, whose result comes back as a    *)
(* queued signal, the conversations it stores, and the launcher's          *)
(* commands, other processes on the same store.  Of a question, an answer  *)
(* or a document only the chat it is about is kept.                        *)
(***************************************************************************)
EXTENDS Naturals

CONSTANTS
    Chats,          \* contacts and groups
    GroupChats,     \* those that are groups, with a document library
    MaxAsks,        \* bound on questions
    MaxReads,       \* bound on other tasks in flight
    NoChat

ASSUME AssistantAssumption ==
    /\ GroupChats \subseteq Chats /\ NoChat \notin Chats
    /\ MaxAsks \in Nat /\ MaxReads \in Nat

VARIABLES
    chat,           \* active_target
    conversation,   \* ai_conversation_id, 0 for none
    taskRunning,    \* _task_running
    reads, writes,  \* tasks in flight: status and sources; build, delete, restore
    asks,           \* the questions asked, each with the thread that carries it
    scope,          \* [Conversations -> chat of the row in ai_conversations]
    said,           \* [Conversations -> chats its rows in ai_messages are about]
    crossed,        \* history: a text about another chat than the one asked in
                    \* was sent to the provider
    mixed           \* history: "panel" once another chat was selected before an
                    \* answer came, "launcher" once the launcher went on with a
                    \* conversation of another chat

assistantVars == <<chat, conversation, taskRunning, reads, writes, asks, scope, said,
                   crossed, mixed>>
panel == <<chat, conversation, taskRunning, reads, writes, mixed>>

Conversations == 1 .. MaxAsks
Unasked == [at |-> "none", by |-> "panel", chat |-> NoChat, conv |-> 0, recent |-> {}, ok |-> FALSE]
Pending(k) == asks[k].by = "panel" /\ asks[k].at \notin {"none", "done"}

\* The panel before a chat is chosen; an earlier session's conversations are
\* not continued, an id is never used twice.
AssistantInit ==
    /\ chat = NoChat /\ conversation = 0 /\ taskRunning = FALSE
    /\ reads = 0 /\ writes = 0
    /\ asks = [k \in Conversations |-> Unasked]
    /\ scope = [c \in Conversations |-> NoChat]
    /\ said = [c \in Conversations |-> {}]
    /\ crossed = FALSE /\ mixed = {}

-----------------------------------------------------------------------------
(* The panel. *)

\* Mutant of AfterSelect: the conversation goes on in the next chat.
AfterSelectKept == conversation

\* The conversation a newly selected chat begins with.
AfterSelect == 0

\* refresh_context of a group: status and sources are read, also while another
\* task runs.
Refresh(c) ==
    IF c \in GroupChats THEN reads' = reads + 2 /\ taskRunning' = TRUE
    ELSE UNCHANGED <<reads, taskRunning>>

Room(n) == reads + 2 * writes + n <= MaxReads

SelectChat(c) ==
    /\ c \in GroupChats => Room(2)
    /\ chat' = c /\ conversation' = AfterSelect
    /\ Refresh(c)
    /\ mixed' = mixed \cup
          IF c # chat /\ \E k \in Conversations : Pending(k) THEN {"panel"} ELSE {}
    /\ UNCHANGED <<writes, asks, scope, said, crossed>>

\* The buttons are enabled when no task runs: search_sources,
SearchSources ==
    /\ chat \in GroupChats /\ ~taskRunning /\ Room(1)
    /\ reads' = reads + 1 /\ taskRunning' = TRUE
    /\ UNCHANGED <<chat, conversation, writes, asks, scope, said, crossed, mixed>>

\* build, diagnose, delete, restore, and a question.
StartWrite ==
    /\ chat \in GroupChats /\ ~taskRunning /\ Room(2)
    /\ writes' = writes + 1 /\ taskRunning' = TRUE
    /\ UNCHANGED <<chat, conversation, reads, asks, scope, said, crossed, mixed>>

AskQuestion(k) ==
    /\ chat # NoChat /\ ~taskRunning
    /\ asks[k] = Unasked /\ \A j \in 1 .. k - 1 : asks[j] # Unasked
    /\ asks' = [asks EXCEPT ![k].at = "start", ![k].chat = chat]
    /\ taskRunning' = TRUE
    /\ UNCHANGED <<chat, conversation, reads, writes, scope, said, crossed, mixed>>

\* _on_task_finished: the flag is reset whatever else still runs.
FinishRead ==
    /\ reads > 0 /\ reads' = reads - 1
    /\ taskRunning' = FALSE
    /\ UNCHANGED <<chat, conversation, writes, asks, scope, said, crossed, mixed>>

\* A build searches the sources again, a deletion or restore refreshes all.
FinishWrite ==
    /\ writes > 0 /\ writes' = writes - 1
    /\ \E more \in 0 .. 2 :
          /\ reads' = reads + more
          /\ taskRunning' = (more # 0)
    /\ UNCHANGED <<chat, conversation, asks, scope, said, crossed, mixed>>

\* The answer's conversation becomes the panel's, whichever chat is open now.
FinishAsk(k) ==
    /\ asks[k].at = "answered"
    /\ asks' = [asks EXCEPT ![k] = [Unasked EXCEPT !.at = "done"]]
    /\ IF asks[k].by = "panel"
       THEN /\ taskRunning' = FALSE
            /\ conversation' = IF asks[k].ok THEN asks[k].conv ELSE conversation
       ELSE UNCHANGED <<taskRunning, conversation>>
    /\ UNCHANGED <<chat, reads, writes, scope, said, crossed, mixed>>

-----------------------------------------------------------------------------
(* A question in its thread: one action per access to the store. *)

NowAt(k, at) == asks' = [asks EXCEPT ![k].at = at]
Fails(k) == asks' = [asks EXCEPT ![k].at = "answered", ![k].recent = {}]

\* ask_ai_assistant: chat and question are the panel's when it was asked, the
\* conversation is read when the thread runs.  It may be refused.
AskStart(k) ==
    /\ asks[k].at = "start"
    /\ \/ asks' = [asks EXCEPT ![k].at = "open", ![k].conv = conversation]
       \/ Fails(k)
    /\ UNCHANGED <<panel, scope, said, crossed>>

\* get_or_create: a row that exists is taken whatever it is about.
AskOpen(k) ==
    LET c == IF asks[k].conv = 0 THEN k ELSE asks[k].conv IN
    /\ asks[k].at = "open"
    /\ scope' = [scope EXCEPT ![c] = IF @ = NoChat THEN asks[k].chat ELSE @]
    /\ asks' = [asks EXCEPT ![k].at = "question", ![k].conv = c]
    /\ UNCHANGED <<panel, said, crossed>>

AddMessage(k) == said' = [said EXCEPT ![asks[k].conv] = @ \cup {asks[k].chat}]

\* recent_messages (of a long conversation the last turns).
Recent(c) == said[c]

\* retrieve_for_rag may find nothing on a question.
Unanswerable(k) == asks[k].chat \in GroupChats

\* prepare_context reads the recent messages, then the question
\* is stored; a group whose library has nothing on it is answered without the
\* provider.
AskSay(k) ==
    /\ asks[k].at = "question"
    /\ AddMessage(k)
    /\ \/ asks' = [asks EXCEPT ![k].at = "provider", ![k].recent = Recent(asks[k].conv)]
       \/ Unanswerable(k) /\ NowAt(k, "answer")
    /\ UNCHANGED <<panel, scope, crossed>>

\* The chat's own latest messages and documents (_message_context).
Context(k) == {asks[k].chat}

\* The chats the texts of the prompt are about, the conversation's included.
Prompt(k) == asks[k].recent \cup Context(k)

\* What was sent may still fail, and then the question has no answer.
AskProvider(k) ==
    /\ asks[k].at = "provider"
    /\ \/ Fails(k) /\ UNCHANGED crossed
       \/ /\ crossed' = (crossed \/ Prompt(k) # {asks[k].chat})
          /\ Fails(k) \/ asks' = [asks EXCEPT ![k].at = "answer", ![k].recent = {}]
    /\ UNCHANGED <<panel, scope, said>>

AskAnswer(k) ==
    /\ asks[k].at = "answer"
    /\ AddMessage(k)
    /\ asks' = [asks EXCEPT ![k].at = "answered", ![k].recent = {}, ![k].ok = TRUE]
    /\ UNCHANGED <<panel, scope, crossed>>

-----------------------------------------------------------------------------
(* The launcher's commands. *)

\* The chats a conversation is about: by its row, its messages, the questions
\* that go on in it, the panel.
About(c) ==
    ({scope[c]} \cup said[c] \cup {asks[k].chat : k \in {j \in Conversations : asks[j].conv = c}}
        \cup IF conversation = c THEN {chat} ELSE {}) \ {NoChat}

\* cmd_ai_ask, in a new conversation or one the launcher has selected, which may
\* be another chat's: an answer that comes late selects its own, and neither the
\* command nor get_or_create compares it with the group.
LauncherAsk(k, c) ==
    \E g \in GroupChats :
       /\ asks[k] = Unasked /\ \A j \in 1 .. k - 1 : asks[j] # Unasked
       /\ c # 0 => About(c) # {}
       /\ asks' = [asks EXCEPT ![k] = [@ EXCEPT !.at = "open", !.by = "launcher", !.chat = g, !.conv = c]]
       /\ mixed' = mixed \cup IF c # 0 /\ About(c) # {g} THEN {"launcher"} ELSE {}
       /\ UNCHANGED <<chat, conversation, taskRunning, reads, writes, scope, said, crossed>>

LauncherClear(c) ==
    /\ scope[c] # NoChat /\ said' = [said EXCEPT ![c] = {}]
    /\ UNCHANGED <<panel, asks, scope, crossed>>

\* The row goes; its messages stay, as no connection turns foreign keys on.
LauncherDelete(c) ==
    /\ scope[c] # NoChat /\ scope' = [scope EXCEPT ![c] = NoChat]
    /\ UNCHANGED <<panel, asks, said, crossed>>

-----------------------------------------------------------------------------
AskStep(k) ==
    AskStart(k) \/ AskOpen(k) \/ AskSay(k) \/ AskProvider(k) \/ AskAnswer(k) \/ FinishAsk(k)

TaskStep == FinishRead \/ FinishWrite \/ \E k \in Conversations : AskStep(k)

AssistantNext ==
    \/ TaskStep \/ SearchSources \/ StartWrite
    \/ \E c \in Chats : SelectChat(c)
    \/ \E k \in Conversations : AskQuestion(k) \/ \E c \in 0 .. MaxAsks : LauncherAsk(k, c)
    \/ \E c \in Conversations : LauncherClear(c) \/ LauncherDelete(c)

AssistantSpec == AssistantInit /\ [][AssistantNext]_assistantVars

-----------------------------------------------------------------------------
AssistantTypeOK ==
    /\ chat \in Chats \cup {NoChat} /\ conversation \in 0 .. MaxAsks
    /\ taskRunning \in BOOLEAN /\ reads \in 0 .. MaxReads /\ writes \in 0 .. MaxReads
    /\ scope \in [Conversations -> Chats \cup {NoChat}]
    /\ said \in [Conversations -> SUBSET Chats]
    /\ crossed \in BOOLEAN /\ mixed \subseteq {"panel", "launcher"}

\* ContextStaysInChat: what a question sends to the provider is about the chat
\* it was asked in, over changes of the chat, tasks that come back in any order
\* and the launcher's commands, unless the user changed the chat while an
\* answer was pending or the launcher went on with a conversation of another
\* chat.
ContextStaysInChat == mixed = {} => ~crossed

\* OnlyThisChat: the same without the panel's exception, as the panel tells the
\* user ("will be sent: the current question and the recent messages of this
\* direct chat; the project's document library is not read",
\* main_window.py:1611).
OnlyThisChat == "launcher" \notin mixed => ~crossed
=============================================================================
