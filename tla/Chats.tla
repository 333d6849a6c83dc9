------------------------------- MODULE Chats -------------------------------
(***************************************************************************)
(* The dashboard's conversation with the LLM.  History and chat id are     *)
(* module globals.  A handler appends the question, waits for an executor  *)
(* thread to get the answer, and appends that; between the two, other      *)
(* questions are asked and the history is cleared.  Questions are numbered *)
(* in the order they are asked; an entry is <<"q" or "a", number>>.        *)
(***************************************************************************)
EXTENDS Naturals, Sequences

CONSTANTS
  MaxChatMessages,   \* MAX_CHAT_MESSAGES
  MaxQuestions,      \* bound: questions asked
  MaxClears          \* bound: times the history is cleared

ChatsAssumption == MaxChatMessages \in Nat \ {0} /\ MaxQuestions \in Nat /\ MaxClears \in Nat

NoChat == 0

VARIABLES
  history, chatId,   \* _chat_history, _owui_chat_id
  asked, pending,    \* questions so far, those whose answer is awaited
  usesChat,          \* the chat a pending question talks in, once its thread runs
  chats, clears      \* chats created in Open WebUI, clears so far

chatsVars == <<history, chatId, asked, pending, usesChat, chats, clears>>

Entry == {"q", "a"} \X (1..MaxQuestions)

ChatsTypeOK ==
  /\ history \in Seq(Entry)
  /\ asked \in 0..MaxQuestions /\ pending \subseteq 1..asked
  /\ chats \in Nat /\ chatId \in 0..chats
  /\ usesChat \in [1..MaxQuestions -> 0..chats]
  /\ clears \in 0..MaxClears

ChatsInit ==
  /\ history = <<>> /\ chatId = NoChat /\ asked = 0 /\ pending = {}
  /\ usesChat = [n \in 1..MaxQuestions |-> NoChat] /\ chats = 0 /\ clears = 0

(* Mutant: the cap keeps the oldest entries.                               *)
CappedOldest(h) == IF Len(h) > MaxChatMessages THEN SubSeq(h, 1, MaxChatMessages) ELSE h
Capped(h) == IF Len(h) > MaxChatMessages
             THEN SubSeq(h, Len(h) - MaxChatMessages + 1, Len(h)) ELSE h

-----------------------------------------------------------------------------
(* action_chat_send up to the executor.                                    *)
Ask ==
  /\ asked < MaxQuestions
  /\ asked' = asked + 1 /\ pending' = pending \cup {asked + 1}
  /\ history' = Append(history, <<"q", asked + 1>>)
  /\ UNCHANGED <<chatId, usesChat, chats, clears>>

(* No adapter, or one that does not answer: an early return, which does    *)
(* not cap the history.                                                    *)
AskUnavailable ==
  /\ asked < MaxQuestions
  /\ asked' = asked + 1
  /\ history' = history \o << <<"q", asked + 1>>, <<"a", asked + 1>> >>
  /\ UNCHANGED <<chatId, pending, usesChat, chats, clears>>

(* chat_with_persistence in the thread: it reads the chat id when it       *)
(* starts and creates a chat when there is none, which may fail.           *)
OpenChat(n) ==
  /\ n \in pending /\ usesChat[n] = NoChat
  /\ IF chatId # NoChat
     THEN usesChat' = [usesChat EXCEPT ![n] = chatId] /\ UNCHANGED chats
     ELSE chats' = chats + 1 /\ usesChat' = [usesChat EXCEPT ![n] = chats + 1]
  /\ UNCHANGED <<history, chatId, asked, pending, clears>>

(* The handler goes on: the chat id of this question becomes the current   *)
(* one, an answer or an error is appended, the history is capped.          *)
Answer(n) ==
  /\ n \in pending
  /\ chatId' = IF usesChat[n] # NoChat THEN usesChat[n] ELSE chatId
  /\ history' = Capped(Append(history, <<"a", n>>))
  /\ pending' = pending \ {n}
  /\ UNCHANGED <<asked, usesChat, chats, clears>>

Clear ==
  /\ clears < MaxClears /\ clears' = clears + 1
  /\ history' = <<>> /\ chatId' = NoChat
  /\ UNCHANGED <<asked, pending, usesChat, chats>>

ChatsNext ==
  \/ Ask \/ AskUnavailable \/ Clear
  \/ \E n \in 1..MaxQuestions : OpenChat(n) \/ Answer(n)

ChatsSpec == ChatsInit /\ [][ChatsNext]_chatsVars

-----------------------------------------------------------------------------
(* routes.py:2895-2950.  A question shown in the history that is not being *)
(* answered any more is followed by its answer, whatever other questions   *)
(* ran beside it and wherever the history was capped or cleared.           *)
QuestionsGetAnswers ==
  \A i \in DOMAIN history :
    LET n == history[i][2] IN
    history[i][1] = "q" /\ n \notin pending =>
      \E j \in DOMAIN history : j > i /\ history[j] = <<"a", n>>
=============================================================================
