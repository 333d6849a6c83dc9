--------------------------- MODULE Services_proofs ---------------------------
(***************************************************************************)
(* Proofs about the services: the backoff of the LLM adapter, the          *)
(* dashboard's chat, the knowledge sync and the log stream; for any        *)
(* callers, questions, files and viewers, any limits and any failures.     *)
(***************************************************************************)
EXTENDS Backoff, Chats, Knowledge, LogStream, TLAPS, FiniteSetTheorems,
        SequenceTheorems

(* The backoff of the LLM adapter.                                         *)
NumCallers  == Cardinality(Callers)
BusyCallers == {t \in Callers : call[t] # "none"}
Budget(b)   == MaxBackoff * (NumCallers - b)

(* No call is admitted while calls are refused, so the calls under way get *)
(* fewer, and each can prolong the silence once, by one backoff.           *)
BudgetHolds ==
  /\ left = 0 => silent = 0
  /\ left > 0 => silent + left <= Budget(Cardinality(BusyCallers))

BackoffInv == BackoffTypeOK /\ BudgetHolds

LEMMA BackoffNumbers ==
  ASSUME BackoffAssumption
  PROVE  /\ NumCallers \in Nat \ {0} /\ MaxBackoff \in Nat \ {0} /\ IsFiniteSet(Callers)
         /\ Tolerance \in Nat \ {0} /\ MaxFails \in Nat
         /\ Budget(0) = MaxBackoff * NumCallers
<1>1. IsFiniteSet(Callers) /\ Callers # {} /\ MaxBackoff \in Nat \ {0} /\ Tolerance \in Nat \ {0}
      /\ MaxFails \in Nat
  BY DEF BackoffAssumption
<1>2. NumCallers \in Nat /\ NumCallers # 0
  BY <1>1, FS_CardinalityType, FS_EmptySet DEF NumCallers
<1>3. NumCallers - 0 = NumCallers
  BY <1>2
<1> QED BY <1>1, <1>2, <1>3 DEF Budget

LEMMA BusyCounted ==
  ASSUME BackoffAssumption
  PROVE  Cardinality(BusyCallers) \in 0..NumCallers /\ IsFiniteSet(BusyCallers)
<1>1. BusyCallers \in SUBSET Callers /\ IsFiniteSet(Callers)
  BY BackoffNumbers DEF BusyCallers
<1>2. IsFiniteSet(BusyCallers) /\ Cardinality(BusyCallers) <= NumCallers
  BY <1>1, FS_Subset DEF NumCallers
<1>3. Cardinality(BusyCallers) \in Nat
  BY <1>2, FS_CardinalityType
<1> QED BY <1>2, <1>3, BackoffNumbers

(* Every call that ends adds one backoff to the budget.                    *)
LEMMA BudgetGrows ==
  ASSUME BackoffAssumption, NEW b \in 0..NumCallers
  PROVE  /\ Budget(b) \in Nat /\ Budget(b) <= Budget(0)
         /\ b > 0 => Budget(b - 1) = Budget(b) + MaxBackoff
<1>1. MaxBackoff \in Nat \ {0} /\ NumCallers \in Nat
  BY BackoffNumbers
<1> DEFINE d == NumCallers - b
<1>2. d \in Nat /\ NumCallers = d + b /\ b \in Nat /\ Budget(b) = MaxBackoff * d
  BY <1>1 DEF Budget
<1>3. NumCallers - (b - 1) = d + 1 /\ NumCallers - 0 = d + b
  BY <1>1
<1> HIDE DEF d
<1>4. MaxBackoff * (d + 1) = MaxBackoff * d + MaxBackoff
  BY <1>1, <1>2
<1>5. MaxBackoff * (d + b) = MaxBackoff * d + MaxBackoff * b
  BY <1>1, <1>2
<1>6. MaxBackoff * d \in Nat /\ MaxBackoff * b \in Nat
  BY <1>1, <1>2
<1> QED BY <1>2, <1>3, <1>4, <1>5, <1>6 DEF Budget

LEMMA BackoffInitially == ASSUME BackoffAssumption PROVE BackoffInit => BackoffInv
<1> SUFFICES ASSUME BackoffInit PROVE BackoffInv
  OBVIOUS
<1>n. MaxFails \in Nat /\ MaxBackoff \in Nat \ {0}
  BY BackoffNumbers
<1>1. 0 \in 0..MaxFails /\ 0 \in 0..MaxBackoff /\ 0 \in Nat
  BY <1>n
<1>2. /\ up \in BOOLEAN /\ path = "" /\ fails = 0 /\ cooling = FALSE /\ left = 0 /\ silent = 0
      /\ call \in [Callers -> {"none", "admitted", "sent"}]
  BY DEF BackoffInit
<1>3. BackoffTypeOK
  BY <1>1, <1>2 DEF BackoffTypeOK
<1>4. BudgetHolds
  <2>0. left = 0
    BY <1>2
  <2>1. ~(left > 0)
    BY <2>0
  <2> QED BY <1>2, <2>1 DEF BudgetHolds
<1> QED BY <1>3, <1>4 DEF BackoffInv

(* A call that ends frees its thread.                                      *)
LEMMA CallEnds ==
  ASSUME BackoffAssumption, BackoffTypeOK, NEW t \in Callers,
         call[t] = "sent", call' = [call EXCEPT ![t] = "none"]
  PROVE  /\ call' \in [Callers -> {"none", "admitted", "sent"}]
         /\ Cardinality(BusyCallers) \in 1..NumCallers /\ Cardinality(BusyCallers)' = Cardinality(BusyCallers) - 1
<1>1. call \in [Callers -> {"none", "admitted", "sent"}]
  BY DEF BackoffTypeOK
<1>2. BusyCallers' = BusyCallers \ {t} /\ t \in BusyCallers
  BY <1>1 DEF BusyCallers
<1>3. Cardinality(BusyCallers)' = Cardinality(BusyCallers) - 1
  BY <1>2, BusyCounted, FS_RemoveElement
<1>4. Cardinality(BusyCallers) # 0
  BY <1>2, BusyCounted, FS_EmptySet
<1> QED BY <1>1, <1>3, <1>4, BusyCounted, BackoffNumbers

LEMMA FailureCounted ==
  ASSUME BackoffAssumption, BackoffInv, NEW t \in Callers, Failed(t)
  PROVE  BackoffInv'
<1>t. BackoffTypeOK /\ BudgetHolds
  BY DEF BackoffInv
<1>n. MaxFails \in Nat /\ MaxBackoff \in Nat \ {0} /\ Tolerance \in Nat \ {0}
  BY BackoffNumbers
<1> DEFINE n == CappedFails(fails + 1)
           b == Cardinality(BusyCallers)
<1>1. /\ call[t] = "sent" /\ call' = [call EXCEPT ![t] = "none"]
      /\ fails' = n /\ silent' = silent /\ UNCHANGED <<up, path>>
      /\ IF n >= Tolerance THEN cooling' = TRUE /\ left' = Pause(n)
         ELSE UNCHANGED <<cooling, left>>
  BY DEF Failed, RecordFailure
<1>2. n \in 0..MaxFails
  <2>1. fails \in 0..MaxFails
    BY <1>t DEF BackoffTypeOK
  <2> QED BY <1>n, <2>1 DEF CappedFails
<1>3. n >= Tolerance => Pause(n) \in 1..MaxBackoff
  BY <1>2, <1>n DEF BackoffAssumption
<1>4. /\ call' \in [Callers -> {"none", "admitted", "sent"}]
      /\ b \in 1..NumCallers /\ Cardinality(BusyCallers)' = b - 1
  BY <1>1, <1>t, CallEnds
<1>5. /\ Budget(b) \in Nat /\ Budget(b - 1) = Budget(b) + MaxBackoff
  BY <1>4, BudgetGrows, BackoffNumbers
<1> HIDE DEF n, b
<1>6. left \in 0..MaxBackoff /\ silent \in Nat
  BY <1>t DEF BackoffTypeOK
<1>7. /\ left' \in 0..MaxBackoff
      /\ left' # left => left' > 0 /\ left' <= MaxBackoff
  BY <1>1, <1>3, <1>6, <1>n
<1>8. BackoffTypeOK'
  <2>1. ~cooling' => left' = 0
    BY <1>1, <1>t DEF BackoffTypeOK
  <2>2. cooling' \in BOOLEAN
    BY <1>1, <1>t DEF BackoffTypeOK
  <2> QED BY <1>1, <1>2, <1>4, <1>6, <1>7, <1>t, <2>1, <2>2 DEF BackoffTypeOK
<1>9. left > 0 => silent + left <= Budget(b)
  BY <1>t DEF BudgetHolds, b
<1>10. left = 0 => silent = 0
  BY <1>t DEF BudgetHolds
<1>11. left' > 0 => silent + left' <= Budget(b) + MaxBackoff
  <2>1. silent <= Budget(b)
    BY <1>5, <1>6, <1>9, <1>10, <1>n
  <2> QED BY <1>5, <1>6, <1>7, <1>n, <2>1
<1>12. BudgetHolds'
  <2>1. Budget(Cardinality(BusyCallers))' = Budget(b) + MaxBackoff
    BY <1>4, <1>5 DEF Budget, NumCallers
  <2>2. left' = 0 => silent' = 0
    BY <1>1, <1>7, <1>10, <1>6
  <2> QED BY <1>1, <1>11, <2>1, <2>2 DEF BudgetHolds
<1> QED BY <1>8, <1>12 DEF BackoffInv

LEMMA EmptyAnswer ==
  ASSUME BackoffAssumption, BackoffInv, NEW t \in Callers, AnsweredEmpty(t)
  PROVE  BackoffInv'
<1>t. BackoffTypeOK /\ BudgetHolds
  BY DEF BackoffInv
<1> DEFINE b == Cardinality(BusyCallers)
<1>1. /\ call[t] = "sent" /\ call' = [call EXCEPT ![t] = "none"]
      /\ UNCHANGED <<up, path, fails, cooling, left, silent>>
  BY DEF AnsweredEmpty
<1>2. /\ call' \in [Callers -> {"none", "admitted", "sent"}]
      /\ b \in 1..NumCallers /\ Cardinality(BusyCallers)' = b - 1
  BY <1>1, <1>t, CallEnds
<1>3. Budget(b) \in Nat /\ Budget(b - 1) = Budget(b) + MaxBackoff /\ MaxBackoff \in Nat
  BY <1>2, BudgetGrows, BackoffNumbers
<1>4. BackoffTypeOK'
  BY <1>1, <1>2, <1>t DEF BackoffTypeOK
<1>5. Budget(Cardinality(BusyCallers))' = Budget(b - 1)
  BY <1>2 DEF Budget, NumCallers
<1>6. BudgetHolds'
  <2>0. left \in 0..MaxBackoff /\ silent \in Nat
    BY <1>t DEF BackoffTypeOK
  <2>1. left \in Nat /\ silent \in Nat
    BY <1>3, <2>0
  <2>2. left > 0 => silent + left <= Budget(b)
    BY <1>t DEF BudgetHolds
  <2>3. left > 0 => silent + left <= Budget(b) + MaxBackoff
    <3> HIDE DEF b
    <3> QED BY <1>3, <2>1, <2>2
  <2>4. left = 0 => silent = 0
    BY <1>t DEF BudgetHolds
  <2>5. Budget(Cardinality(BusyCallers))' = Budget(b) + MaxBackoff
    BY <1>3, <1>5
  <2> QED BY <1>1, <2>3, <2>4, <2>5 DEF BudgetHolds
<1> QED BY <1>4, <1>6 DEF BackoffInv

(* A step after which no call is refused, or one that only passes time.    *)
LEMMA Refuses ==
  ASSUME BackoffAssumption, BackoffInv, BackoffTypeOK', left' = 0 => silent' = 0,
         left' > 0 => /\ BusyCallers' = BusyCallers /\ left > 0
                      /\ silent' + left' = silent + left
  PROVE  BackoffInv'
BY DEF BackoffInv, BudgetHolds, Budget, NumCallers

LEMMA CallStep ==
  ASSUME BackoffAssumption, BackoffInv,
         \/ ServerChanges \/ Tick \/ UNCHANGED backoffVars
         \/ \E t \in Callers : Refuse(t) \/ Admit(t) \/ Send(t) \/ Answered(t)
  PROVE  BackoffInv'
<1>t. BackoffTypeOK /\ BudgetHolds /\ MaxBackoff \in Nat \ {0}
  BY BackoffNumbers DEF BackoffInv
<1>z. left \in 0..MaxBackoff /\ silent \in Nat /\ (left = 0 => silent = 0)
  BY <1>t DEF BackoffTypeOK, BudgetHolds
<1>1. CASE ServerChanges \/ UNCHANGED backoffVars
  <2>1. up' \in BOOLEAN /\ UNCHANGED <<path, fails, cooling, left, call, silent>>
    BY <1>1, <1>t DEF ServerChanges, backoffVars, BackoffTypeOK
  <2>2. BackoffTypeOK' /\ BusyCallers' = BusyCallers
    BY <1>t, <2>1 DEF BackoffTypeOK, BusyCallers
  <2> QED BY <1>z, <2>1, <2>2, Refuses
<1>2. CASE Tick
  <2>1. /\ left > 0 /\ left' = left - 1 /\ silent' = (IF left > 1 THEN silent + 1 ELSE 0)
        /\ UNCHANGED <<up, path, fails, cooling, call>>
    BY <1>2 DEF Tick, Refusing
  <2>2. left' \in 0..MaxBackoff /\ silent' \in Nat
    BY <1>z, <1>t, <2>1
  <2>3. BackoffTypeOK' /\ BusyCallers' = BusyCallers
    <3>0. left # 0
      BY <1>z, <2>1
    <3>1. cooling = TRUE
      BY <1>t, <3>0 DEF BackoffTypeOK
    <3> QED BY <1>t, <2>1, <2>2, <3>1 DEF BackoffTypeOK, BusyCallers
  <2>4. left' = 0 => silent' = 0
    BY <1>z, <2>1
  <2>5. left' > 0 => silent' + left' = silent + left
    BY <1>z, <2>1
  <2> QED BY <2>1, <2>3, <2>4, <2>5, Refuses
<1>3. ASSUME NEW t \in Callers, Refuse(t) \/ Admit(t) \/ Send(t) \/ Answered(t)
      PROVE  BackoffInv'
  <2>1. CASE Refuse(t)
    <3>1. UNCHANGED <<up, path, fails, cooling, left, call, silent>>
      BY <2>1 DEF Refuse, backoffVars
    <3>2. BackoffTypeOK' /\ BusyCallers' = BusyCallers
      BY <1>t, <3>1 DEF BackoffTypeOK, BusyCallers
    <3> QED BY <1>z, <3>1, <3>2, Refuses
  <2>2. CASE Admit(t)
    <3>1. /\ left = 0 /\ cooling' = FALSE /\ call' = [call EXCEPT ![t] = "admitted"]
          /\ UNCHANGED <<up, path, fails, left, silent>>
      BY <1>z, <2>2 DEF Admit, Refusing
    <3>2. BackoffTypeOK'
      BY <1>t, <3>1 DEF BackoffTypeOK
    <3> QED BY <1>z, <3>1, <3>2, Refuses
  <2>3. CASE Send(t)
    <3>1. /\ call[t] = "admitted" /\ call' = [call EXCEPT ![t] = "sent"]
          /\ path' \in {"", "detected", "default"}
          /\ UNCHANGED <<up, fails, cooling, left, silent>>
      BY <1>t, <2>3 DEF Send, BackoffTypeOK
    <3>2. BackoffTypeOK' /\ BusyCallers' = BusyCallers
      BY <1>t, <3>1 DEF BackoffTypeOK, BusyCallers
    <3> QED BY <1>z, <3>1, <3>2, Refuses
  <2>4. CASE Answered(t)
    <3>1. /\ fails' = 0 /\ cooling' = FALSE /\ left' = 0 /\ silent' = 0
          /\ call' = [call EXCEPT ![t] = "none"] /\ UNCHANGED <<up, path>>
      BY <2>4 DEF Answered, RecordSuccess
    <3>2. BackoffTypeOK'
      <4>1. 0 \in 0..MaxFails /\ 0 \in 0..MaxBackoff /\ 0 \in Nat
        BY BackoffNumbers
      <4>2. call' \in [Callers -> {"none", "admitted", "sent"}]
        BY <1>t, <3>1 DEF BackoffTypeOK
      <4> QED BY <1>t, <3>1, <4>1, <4>2 DEF BackoffTypeOK
    <3> QED BY <3>1, <3>2, Refuses
  <2> QED BY <1>3, <2>1, <2>2, <2>3, <2>4
<1> QED BY <1>1, <1>2, <1>3

LEMMA BackoffSteps == ASSUME BackoffAssumption, BackoffInv, [BackoffNext]_backoffVars PROVE BackoffInv'
BY FailureCounted, EmptyAnswer, CallStep DEF BackoffNext

(* Every variable of the backoff keeps its type.                           *)
THEOREM BackoffTypeCorrect == ASSUME BackoffAssumption PROVE BackoffSpec => []BackoffTypeOK
<1>1. BackoffInv /\ [BackoffNext]_backoffVars => BackoffInv'
  BY BackoffSteps
<1>2. BackoffInv => BackoffTypeOK
  BY DEF BackoffInv
<1> QED BY <1>1, <1>2, BackoffInitially, PTL DEF BackoffSpec

(* llm_adapter.py:107-134.  However many threads share the adapter and     *)
(* whatever the server does, calls are not refused for as long as one full *)
(* backoff per thread.                                                     *)
THEOREM RefusalsAreBounded == ASSUME BackoffAssumption PROVE BackoffSpec => []RefusalsEnd
<1>1. BackoffInit => BackoffInv
  BY BackoffInitially
<1>2. BackoffInv /\ [BackoffNext]_backoffVars => BackoffInv'
  BY BackoffSteps
<1>3. BackoffInv => RefusalsEnd
  <2> SUFFICES ASSUME BackoffInv PROVE silent < MaxBackoff * NumCallers
    BY DEF RefusalsEnd, NumCallers
  <2>1. /\ left \in Nat /\ silent \in Nat /\ (left = 0 => silent = 0)
        /\ left > 0 => silent + left <= Budget(Cardinality(BusyCallers))
    <3>1. BackoffTypeOK /\ BudgetHolds /\ MaxBackoff \in Nat
      BY BackoffNumbers DEF BackoffInv
    <3>2. left \in 0..MaxBackoff /\ silent \in Nat
      BY <3>1 DEF BackoffTypeOK
    <3>3. left \in Nat
      BY <3>1, <3>2
    <3> QED BY <3>1, <3>2, <3>3 DEF BudgetHolds
  <2>2. /\ Budget(Cardinality(BusyCallers)) \in Nat /\ Budget(Cardinality(BusyCallers)) <= Budget(0)
        /\ Budget(0) = MaxBackoff * NumCallers /\ 0 \in 0..NumCallers
    BY BusyCounted, BudgetGrows, BackoffNumbers
  <2>3. Budget(0) \in Nat \ {0}
    <3>1. MaxBackoff \in Nat \ {0} /\ NumCallers \in Nat \ {0}
      BY BackoffNumbers
    <3>2. MaxBackoff * NumCallers = MaxBackoff * (NumCallers - 1) + MaxBackoff
      BY <3>1
    <3>3. MaxBackoff * (NumCallers - 1) \in Nat
      BY <3>1
    <3> QED BY <2>2, <3>1, <3>2, <3>3
  <2> QED BY <2>1, <2>2, <2>3
<1> QED BY <1>1, <1>2, <1>3, PTL DEF BackoffSpec

-----------------------------------------------------------------------------
(* The conversation with the LLM.  A list of entries in which every        *)
(* question that is not pending is followed by its answer.                 *)
Settled(h, awaited) ==
  \A i \in DOMAIN h :
    h[i][1] = "q" /\ h[i][2] \notin awaited =>
      \E j \in DOMAIN h : j > i /\ h[j] = <<"a", h[i][2]>>

ChatsInv == ChatsTypeOK /\ Settled(history, pending)

LEMMA ChatsInitially == ASSUME ChatsAssumption PROVE ChatsInit => ChatsInv
<1> SUFFICES ASSUME ChatsInit PROVE ChatsInv
  OBVIOUS
<1>1. ChatsTypeOK
  BY DEF ChatsInit, ChatsTypeOK, ChatsAssumption, NoChat
<1>2. Settled(history, pending)
  BY DEF ChatsInit, Settled
<1> QED BY <1>1, <1>2 DEF ChatsInv

(* The cap takes entries off the front, so what followed still does.       *)
LEMMA CapKeepsTheEnd ==
  ASSUME ChatsAssumption, NEW h \in Seq(Entry)
  PROVE  /\ Capped(h) \in Seq(Entry)
         /\ \E k \in 0..Len(h) : /\ Len(Capped(h)) = Len(h) - k /\ (Len(h) > 0 => k < Len(h))
                                 /\ \A i \in 1..(Len(h) - k) : Capped(h)[i] = h[i + k]
<1>1. MaxChatMessages \in Nat \ {0} /\ Len(h) \in Nat
  BY DEF ChatsAssumption
<1>2. CASE Len(h) > MaxChatMessages
  <2> DEFINE k == Len(h) - MaxChatMessages
  <2>1. k \in 0..Len(h) /\ k < Len(h) /\ Capped(h) = SubSeq(h, k + 1, Len(h))
    BY <1>1, <1>2 DEF Capped
  <2>2. /\ SubSeq(h, k + 1, Len(h)) \in Seq(Entry)
        /\ Len(SubSeq(h, k + 1, Len(h))) = Len(h) - k
        /\ \A i \in 1..(Len(h) - k) : SubSeq(h, k + 1, Len(h))[i] = h[i + k]
    BY <1>1, <2>1
  <2> QED BY <2>1, <2>2
<1>3. CASE ~(Len(h) > MaxChatMessages)
  BY <1>1, <1>3 DEF Capped
<1> QED BY <1>2, <1>3

LEMMA CapKeepsSettled ==
  ASSUME ChatsAssumption, NEW h \in Seq(Entry), NEW awaited, Settled(h, awaited)
  PROVE  Settled(Capped(h), awaited)
<1> DEFINE c == Capped(h)
<1>1. PICK k \in 0..Len(h) :
        /\ Len(c) = Len(h) - k
        /\ \A i \in 1..(Len(h) - k) : c[i] = h[i + k]
  BY CapKeepsTheEnd
<1>2. c \in Seq(Entry)
  BY CapKeepsTheEnd
<1> HIDE DEF c
<1>3. ASSUME NEW i \in DOMAIN c, c[i][1] = "q", c[i][2] \notin awaited
      PROVE  \E j \in DOMAIN c : j > i /\ c[j] = <<"a", c[i][2]>>
  <2>1. i \in 1..(Len(h) - k) /\ i + k \in DOMAIN h /\ c[i] = h[i + k]
    BY <1>1, <1>2, <1>3
  <2>2. PICK j \in DOMAIN h : j > i + k /\ h[j] = <<"a", c[i][2]>>
    BY <1>3, <2>1 DEF Settled
  <2>3. j - k \in DOMAIN c /\ j - k > i /\ c[j - k] = h[j]
    <3>1. Len(h) \in Nat /\ j \in 1..Len(h) /\ i \in Nat /\ k \in Nat
      BY <2>1, <2>2
    <3>2. j - k \in 1..(Len(h) - k) /\ j - k > i /\ (j - k) + k = j
      BY <2>2, <3>1
    <3>3. DOMAIN c = 1..(Len(h) - k)
      BY <1>1, <1>2
    <3> QED BY <1>1, <3>2, <3>3
  <2> QED BY <2>2, <2>3
<1> QED BY <1>3 DEF Settled, c

LEMMA AskStep ==
  ASSUME ChatsAssumption, ChatsInv, Ask \/ AskUnavailable
  PROVE  ChatsInv'
<1>1. /\ history \in Seq(Entry) /\ asked \in Nat /\ asked + 1 \in 1..MaxQuestions
      /\ asked' = asked + 1 /\ asked' \in 0..MaxQuestions
      /\ ChatsTypeOK /\ Settled(history, pending)
      /\ UNCHANGED <<chatId, usesChat, chats, clears>>
  <2>1. /\ asked \in 0..MaxQuestions /\ MaxQuestions \in Nat
        /\ history \in Seq(Entry) /\ ChatsTypeOK /\ Settled(history, pending)
    BY DEF ChatsInv, ChatsTypeOK, ChatsAssumption
  <2>2. /\ asked < MaxQuestions /\ asked' = asked + 1
        /\ UNCHANGED <<chatId, usesChat, chats, clears>>
    BY DEF Ask, AskUnavailable
  <2> QED BY <2>1, <2>2
<1>2. <<"q", asked + 1>> \in Entry /\ <<"a", asked + 1>> \in Entry
  BY <1>1 DEF Entry
<1>3. CASE Ask
  <2> DEFINE new == <<"q", asked + 1>>
  <2>1. history' = Append(history, new) /\ pending' = pending \cup {asked + 1}
    BY <1>3 DEF Ask
  <2> HIDE DEF new
  <2>2. /\ history' \in Seq(Entry) /\ Len(history') = Len(history) + 1
        /\ \A i \in 1..Len(history) : history'[i] = history[i]
        /\ history'[Len(history) + 1] = new
    BY <1>1, <1>2, <2>1 DEF new
  <2>3. ASSUME NEW i \in DOMAIN history', history'[i][1] = "q", history'[i][2] \notin pending'
        PROVE  \E j \in DOMAIN history' : j > i /\ history'[j] = <<"a", history'[i][2]>>
    <3>1. i # Len(history) + 1
      BY <2>1, <2>2, <2>3 DEF new
    <3>2. i \in DOMAIN history /\ history'[i] = history[i]
      BY <1>1, <2>2, <2>3, <3>1
    <3>3. PICK j \in DOMAIN history : j > i /\ history[j] = <<"a", history[i][2]>>
      BY <1>1, <2>1, <2>3, <3>2 DEF Settled
    <3>4. j \in DOMAIN history' /\ history'[j] = history[j]
      BY <1>1, <2>2
    <3> QED BY <3>2, <3>3, <3>4
  <2>4. pending' \subseteq 1..asked'
    BY <1>1, <2>1 DEF ChatsTypeOK
  <2>5. ChatsTypeOK'
    BY <1>1, <2>2, <2>4 DEF ChatsTypeOK
  <2> QED BY <2>3, <2>5 DEF ChatsInv, Settled
<1>4. CASE AskUnavailable
  <2> DEFINE q == <<"q", asked + 1>>
             a == <<"a", asked + 1>>
  <2>1. history' = history \o <<q, a>> /\ pending' = pending
    BY <1>4 DEF AskUnavailable
  <2>2. <<q, a>> \in Seq(Entry) /\ Len(<<q, a>>) = 2 /\ <<q, a>>[1] = q /\ <<q, a>>[2] = a
    BY <1>2
  <2>3. /\ history' \in Seq(Entry) /\ Len(history') = Len(history) + 2
        /\ \A i \in 1..Len(history) : history'[i] = history[i]
        /\ history'[Len(history) + 1] = q /\ history'[Len(history) + 2] = a
    <3> HIDE DEF q, a
    <3>1. /\ history' \in Seq(Entry) /\ Len(history') = Len(history) + 2
          /\ \A i \in 1..(Len(history) + 2) :
               history'[i] = IF i <= Len(history) THEN history[i] ELSE <<q, a>>[i - Len(history)]
      BY <1>1, <2>1, <2>2, ConcatProperties
    <3> QED BY <1>1, <2>2, <3>1
  <2>4. ASSUME NEW i \in DOMAIN history', history'[i][1] = "q", history'[i][2] \notin pending'
        PROVE  \E j \in DOMAIN history' : j > i /\ history'[j] = <<"a", history'[i][2]>>
    <3>1. Len(history) \in Nat /\ i \in 1..(Len(history) + 2)
      BY <1>1, <2>3
    <3>2. CASE i \in 1..Len(history)
      <4>1. i \in DOMAIN history /\ history'[i] = history[i]
        BY <1>1, <2>3, <3>2
      <4>2. PICK j \in DOMAIN history : j > i /\ history[j] = <<"a", history[i][2]>>
        BY <1>1, <2>1, <2>4, <4>1 DEF Settled
      <4>3. j \in DOMAIN history' /\ history'[j] = history[j]
        BY <1>1, <2>3
      <4> QED BY <4>1, <4>2, <4>3
    <3>3. CASE i = Len(history) + 1
      <4>1. Len(history) + 2 \in DOMAIN history' /\ Len(history) + 2 > i
        BY <2>3, <3>1, <3>3
      <4>2. history'[Len(history) + 2] = <<"a", history'[i][2]>>
        BY <2>3, <3>3
      <4> QED BY <4>1, <4>2
    <3>4. i # Len(history) + 2
      BY <2>3, <2>4
    <3> QED BY <3>1, <3>2, <3>3, <3>4
  <2>5. pending' \subseteq 1..asked'
    BY <1>1, <2>1 DEF ChatsTypeOK
  <2>6. ChatsTypeOK'
    BY <1>1, <2>3, <2>5 DEF ChatsTypeOK
  <2> QED BY <2>4, <2>6 DEF ChatsInv, Settled
<1> QED BY <1>3, <1>4

LEMMA AnswerStep ==
  ASSUME ChatsAssumption, ChatsInv, NEW n \in 1..MaxQuestions, Answer(n)
  PROVE  ChatsInv'
<1> DEFINE new == <<"a", n>>
           h   == Append(history, new)
<1>1. /\ history \in Seq(Entry) /\ ChatsTypeOK /\ Settled(history, pending)
      /\ history' = Capped(h) /\ pending' = pending \ {n}
      /\ chatId' = (IF usesChat[n] # NoChat THEN usesChat[n] ELSE chatId)
      /\ UNCHANGED <<asked, usesChat, chats, clears>>
  BY DEF ChatsInv, ChatsTypeOK, Answer
<1>2. new \in Entry /\ new[1] = "a"
  BY DEF Entry
<1> HIDE DEF new
<1>3. /\ h \in Seq(Entry) /\ Len(h) = Len(history) + 1
      /\ \A i \in 1..Len(history) : h[i] = history[i]
      /\ h[Len(history) + 1] = new
  BY <1>1, <1>2
<1> HIDE DEF h
<1>4. ASSUME NEW i \in DOMAIN h, h[i][1] = "q", h[i][2] \notin pending'
      PROVE  \E j \in DOMAIN h : j > i /\ h[j] = <<"a", h[i][2]>>
  <2>1. i # Len(history) + 1
    BY <1>2, <1>3, <1>4
  <2>2. i \in DOMAIN history /\ h[i] = history[i]
    BY <1>1, <1>3, <2>1
  <2>3. CASE h[i][2] = n
    <3>1. Len(history) + 1 \in DOMAIN h /\ Len(history) + 1 > i
      BY <1>1, <1>3, <2>2
    <3>2. h[Len(history) + 1] = <<"a", h[i][2]>>
      BY <1>3, <2>3 DEF new
    <3> QED BY <3>1, <3>2
  <2>4. CASE h[i][2] # n
    <3>1. PICK j \in DOMAIN history : j > i /\ history[j] = <<"a", history[i][2]>>
      BY <1>1, <1>4, <2>2, <2>4 DEF Settled
    <3>2. j \in DOMAIN h /\ h[j] = history[j]
      BY <1>1, <1>3
    <3> QED BY <2>2, <3>1, <3>2
  <2> QED BY <2>3, <2>4
<1>5. Settled(history', pending')
  <2>1. Settled(h, pending')
    BY <1>4 DEF Settled
  <2> QED BY <1>1, <1>3, <2>1, CapKeepsSettled
<1>6. history' \in Seq(Entry)
  BY <1>1, <1>3, CapKeepsTheEnd
<1>7. chatId' \in 0..chats'
  BY <1>1 DEF ChatsTypeOK
<1>8. ChatsTypeOK'
  BY <1>1, <1>6, <1>7 DEF ChatsTypeOK
<1> QED BY <1>5, <1>8 DEF ChatsInv, Settled

LEMMA ChatsSteps == ASSUME ChatsAssumption, ChatsInv, [ChatsNext]_chatsVars PROVE ChatsInv'
<1>1. ChatsTypeOK /\ Settled(history, pending) /\ MaxClears \in Nat
  BY DEF ChatsInv, ChatsAssumption
<1>2. ASSUME NEW n \in 1..MaxQuestions, OpenChat(n) PROVE ChatsInv'
  <2>1. UNCHANGED <<history, chatId, asked, pending, clears>>
    BY <1>2 DEF OpenChat
  <2>2. chats' \in Nat /\ chatId' \in 0..chats' /\ usesChat' \in [1..MaxQuestions -> 0..chats']
    BY <1>1, <1>2 DEF OpenChat, ChatsTypeOK
  <2>3. ChatsTypeOK' /\ Settled(history, pending)'
    BY <1>1, <2>1, <2>2 DEF ChatsTypeOK, Settled
  <2> QED BY <2>3 DEF ChatsInv
<1>3. CASE Clear
  <2>1. /\ history' = <<>> /\ chatId' = 0 /\ clears' \in 0..MaxClears
        /\ UNCHANGED <<asked, pending, usesChat, chats>>
    BY <1>1, <1>3 DEF Clear, NoChat, ChatsTypeOK
  <2>2. ChatsTypeOK' /\ Settled(history, pending)'
    BY <1>1, <2>1 DEF ChatsTypeOK, Settled
  <2> QED BY <2>2 DEF ChatsInv
<1>4. CASE UNCHANGED chatsVars
  BY <1>1, <1>4 DEF chatsVars, ChatsInv, ChatsTypeOK, Settled
<1> QED BY <1>2, <1>3, <1>4, AskStep, AnswerStep DEF ChatsNext

(* Every variable of the conversation keeps its type.                      *)
THEOREM ChatsTypeCorrect == ASSUME ChatsAssumption PROVE ChatsSpec => []ChatsTypeOK
<1>1. ChatsInv /\ [ChatsNext]_chatsVars => ChatsInv'
  BY ChatsSteps
<1>2. ChatsInv => ChatsTypeOK
  BY DEF ChatsInv
<1> QED BY <1>1, <1>2, ChatsInitially, PTL DEF ChatsSpec

(* A question in the history that is not being answered any more is        *)
(* followed by its answer, for any number of questions, any limit of the   *)
(* history and wherever it is cleared.                                     *)
THEOREM AnswersFollow == ASSUME ChatsAssumption PROVE ChatsSpec => []QuestionsGetAnswers
<1>1. ChatsInv /\ [ChatsNext]_chatsVars => ChatsInv'
  BY ChatsSteps
<1>2. ChatsInv => QuestionsGetAnswers
  BY DEF ChatsInv, Settled, QuestionsGetAnswers
<1> QED BY <1>1, <1>2, ChatsInitially, PTL DEF ChatsSpec

-----------------------------------------------------------------------------
(* The knowledge sync.  The sections read so far are from the time since   *)
(* the sync began and in order.  From the moment there is a collection it  *)
(* is one that exists, and a file that was uploaded exists; what the       *)
(* collection holds and was not to stay is still to be removed.            *)
SectionsFresh ==
  /\ \A i \in DOMAIN doc : doc[i] \in started..db
  /\ \A i, j \in DOMAIN doc : i < j => doc[i] <= doc[j]
  /\ pc \notin {"idle", "find", "create", "read"} => Len(doc) = NumSections
Located ==
  /\ pc \notin {"idle", "find", "create"} => kid \in DOMAIN attached
  /\ pc \in {"fill", "attach", "discard"} => newFile \in Files
  /\ pc = "fill" => content[newFile] = << >>
  /\ pc = "attach" => content[newFile] \in {<< >>, doc}
Cleared ==
  /\ pc = "remove" => attached[kid] \subseteq kept \cup toRemove
  /\ pc \in {"upload", "fill", "attach"} => attached[kid] \subseteq kept
Completed ==
  complete => /\ pc = "idle" /\ kid \in DOMAIN attached /\ newFile \in attached[kid]
              /\ content[newFile] \in {<< >>, doc} /\ Len(doc) = NumSections

KnowledgeInv ==
  /\ KnowledgeTypeOK /\ SectionsFresh /\ Located /\ Cleared /\ Completed
  /\ OldDocumentsHaveAReason

LEMMA SixSections ==
  /\ NumSections = 6 /\ \A n \in Nat : n <= NumSections <=> n \in 0..NumSections
  /\ \A s : s \in Texts <=> s \in Seq(0..MaxCommits) /\ Len(s) <= NumSections
<1>1. NumSections = 6
  BY DEF NumSections, Sections
<1>0. \A n \in Nat : n <= NumSections <=> n \in 0..NumSections
  BY <1>1
<1>2. ASSUME NEW s, s \in Texts PROVE s \in Seq(0..MaxCommits) /\ Len(s) <= NumSections
  <2>1. PICK n \in 0..NumSections : s \in [1..n -> 0..MaxCommits]
    BY <1>2 DEF Texts
  <2>2. n \in Nat /\ n <= NumSections
    BY <1>1, <2>1
  <2>3. s \in Seq(0..MaxCommits)
    BY <2>1, <2>2, SeqDef
  <2>4. DOMAIN s = 1..n /\ DOMAIN s = 1..Len(s) /\ Len(s) \in Nat
    BY <2>1, <2>3, LenProperties
  <2>5. Len(s) = n
    BY <2>2, <2>4
  <2> QED BY <2>2, <2>3, <2>5
<1>3. ASSUME NEW s \in Seq(0..MaxCommits), Len(s) <= NumSections PROVE s \in Texts
  <2>1. s \in [1..Len(s) -> 0..MaxCommits]
    BY LenProperties
  <2>2. Len(s) \in 0..NumSections
    <3>1. Len(s) \in Nat
      BY LenProperties
    <3> QED BY <1>0, <1>3, <3>1, Zenon
  <2> QED BY <2>1, <2>2 DEF Texts
<1> QED BY <1>0, <1>1, <1>2, <1>3

(* What the types say, for the steps to use.                               *)
LEMMA KnowledgeTyped ==
  ASSUME KnowledgeAssumption, KnowledgeTypeOK
  PROVE  /\ MaxCommits \in Nat /\ MaxSyncFaults \in Nat /\ db \in 0..MaxCommits
         /\ started \in 0..db
         /\ content \in Seq(Texts) /\ Files = 1..Len(content) /\ Len(content) \in Nat
         /\ attached \in Seq(SUBSET Files) /\ DOMAIN attached = 1..Len(attached)
         /\ Len(attached) \in Nat /\ kid \in 0..Len(attached)
         /\ doc \in Texts /\ doc \in Seq(0..MaxCommits) /\ Len(doc) \in 0..NumSections
         /\ DOMAIN doc = 1..Len(doc)
         /\ toRemove \subseteq Files /\ newFile \in {0} \cup Files /\ kept \subseteq Files
<1>1. /\ MaxCommits \in Nat /\ MaxSyncFaults \in Nat /\ db \in 0..MaxCommits
      /\ started \in 0..db /\ content \in Seq(Texts)
      /\ attached \in Seq(SUBSET Files) /\ kid \in 0..Len(attached) /\ doc \in Texts
      /\ toRemove \subseteq Files /\ newFile \in {0} \cup Files /\ kept \subseteq Files
  BY DEF KnowledgeAssumption, KnowledgeTypeOK
<1>2. doc \in Seq(0..MaxCommits) /\ Len(doc) <= NumSections
  BY <1>1, SixSections
<1>3. /\ DOMAIN content = 1..Len(content) /\ Len(content) \in Nat
      /\ DOMAIN attached = 1..Len(attached) /\ Len(attached) \in Nat
      /\ DOMAIN doc = 1..Len(doc) /\ Len(doc) \in Nat
  BY <1>1, <1>2, LenProperties
<1>4. Len(doc) \in 0..NumSections
  BY <1>2, <1>3, SixSections
<1>5. Files = 1..Len(content)
  BY <1>3 DEF Files
<1> QED BY <1>1, <1>2, <1>3, <1>4, <1>5

LEMMA NoText == << >> \in Texts /\ Len(<< >>) = 0 /\ DOMAIN << >> = {}
<1>1. << >> \in Seq(0..MaxCommits) /\ Len(<< >>) = 0 /\ DOMAIN << >> = {}
  OBVIOUS
<1>2. Len(<< >>) <= NumSections
  BY <1>1, SixSections
<1>3. << >> \in Texts
  BY <1>1, <1>2, SixSections, Zenon
<1> QED BY <1>1, <1>3

LEMMA KnowledgeInitially == ASSUME KnowledgeAssumption PROVE KnowledgeInit => KnowledgeInv
<1> SUFFICES ASSUME KnowledgeInit PROVE KnowledgeInv
  OBVIOUS
<1>1. MaxCommits \in Nat /\ MaxSyncFaults \in Nat
  BY DEF KnowledgeAssumption
<1>2. content = << >> /\ attached = << >> /\ Files = {}
  BY NoText DEF KnowledgeInit, Files
<1>3. content \in Seq(Texts) /\ attached \in Seq(SUBSET Files) /\ Len(attached) = 0
  BY <1>2
<1>4. KnowledgeTypeOK
  <2>1. /\ db \in 0..MaxCommits /\ kid \in 0..Len(attached) /\ syncFaults \in 0..MaxSyncFaults
        /\ started \in 0..db /\ toRemove \subseteq Files /\ kept \subseteq Files
    BY <1>1, <1>3 DEF KnowledgeInit
  <2>2. doc \in Texts /\ newFile \in {0} \cup Files /\ complete \in BOOLEAN
    BY NoText, Zenon DEF KnowledgeInit
  <2> QED BY <1>3, <2>1, <2>2 DEF KnowledgeInit, KnowledgeTypeOK
<1>5. SectionsFresh /\ Located /\ Cleared /\ Completed /\ OldDocumentsHaveAReason
  BY <1>2, NoText
  DEF KnowledgeInit, SectionsFresh, Located, Cleared, Completed, OldDocumentsHaveAReason
<1> QED BY <1>4, <1>5 DEF KnowledgeInv

(* Steps that touch no file and no collection.                             *)
LEMMA FilesKept ==
  ASSUME KnowledgeInv, UNCHANGED server
  PROVE  /\ Files' = Files /\ content' \in Seq(Texts) /\ attached' \in Seq(SUBSET Files)'
         /\ kept \subseteq kept' => OldDocumentsHaveAReason'
<1>1. content' = content /\ attached' = attached
  BY DEF server
<1>2. content \in Seq(Texts) /\ attached \in Seq(SUBSET Files)
  BY DEF KnowledgeInv, KnowledgeTypeOK
<1>3. Files' = Files
  BY <1>1 DEF Files
<1>4. attached' \in Seq(SUBSET Files)'
  BY <1>1, <1>2, <1>3
<1>5. ASSUME kept \subseteq kept' PROVE OldDocumentsHaveAReason'
  BY <1>1, <1>5 DEF KnowledgeInv, OldDocumentsHaveAReason
<1> QED BY <1>1, <1>2, <1>3, <1>4, <1>5

LEMMA CommitStep ==
  ASSUME KnowledgeAssumption, KnowledgeInv, Commit \/ UNCHANGED knowledgeVars
  PROVE  KnowledgeInv'
<1>1. /\ UNCHANGED <<server, kid, pc, doc, toRemove, newFile, syncFaults, started, kept, complete>>
      /\ db' \in {db, db + 1} /\ db' <= MaxCommits
  BY KnowledgeTyped DEF Commit, knowledgeVars, server, KnowledgeInv
<1>2. KnowledgeTypeOK /\ db' \in 0..MaxCommits /\ started \in 0..db'
  BY <1>1, KnowledgeTyped DEF KnowledgeInv
<1>3. KnowledgeTypeOK'
  BY <1>1, <1>2, FilesKept DEF KnowledgeTypeOK, server
<1>4. SectionsFresh'
  <2>1. ASSUME NEW i \in DOMAIN doc PROVE doc[i] \in started..db'
    BY <1>1, <1>2, <2>1, KnowledgeTyped DEF KnowledgeInv, SectionsFresh
  <2> QED BY <1>1, <2>1 DEF KnowledgeInv, SectionsFresh
<1>5. Located' /\ Cleared' /\ Completed' /\ OldDocumentsHaveAReason'
  BY <1>1, FilesKept DEF KnowledgeInv, Located, Cleared, Completed, server
<1> QED BY <1>3, <1>4, <1>5 DEF KnowledgeInv

LEMMA SyncFaultCounted ==
  ASSUME KnowledgeAssumption, KnowledgeTypeOK, SyncFault PROVE syncFaults' \in 0..MaxSyncFaults
<1>1. syncFaults \in 0..MaxSyncFaults /\ MaxSyncFaults \in Nat
  BY DEF KnowledgeTypeOK, KnowledgeAssumption
<1> QED BY <1>1 DEF SyncFault

(* From the start of a sync to the collection it uses.                     *)
LEMMA OpeningStep ==
  ASSUME KnowledgeAssumption, KnowledgeInv,
         Begin \/ FindListed \/ FindFails \/ SyncRestart
  PROVE  KnowledgeInv'
<1>1. KnowledgeTypeOK /\ SectionsFresh /\ Located
  BY DEF KnowledgeInv
<1>2. /\ UNCHANGED server /\ db' = db /\ kept' = kept /\ started' \in {started, db}
      /\ syncFaults' \in 0..MaxSyncFaults
      /\ complete' = FALSE
      /\ pc' \in {"idle", "find", "create", "read"}
      /\ kid' \in 0..Len(attached) /\ (pc' = "read" => kid' \in DOMAIN attached)
  <2>1. pc \in {"idle", "find"} \/ SyncRestart
    BY DEF Begin, FindListed, FindFails
  <2>2. complete' = FALSE
    BY DEF Begin, FindListed, FindFails, SyncRestart, KnowledgeInv, KnowledgeTypeOK, Completed
  <2>3. syncFaults' \in 0..MaxSyncFaults
    BY <1>1, SyncFaultCounted DEF Begin, FindListed, FindFails, SyncRestart, KnowledgeTypeOK
  <2>4. kid' \in 0..Len(attached) /\ (pc' = "read" => kid' \in DOMAIN attached)
    BY <1>1, KnowledgeTyped DEF Begin, FindListed, FindFails, SyncRestart, sync
  <2> QED BY <2>2, <2>3, <2>4 DEF Begin, FindListed, FindFails, SyncRestart
<1>3. \/ doc' = << >> /\ toRemove' = {} /\ newFile' = 0
      \/ UNCHANGED <<doc, toRemove, newFile, started>>
  BY DEF Begin, FindListed, FindFails, SyncRestart, sync
<1>4. SectionsFresh'
  BY <1>1, <1>2, <1>3, NoText DEF SectionsFresh
<1>5. KnowledgeTypeOK'
  <2>1. /\ Files' = Files /\ attached' \in Seq(SUBSET Files)' /\ content' \in Seq(Texts)
        /\ attached' = attached
    BY <1>2, FilesKept DEF server
  <2>2. doc' \in Texts /\ toRemove' \subseteq Files /\ newFile' \in {0} \cup Files
    BY <1>1, <1>3, NoText, KnowledgeTyped
  <2>3. started' \in 0..db
    BY <1>1, <1>2, KnowledgeTyped
  <2> QED BY <1>1, <1>2, <2>1, <2>2, <2>3 DEF KnowledgeTypeOK
<1>6. OldDocumentsHaveAReason'
  BY <1>2, FilesKept
<1>7. Located' /\ Cleared' /\ Completed'
  BY <1>2 DEF Located, Cleared, Completed, server
<1> QED BY <1>4, <1>5, <1>6, <1>7 DEF KnowledgeInv

(* A new collection is empty, and the others stay where they are.          *)
LEMMA CreateStep ==
  ASSUME KnowledgeAssumption, KnowledgeInv, Create \/ CreateFails
  PROVE  KnowledgeInv'
<1>1. KnowledgeTypeOK /\ SectionsFresh /\ OldDocumentsHaveAReason /\ pc = "create"
  BY DEF KnowledgeInv, Create, CreateFails
<1>2. /\ UNCHANGED <<db, content, doc, toRemove, newFile, started, kept, complete>>
      /\ attached' \in {attached, Append(attached, {})}
      /\ pc' \in {"idle", "read"}
      /\ syncFaults' \in 0..MaxSyncFaults
  <2>1. syncFaults' \in 0..MaxSyncFaults
    BY <1>1, SyncFaultCounted DEF Create, CreateFails, KnowledgeTypeOK
  <2> QED BY <2>1 DEF Create, CreateFails, sync
<1>3. Files' = Files
  BY <1>2 DEF Files
<1>4. /\ attached' \in Seq(SUBSET Files) /\ Len(attached') \in {Len(attached), Len(attached) + 1}
      /\ \A c \in DOMAIN attached' : (c \in DOMAIN attached /\ attached'[c] = attached[c])
                                     \/ attached'[c] = {}
  <2>1. attached \in Seq(SUBSET Files) /\ {} \in SUBSET Files
    BY <1>1, KnowledgeTyped
  <2> QED BY <1>2, <2>1
<1>5. kid' \in 0..Len(attached') /\ (pc' = "read" => kid' \in DOMAIN attached')
  <2>1. CASE Create
    BY <1>1, <1>4, <2>1, KnowledgeTyped DEF Create
  <2>2. CASE CreateFails
    BY <1>1, <1>4, <2>2, KnowledgeTyped DEF CreateFails, sync
  <2> QED BY <2>1, <2>2
<1>6. attached' \in Seq(SUBSET Files)'
  BY <1>3, <1>4
<1>7. KnowledgeTypeOK'
  BY <1>1, <1>2, <1>3, <1>5, <1>6 DEF KnowledgeTypeOK
<1>8. SectionsFresh'
  BY <1>1, <1>2 DEF SectionsFresh
<1>9. ~complete'
  BY <1>1, <1>2 DEF KnowledgeInv, Completed
<1>10. OldDocumentsHaveAReason'
  BY <1>1, <1>2, <1>4 DEF OldDocumentsHaveAReason
<1>11. Located' /\ Cleared' /\ Completed'
  BY <1>2, <1>5, <1>9 DEF Located, Cleared, Completed
<1> QED BY <1>7, <1>8, <1>10, <1>11 DEF KnowledgeInv

(* A sync under way has not reported success.                              *)
LEMMA UnderWay ==
  ASSUME KnowledgeInv, pc # "idle" PROVE complete = FALSE
BY DEF KnowledgeInv, KnowledgeTypeOK, Completed

LEMMA SectionRead ==
  ASSUME KnowledgeAssumption, KnowledgeInv, NEW part, Reads(part)
  PROVE  KnowledgeInv'
<1>1. KnowledgeTypeOK /\ SectionsFresh /\ Located /\ pc = "read" /\ Len(doc) < NumSections
  BY DEF KnowledgeInv, Reads
<1>2. /\ UNCHANGED <<db, content, attached, kid, pc, toRemove, newFile, syncFaults, started, kept>>
      /\ doc' = Append(doc, db) /\ complete' = FALSE
  BY <1>1, UnderWay DEF Reads, server
<1>3. /\ doc \in Seq(0..MaxCommits) /\ db \in 0..MaxCommits /\ MaxCommits \in Nat
      /\ started \in 0..db /\ Len(doc) \in Nat /\ DOMAIN doc = 1..Len(doc)
  BY <1>1, KnowledgeTyped
<1>4. /\ doc' \in Seq(0..MaxCommits) /\ Len(doc') = Len(doc) + 1 /\ DOMAIN doc' = 1..(Len(doc) + 1)
      /\ doc'[Len(doc) + 1] = db
      /\ \A i \in 1..Len(doc) : doc'[i] = doc[i]
  BY <1>2, <1>3
<1>5. doc' \in Texts
  <2>1. Len(doc') <= NumSections
    BY <1>1, <1>3, <1>4, SixSections
  <2> QED BY <1>4, <2>1, SixSections, Zenon
<1>6. KnowledgeTypeOK'
  BY <1>1, <1>2, <1>5, Zenon DEF KnowledgeTypeOK, Files
<1>7. SectionsFresh'
  <2>1. \A i \in 1..Len(doc) : doc[i] \in started..db
    BY <1>1, <1>3 DEF SectionsFresh
  <2>2. \A i, j \in 1..Len(doc) : i < j => doc[i] <= doc[j]
    BY <1>1, <1>3 DEF SectionsFresh
  <2>0. db \in started..db /\ \A i \in DOMAIN doc' : i \in 1..Len(doc) \/ i = Len(doc) + 1
    BY <1>3, <1>4
  <2>3. ASSUME NEW i \in DOMAIN doc' PROVE doc'[i] \in started..db
    BY <1>4, <2>0, <2>1
  <2>4. ASSUME NEW i \in DOMAIN doc', NEW j \in DOMAIN doc', i < j PROVE doc'[i] <= doc'[j]
    <3>1. CASE j = Len(doc) + 1
      BY <1>3, <1>4, <2>3, <3>1
    <3>2. CASE j # Len(doc) + 1
      <4>1. i \in 1..Len(doc) /\ j \in 1..Len(doc)
        BY <1>3, <1>4, <2>0, <2>4, <3>2
      <4> QED BY <1>4, <2>2, <2>4, <4>1
    <3> QED BY <3>1, <3>2
  <2> QED BY <1>1, <1>2, <2>3, <2>4 DEF SectionsFresh
<1>8. Located' /\ Cleared' /\ Completed' /\ OldDocumentsHaveAReason'
  BY <1>1, <1>2
  DEF KnowledgeInv, Located, Cleared, Completed, OldDocumentsHaveAReason
<1> QED BY <1>6, <1>7, <1>8 DEF KnowledgeInv

(* Steps after which the files and the collections are as they were.       *)
LEMMA QuietStep ==
  ASSUME KnowledgeAssumption, KnowledgeInv,
         \/ ReadFails \/ Built \/ ListFiles \/ ListFilesFails \/ Removed
         \/ FillFails \/ AttachRefused \/ Discard
  PROVE  KnowledgeInv'
<1>1. KnowledgeTypeOK /\ SectionsFresh /\ Located /\ Cleared
      /\ pc \notin {"idle", "find", "create"} /\ complete = FALSE
  BY UnderWay
  DEF KnowledgeInv, ReadFails, Built, ListFiles, ListFilesFails, Removed, FillFails,
      AttachRefused, Discard
<1>2. /\ UNCHANGED <<db, content, attached, kid, doc, newFile, started, complete>>
      /\ kept \subseteq kept' /\ kept' \subseteq kept \cup attached[kid]
      /\ toRemove' \in {toRemove, attached[kid]}
      /\ syncFaults' \in 0..MaxSyncFaults
  <2>1. syncFaults' \in 0..MaxSyncFaults
    BY <1>1, SyncFaultCounted
    DEF ReadFails, Built, ListFiles, ListFilesFails, Removed, FillFails, AttachRefused, Discard,
        KnowledgeTypeOK
  <2>2. UNCHANGED <<db, content, attached, kid, doc, newFile, started, complete>>
    BY DEF ReadFails, Built, ListFiles, ListFilesFails, Removed, FillFails, AttachRefused, Discard,
           server, sync
  <2>3. kept' \in {kept, kept \cup attached[kid]} /\ toRemove' \in {toRemove, attached[kid]}
    BY DEF ReadFails, Built, ListFiles, ListFilesFails, Removed, FillFails, AttachRefused, Discard,
           sync
  <2> QED BY <2>1, <2>2, <2>3
<1>3. \/ pc' \in {"idle", "discard"} /\ (pc' = "discard" => newFile \in Files /\ pc = "attach")
      \/ pc' = "list" /\ Len(doc) = NumSections
      \/ pc = "list" /\ pc' = "remove" /\ toRemove' = attached[kid]
      \/ pc = "list" /\ pc' = "upload" /\ attached[kid] \subseteq kept'
      \/ pc = "remove" /\ pc' = "upload" /\ toRemove = {}
      \/ pc = "fill" /\ pc' = "attach"
  BY <1>1
  DEF ReadFails, Built, ListFiles, ListFilesFails, Removed, FillFails, AttachRefused, Discard,
      Located
<1>4. kid \in DOMAIN attached /\ attached[kid] \subseteq Files
  BY <1>1, KnowledgeTyped DEF Located
<1>5. KnowledgeTypeOK'
  <2>1. Files' = Files /\ content' = content /\ attached' = attached
    BY <1>2 DEF Files
  <2>2. pc' \in {"idle", "list", "remove", "upload", "attach", "discard"}
    BY <1>3
  <2>3. kept' \subseteq Files /\ toRemove' \subseteq Files
    BY <1>1, <1>2, <1>4, KnowledgeTyped
  <2> QED BY <1>1, <1>2, <2>1, <2>2, <2>3 DEF KnowledgeTypeOK
<1>6. SectionsFresh'
  BY <1>1, <1>2, <1>3 DEF SectionsFresh
<1>7. Located'
  <2>1. Files' = Files
    BY <1>2 DEF Files
  <2> QED BY <1>1, <1>2, <1>3, <1>4, <2>1 DEF Located
<1>8. Cleared'
  BY <1>1, <1>2, <1>3 DEF Cleared
<1>9. OldDocumentsHaveAReason' /\ Completed'
  <2>1. UNCHANGED server
    BY <1>2 DEF server
  <2> QED BY <1>1, <1>2, <2>1, FilesKept DEF Completed
<1> QED BY <1>5, <1>6, <1>7, <1>8, <1>9 DEF KnowledgeInv

(* What a collection loses is no longer to be removed, and what a failed   *)
(* request leaves there is kept for a reason.                              *)
LEMMA RemoveStep ==
  ASSUME KnowledgeAssumption, KnowledgeInv, NEW f \in toRemove, Remove(f) \/ RemoveFails(f)
  PROVE  KnowledgeInv'
<1>1. KnowledgeTypeOK /\ SectionsFresh /\ Located /\ Cleared /\ OldDocumentsHaveAReason
      /\ pc = "remove" /\ complete = FALSE
  BY UnderWay DEF KnowledgeInv, Remove, RemoveFails
<1>t. /\ attached \in Seq(SUBSET Files) /\ toRemove \subseteq Files /\ kept \subseteq Files
      /\ kid \in DOMAIN attached /\ DOMAIN attached = 1..Len(attached)
  BY <1>1, KnowledgeTyped DEF Located
<1> DEFINE without == [attached EXCEPT ![kid] = @ \ {f}]
<1>w. /\ without \in Seq(SUBSET Files) /\ Len(without) = Len(attached)
      /\ DOMAIN without = DOMAIN attached /\ without[kid] = attached[kid] \ {f}
      /\ \A c \in DOMAIN attached : without[c] \subseteq attached[c]
  <2>1. attached[kid] \ {f} \in SUBSET Files
    BY <1>t
  <2> QED BY <1>t, <2>1
<1>2. /\ UNCHANGED <<db, content, kid, pc, doc, newFile, started, complete>>
      /\ toRemove' = toRemove \ {f} /\ attached' \in {attached, without}
      /\ kept' \in {kept, kept \cup {f}} /\ (attached' = without \/ f \in kept')
      /\ syncFaults' \in 0..MaxSyncFaults
  <2>1. syncFaults' \in 0..MaxSyncFaults
    BY <1>1, SyncFaultCounted DEF Remove, RemoveFails, KnowledgeTypeOK
  <2>2. CASE Remove(f)
    BY <2>1, <2>2 DEF Remove
  <2>3. CASE RemoveFails(f)
    BY <2>1, <2>3 DEF RemoveFails
  <2> QED BY <2>2, <2>3
<1> HIDE DEF without
<1>3. /\ Files' = Files /\ Len(attached') = Len(attached) /\ DOMAIN attached' = DOMAIN attached
      /\ attached' \in Seq(SUBSET Files)
      /\ \A c \in DOMAIN attached : attached'[c] \subseteq attached[c]
      /\ attached'[kid] \subseteq kept' \cup toRemove'
  <2>1. attached[kid] \subseteq kept \cup toRemove
    BY <1>1 DEF Cleared
  <2>2. attached'[kid] \subseteq kept' \cup toRemove'
    BY <1>w, <1>2, <2>1
  <2> QED BY <1>t, <1>w, <1>2, <2>2 DEF Files
<1>4. KnowledgeTypeOK'
  <2>1. toRemove' \subseteq Files /\ kept' \subseteq Files
    BY <1>t, <1>2
  <2> QED BY <1>1, <1>2, <1>3, <2>1 DEF KnowledgeTypeOK
<1>5. SectionsFresh' /\ Located' /\ Cleared' /\ Completed'
  BY <1>1, <1>2, <1>3 DEF SectionsFresh, Located, Cleared, Completed
<1>6. OldDocumentsHaveAReason'
  BY <1>1, <1>2, <1>3 DEF OldDocumentsHaveAReason
<1> QED BY <1>4, <1>5, <1>6 DEF KnowledgeInv

(* A new file is in no collection and has no text.                         *)
LEMMA UploadStep ==
  ASSUME KnowledgeAssumption, KnowledgeInv, Upload \/ UploadFails
  PROVE  KnowledgeInv'
<1>1. KnowledgeTypeOK /\ SectionsFresh /\ Located /\ Cleared /\ OldDocumentsHaveAReason
      /\ pc = "upload" /\ complete = FALSE
  BY UnderWay DEF KnowledgeInv, Upload, UploadFails
<1>2. /\ UNCHANGED <<db, attached, kid, doc, toRemove, started, kept, complete>>
      /\ syncFaults' \in 0..MaxSyncFaults
      /\ content' \in {content, Append(content, << >>)}
      /\ \/ pc' = "idle" /\ newFile' = newFile
         \/ pc' = "fill" /\ content' = Append(content, << >>) /\ newFile' = Len(content')
  <2>1. syncFaults' \in 0..MaxSyncFaults
    BY <1>1, SyncFaultCounted DEF Upload, UploadFails, KnowledgeTypeOK
  <2> QED BY <2>1 DEF Upload, UploadFails, sync
<1>3. /\ content' \in Seq(Texts) /\ Files' = 1..Len(content') /\ Files \subseteq Files'
      /\ pc' = "fill" => newFile' \in Files' /\ content'[newFile'] = << >>
  <2>1. content \in Seq(Texts) /\ << >> \in Texts /\ Files = 1..Len(content)
    BY <1>1, KnowledgeTyped, NoText
  <2>2. content' \in Seq(Texts) /\ Len(content') \in {Len(content), Len(content) + 1}
        /\ DOMAIN content' = 1..Len(content')
    BY <1>2, <2>1
  <2>3. pc' = "fill" => newFile' \in 1..Len(content') /\ content'[newFile'] = << >>
    BY <1>2, <2>1
  <2>4. Len(content) \in Nat
    BY <1>1, KnowledgeTyped
  <2>5. Files' = 1..Len(content')
    BY <2>2 DEF Files
  <2>6. Files \subseteq 1..Len(content')
    <3>0. \A m, n \in Nat : n \in {m, m + 1} => m <= n
      OBVIOUS
    <3>1. Len(content') \in Nat /\ Len(content) <= Len(content')
      <4>1. Len(content') \in Nat
        BY <2>2, LenProperties
      <4> QED BY <2>2, <2>4, <3>0, <4>1, Zenon
    <3>2. \A m, n \in Nat : m <= n => 1..m \subseteq 1..n
      OBVIOUS
    <3> QED BY <2>1, <2>4, <3>1, <3>2, Zenon
  <2> QED BY <2>2, <2>3, <2>5, <2>6
<1>4. KnowledgeTypeOK'
  <2>1. attached' \in Seq(SUBSET Files)' 
    <3>1. attached \in Seq(SUBSET Files) /\ SUBSET Files \subseteq SUBSET Files'
      BY <1>1, <1>3, KnowledgeTyped
    <3>2. attached \in Seq(SUBSET Files')
      BY <3>1, SeqMonotonic
    <3> QED BY <1>2, <3>2
  <2>2. /\ toRemove' \subseteq Files' /\ kept' \subseteq Files'
        /\ newFile' \in {0} \cup Files'
    BY <1>1, <1>2, <1>3, KnowledgeTyped
  <2> QED BY <1>1, <1>2, <1>3, <2>1, <2>2 DEF KnowledgeTypeOK
<1>5. SectionsFresh' /\ Located' /\ Cleared' /\ Completed' /\ OldDocumentsHaveAReason'
  BY <1>1, <1>2, <1>3
  DEF SectionsFresh, Located, Cleared, Completed, OldDocumentsHaveAReason
<1> QED BY <1>4, <1>5 DEF KnowledgeInv

LEMMA FillStep ==
  ASSUME KnowledgeAssumption, KnowledgeInv, Fill
  PROVE  KnowledgeInv'
<1>1. KnowledgeTypeOK /\ SectionsFresh /\ Located /\ Cleared /\ OldDocumentsHaveAReason
      /\ pc = "fill" /\ complete = FALSE
  BY UnderWay DEF KnowledgeInv, Fill
<1>2. /\ UNCHANGED <<db, attached, kid, doc, toRemove, newFile, syncFaults, started, kept, complete>>
      /\ content' = [content EXCEPT ![newFile] = doc] /\ pc' = "attach"
  BY DEF Fill, sync
<1>3. /\ content \in Seq(Texts) /\ doc \in Texts /\ newFile \in DOMAIN content
      /\ DOMAIN content = 1..Len(content)
  BY <1>1, KnowledgeTyped DEF Located, Files
<1>4. content' \in Seq(Texts) /\ Files' = Files /\ content'[newFile] = doc
  BY <1>2, <1>3 DEF Files
<1>5. KnowledgeTypeOK'
  BY <1>1, <1>2, <1>4 DEF KnowledgeTypeOK
<1>6. SectionsFresh' /\ Located' /\ Cleared' /\ Completed' /\ OldDocumentsHaveAReason'
  BY <1>1, <1>2, <1>4
  DEF SectionsFresh, Located, Cleared, Completed, OldDocumentsHaveAReason
<1> QED BY <1>5, <1>6 DEF KnowledgeInv

(* Beside the file attached the collection holds only what was kept.       *)
LEMMA AttachStep ==
  ASSUME KnowledgeAssumption, KnowledgeInv, Attach \/ AttachLost
  PROVE  KnowledgeInv'
<1>1. KnowledgeTypeOK /\ SectionsFresh /\ Located /\ Cleared /\ OldDocumentsHaveAReason
      /\ pc = "attach" /\ complete = FALSE
  BY UnderWay DEF KnowledgeInv, Attach, AttachLost
<1>t. /\ attached \in Seq(SUBSET Files) /\ newFile \in Files /\ kid \in DOMAIN attached
      /\ DOMAIN attached = 1..Len(attached) /\ attached[kid] \subseteq kept
      /\ content[newFile] \in {<< >>, doc} /\ Len(doc) = NumSections
  BY <1>1, KnowledgeTyped DEF Located, Cleared, SectionsFresh
<1> DEFINE with == [attached EXCEPT ![kid] = @ \cup {newFile}]
<1>w. /\ with \in Seq(SUBSET Files) /\ Len(with) = Len(attached)
      /\ DOMAIN with = DOMAIN attached /\ with[kid] = attached[kid] \cup {newFile}
      /\ \A c \in DOMAIN attached : c # kid => with[c] = attached[c]
  <2>1. attached[kid] \cup {newFile} \in SUBSET Files
    BY <1>t
  <2> QED BY <1>t, <2>1
<1>2. /\ UNCHANGED <<db, content, kid, doc, toRemove, newFile, started, kept>>
      /\ syncFaults' \in 0..MaxSyncFaults /\ pc' = "idle"
      /\ attached' \in {attached, with} /\ complete' \in BOOLEAN
      /\ complete' => attached' = with
  <2>1. syncFaults' \in 0..MaxSyncFaults
    BY <1>1, SyncFaultCounted DEF Attach, AttachLost, KnowledgeTypeOK
  <2>2. complete' \in {TRUE, FALSE} /\ (complete' => attached' = with)
    BY <1>1 DEF Attach, AttachLost
  <2>3. complete' \in BOOLEAN
    BY <2>2, Zenon
  <2> QED BY <2>1, <2>2, <2>3 DEF Attach, AttachLost, sync
<1> HIDE DEF with
<1>3. /\ Files' = Files /\ Len(attached') = Len(attached) /\ DOMAIN attached' = DOMAIN attached
      /\ attached' \in Seq(SUBSET Files)
      /\ \A c \in DOMAIN attached : c # kid => attached'[c] = attached[c]
      /\ attached'[kid] \subseteq attached[kid] \cup {newFile}
  BY <1>t, <1>w, <1>2 DEF Files
<1>4. KnowledgeTypeOK'
  BY <1>1, <1>2, <1>3 DEF KnowledgeTypeOK
<1>5. SectionsFresh' /\ Located' /\ Cleared'
  BY <1>1, <1>2 DEF SectionsFresh, Located, Cleared
<1>6. Completed'
  BY <1>t, <1>w, <1>2, <1>3 DEF Completed
<1>7. OldDocumentsHaveAReason'
  <2>1. ASSUME NEW c \in DOMAIN attached, NEW f \in attached'[c] \ kept, NEW g \in attached'[c] \ kept
        PROVE  f = g
    BY <1>1, <1>t, <1>3 DEF OldDocumentsHaveAReason
  <2> QED BY <1>2, <1>3, <2>1 DEF OldDocumentsHaveAReason
<1> QED BY <1>4, <1>5, <1>6, <1>7 DEF KnowledgeInv

LEMMA KnowledgeSteps ==
  ASSUME KnowledgeAssumption, KnowledgeInv, [KnowledgeNext]_knowledgeVars PROVE KnowledgeInv'
BY CommitStep, OpeningStep, CreateStep, SectionRead, QuietStep, RemoveStep, UploadStep, FillStep,
   AttachStep
DEF KnowledgeNext, ReadDevices, ReadRules, ReadAlerts, ReadFindings, ReadTrends, ReadTopology

(* Every variable of the sync keeps its type.                              *)
THEOREM KnowledgeTypeCorrect == ASSUME KnowledgeAssumption PROVE KnowledgeSpec => []KnowledgeTypeOK
<1>1. KnowledgeInv /\ [KnowledgeNext]_knowledgeVars => KnowledgeInv'
  BY KnowledgeSteps
<1>2. KnowledgeInv => KnowledgeTypeOK
  BY DEF KnowledgeInv
<1> QED BY <1>1, <1>2, KnowledgeInitially, PTL DEF KnowledgeSpec

(* knowledge_sync.py:677-696.  Whatever fails and whenever the process     *)
(* stops, a collection holds besides its newest document only what a       *)
(* request that failed was to list or remove.                              *)
THEOREM OldDocumentsAreKept ==
  ASSUME KnowledgeAssumption PROVE KnowledgeSpec => []OldDocumentsHaveAReason
<1>1. KnowledgeInv /\ [KnowledgeNext]_knowledgeVars => KnowledgeInv'
  BY KnowledgeSteps
<1>2. KnowledgeInv => OldDocumentsHaveAReason
  BY DEF KnowledgeInv
<1> QED BY <1>1, <1>2, KnowledgeInitially, PTL DEF KnowledgeSpec

(* knowledge_sync.py:670-772.  After a sync that reports success, every    *)
(* section of the document is from the time since the sync began, for any  *)
(* number of commits between the readings.                                 *)
THEOREM SyncsAreFresh == ASSUME KnowledgeAssumption PROVE KnowledgeSpec => []SyncedIsFresh
<1>1. KnowledgeInv /\ [KnowledgeNext]_knowledgeVars => KnowledgeInv'
  BY KnowledgeSteps
<1>2. KnowledgeInv => SyncedIsFresh
  <2> SUFFICES ASSUME KnowledgeInv, complete PROVE SyncedIsFresh
    BY DEF SyncedIsFresh
  <2>1. /\ newFile \in attached[kid] /\ content[newFile] \in {<< >>, doc}
        /\ Len(doc) = NumSections
    BY DEF KnowledgeInv, Completed
  <2>2. /\ \A i \in DOMAIN doc : doc[i] \in started..db
        /\ \A i, j \in DOMAIN doc : i < j => doc[i] <= doc[j]
    BY DEF KnowledgeInv, SectionsFresh
  <2>3. started \in Nat /\ db \in Nat
    BY DEF KnowledgeInv, KnowledgeTypeOK
  <2>4. \A i \in DOMAIN doc : doc[i] >= started
    BY <2>2, <2>3
  <2> QED BY <2>1, <2>2, <2>4 DEF SyncedIsFresh
<1> QED BY <1>1, <1>2, KnowledgeInitially, PTL DEF KnowledgeSpec

-----------------------------------------------------------------------------
(* The log stream.  What is not yet connected has nothing, and a line is   *)
(* being handed over only after one was logged.                            *)
NotConnected(v) ==
  /\ v \notin listeners /\ v \notin serving /\ Calls(v) = {}
  /\ lines[v] = << >> /\ shown[v] = << >>
NewHasNothing == \A v \in Viewers : link[v] = "new" => NotConnected(v)

StreamInv ==
  /\ LogStreamTypeOK /\ (serving # {} => logged > 0) /\ NewHasNothing /\ StreamHasNoGaps

LEMMA StreamTyped ==
  ASSUME LogStreamAssumption, LogStreamTypeOK
  PROVE  /\ MaxLogged \in Nat /\ LineQueueMax \in Nat \ {0} /\ Capacity \in Nat \ {0}
         /\ logged \in 0..MaxLogged /\ logged \in Nat
         /\ calls \in Seq(Viewers \X Numbers) /\ DOMAIN calls = 1..Len(calls) /\ Len(calls) \in Nat
         /\ \A v \in Viewers : /\ lines[v] \in Seq(Numbers) /\ shown[v] \in Seq(Numbers)
                               /\ Got(v) \in Seq(Numbers) /\ Len(Got(v)) \in Nat
                               /\ DOMAIN Got(v) = 1..Len(Got(v))
                               /\ HandedOver(v) \in {logged - 1, logged}
<1>1. /\ MaxLogged \in Nat /\ LineQueueMax \in Nat \ {0} /\ Capacity \in Nat \ {0}
      /\ logged \in 0..MaxLogged /\ calls \in Seq(Viewers \X Numbers)
  BY DEF LogStreamAssumption, LogStreamTypeOK
<1>2. DOMAIN calls = 1..Len(calls) /\ Len(calls) \in Nat
  BY <1>1, LenProperties
<1>3. ASSUME NEW v \in Viewers
      PROVE  /\ lines[v] \in Seq(Numbers) /\ shown[v] \in Seq(Numbers)
             /\ Got(v) \in Seq(Numbers) /\ Len(Got(v)) \in Nat
             /\ DOMAIN Got(v) = 1..Len(Got(v))
  <2>1. lines[v] \in Seq(Numbers) /\ shown[v] \in Seq(Numbers)
    BY DEF LogStreamTypeOK
  <2>2. Got(v) \in Seq(Numbers)
    BY <2>1 DEF Got
  <2> QED BY <2>1, <2>2, LenProperties
<1>4. \A v \in Viewers : HandedOver(v) \in {logged - 1, logged}
  BY DEF HandedOver
<1> QED BY <1>1, <1>2, <1>3, <1>4

LEMMA StreamInitially == ASSUME LogStreamAssumption PROVE LogStreamInit => StreamInv
<1> SUFFICES ASSUME LogStreamInit PROVE StreamInv
  OBVIOUS
<1>1. /\ MaxLogged \in Nat /\ LineQueueMax \in Nat \ {0} /\ Capacity \in Nat \ {0}
  BY DEF LogStreamAssumption
<1>2. << >> \in Seq(Numbers) /\ << >> \in Seq(Viewers \X Numbers) /\ Len(<< >>) = 0
  OBVIOUS
<1>3. LogStreamTypeOK
  BY <1>1, <1>2 DEF LogStreamInit, LogStreamTypeOK
<1>4. DOMAIN calls = {}
  BY DEF LogStreamInit
<1>5. NewHasNothing
  BY <1>4 DEF LogStreamInit, NewHasNothing, NotConnected, Calls
<1>6. StreamHasNoGaps
  BY DEF LogStreamInit, StreamHasNoGaps
<1> QED BY <1>3, <1>5, <1>6 DEF LogStreamInit, StreamInv

(* A callback handed over goes to the end of those waiting.                *)
LEMMA CallsAppended ==
  ASSUME NEW w \in Viewers, NEW n \in Numbers, calls \in Seq(Viewers \X Numbers),
         calls' = Append(calls, <<w, n>>)
  PROVE  /\ calls' \in Seq(Viewers \X Numbers)
         /\ \A v \in Viewers : v # w => Calls(v)' = Calls(v)
         /\ Calls(w)' = Calls(w) \cup {Len(calls) + 1}
         /\ \A v \in Viewers : \A k \in Calls(v) : k \in 1..Len(calls) /\ calls'[k] = calls[k]
         /\ calls'[Len(calls) + 1] = <<w, n>>
<1> DEFINE new == <<w, n>>
<1>1. new \in Viewers \X Numbers /\ new[1] = w
  OBVIOUS
<1>n. calls' = Append(calls, new)
  OBVIOUS
<1> HIDE DEF new
<1>2. /\ calls' \in Seq(Viewers \X Numbers) /\ Len(calls) \in Nat
      /\ DOMAIN calls = 1..Len(calls) /\ DOMAIN calls' = 1..(Len(calls) + 1)
      /\ \A k \in 1..Len(calls) : calls'[k] = calls[k]
      /\ calls'[Len(calls) + 1] = new
  BY <1>1, <1>n
<1>3. 1..(Len(calls) + 1) = 1..Len(calls) \cup {Len(calls) + 1} /\ Len(calls) + 1 \notin 1..Len(calls)
  BY <1>2
<1>4. ASSUME NEW v \in Viewers, v # w PROVE Calls(v)' = Calls(v)
  BY <1>1, <1>2, <1>3, <1>4 DEF Calls
<1>5. Calls(w)' = Calls(w) \cup {Len(calls) + 1}
  BY <1>1, <1>2, <1>3 DEF Calls
<1> QED BY <1>2, <1>4, <1>5 DEF Calls, new

(* The others move up when one has run.                                    *)
LEMMA CallsAdvanced ==
  ASSUME calls \in Seq(Viewers \X Numbers), calls # << >>, calls' = Tail(calls)
  PROVE  /\ calls' \in Seq(Viewers \X Numbers) /\ Head(calls) = calls[1]
         /\ calls[1][1] \in Viewers /\ 1 \in Calls(calls[1][1])
         /\ \A v \in Viewers :
              /\ \A k \in Calls(v)' : k + 1 \in Calls(v) /\ calls'[k] = calls[k + 1] /\ k \in Nat \ {0}
              /\ \A k \in Calls(v) : k # 1 => k - 1 \in Calls(v)' /\ k \in Nat
<1>1. /\ calls' \in Seq(Viewers \X Numbers) /\ Head(calls) = calls[1] /\ Len(calls) \in Nat \ {0}
      /\ DOMAIN calls = 1..Len(calls) /\ DOMAIN calls' = 1..(Len(calls) - 1)
      /\ \A k \in 1..(Len(calls) - 1) : calls'[k] = calls[k + 1]
  OBVIOUS
<1>2. 1 \in DOMAIN calls /\ calls[1] \in Viewers \X Numbers
  BY <1>1
<1>3. calls[1][1] \in Viewers /\ 1 \in Calls(calls[1][1])
  BY <1>2 DEF Calls
<1>4. ASSUME NEW v \in Viewers, NEW k \in Calls(v)'
      PROVE  k + 1 \in Calls(v) /\ calls'[k] = calls[k + 1] /\ k \in Nat \ {0}
  BY <1>1, <1>4 DEF Calls
<1>5. ASSUME NEW v \in Viewers, NEW k \in Calls(v), k # 1
      PROVE  k - 1 \in Calls(v)' /\ k \in Nat
  <2>1. k \in 1..Len(calls) /\ calls[k][1] = v
    BY <1>1, <1>5 DEF Calls
  <2>2. k - 1 \in 1..(Len(calls) - 1) /\ (k - 1) + 1 = k
    BY <1>1, <1>5, <2>1
  <2>3. calls'[k - 1] = calls[k]
    BY <1>1, <2>2
  <2> QED BY <1>1, <2>1, <2>2, <2>3 DEF Calls
<1> QED BY <1>1, <1>3, <1>4, <1>5

(* A viewer none of whose lines moved.                                     *)
LEMMA NothingMoved ==
  ASSUME NEW v \in Viewers, NEW first, Continuous(v, first),
         Got(v)' = Got(v), HandedOver(v)' = HandedOver(v), Calls(v)' = Calls(v),
         \A k \in Calls(v) : calls'[k] = calls[k]
  PROVE  Continuous(v, first)'
<1>1. Under(v)' = Under(v)
  BY DEF Under
<1> QED BY <1>1 DEF Continuous

LEMMA EmitStep == ASSUME LogStreamAssumption, StreamInv, Emit PROVE StreamInv'
<1>1. /\ LogStreamTypeOK /\ NewHasNothing /\ StreamHasNoGaps
      /\ serving = {} /\ logged < MaxLogged /\ logged' = logged + 1 /\ serving' = listeners
      /\ buffer' = LastOf(Append(buffer, logged'))
      /\ UNCHANGED <<calls, listeners, lines, shown, link, overrun>>
  BY DEF StreamInv, Emit
<1>2. MaxLogged \in Nat /\ logged \in Nat /\ Capacity \in Nat \ {0} /\ logged' \in Numbers
  BY <1>1, StreamTyped DEF Numbers
<1>3. buffer' \in Seq(Numbers) /\ Len(buffer') <= Capacity
  <2> DEFINE b == Append(buffer, logged')
  <2>1. buffer \in Seq(Numbers) /\ Len(buffer) <= Capacity /\ Len(buffer) \in Nat
    BY <1>1 DEF LogStreamTypeOK
  <2>2. b \in Seq(Numbers) /\ Len(b) = Len(buffer) + 1 /\ buffer' = LastOf(b)
    BY <1>1, <1>2, <2>1
  <2> HIDE DEF b
  <2>3. CASE Len(b) > Capacity
    <3>1. b # << >> /\ buffer' = Tail(b)
      BY <1>2, <2>2, <2>3 DEF LastOf
    <3>2. Tail(b) \in Seq(Numbers) /\ Len(Tail(b)) = Len(b) - 1
      BY <2>2, <3>1
    <3> QED BY <1>2, <2>1, <2>2, <3>1, <3>2
  <2>4. CASE ~(Len(b) > Capacity)
    BY <1>2, <2>1, <2>2, <2>4 DEF LastOf
  <2> QED BY <2>3, <2>4
<1>4. LogStreamTypeOK'
  <2>1. logged' \in 0..MaxLogged
    BY <1>1, <1>2
  <2> QED BY <1>1, <1>3, <2>1 DEF LogStreamTypeOK
<1>5. NewHasNothing'
  BY <1>1 DEF NewHasNothing, NotConnected, Calls
<1>6. ASSUME NEW v \in Viewers, link'[v] = "on", v \notin overrun'
      PROVE  v \in listeners' /\ \E first \in 1..(logged' + 1) : Continuous(v, first)'
  <2>1. v \in listeners
    BY <1>1, <1>6 DEF StreamHasNoGaps
  <2>2. PICK first \in 1..(logged + 1) : Continuous(v, first)
    BY <1>1, <1>6 DEF StreamHasNoGaps
  <2>3. HandedOver(v)' = HandedOver(v)
    BY <1>1, <1>2, <2>1 DEF HandedOver
  <2>4. Continuous(v, first)'
    BY <1>1, <2>2, <2>3, NothingMoved DEF Got, Calls
  <2>5. first \in 1..(logged' + 1)
    BY <1>1, <1>2
  <2> QED BY <1>1, <2>1, <2>4, <2>5
<1>7. StreamHasNoGaps'
  BY <1>6 DEF StreamHasNoGaps
<1>8. logged' > 0
  BY <1>1, <1>2
<1> QED BY <1>4, <1>5, <1>7, <1>8 DEF StreamInv

LEMMA HandOverStep ==
  ASSUME LogStreamAssumption, StreamInv, NEW w \in Viewers, HandOver(w) PROVE StreamInv'
<1>1. /\ LogStreamTypeOK /\ NewHasNothing /\ StreamHasNoGaps /\ logged > 0
      /\ w \in serving /\ serving' = serving \ {w} /\ calls' = Append(calls, <<w, logged>>)
      /\ UNCHANGED <<logged, buffer, listeners, lines, shown, link, overrun>>
  BY DEF StreamInv, HandOver
<1>2. /\ MaxLogged \in Nat /\ logged \in Nat /\ logged \in Numbers
      /\ calls \in Seq(Viewers \X Numbers) /\ Len(calls) \in Nat
  BY <1>1, StreamTyped DEF Numbers
<1>3. /\ calls' \in Seq(Viewers \X Numbers)
      /\ \A v \in Viewers : v # w => Calls(v)' = Calls(v)
      /\ Calls(w)' = Calls(w) \cup {Len(calls) + 1}
      /\ \A v \in Viewers : \A k \in Calls(v) : k \in 1..Len(calls) /\ calls'[k] = calls[k]
      /\ calls'[Len(calls) + 1][2] = logged
  BY <1>1, <1>2, CallsAppended
<1>4. LogStreamTypeOK'
  BY <1>1, <1>3 DEF LogStreamTypeOK
<1>5. NewHasNothing'
  BY <1>1, <1>3 DEF NewHasNothing, NotConnected
<1>6. ASSUME NEW v \in Viewers, link[v] = "on", v \notin overrun
      PROVE  \E first \in 1..(logged + 1) : Continuous(v, first)'
  <2>1. PICK first \in 1..(logged + 1) : Continuous(v, first)
    BY <1>1, <1>6 DEF StreamHasNoGaps
  <2>2. CASE v # w
    <3>1. HandedOver(v)' = HandedOver(v)
      BY <1>1, <2>2 DEF HandedOver
    <3>2. Continuous(v, first)'
      BY <1>1, <1>3, <2>1, <2>2, <3>1, NothingMoved DEF Got
    <3> QED BY <3>2
  <2>3. CASE v = w
    <3> DEFINE next == first + Len(Got(v))
    <3>1. HandedOver(v) = logged - 1 /\ HandedOver(v)' = logged
      BY <1>1, <2>3 DEF HandedOver
    <3>2. /\ next \in Nat /\ next <= logged /\ Under(v) = next..(logged - 1)
          /\ \A i \in DOMAIN Got(v) : Got(v)[i] = first + i - 1
          /\ \A j, k \in Calls(v) : j < k => calls[j][2] < calls[k][2]
      <4>1. Len(Got(v)) \in Nat
        BY <1>1, StreamTyped
      <4>2. next <= (logged - 1) + 1
        BY <2>1, <3>1 DEF Continuous
      <4>3. next \in Nat /\ next <= logged
        BY <1>2, <4>1, <4>2
      <4> QED BY <2>1, <3>1, <4>3 DEF Continuous
    <3>3. Got(v)' = Got(v)
      BY <1>1 DEF Got
    <3>4. Under(v)' = Under(v) \cup {logged}
      BY <1>3, <2>3 DEF Under
    <3>5. Under(v)' = next..logged
      BY <1>2, <3>2, <3>4
    <3>6. ASSUME NEW j \in Calls(v)', NEW k \in Calls(v)', j < k
          PROVE  calls'[j][2] < calls'[k][2]
      <4>1. j \in Calls(v) /\ calls'[j] = calls[j]
        BY <1>2, <1>3, <2>3, <3>6
      <4>2. CASE k \in Calls(v)
        BY <1>3, <3>2, <3>6, <4>1, <4>2
      <4>3. CASE k = Len(calls) + 1
        <5>1. calls[j][2] \in Under(v)
          BY <4>1 DEF Under
        <5> QED BY <1>2, <1>3, <3>2, <4>1, <4>3, <5>1
      <4> QED BY <1>3, <2>3, <4>2, <4>3
    <3>7. Continuous(v, first)'
      <4>1. next <= logged + 1
        BY <1>2, <3>2
      <4> QED BY <3>1, <3>2, <3>3, <3>5, <3>6, <4>1 DEF Continuous
    <3> QED BY <3>7
  <2> QED BY <2>2, <2>3
<1>7. StreamHasNoGaps'
  BY <1>1, <1>6 DEF StreamHasNoGaps
<1> QED BY <1>1, <1>4, <1>5, <1>7 DEF StreamInv

(* The callback that runs is the first of its viewer's, so its line is the *)
(* one after the last its viewer got.                                      *)
LEMMA PutStep == ASSUME LogStreamAssumption, StreamInv, Put PROVE StreamInv'
<1> DEFINE w == Head(calls)[1]
           n == Head(calls)[2]
<1>1. /\ LogStreamTypeOK /\ NewHasNothing /\ StreamHasNoGaps
      /\ calls # << >> /\ calls' = Tail(calls)
      /\ \/ Full(w) /\ overrun' = overrun \cup {w} /\ lines' = lines
         \/ ~Full(w) /\ lines' = [lines EXCEPT ![w] = Append(@, n)] /\ overrun' = overrun
      /\ UNCHANGED <<logged, buffer, serving, listeners, shown, link>>
  BY DEF StreamInv, Put
<1>2. /\ calls \in Seq(Viewers \X Numbers) /\ logged \in Nat /\ LineQueueMax \in Nat \ {0}
  BY <1>1, StreamTyped
<1>3. /\ calls' \in Seq(Viewers \X Numbers) /\ Head(calls) = calls[1]
      /\ w \in Viewers /\ 1 \in Calls(w)
      /\ \A v \in Viewers :
           /\ \A k \in Calls(v)' : k + 1 \in Calls(v) /\ calls'[k] = calls[k + 1] /\ k \in Nat \ {0}
           /\ \A k \in Calls(v) : k # 1 => k - 1 \in Calls(v)' /\ k \in Nat
  BY <1>1, <1>2, CallsAdvanced
<1>n. n \in Numbers /\ n = calls[1][2]
  <2>1. calls[1] \in Viewers \X Numbers
    BY <1>1, <1>2
  <2> QED BY <1>3, <2>1
<1> HIDE DEF w, n
<1>4. /\ lines' \in [Viewers -> Seq(Numbers)] /\ overrun' \subseteq Viewers
      /\ \A v \in Viewers : Len(lines'[v]) <= LineQueueMax
      /\ \A v \in Viewers : v # w => lines'[v] = lines[v]
      /\ w \notin overrun' => lines'[w] = Append(lines[w], n)
  <2>1. /\ lines \in [Viewers -> Seq(Numbers)] /\ overrun \subseteq Viewers
        /\ \A v \in Viewers : Len(lines[v]) <= LineQueueMax
    BY <1>1 DEF LogStreamTypeOK
  <2>2. CASE Full(w)
    BY <1>1, <1>3, <2>1, <2>2
  <2>3. CASE ~Full(w)
    <3>1. lines' = [lines EXCEPT ![w] = Append(@, n)] /\ overrun' = overrun
      BY <1>1, <2>3
    <3>2. /\ lines[w] \in Seq(Numbers) /\ Append(lines[w], n) \in Seq(Numbers)
          /\ Len(Append(lines[w], n)) = Len(lines[w]) + 1 /\ Len(lines[w]) \in Nat
      BY <1>3, <1>n, <2>1
    <3>3. Len(lines[w]) + 1 <= LineQueueMax
      BY <1>2, <1>3, <2>1, <2>3, <3>2 DEF Full
    <3> QED BY <1>3, <2>1, <3>1, <3>2, <3>3
  <2> QED BY <2>2, <2>3
<1>5. LogStreamTypeOK'
  BY <1>1, <1>3, <1>4 DEF LogStreamTypeOK
<1>6. NewHasNothing'
  <2>1. ASSUME NEW v \in Viewers, link[v] = "new" PROVE NotConnected(v)'
    <3>1. NotConnected(v)
      BY <1>1, <2>1 DEF NewHasNothing
    <3>2. v # w /\ Calls(v)' = {}
      BY <1>3, <3>1 DEF NotConnected
    <3> QED BY <1>1, <1>4, <3>1, <3>2 DEF NotConnected
  <2> QED BY <1>1, <2>1 DEF NewHasNothing
<1>7. ASSUME NEW v \in Viewers, link[v] = "on", v \notin overrun'
      PROVE  \E first \in 1..(logged + 1) : Continuous(v, first)'
  <2>1. v \notin overrun
    BY <1>1, <1>7
  <2>2. PICK first \in 1..(logged + 1) : Continuous(v, first)
    BY <1>1, <1>7, <2>1 DEF StreamHasNoGaps
  <2> DEFINE next == first + Len(Got(v))
  <2>3. /\ next \in Nat /\ next <= HandedOver(v) + 1 /\ Under(v) = next..HandedOver(v)
        /\ \A i \in DOMAIN Got(v) : Got(v)[i] = first + i - 1
        /\ \A j, k \in Calls(v) : j < k => calls[j][2] < calls[k][2]
        /\ HandedOver(v)' = HandedOver(v) /\ HandedOver(v) \in Int
    <3>1. Len(Got(v)) \in Nat /\ HandedOver(v) \in {logged - 1, logged}
      BY <1>1, StreamTyped
    <3>2. HandedOver(v)' = HandedOver(v)
      BY <1>1 DEF HandedOver
    <3> QED BY <1>2, <2>2, <3>1, <3>2 DEF Continuous
  <2>4. ASSUME NEW j \in Calls(v)', NEW k \in Calls(v)', j < k PROVE calls'[j][2] < calls'[k][2]
    <3>1. /\ j + 1 \in Calls(v) /\ calls'[j] = calls[j + 1]
          /\ k + 1 \in Calls(v) /\ calls'[k] = calls[k + 1] /\ j \in Nat /\ k \in Nat
      BY <1>3, <2>4
    <3>2. j + 1 < k + 1
      BY <2>4, <3>1
    <3>3. calls[j + 1][2] < calls[k + 1][2]
      BY <2>3, <3>1, <3>2
    <3> QED BY <3>1, <3>3
  <2>5. CASE v # w
    <3>1. Under(v)' = Under(v)
      <4>1. 1 \notin Calls(v)
        BY <1>3, <2>5 DEF Calls, w
      <4>2. ASSUME NEW k \in Calls(v) PROVE \E j \in Calls(v)' : calls'[j][2] = calls[k][2]
        <5>1. k - 1 \in Calls(v)' /\ k \in Nat
          BY <1>3, <4>1
        <5>2. calls'[k - 1] = calls[(k - 1) + 1] /\ (k - 1) + 1 = k
          BY <1>3, <5>1
        <5> QED BY <5>1, <5>2
      <4>3. ASSUME NEW k \in Calls(v)' PROVE \E j \in Calls(v) : calls[j][2] = calls'[k][2]
        BY <1>3
      <4> QED BY <4>2, <4>3 DEF Under
    <3>2. Got(v)' = Got(v)
      BY <1>1, <1>4, <2>5 DEF Got
    <3>3. Continuous(v, first)'
      BY <2>3, <2>4, <3>1, <3>2 DEF Continuous
    <3> QED BY <3>3
  <2>6. CASE v = w
    <3>1. n \in Under(v) /\ \A k \in Calls(v) : k # 1 => calls[k][2] > n
      <4>1. 1 \in Calls(v) /\ calls[1][2] = n
        BY <1>3, <1>n, <2>6
      <4>2. n \in Under(v)
        BY <4>1 DEF Under
      <4>3. ASSUME NEW k \in Calls(v), k # 1 PROVE calls[k][2] > n
        <5>1. k \in Nat /\ 1 < k
          <6>1. k \in 1..Len(calls) /\ Len(calls) \in Nat
            BY <1>2, LenProperties DEF Calls
          <6> QED BY <4>3, <6>1
        <5>2. calls[k][2] \in Under(v)
          BY DEF Under
        <5> QED BY <2>3, <4>1, <4>2, <5>1, <5>2
      <4> QED BY <4>2, <4>3
    <3>2. n = next
      <4>1. next \in Under(v) /\ n >= next
        BY <2>3, <3>1
      <4>2. PICK k \in Calls(v) : calls[k][2] = next
        BY <4>1 DEF Under
      <4> QED BY <1>n, <2>3, <3>1, <4>1, <4>2
    <3>3. Under(v)' = Under(v) \ {n}
      <4>2. ASSUME NEW k \in Calls(v), calls[k][2] # n PROVE \E j \in Calls(v)' : calls'[j][2] = calls[k][2]
        <5>1. k # 1
          BY <1>n, <4>2
        <5>2. k - 1 \in Calls(v)' /\ k \in Nat
          BY <1>3, <5>1
        <5>3. calls'[k - 1] = calls[(k - 1) + 1] /\ (k - 1) + 1 = k
          BY <1>3, <5>2
        <5> QED BY <5>2, <5>3
      <4>3. ASSUME NEW k \in Calls(v)'
            PROVE  \E j \in Calls(v) : calls[j][2] = calls'[k][2] /\ calls[j][2] # n
        <5>1. k + 1 \in Calls(v) /\ calls'[k] = calls[k + 1] /\ k + 1 # 1
          BY <1>3
        <5>2. calls[k + 1][2] > n /\ calls[k + 1][2] \in Under(v)
          BY <3>1, <5>1 DEF Under
        <5>3. calls[k + 1][2] # n
          BY <1>n, <2>3, <3>1, <5>2
        <5> QED BY <5>1, <5>3
      <4> QED BY <4>2, <4>3 DEF Under
    <3>4. /\ Got(v)' = Append(Got(v), n)
      <4>1. lines'[v] = Append(lines[v], n) /\ shown' = shown
        BY <1>1, <1>4, <1>7, <2>6
      <4>2. lines[v] \in Seq(Numbers) /\ shown[v] \in Seq(Numbers)
        BY <1>1, StreamTyped
      <4>3. ASSUME NEW s \in Seq(Numbers), NEW t \in Seq(Numbers)
            PROVE  s \o Append(t, n) = Append(s \o t, n)
        BY <1>n
      <4>4. Got(v)' = shown[v] \o Append(lines[v], n)
        BY <4>1 DEF Got
      <4> QED BY <4>2, <4>3, <4>4 DEF Got
    <3>5. /\ Len(Got(v)') = Len(Got(v)) + 1
          /\ \A i \in DOMAIN Got(v)' : Got(v)'[i] = first + i - 1
      <4>1. Got(v) \in Seq(Numbers)
        BY <1>1, StreamTyped
      <4>2. /\ Len(Got(v)') = Len(Got(v)) + 1 /\ DOMAIN Got(v) = 1..Len(Got(v))
            /\ Got(v)'[Len(Got(v)) + 1] = n
            /\ \A i \in 1..Len(Got(v)) : Got(v)'[i] = Got(v)[i]
            /\ DOMAIN Got(v)' = 1..(Len(Got(v)) + 1) /\ Len(Got(v)) \in Nat
        BY <1>n, <3>4, <4>1
      <4>3. ASSUME NEW i \in DOMAIN Got(v)' PROVE Got(v)'[i] = first + i - 1
        <5>1. CASE i = Len(Got(v)) + 1
          BY <3>2, <4>2, <5>1
        <5>2. CASE i # Len(Got(v)) + 1
          <6>1. i \in 1..Len(Got(v))
            BY <4>2, <5>2
          <6> QED BY <2>3, <4>2, <6>1
        <5> QED BY <5>1, <5>2
      <4> QED BY <4>2, <4>3
    <3>6. first + Len(Got(v)') = next + 1 /\ next <= HandedOver(v)
      <4>1. Len(Got(v)) \in Nat
        BY <1>1, StreamTyped
      <4> QED BY <2>3, <3>1, <3>2, <3>5, <4>1
    <3> HIDE DEF next
    <3>7. Under(v)' = (next + 1)..HandedOver(v)
      BY <2>3, <3>2, <3>3
    <3>8. Continuous(v, first)'
      BY <2>3, <2>4, <3>5, <3>6, <3>7 DEF Continuous
    <3> QED BY <3>8
  <2> QED BY <2>5, <2>6
<1>8. ASSUME NEW v \in Viewers, link[v] = "on", v \notin overrun' PROVE v \in listeners
  BY <1>1, <1>8 DEF StreamHasNoGaps
<1>9. StreamHasNoGaps'
  BY <1>1, <1>7, <1>8 DEF StreamHasNoGaps
<1> QED BY <1>1, <1>5, <1>6, <1>9 DEF StreamInv

(* A new viewer begins after the last line logged.                         *)
LEMMA SubscribeStep ==
  ASSUME LogStreamAssumption, StreamInv, NEW w \in Viewers, Subscribe(w) PROVE StreamInv'
<1>1. /\ LogStreamTypeOK /\ NewHasNothing /\ StreamHasNoGaps /\ link[w] = "new"
      /\ \/ listeners' = Staying /\ link' = [link EXCEPT ![w] = "refused"]
         \/ listeners' = Staying \cup {w} /\ link' = [link EXCEPT ![w] = "on"]
      /\ overrun' = overrun \cup {x \in listeners : Full(x)}
      /\ UNCHANGED <<logged, buffer, serving, calls, lines, shown>>
  BY DEF StreamInv, Subscribe
<1>2. /\ link \in [Viewers -> {"new", "on", "refused", "gone"}] /\ listeners \subseteq Viewers
      /\ overrun \subseteq Viewers /\ logged \in Nat
  BY <1>1, StreamTyped DEF LogStreamTypeOK
<1>3. NotConnected(w)
  BY <1>1 DEF NewHasNothing
<1>4. LogStreamTypeOK'
  BY <1>1, <1>2 DEF LogStreamTypeOK, Staying
<1>5. ASSUME NEW v \in Viewers, link'[v] = "new" PROVE NotConnected(v)'
  <2>1. v # w /\ link[v] = "new"
    BY <1>1, <1>2, <1>5
  <2>2. NotConnected(v)
    BY <1>1, <2>1 DEF NewHasNothing
  <2> QED BY <1>1, <2>1, <2>2 DEF NotConnected, Calls, Staying
<1>6. ASSUME NEW v \in Viewers, link'[v] = "on", v \notin overrun'
      PROVE  v \in listeners' /\ \E first \in 1..(logged + 1) : Continuous(v, first)'
  <2>1. CASE v = w
    <3>1. w \in listeners'
      BY <1>1, <1>2, <1>6, <2>1
    <3>2. Got(w)' = << >> /\ Calls(w)' = {} /\ HandedOver(w)' = logged
      BY <1>1, <1>3 DEF NotConnected, Got, Calls, HandedOver
    <3>3. Under(w)' = {} /\ DOMAIN Got(w)' = {} /\ Len(Got(w)') = 0
      BY <3>2 DEF Under
    <3>a. PICK first \in 1..(logged + 1) : first = logged + 1
      BY <1>2
    <3>4. first + Len(Got(w)') = logged + 1 /\ (logged + 1)..logged = {}
      BY <1>2, <3>3, <3>a
    <3>5. HandedOver(w)' + 1 = logged + 1 /\ logged + 1 <= logged + 1
      BY <1>2, <3>2
    <3>6. Continuous(w, first)'
      BY <3>2, <3>3, <3>4, <3>5 DEF Continuous
    <3> QED BY <2>1, <3>1, <3>6
  <2>2. CASE v # w
    <3>1. link[v] = "on" /\ v \notin overrun
      BY <1>1, <1>2, <1>6, <2>2
    <3>2. v \in listeners
      BY <1>1, <3>1 DEF StreamHasNoGaps
    <3>3. v \in Staying
      BY <1>1, <1>6, <3>2 DEF Staying
    <3>4. PICK first \in 1..(logged + 1) : Continuous(v, first)
      BY <1>1, <3>1 DEF StreamHasNoGaps
    <3>5. Continuous(v, first)'
      BY <1>1, <3>4, NothingMoved DEF Got, HandedOver, Calls
    <3> QED BY <1>1, <3>3, <3>5
  <2> QED BY <2>1, <2>2
<1>7. StreamHasNoGaps'
  BY <1>1, <1>6 DEF StreamHasNoGaps
<1>8. serving' # {} => logged' > 0
  BY <1>1 DEF StreamInv
<1> QED BY <1>4, <1>5, <1>7, <1>8 DEF StreamInv, NewHasNothing

LEMMA ShowStep ==
  ASSUME LogStreamAssumption, StreamInv, NEW w \in Viewers, Show(w) PROVE StreamInv'
<1>1. /\ LogStreamTypeOK /\ NewHasNothing /\ StreamHasNoGaps
      /\ link[w] = "on" /\ lines[w] # << >>
      /\ shown' = [shown EXCEPT ![w] = Append(shown[w], Head(lines[w]))]
      /\ lines' = [lines EXCEPT ![w] = Tail(lines[w])]
      /\ UNCHANGED <<logged, buffer, serving, calls, listeners, link, overrun>>
  BY DEF StreamInv, Show
<1>2. /\ lines \in [Viewers -> Seq(Numbers)] /\ shown \in [Viewers -> Seq(Numbers)]
      /\ \A v \in Viewers : Len(lines[v]) <= LineQueueMax
      /\ LineQueueMax \in Nat
  BY <1>1, StreamTyped DEF LogStreamTypeOK
<1>3. /\ Append(shown[w], Head(lines[w])) \in Seq(Numbers) /\ Tail(lines[w]) \in Seq(Numbers)
      /\ Len(Tail(lines[w])) <= LineQueueMax
      /\ Append(shown[w], Head(lines[w])) \o Tail(lines[w]) = shown[w] \o lines[w]
  <2> DEFINE s == shown[w]
             t == lines[w]
  <2>1. s \in Seq(Numbers) /\ t \in Seq(Numbers) /\ t # << >> /\ Len(t) <= LineQueueMax
    BY <1>1, <1>2
  <2> HIDE DEF s, t
  <2>2. /\ Append(s, Head(t)) \in Seq(Numbers) /\ Tail(t) \in Seq(Numbers)
        /\ Len(Tail(t)) = Len(t) - 1 /\ Len(t) \in Nat \ {0}
    BY <2>1
  <2>3. Append(s, Head(t)) \o Tail(t) = s \o t
    BY <2>1
  <2> QED BY <1>2, <2>1, <2>2, <2>3 DEF s, t
<1>4. /\ lines' \in [Viewers -> Seq(Numbers)] /\ shown' \in [Viewers -> Seq(Numbers)]
      /\ \A v \in Viewers : Len(lines'[v]) <= LineQueueMax
      /\ \A v \in Viewers : v # w => lines'[v] = lines[v] /\ shown'[v] = shown[v]
      /\ \A v \in Viewers : Got(v)' = Got(v)
  BY <1>1, <1>2, <1>3 DEF Got
<1>5. LogStreamTypeOK'
  BY <1>1, <1>4 DEF LogStreamTypeOK
<1>6. ASSUME NEW v \in Viewers, link[v] = "new" PROVE NotConnected(v)'
  <2>1. NotConnected(v) /\ v # w
    BY <1>1, <1>6 DEF NewHasNothing
  <2> QED BY <1>1, <1>4, <2>1 DEF NotConnected, Calls
<1>7. ASSUME NEW v \in Viewers, link[v] = "on", v \notin overrun
      PROVE  v \in listeners /\ \E first \in 1..(logged + 1) : Continuous(v, first)'
  <2>1. v \in listeners
    BY <1>1, <1>7 DEF StreamHasNoGaps
  <2>2. PICK first \in 1..(logged + 1) : Continuous(v, first)
    BY <1>1, <1>7 DEF StreamHasNoGaps
  <2>3. Continuous(v, first)'
    BY <1>1, <1>4, <2>2, NothingMoved DEF HandedOver, Calls
  <2> QED BY <2>1, <2>3
<1>8. StreamHasNoGaps'
  BY <1>1, <1>7 DEF StreamHasNoGaps
<1>9. NewHasNothing' /\ (serving' # {} => logged' > 0)
  BY <1>1, <1>6 DEF StreamInv, NewHasNothing
<1> QED BY <1>5, <1>8, <1>9 DEF StreamInv

LEMMA UnsubscribeStep ==
  ASSUME LogStreamAssumption, StreamInv,
         UNCHANGED streamVars \/ \E w \in Viewers : Unsubscribe(w)
  PROVE  StreamInv'
<1>1. /\ LogStreamTypeOK /\ NewHasNothing /\ StreamHasNoGaps
      /\ UNCHANGED <<logged, buffer, serving, calls, lines, shown, overrun>>
  BY DEF StreamInv, Unsubscribe, streamVars
<1>2. PICK gone \in SUBSET Viewers :
        /\ listeners' = listeners \ gone
        /\ link' = [v \in Viewers |-> IF v \in gone THEN "gone" ELSE link[v]]
  <2>1. link \in [Viewers -> {"new", "on", "refused", "gone"}]
    BY <1>1 DEF LogStreamTypeOK
  <2>2. CASE UNCHANGED streamVars
    <3>1. listeners' = listeners \ {} /\ link' = [v \in Viewers |-> IF v \in {} THEN "gone" ELSE link[v]]
      BY <2>1, <2>2 DEF streamVars
    <3>2. {} \in SUBSET Viewers
      OBVIOUS
    <3> QED BY <3>1, <3>2
  <2>3. ASSUME NEW w \in Viewers, Unsubscribe(w)
        PROVE  /\ listeners' = listeners \ {w} /\ {w} \in SUBSET Viewers
               /\ link' = [v \in Viewers |-> IF v \in {w} THEN "gone" ELSE link[v]]
    BY <2>1, <2>3 DEF Unsubscribe
  <2> QED BY <2>2, <2>3
<1>3. LogStreamTypeOK'
  BY <1>1, <1>2 DEF LogStreamTypeOK
<1>4. ASSUME NEW v \in Viewers, link'[v] = "new" PROVE NotConnected(v)'
  BY <1>1, <1>2, <1>4 DEF NewHasNothing, NotConnected, Calls
<1>5. ASSUME NEW v \in Viewers, link'[v] = "on", v \notin overrun
      PROVE  v \in listeners' /\ \E first \in 1..(logged + 1) : Continuous(v, first)'
  <2>1. v \notin gone /\ link[v] = "on"
    BY <1>2, <1>5
  <2>2. v \in listeners
    BY <1>1, <1>5, <2>1 DEF StreamHasNoGaps
  <2>3. PICK first \in 1..(logged + 1) : Continuous(v, first)
    BY <1>1, <1>5, <2>1 DEF StreamHasNoGaps
  <2>4. Continuous(v, first)'
    BY <1>1, <2>3, NothingMoved DEF Got, HandedOver, Calls
  <2> QED BY <1>2, <2>1, <2>2, <2>4
<1>6. StreamHasNoGaps' /\ NewHasNothing' /\ (serving' # {} => logged' > 0)
  BY <1>1, <1>4, <1>5 DEF StreamInv, StreamHasNoGaps, NewHasNothing
<1> QED BY <1>3, <1>6 DEF StreamInv

LEMMA StreamSteps ==
  ASSUME LogStreamAssumption, StreamInv, [LogStreamNext]_streamVars PROVE StreamInv'
BY EmitStep, PutStep, HandOverStep, SubscribeStep, ShowStep, UnsubscribeStep DEF LogStreamNext

(* Every variable of the log viewer keeps its type.                        *)
THEOREM StreamTypeCorrect == ASSUME LogStreamAssumption PROVE LogStreamSpec => []LogStreamTypeOK
<1>1. StreamInv /\ [LogStreamNext]_streamVars => StreamInv'
  BY StreamSteps
<1>2. StreamInv => LogStreamTypeOK
  BY DEF StreamInv
<1> QED BY <1>1, <1>2, StreamInitially, PTL DEF LogStreamSpec

(* main.py:49-95.  A connected viewer whose queue was never full has every *)
(* line from the first it got to the last one logged, in order; for any    *)
(* viewers, limits and length of the queues, whoever comes, goes or logs.  *)
THEOREM StreamsAreComplete == ASSUME LogStreamAssumption PROVE LogStreamSpec => []StreamHasNoGaps
<1>1. StreamInv /\ [LogStreamNext]_streamVars => StreamInv'
  BY StreamSteps
<1>2. StreamInv => StreamHasNoGaps
  BY DEF StreamInv
<1> QED BY <1>1, <1>2, StreamInitially, PTL DEF LogStreamSpec
=============================================================================
