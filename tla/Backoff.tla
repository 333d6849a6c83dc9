------------------------------- MODULE Backoff -------------------------------
(***************************************************************************)
(* The backoff of the LLM adapter, which every thread of the process       *)
(* shares: the actor, the critic, the dashboard's chat, the report.  Time  *)
(* is counted in units of the shortest backoff.  The check of the cooldown *)
(* and the counting of a failure are one step each: CPython changes        *)
(* threads only at calls and loops.  What a request asks, and how its      *)
(* answer is taken apart, is left out: it is usable, empty, or an error.   *)
(***************************************************************************)
EXTENDS Naturals, FiniteSets

CONSTANTS
  Callers,
  Tolerance,    \* consecutive failures before the adapter backs off (3)
  MaxBackoff,   \* the longest backoff
  Pause(_),     \* the backoff after so many failures: min(2^n, 60) seconds
  MaxFails,     \* bound: failures counted; the backoff no longer grows there
  DefaultWorks  \* whether the server answers on the default path

BackoffAssumption ==
  /\ IsFiniteSet(Callers) /\ Callers # {}
  /\ Tolerance \in Nat \ {0} /\ MaxBackoff \in Nat \ {0}
  /\ \A n \in Tolerance..MaxFails : Pause(n) \in 1..MaxBackoff
  /\ MaxFails \in Nat /\ MaxFails >= Tolerance
  /\ DefaultWorks \in BOOLEAN

VARIABLES
  up,       \* the inference server answers
  path,     \* _completions_path: "" until detected, "detected" or "default"
  fails,    \* _consecutive_failures
  cooling,  \* _cooldown_until is set
  left,     \* time until it, 0 when it has passed
  call,     \* per thread: "none", "admitted" past the check, "sent"
  silent    \* history: how long every call has been refused by now

backoffVars == <<up, path, fails, cooling, left, call, silent>>

BackoffTypeOK ==
  /\ up \in BOOLEAN /\ path \in {"", "detected", "default"}
  /\ fails \in 0..MaxFails /\ cooling \in BOOLEAN /\ left \in 0..MaxBackoff
  /\ (~cooling => left = 0)
  /\ call \in [Callers -> {"none", "admitted", "sent"}]
  /\ silent \in Nat

BackoffInit ==
  /\ up \in BOOLEAN /\ path = "" /\ fails = 0 /\ cooling = FALSE /\ left = 0
  /\ call = [t \in Callers |-> "none"] /\ silent = 0

ServerChanges == up' = ~up /\ UNCHANGED <<path, fails, cooling, left, call, silent>>

Refusing == left > 0

Tick ==
  /\ Refusing
  /\ left' = left - 1 /\ silent' = IF left > 1 THEN silent + 1 ELSE 0
  /\ UNCHANGED <<up, path, fails, cooling, call>>

CappedFails(n) == IF n < MaxFails THEN n ELSE MaxFails

(* _record_failure and _record_success.                                    *)
RecordFailure ==
  LET n == CappedFails(fails + 1) IN
  /\ fails' = n
  /\ IF n >= Tolerance THEN cooling' = TRUE /\ left' = Pause(n)
     ELSE UNCHANGED <<cooling, left>>
  /\ UNCHANGED silent

RecordSuccess == fails' = 0 /\ cooling' = FALSE /\ left' = 0 /\ silent' = 0

-----------------------------------------------------------------------------
(* complete, chat and _chat_with_owui_fields.  During the cooldown a call  *)
(* is refused and counts for nothing.  After it, the flag is cleared, for  *)
(* all threads: the count stays, so the next failure pauses for longer.    *)
(* Mutant: a refused call counts as a failure.                             *)
RefuseCounting(t) ==
  /\ call[t] = "none" /\ Refusing
  /\ RecordFailure
  /\ UNCHANGED <<up, path, call>>
Refuse(t) ==
  /\ call[t] = "none" /\ Refusing
  /\ UNCHANGED backoffVars

Admit(t) ==
  /\ call[t] = "none" /\ ~Refusing
  /\ cooling' = FALSE
  /\ call' = [call EXCEPT ![t] = "admitted"]
  /\ UNCHANGED <<up, path, fails, left, silent>>

(* _detect_completions_path, then the request.  When no path answers, the  *)
(* default is taken for good.                                              *)
Send(t) ==
  /\ call[t] = "admitted"
  /\ path' = IF path # "" THEN path ELSE IF up THEN "detected" ELSE "default"
  /\ call' = [call EXCEPT ![t] = "sent"]
  /\ UNCHANGED <<up, fails, cooling, left, silent>>

Reachable == up /\ (path = "detected" \/ DefaultWorks)

Answered(t) ==
  /\ call[t] = "sent" /\ Reachable
  /\ RecordSuccess
  /\ call' = [call EXCEPT ![t] = "none"]
  /\ UNCHANGED <<up, path>>

(* An answer without text: complete() counts it neither way.               *)
AnsweredEmpty(t) ==
  /\ call[t] = "sent" /\ Reachable
  /\ call' = [call EXCEPT ![t] = "none"]
  /\ UNCHANGED <<up, path, fails, cooling, left, silent>>

(* An error, a timeout, or, when streaming, an empty answer.               *)
Failed(t) ==
  /\ call[t] = "sent"
  /\ RecordFailure
  /\ call' = [call EXCEPT ![t] = "none"]
  /\ UNCHANGED <<up, path>>

BackoffNext ==
  \/ ServerChanges \/ Tick
  \/ \E t \in Callers : \/ Refuse(t) \/ Admit(t) \/ Send(t)
                        \/ Answered(t) \/ AnsweredEmpty(t) \/ Failed(t)

BackoffSpec == BackoffInit /\ [][BackoffNext]_backoffVars

-----------------------------------------------------------------------------
(* llm_adapter.py:107-134.  Calls are never refused for longer than one    *)
(* full backoff per thread: only requests that were under way when the     *)
(* cooldown began can prolong it, each once, however often others try.     *)
RefusalsEnd == silent < MaxBackoff * Cardinality(Callers)
=============================================================================
