------------------------------ MODULE LogStream ------------------------------
(***************************************************************************)
(* The log viewer: a logging handler keeps the last lines and passes each  *)
(* to the queues of the connected viewers.  Records come from any thread;  *)
(* the handler's own lock lets in one at a time.  A queue is only touched  *)
(* on the event loop, by callbacks that run in the order they were handed  *)
(* over.  A line is its number.                                            *)
(***************************************************************************)
EXTENDS Naturals, Sequences, FiniteSets

CONSTANTS
  Viewers,
  MaxListeners,  \* viewers served at a time (20)
  LineQueueMax,  \* lines waiting for a viewer (200)
  Capacity,      \* lines the handler keeps (2000)
  MaxLogged      \* bound: lines logged

LogStreamAssumption ==
  /\ IsFiniteSet(Viewers) /\ MaxListeners \in Nat /\ LineQueueMax \in Nat \ {0}
  /\ Capacity \in Nat \ {0} /\ MaxLogged \in Nat

VARIABLES
  logged,     \* lines logged so far
  buffer,     \* the last lines
  serving,    \* the viewers the line being emitted has still to go to
  calls,      \* callbacks waiting on the event loop: <<viewer, line>>
  listeners,  \* _listeners
  lines,      \* per viewer: its queue
  shown,      \* per viewer: the lines sent to the browser
  link,       \* per viewer: "new", "on", "refused" or "gone"
  overrun     \* history: the viewers whose queue has been full

streamVars == <<logged, buffer, serving, calls, listeners, lines, shown, link, overrun>>

Numbers == 1..MaxLogged

LogStreamTypeOK ==
  /\ logged \in 0..MaxLogged /\ buffer \in Seq(Numbers) /\ Len(buffer) <= Capacity
  /\ serving \subseteq Viewers /\ calls \in Seq(Viewers \X Numbers)
  /\ listeners \subseteq Viewers
  /\ lines \in [Viewers -> Seq(Numbers)] /\ \A v \in Viewers : Len(lines[v]) <= LineQueueMax
  /\ shown \in [Viewers -> Seq(Numbers)]
  /\ link \in [Viewers -> {"new", "on", "refused", "gone"}]
  /\ overrun \subseteq Viewers

LogStreamInit ==
  /\ logged = 0 /\ buffer = << >> /\ serving = {} /\ calls = << >> /\ listeners = {}
  /\ lines = [v \in Viewers |-> << >>] /\ shown = [v \in Viewers |-> << >>]
  /\ link = [v \in Viewers |-> "new"] /\ overrun = {}

(* emit: the line is kept, the listeners are copied under the lock, and a  *)
(* callback is handed to the loop for each of them.                        *)
LastOf(s) == IF Len(s) > Capacity THEN Tail(s) ELSE s
Emit ==
  /\ serving = {} /\ logged < MaxLogged
  /\ logged' = logged + 1
  /\ buffer' = LastOf(Append(buffer, logged'))
  /\ serving' = listeners
  /\ UNCHANGED <<calls, listeners, lines, shown, link, overrun>>

HandOver(v) ==
  /\ v \in serving
  /\ serving' = serving \ {v} /\ calls' = Append(calls, <<v, logged>>)
  /\ UNCHANGED <<logged, buffer, listeners, lines, shown, link, overrun>>

Full(v) == Len(lines[v]) = LineQueueMax

(* _put_nowait: a full queue loses the line.                               *)
Put ==
  /\ calls # << >>
  /\ calls' = Tail(calls)
  /\ LET v == Head(calls)[1] IN
       IF Full(v) THEN overrun' = overrun \cup {v} /\ UNCHANGED lines
       ELSE lines' = [lines EXCEPT ![v] = Append(@, Head(calls)[2])] /\ UNCHANGED overrun
  /\ UNCHANGED <<logged, buffer, serving, listeners, shown, link>>

(* subscribe: viewers with a full queue are let go, and not told.          *)
(* Mutant: those with an empty queue are.                                  *)
StayingUnlessIdle == {v \in listeners : lines[v] # << >>}
Staying == {v \in listeners : ~Full(v)}

Subscribe(v) ==
  /\ link[v] = "new"
  /\ IF Cardinality(Staying) >= MaxListeners
     THEN listeners' = Staying /\ link' = [link EXCEPT ![v] = "refused"]
     ELSE listeners' = Staying \cup {v} /\ link' = [link EXCEPT ![v] = "on"]
  /\ overrun' = overrun \cup {w \in listeners : Full(w)}
  /\ UNCHANGED <<logged, buffer, serving, calls, lines, shown>>

(* event_generator, and unsubscribe when the browser is gone.              *)
Show(v) ==
  /\ link[v] = "on" /\ lines[v] # << >>
  /\ shown' = [shown EXCEPT ![v] = Append(@, Head(lines[v]))]
  /\ lines' = [lines EXCEPT ![v] = Tail(@)]
  /\ UNCHANGED <<logged, buffer, serving, calls, listeners, link, overrun>>

Unsubscribe(v) ==
  /\ link[v] = "on"
  /\ link' = [link EXCEPT ![v] = "gone"] /\ listeners' = listeners \ {v}
  /\ UNCHANGED <<logged, buffer, serving, calls, lines, shown, overrun>>

LogStreamNext ==
  \/ Emit \/ Put
  \/ \E v \in Viewers : HandOver(v) \/ Subscribe(v) \/ Show(v) \/ Unsubscribe(v)

LogStreamSpec == LogStreamInit /\ [][LogStreamNext]_streamVars

-----------------------------------------------------------------------------
Got(v)   == shown[v] \o lines[v]
Calls(v) == {k \in DOMAIN calls : calls[k][1] = v}
Under(v) == {calls[k][2] : k \in Calls(v)}

(* The last line handed over for a listener.                               *)
HandedOver(v) == IF v \in serving THEN logged - 1 ELSE logged

(* What v got are consecutive lines from first on, and what is under way   *)
(* to it are, in order, those from there to the last one handed over.      *)
Continuous(v, first) ==
  LET next == first + Len(Got(v)) IN
  /\ \A i \in DOMAIN Got(v) : Got(v)[i] = first + i - 1
  /\ next <= HandedOver(v) + 1 /\ Under(v) = next..HandedOver(v)
  /\ \A j, k \in Calls(v) : j < k => calls[j][2] < calls[k][2]

(* main.py:49-95.  A connected viewer whose queue was never full has,      *)
(* shown, queued and under way, every line from the first one it got to    *)
(* the last one logged, in order, whoever comes, goes or logs.             *)
StreamHasNoGaps ==
  \A v \in Viewers : link[v] = "on" /\ v \notin overrun =>
    v \in listeners /\ \E first \in 1..(logged + 1) : Continuous(v, first)
=============================================================================
