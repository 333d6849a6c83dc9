------------------------------- MODULE Intake -------------------------------
(***************************************************************************)
(* The two syslog collectors and the counters behind them.  A log line is  *)
(* written once to the watched file and may also be sent by UDP (mode      *)
(* "auto" runs both collectors).  Each collector is a task on the event    *)
(* loop that hands one line at a time to an executor thread and waits for  *)
(* it; the hourly flush runs in a thread of its own.  Lines are numbered   *)
(* in the order they are written; positions in the file count lines.       *)
(***************************************************************************)
EXTENDS Parsers, FiniteSets

CONSTANTS
  Shapes,          \* the lines that are logged
  Modes,           \* settings.syslog.mode: "file", "udp" or "auto" for both
  UdpQueueMax,     \* queue size of the UDP collector
  MaxRead,         \* lines that 1 MB holds
  MaxLines,        \* bound: lines logged
  MaxIntakeFaults  \* bound: rotations, failed reads and writes, restarts

IntakeAssumption ==
  /\ Shapes \subseteq Line /\ Modes \subseteq {"file", "udp", "auto"}
  /\ UdpQueueMax \in Nat \ {0} /\ MaxRead \in Nat \ {0}
  /\ MaxLines \in Nat /\ MaxIntakeFaults \in Nat

Sources == {"file", "udp"}
NoLine  == 0
Unseen  == MaxLines + 1   \* no position yet: the file has not been discovered

VARIABLES
  mode,                 \* which collectors were started
  shape, file, sent,    \* what was logged, what the file holds, how many lines went out by UDP
  pos, statted, batch,  \* the tailer: _file_positions, <<from, size>> of a stat, lines read
  queue, dropped,       \* the UDP collector's queue and _drop_count
  work,                 \* the line each collector has in the executor
  bucket, taken,        \* _buckets, and the buckets a flush has taken
  rollups,              \* event_rollups (sum of count) and the events of each line
  faults,
  rotated, runs, excused, counted, lost  \* history: see the properties

tailVars == <<pos, statted, batch>>
intakeVars == <<mode, shape, file, sent, tailVars, queue, dropped, work, bucket, taken, rollups,
          faults, rotated, runs, excused, counted, lost>>

Written == 1..Len(shape)
In(s)   == {s[i] : i \in DOMAIN s}
Least(a, b) == IF a < b THEN a ELSE b

IntakeTypeOK ==
  /\ mode \in Modes
  /\ shape \in Seq(Shapes) /\ Len(shape) <= MaxLines
  /\ In(file) \subseteq Written /\ sent \in 0..Len(shape)
  /\ pos \in 0..Unseen /\ In(batch) \subseteq Written
  /\ statted \in {<<>>} \cup (0..MaxLines) \X (1..MaxLines)
  /\ In(queue) \subseteq Written /\ Len(queue) <= UdpQueueMax /\ dropped \in Nat
  /\ work \in [Sources -> Written \cup {NoLine}]
  /\ bucket \in Nat /\ taken \in Nat /\ rollups \in Nat
  /\ faults \in 0..MaxIntakeFaults

IntakeInit ==
  /\ mode \in Modes
  /\ shape = <<>> /\ file = <<>> /\ sent = 0
  /\ pos = Unseen /\ statted = <<>> /\ batch = <<>>
  /\ queue = <<>> /\ dropped = 0
  /\ work = [s \in Sources |-> NoLine]
  /\ bucket = 0 /\ taken = 0 /\ rollups = 0
  /\ runs = [i \in 1..MaxLines |-> 0]
  /\ faults = 0 /\ rotated = FALSE /\ excused = {} /\ counted = 0 /\ lost = 0

IntakeFault == faults < MaxIntakeFaults /\ faults' = faults + 1

-----------------------------------------------------------------------------
(* The syslog daemon: appends to the file, sends datagrams, rotates.       *)
Log(l) ==
  /\ Len(shape) < MaxLines
  /\ shape' = Append(shape, l)
  /\ file' = Append(file, Len(shape) + 1)
  /\ UNCHANGED <<mode, sent, tailVars, queue, dropped, work, bucket, taken, rollups,
                 faults, rotated, runs, excused, counted, lost>>

(* Of interest if the file is watched: the position is now one of a file   *)
(* that is gone.                                                           *)
Rotate ==
  /\ mode # "udp"
  /\ IntakeFault /\ file # <<>>
  /\ file' = <<>> /\ rotated' = TRUE
  /\ UNCHANGED <<mode, shape, sent, tailVars, queue, dropped, work, bucket, taken, rollups,
                 runs, excused, counted, lost>>

(* datagram_received: a datagram of n lines; the first that finds the      *)
(* queue full takes the rest with it, and one drop is counted.             *)
Datagram(n) ==
  LET room == UdpQueueMax - Len(queue) IN
  /\ mode # "file" /\ sent + n <= Len(shape)
  /\ sent' = sent + n
  /\ queue' = queue \o [i \in 1..Least(n, room) |-> sent + i]
  /\ dropped' = IF n > room THEN dropped + 1 ELSE dropped
  /\ UNCHANGED <<mode, shape, file, tailVars, work, bucket, taken, rollups, faults,
                 rotated, runs, excused, counted, lost>>

-----------------------------------------------------------------------------
(* The tailer.  Between its steps the daemon may write or rotate.          *)
TailIdle == statted = <<>> /\ batch = <<>> /\ work["file"] = NoLine

(* A new file is watched from its end: what it holds already is skipped.   *)
DiscoverFile ==
  /\ mode # "udp" /\ TailIdle /\ pos = Unseen
  /\ pos' = Len(file)
  /\ rotated' = FALSE
  /\ excused' = excused \cup {i \in In(file) : runs[i] = 0}
  /\ UNCHANGED <<mode, shape, file, sent, statted, batch, queue, dropped, work, bucket, taken,
                 rollups, faults, runs, counted, lost>>

(* A size below the position is a rotation, unless the new file is still   *)
(* empty: then the old position stays.  Of more than 1 MB, the last 1 MB.  *)
StatFile ==
  LET size == Len(file)
      p    == IF size < pos THEN 0 ELSE pos
      from == IF size - p > MaxRead THEN size - MaxRead ELSE p IN
  /\ TailIdle /\ pos # Unseen /\ size > p
  /\ statted' = <<from, size>>
  /\ excused' = excused \cup {file[i] : i \in (p + 1)..from}
                        \cup (IF rotated THEN {file[i] : i \in 1..p} ELSE {})
  /\ rotated' = FALSE
  /\ UNCHANGED <<mode, shape, file, sent, pos, batch, queue, dropped, work, bucket, taken, rollups,
                 faults, runs, counted, lost>>

(* The read goes to the end of the file as it is now, the position to the  *)
(* size it had before; a failed read leaves it.  Mutants: a position that  *)
(* is not advanced, and one that is before the read.                       *)
NextPositionSame == statted[1]
NextPosition == statted[2]
PositionAfterFailureMoved == statted[2]
PositionAfterFailure == pos

ReadFile ==
  /\ statted # <<>>
  /\ batch' = SubSeq(file, statted[1] + 1, Len(file))
  /\ pos' = NextPosition
  /\ statted' = <<>>
  /\ UNCHANGED <<mode, shape, file, sent, queue, dropped, work, bucket, taken, rollups,
                 faults, rotated, runs, excused, counted, lost>>

(* A rotation that the stat noticed must then be noticed again.            *)
ReadFileFails ==
  /\ IntakeFault /\ statted # <<>>
  /\ pos' = PositionAfterFailure /\ statted' = <<>>
  /\ rotated' = (rotated \/ pos > statted[2])
  /\ UNCHANGED <<mode, shape, file, sent, batch, queue, dropped, work, bucket, taken, rollups,
                 runs, excused, counted, lost>>

Takes(s) == IF s = "file" THEN batch ELSE queue

(* _process_line up to the executor.  An exception ends the file's batch;  *)
(* the UDP loop catches it line by line.                                   *)
TakeLine(s) ==
  /\ Takes(s) # <<>> /\ work[s] = NoLine
  /\ LET i    == Head(Takes(s))
         fate == Fate(shape[i])
         rest == Tail(Takes(s)) IN
     /\ work' = IF fate \in {"count", "event"} THEN [work EXCEPT ![s] = i] ELSE work
     /\ IF s = "file"
        THEN /\ batch' = IF fate = "raises" THEN <<>> ELSE rest
             /\ runs' = [runs EXCEPT ![i] = @ + 1]
             /\ excused' = IF fate = "raises" THEN excused \cup In(rest) ELSE excused
             /\ UNCHANGED queue
        ELSE queue' = rest /\ UNCHANGED <<batch, runs, excused>>
  /\ UNCHANGED <<mode, shape, file, sent, pos, statted, dropped, bucket, taken, rollups,
                 faults, rotated, counted, lost>>

(* process_result in an executor thread: the counters, under their lock,   *)
(* or an event row; a failed insert is logged and forgotten, and nothing   *)
(* here depends on the row.                                                *)
CountLine(s) ==
  /\ work[s] # NoLine /\ Fate(shape[work[s]]) = "count"
  /\ bucket' = bucket + 1 /\ counted' = counted + 1
  /\ work' = [work EXCEPT ![s] = NoLine]
  /\ UNCHANGED <<mode, shape, file, sent, tailVars, queue, dropped, taken, rollups, faults,
                 rotated, runs, excused, lost>>

PersistEvent(s) ==
  /\ work[s] # NoLine /\ Fate(shape[work[s]]) = "event"
  /\ work' = [work EXCEPT ![s] = NoLine]
  /\ UNCHANGED <<mode, shape, file, sent, tailVars, queue, dropped, bucket, taken, rollups, faults,
                 rotated, runs, excused, counted, lost>>

-----------------------------------------------------------------------------
(* flush_counters: the buckets are swapped out under the lock, then        *)
(* written; what a failed write had taken is lost.  Mutant: a copy.        *)
FlushTakeCopying ==
  /\ taken = 0 /\ bucket > 0
  /\ taken' = bucket /\ bucket' = bucket
  /\ UNCHANGED <<mode, shape, file, sent, tailVars, queue, dropped, work, rollups, faults,
                 rotated, runs, excused, counted, lost>>
FlushTake ==
  /\ taken = 0 /\ bucket > 0
  /\ taken' = bucket /\ bucket' = 0
  /\ UNCHANGED <<mode, shape, file, sent, tailVars, queue, dropped, work, rollups, faults,
                 rotated, runs, excused, counted, lost>>

FlushWrite ==
  /\ taken > 0
  /\ rollups' = rollups + taken /\ taken' = 0
  /\ UNCHANGED <<mode, shape, file, sent, tailVars, queue, dropped, work, bucket, faults,
                 rotated, runs, excused, counted, lost>>

FlushWriteFails ==
  /\ IntakeFault /\ taken > 0
  /\ lost' = lost + taken /\ taken' = 0
  /\ UNCHANGED <<mode, shape, file, sent, tailVars, queue, dropped, work, bucket, rollups,
                 rotated, runs, excused, counted>>

(* A restart: positions, queue, buckets and every line in hand are gone,   *)
(* and the shutdown flushes nothing.                                       *)
IntakeRestart ==
  /\ IntakeFault
  /\ pos' = Unseen /\ statted' = <<>> /\ batch' = <<>>
  /\ queue' = <<>> /\ dropped' = 0 /\ work' = [s \in Sources |-> NoLine]
  /\ bucket' = 0 /\ taken' = 0 /\ lost' = lost + bucket + taken
  /\ excused' = excused \cup In(batch)
  /\ UNCHANGED <<mode, shape, file, sent, rollups, rotated, runs, counted>>

IntakeNext ==
  \/ \E l \in Shapes : Log(l)
  \/ Rotate
  \/ \E n \in 1..2 : Datagram(n)
  \/ DiscoverFile \/ StatFile \/ ReadFile \/ ReadFileFails
  \/ \E s \in Sources : TakeLine(s) \/ CountLine(s) \/ PersistEvent(s)
  \/ FlushTake \/ FlushWrite \/ FlushWriteFails
  \/ IntakeRestart

IntakeSpec == IntakeInit /\ [][IntakeNext]_intakeVars

-----------------------------------------------------------------------------
(* syslog_file.py:88-101.  The read may go past the size that becomes the  *)
(* next position, so a line can be processed again, but never a third      *)
(* time, whatever is appended or truncated between the tailer's steps.     *)
LineAtMostTwice ==
  \A i \in Written : runs[i] <= 2

(* syslog_file.py:80-107.  Unless the file was rotated since the position  *)
(* was set, the position is in the file, and every line below it was read  *)
(* and is processed or about to be - or it was there before the file was   *)
(* watched, skipped by the 1 MB cap or by a position of the file before a  *)
(* rotation that went unnoticed, cut off by an earlier line that raised,   *)
(* or in hand at a restart.                                                *)
NothingTailedIsMissed ==
  (pos # Unseen /\ ~rotated /\ statted = <<>>) =>
    /\ pos <= Len(file)
    /\ \A i \in 1..pos : \/ runs[file[i]] > 0
                         \/ file[i] \in In(batch) \cup excused

(* counters.py:84-97, rollup.py:22-51.  Every event that was counted is in *)
(* the current buckets, in those a flush holds, in the rollups, or lost    *)
(* with a failed flush or a restart: none twice, none between two flushes. *)
CountsAreConserved == counted = bucket + taken + rollups + lost
=============================================================================
