----------------------------- MODULE Intake_proofs -----------------------------
(***************************************************************************)
(* Proofs about the syslog collectors, for any lines, any sizes of queue,  *)
(* read and file, and any number of rotations, failures and restarts.      *)
(***************************************************************************)
EXTENDS Intake, TLAPS, SequenceTheorems

-----------------------------------------------------------------------------
(* The counters.                                                           *)
CountInv == /\ bucket \in Nat /\ taken \in Nat /\ rollups \in Nat /\ lost \in Nat /\ counted \in Nat
            /\ CountsAreConserved

LEMMA CountsKept == CountInv /\ [IntakeNext]_intakeVars => CountInv'
<1> SUFFICES ASSUME CountInv, [IntakeNext]_intakeVars PROVE CountInv'
  OBVIOUS
<1> USE DEF CountInv, CountsAreConserved
<1>1. CASE UNCHANGED <<bucket, taken, rollups, lost, counted>>
  BY <1>1
<1>2. ASSUME NEW s \in Sources, CountLine(s) PROVE CountInv'
  BY <1>2 DEF CountLine
<1>3. CASE FlushTake \/ FlushWrite \/ FlushWriteFails \/ IntakeRestart
  BY <1>3 DEF FlushTake, FlushWrite, FlushWriteFails, IntakeRestart
<1>4. CASE \/ \E l \in Shapes : Log(l)
           \/ Rotate \/ DiscoverFile \/ StatFile \/ ReadFile \/ ReadFileFails
           \/ \E n \in 1..2 : Datagram(n)
           \/ \E s \in Sources : TakeLine(s) \/ PersistEvent(s)
           \/ UNCHANGED intakeVars
  <2>1. UNCHANGED <<bucket, taken, rollups, lost, counted>>
    BY <1>4 DEF Log, Rotate, DiscoverFile, StatFile, ReadFile, ReadFileFails, Datagram,
       TakeLine, PersistEvent, intakeVars
  <2> QED BY <1>1, <2>1
<1> QED BY <1>2, <1>3, <1>4 DEF IntakeNext

(* counters.py:84-97, rollup.py:22-51.  No event is counted twice or lost  *)
(* between two flushes, whatever fails or restarts in between.             *)
THEOREM CountsStayConserved == IntakeSpec => []CountsAreConserved
<1>1. IntakeInit => CountInv
  BY DEF IntakeInit, CountInv, CountsAreConserved
<1>2. CountInv => CountsAreConserved
  BY DEF CountInv
<1> QED BY <1>1, CountsKept, <1>2, PTL DEF IntakeSpec

-----------------------------------------------------------------------------
(* The tailer.  The file holds the last lines logged, the batch a stretch  *)
(* of lines; Times counts how often a line was processed or is about to.   *)
Base     == Len(shape) - Len(file)
Run(b)   == \A k \in 1..Len(b) : b[k] = b[1] + (k - 1)
Times(i) == runs[i] + (IF i \in In(batch) THEN 1 ELSE 0)

Lined ==
  /\ shape \in Seq(Shapes) /\ Len(shape) <= MaxLines
  /\ file \in Seq(Nat) /\ Len(file) <= Len(shape)
  /\ \A j \in 1..Len(file) : file[j] = Base + j
  /\ batch \in Seq(Nat) /\ Run(batch) /\ In(batch) \subseteq Written
  /\ pos \in 0..Unseen /\ statted \in {<<>>} \cup Nat \X (1..MaxLines)
  /\ statted # <<>> => batch = <<>> /\ pos # Unseen
  /\ runs \in [1..MaxLines -> Nat]
  /\ \A i \in 1..MaxLines : i > Len(shape) => runs[i] = 0

(* A line beyond the position, or in a file shorter than it, was read at   *)
(* most once: it will be read again.  Between a stat and its read the same *)
(* holds of what the read will get, and what came after the stat is new.   *)
Owed ==
  /\ \A i \in Written : Times(i) <= 2
  /\ \A i \in (Base + 1)..Len(shape) :
       /\ pos # Unseen /\ (i - Base > pos \/ pos > Len(file)) => Times(i) <= 1
       /\ statted # <<>> =>
            /\ i - Base > statted[1] => Times(i) <= 1
            /\ i - Base > statted[2] \/ statted[2] > Len(file) => Times(i) = 0

IntakeInv == Lined /\ Owed

LEMMA EmptyBatch == In(<<>>) = {} /\ Run(<<>>) /\ <<>> \in Seq(Nat)
BY DEF In, Run

LEMMA TailOfRun ==
  ASSUME NEW b \in Seq(Nat), b # <<>>, Run(b)
  PROVE  /\ Tail(b) \in Seq(Nat) /\ Run(Tail(b))
         /\ Head(b) = b[1] /\ Head(b) \in In(b)
         /\ In(Tail(b)) = In(b) \ {b[1]}
<1>1. /\ Tail(b) \in Seq(Nat) /\ Len(Tail(b)) = Len(b) - 1
      /\ \A i \in 1..Len(Tail(b)) : Tail(b)[i] = b[i + 1]
  BY HeadTailProperties
<1>2. Len(b) \in Nat \ {0} /\ DOMAIN b = 1..Len(b) /\ DOMAIN Tail(b) = 1..(Len(b) - 1) /\ b[1] \in Nat
  BY <1>1
<1>3. \A k \in 1..Len(b) : b[k] = b[1] + (k - 1)
  BY DEF Run
<1>4. Run(Tail(b))
  BY <1>1, <1>2, <1>3 DEF Run
<1>5. In(Tail(b)) \subseteq In(b) \ {b[1]}
  BY SMTT(30), <1>1, <1>2, <1>3 DEF In
<1>6. In(b) \ {b[1]} \subseteq In(Tail(b))
  <2> SUFFICES ASSUME NEW k \in 1..Len(b), b[k] # b[1]
               PROVE  b[k] \in In(Tail(b))
    BY <1>2 DEF In
  <2>1. k - 1 \in 1..(Len(b) - 1) /\ Tail(b)[k - 1] = b[k]
    BY <1>1, <1>2
  <2> QED BY <1>2, <2>1 DEF In
<1>7. Head(b) = b[1] /\ b[1] \in In(b)
  BY <1>2 DEF In
<1> QED BY <1>1, <1>4, <1>5, <1>6, <1>7

LEMMA FileRead ==
  ASSUME Lined, NEW from \in Nat
  PROVE  LET b == SubSeq(file, from + 1, Len(file))
         IN /\ b \in Seq(Nat) /\ Run(b)
            /\ In(b) = {i \in (Base + 1)..Len(shape) : i - Base > from}
<1> DEFINE b == SubSeq(file, from + 1, Len(file))
<1>1. file \in Seq(Nat) /\ Len(file) \in Nat /\ Len(shape) \in Nat
      /\ \A j \in 1..Len(file) : file[j] = Base + j
  BY DEF Lined
<1>2. Base \in Int /\ Base + Len(file) = Len(shape)
  BY <1>1 DEF Base
<1>3. \A i \in (from + 1)..Len(file) : file[i] \in Nat
  BY <1>1
<1>4. /\ b \in Seq(Nat)
      /\ Len(b) = IF from + 1 <= Len(file) THEN Len(file) - (from + 1) + 1 ELSE 0
      /\ \A i \in 1..(Len(file) - (from + 1) + 1) : b[i] = file[(from + 1) + i - 1]
  BY SMTT(30), <1>1, <1>3, SubSeqProperties
<1>5. DOMAIN b = 1..Len(b)
  BY <1>4
<1> HIDE DEF b
<1>6. \A k \in 1..Len(b) : b[k] = Base + from + k
  BY <1>1, <1>2, <1>4
<1>7. Run(b)
  BY <1>2, <1>4, <1>6 DEF Run
<1>8. In(b) \subseteq {i \in (Base + 1)..Len(shape) : i - Base > from}
  <2> SUFFICES ASSUME NEW k \in 1..Len(b)
               PROVE  b[k] \in (Base + 1)..Len(shape) /\ b[k] - Base > from
    BY <1>5 DEF In
  <2>1. from + k <= Len(file) /\ k \in Nat /\ k >= 1
    BY <1>1, <1>4
  <2>2. b[k] = Base + (from + k)
    BY <1>2, <1>6, <2>1
  <2>3. b[k] \in Int /\ b[k] - Base = from + k
    BY <1>2, <2>1, <2>2
  <2>4. Base + 1 <= b[k] /\ b[k] <= Len(shape)
    BY <1>1, <1>2, <2>1, <2>2
  <2> QED BY <1>1, <1>2, <2>1, <2>3, <2>4
<1>9. ASSUME NEW i \in (Base + 1)..Len(shape), i - Base > from
      PROVE  i \in In(b)
  <2>1. i - Base - from \in 1..Len(b)
    BY <1>1, <1>2, <1>4, <1>9
  <2>2. b[i - Base - from] = i
    BY <1>2, <1>6, <2>1
  <2> QED BY <1>5, <2>1, <2>2 DEF In
<1>10. b \in Seq(Nat) /\ Run(b) /\ In(b) = {i \in (Base + 1)..Len(shape) : i - Base > from}
  BY <1>4, <1>7, <1>8, <1>9
<1> QED BY <1>10 DEF b

-----------------------------------------------------------------------------
(* Steps.                                                                  *)
LEMMA IntakeInitially == ASSUME IntakeAssumption PROVE IntakeInit => IntakeInv
<1> SUFFICES ASSUME IntakeInit PROVE IntakeInv
  OBVIOUS
<1>1. MaxLines \in Nat
  BY DEF IntakeAssumption
<1>2. /\ shape = <<>> /\ file = <<>> /\ pos = Unseen /\ statted = <<>> /\ batch = <<>>
      /\ runs = [i \in 1..MaxLines |-> 0]
  BY DEF IntakeInit
<1>3. /\ shape \in Seq(Shapes) /\ Len(shape) = 0 /\ file \in Seq(Nat) /\ Len(file) = 0
      /\ batch \in Seq(Nat) /\ Run(batch) /\ In(batch) = {} /\ Base = 0
  BY <1>2, EmptyBatch DEF Base
<1>4. Lined
  BY <1>1, <1>2, <1>3 DEF Lined, Unseen
<1>5. Owed
  BY <1>2, <1>3 DEF Owed, Written
<1> QED BY <1>4, <1>5 DEF IntakeInv

LEMMA TailerUntouched ==
  ASSUME IntakeInv, UNCHANGED <<shape, file, pos, statted, batch, runs>>
  PROVE  IntakeInv'
BY DEF IntakeInv, Lined, Owed, Base, Run, Times, In, Written

LEMMA LineLogged ==
  ASSUME IntakeAssumption, IntakeInv, NEW l \in Shapes, Log(l)
  PROVE  IntakeInv'
<1>t. Lined /\ Owed /\ MaxLines \in Nat
  BY DEF IntakeInv, IntakeAssumption
<1>1. /\ Len(shape) < MaxLines /\ shape' = Append(shape, l)
      /\ file' = Append(file, Len(shape) + 1)
      /\ UNCHANGED <<pos, statted, batch, runs>>
  BY DEF Log, tailVars
<1>2. /\ shape \in Seq(Shapes) /\ file \in Seq(Nat) /\ Len(shape) \in Nat /\ Len(file) \in Nat
  BY <1>t DEF Lined
<1>3. shape' \in Seq(Shapes) /\ Len(shape') = Len(shape) + 1
  BY <1>1, <1>2, AppendProperties
<1>4. /\ file' \in Seq(Nat) /\ Len(file') = Len(file) + 1
      /\ \A j \in 1..Len(file) : file'[j] = file[j]
      /\ file'[Len(file) + 1] = Len(shape) + 1
  <2>1. Len(shape) + 1 \in Nat
    BY <1>2
  <2> QED BY <1>1, <1>2, <2>1, AppendProperties
<1>5. Base' = Base /\ Base \in Nat /\ Base + Len(file) = Len(shape)
  BY <1>2, <1>3, <1>4, <1>t DEF Base, Lined
<1>6. In(batch)' = In(batch) /\ Written \subseteq Written' /\ Run(batch)'
  BY <1>1, <1>2, <1>3, <1>t DEF Written, In, Run, Lined
<1>7. Lined'
  <2>1. \A j \in 1..Len(file') : file'[j] = Base' + j
    <3>1. \A j \in 1..Len(file) : file[j] = Base + j
      BY <1>t DEF Lined
    <3>2. \A j \in 1..Len(file') : j \in 1..Len(file) \/ j = Len(file) + 1
      BY <1>2, <1>4
    <3>3. ASSUME NEW j \in 1..Len(file)
          PROVE  file'[j] = Base + j
      BY <1>4, <3>1
    <3>4. file'[Len(file) + 1] = Base + (Len(file) + 1)
      <4>1. Len(shape) + 1 = Base + (Len(file) + 1)
        BY <1>2, <1>5
      <4> QED BY <1>4, <4>1
    <3> QED BY <1>5, <3>2, <3>3, <3>4
  <2>2. Len(shape') <= MaxLines /\ Len(file') <= Len(shape')
    BY <1>1, <1>2, <1>3, <1>4, <1>t DEF Lined
  <2>3. batch' \in Seq(Nat) /\ In(batch)' \subseteq Written'
    BY <1>1, <1>6, <1>t DEF Lined
  <2>4. \A i \in 1..MaxLines : i > Len(shape') => runs'[i] = 0
    BY <1>1, <1>2, <1>3, <1>t DEF Lined
  <2>5. /\ pos' \in 0..Unseen /\ statted' \in {<<>>} \cup Nat \X (1..MaxLines)
        /\ statted' # <<>> => batch' = <<>> /\ pos' # Unseen
        /\ runs' \in [1..MaxLines -> Nat]
    BY <1>1, <1>t DEF Lined
  <2> QED BY <1>3, <1>4, <1>6, <2>1, <2>2, <2>3, <2>4, <2>5 DEF Lined
<1>8. \A i : Times(i)' = Times(i)
  BY <1>1, <1>6 DEF Times
<1>9. Times(Len(shape) + 1) = 0
  <2>1. Len(shape) + 1 \in 1..MaxLines /\ Len(shape) + 1 \notin In(batch)
    BY <1>1, <1>2, <1>t DEF Lined, Written
  <2>2. runs[Len(shape) + 1] = 0
    BY <1>2, <1>t, <2>1 DEF Lined
  <2> QED BY <2>1, <2>2 DEF Times
<1>10. Owed'
  <2>1. ASSUME NEW i \in Written' PROVE Times(i) <= 2
    BY <1>2, <1>3, <1>9, <1>t DEF Owed, Written
  <2>2. ASSUME NEW i \in (Base + 1)..(Len(shape) + 1)
        PROVE  /\ pos # Unseen /\ (i - Base > pos \/ pos > Len(file')) => Times(i) <= 1
               /\ statted # <<>> =>
                    /\ i - Base > statted[1] => Times(i) <= 1
                    /\ i - Base > statted[2] \/ statted[2] > Len(file') => Times(i) = 0
    <3>1. CASE i = Len(shape) + 1
      BY <1>9, <3>1
    <3>2. CASE i \in (Base + 1)..Len(shape)
      <4>1. \A n \in Nat : n > Len(file') => n > Len(file)
        BY <1>2, <1>4
      <4>2. pos \in Nat /\ (statted # <<>> => statted[2] \in Nat)
        BY <1>t DEF Lined, Unseen
      <4> QED BY <1>t, <3>2, <4>1, <4>2 DEF Owed
    <3> QED BY <1>2, <1>5, <3>1, <3>2
  <2> QED BY <1>1, <1>3, <1>5, <1>8, <2>1, <2>2 DEF Owed
<1> QED BY <1>7, <1>10 DEF IntakeInv

LEMMA FileRotated ==
  ASSUME IntakeAssumption, IntakeInv, Rotate
  PROVE  IntakeInv'
<1>t. Lined /\ Owed
  BY DEF IntakeInv
<1>1. file' = <<>> /\ UNCHANGED <<shape, pos, statted, batch, runs>>
  BY DEF Rotate, tailVars
<1>2. Len(shape) \in Nat /\ file' \in Seq(Nat) /\ Len(file') = 0
  BY <1>1, <1>t DEF Lined
<1>3. Base' = Len(shape)
  BY <1>1, <1>2 DEF Base
<1>4. \A i : Times(i)' = Times(i)
  BY <1>1 DEF Times, In
<1>5. Lined'
  BY <1>1, <1>2, <1>t DEF Lined, Run, In, Written
<1>6. Owed'
  BY <1>1, <1>2, <1>3, <1>4, <1>t DEF Owed, Written
<1> QED BY <1>5, <1>6 DEF IntakeInv

LEMMA PositionSet ==
  ASSUME IntakeAssumption, IntakeInv, DiscoverFile \/ ReadFileFails
  PROVE  IntakeInv'
<1>t. Lined /\ Owed /\ MaxLines \in Nat
  BY DEF IntakeInv, IntakeAssumption
<1>1. /\ UNCHANGED <<shape, file, batch, runs>> /\ statted' = <<>>
      /\ pos' = pos \/ pos' = Len(file)
  BY DEF DiscoverFile, ReadFileFails, PositionAfterFailure, TailIdle
<1>2. Len(shape) \in Nat /\ Len(file) \in Nat /\ Len(file) <= Len(shape) /\ Len(shape) <= MaxLines
  BY <1>t DEF Lined
<1>3. Base' = Base /\ Base + Len(file) = Len(shape) /\ Base \in Nat /\ Written' = Written
  BY <1>1, <1>2 DEF Base, Written
<1>4. \A i : Times(i)' = Times(i)
  BY <1>1 DEF Times, In
<1>5. pos' \in 0..Unseen
  BY <1>1, <1>2, <1>t DEF Lined, Unseen
<1>6. Lined'
  BY <1>1, <1>3, <1>5, <1>t DEF Lined, Run, In, Written
<1>7. Owed'
  <2>1. ASSUME NEW i \in (Base + 1)..Len(shape), pos' # Unseen, i - Base > pos' \/ pos' > Len(file)
        PROVE  Times(i) <= 1
    <3>1. pos' = pos
      BY <1>1, <1>2, <1>3, <2>1
    <3> QED BY <1>t, <2>1, <3>1 DEF Owed
  <2> QED BY <1>1, <1>3, <1>4, <1>t, <2>1 DEF Owed
<1> QED BY <1>6, <1>7 DEF IntakeInv

LEMMA FileStatted ==
  ASSUME IntakeAssumption, IntakeInv, StatFile
  PROVE  IntakeInv'
<1>t. Lined /\ Owed /\ MaxLines \in Nat /\ MaxRead \in Nat \ {0}
  BY DEF IntakeInv, IntakeAssumption
<1> DEFINE size == Len(file)
           p    == IF size < pos THEN 0 ELSE pos
           from == IF size - p > MaxRead THEN size - MaxRead ELSE p
<1>1. /\ size > p /\ statted' = <<from, size>> /\ pos # Unseen /\ batch = <<>>
      /\ UNCHANGED <<shape, file, pos, batch, runs>>
  BY DEF StatFile, TailIdle
<1>2. Len(shape) \in Nat /\ size \in Nat /\ size <= Len(shape) /\ Len(shape) <= MaxLines /\ pos \in Nat
  BY <1>t DEF Lined, Unseen
<1>3. from \in Nat /\ from >= p /\ p \in Nat /\ size \in 1..MaxLines
  BY <1>1, <1>2, <1>t
<1>4. Base' = Base /\ Base + size = Len(shape) /\ Base \in Nat /\ Written' = Written
  BY <1>1, <1>2 DEF Base, Written
<1>5. \A i : Times(i)' = Times(i)
  BY <1>1 DEF Times, In
<1>6. statted' \in Nat \X (1..MaxLines) /\ statted'[1] = from /\ statted'[2] = size
  <2> HIDE DEF from, size
  <2> QED BY <1>1, <1>3
<1>7. Lined'
  BY SMTT(30), <1>1, <1>4, <1>6, <1>t DEF Lined, Run, In, Written
<1>8. ASSUME NEW i \in (Base + 1)..Len(shape)
      PROVE  /\ i - Base > from => Times(i) <= 1
             /\ ~(i - Base > size) /\ ~(size > Len(file))
  <2>1. i - Base > from => i - Base > pos \/ pos > size
    BY <1>2, <1>3, <1>4
  <2> QED BY <1>1, <1>2, <1>4, <1>t, <2>1 DEF Owed
<1>9. Owed'
  <2> HIDE DEF from, size
  <2>1. UNCHANGED <<shape, file, pos>> /\ Len(file') = Len(file)
    BY <1>1
  <2> QED BY <1>4, <1>5, <1>6, <1>8, <1>t, <2>1 DEF Owed
<1> QED BY <1>7, <1>9 DEF IntakeInv

LEMMA FileWasRead ==
  ASSUME IntakeAssumption, IntakeInv, ReadFile
  PROVE  IntakeInv'
<1>t. Lined /\ Owed /\ MaxLines \in Nat
  BY DEF IntakeInv, IntakeAssumption
<1> DEFINE from == statted[1]
           size == statted[2]
<1>1. /\ batch' = SubSeq(file, from + 1, Len(file)) /\ pos' = size /\ statted' = <<>>
      /\ statted # <<>> /\ batch = <<>>
      /\ UNCHANGED <<shape, file, runs>>
  BY <1>t DEF ReadFile, NextPosition, Lined
<1>2. from \in Nat /\ size \in 1..MaxLines
  BY <1>1, <1>t DEF Lined
<1> HIDE DEF from, size
<1>3. Len(shape) \in Nat /\ Len(file) \in Nat /\ Len(file) <= Len(shape) /\ Len(shape) <= MaxLines
  BY <1>t DEF Lined
<1>4. /\ Base' = Base /\ Base + Len(file) = Len(shape) /\ Base \in Nat
      /\ Written' = Written /\ Len(file') = Len(file)
  BY <1>1, <1>3 DEF Base, Written
<1>5. /\ batch' \in Seq(Nat) /\ Run(batch)'
      /\ In(batch)' = {i \in (Base + 1)..Len(shape) : i - Base > from}
  BY <1>1, <1>2, <1>t, FileRead DEF Run, In
<1>6. In(batch) = {}
  BY <1>1, EmptyBatch
<1>7. Lined'
  <2>1. In(batch)' \subseteq Written'
    BY <1>3, <1>4, <1>5 DEF Written
  <2>2. pos' \in 0..Unseen /\ statted' \in {<<>>} \cup Nat \X (1..MaxLines) /\ statted' = <<>>
    BY <1>1, <1>2, <1>t DEF Unseen
  <2> QED BY <1>1, <1>4, <1>5, <1>t, <2>1, <2>2 DEF Lined
<1>8. ASSUME NEW i \in Written
      PROVE  /\ Times(i) = runs[i] /\ runs[i] \in Nat
             /\ i \in In(batch)' => Times(i)' = Times(i) + 1
             /\ i \notin In(batch)' => Times(i)' = Times(i)
  <2>1. runs' = runs /\ runs[i] \in Nat
    BY <1>1, <1>3, <1>t DEF Lined, Written
  <2> QED BY <1>6, <2>1 DEF Times
<1>9. ASSUME NEW i \in Written
      PROVE  Times(i)' <= 2
  <2>1. Times(i) <= 2 /\ Times(i) \in Nat
    BY <1>8, <1>t DEF Owed
  <2>2. CASE i \in In(batch)'
    <3>1. Times(i) <= 1
      BY <1>1, <1>5, <1>t, <2>2 DEF Owed, from
    <3> QED BY <1>8, <2>1, <2>2, <3>1
  <2> QED BY <1>8, <2>1, <2>2
<1>10. ASSUME NEW i \in (Base + 1)..Len(shape), i - Base > size \/ size > Len(file)
       PROVE  Times(i)' <= 1
  <2>1. Times(i) = 0
    BY <1>1, <1>10, <1>t DEF Owed, size
  <2>2. i \in Written
    BY <1>3, <1>4 DEF Written
  <2> QED BY <1>8, <2>1, <2>2
<1>11. Owed'
  BY <1>1, <1>4, <1>9, <1>10 DEF Owed
<1> QED BY <1>7, <1>11 DEF IntakeInv

(* The times of a line do not grow when it is processed.                   *)
LEMMA BatchShrinks ==
  ASSUME IntakeAssumption, IntakeInv, UNCHANGED <<shape, file, pos, statted>>,
         batch' \in Seq(Nat), Run(batch)', In(batch)' \subseteq Written,
         batch = <<>> => batch' = <<>>,
         runs' \in [1..MaxLines -> Nat],
         \A i \in 1..MaxLines : i > Len(shape) => runs'[i] = 0,
         \A i \in Written : Times(i)' \in Nat /\ Times(i)' <= Times(i)
  PROVE  IntakeInv'
<1>t. Lined /\ Owed /\ MaxLines \in Nat
  BY DEF IntakeInv, IntakeAssumption
<1>1. Base' = Base /\ Written' = Written /\ Len(file') = Len(file) /\ Len(shape') = Len(shape)
  BY DEF Base, Written
<1>2. Lined'
  BY <1>1, <1>t DEF Lined
<1>3. Len(shape) \in Nat /\ Len(file) \in Nat /\ Base \in Nat /\ (Base + 1)..Len(shape) \subseteq Written
  BY <1>t DEF Lined, Base, Written
<1>4. \A i \in Written : Times(i) \in Nat
  <2>1. \A i \in Written : runs[i] \in Nat
    BY <1>3, <1>t DEF Lined, Written
  <2> QED BY <2>1 DEF Times
<1>5. Owed'
  <2>1. \A i \in Written : Times(i)' <= 2
    BY <1>4, <1>t DEF Owed
  <2>2. ASSUME NEW i \in (Base + 1)..Len(shape)
        PROVE  /\ pos # Unseen /\ (i - Base > pos \/ pos > Len(file)) => Times(i)' <= 1
               /\ statted # <<>> =>
                    /\ i - Base > statted[1] => Times(i)' <= 1
                    /\ i - Base > statted[2] \/ statted[2] > Len(file) => Times(i)' = 0
    <3>1. /\ Times(i) \in Nat /\ Times(i)' \in Nat /\ Times(i)' <= Times(i)
          /\ pos # Unseen /\ (i - Base > pos \/ pos > Len(file)) => Times(i) <= 1
          /\ statted # <<>> =>
               /\ i - Base > statted[1] => Times(i) <= 1
               /\ i - Base > statted[2] \/ statted[2] > Len(file) => Times(i) = 0
      BY <1>3, <1>4, <1>t DEF Owed
    <3> QED BY <3>1
  <2> QED BY <1>1, <2>1, <2>2 DEF Owed
<1> QED BY <1>2, <1>5 DEF IntakeInv

LEMMA LineTaken ==
  ASSUME IntakeAssumption, IntakeInv, TakeLine("file")
  PROVE  IntakeInv'
<1>t. Lined /\ Owed /\ MaxLines \in Nat
  BY DEF IntakeInv, IntakeAssumption
<1> DEFINE i == Head(batch)
<1>1. /\ batch # <<>> /\ runs' = [runs EXCEPT ![i] = runs[i] + 1]
      /\ batch' = <<>> \/ batch' = Tail(batch)
      /\ UNCHANGED <<shape, file, pos, statted>>
  BY DEF TakeLine, Takes
<1>2. batch \in Seq(Nat) /\ Run(batch) /\ In(batch) \subseteq Written
  BY <1>t DEF Lined
<1>3. /\ Tail(batch) \in Seq(Nat) /\ Run(Tail(batch)) /\ i \in In(batch)
      /\ In(Tail(batch)) = In(batch) \ {i}
  BY <1>1, <1>2, TailOfRun
<1>4. /\ batch' \in Seq(Nat) /\ Run(batch)' /\ In(batch)' \subseteq In(batch) \ {i}
  <2>1. CASE batch' = <<>>
    <3>1. In(batch)' = {} /\ Run(batch)' /\ batch' \in Seq(Nat)
      BY <2>1, EmptyBatch DEF In, Run
    <3> QED BY <3>1
  <2>2. CASE batch' = Tail(batch)
    <3>1. In(batch)' = In(Tail(batch)) /\ Run(batch)'
      BY <1>3, <2>2 DEF In, Run
    <3> QED BY <1>3, <2>2, <3>1
  <2> QED BY <1>1, <2>1, <2>2
<1>5. i \in Written /\ i \in 1..MaxLines /\ Len(shape) \in Nat /\ Len(shape) <= MaxLines
  BY <1>2, <1>3, <1>t DEF Written, Lined
<1> HIDE DEF i
<1>6. runs \in [1..MaxLines -> Nat] /\ runs' \in [1..MaxLines -> Nat]
  BY SMTT(30), <1>1, <1>5, <1>t DEF Lined
<1>7. \A n \in 1..MaxLines : n > Len(shape) => runs'[n] = 0
  BY <1>1, <1>5, <1>6, <1>t DEF Lined, Written
<1>8. ASSUME NEW n \in Written
      PROVE  Times(n)' \in Nat /\ Times(n)' <= Times(n)
  <2>1. n \in 1..MaxLines
    BY <1>5, <1>t DEF Written
  <2>2. runs[n] \in Nat /\ runs'[n] \in Nat
    BY <1>6, <2>1
  <2>3. CASE n = i
    <3>1. runs'[n] = runs[n] + 1 /\ n \in In(batch) /\ n \notin In(batch)'
      BY <1>1, <1>3, <1>4, <1>6, <2>1, <2>3
    <3> QED BY <2>2, <3>1 DEF Times
  <2>4. CASE n # i
    <3>1. runs'[n] = runs[n] /\ (n \in In(batch)' => n \in In(batch))
      BY <1>1, <1>4, <1>6, <2>1, <2>4
    <3> QED BY <2>2, <3>1 DEF Times
  <2> QED BY <2>3, <2>4
<1> QED BY <1>1, <1>2, <1>4, <1>6, <1>7, <1>8, BatchShrinks

LEMMA IntakeRestarted ==
  ASSUME IntakeAssumption, IntakeInv, IntakeRestart
  PROVE  IntakeInv'
<1>t. Lined /\ Owed /\ MaxLines \in Nat
  BY DEF IntakeInv, IntakeAssumption
<1>1. /\ UNCHANGED <<shape, file, runs>> /\ statted' = <<>> /\ pos' = Unseen /\ batch' = <<>>
  BY DEF IntakeRestart
<1>2. In(batch)' = {} /\ Run(batch)' /\ batch' \in Seq(Nat)
  BY <1>1, EmptyBatch DEF In, Run
<1>3. Base' = Base /\ Written' = Written /\ Len(file') = Len(file) /\ Len(shape') = Len(shape)
  BY <1>1 DEF Base, Written
<1>4. Lined'
  BY <1>1, <1>2, <1>3, <1>t DEF Lined, Unseen
<1>5. ASSUME NEW i \in Written PROVE Times(i)' <= 2
  <2>1. runs[i] \in Nat /\ runs' = runs /\ i \notin In(batch)'
    BY <1>1, <1>2, <1>t DEF Lined, Written
  <2>2. Times(i) <= 2
    BY <1>t DEF Owed
  <2> QED BY <2>1, <2>2 DEF Times
<1>6. Owed'
  BY <1>1, <1>3, <1>5 DEF Owed, Unseen
<1> QED BY <1>4, <1>6 DEF IntakeInv

LEMMA IntakeSteps == ASSUME IntakeAssumption, IntakeInv, [IntakeNext]_intakeVars PROVE IntakeInv'
<1>1. CASE \/ \E n \in 1..2 : Datagram(n)
           \/ TakeLine("udp")
           \/ \E s \in Sources : CountLine(s) \/ PersistEvent(s)
           \/ FlushTake \/ FlushWrite \/ FlushWriteFails
           \/ UNCHANGED intakeVars
  <2>1. UNCHANGED <<shape, file, pos, statted, batch, runs>>
    BY <1>1 DEF Datagram, TakeLine, CountLine, PersistEvent, FlushTake, FlushWrite,
       FlushWriteFails, intakeVars, tailVars
  <2> QED BY <2>1, TailerUntouched
<1> QED BY <1>1, LineLogged, FileRotated, PositionSet, FileStatted, FileWasRead, LineTaken,
           IntakeRestarted DEF IntakeNext, Sources

(* syslog_file.py:88-101.  A line is processed at most twice, however the  *)
(* writes and rotations of the daemon fall between the tailer's steps.     *)
THEOREM NoLineThrice == ASSUME IntakeAssumption PROVE IntakeSpec => []LineAtMostTwice
<1>1. IntakeInit => IntakeInv
  BY IntakeInitially
<1>2. IntakeInv /\ [IntakeNext]_intakeVars => IntakeInv'
  BY IntakeSteps
<1>3. IntakeInv => LineAtMostTwice
  <2> SUFFICES ASSUME IntakeInv, NEW i \in Written
               PROVE  runs[i] <= 2
    BY DEF LineAtMostTwice
  <2>1. MaxLines \in Nat /\ Len(shape) \in Nat /\ Len(shape) <= MaxLines
    BY DEF IntakeAssumption, IntakeInv, Lined
  <2>2. i \in 1..MaxLines
    BY <2>1 DEF Written
  <2>3. runs[i] \in Nat /\ Times(i) <= 2
    BY <2>2 DEF IntakeInv, Lined, Owed
  <2> QED BY <2>3 DEF Times
<1> QED BY <1>1, <1>2, <1>3, PTL DEF IntakeSpec
-----------------------------------------------------------------------------
(* Nothing below the position is missed.  A line is accounted for if it    *)
(* was processed, will be, or is excused; so is every line below the       *)
(* position and, between a stat and its read, below where it will begin.   *)
Accounted(i) == runs[i] > 0 \/ i \in In(batch) \/ i \in excused
Below(n)     == n <= Len(file) /\ \A i \in (Base + 1)..(Base + n) : Accounted(i)

CoverInv ==
  ~rotated =>
    /\ statted = <<>> /\ pos # Unseen => Below(pos)
    /\ statted # <<>> =>
         /\ Below(statted[1]) /\ statted[2] <= Len(file)
         /\ pos <= statted[2] => Below(pos)

LEMMA Sizes ==
  ASSUME IntakeAssumption, Lined
  PROVE  /\ Len(shape) \in Nat /\ Len(file) \in Nat /\ Len(shape) <= MaxLines /\ MaxLines \in Nat
         /\ Base \in Nat /\ Base + Len(file) = Len(shape) /\ pos \in Nat
         /\ \A j \in 1..Len(file) : file[j] = Base + j
         /\ DOMAIN file = 1..Len(file)
         /\ \A i \in (Base + 1)..Len(shape) : i \in 1..MaxLines /\ runs[i] \in Nat
<1>1. /\ Len(shape) \in Nat /\ Len(file) \in Nat /\ Len(shape) <= MaxLines /\ MaxLines \in Nat
      /\ Len(file) <= Len(shape) /\ pos \in Nat /\ DOMAIN file = 1..Len(file)
      /\ \A j \in 1..Len(file) : file[j] = Base + j
  BY DEF IntakeAssumption, Lined, Unseen
<1>2. Base \in Nat /\ Base + Len(file) = Len(shape)
  BY <1>1 DEF Base
<1>3. ASSUME NEW i \in (Base + 1)..Len(shape) PROVE i \in 1..MaxLines /\ runs[i] \in Nat
  <2>1. i \in 1..MaxLines
    BY <1>1, <1>2
  <2> QED BY <2>1 DEF Lined
<1> QED BY <1>1, <1>2, <1>3

(* Steps that only add to what is accounted for.                           *)
LEMMA StillBelow ==
  ASSUME NEW n, Below(n), Base' = Base, Len(file) <= Len(file'), n \in Nat,
         Len(file) \in Nat, Len(file') \in Nat,
         \A i \in (Base + 1)..(Base + n) : Accounted(i) => Accounted(i)'
  PROVE  /\ n <= Len(file')
         /\ \A i \in (Base + 1)..(Base + n) : Accounted(i)'
BY DEF Below

LEMMA CoverStays ==
  ASSUME IntakeAssumption, IntakeInv, IntakeInv', CoverInv, UNCHANGED <<pos, statted, rotated>>,
         Base' = Base, Len(file) <= Len(file'),
         \A i \in (Base + 1)..Len(shape) : Accounted(i) => Accounted(i)'
  PROVE  CoverInv'
<1>t. /\ Base \in Nat /\ Base + Len(file) = Len(shape) /\ Len(file) \in Nat /\ Len(shape) \in Nat
      /\ pos \in Nat /\ statted \in {<<>>} \cup Nat \X (1..MaxLines)
      /\ Len(file') \in Nat
  BY Sizes DEF IntakeInv, Lined
<1>1. ASSUME NEW n \in Nat, Below(n)
      PROVE  n <= Len(file') /\ \A i \in (Base + 1)..(Base + n) : Accounted(i)'
  <2>1. \A i \in (Base + 1)..(Base + n) : Accounted(i) /\ i \in (Base + 1)..Len(shape)
    BY <1>t, <1>1 DEF Below
  <2> QED BY <1>t, <1>1, <2>1, StillBelow
<1>2. statted # <<>> => statted[1] \in Nat /\ statted[2] \in Nat
  BY <1>t
<1>4. statted # <<>> /\ statted[2] <= Len(file) => statted[2] <= Len(file')
  BY <1>2, <1>t
<1>5. Below(pos) => Below(pos)'
  BY <1>1, <1>t DEF Below
<1>6. statted # <<>> /\ Below(statted[1]) => Below(statted[1])'
  BY <1>1, <1>2 DEF Below
<1> QED BY <1>4, <1>5, <1>6, Zenon DEF CoverInv

LEMMA CoverOfLog ==
  ASSUME IntakeAssumption, IntakeInv, IntakeInv', CoverInv, NEW l \in Shapes, Log(l)
  PROVE  CoverInv'
<1>1. /\ shape' = Append(shape, l) /\ file' = Append(file, Len(shape) + 1)
      /\ UNCHANGED <<pos, statted, rotated, batch, runs, excused>>
  BY DEF Log, tailVars
<1>2. /\ shape \in Seq(Shapes) /\ file \in Seq(Nat) /\ Len(shape) + 1 \in Nat
      /\ Len(shape) \in Nat /\ Len(file) \in Nat
  BY DEF IntakeInv, Lined
<1>3. Len(shape') = Len(shape) + 1 /\ Len(file') = Len(file) + 1
  BY <1>1, <1>2, AppendProperties
<1>4. Base' = Base
  BY <1>2, <1>3 DEF Base
<1>5. \A i : Accounted(i) => Accounted(i)'
  BY <1>1 DEF Accounted, In
<1> QED BY <1>1, <1>2, <1>3, <1>4, <1>5, CoverStays

LEMMA CoverOfDiscovery ==
  ASSUME IntakeAssumption, IntakeInv, IntakeInv', DiscoverFile
  PROVE  CoverInv'
<1>1. /\ pos' = Len(file) /\ statted' = <<>> /\ file' = file /\ shape' = shape /\ runs' = runs
      /\ batch' = batch /\ excused' = excused \cup {i \in In(file) : runs[i] = 0}
  BY DEF DiscoverFile, TailIdle
<1>2. Base' = Base
  BY <1>1 DEF Base
<1>t. /\ Len(file) \in Nat /\ Base \in Nat /\ Base + Len(file) = Len(shape)
      /\ \A j \in 1..Len(file) : file[j] = Base + j
      /\ DOMAIN file = 1..Len(file)
      /\ \A i \in (Base + 1)..Len(shape) : runs[i] \in Nat
  BY Sizes DEF IntakeInv
<1>3. ASSUME NEW i \in (Base + 1)..(Base + Len(file))
      PROVE  Accounted(i)'
  <2>1. i - Base \in 1..Len(file) /\ file[i - Base] = i
    BY <1>t
  <2>2. i \in In(file)
    BY <1>t, <2>1 DEF In
  <2>3. runs[i] = 0 \/ runs[i] > 0
    BY <1>t
  <2> QED BY <1>1, <2>2, <2>3 DEF Accounted
<1> QED BY <1>1, <1>2, <1>3, <1>t DEF CoverInv, Below

LEMMA CoverOfStat ==
  ASSUME IntakeAssumption, IntakeInv, IntakeInv', CoverInv, StatFile
  PROVE  CoverInv'
<1> DEFINE size == Len(file)
           p    == IF size < pos THEN 0 ELSE pos
           from == IF size - p > MaxRead THEN size - MaxRead ELSE p
<1>1. /\ size > p /\ statted' = <<from, size>> /\ pos # Unseen /\ statted = <<>>
      /\ UNCHANGED <<shape, file, pos, batch, runs>>
      /\ excused' = excused \cup {file[i] : i \in (p + 1)..from}
                            \cup (IF rotated THEN {file[i] : i \in 1..p} ELSE {})
  BY DEF StatFile, TailIdle
<1>t. /\ size \in Nat /\ Base \in Nat /\ Base + size = Len(shape) /\ pos \in Nat
      /\ \A j \in 1..size : file[j] = Base + j
      /\ MaxRead \in Nat \ {0}
  BY Sizes DEF IntakeInv, IntakeAssumption
<1>2. p \in Nat /\ from \in Nat /\ p <= from /\ from <= size
  BY <1>1, <1>t
<1>3. Base' = Base
  BY <1>1 DEF Base
<1>4. ASSUME NEW i \in (Base + 1)..(Base + p)
      PROVE  Accounted(i)'
  <2>1. i - Base \in 1..p /\ i - Base \in 1..size /\ file[i - Base] = i
    BY <1>2, <1>t
  <2>2. CASE rotated
    <3>1. i \in {file[j] : j \in 1..p}
      BY <2>1
    <3> HIDE DEF p, from
    <3> QED BY <1>1, <2>2, <3>1 DEF Accounted
  <2>3. CASE ~rotated
    <3>1. Below(pos) /\ pos <= size /\ p = pos
      BY <1>1, <1>t, <2>3 DEF CoverInv, Below
    <3>2. Accounted(i)
      BY <3>1 DEF Below
    <3> HIDE DEF p, from
    <3> QED BY <1>1, <3>2 DEF Accounted, In
  <2> QED BY <2>2, <2>3
<1>5. ASSUME NEW i \in (Base + 1)..(Base + from)
      PROVE  Accounted(i)'
  <2>1. CASE i \in (Base + 1)..(Base + p)
    BY <1>4, <2>1
  <2>2. CASE i \notin (Base + 1)..(Base + p)
    <3> HIDE DEF p, from
    <3>1. i - Base \in (p + 1)..from /\ file[i - Base] = i
      BY <1>2, <1>t, <2>2
    <3>2. i \in {file[j] : j \in (p + 1)..from}
      BY <3>1
    <3> QED BY <1>1, <3>2 DEF Accounted
  <2> QED BY <2>1, <2>2
<1>6. pos <= size => \A i \in (Base + 1)..(Base + pos) : Accounted(i)'
  <2>1. pos <= size => p = pos
    BY <1>t
  <2> QED BY <1>4, <2>1
<1>7. statted' # <<>> /\ statted'[1] = from /\ statted'[2] = size /\ Len(file') = size
  <2> HIDE DEF from, size
  <2>1. statted' = <<from, size>> /\ file' = file
    BY <1>1
  <2> QED BY <2>1 DEF size
<1> HIDE DEF size, p, from
<1>8. size <= size
  BY <1>2, <1>t
<1> QED BY <1>1, <1>2, <1>3, <1>5, <1>6, <1>7, <1>8, <1>t DEF CoverInv, Below

LEMMA CoverOfRead ==
  ASSUME IntakeAssumption, IntakeInv, IntakeInv', CoverInv, ReadFile
  PROVE  CoverInv'
<1> DEFINE from == statted[1]
           size == statted[2]
<1>1. /\ batch' = SubSeq(file, from + 1, Len(file)) /\ pos' = size /\ statted' = <<>>
      /\ statted # <<>> /\ batch = <<>>
      /\ UNCHANGED <<shape, file, runs, excused, rotated>>
  BY DEF ReadFile, NextPosition, IntakeInv, Lined
<1>2. from \in Nat /\ size \in 1..MaxLines
  BY <1>1 DEF IntakeInv, Lined
<1> SUFFICES ASSUME ~rotated PROVE CoverInv'
  BY <1>1 DEF CoverInv
<1>3. Below(from) /\ size <= Len(file)
  BY <1>1, Zenon DEF CoverInv
<1> HIDE DEF from, size
<1>t. /\ Len(file) \in Nat /\ Base \in Nat /\ Base + Len(file) = Len(shape) /\ Base' = Base
      /\ Len(file') = Len(file)
  BY <1>1, Sizes DEF IntakeInv, Base
<1>4. In(batch)' = {i \in (Base + 1)..Len(shape) : i - Base > from}
  BY <1>1, <1>2, FileRead DEF In, IntakeInv
<1>5. In(batch) = {}
  BY <1>1, EmptyBatch
<1>6. ASSUME NEW i \in (Base + 1)..(Base + size)
      PROVE  Accounted(i)'
  <2>1. i \in (Base + 1)..Len(shape)
    BY <1>2, <1>3, <1>t
  <2>2. CASE i - Base > from
    BY <1>4, <2>1, <2>2 DEF Accounted
  <2>3. CASE ~(i - Base > from)
    <3>1. i \in (Base + 1)..(Base + from)
      BY <1>2, <1>t, <2>1, <2>3
    <3>2. Accounted(i)
      BY <1>3, <3>1 DEF Below
    <3> QED BY <1>1, <1>5, <3>2 DEF Accounted
  <2> QED BY <2>2, <2>3
<1>7. Below(pos)'
  BY <1>1, <1>3, <1>6, <1>t DEF Below
<1> QED BY <1>1, <1>7 DEF CoverInv

LEMMA CoverOfFailure ==
  ASSUME IntakeAssumption, IntakeInv, IntakeInv', CoverInv, ReadFileFails
  PROVE  CoverInv'
<1>1. /\ pos' = pos /\ statted' = <<>> /\ statted # <<>>
      /\ UNCHANGED <<shape, file, batch, runs, excused>>
      /\ rotated' = (rotated \/ pos > statted[2])
  BY DEF ReadFileFails, PositionAfterFailure
<1>2. pos \in Nat /\ statted[2] \in Nat
  BY <1>1 DEF IntakeInv, Lined, Unseen, IntakeAssumption
<1>3. ASSUME ~rotated'
      PROVE  Below(pos)
  <2>1. ~(rotated \/ pos > statted[2])
    BY <1>1, <1>3, Zenon
  <2>2. ~(pos > statted[2])
    BY <2>1, Zenon
  <2>3. pos <= statted[2]
    BY <1>2, <2>2
  <2>4. ~rotated
    BY <2>1, Zenon
  <2> QED BY <1>1, <2>3, <2>4, Zenon DEF CoverInv
<1>5. Below(pos) => Below(pos)'
  BY <1>1 DEF Below, Accounted, In, Base
<1> QED BY <1>1, <1>3, <1>5 DEF CoverInv

LEMMA CoverOfLine ==
  ASSUME IntakeAssumption, IntakeInv, IntakeInv', CoverInv, TakeLine("file")
  PROVE  CoverInv'
<1> DEFINE k == Head(batch)
<1>1. /\ batch # <<>> /\ runs' = [runs EXCEPT ![k] = runs[k] + 1]
      /\ \/ batch' = Tail(batch) /\ excused' = excused
         \/ batch' = <<>> /\ excused' = excused \cup In(Tail(batch))
      /\ UNCHANGED <<shape, file, pos, statted, rotated>>
  BY DEF TakeLine, Takes
<1>2. batch \in Seq(Nat) /\ Run(batch) /\ In(batch) \subseteq Written /\ runs \in [1..MaxLines -> Nat]
  BY DEF IntakeInv, Lined
<1>3. k \in In(batch) /\ In(Tail(batch)) = In(batch) \ {k}
  BY <1>1, <1>2, TailOfRun
<1>4. k \in 1..MaxLines
  BY <1>2, <1>3, Sizes DEF Written, IntakeInv
<1>5. In(batch) \ {k} \subseteq In(batch)' \cup excused' /\ excused \subseteq excused'
  BY <1>1, <1>3 DEF In
<1> HIDE DEF k
<1>6. ASSUME NEW i \in (Base + 1)..Len(shape), Accounted(i)
      PROVE  Accounted(i)'
  <2>1. i \in 1..MaxLines /\ runs[i] \in Nat /\ runs[k] \in Nat
    BY <1>2, <1>4, Sizes DEF IntakeInv
  <2>2. CASE i = k
    <3>1. runs'[i] = runs[i] + 1
      BY <1>1, <1>2, <2>1, <2>2
    <3> QED BY <2>1, <3>1 DEF Accounted
  <2>3. CASE i # k
    <3>1. runs'[i] = runs[i]
      BY <1>1, <1>2, <2>1, <2>3
    <3> QED BY <1>5, <1>6, <2>3, <3>1 DEF Accounted
  <2> QED BY <2>2, <2>3
<1>7. Base' = Base /\ Len(file) <= Len(file')
  BY <1>1, Sizes DEF Base, IntakeInv
<1> QED BY <1>1, <1>6, <1>7, CoverStays

LEMMA CoverSteps ==
  ASSUME IntakeAssumption, IntakeInv, IntakeInv', CoverInv, [IntakeNext]_intakeVars
  PROVE  CoverInv'
<1>1. CASE \/ \E n \in 1..2 : Datagram(n)
           \/ TakeLine("udp")
           \/ \E s \in Sources : CountLine(s) \/ PersistEvent(s)
           \/ FlushTake \/ FlushWrite \/ FlushWriteFails
           \/ UNCHANGED intakeVars
  <2>1. UNCHANGED <<shape, file, pos, statted, batch, runs, excused, rotated>>
    BY <1>1 DEF Datagram, TakeLine, CountLine, PersistEvent, FlushTake, FlushWrite,
       FlushWriteFails, intakeVars, tailVars
  <2> QED BY <2>1 DEF CoverInv, Below, Accounted, In, Base
<1>2. CASE Rotate
  BY <1>2 DEF Rotate, CoverInv
<1>3. CASE IntakeRestart
  BY <1>3 DEF IntakeRestart, CoverInv
<1> QED BY <1>1, <1>2, <1>3, CoverOfLog, CoverOfDiscovery, CoverOfStat, CoverOfRead,
           CoverOfFailure, CoverOfLine DEF IntakeNext, Sources

(* syslog_file.py:80-107.  No line of a file below its position is missed, *)
(* for any lines, caps and failures, but for the named exceptions.         *)
THEOREM NoLineMissed == ASSUME IntakeAssumption PROVE IntakeSpec => []NothingTailedIsMissed
<1>1. IntakeInit => IntakeInv /\ CoverInv
  BY IntakeInitially DEF IntakeInit, CoverInv
<1>2. IntakeInv /\ [IntakeNext]_intakeVars => IntakeInv'
  BY IntakeSteps
<1>3. IntakeInv /\ IntakeInv' /\ CoverInv /\ [IntakeNext]_intakeVars => CoverInv'
  BY CoverSteps
<1>4. IntakeInv /\ CoverInv => NothingTailedIsMissed
  <2> SUFFICES ASSUME IntakeInv, CoverInv, pos # Unseen, ~rotated, statted = <<>>
               PROVE  /\ pos <= Len(file)
                      /\ \A i \in 1..pos : runs[file[i]] > 0 \/ file[i] \in In(batch) \cup excused
    BY DEF NothingTailedIsMissed
  <2>1. Below(pos)
    BY DEF CoverInv
  <2>2. /\ Len(file) \in Nat /\ Base \in Nat /\ pos \in Nat
        /\ \A j \in 1..Len(file) : file[j] = Base + j
    BY Sizes DEF IntakeInv
  <2>3. \A i \in 1..pos : file[i] \in (Base + 1)..(Base + pos)
    BY <2>1, <2>2 DEF Below
  <2> QED BY <2>1, <2>3 DEF Below, Accounted
<1> QED BY <1>1, <1>2, <1>3, <1>4, PTL DEF IntakeSpec

-----------------------------------------------------------------------------
(* The types of what the tailer does not touch.                            *)
UdpTyped ==
  /\ mode \in Modes /\ sent \in 0..Len(shape)
  /\ queue \in Seq(Written) /\ Len(queue) <= UdpQueueMax /\ dropped \in Nat
  /\ work \in [Sources -> Written \cup {NoLine}]
  /\ faults \in 0..MaxIntakeFaults

LEMMA UdpInitially == ASSUME IntakeAssumption PROVE IntakeInit => UdpTyped
<1> SUFFICES ASSUME IntakeInit PROVE UdpTyped
  OBVIOUS
<1>1. /\ UdpQueueMax \in Nat /\ MaxIntakeFaults \in Nat /\ Len(shape) = 0
      /\ queue \in Seq(Written) /\ Len(queue) = 0
  BY DEF IntakeInit, IntakeAssumption
<1>2. mode \in Modes /\ sent = 0 /\ dropped = 0 /\ faults = 0
  BY DEF IntakeInit
<1>3. work \in [Sources -> Written \cup {NoLine}]
  BY DEF IntakeInit
<1> QED BY <1>1, <1>2, <1>3 DEF UdpTyped

(* What is taken off the front of a queue is a written line.               *)
LEMMA TakenOff ==
  ASSUME NEW S, NEW s \in Seq(S), s # <<>>
  PROVE  Head(s) \in S /\ Tail(s) \in Seq(S) /\ Len(Tail(s)) <= Len(s) /\ Head(s) \in In(s)
<1>1. /\ Head(s) \in S /\ Tail(s) \in Seq(S) /\ Len(Tail(s)) <= Len(s)
      /\ Head(s) = s[1] /\ 1 \in DOMAIN s
  OBVIOUS
<1> QED BY <1>1 DEF In

LEMMA FaultCounted ==
  ASSUME IntakeAssumption, UdpTyped, IntakeFault PROVE faults' \in 0..MaxIntakeFaults
<1>1. faults \in 0..MaxIntakeFaults /\ MaxIntakeFaults \in Nat
  BY DEF UdpTyped, IntakeAssumption
<1> QED BY <1>1 DEF IntakeFault

(* The daemon writes lines and sends them.                                 *)
LEMMA UdpWorldStep ==
  ASSUME IntakeAssumption, Lined, UdpTyped,
         (\E l \in Shapes : Log(l)) \/ (\E n \in 1..2 : Datagram(n))
  PROVE  UdpTyped'
<1>t. /\ Len(shape) \in Nat /\ UdpQueueMax \in Nat \ {0} /\ shape \in Seq(Shapes)
      /\ queue \in Seq(Written) /\ Len(queue) <= UdpQueueMax /\ sent \in 0..Len(shape)
      /\ Len(queue) \in Nat /\ dropped \in Nat
  BY Sizes, LenProperties DEF UdpTyped, IntakeAssumption, Lined
<1>1. ASSUME NEW l \in Shapes, Log(l) PROVE UdpTyped'
  <2>1. /\ shape' = Append(shape, l)
        /\ UNCHANGED <<mode, sent, queue, dropped, work, faults>>
    BY <1>1 DEF Log
  <2>2. Len(shape') = Len(shape) + 1
    BY <1>t, <2>1
  <2>3. Written \subseteq Written'
    BY <1>t, <2>2 DEF Written
  <2>4. queue \in Seq(Written')
    BY <1>t, <2>3, SeqMonotonic
  <2>5. work' \in [Sources -> Written' \cup {NoLine}]
    BY <2>1, <2>3 DEF UdpTyped
  <2>6. sent' \in 0..Len(shape')
    BY <1>t, <2>1, <2>2
  <2> QED BY <2>1, <2>4, <2>5, <2>6 DEF UdpTyped
<1>2. ASSUME NEW n \in 1..2, Datagram(n) PROVE UdpTyped'
  <2> DEFINE room == UdpQueueMax - Len(queue)
             k    == Least(n, room)
             new  == [i \in 1..k |-> sent + i]
  <2>1. /\ sent + n <= Len(shape) /\ sent' = sent + n /\ queue' = queue \o new
        /\ dropped' \in {dropped, dropped + 1} /\ UNCHANGED <<mode, shape, work, faults>>
    BY <1>2 DEF Datagram
  <2>2. k \in Nat /\ k <= n /\ Len(queue) + k <= UdpQueueMax
    BY <1>t DEF Least
  <2> HIDE DEF k
  <2>3. \A i \in 1..k : sent + i \in Written
    BY <1>t, <2>1, <2>2 DEF Written
  <2>4. new \in Seq(Written) /\ Len(new) = k
    <3>1. new \in [1..k -> Written]
      BY <2>3
    <3>2. new \in Seq(Written)
      BY <2>2, <3>1, SeqDef
    <3>3. DOMAIN new = 1..k /\ DOMAIN new = 1..Len(new) /\ Len(new) \in Nat
      BY <3>2, LenProperties
    <3> QED BY <2>2, <3>2, <3>3
  <2> HIDE DEF new
  <2>5. queue' \in Seq(Written) /\ Len(queue') = Len(queue) + k
    BY <1>t, <2>1, <2>4, ConcatProperties
  <2>6. sent' \in 0..Len(shape) /\ dropped' \in Nat /\ Len(queue') <= UdpQueueMax
    BY <1>t, <2>1, <2>2, <2>5
  <2> QED BY <2>1, <2>5, <2>6 DEF UdpTyped, Written
<1> QED BY <1>1, <1>2

LEMMA UdpSteps ==
  ASSUME IntakeAssumption, Lined, UdpTyped, [IntakeNext]_intakeVars PROVE UdpTyped'
<1>1. CASE \/ Rotate \/ DiscoverFile \/ StatFile \/ ReadFile \/ ReadFileFails
           \/ \E s \in Sources : CountLine(s) \/ PersistEvent(s)
           \/ FlushTake \/ FlushWrite \/ FlushWriteFails \/ UNCHANGED intakeVars
  <2>1. UNCHANGED <<mode, shape, sent, queue, dropped>>
    BY <1>1
    DEF Rotate, DiscoverFile, StatFile, ReadFile, ReadFileFails, CountLine, PersistEvent,
        FlushTake, FlushWrite, FlushWriteFails, intakeVars
  <2>2. work' \in [Sources -> Written \cup {NoLine}]
    <3>1. work \in [Sources -> Written \cup {NoLine}]
      BY DEF UdpTyped
    <3>2. work' = work \/ \E s \in Sources : work' = [work EXCEPT ![s] = NoLine]
      BY <1>1
      DEF Rotate, DiscoverFile, StatFile, ReadFile, ReadFileFails, CountLine, PersistEvent,
          FlushTake, FlushWrite, FlushWriteFails, intakeVars
    <3> QED BY <3>1, <3>2
  <2>3. faults' \in 0..MaxIntakeFaults
    <3>1. faults' = faults \/ IntakeFault
      BY <1>1
      DEF Rotate, DiscoverFile, StatFile, ReadFile, ReadFileFails, CountLine, PersistEvent,
          FlushTake, FlushWrite, FlushWriteFails, intakeVars
    <3> QED BY <3>1, FaultCounted DEF UdpTyped
  <2> QED BY <2>1, <2>2, <2>3 DEF UdpTyped, Written
<1>2. ASSUME NEW s \in Sources, TakeLine(s) PROVE UdpTyped'
  <2> DEFINE i == Head(Takes(s))
  <2>1. /\ Takes(s) # <<>> /\ work' \in {work, [work EXCEPT ![s] = i]}
        /\ \/ s = "file" /\ queue' = queue
           \/ s = "udp" /\ queue' = Tail(queue)
        /\ UNCHANGED <<mode, shape, sent, dropped, faults>>
    BY <1>2 DEF TakeLine, Takes, Sources
  <2>2. i \in Written
    <3>1. CASE s = "file"
      <4>1. Takes(s) = batch /\ batch \in Seq(Nat) /\ In(batch) \subseteq Written
        BY <3>1 DEF Takes, Lined
      <4> QED BY <2>1, <4>1, TakenOff
    <3>2. CASE s = "udp"
      <4>1. Takes(s) = queue /\ queue \in Seq(Written)
        BY <3>2 DEF Takes, UdpTyped
      <4> QED BY <2>1, <4>1, TakenOff
    <3> QED BY <3>1, <3>2 DEF Sources
  <2> HIDE DEF i
  <2>3. work' \in [Sources -> Written \cup {NoLine}]
    BY <2>1, <2>2 DEF UdpTyped
  <2>4. queue' \in Seq(Written) /\ Len(queue') <= UdpQueueMax
    <3>1. CASE queue' = queue
      BY <3>1 DEF UdpTyped
    <3>2. CASE s = "udp" /\ queue' = Tail(queue)
      <4>1. queue # <<>> /\ queue \in Seq(Written) /\ Len(queue) <= UdpQueueMax
        BY <2>1, <3>2 DEF UdpTyped, Takes
      <4>2. Tail(queue) \in Seq(Written) /\ Len(Tail(queue)) <= Len(queue)
            /\ Len(queue) \in Nat /\ Len(Tail(queue)) \in Nat
        BY <4>1, TakenOff, LenProperties
      <4>3. UdpQueueMax \in Nat
        BY DEF IntakeAssumption
      <4> QED BY <3>2, <4>1, <4>2, <4>3
    <3> QED BY <2>1, <3>1, <3>2
  <2> QED BY <2>1, <2>3, <2>4 DEF UdpTyped, Written
<1>3. CASE IntakeRestart
  <2>1. /\ queue' = <<>> /\ dropped' = 0 /\ work' = [s \in Sources |-> NoLine]
        /\ faults' \in 0..MaxIntakeFaults /\ UNCHANGED <<mode, shape, sent>>
    BY <1>3, FaultCounted DEF IntakeRestart
  <2>2. queue' \in Seq(Written) /\ Len(queue') <= UdpQueueMax
    BY <2>1 DEF IntakeAssumption
  <2> QED BY <2>1, <2>2 DEF UdpTyped, Written
<1> QED BY <1>1, <1>2, <1>3, UdpWorldStep DEF IntakeNext

(* A stat saw what the file can hold, also after the file has been         *)
(* replaced by a shorter one.                                              *)
StatInFile == statted # <<>> => statted[1] <= MaxLines

LEMMA StatSteps ==
  ASSUME IntakeAssumption, Lined, StatInFile, [IntakeNext]_intakeVars PROVE StatInFile'
<1>1. CASE StatFile
  <2>1. statted'[1] <= Len(file)
    <3>1. Len(file) \in Nat /\ pos \in Nat /\ MaxRead \in Nat
      BY Sizes DEF IntakeAssumption
    <3> QED BY <1>1, <3>1 DEF StatFile
  <2>2. Len(file) \in Nat /\ Len(file) <= MaxLines /\ MaxLines \in Nat
    BY Sizes DEF Lined
  <2>3. statted'[1] \in Nat
    BY <1>1, Sizes DEF StatFile, IntakeAssumption
  <2> QED BY <2>1, <2>2, <2>3 DEF StatInFile
<1>2. CASE ~StatFile
  <2>1. statted' = statted \/ statted' = <<>>
    BY <1>2
    DEF IntakeNext, intakeVars, tailVars, Log, Rotate, Datagram, DiscoverFile, ReadFile, ReadFileFails,
        TakeLine, CountLine, PersistEvent, FlushTake, FlushWrite, FlushWriteFails, IntakeRestart
  <2> QED BY <2>1 DEF StatInFile
<1> QED BY <1>1, <1>2

(* Every variable of the collectors keeps its type: no queue outgrows its  *)
(* size, and what is queued, read or in hand was logged.                   *)
THEOREM IntakeTypeCorrect == ASSUME IntakeAssumption PROVE IntakeSpec => []IntakeTypeOK
<1>1. IntakeInit => IntakeInv /\ CountInv /\ UdpTyped /\ StatInFile
  <2>1. IntakeInit => CountInv
    BY DEF IntakeInit, CountInv, CountsAreConserved
  <2>2. IntakeInit => StatInFile
    BY DEF IntakeInit, StatInFile
  <2> QED BY <2>1, <2>2, IntakeInitially, UdpInitially
<1>2. IntakeInv /\ [IntakeNext]_intakeVars => IntakeInv'
  BY IntakeSteps
<1>3. IntakeInv /\ UdpTyped /\ [IntakeNext]_intakeVars => UdpTyped'
  BY UdpSteps DEF IntakeInv
<1>4. IntakeInv /\ StatInFile /\ [IntakeNext]_intakeVars => StatInFile'
  BY StatSteps DEF IntakeInv
<1>5. IntakeInv /\ CountInv /\ UdpTyped /\ StatInFile => IntakeTypeOK
  <2> SUFFICES ASSUME IntakeInv, CountInv, UdpTyped, StatInFile PROVE IntakeTypeOK
    OBVIOUS
  <2>1. Lined
    BY DEF IntakeInv
  <2>2. In(file) \subseteq Written
    BY <2>1, Sizes DEF In, Written
  <2>3. statted \in {<<>>} \cup (0..MaxLines) \X (1..MaxLines)
    <3>1. CASE statted = <<>>
      BY <3>1
    <3>2. CASE statted # <<>>
      <4>1. statted \in Nat \X (1..MaxLines) /\ statted[1] <= MaxLines /\ MaxLines \in Nat
        BY <2>1, <3>2 DEF Lined, StatInFile, IntakeAssumption
      <4>2. statted = <<statted[1], statted[2]>> /\ statted[1] \in 0..MaxLines
            /\ statted[2] \in 1..MaxLines
        BY <4>1
      <4>3. <<statted[1], statted[2]>> \in (0..MaxLines) \X (1..MaxLines)
        BY <4>2
      <4> QED BY <4>2, <4>3, Zenon
    <3> QED BY <3>1, <3>2
  <2>4. In(queue) \subseteq Written
    BY DEF UdpTyped, In
  <2> QED BY <2>1, <2>2, <2>3, <2>4 DEF IntakeTypeOK, Lined, UdpTyped, CountInv
<1> QED BY <1>1, CountsKept, <1>2, <1>3, <1>4, <1>5, PTL DEF IntakeSpec
=============================================================================
