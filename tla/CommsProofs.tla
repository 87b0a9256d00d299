----------------------------- MODULE CommsProofs -----------------------------
(* The ground side for any number of threads, tiles, lines and steps: the     *)
(* Logger follows its configuration, and what the web server hands out is     *)
(* whole and in order.                                                        *)
EXTENDS MCComms, CommandLinkProofs

-----------------------------------------------------------------------------
(* The Logger: its types, the lock and the rows read under it, the threads    *)
(* and the two queues that carry a configuration.                             *)
Settings == Configs \cup {Empty}
Values == {cfg[t] : cfg \in Settings, t \in Tasks}
Job == [task : Tasks, cfg : Values, stage : {"closed", "open", "ended"}, stop : BOOLEAN,
        row : Seq(0 .. 1)]

LoggerTyped ==
    /\ pushed \in Settings /\ applied \in Settings
    /\ direct \in Seq(Configs) /\ synced \in Seq(Settings)
    /\ threads \in Seq(Job)
    /\ lock \in 0 .. Len(threads) /\ payload \in 0 .. 1
    /\ unheard \in BOOLEAN /\ diskLow \in BOOLEAN
    /\ pushes \in 0 .. MaxPushes /\ upsets \in 0 .. MaxUpsets

(* A thread holds the lock as long as its row is half read, and what it has   *)
(* read is still the payload of the topic.                                    *)
RowsAreRead ==
    \A n \in Numbers :
        /\ Len(threads[n].row) = 1 <=> lock = n
        /\ Len(threads[n].row) = 1 => threads[n].row[1] = payload
        /\ Len(threads[n].row) = 2 => threads[n].row[1] = threads[n].row[2]

(* The last configuration in either queue is the Manager's, and when both are *)
(* empty it was applied.                                                      *)
QueuesLead ==
    /\ direct # <<>> => direct[Len(direct)] = pushed
    /\ synced # <<>> => synced[Len(synced)] = pushed
    /\ unheard => direct = <<>> /\ synced = <<>>
    /\ ConfigAgrees

LoggerInv == LoggerTyped /\ RowsAreRead /\ NoStrayThread /\ QueuesLead

(* The threads after a configuration: those that were there, some of them     *)
(* told to stop, and then the new ones.                                       *)
LEMMA ReplacedThreads ==
    ASSUME LoggerTyped, NEW cfg \in Settings
    PROVE  LET L == Len(threads)
               m == IF Begins(Csv, cfg) THEN 1 ELSE 0
               j == IF Begins(Json, cfg) THEN 1 ELSE 0
           IN  /\ Replaced(cfg) \in Seq(Job)
               /\ Len(Replaced(cfg)) = L + m + j /\ L \in Nat
               /\ \A n \in 1 .. L + m + j : Replaced(cfg)[n] =
                    IF n <= L
                    THEN IF n \in Stopped(cfg) THEN [threads[n] EXCEPT !.stop = TRUE]
                                               ELSE threads[n]
                    ELSE IF n = L + 1 /\ m = 1 THEN Thread(Csv, cfg[Csv])
                                               ELSE Thread(Json, cfg[Json])
<1> DEFINE L == Len(threads)
           m == IF Begins(Csv, cfg) THEN 1 ELSE 0
           j == IF Begins(Json, cfg) THEN 1 ELSE 0
<1>1. threads \in Seq(Job) /\ L \in Nat /\ \A n \in 1 .. L : threads[n] \in Job
  BY DEF LoggerTyped
<1>2. Told(cfg) \in Seq(Job) /\ Len(Told(cfg)) = L
  <2>1. \A n \in 1 .. L : (IF n \in Stopped(cfg) THEN [threads[n] EXCEPT !.stop = TRUE]
                                                 ELSE threads[n]) \in Job
    BY <1>1 DEF Job
  <2>2. Told(cfg) \in [1 .. L -> Job]
    BY <2>1 DEF Told, Numbers
  <2> QED  BY <1>1, <2>2
<1>3. ASSUME NEW t \in Tasks
      PROVE  /\ Begun(t, cfg) \in Seq(Job)
             /\ Len(Begun(t, cfg)) = IF Begins(t, cfg) THEN 1 ELSE 0
             /\ Begins(t, cfg) => Begun(t, cfg)[1] = Thread(t, cfg[t])
  <2>1. cfg[t] \in Values
    BY DEF Values
  <2>2. Thread(t, cfg[t]) \in Job
    BY <2>1 DEF Thread, Job
  <2> QED  BY <2>2 DEF Begun
<1>4. Csv \in Tasks /\ Json \in Tasks
  BY DEF Tasks
<1> DEFINE A == Told(cfg)
           B == Begun(Csv, cfg)
           C == Begun(Json, cfg)
<1>5. /\ B \in Seq(Job) /\ Len(B) = m /\ (m = 1 => B[1] = Thread(Csv, cfg[Csv]))
      /\ C \in Seq(Job) /\ Len(C) = j /\ (j = 1 => C[1] = Thread(Json, cfg[Json]))
  BY <1>3, <1>4
<1>6. m \in 0 .. 1 /\ j \in 0 .. 1
  OBVIOUS
<1>7. \A n \in 1 .. L : A[n] = IF n \in Stopped(cfg) THEN [threads[n] EXCEPT !.stop = TRUE]
                                                     ELSE threads[n]
  BY DEF Told, Numbers
<1>8. Replaced(cfg) = (A \o B) \o C
  BY DEF Replaced
<1> HIDE DEF A, B, C, m, j, L
<1>9. /\ A \o B \in Seq(Job) /\ Len(A \o B) = L + m
      /\ \A n \in 1 .. L + m : (A \o B)[n] = IF n <= L THEN A[n] ELSE B[n - L]
  BY <1>2, <1>5, ConcatProperties DEF A
<1>10. /\ (A \o B) \o C \in Seq(Job) /\ Len((A \o B) \o C) = L + m + j
       /\ \A n \in 1 .. L + m + j :
            ((A \o B) \o C)[n] = IF n <= L + m THEN (A \o B)[n] ELSE C[n - (L + m)]
  <2> DEFINE D == A \o B
  <2>1. D \in Seq(Job) /\ Len(D) = L + m
    BY <1>9
  <2> HIDE DEF D
  <2>2. /\ D \o C \in Seq(Job) /\ Len(D \o C) = L + m + j
        /\ \A n \in 1 .. L + m + j : (D \o C)[n] = IF n <= L + m THEN D[n] ELSE C[n - (L + m)]
    <3>1. (L + m) + j = L + m + j /\ Len(D) + Len(C) = L + m + j
      BY <1>5, <2>1
    <3>2. /\ D \o C \in Seq(Job) /\ Len(D \o C) = Len(D) + Len(C)
          /\ \A n \in 1 .. Len(D) + Len(C) :
               (D \o C)[n] = IF n <= Len(D) THEN D[n] ELSE C[n - Len(D)]
      <4>1. D \in Seq(Job) /\ C \in Seq(Job)
        BY <1>5, <2>1
      <4> QED  BY ONLY <4>1, ConcatProperties
    <3> QED  BY <2>1, <3>1, <3>2
  <2> QED  BY <2>2 DEF D
<1>11. ASSUME NEW n \in 1 .. L + m + j
       PROVE  Replaced(cfg)[n] =
                IF n <= L
                THEN IF n \in Stopped(cfg) THEN [threads[n] EXCEPT !.stop = TRUE]
                                           ELSE threads[n]
                ELSE IF n = L + 1 /\ m = 1 THEN Thread(Csv, cfg[Csv])
                                           ELSE Thread(Json, cfg[Json])
  <2>0. L \in Nat /\ n \in Nat
    BY <1>1, <1>6 DEF L
  <2>1. CASE n <= L
    <3>1. Replaced(cfg)[n] = A[n]
      BY <1>6, <1>8, <1>9, <1>10, <2>0, <2>1
    <3> QED  BY <1>7, <2>0, <2>1, <3>1
  <2>2. CASE n > L /\ m = 1 /\ n = L + 1
    <3>1. Replaced(cfg)[n] = B[1]
      BY <1>6, <1>8, <1>9, <1>10, <2>0, <2>2
    <3> QED  BY <1>5, <2>0, <2>2, <3>1
  <2>3. CASE n > L /\ ~(m = 1 /\ n = L + 1)
    <3>1. Replaced(cfg)[n] = C[1] /\ j = 1
      BY <1>6, <1>8, <1>9, <1>10, <2>0, <2>3
    <3> QED  BY <1>5, <2>0, <2>3, <3>1
  <2> QED  BY <2>0, <2>1, <2>2, <2>3
<1> QED  BY <1>1, <1>8, <1>10, <1>11 DEF L, m, j

(* A new configuration leaves the rows alone and no thread of the old one     *)
(* without its stop event.                                                    *)
LEMMA ApplyKeeps ==
    ASSUME LoggerTyped, NoStrayThread, NEW cfg \in Settings, Apply(cfg)
    PROVE  /\ threads' \in Seq(Job) /\ Len(threads) <= Len(threads')
           /\ \A n \in Numbers : threads'[n].row = threads[n].row
           /\ \A n \in Numbers' : n \notin Numbers => threads'[n].row = <<>>
           /\ NoStrayThread' /\ applied' = cfg
<1> DEFINE L == Len(threads)
           m == IF Begins(Csv, cfg) THEN 1 ELSE 0
           j == IF Begins(Json, cfg) THEN 1 ELSE 0
<1>1. threads' = Replaced(cfg) /\ applied' = cfg
  BY DEF Apply
<1>2. task' = [t \in Tasks |-> IF Kept(t, cfg) THEN task[t]
                               ELSE IF Begins(t, cfg) THEN NewNumber(t, cfg) ELSE 0]
  BY DEF Apply
<1>3. /\ threads' \in Seq(Job) /\ Len(threads') = L + m + j /\ L \in Nat
      /\ \A n \in 1 .. L + m + j : threads'[n] =
           IF n <= L
           THEN IF n \in Stopped(cfg) THEN [threads[n] EXCEPT !.stop = TRUE] ELSE threads[n]
           ELSE IF n = L + 1 /\ m = 1 THEN Thread(Csv, cfg[Csv]) ELSE Thread(Json, cfg[Json])
  BY <1>1, ReplacedThreads
<1>4. m \in 0 .. 1 /\ j \in 0 .. 1 /\ (m = 1 <=> Begins(Csv, cfg)) /\ (j = 1 <=> Begins(Json, cfg))
  OBVIOUS
<1>5. Numbers = 1 .. L /\ Numbers' = 1 .. L + m + j /\ Csv \in Tasks /\ Json \in Tasks /\ Csv # Json
  BY <1>3 DEF Numbers, Tasks, Csv, Json
<1>6. \A n \in 1 .. L : threads[n] \in Job
  BY DEF LoggerTyped
<1> HIDE DEF m, j, L
<1>7. ASSUME NEW n \in 1 .. L
      PROVE  /\ threads'[n].row = threads[n].row /\ threads'[n].task = threads[n].task
             /\ threads'[n].cfg = threads[n].cfg
             /\ ~threads'[n].stop => ~threads[n].stop /\ n \notin Stopped(cfg)
  <2>1. n <= L /\ n \in 1 .. L + m + j /\ threads[n] \in Job
    BY <1>3, <1>4, <1>6
  <2>2. threads'[n] = IF n \in Stopped(cfg) THEN [threads[n] EXCEPT !.stop = TRUE] ELSE threads[n]
    BY <1>3, <2>1
  <2> QED  BY <2>1, <2>2 DEF Job
<1>8. ASSUME NEW n \in 1 .. L + m + j, n \notin 1 .. L
      PROVE  \E t \in Tasks : /\ threads'[n] = Thread(t, cfg[t]) /\ Begins(t, cfg)
                              /\ n = NewNumber(t, cfg)
  <2>1. CASE n = L + 1 /\ m = 1
    <3>1. threads'[n] = Thread(Csv, cfg[Csv])
      BY <1>3, <2>1
    <3>2. n = NewNumber(Csv, cfg)
      BY <1>5, <2>1 DEF NewNumber, L
    <3> QED  BY <1>4, <1>5, <2>1, <3>1, <3>2
  <2>2. CASE ~(n = L + 1 /\ m = 1)
    <3>1. threads'[n] = Thread(Json, cfg[Json]) /\ j = 1 /\ n = L + m + 1
      BY <1>3, <1>4, <1>8, <2>2
    <3>2. n = NewNumber(Json, cfg)
      BY <1>3, <1>4, <3>1 DEF NewNumber, L
    <3> QED  BY <1>4, <1>5, <3>1, <3>2
  <2> QED  BY <2>1, <2>2
<1>9. ASSUME NEW n \in Numbers', ~threads'[n].stop
      PROVE  /\ task'[threads'[n].task] = n
             /\ threads'[n].cfg = cfg[threads'[n].task] /\ threads'[n].cfg # Off
  <2>1. CASE n \in 1 .. L
    <3> DEFINE t == threads[n].task
    <3>1. ~threads[n].stop /\ n \notin Stopped(cfg) /\ threads'[n].task = t
          /\ threads'[n].cfg = threads[n].cfg
      BY <1>7, <1>9, <2>1
    <3>2. task[t] = n /\ threads[n].cfg = applied[t] /\ threads[n].cfg # Off
      BY <1>5, <2>1, <3>1 DEF NoStrayThread
    <3>3. t \in Tasks
      BY <1>6, <2>1 DEF Job
    <3>4. Running(t) /\ Kept(t, cfg)
      <4>1. Running(t)
        BY <1>3, <2>1, <3>2 DEF Running
      <4> QED  BY <3>1, <3>2, <3>3, <4>1 DEF Stopped
    <3> QED  BY <1>2, <3>1, <3>2, <3>3, <3>4 DEF Kept
  <2>2. CASE n \notin 1 .. L
    <3>1. PICK t \in Tasks : /\ threads'[n] = Thread(t, cfg[t]) /\ Begins(t, cfg)
                             /\ n = NewNumber(t, cfg)
      BY <1>5, <1>8, <2>2
    <3>2. threads'[n].task = t /\ threads'[n].cfg = cfg[t]
      BY <3>1 DEF Thread
    <3> QED  BY <1>2, <3>1, <3>2 DEF Begins
  <2> QED  BY <2>1, <2>2
<1>10. NoStrayThread'
  BY <1>1, <1>9 DEF NoStrayThread
<1>11. \A n \in Numbers' : n \notin Numbers => threads'[n].row = <<>>
  <2> SUFFICES ASSUME NEW n \in Numbers', n \notin Numbers PROVE threads'[n].row = <<>>
    OBVIOUS
  <2>1. PICK t \in Tasks : threads'[n] = Thread(t, cfg[t])
    BY <1>5, <1>8
  <2> QED  BY <2>1 DEF Thread
<1>12. L <= Len(threads')
  BY <1>3, <1>4
<1> QED  BY <1>1, <1>3, <1>5, <1>7, <1>10, <1>11, <1>12 DEF L

(* A step of one thread that keeps its task, its settings and its stop event. *)
LEMMA RowStep ==
    ASSUME LoggerInv, SameRest, NEW n \in Numbers, NEW job \in Job,
           threads' = [threads EXCEPT ![n] = job],
           job.task = threads[n].task, job.cfg = threads[n].cfg, job.stop = threads[n].stop,
           lock' \in 0 .. Len(threads), Len(job.row) = 1 <=> lock' = n,
           \A k \in Numbers : k # n => (lock' = k <=> lock = k),
           Len(job.row) = 1 => job.row[1] = payload,
           Len(job.row) = 2 => job.row[1] = job.row[2]
    PROVE  LoggerInv'
<1>1. threads \in Seq(Job) /\ n \in 1 .. Len(threads)
  BY DEF LoggerInv, LoggerTyped, Numbers
<1>2. /\ threads' \in Seq(Job) /\ Len(threads') = Len(threads)
      /\ \A k \in 1 .. Len(threads) : threads'[k] = IF k = n THEN job ELSE threads[k]
  BY <1>1, ExceptSeq
<1>3. UNCHANGED <<pushed, direct, synced, applied, task, unheard, payload, diskLow, pushes, upsets>>
  BY DEF SameRest
<1>4. Numbers' = Numbers /\ Numbers = 1 .. Len(threads)
  BY <1>2 DEF Numbers
<1>5. LoggerTyped'
  BY <1>2, <1>3 DEF LoggerInv, LoggerTyped
<1>6. RowsAreRead'
  BY <1>2, <1>3, <1>4 DEF LoggerInv, RowsAreRead
<1>7. NoStrayThread'
  BY <1>2, <1>3, <1>4 DEF LoggerInv, NoStrayThread
<1>8. QueuesLead'
  BY <1>3 DEF LoggerInv, QueuesLead, ConfigAgrees
<1> QED  BY <1>5, <1>6, <1>7, <1>8 DEF LoggerInv

LEMMA ThreadKeeps ==
    ASSUME LoggerInv, NEW n \in Numbers, ThreadStep(n) \/ CsvCloses(n)
    PROVE  LoggerInv'
<1> DEFINE old == threads[n]
<1>1. /\ old \in Job /\ n \in 1 .. Len(threads) /\ Len(threads) \in Nat
      /\ lock \in 0 .. Len(threads) /\ payload \in 0 .. 1
  BY DEF LoggerInv, LoggerTyped, Numbers
<1>2. /\ Len(old.row) = 1 <=> lock = n
      /\ Len(old.row) = 1 => old.row[1] = payload
      /\ Len(old.row) = 2 => old.row[1] = old.row[2]
  BY DEF LoggerInv, RowsAreRead
<1>3. SameRest
  BY DEF ThreadStep, CsvOpens, JsonOpens, ReadFirst, ReadSecond, Emit, Leave, CsvCloses
<1>4. CASE CsvOpens(n) \/ JsonOpens(n) \/ Leave(n) \/ CsvCloses(n)
  <2>1. PICK stage \in {"closed", "open", "ended"} :
          threads' = [threads EXCEPT ![n].stage = stage] /\ lock' = lock
    BY <1>4 DEF CsvOpens, JsonOpens, Leave, CsvCloses, Becomes
  <2> DEFINE job == [old EXCEPT !.stage = stage]
  <2>2. /\ job \in Job /\ job.task = old.task /\ job.cfg = old.cfg /\ job.stop = old.stop
        /\ job.row = old.row
    BY <1>1 DEF Job
  <2>3. threads' = [threads EXCEPT ![n] = job]
    BY <2>1
  <2> HIDE DEF job
  <2>4. /\ Len(job.row) = 1 <=> lock' = n
        /\ \A k \in Numbers : k # n => (lock' = k <=> lock = k)
        /\ Len(job.row) = 1 => job.row[1] = payload
        /\ Len(job.row) = 2 => job.row[1] = job.row[2]
        /\ lock' \in 0 .. Len(threads)
    BY <1>1, <1>2, <2>1, <2>2
  <2> QED  BY <1>3, <2>2, <2>3, <2>4, RowStep
<1>5. CASE ReadFirst(n)
  <2> DEFINE job == [old EXCEPT !.row = <<payload>>]
  <2>0. <<payload>> \in Seq(0 .. 1)
    BY <1>1
  <2>1. /\ job \in Job /\ job.task = old.task /\ job.cfg = old.cfg /\ job.stop = old.stop
        /\ job.row = <<payload>>
    BY <1>1, <2>0 DEF Job
  <2>2. threads' = [threads EXCEPT ![n] = job] /\ lock = 0 /\ lock' = n
    BY <1>5 DEF ReadFirst
  <2> HIDE DEF job
  <2>3. Len(job.row) = 1 /\ job.row[1] = payload
    BY <2>1
  <2>4. \A k \in Numbers : k # n => (lock' = k <=> lock = k)
    BY <2>2 DEF Numbers
  <2>5. lock' \in 0 .. Len(threads)
    BY <1>1, <2>2
  <2> QED  BY <1>1, <1>3, <2>1, <2>2, <2>3, <2>4, <2>5, RowStep
<1>6. CASE ReadSecond(n)
  <2> DEFINE job == [old EXCEPT !.row = Append(old.row, payload)]
  <2>0. old.row \in Seq(0 .. 1) /\ Len(old.row) = 1 /\ old.row[1] = payload
    BY <1>1, <1>2, <1>6 DEF Job, ReadSecond
  <2>1. /\ Append(old.row, payload) \in Seq(0 .. 1) /\ Len(Append(old.row, payload)) = 2
        /\ Append(old.row, payload)[1] = payload /\ Append(old.row, payload)[2] = payload
    BY <1>1, <2>0, AppendProperties
  <2>2. /\ job \in Job /\ job.task = old.task /\ job.cfg = old.cfg /\ job.stop = old.stop
        /\ job.row = Append(old.row, payload)
    BY <1>1, <2>1 DEF Job
  <2>3. threads' = [threads EXCEPT ![n] = job] /\ lock = n /\ lock' = 0
    BY <1>2, <1>6 DEF ReadSecond
  <2> HIDE DEF job
  <2>4. \A k \in Numbers : k # n => (lock' = k <=> lock = k)
    BY <2>3 DEF Numbers
  <2>5. lock' \in 0 .. Len(threads) /\ lock' # n
    BY <1>1, <2>3
  <2>6. /\ Len(job.row) = 1 <=> lock' = n
        /\ Len(job.row) = 1 => job.row[1] = payload
        /\ Len(job.row) = 2 => job.row[1] = job.row[2]
    BY <2>1, <2>2, <2>5
  <2> QED  BY <1>3, <2>2, <2>3, <2>4, <2>5, <2>6, RowStep
<1>7. CASE Emit(n)
  <2> DEFINE job == [old EXCEPT !.row = <<>>]
  <2>0. <<>> \in Seq(0 .. 1)
    OBVIOUS
  <2>1. /\ job \in Job /\ job.task = old.task /\ job.cfg = old.cfg /\ job.stop = old.stop
        /\ job.row = <<>>
    BY <1>1, <2>0 DEF Job
  <2>2. threads' = [threads EXCEPT ![n] = job] /\ lock' = lock /\ lock # n
    BY <1>2, <1>7 DEF Emit
  <2> HIDE DEF job
  <2>3. Len(job.row) = 0
    BY <2>1
  <2>4. /\ Len(job.row) = 1 <=> lock' = n
        /\ \A k \in Numbers : k # n => (lock' = k <=> lock = k)
        /\ Len(job.row) = 1 => job.row[1] = payload
        /\ Len(job.row) = 2 => job.row[1] = job.row[2]
        /\ lock' \in 0 .. Len(threads)
    BY <1>1, <2>2, <2>3
  <2> QED  BY <1>3, <2>1, <2>2, <2>4, RowStep
<1> QED  BY <1>4, <1>5, <1>6, <1>7 DEF ThreadStep

(* A configuration leaves one of the queues and is applied.                   *)
LEMMA ApplyInv ==
    ASSUME LoggerInv, NEW cfg \in Settings, Apply(cfg),
           UNCHANGED <<pushed, unheard, payload, lock, diskLow, pushes, upsets>>,
           direct' \in Seq(Configs), synced' \in Seq(Settings), QueuesLead'
    PROVE  LoggerInv'
<1>1. /\ threads' \in Seq(Job) /\ Len(threads) <= Len(threads')
      /\ \A n \in Numbers : threads'[n].row = threads[n].row
      /\ \A n \in Numbers' : n \notin Numbers => threads'[n].row = <<>>
      /\ NoStrayThread' /\ applied' = cfg
  BY ApplyKeeps DEF LoggerInv
<1>2. lock \in 0 .. Len(threads) /\ Len(threads) \in Nat /\ Len(threads') \in Nat
  BY <1>1 DEF LoggerInv, LoggerTyped
<1>3. LoggerTyped'
  BY <1>1, <1>2 DEF LoggerInv, LoggerTyped
<1>4. RowsAreRead'
  <2> SUFFICES ASSUME NEW n \in Numbers'
               PROVE  /\ Len(threads'[n].row) = 1 <=> lock' = n
                      /\ Len(threads'[n].row) = 1 => threads'[n].row[1] = payload'
                      /\ Len(threads'[n].row) = 2 => threads'[n].row[1] = threads'[n].row[2]
    BY DEF RowsAreRead
  <2>1. CASE n \in Numbers
    BY <1>1, <2>1 DEF LoggerInv, RowsAreRead
  <2>2. CASE n \notin Numbers
    <3>1. threads'[n].row = <<>> /\ Len(threads'[n].row) = 0
      BY <1>1, <2>2
    <3>2. lock # n
      BY <1>2, <2>2 DEF Numbers
    <3> QED  BY <3>1, <3>2
  <2> QED  BY <2>1, <2>2
<1> QED  BY <1>1, <1>3, <1>4 DEF LoggerInv

(* What is left of a queue still ends with what it ended with.                *)
LEMMA EndStays ==
    ASSUME NEW S, NEW queue \in Seq(S), queue # <<>>
    PROVE  /\ Head(queue) \in S /\ Tail(queue) \in Seq(S)
           /\ Tail(queue) # <<>> => Tail(queue)[Len(Tail(queue))] = queue[Len(queue)]
           /\ Tail(queue) = <<>> => Head(queue) = queue[Len(queue)]
<1>1. /\ Head(queue) \in S /\ Tail(queue) \in Seq(S)
      /\ Len(Tail(queue)) = Len(queue) - 1 /\ Len(queue) \in Nat
      /\ \A k \in 1 .. Len(queue) - 1 : Tail(queue)[k] = queue[k + 1]
      /\ Head(queue) = queue[1]
  BY HeadTailProperties
<1>2. ASSUME Tail(queue) # <<>> PROVE Tail(queue)[Len(Tail(queue))] = queue[Len(queue)]
  <2>1. Len(queue) - 1 \in Nat \ {0}
    BY <1>1, <1>2, EmptySeq
  <2> QED  BY <1>1, <2>1
<1>3. ASSUME Tail(queue) = <<>> PROVE Head(queue) = queue[Len(queue)]
  <2>1. Len(queue) - 1 = 0
    BY <1>1, <1>3, EmptySeq
  <2>2. Len(queue) \in Nat
    BY <1>1
  <2>3. Len(queue) = 1
    BY <2>1, <2>2
  <2> QED  BY <1>1, <2>3
<1> QED  BY <1>1, <1>2, <1>3

LEMMA HearKeeps ==
    ASSUME LoggerInv, HearDirect \/ HearSync
    PROVE  LoggerInv'
<1>1. direct \in Seq(Configs) /\ synced \in Seq(Settings) /\ QueuesLead
  BY DEF LoggerInv, LoggerTyped
<1>2. CASE HearDirect
  <2>1. /\ direct # <<>> /\ Apply(Head(direct)) /\ direct' = Tail(direct)
        /\ UNCHANGED <<pushed, synced, unheard, payload, lock, diskLow, pushes, upsets>>
    BY <1>2 DEF HearDirect
  <2>2. /\ Head(direct) \in Configs /\ Tail(direct) \in Seq(Configs)
        /\ Tail(direct) # <<>> => Tail(direct)[Len(Tail(direct))] = direct[Len(direct)]
        /\ Tail(direct) = <<>> => Head(direct) = direct[Len(direct)]
    BY <1>1, <2>1, EndStays
  <2>3. applied' = Head(direct)
    BY <2>1 DEF Apply
  <2>4. QueuesLead'
    BY <1>1, <2>1, <2>2, <2>3 DEF QueuesLead, ConfigAgrees
  <2>5. Head(direct) \in Settings
    BY <2>2 DEF Settings
  <2> QED  BY <1>1, <2>1, <2>2, <2>4, <2>5, ApplyInv
<1>3. CASE HearSync
  <2>1. /\ synced # <<>> /\ Apply(Head(synced)) /\ synced' = Tail(synced)
        /\ UNCHANGED <<pushed, direct, unheard, payload, lock, diskLow, pushes, upsets>>
    BY <1>3 DEF HearSync
  <2>2. /\ Head(synced) \in Settings /\ Tail(synced) \in Seq(Settings)
        /\ Tail(synced) # <<>> => Tail(synced)[Len(Tail(synced))] = synced[Len(synced)]
        /\ Tail(synced) = <<>> => Head(synced) = synced[Len(synced)]
    BY <1>1, <2>1, EndStays
  <2>3. applied' = Head(synced)
    BY <2>1 DEF Apply
  <2>4. QueuesLead'
    BY <1>1, <2>1, <2>2, <2>3 DEF QueuesLead, ConfigAgrees
  <2>5. Head(synced) \in Settings
    BY <2>2 DEF Settings
  <2> QED  BY <1>1, <2>1, <2>2, <2>4, <2>5, ApplyInv
<1> QED  BY <1>2, <1>3

LEMMA LoggerInitInv == LoggerInit => LoggerInv
<1> SUFFICES ASSUME LoggerInit PROVE LoggerInv
  OBVIOUS
<1> USE ConfigsAssumption DEF LoggerInit
<1>1. threads = <<>> /\ Len(threads) = 0 /\ Numbers = {}
  BY DEF Numbers
<1>2. LoggerTyped
  <2>1. pushed \in Settings /\ applied \in Settings
    BY DEF Settings
  <2>2. direct \in Seq(Configs) /\ synced \in Seq(Settings) /\ threads \in Seq(Job)
    OBVIOUS
  <2>3. lock \in 0 .. Len(threads) /\ payload \in 0 .. 1
    BY <1>1
  <2>4. pushes \in 0 .. MaxPushes /\ upsets \in 0 .. MaxUpsets
    OBVIOUS
  <2>5. unheard \in BOOLEAN /\ diskLow \in BOOLEAN
    OBVIOUS
  <2> QED  BY <2>1, <2>2, <2>3, <2>4, <2>5 DEF LoggerTyped
<1>3. RowsAreRead /\ NoStrayThread
  BY <1>1 DEF RowsAreRead, NoStrayThread
<1>4. QueuesLead
  BY DEF QueuesLead, ConfigAgrees
<1> QED  BY <1>2, <1>3, <1>4 DEF LoggerInv

LEMMA LoggerNextInv == LoggerInv /\ [LoggerNext]_loggerVars => LoggerInv'
<1> SUFFICES ASSUME LoggerInv, [LoggerNext]_loggerVars PROVE LoggerInv'
  OBVIOUS
<1>1. CASE ManagerStarts
  <2>1. synced' = <<pushed>> /\ pushed \in Settings /\ unheard' = FALSE /\ direct = <<>>
    BY <1>1 DEF ManagerStarts, LoggerInv, LoggerTyped, QueuesLead
  <2>2. synced' \in Seq(Settings) /\ Len(synced') = 1 /\ synced'[1] = pushed /\ synced' # <<>>
    BY <2>1
  <2>3. UNCHANGED <<pushed, direct, applied, task, threads, payload, lock, diskLow, pushes, upsets>>
    BY <1>1 DEF ManagerStarts
  <2>4. LoggerTyped'
    <3>1. unheard' \in BOOLEAN
      BY <2>1
    <3> QED  BY <2>2, <2>3, <3>1 DEF LoggerInv, LoggerTyped
  <2>5. QueuesLead'
    BY <2>1, <2>2, <2>3 DEF QueuesLead, ConfigAgrees
  <2> QED  BY <2>3, <2>4, <2>5 DEF LoggerInv, RowsAreRead, NoStrayThread, Numbers
<1>2. CASE Push
  <2>1. PICK c \in Configs : pushed' = c /\ direct' = Append(direct, c) /\ synced' = Append(synced, c)
    BY <1>2 DEF Push
  <2>2. /\ unheard' = FALSE /\ pushes < MaxPushes /\ pushes' = pushes + 1
        /\ UNCHANGED <<applied, task, threads, payload, lock, diskLow, upsets>>
    BY <1>2 DEF Push
  <2>3. c \in Settings /\ direct \in Seq(Configs) /\ synced \in Seq(Settings)
    BY DEF Settings, LoggerInv, LoggerTyped
  <2>4. direct' \in Seq(Configs) /\ direct' # <<>> /\ direct'[Len(direct')] = c
    BY <2>1, <2>3, AppendProperties
  <2>5. synced' \in Seq(Settings) /\ synced' # <<>> /\ synced'[Len(synced')] = c
    BY <2>1, <2>3, AppendProperties
  <2>6. pushes' \in 0 .. MaxPushes
    BY <2>2, ConfigsAssumption DEF LoggerInv, LoggerTyped
  <2>7. unheard' \in BOOLEAN
    BY <2>2
  <2>8. LoggerTyped'
    BY <2>1, <2>2, <2>3, <2>4, <2>5, <2>6, <2>7 DEF LoggerInv, LoggerTyped
  <2>9. QueuesLead'
    BY <2>1, <2>2, <2>4, <2>5 DEF QueuesLead, ConfigAgrees
  <2> QED  BY <2>2, <2>8, <2>9 DEF LoggerInv, RowsAreRead, NoStrayThread, Numbers
<1>3. CASE HearDirect \/ HearSync
  BY <1>3, HearKeeps
<1>4. CASE Receive
  <2>1. /\ lock = 0 /\ payload' = 1 - payload
        /\ UNCHANGED <<pushed, direct, synced, applied, task, threads, unheard, lock,
                       diskLow, pushes, upsets>>
    BY <1>4 DEF Receive
  <2>2. payload' \in 0 .. 1
    BY <2>1 DEF LoggerInv, LoggerTyped
  <2>3. \A n \in Numbers : Len(threads[n].row) # 1
    BY <2>1 DEF LoggerInv, RowsAreRead, Numbers
  <2> QED  BY <2>1, <2>2, <2>3
           DEF LoggerInv, LoggerTyped, RowsAreRead, NoStrayThread, QueuesLead, ConfigAgrees, Numbers
<1>5. CASE \E n \in Numbers : ThreadStep(n) \/ CsvCloses(n)
  BY <1>5, ThreadKeeps
<1>6. CASE DiskChanges
  <2>1. /\ upsets < MaxUpsets /\ upsets' = upsets + 1 /\ diskLow' = ~diskLow
        /\ UNCHANGED <<pushed, direct, synced, applied, task, threads, unheard, payload,
                       lock, pushes>>
    BY <1>6 DEF DiskChanges
  <2>2. upsets' \in 0 .. MaxUpsets
    BY <2>1, ConfigsAssumption DEF LoggerInv, LoggerTyped
  <2>3. diskLow' \in BOOLEAN
    BY <2>1
  <2> QED  BY <2>1, <2>2, <2>3
           DEF LoggerInv, LoggerTyped, RowsAreRead, NoStrayThread, QueuesLead, ConfigAgrees, Numbers
<1>7. CASE LoggerRestarts
  <2>1. /\ upsets < MaxUpsets /\ upsets' = upsets + 1
        /\ direct' = <<>> /\ synced' = <<>> /\ applied' = Empty /\ threads' = <<>>
        /\ payload' = 0 /\ lock' = 0 /\ unheard' = TRUE
        /\ UNCHANGED <<pushed, diskLow, pushes>>
    BY <1>7 DEF LoggerRestarts
  <2>2. upsets' \in 0 .. MaxUpsets
    BY <2>1, ConfigsAssumption DEF LoggerInv, LoggerTyped
  <2>3. direct' \in Seq(Configs) /\ synced' \in Seq(Settings) /\ threads' \in Seq(Job)
        /\ applied' \in Settings
    BY <2>1 DEF Settings
  <2>4. lock' \in 0 .. Len(threads') /\ payload' \in 0 .. 1 /\ Numbers' = {}
    BY <2>1 DEF Numbers
  <2>5. unheard' \in BOOLEAN
    BY <2>1
  <2>6. LoggerTyped'
    BY <2>1, <2>2, <2>3, <2>4, <2>5 DEF LoggerInv, LoggerTyped
  <2>7. RowsAreRead' /\ NoStrayThread'
    BY <2>4 DEF RowsAreRead, NoStrayThread
  <2>8. QueuesLead'
    BY <2>1 DEF QueuesLead, ConfigAgrees
  <2> QED  BY <2>6, <2>7, <2>8 DEF LoggerInv
<1>8. CASE UNCHANGED loggerVars
  BY <1>8 DEF loggerVars, LoggerInv, LoggerTyped, RowsAreRead, NoStrayThread, QueuesLead,
              ConfigAgrees, Numbers
<1> QED  BY <1>1, <1>2, <1>3, <1>4, <1>5, <1>6, <1>7, <1>8 DEF LoggerNext

LEMMA LoggerMeansWell == LoggerInv => LoggerTypeOK /\ LoggerFollows
<1> SUFFICES ASSUME LoggerInv PROVE LoggerTypeOK /\ LoggerFollows
  OBVIOUS
<1>1. \A n \in Numbers : threads[n] \in Job
  BY DEF LoggerInv, LoggerTyped, Numbers
<1>2. \A n \in Numbers :
        /\ threads[n].task \in Tasks /\ threads[n].stop \in BOOLEAN
        /\ threads[n].stage \in {"closed", "open", "ended"}
        /\ Len(threads[n].row) = 1 <=> lock = n
  BY <1>1 DEF Job, LoggerInv, RowsAreRead
<1>3. LoggerTypeOK
  BY <1>2 DEF LoggerInv, LoggerTyped, LoggerTypeOK, Settings
<1> QED  BY <1>3 DEF LoggerInv, LoggerFollows, QueuesLead, RowsAreRead, RowIsOneSnapshot

-----------------------------------------------------------------------------
(* The tiles: only one handler holds the event loop, and what it leaves at    *)
(* the tile's path is whole.                                                  *)
TileInv == TileTypeOK /\ TilesAreWhole

LEMMA TileInitInv == TileInit => TileInv
<1> SUFFICES ASSUME TileInit PROVE TileInv
  OBVIOUS
<1>1. /\ tile = "none" /\ scratch = "none" /\ running = "nobody" /\ deaths = 0
      /\ asking = [r \in Requests |-> "idle"] /\ answer = [r \in Requests |-> "none"]
  BY DEF TileInit
<1>2. \A r \in Requests : asking[r] \in {"writing", "moving"} <=> running = r
  BY <1>1, TileAssumption
<1>3. deaths \in 0 .. MaxDeaths
  BY <1>1, TileAssumption
<1> QED  BY <1>1, <1>2, <1>3 DEF TileInv, TileTypeOK, TilesAreWhole

(* One request moves from stage to stage, alone at the event loop.            *)
LEMMA RequestKeeps ==
    ASSUME TileInv, NEW r \in Requests,
           \/ GetTile(r) \/ SendFile(r) \/ FetchFails(r) \/ Fetched(r)
           \/ BeginWrite(r) \/ Move(r) \/ WriteFails(r)
    PROVE  TileInv'
<1> USE DEF TileInv, TileTypeOK, TilesAreWhole
<1>1. \A q \in Requests : running = "nobody" => asking[q] \notin {"writing", "moving"}
  BY TileAssumption
<1>2. \A q \in Requests : running = r /\ q # r => asking[q] \notin {"writing", "moving"}
  OBVIOUS
<1>3. CASE GetTile(r)
  BY <1>1, <1>3, TileAssumption DEF GetTile
<1>4. CASE SendFile(r)
  BY <1>1, <1>4, TileAssumption DEF SendFile
<1>5. CASE FetchFails(r)
  BY <1>1, <1>5, TileAssumption DEF FetchFails
<1>6. CASE Fetched(r)
  BY <1>1, <1>6, TileAssumption DEF Fetched
<1>7. CASE BeginWrite(r)
  BY <1>2, <1>7, TileAssumption DEF BeginWrite
<1>8. CASE Move(r)
  BY <1>2, <1>8, TileAssumption DEF Move, Answered
<1>9. CASE WriteFails(r)
  BY <1>2, <1>9, TileAssumption DEF WriteFails, Answered
<1> QED  BY <1>3, <1>4, <1>5, <1>6, <1>7, <1>8, <1>9

LEMMA TileNextInv == TileInv /\ [TileNext]_tileVars => TileInv'
<1> SUFFICES ASSUME TileInv, [TileNext]_tileVars PROVE TileInv'
  OBVIOUS
<1>1. CASE \E r \in Requests : \/ GetTile(r) \/ SendFile(r) \/ FetchFails(r) \/ Fetched(r)
                               \/ BeginWrite(r) \/ Move(r) \/ WriteFails(r)
  BY <1>1, RequestKeeps
<1>2. CASE ClearTiles
  BY <1>2 DEF ClearTiles, TileInv, TileTypeOK, TilesAreWhole
<1>3. CASE ServerDies
  <2>1. /\ asking' = [r \in Requests |-> "idle"] /\ answer' = [r \in Requests |-> "none"]
        /\ running' = "nobody" /\ tile' = tile /\ scratch' = scratch
    BY <1>3 DEF ServerDies
  <2>2. deaths' \in 0 .. MaxDeaths
    BY <1>3, TileAssumption DEF ServerDies, TileInv, TileTypeOK
  <2>3. \A r \in Requests : asking'[r] \in {"writing", "moving"} <=> running' = r
    BY <2>1, TileAssumption
  <2> QED  BY <2>1, <2>2, <2>3 DEF TileInv, TileTypeOK, TilesAreWhole
<1>4. CASE UNCHANGED tileVars
  BY <1>4 DEF tileVars, TileInv, TileTypeOK, TilesAreWhole
<1> QED  BY <1>1, <1>2, <1>3, <1>4 DEF TileNext

-----------------------------------------------------------------------------
(* The log viewer: what is shown of a log that rests is the end of the        *)
(* server's buffer, and the file is never read beyond its lines.              *)
AppLogInv ==
    /\ AppLogTypeOK /\ oldest <= newest + 1
    /\ undisturbed => Len(shown) <= Len(Buffered)
    /\ PagesMeet /\ ButtonTellsTheTruth

LEMMA BufferedLines ==
    ASSUME newest \in Nat, oldest \in Nat \ {0}, oldest <= newest + 1
    PROVE  Buffered \in Seq(1 .. newest) /\ Len(Buffered) \in Nat
<1> DEFINE least == IF newest - oldest + 1 > Buffer THEN newest - Buffer + 1 ELSE oldest
           size == newest - least + 1
<1>1. Buffer \in Nat \ {0}
  BY AppLogAssumption
<1>2. least \in Nat \ {0} /\ size \in Nat
  BY <1>1
<1>3. Buffered = [k \in 1 .. size |-> least + k - 1]
  BY DEF Buffered
<1>4. \A k \in 1 .. size : least + k - 1 \in 1 .. newest
  BY <1>2
<1> HIDE DEF least, size
<1>5. Buffered \in [1 .. size -> 1 .. newest]
  BY <1>3, <1>4
<1> QED  BY <1>2, <1>5

LEMMA MaxOfTwo ==
    ASSUME NEW a \in Int, NEW b \in Int
    PROVE  Max({a, b}) = IF a >= b THEN a ELSE b
BY DEF Max

(* A page for a viewer that shows offset lines.                               *)
LEMMA PageLines ==
    ASSUME newest \in Nat, oldest \in Nat \ {0}, oldest <= newest + 1, NEW offset \in Nat
    PROVE  /\ Page(offset) \in Seq(1 .. newest)
           /\ PageStart(offset) \in Nat
           /\ PageStart(offset) = IF PageEnd(offset) >= PageSize THEN PageEnd(offset) - PageSize ELSE 0
           /\ PageEnd(offset) = Len(Buffered) - offset
           /\ offset <= Len(Buffered) =>
                /\ PageStart(offset) <= PageEnd(offset)
                /\ Page(offset) = SubSeq(Buffered, PageStart(offset) + 1, PageEnd(offset))
<1> DEFINE end == PageEnd(offset)
           start0 == PageStart(offset)
           last == IF end < 0 THEN Len(Buffered) + end ELSE end
<1>1. Buffered \in Seq(1 .. newest) /\ Len(Buffered) \in Nat /\ PageSize \in Nat \ {0}
  BY BufferedLines, AppLogAssumption
<1>2. end \in Int /\ end = Len(Buffered) - offset /\ end <= Len(Buffered)
  BY <1>1 DEF PageEnd
<1>3. start0 = (IF end >= PageSize THEN end - PageSize ELSE 0) /\ start0 \in Nat
  <2>1. start0 = IF 0 >= end - PageSize THEN 0 ELSE end - PageSize
    BY <1>1, <1>2, MaxOfTwo DEF PageStart
  <2> QED  BY <1>1, <1>2, <2>1
<1>4. Page(offset) = SubSeq(Buffered, start0 + 1, last)
  BY DEF Page, Slice
<1>5. last \in Int /\ last <= Len(Buffered)
  BY <1>1, <1>2
<1> HIDE DEF start0, last, end
<1>6. \A k \in start0 + 1 .. last : Buffered[k] \in 1 .. newest
  BY <1>1, <1>3, <1>5
<1>7. SubSeq(Buffered, start0 + 1, last) \in Seq(1 .. newest)
  <2>1. start0 + 1 \in Int
    BY <1>3
  <2> QED  BY <1>5, <1>6, <2>1, SubSeqProperties
<1>8. offset <= Len(Buffered) => start0 <= end /\ last = end
  BY <1>1, <1>2, <1>3 DEF last
<1> QED  BY <1>2, <1>3, <1>4, <1>7, <1>8 DEF start0, end

LEMMA RefreshKeeps ==
    ASSUME AppLogInv, RefreshLog
    PROVE  AppLogInv'
<1> DEFINE L == Len(Buffered)
           first == PageStart(0)
<1>1. /\ shown' = Page(0) /\ more' = (first > 0) /\ undisturbed' = TRUE
      /\ UNCHANGED <<oldest, newest>>
  BY DEF RefreshLog, HasMore
<1>2. newest \in Nat /\ oldest \in Nat \ {0} /\ oldest <= newest + 1
  BY AppLogAssumption DEF AppLogInv, AppLogTypeOK
<1>3. Buffered \in Seq(1 .. newest) /\ L \in Nat /\ Buffered' = Buffered
  BY <1>1, <1>2, BufferedLines DEF Buffered
<1>4. /\ Page(0) \in Seq(1 .. newest) /\ first \in Nat /\ PageEnd(0) = L - 0
      /\ first <= PageEnd(0) /\ Page(0) = SubSeq(Buffered, first + 1, PageEnd(0))
  <2>1. 0 \in Nat /\ 0 <= Len(Buffered)
    BY <1>3
  <2> QED  BY <1>2, <2>1, PageLines
<1>5. first <= L /\ Page(0) = SubSeq(Buffered, first + 1, L)
  BY <1>3, <1>4
<1> HIDE DEF first, L
<1>6. Len(Page(0)) = L - first
  <2>1. \A k \in first + 1 .. L : Buffered[k] \in 1 .. newest
    <3>1. \A k \in first + 1 .. L : k \in 1 .. L
      BY <1>3, <1>4
    <3> QED  BY <1>3, <3>1, ElementOfSeq DEF L
  <2>2. first + 1 \in Int /\ L \in Int
    BY <1>3, <1>4
  <2>3. Len(SubSeq(Buffered, first + 1, L)) = IF first + 1 <= L THEN L - (first + 1) + 1 ELSE 0
    BY <2>1, <2>2, SubSeqProperties
  <2> QED  BY <1>3, <1>4, <1>5, <2>3
<1>7. Len(shown') = L - first /\ Len(Buffered') = L
  BY <1>1, <1>3, <1>6 DEF L
<1>8. AppLogTypeOK'
  BY <1>1, <1>4 DEF AppLogInv, AppLogTypeOK
<1>9. PagesMeet' /\ ButtonTellsTheTruth' /\ Len(shown') <= Len(Buffered')
  <2>1. L - (L - first) + 1 = first + 1 /\ L - first <= L /\ (first > 0 <=> L - first < L)
    BY <1>3, <1>4, <1>5
  <2> QED  BY <1>1, <1>3, <1>5, <1>7, <2>1 DEF PagesMeet, ButtonTellsTheTruth
<1> QED  BY <1>1, <1>2, <1>8, <1>9 DEF AppLogInv

LEMMA LoadMoreKeeps ==
    ASSUME AppLogInv, LoadMore
    PROVE  AppLogInv'
<1> DEFINE L == Len(Buffered)
           k == Len(shown)
           first == PageStart(k)
<1>1. /\ more /\ shown' = Page(k) \o shown /\ more' = (first > 0)
      /\ UNCHANGED <<oldest, newest, undisturbed>>
  BY DEF LoadMore, HasMore
<1>2. /\ newest \in Nat /\ oldest \in Nat \ {0} /\ oldest <= newest + 1
      /\ shown \in Seq(1 .. newest) /\ k \in Nat
  BY AppLogAssumption DEF AppLogInv, AppLogTypeOK
<1>3. Buffered \in Seq(1 .. newest) /\ L \in Nat /\ Buffered' = Buffered
  BY <1>1, <1>2, BufferedLines DEF Buffered
<1>4. /\ Page(k) \in Seq(1 .. newest) /\ first \in Nat /\ PageEnd(k) = L - k
      /\ k <= L => /\ first <= PageEnd(k)
                   /\ Page(k) = SubSeq(Buffered, first + 1, PageEnd(k))
  BY <1>2, <1>3, PageLines
<1> HIDE DEF first, L, k
<1>5. Page(k) \o shown \in Seq(1 .. newest)
  BY <1>2, <1>4, ConcatProperties
<1>6. AppLogTypeOK'
  BY <1>1, <1>5 DEF AppLogInv, AppLogTypeOK
<1>7. CASE ~undisturbed
  BY <1>1, <1>2, <1>6, <1>7 DEF AppLogInv, PagesMeet, ButtonTellsTheTruth
<1>8. CASE undisturbed
  <2>1. k < L /\ shown = SubSeq(Buffered, (L - k) + 1, L)
    BY <1>1, <1>8 DEF AppLogInv, PagesMeet, ButtonTellsTheTruth, L, k
  <2>2. first <= L - k /\ Page(k) = SubSeq(Buffered, first + 1, L - k)
    BY <1>2, <1>3, <1>4, <2>1
  <2>3. /\ first + 1 \in 1 .. L + 1 /\ L - k \in (first + 1) - 1 .. L /\ L \in L - k .. L
    BY <1>2, <1>3, <1>4, <2>1, <2>2
  <2>4. shown' = SubSeq(Buffered, first + 1, L)
    BY <1>1, <1>3, <2>1, <2>2, <2>3, ConcatAdjacentSubSeq DEF L
  <2>5. \A n \in first + 1 .. L : Buffered[n] \in 1 .. newest
    <3>1. \A n \in first + 1 .. L : n \in 1 .. L
      BY <1>3, <1>4
    <3> QED  BY <1>3, <3>1, ElementOfSeq DEF L
  <2>6. first + 1 \in Int /\ L \in Int
    BY <1>3, <1>4
  <2>7. Len(SubSeq(Buffered, first + 1, L)) = IF first + 1 <= L THEN L - (first + 1) + 1 ELSE 0
    BY <2>5, <2>6, SubSeqProperties
  <2>8. Len(shown') = L - first /\ Len(Buffered') = L
    BY <1>2, <1>3, <1>4, <2>2, <2>4, <2>7 DEF L
  <2>9. L - (L - first) + 1 = first + 1 /\ L - first <= L /\ (first > 0 <=> L - first < L)
    BY <1>3, <1>4
  <2>10. PagesMeet' /\ ButtonTellsTheTruth' /\ Len(shown') <= Len(Buffered')
    BY <1>1, <1>3, <2>4, <2>8, <2>9 DEF PagesMeet, ButtonTellsTheTruth
  <2> QED  BY <1>1, <1>2, <1>6, <2>10 DEF AppLogInv
<1> QED  BY <1>7, <1>8

LEMMA AppLogInitInv == AppLogInit => AppLogInv
<1> SUFFICES ASSUME AppLogInit PROVE AppLogInv
  OBVIOUS
<1>1. /\ oldest = 1 /\ newest \in 0 .. MaxLines /\ shown = <<>>
      /\ more = FALSE /\ undisturbed = FALSE
  BY DEF AppLogInit
<1>2. oldest \in 1 .. MaxLines + 1 /\ oldest <= newest + 1
  BY <1>1, AppLogAssumption
<1>3. shown \in Seq(1 .. newest)
  BY <1>1
<1>4. more \in BOOLEAN /\ undisturbed \in BOOLEAN
  BY <1>1
<1> QED  BY <1>1, <1>2, <1>3, <1>4 DEF AppLogInv, AppLogTypeOK, PagesMeet, ButtonTellsTheTruth

LEMMA AppLogNextInv == AppLogInv /\ [AppLogNext]_appLogVars => AppLogInv'
<1> SUFFICES ASSUME AppLogInv, [AppLogNext]_appLogVars PROVE AppLogInv'
  OBVIOUS
<1>0. newest \in 0 .. MaxLines /\ oldest \in 1 .. MaxLines + 1 /\ MaxLines \in Nat
      /\ oldest <= newest + 1 /\ shown \in Seq(1 .. newest) /\ more \in BOOLEAN
  BY AppLogAssumption DEF AppLogInv, AppLogTypeOK
<1>1. CASE RefreshLog
  BY <1>1, RefreshKeeps
<1>2. CASE LoadMore
  BY <1>2, LoadMoreKeeps
<1>3. CASE WriteLine
  <2>1. newest < MaxLines /\ newest' = newest + 1 /\ undisturbed' = FALSE
        /\ UNCHANGED <<oldest, shown, more>>
    BY <1>3 DEF WriteLine
  <2>2. newest' \in 0 .. MaxLines /\ oldest <= newest' + 1 /\ 1 .. newest \subseteq 1 .. newest'
    BY <1>0, <2>1
  <2>3. shown \in Seq(1 .. newest')
    BY <1>0, <2>2, SeqMonotonic
  <2>4. undisturbed' \in BOOLEAN
    BY <2>1
  <2> QED  BY <1>0, <2>1, <2>2, <2>3, <2>4 DEF AppLogInv, AppLogTypeOK, PagesMeet, ButtonTellsTheTruth
<1>4. CASE RotateLog
  <2>1. newest >= oldest /\ oldest' = newest + 1 /\ undisturbed' = FALSE
        /\ UNCHANGED <<newest, shown, more>>
    BY <1>4 DEF RotateLog
  <2>2. oldest' \in 1 .. MaxLines + 1 /\ oldest' <= newest + 1
    BY <1>0, <2>1
  <2>3. undisturbed' \in BOOLEAN
    BY <2>1
  <2> QED  BY <1>0, <2>1, <2>2, <2>3 DEF AppLogInv, AppLogTypeOK, PagesMeet, ButtonTellsTheTruth
<1>5. CASE UNCHANGED appLogVars
  BY <1>5 DEF appLogVars, AppLogInv, AppLogTypeOK, PagesMeet, ButtonTellsTheTruth, Buffered
<1> QED  BY <1>1, <1>2, <1>3, <1>4, <1>5 DEF AppLogNext

-----------------------------------------------------------------------------
(* The static simulation.                                                     *)
Cruising == completion \in {"loop", "loop_reverse"}
First == IF start = "last_wp" THEN Reverse(Forward) ELSE Forward

(* Of the rows: they are from steps done; before the first completion they    *)
(* are of the way, the row of the completion is of the end.                   *)
RowsAreOrdered ==
    \A k \in DOMAIN samples :
        /\ samples[k].step < i
        /\ samples[k].step < completeTime => samples[k].at = "way"
        /\ samples[k].step = completeTime => samples[k].at = "end"

(* While a run goes on there is a row for each Decimation-th step begun.      *)
RowsKeepUp ==
    /\ \A k \in DOMAIN samples : samples[k].step = (k - 1) * Decimation
    /\ (Len(samples) - 1) * Decimation < i /\ i <= Len(samples) * Decimation

Arrived == finished /\ completion = "one_way" /\ done
Sample == [step : Nat, leg : Nat, at : {"way", "end"}]

(* Completions and laps are counted together, and a one-way run ends with its *)
(* first one.                                                                 *)
Completions ==
    /\ completeTime # Never <=> (done \/ laps > 0)
    /\ completeTime # Never => completeTime < i
    /\ laps <= i /\ (~Cruising => laps = 0)
    /\ completion = "one_way" /\ done => finished

StaticInv ==
    /\ StaticTypeOK /\ samples \in Seq(Sample)
    /\ LapsAlternate /\ Completions /\ RowsAreOrdered
    /\ ~Arrived => RowsKeepUp
    /\ RowsAreSteady

LEMMA ReverseTwice ==
    ASSUME NEW S, NEW s \in Seq(S)
    PROVE  Reverse(s) \in Seq(S) /\ Reverse(Reverse(s)) = s
<1>1. Len(s) \in Nat
  OBVIOUS
<1>2. ASSUME NEW t \in Seq(S), Len(t) = Len(s)
      PROVE  /\ Reverse(t) \in Seq(S) /\ Len(Reverse(t)) = Len(s)
             /\ \A k \in 1 .. Len(s) : Reverse(t)[k] = t[(Len(s) - k) + 1]
  <2>1. Reverse(t) = [k \in 1 .. Len(s) |-> t[(Len(s) - k) + 1]]
    BY <1>2 DEF Reverse
  <2>2. \A k \in 1 .. Len(s) : t[(Len(s) - k) + 1] \in S
    BY <1>1, <1>2
  <2>3. Reverse(t) \in [1 .. Len(s) -> S]
    BY <2>1, <2>2
  <2> QED  BY <1>1, <2>1, <2>3
<1>3. /\ Reverse(s) \in Seq(S) /\ Len(Reverse(s)) = Len(s)
      /\ \A k \in 1 .. Len(s) : Reverse(s)[k] = s[(Len(s) - k) + 1]
  BY <1>2
<1>4. /\ Reverse(Reverse(s)) \in Seq(S) /\ Len(Reverse(Reverse(s))) = Len(s)
      /\ \A k \in 1 .. Len(s) : Reverse(Reverse(s))[k] = Reverse(s)[(Len(s) - k) + 1]
  BY <1>2, <1>3
<1>5. \A k \in 1 .. Len(s) : Reverse(Reverse(s))[k] = s[k]
  <2> SUFFICES ASSUME NEW k \in 1 .. Len(s) PROVE Reverse(Reverse(s))[k] = s[k]
    OBVIOUS
  <2>1. (Len(s) - k) + 1 \in 1 .. Len(s) /\ (Len(s) - ((Len(s) - k) + 1)) + 1 = k
    BY <1>1
  <2> QED  BY <1>3, <1>4, <2>1
<1> QED  BY <1>3, <1>4, <1>5, SeqEqual

(* Of the steps since the last row the Decimation-th is a multiple of it.     *)
LEMMA StepIsLogged ==
    ASSUME NEW D \in Nat \ {0}, NEW m \in Nat, NEW n \in Nat,
           (m - 1) * D < n, n <= m * D
    PROVE  n % D = 0 <=> n = m * D
<1>1. (m * D) % D = 0
  OBVIOUS
<1>2. CASE n # m * D
  <2>1. m # 0
    BY <1>2
  <2>2. m - 1 \in Nat
    BY <2>1
  <2>3. (m - 1) * D = m * D - D /\ m * D \in Nat /\ (m - 1) * D \in Nat
    BY <2>2
  <2> DEFINE k == m - 1
             r == n - k * D
  <2>4. r \in 1 .. D - 1
    BY <1>2, <2>3
  <2>5. n = k * D + r /\ k \in Nat
    BY <2>2, <2>3
  <2> HIDE DEF k, r
  <2>6. r \in 0 .. D - 1
    BY <2>4
  <2>7. (k * D + r) % D = r
    BY <2>5, <2>6
  <2> QED  BY <1>2, <2>4, <2>5, <2>7
<1> QED  BY <1>1, <1>2

LEMMA Routes == /\ Forward \in Seq(Nat) /\ Reverse(Forward) \in Seq(Nat)
                /\ Reverse(Reverse(Forward)) = Forward
<1>1. Waypoints \in Nat
  BY StaticSimAssumption
<1>2. Forward \in [1 .. Waypoints -> Nat]
  BY DEF Forward
<1>3. Forward \in Seq(Nat)
  BY <1>1, <1>2
<1> QED  BY <1>3, ReverseTwice

LEMMA MinOfTwo ==
    ASSUME NEW a \in Int, NEW b \in Int
    PROVE  Min({a, b}) = IF a <= b THEN a ELSE b
BY DEF Min

(* What a step does: it may end the route, restart it, and log a row.         *)
LEMMA StepParts ==
    ASSUME StaticInv, NEW hits \in 0 .. Waypoints - 1, Step(hits)
    PROVE  /\ i \in Nat /\ i < Steps /\ ~finished /\ i' = i + 1 /\ Steps \in Nat
           /\ completion' = completion /\ start' = start
           /\ finished' \in BOOLEAN /\ (finished' <=> StopsEarly(hits) \/ i + 1 = Steps)
           /\ Leg(hits) \in 1 .. Waypoints - 1 /\ Row(hits) \in Sample
           /\ Row(hits).step = i /\ (Row(hits).at = "end" <=> Reached(hits))
           /\ Reached(hits) \in BOOLEAN /\ (done => Reached(hits))
<1>1. /\ i \in 0 .. Steps /\ Steps \in Nat /\ Waypoints \in Nat \ {0, 1}
      /\ leg \in 1 .. Waypoints - 1 /\ done \in BOOLEAN
  BY StaticSimAssumption DEF StaticInv, StaticTypeOK
<1>2. /\ i < Steps /\ ~finished /\ i' = i + 1 /\ completion' = completion /\ start' = start
      /\ finished' = (StopsEarly(hits) \/ i + 1 = Steps)
  BY DEF Step
<1>3. Leg(hits) \in 1 .. Waypoints - 1
  <2>1. CASE done
    BY <1>1, <2>1 DEF Leg
  <2>2. CASE ~done
    <3>1. Leg(hits) = IF leg + hits <= Waypoints - 1 THEN leg + hits ELSE Waypoints - 1
      BY <1>1, <2>2, MinOfTwo DEF Leg
    <3> QED  BY <1>1, <3>1
  <2> QED  BY <2>1, <2>2
<1>4. Reached(hits) \in BOOLEAN /\ (done => Reached(hits))
  BY <1>1 DEF Reached
<1>5. i \in Nat /\ Leg(hits) \in Nat
  BY <1>1, <1>3
<1>6. /\ Row(hits) \in Sample /\ Row(hits).step = i /\ (Row(hits).at = "end" <=> Reached(hits))
  BY <1>5 DEF Row, Sample
<1>7. finished' \in BOOLEAN /\ (finished' <=> StopsEarly(hits) \/ i + 1 = Steps)
  BY <1>2 DEF StopsEarly
<1> QED  BY <1>1, <1>2, <1>3, <1>4, <1>5, <1>6, <1>7

LEMMA StepRoute ==
    ASSUME StaticInv, NEW hits \in 0 .. Waypoints - 1, Step(hits)
    PROVE  /\ StaticTypeOK' /\ LapsAlternate' /\ Completions'
           /\ completeTime' = IF Reached(hits) /\ completeTime = Never THEN i ELSE completeTime
<1>1. /\ i \in Nat /\ i < Steps /\ ~finished /\ i' = i + 1 /\ Steps \in Nat
      /\ completion' = completion /\ start' = start
      /\ finished' \in BOOLEAN /\ (finished' <=> StopsEarly(hits) \/ i + 1 = Steps)
      /\ Leg(hits) \in 1 .. Waypoints - 1
      /\ Reached(hits) \in BOOLEAN /\ (done => Reached(hits))
  BY StepParts
<1>2. /\ completion \in CompletionModes /\ start \in StartModes
      /\ route \in {Forward, Reverse(Forward)} /\ done \in BOOLEAN
      /\ completeTime \in 0 .. Steps /\ laps \in 0 .. Steps
      /\ Cruising => ~done
  BY DEF StaticInv, StaticTypeOK, Cruising
<1>3. Completions
  BY DEF StaticInv
<1>4. completeTime' = IF Reached(hits) /\ completeTime = Never THEN i ELSE completeTime
  BY DEF Step
<1>5. completeTime' \in 0 .. Steps /\ (completeTime' # Never => completeTime' < i')
  BY <1>1, <1>2, <1>3, <1>4 DEF Completions, Never
<1>6. completeTime' # Never <=> (completeTime # Never \/ Reached(hits))
  BY <1>1, <1>4 DEF Never
<1>7. Waypoints \in Nat \ {0, 1} /\ 1 \in 1 .. Waypoints - 1
  BY StaticSimAssumption
<1>8. CASE Restarts(hits)
  <2>1. /\ route' = (IF completion = "loop_reverse" THEN Reverse(route) ELSE route)
        /\ leg' = 1 /\ done' = FALSE /\ laps' = laps + 1
    BY <1>8 DEF Step, Restart
  <2>2. Reached(hits) /\ Cruising /\ completion # "one_way"
    BY <1>8 DEF Restarts, Cruising
  <2>3. laps' \in 0 .. Steps /\ laps' <= i' /\ laps' > 0
    BY <1>1, <1>2, <1>3, <2>1 DEF Completions
  <2>4. route' \in {Forward, Reverse(Forward)}
    BY <1>2, <2>1, Routes
  <2>5. i' \in 0 .. Steps
    BY <1>1
  <2>6. done' \in BOOLEAN
    BY <2>1
  <2>7. StaticTypeOK'
    BY <1>1, <1>2, <1>5, <1>7, <2>1, <2>3, <2>4, <2>5, <2>6 DEF StaticTypeOK
  <2>8. Completions'
    BY <1>1, <1>5, <1>6, <2>1, <2>2, <2>3 DEF Completions, Cruising
  <2>9. laps % 2 = 1 <=> laps' % 2 # 1
    BY <1>2, <2>1
  <2>10. LapsAlternate'
    BY <1>1, <1>2, <2>1, <2>9, Routes DEF StaticInv, LapsAlternate
  <2> QED  BY <1>4, <2>7, <2>8, <2>10
<1>9. CASE ~Restarts(hits)
  <2>1. leg' = Leg(hits) /\ done' = Reached(hits) /\ route' = route /\ laps' = laps
    BY <1>9 DEF Step, Restart
  <2>2. Cruising => ~Reached(hits)
    BY <1>9 DEF Restarts, Cruising
  <2>3. i' \in 0 .. Steps /\ laps <= i'
    BY <1>1, <1>2, <1>3 DEF Completions
  <2>4. StaticTypeOK'
    BY <1>1, <1>2, <1>5, <2>1, <2>2, <2>3 DEF StaticTypeOK, Cruising
  <2>5. completion = "one_way" /\ done' => finished'
    BY <1>1, <2>1 DEF StopsEarly
  <2>6. completeTime' # Never <=> (done' \/ laps' > 0)
    BY <1>1, <1>3, <1>6, <2>1 DEF Completions
  <2>7. Completions'
    BY <1>1, <1>3, <1>5, <2>1, <2>3, <2>5, <2>6 DEF Completions, Cruising
  <2>8. LapsAlternate'
    BY <1>1, <2>1 DEF StaticInv, LapsAlternate
  <2> QED  BY <1>4, <2>4, <2>7, <2>8
<1> QED  BY <1>8, <1>9

LEMMA StepRows ==
    ASSUME StaticInv, NEW hits \in 0 .. Waypoints - 1, Step(hits)
    PROVE  /\ samples' \in Seq(Sample) /\ RowsAreOrdered'
           /\ ~Arrived' => RowsKeepUp'
           /\ RowsAreSteady'
<1> DEFINE m == Len(samples)
           row == Row(hits)
<1>1. /\ i \in Nat /\ i < Steps /\ ~finished /\ i' = i + 1 /\ Steps \in Nat
      /\ completion' = completion
      /\ finished' \in BOOLEAN /\ (finished' <=> StopsEarly(hits) \/ i + 1 = Steps)
      /\ row \in Sample /\ row.step = i /\ (row.at = "end" <=> Reached(hits))
  BY StepParts
<1>2. completeTime' = IF Reached(hits) /\ completeTime = Never THEN i ELSE completeTime
  BY StepRoute
<1>3. /\ samples \in Seq(Sample) /\ m \in Nat /\ DOMAIN samples = 1 .. m
      /\ completeTime \in Nat /\ Completions /\ RowsAreOrdered
  BY DEF StaticInv, StaticTypeOK
<1>4. RowsKeepUp
  BY <1>1 DEF StaticInv, Arrived
<1>5. samples' = IF Logged(hits) THEN Append(samples, row) ELSE samples
  BY DEF Step
<1>6. Decimation \in Nat \ {0}
  BY StaticSimAssumption
<1> HIDE DEF m, row
<1>7. /\ Append(samples, row) \in Seq(Sample) /\ Len(Append(samples, row)) = m + 1
      /\ DOMAIN Append(samples, row) = 1 .. m + 1
      /\ \A k \in 1 .. m : Append(samples, row)[k] = samples[k]
      /\ Append(samples, row)[m + 1] = row
  BY <1>1, <1>3, AppendProperties DEF m
<1>8. samples' \in Seq(Sample)
  BY <1>3, <1>5, <1>7
<1>9. \A k \in 1 .. m : samples[k].step \in Nat /\ samples[k].step < i
  <2>1. \A k \in 1 .. m : samples[k] \in Sample
    BY <1>3, ElementOfSeq DEF m
  <2> QED  BY <1>3, <2>1 DEF RowsAreOrdered, Sample
<1>10. ASSUME NEW k \in DOMAIN samples'
       PROVE  \/ k \in 1 .. m /\ samples'[k] = samples[k]
              \/ k = m + 1 /\ Logged(hits) /\ samples'[k] = row /\ Len(samples') = m + 1
  BY <1>3, <1>5, <1>7
<1>11. ASSUME NEW k \in DOMAIN samples'
       PROVE  /\ samples'[k].step < i'
              /\ samples'[k].step < completeTime' => samples'[k].at = "way"
              /\ samples'[k].step = completeTime' => samples'[k].at = "end"
  <2>1. CASE k \in 1 .. m /\ samples'[k] = samples[k]
    <3>1. /\ samples[k].step < completeTime => samples[k].at = "way"
          /\ samples[k].step = completeTime => samples[k].at = "end"
      BY <1>3, <2>1 DEF RowsAreOrdered
    <3>2. samples[k].step \in Nat /\ samples[k].step < i
      BY <1>9, <2>1
    <3> QED  BY <1>1, <1>2, <1>3, <2>1, <3>1, <3>2 DEF Never
  <2>2. CASE samples'[k] = row
    <3>1. row.at = "way" \/ row.at = "end"
      BY <1>1 DEF Sample
    <3>2. completeTime # Never => completeTime < i
      BY <1>3 DEF Completions
    <3> QED  BY <1>1, <1>2, <1>3, <2>2, <3>1, <3>2 DEF Never
  <2> QED  BY <1>10, <2>1, <2>2
<1>12. RowsAreOrdered'
  BY <1>11 DEF RowsAreOrdered
<1>13. completion = "one_way" => done' = Reached(hits)
  BY DEF Step, Restart, Restarts
<1>14. CASE StopsEarly(hits)
  <2>1. completion = "one_way" /\ Reached(hits) /\ Logged(hits)
    BY <1>14 DEF StopsEarly, Logged
  <2>2. completeTime' = i
    <3>1. ~done /\ laps = 0
      BY <1>1, <1>3, <2>1 DEF Completions, Cruising
    <3>2. completeTime = Never
      BY <1>3, <3>1 DEF Completions
    <3> QED  BY <1>2, <2>1, <3>2
  <2>3. samples' = Append(samples, row) /\ Len(samples') = m + 1 /\ finished'
    BY <1>1, <1>5, <1>7, <1>14, <2>1
  <2>4. Arrived'
    BY <1>1, <1>13, <2>1, <2>3 DEF Arrived
  <2>5. ASSUME NEW k \in DOMAIN samples'
        PROVE  \/ samples'[k].step = (k - 1) * Decimation
               \/ (k = Len(samples') /\ finished' /\ completion' = "one_way"
                   /\ samples'[k].step = completeTime')
    <3>1. CASE k \in 1 .. m /\ samples'[k] = samples[k]
      BY <1>3, <1>4, <3>1 DEF RowsKeepUp
    <3>2. CASE k = m + 1 /\ samples'[k] = row
      BY <1>1, <2>1, <2>2, <2>3, <3>2
    <3> QED  BY <1>10, <3>1, <3>2
  <2>6. Last(samples').step = completeTime'
    BY <1>1, <1>7, <2>2, <2>3 DEF Last
  <2> QED  BY <1>8, <1>12, <2>4, <2>5, <2>6 DEF RowsAreSteady
<1>15. CASE ~StopsEarly(hits)
  <2>1. Logged(hits) <=> i = m * Decimation
    <3>1. (m - 1) * Decimation < i /\ i <= m * Decimation
      BY <1>4 DEF RowsKeepUp, m
    <3>2. i % Decimation = 0 <=> i = m * Decimation
      BY <1>1, <1>3, <1>6, <3>1, StepIsLogged
    <3> QED  BY <1>15, <3>2 DEF Logged
  <2>2. ~Arrived'
    BY <1>1, <1>13, <1>15 DEF Arrived, StopsEarly
  <2>3. ASSUME NEW k \in DOMAIN samples'
        PROVE  samples'[k].step = (k - 1) * Decimation
    <3>1. CASE k \in 1 .. m /\ samples'[k] = samples[k]
      BY <1>3, <1>4, <3>1 DEF RowsKeepUp
    <3>2. CASE k = m + 1 /\ Logged(hits) /\ samples'[k] = row
      <4>1. k - 1 = m
        BY <1>3, <3>2
      <4> QED  BY <1>1, <2>1, <3>2, <4>1
    <3> QED  BY <1>10, <3>1, <3>2
  <2>4. (Len(samples') - 1) * Decimation < i' /\ i' <= Len(samples') * Decimation
    <3>1. (m - 1) * Decimation < i /\ i <= m * Decimation
      BY <1>4 DEF RowsKeepUp, m
    <3>2. m * Decimation \in Nat /\ (m + 1) * Decimation = m * Decimation + Decimation
          /\ (m - 1) * Decimation = m * Decimation - Decimation
      BY <1>3, <1>6
    <3>3. CASE Logged(hits)
      <4>1. Len(samples') = m + 1 /\ (m + 1) - 1 = m
        BY <1>3, <1>5, <1>7, <3>3
      <4> QED  BY <1>1, <1>6, <2>1, <3>2, <3>3, <4>1
    <3>4. CASE ~Logged(hits)
      <4>1. Len(samples') = m
        BY <1>5, <3>4 DEF m
      <4>2. i # m * Decimation
        BY <2>1, <3>4
      <4>3. i < m * Decimation
        BY <1>1, <3>1, <3>2, <4>2
      <4>4. i + 1 <= m * Decimation
        BY <1>1, <3>2, <4>3
      <4>5. (m - 1) * Decimation \in Int
        BY <1>3, <1>6
      <4>6. (m - 1) * Decimation < i + 1
        BY <1>1, <3>1, <4>5
      <4> QED  BY <1>1, <4>1, <4>4, <4>6
    <3> QED  BY <3>3, <3>4
  <2>5. RowsKeepUp'
    BY <2>3, <2>4 DEF RowsKeepUp
  <2>6. RowsAreSteady'
    BY <2>2, <2>3 DEF RowsAreSteady, Arrived
  <2> QED  BY <1>8, <1>12, <2>5, <2>6
<1> QED  BY <1>14, <1>15

LEMMA StaticInitInv == StaticInit => StaticInv
<1> SUFFICES ASSUME StaticInit PROVE StaticInv
  OBVIOUS
<1>1. /\ completion \in CompletionModes /\ start \in StartModes
      /\ route = First /\ leg = 1 /\ done = FALSE /\ i = 0 /\ finished = FALSE
      /\ completeTime = Never /\ samples = <<>> /\ laps = 0
  BY DEF StaticInit, First
<1>2. Steps \in Nat /\ Waypoints \in Nat \ {0, 1} /\ Decimation \in Nat \ {0}
  BY StaticSimAssumption
<1>3. route \in {Forward, Reverse(Forward)}
  BY <1>1 DEF First
<1>4. /\ leg \in 1 .. Waypoints - 1 /\ i \in 0 .. Steps /\ completeTime \in 0 .. Steps
      /\ laps \in 0 .. Steps
  BY <1>1, <1>2 DEF Never
<1>5. done \in BOOLEAN /\ finished \in BOOLEAN
  BY <1>1
<1>6. StaticTypeOK
  BY <1>1, <1>3, <1>4, <1>5 DEF StaticTypeOK
<1>7. LapsAlternate
  <2>1. laps % 2 # 1
    BY <1>1
  <2> QED  BY <1>1, <2>1 DEF LapsAlternate, First
<1>8. Completions
  BY <1>1 DEF Completions
<1>9. samples \in Seq(Sample) /\ DOMAIN samples = {} /\ Len(samples) = 0
  BY <1>1
<1>10. RowsAreOrdered
  BY <1>9 DEF RowsAreOrdered
<1>11. RowsKeepUp
  <2>1. (0 - 1) * Decimation < 0 /\ 0 <= 0 * Decimation
    BY <1>2
  <2> QED  BY <1>1, <1>9, <2>1 DEF RowsKeepUp
<1>12. RowsAreSteady
  BY <1>1, <1>9 DEF RowsAreSteady
<1> QED  BY <1>6, <1>7, <1>8, <1>9, <1>10, <1>11, <1>12 DEF StaticInv

LEMMA StaticNextInv == StaticInv /\ [StaticNext]_staticVars => StaticInv'
<1> SUFFICES ASSUME StaticInv, [StaticNext]_staticVars PROVE StaticInv'
  OBVIOUS
<1>1. CASE StaticNext
  BY <1>1, StepRoute, StepRows DEF StaticNext, StaticInv
<1>2. CASE UNCHANGED staticVars
  BY <1>2 DEF staticVars, StaticInv, StaticTypeOK, LapsAlternate, Completions, Cruising,
              RowsAreOrdered, RowsKeepUp, RowsAreSteady, Arrived
<1> QED  BY <1>1, <1>2

LEMMA StaticMeansWell == StaticInv => CompletionIsFirst
<1> SUFFICES ASSUME StaticInv PROVE CompletionIsFirst
  OBVIOUS
<1>1. Completions /\ RowsAreOrdered
  BY DEF StaticInv
<1> QED  BY <1>1 DEF Completions, RowsAreOrdered, CompletionIsFirst

-----------------------------------------------------------------------------
(* The run's specification: one component moves, the others rest.             *)
CommsInv == IInv /\ Ends /\ LoggerInv /\ TileInv /\ AppLogInv /\ StaticInv

LEMMA EndsInitInv == Init => Ends
<1> SUFFICES ASSUME Init PROVE Ends
  OBVIOUS
<1>1. gone = FALSE /\ consumer = TRUE /\ faults = 0 /\ active = {} /\ pinged = {} /\ unpublished = {}
      /\ path = [c \in Conns |-> "good"] /\ endpoint = [c \in Conns |-> "none"]
  BY DEF Init
<1>2. faults \in 0..MaxFaults
  BY <1>1, LinkAssumption
<1>3. gone \in BOOLEAN /\ consumer \in BOOLEAN
  BY <1>1
<1> QED  BY <1>1, <1>2, <1>3 DEF Ends

LEMMA CommsInitInv == CommsInit => CommsInv
BY InitInv, EndsInitInv, LoggerInitInv, TileInitInv, AppLogInitInv, StaticInitInv
   DEF CommsInit, CommsInv

LEMMA CommsNextInv == CommsInv /\ [CommsNext]_vars => CommsInv'
<1> SUFFICES ASSUME CommsInv, [CommsNext]_vars PROVE CommsInv'
  OBVIOUS
<1>1. /\ [Next]_linkVars /\ [LoggerNext]_loggerVars /\ [TileNext]_tileVars
      /\ [AppLogNext]_appLogVars /\ [StaticNext]_staticVars
  BY DEF CommsNext, OfLink, OfLogger, OfTiles, OfLog, OfSimulation, vars
<1> QED  BY <1>1, NextInv, EndsInv, LoggerNextInv, TileNextInv, AppLogNextInv, StaticNextInv
         DEF CommsInv

(* The invariant of the ground side: the link, the Logger and the services of *)
(* the web server, each with what it needs to keep its promise.               *)
THEOREM CommsInvHolds == CommsSpec => []CommsInv
BY CommsInitInv, CommsNextInv, PTL DEF CommsSpec

(* The state of the ground side is well typed; the Logger's lock is held by   *)
(* the thread in the middle of a row and by no other (_write_row), the event  *)
(* loop by the handler that writes a tile (get_tile).                         *)
THEOREM CommsTypeHolds == CommsSpec => []TypesHold
<1>1. CommsInv => TypesHold
  <2> SUFFICES ASSUME CommsInv PROVE TypesHold
    OBVIOUS
  <2>1. TypeOK
    BY DEF CommsInv, IInv, Typed, Ends, TypeOK, Frames, Command
  <2> QED  BY <2>1, LoggerMeansWell
           DEF CommsInv, TypesHold, TileInv, AppLogInv, StaticInv
<1> QED  BY <1>1, CommsInvHolds, PTL

(* The Logger runs what was configured last, in whatever order the two topics *)
(* deliver it, no thread of an older configuration goes on unasked, and every *)
(* row is of one moment (_apply_config and _write_row, logger_process.py).    *)
THEOREM LoggerFollowsHolds == CommsSpec => []LoggerFollows
<1>1. CommsInv => LoggerFollows
  BY LoggerMeansWell DEF CommsInv
<1> QED  BY <1>1, CommsInvHolds, PTL

(* What the web server hands out is whole and in order: tiles (get_tile), the *)
(* pages of the log (app_log) and the rows of a static simulation             *)
(* (_run_simulation_sync), for any numbers of lines, steps and waypoints.     *)
THEOREM ServedInOrderHolds == CommsSpec => []ServedInOrder
<1>1. CommsInv => ServedInOrder
  BY StaticMeansWell DEF CommsInv, ServedInOrder, TileInv, AppLogInv, StaticInv
<1> QED  BY <1>1, CommsInvHolds, PTL
=============================================================================
