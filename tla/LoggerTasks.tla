---------------------------- MODULE LoggerTasks ----------------------------
(* The Logger process (src/comms/logger_process.py): one thread for each CSV  *)
(* file logger and each JSON broadcaster of the logging configuration, all    *)
(* reading one table of latest payloads under one lock.  A configuration      *)
(* reaches the process twice, on COMMAND_USER from the web server and on      *)
(* GNC_SYNC from the Manager, in no order between the two topics.  Replacing  *)
(* a thread only sets its stop event: the old thread may still be at work     *)
(* when the new one starts.  Previews and the formatting of values are left   *)
(* out; disks, ports and readers fail as the environment pleases.             *)
EXTENDS Naturals, Sequences

CONSTANTS
  Configs,     \* the configurations the operator pushes: [Tasks -> settings or Off]
  MaxPushes,   \* bound: configurations pushed
  MaxThreads,  \* bound: threads started
  MaxUpsets    \* bound: changes of the disk and deaths of the process

Csv == "csv"
Json == "json"
Tasks == {Csv, Json}
Off == "off"            \* absent or not enabled: the code treats both alike
Empty == [t \in Tasks |-> Off]

ASSUME ConfigsAssumption ==
  /\ \A c \in Configs : DOMAIN c = Tasks /\ \A t \in Tasks : c[t] \in STRING
  /\ MaxPushes \in Nat /\ MaxUpsets \in Nat

VARIABLES
  pushed,     \* the Manager's logging_config, saved and published
  direct,     \* configurations in flight on command/user
  synced,     \* configurations in flight on gnc/sync
  applied,    \* LoggerProcess.current_config
  task,       \* csv_tasks and json_tasks: the thread of each task, 0 for none
  threads,    \* every thread ever started by this process, with its stage
  unheard,    \* the process started after the last publication
  payload,    \* the newest payload of the one telemetry topic that is read
  lock,       \* the thread that holds snapshots_lock, 0 for none
  diskLow,    \* less than _MIN_FREE_MB on the output path
  pushes, upsets

loggerVars == <<pushed, direct, synced, applied, task, threads, unheard,
                payload, lock, diskLow, pushes, upsets>>

\* A thread reads its first field, then the others, and emits the row.
Thread(t, cfg) == [task |-> t, cfg |-> cfg, stage |-> "closed", stop |-> FALSE,
                   row |-> <<>>]
Numbers == 1 .. Len(threads)
Alive(n) == threads[n].stage # "ended"
Holding(n) == threads[n].stage = "open"

LoggerInit ==
  /\ pushed \in Configs \cup {Empty}
  /\ direct = <<>> /\ synced = <<>>
  /\ applied = Empty /\ task = [t \in Tasks |-> 0] /\ threads = <<>>
  /\ unheard = TRUE
  /\ payload = 0 /\ lock = 0 /\ diskLow \in BOOLEAN
  /\ pushes = 0 /\ upsets = 0

\* The Manager publishes the stored configuration once, at its own start; the
\* half second it waits is for a Logger that starts at the same time.
ManagerStarts ==
  /\ pushes = 0 /\ unheard /\ synced = <<>> /\ upsets = 0
  /\ synced' = <<pushed>> /\ unheard' = FALSE
  /\ UNCHANGED <<pushed, direct, applied, task, threads, payload, lock,
                 diskLow, pushes, upsets>>

\* SET_LOGGING_CONFIG: the web server publishes it for both processes, and the
\* Manager repeats it on gnc/sync when it has saved it.
Push ==
  /\ pushes < MaxPushes
  /\ \E c \in Configs :
       /\ pushed' = c
       /\ direct' = Append(direct, c)
       /\ synced' = Append(synced, c)
  /\ unheard' = FALSE /\ pushes' = pushes + 1
  /\ UNCHANGED <<applied, task, threads, payload, lock, diskLow, upsets>>

----------------------------------------------------------------------------
(* _apply_config: full replacement, task by task.                           *)

Running(t) == task[t] # 0
\* Mutant: a task that runs is kept whatever its settings.
KeptAnyway(t, cfg) == Running(t) /\ cfg[t] # Off

Kept(t, cfg) == Running(t) /\ cfg[t] # Off /\ applied[t] = cfg[t]
Stopped(cfg) == {task[t] : t \in {u \in Tasks : Running(u) /\ ~Kept(u, cfg)}}
Begins(t, cfg) == cfg[t] # Off /\ ~Kept(t, cfg)
Begun(t, cfg) == IF Begins(t, cfg) THEN <<Thread(t, cfg[t])>> ELSE <<>>

\* The CSV loggers come first, and each new thread gets the next number.
Told(cfg) == [n \in Numbers |->
                IF n \in Stopped(cfg) THEN [threads[n] EXCEPT !.stop = TRUE] ELSE threads[n]]
Replaced(cfg) == (Told(cfg) \o Begun(Csv, cfg)) \o Begun(Json, cfg)
NewNumber(t, cfg) == Len(threads) + (IF t = Json /\ Begins(Csv, cfg) THEN 2 ELSE 1)

Apply(cfg) ==
  /\ Len(Replaced(cfg)) <= MaxThreads
  /\ threads' = Replaced(cfg)
  /\ task' = [t \in Tasks |-> IF Kept(t, cfg) THEN task[t]
                              ELSE IF Begins(t, cfg) THEN NewNumber(t, cfg) ELSE 0]
  /\ applied' = cfg

HearDirect ==
  /\ direct # <<>> /\ Apply(Head(direct)) /\ direct' = Tail(direct)
  /\ UNCHANGED <<pushed, synced, unheard, payload, lock, diskLow, pushes, upsets>>

HearSync ==
  /\ synced # <<>> /\ Apply(Head(synced)) /\ synced' = Tail(synced)
  /\ UNCHANGED <<pushed, direct, unheard, payload, lock, diskLow, pushes, upsets>>

\* loop: a telemetry message replaces the payload of its topic, under the lock.
Receive ==
  /\ lock = 0
  /\ payload' = 1 - payload
  /\ UNCHANGED <<pushed, direct, synced, applied, task, threads, unheard, lock,
                 diskLow, pushes, upsets>>

----------------------------------------------------------------------------
(* The threads.                                                             *)

Becomes(n, stage) == threads' = [threads EXCEPT ![n].stage = stage]
SameRest == UNCHANGED <<pushed, direct, synced, applied, task, unheard, payload,
                        diskLow, pushes, upsets>>

\* CsvLoggerTask._open_file: it needs a folder and room on the disk; without
\* them the thread waits five seconds, or for its stop event, and tries again.
CsvOpens(n) ==
  /\ threads[n].task = Csv /\ threads[n].stage = "closed"
  /\ ~threads[n].stop /\ ~diskLow
  /\ Becomes(n, "open")
  /\ UNCHANGED lock /\ SameRest

\* Rotation, or a row that could not be written: the file is closed and the
\* next iteration opens another.
CsvCloses(n) ==
  /\ threads[n].task = Csv /\ Holding(n) /\ threads[n].row = <<>> /\ ~threads[n].stop
  /\ Becomes(n, "closed")
  /\ UNCHANGED lock /\ SameRest

\* JsonBroadcasterTask._open_socket: one attempt, whatever the stop event says.
\* The settings stand for the address of a TCP server: a port another thread
\* still listens on cannot be bound, and then run() returns for good.
PortTaken(n) ==
  \E k \in Numbers : threads[k].task = Json /\ Holding(k) /\ threads[k].cfg = threads[n].cfg
JsonOpens(n) ==
  /\ threads[n].task = Json /\ threads[n].stage = "closed"
  /\ Becomes(n, IF PortTaken(n) THEN "ended" ELSE "open")
  /\ UNCHANGED lock /\ SameRest

\* _write_row and _resolve_payload: every field under one hold of the lock.
ReadFirst(n) ==
  /\ Holding(n) /\ threads[n].row = <<>> /\ ~threads[n].stop
  /\ lock = 0 /\ lock' = n
  /\ threads' = [threads EXCEPT ![n].row = <<payload>>]
  /\ SameRest
\* Mutant: the lock is kept while the row is written.
ReadSecondHolding(n) ==
  /\ Len(threads[n].row) = 1
  /\ threads' = [threads EXCEPT ![n].row = Append(@, payload)]
  /\ UNCHANGED lock /\ SameRest

ReadSecond(n) ==
  /\ Len(threads[n].row) = 1
  /\ lock' = 0
  /\ threads' = [threads EXCEPT ![n].row = Append(@, payload)]
  /\ SameRest
\* The row is written or sent outside the lock, and the period is waited for.
Emit(n) ==
  /\ Len(threads[n].row) = 2
  /\ threads' = [threads EXCEPT ![n].row = <<>>]
  /\ UNCHANGED lock /\ SameRest

\* A stopped thread leaves its loop, closes its file or its sockets and ends.
Leave(n) ==
  /\ threads[n].stop /\ threads[n].row = <<>>
  /\ threads[n].stage \in (IF threads[n].task = Csv THEN {"closed", "open"} ELSE {"open"})
  /\ Becomes(n, "ended")
  /\ UNCHANGED lock /\ SameRest

ThreadStep(n) == CsvOpens(n) \/ JsonOpens(n) \/ ReadFirst(n) \/ ReadSecond(n)
                 \/ Emit(n) \/ Leave(n)

----------------------------------------------------------------------------
(* The environment.                                                         *)

DiskChanges ==
  /\ upsets < MaxUpsets /\ upsets' = upsets + 1
  /\ diskLow' = ~diskLow
  /\ UNCHANGED <<pushed, direct, synced, applied, task, threads, unheard, payload,
                 lock, pushes>>

\* The process dies, its daemon threads with it, and the watchdog starts a new
\* one: what was in flight is lost and the configuration is the default, empty.
LoggerRestarts ==
  /\ upsets < MaxUpsets /\ upsets' = upsets + 1
  /\ direct' = <<>> /\ synced' = <<>>
  /\ applied' = Empty /\ task' = [t \in Tasks |-> 0] /\ threads' = <<>>
  /\ payload' = 0 /\ lock' = 0 /\ unheard' = TRUE
  /\ UNCHANGED <<pushed, diskLow, pushes>>

LoggerNext ==
  \/ ManagerStarts \/ Push \/ HearDirect \/ HearSync \/ Receive
  \/ \E n \in Numbers : ThreadStep(n) \/ CsvCloses(n)
  \/ DiskChanges \/ LoggerRestarts

\* Threads run, and a subscriber that is alive reads what it was sent.  The
\* bound on threads stops HearDirect and HearSync only.
LoggerFairness == /\ \A n \in 1 .. MaxThreads : WF_loggerVars(n \in Numbers /\ ThreadStep(n))
                  /\ WF_loggerVars(HearDirect) /\ WF_loggerVars(HearSync)
LoggerSpec == LoggerInit /\ [][LoggerNext]_loggerVars /\ LoggerFairness

----------------------------------------------------------------------------
(* Properties.                                                              *)

\* Types: the lock is held by a thread in the middle of a row and by no other.
LoggerTypeOK ==
  /\ {pushed, applied} \subseteq Configs \cup {Empty}
  /\ direct \in Seq(Configs) /\ synced \in Seq(Configs \cup {Empty})
  /\ \A n \in Numbers :
       /\ threads[n].task \in Tasks /\ threads[n].stop \in BOOLEAN
       /\ threads[n].stage \in {"closed", "open", "ended"}
       /\ Len(threads[n].row) = 1 <=> lock = n
  /\ lock \in 0 .. Len(threads) /\ payload \in 0 .. 1
  /\ unheard \in BOOLEAN /\ diskLow \in BOOLEAN
  /\ pushes \in 0 .. MaxPushes /\ upsets \in 0 .. MaxUpsets

\* Whatever the order in which the two topics deliver, a process that was
\* there for the last publication ends up with the Manager's configuration.
ConfigAgrees == direct = <<>> /\ synced = <<>> /\ ~unheard => applied = pushed

\* Every thread that was not told to stop is the one its table holds, runs the
\* applied settings of its task and no other: a changed or removed logger
\* leaves no writer of the old settings behind.
NoStrayThread ==
  \A n \in Numbers : ~threads[n].stop =>
    /\ task[threads[n].task] = n
    /\ threads[n].cfg = applied[threads[n].task] /\ threads[n].cfg # Off

\* A row or a message never mixes two payloads of one topic, although
\* telemetry arrives while the fields are read one by one.
RowIsOneSnapshot ==
  \A n \in Numbers : Len(threads[n].row) = 2 => threads[n].row[1] = threads[n].row[2]

\* A stopped thread ends, and with it the file or the port it held: nothing
\* joins it, so nothing else would notice.
StoppedThreadsEnd ==
  \A n \in 1 .. MaxThreads :
    (n \in Numbers /\ threads[n].stop) ~> (n \notin Numbers \/ ~Alive(n))

\* A configured CSV logger comes back after a full disk, a failed write or a
\* rotation: while there is room it opens a file.
CsvOpensAgain ==
  (Running(Csv) /\ ~diskLow) ~> (~Running(Csv) \/ diskLow \/ Holding(task[Csv]))
============================================================================
