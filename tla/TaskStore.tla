------------------------------ MODULE TaskStore ------------------------------
(* The store of the tasks (core/task_store.go over store/sqlite): an index in  *)
(* memory whose lock is held until the row is written, the numbers and the     *)
(* retention of a task's events, what a start makes of the rows and of the     *)
(* JSON files of older versions, and what a crash or a failing write leaves.   *)
(* A process is one start of the program. While a self-restart hands over, the *)
(* old process goes on for a while beside the new one.                         *)
EXTENDS Naturals, Sequences, FiniteSets

CONSTANTS
    Tasks,      \* identifiers of tasks
    NoTask,     \* what stands for no task
    Writers,    \* goroutines that call the store
    MaxSeq,     \* bound: the highest number of an event
    Retention,  \* Settings.EventRetention, 0 keeps all
    MaxStarts,  \* bound: processes
    MaxFaults   \* bound: writes that fail, and files that cannot be read

Task == [events : Seq(1..MaxSeq), next : 0..MaxSeq + 1, live : BOOLEAN]

StoreAssumption ==
    /\ MaxSeq \in Nat \ {0, 1} /\ MaxStarts \in Nat \ {0} /\ MaxFaults \in Nat /\ Retention \in Nat
    /\ NoTask \notin Tasks /\ NoTask \notin Task

Procs == 1..MaxStarts

VARIABLES
    files,      \* <id>.json: none, good or bad, or moved to migrated-json
    rows,       \* the table
    stage,      \* how far a process is
    todo,       \* the files it has yet to migrate, then the tasks it has yet to correct
    moving,     \* the file whose task is in the table but which is not moved yet
    memory,     \* TaskStore.tasks
    lock,       \* TaskStore.mu: who holds it for writing
    call,       \* what a goroutine is about to write
    promised,   \* the number of the newest event that a call said is kept
    deleted,    \* tasks whose deletion was confirmed
    raced,      \* history: tasks written while another process had its own copy of them
    unread,     \* history: tasks whose file a start passed over, unable to read it
    faults

disk == <<files, rows>>
starting == <<stage, todo, moving>>
told == <<promised, deleted>>
history == <<raced, unread>>
storeVars == <<disk, starting, memory, lock, call, told, history, faults>>

Newest(events) == IF events = <<>> THEN 0
                  ELSE CHOOSE n \in {events[i] : i \in DOMAIN events} :
                         \A i \in DOMAIN events : events[i] <= n

\* A task of an older version: its first event was dropped, and it has no counter.
OldTask == [events |-> <<2>>, next |-> 0, live |-> TRUE]
NewTask == [events |-> <<>>, next |-> 0, live |-> FALSE]

NoTasks == [t \in Tasks |-> NoTask]
Idle == [op |-> "none", of |-> 1, id |-> NoTask, copy |-> NoTask]

TypeOK ==
    /\ files \in [Tasks -> {"none", "good", "bad", "moved"}]
    /\ rows \in [Tasks -> Task \cup {NoTask}]
    /\ stage \in [Procs -> {"none", "migrate", "load", "correct", "up", "gone"}]
    /\ todo \in [Procs -> SUBSET Tasks] /\ moving \in [Procs -> Tasks \cup {NoTask}]
    /\ memory \in [Procs -> [Tasks -> Task \cup {NoTask}]]
    /\ lock \subseteq Procs \X Writers
    /\ call \in [Writers -> [op : {"none", "insert", "update", "delete"}, of : Procs,
                             id : Tasks \cup {NoTask}, copy : Task \cup {NoTask}]]
    /\ promised \in [Tasks -> 0..MaxSeq] /\ deleted \subseteq Tasks
    /\ raced \subseteq Tasks /\ unread \subseteq Tasks /\ faults \in 0..MaxFaults

Init ==
    /\ files \in [Tasks -> {"none", "good", "bad"}] /\ rows = NoTasks
    /\ stage = [p \in Procs |-> "none"] /\ todo = [p \in Procs |-> {}]
    /\ moving = [p \in Procs |-> NoTask] /\ memory = [p \in Procs |-> NoTasks]
    /\ lock = {} /\ call = [w \in Writers |-> Idle]
    /\ promised = [t \in Tasks |-> 0] /\ deleted = {} /\ faults = 0
    /\ raced = {} /\ unread = {}

Fault == faults < MaxFaults /\ faults' = faults + 1
Works == UNCHANGED faults
Runs(p) == stage[p] \notin {"none", "gone"}
Becomes(p, s) == stage' = [stage EXCEPT ![p] = s]
CallsStay == UNCHANGED <<memory, lock, call, told, raced>>

------------------------------------------------------------------------------
(* A start.                                                                    *)

\* NewTaskStore opens the database and lists the files.
Start(p) ==
    /\ stage[p] = "none"
    /\ \A q \in 1..(p - 1) : stage[q] = "gone" \/ (q = p - 1 /\ stage[q] = "up")
    /\ Becomes(p, "migrate")
    /\ todo' = [todo EXCEPT ![p] = {t \in Tasks : files[t] \in {"good", "bad"}}]
    /\ UNCHANGED <<disk, moving, unread, faults>> /\ CallsStay

Visited(p, t) == todo' = [todo EXCEPT ![p] = @ \ {t}]

\* MigrateJSONTasks: what the table has already is not overwritten. A failing table
\* ends the start, an unreadable file only waits for the next one.
Import(p, t) ==
    /\ stage[p] = "migrate" /\ moving[p] = NoTask /\ t \in todo[p] /\ Visited(p, t)
    /\ \/ /\ files[t] = "good" /\ moving' = [moving EXCEPT ![p] = t] /\ UNCHANGED <<files, stage, unread>>
          /\ rows' = IF rows[t] = NoTask THEN [rows EXCEPT ![t] = OldTask] ELSE rows
          /\ Works
       \/ /\ files[t] = "bad" /\ UNCHANGED <<rows, stage, moving, unread>>
          /\ \/ files' = [files EXCEPT ![t] = "moved"] /\ Works
             \/ UNCHANGED files /\ Fault
       \/ /\ files[t] = "good" /\ Fault /\ UNCHANGED <<disk, moving>>
          /\ \/ Becomes(p, "gone") /\ UNCHANGED unread
             \/ unread' = unread \cup {t} /\ UNCHANGED stage
    /\ CallsStay

\* A file that cannot be moved ends the start, since there are two truths then.
Archive(p) ==
    /\ stage[p] = "migrate" /\ moving[p] # NoTask /\ moving' = [moving EXCEPT ![p] = NoTask]
    /\ \/ files' = [files EXCEPT ![moving[p]] = "moved"] /\ UNCHANGED stage /\ Works
       \/ UNCHANGED files /\ Becomes(p, "gone") /\ Fault
    /\ UNCHANGED <<rows, todo, unread>> /\ CallsStay

\* load. A task that nobody runs any more has failed, unless the journal of a
\* planned restart names it.
Load(p) ==
    /\ stage[p] = "migrate" /\ moving[p] = NoTask /\ todo[p] = {}
    /\ \/ Becomes(p, "gone") /\ Fault /\ UNCHANGED <<memory, todo>>
       \/ /\ Becomes(p, "correct") /\ Works
          /\ \E planned \in IF p = 1 THEN {{}} ELSE SUBSET Tasks :
                LET failed == {t \in Tasks \ planned : rows[t] # NoTask /\ rows[t].live} IN
                /\ memory' = [memory EXCEPT ![p] =
                      [t \in Tasks |-> IF t \in failed THEN [rows[t] EXCEPT !.live = FALSE] ELSE rows[t]]]
                /\ todo' = [todo EXCEPT ![p] = failed]
    /\ UNCHANGED <<disk, moving, lock, call, told, history>>

\* The correction is written as well, as far as that works.
Correct(p, t) ==
    /\ stage[p] = "correct" /\ t \in todo[p] /\ Visited(p, t)
    /\ \/ rows' = [rows EXCEPT ![t] = memory[p][t]] /\ Works
       \/ UNCHANGED rows /\ Fault
    /\ UNCHANGED <<files, stage, moving, unread>> /\ CallsStay

Serve(p) ==
    /\ stage[p] = "correct" /\ todo[p] = {} /\ Becomes(p, "up")
    /\ UNCHANGED <<disk, todo, moving, unread, faults>> /\ CallsStay

\* The process ends, between any two steps.
End(p) ==
    /\ Runs(p) /\ Becomes(p, "gone")
    /\ todo' = [todo EXCEPT ![p] = {}] /\ moving' = [moving EXCEPT ![p] = NoTask]
    /\ memory' = [memory EXCEPT ![p] = NoTasks]
    /\ lock' = {l \in lock : l[1] # p}
    /\ call' = [w \in Writers |-> IF call[w].of = p THEN Idle ELSE call[w]]
    /\ UNCHANGED <<disk, told, history, faults>>

------------------------------------------------------------------------------
(* Calls. The lock is taken before memory changes and held while the row is    *)
(* written.                                                                    *)

Free(p) == \A l \in lock : l[1] # p

\* AppendEvent: the number, and what the retention leaves.
WithEvent(task) ==
    LET seq == IF task.next = 0 THEN Newest(task.events) + 1 ELSE task.next
        all == Append(task.events, seq)
        n == Len(all)
    IN  [task EXCEPT !.next = seq + 1,
                     !.events = IF Retention > 0 /\ n > Retention
                                THEN SubSeq(all, n - Retention + 1, n) ELSE all]

\* As it would be if the lock were given back before the row is written.
TakesBriefly(w, p, op, t, task) ==
    /\ stage[p] = "up" /\ call[w] = Idle
    /\ memory' = [memory EXCEPT ![p][t] = task]
    /\ call' = [call EXCEPT ![w] = [op |-> op, of |-> p, id |-> t, copy |-> task]]
    /\ UNCHANGED <<disk, starting, lock, told, history, faults>>

Takes(w, p, op, t, task) ==
    /\ stage[p] = "up" /\ call[w] = Idle /\ Free(p)
    /\ lock' = lock \cup {<<p, w>>}
    /\ memory' = [memory EXCEPT ![p][t] = task]
    /\ call' = [call EXCEPT ![w] = [op |-> op, of |-> p, id |-> t, copy |-> task]]
    /\ UNCHANGED <<disk, starting, told, history, faults>>

\* Create, under a new identifier.
Create(w, p, t) ==
    /\ files[t] = "none" /\ promised[t] = 0 /\ t \notin deleted
    /\ \A q \in Procs : memory[q][t] = NoTask
    /\ rows[t] = NoTask
    /\ Takes(w, p, "insert", t, NewTask)

\* Update, by a mutator that appends an event and may begin or end a turn.
Update(w, p, t) ==
    /\ memory[p][t] # NoTask /\ Newest(memory[p][t].events) < MaxSeq
    /\ \E l \in BOOLEAN : Takes(w, p, "update", t, [WithEvent(memory[p][t]) EXCEPT !.live = l])

Delete(w, p, t) == memory[p][t] # NoTask /\ Takes(w, p, "delete", t, NoTask)

\* Another process goes on with the copy of the table it loaded.
Race(w) == raced' = IF \E q \in Procs \ {call[w].of} : stage[q] \in {"correct", "up"}
                    THEN raced \cup {call[w].id} ELSE raced

Unlock(w) == lock' = {l \in lock : l # <<call[w].of, w>>}

\* persist and UpsertTask. A failed insert is taken back; a failed update stays in
\* memory, and the caller gets the error.
Persist(w) ==
    LET c == call[w] IN
    /\ c.op \in {"insert", "update"} /\ call' = [call EXCEPT ![w] = Idle] /\ Unlock(w)
    /\ \/ /\ rows' = [rows EXCEPT ![c.id] = c.copy] /\ UNCHANGED memory /\ Works /\ Race(w)
          /\ promised' = [promised EXCEPT ![c.id] = IF Newest(c.copy.events) > @
                                                   THEN Newest(c.copy.events) ELSE @]
       \/ /\ Fault /\ UNCHANGED <<rows, promised, raced>>
          /\ memory' = IF c.op = "insert" THEN [memory EXCEPT ![c.of][c.id] = NoTask] ELSE memory
    /\ UNCHANGED <<files, starting, deleted, unread>>

\* DeleteTask finds no row, or the row cannot be deleted: the task is gone from
\* memory in any case.
DeleteRow(w) ==
    LET c == call[w] IN
    /\ c.op = "delete" /\ call' = [call EXCEPT ![w] = Idle] /\ Unlock(w)
    /\ \/ /\ rows[c.id] # NoTask /\ rows' = [rows EXCEPT ![c.id] = NoTask]
          /\ deleted' = deleted \cup {c.id} /\ Works /\ Race(w)
       \/ /\ rows[c.id] = NoTask /\ UNCHANGED <<rows, deleted, raced>> /\ Works
       \/ /\ rows[c.id] # NoTask /\ UNCHANGED <<rows, deleted, raced>> /\ Fault
    /\ UNCHANGED <<files, starting, memory, promised, unread>>

------------------------------------------------------------------------------
StartStep(p) ==
    \/ Start(p) \/ Archive(p) \/ Load(p) \/ Serve(p) \/ End(p)
    \/ \E t \in Tasks : Import(p, t) \/ Correct(p, t)

CallStep(w) ==
    \/ Persist(w) \/ DeleteRow(w)
    \/ \E p \in Procs, t \in Tasks : Create(w, p, t) \/ Update(w, p, t) \/ Delete(w, p, t)

Next == (\E p \in Procs : StartStep(p)) \/ \E w \in Writers : CallStep(w)

Spec == Init /\ [][Next]_storeVars

------------------------------------------------------------------------------
Kept(t) == promised[t] > 0 => rows[t] # NoTask /\ Newest(rows[t].events) >= promised[t]
Gone(t) == rows[t] = NoTask /\ \A p \in Procs : memory[p][t] = NoTask

\* What a call said is kept is in the table, whatever failed or crashed since,
\* whichever call wrote last, and also beside a process that is replaced: only for a
\* task that was written while another process had its own copy of it this can fail
\* (Update: the order of the writes is that of the changes).
PromisesAreKept == \A t \in Tasks \ (deleted \cup raced) : Kept(t)
EveryPromiseIsKept == \A t \in Tasks \ deleted : Kept(t)

\* A task whose deletion was confirmed stays away, also when the file of an older
\* version is found again; only a copy in another process, or a file that a start
\* passed over, brings it back (Delete, MigrateJSONTasks).
DeletedStaysDeleted == \A t \in deleted \ (raced \cup unread) : Gone(t)
EveryDeletionLasts == \A t \in deleted : Gone(t)

\* The events of a task, in memory and in its row, bear rising numbers, and the
\* next one is new, also for a task that was trimmed before it had a counter
\* (AppendEvent).
EventsAreNumbered ==
    \A task \in ({rows[t] : t \in Tasks} \cup {memory[p][t] : p \in Procs, t \in Tasks}) \ {NoTask} :
        /\ \A i, j \in DOMAIN task.events : i < j => task.events[i] < task.events[j]
        /\ task.next = 0 \/ task.next > Newest(task.events)

\* All three.
StoreIsTrue == PromisesAreKept /\ DeletedStaysDeleted /\ EventsAreNumbered
===============================================================================
