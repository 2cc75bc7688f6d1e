---------------------------- MODULE Requirements ----------------------------
(***************************************************************************)
(* The requirement plane: one requirement with its acceptance criterion,   *)
(* its split proposal, its tasks and its issues (core/requirement_*.go,    *)
(* core/dag_schedule.go, the feedback of core/task_runner.go and the       *)
(* handlers of api/requirement_confirm.go, issues.go, requirements.go).    *)
(*                                                                         *)
(* A thread is a request of a user or the goroutine that drains the turns  *)
(* of a task.  Reading a task or the requirement is one step, an Update of *)
(* either is one step, and between the two every other thread may move:    *)
(* the stores lock single operations, nothing locks a handler.             *)
(*                                                                         *)
(* Abstracted: every task covers the criterion, ids are numbers, a turn is *)
(* its beginning and its outcome (TaskLifecycle details it), a loop of     *)
(* reads is one step, texts are left out, and so are other requirements.   *)
(***************************************************************************)
EXTENDS Naturals, Sequences, FiniteSets

CONSTANTS
    Users,        \* concurrent requests
    Proposals,    \* what agents and users propose: sequences of nodes
    MaxTasks,     \* bound: tasks ever created
    MaxIssues,    \* bound: issues ever opened
    MaxRequests,  \* bound: requests ever made
    MaxFaults     \* bound: failures to create a task or the branch

Ids == 1..MaxTasks

ASSUME RequirementsAssumption ==
    /\ {MaxTasks, MaxIssues, MaxRequests, MaxFaults} \subseteq Nat
    /\ Users \cap Ids = {} /\ IsFiniteSet(Users)

\* A node of a proposal names the nodes it waits for by their places in it; a
\* list without nodes proposes nothing.
Nodes == [role : {"impl", "test"}, deps : SUBSET Nat, on : {{}}, agent : BOOLEAN]

ASSUME ProposalsAssumption == Proposals \subseteq Seq(Nodes) \ {<<>>}

Threads == Users \cup Ids

VARIABLES
    req,        \* its status, the human verdict on the criterion, the proposal
    tasks,
    issues,     \* in the order they were opened
    thread,
    requests, faults

vars == <<req, tasks, issues, thread, requests, faults>>

-----------------------------------------------------------------------------
(* Tasks, and the thread that works on them *)

Terminal == {"completed", "failed", "cancelled"}
Live == {"pending", "running"}

\* .done: it has been completed once; .again: a user has resumed it;
\* .verifies: the issue it re-verifies.
NoTask == [st |-> "none", role |-> "impl", deps |-> {}, agent |-> FALSE, turns |-> 0,
           abandoned |-> FALSE, verifies |-> 0, done |-> FALSE, again |-> FALSE]
Quiet == [pc |-> "idle", todo |-> {}, cur |-> 0, iss |-> 0, nodes |-> <<>>,
          expand |-> FALSE, force |-> FALSE, blocker |-> FALSE, source |-> 0]

Known == {t \in Ids : tasks[t].st \notin {"none", "deleted"}}
Work == {t \in Known : tasks[t].role # "split"}
Free == {t \in Ids : tasks[t].st = "none"}
FirstOf(S) == CHOOSE i \in S : \A j \in S : i <= j

\* ValidateSplitProposal, with existing = {}, and ValidateExpandProposal: known
\* dependencies, no cycle, no test that could run before an implementation.
Valid(p, existing) ==
    LET nodes == 1..Len(p)
        implements == \E i \in nodes : p[i].role = "impl"
    IN  /\ p # <<>>
        /\ \A i \in nodes : p[i].deps \subseteq nodes /\ p[i].on \subseteq existing
        /\ \A S \in (SUBSET nodes) \ {{}} : \E i \in S : p[i].deps \cap S = {}
        /\ implements => \A i \in nodes : p[i].role = "test" => p[i].deps \cup p[i].on # {}

\* A proposal may have been put before.
Init ==
    /\ req \in [st : {"draft"}, human : {"none"}, branch : {FALSE},
                proposal : {<<>>} \cup {p \in Proposals : Valid(p, {})}]
    /\ tasks = [t \in Ids |-> NoTask]
    /\ issues = <<>>
    /\ thread = [k \in Threads |-> Quiet]
    /\ requests = 0 /\ faults = 0

At(k, pc) == thread[k].pc = pc
Go(k, pc) == thread' = [thread EXCEPT ![k].pc = pc]
End(k) == thread' = [thread EXCEPT ![k] = Quiet]
Begin(k, fields) == thread' = [thread EXCEPT ![k] = fields]

\* A loop of thread k over tasks S, in the order of their creation.
Loop(k, pc, S) ==
    thread' = [thread EXCEPT ![k] = IF S = {} THEN Quiet ELSE [Quiet EXCEPT !.pc = pc, !.todo = S]]

Step == UNCHANGED <<requests, faults>>
Request(u) ==
    /\ At(u, "idle") /\ requests < MaxRequests
    /\ requests' = requests + 1 /\ UNCHANGED faults

\* A creation fails, or the bound leaves no id for it.
Fails(n) ==
    /\ \/ Cardinality(Free) < n /\ UNCHANGED faults
       \/ faults < MaxFaults /\ faults' = faults + 1
    /\ UNCHANGED requests

\* transition: a terminal status gives way to running only; a deleted task is none.
Moved(t, st) ==
    IF t \in Known /\ (tasks[t].st \in Terminal => st = "running")
    THEN [tasks[t] EXCEPT !.st = st, !.done = @ \/ st = "completed"]
    ELSE tasks[t]

\* A new task of the requirement, created by thread k for its next step.
Creates(k, fields, next) ==
    /\ Free # {}
    /\ tasks' = [tasks EXCEPT ![FirstOf(Free)] = fields]
    /\ thread' = [thread EXCEPT ![k].cur = FirstOf(Free), ![k].pc = next]
    /\ Step

Put(fields) == req' = IF req.st = "gone" THEN req ELSE fields
Activated == IF req.st = "draft" THEN [req EXCEPT !.st = "active"] ELSE req

-----------------------------------------------------------------------------
(* The schedule of planned tasks *)

\* Mutant of DepsSatisfied: the dependencies exist.
DepsExist(t) == tasks[t].deps \subseteq Known
DepsSatisfied(t) == \A d \in tasks[t].deps : d \in Known /\ tasks[d].st = "completed"

ReadyPlanned == {t \in Known : tasks[t].st = "planned" /\ DepsSatisfied(t)}

\* StartReadyInRequirement takes those that have an agent.
StartReady(k) ==
    /\ At(k, "ready")
    /\ Loop(k, "activate", {t \in ReadyPlanned : tasks[t].agent})
    /\ UNCHANGED <<req, tasks, issues>> /\ Step

\* scheduleReadyDependents takes those that wait for the completed task.
Dependents(t) ==
    /\ At(t, "dependents")
    /\ Loop(t, "activate", {o \in ReadyPlanned : t \in tasks[o].deps})
    /\ UNCHANGED <<req, tasks, issues>> /\ Step

\* ActivatePlanned looks whether the task is planned and ready ...
Activate(k) ==
    LET t == FirstOf(thread[k].todo) IN
    /\ At(k, "activate")
    /\ IF t \in ReadyPlanned THEN Go(k, "pend") ELSE Loop(k, "activate", thread[k].todo \ {t})
    /\ UNCHANGED <<req, tasks, issues>> /\ Step

\* ... and its update writes pending, whatever the status is by now; Start follows.
Pend(k) ==
    LET t == FirstOf(thread[k].todo) IN
    /\ At(k, "pend")
    /\ tasks' = IF t \in Known
                THEN [tasks EXCEPT ![t].st = "pending", ![t].turns = @ + 1] ELSE tasks
    /\ Loop(k, "activate", thread[k].todo \ {t})
    /\ UNCHANGED <<req, issues>> /\ Step

\* startPlannedTask writes the agent of the request, then Start activates the task.
StartPlanned(u, t) ==
    /\ t \in ReadyPlanned
    /\ tasks' = [tasks EXCEPT ![t].agent = TRUE]
    /\ Loop(u, "activate", {t})
    /\ UNCHANGED <<req, issues>> /\ Request(u)

-----------------------------------------------------------------------------
(* The turns of a task, and what they feed back *)

TurnBegins(t) ==
    /\ t \in Known /\ tasks[t].turns > 0 /\ At(t, "idle")
    /\ tasks' = [tasks EXCEPT ![t] = [Moved(t, "running") EXCEPT !.turns = @ - 1]]
    /\ Go(t, "turn")
    /\ UNCHANGED <<req, issues>> /\ Step

\* completeTask and failTask go on the same way when the transition is blocked;
\* with the task gone there is nothing to feed back.
TurnEnds(t, outcome) ==
    /\ At(t, "turn")
    /\ tasks' = [tasks EXCEPT ![t] = Moved(t, outcome)]
    /\ Go(t, IF t \notin Known THEN "idle" ELSE outcome)
    /\ UNCHANGED <<req, issues>> /\ Step

\* Mutant of FixedBy: an issue that has its re-verification gets another.
FixedEver(t) == {i \in 1..Len(issues) : issues[i].fix = t /\ issues[i].st = "fixing"}
FixedBy(t) == {i \in 1..Len(issues) :
                  issues[i].fix = t /\ issues[i].st = "fixing" /\ issues[i].reverify = 0}
VerifiedBy(t) == {i \in 1..Len(issues) : issues[i].reverify = t /\ issues[i].st = "fixing"}

\* ResolveIssue; the human verdict is turned over with it.
Resolves(i) ==
    /\ issues' = [issues EXCEPT ![i].st = "resolved"]
    /\ req' = IF issues[i].st # "resolved" /\ req.human = "fail"
              THEN [req EXCEPT !.human = "pass"] ELSE req

\* OnTaskCompleted: a split session puts its proposal, if it is one; a fix leads
\* to its re-verification; a re-verification resolves its issue.
Completed(t) ==
    /\ At(t, "completed")
    /\ \/ /\ tasks[t].role = "split"
          /\ \/ \E p \in {q \in Proposals : Valid(q, {})} : Put([req EXCEPT !.proposal = p])
             \/ UNCHANGED req
          /\ Go(t, "dependents")
          /\ UNCHANGED issues
       \/ /\ tasks[t].role # "split" /\ req.st # "gone" /\ FixedBy(t) # {}
          /\ thread' = [thread EXCEPT ![t].pc = "spawn", ![t].iss = FirstOf(FixedBy(t))]
          /\ UNCHANGED <<req, issues>>
       \/ /\ tasks[t].role # "split" /\ req.st # "gone"
          /\ FixedBy(t) = {} /\ VerifiedBy(t) # {}
          /\ Resolves(FirstOf(VerifiedBy(t)))
          /\ Go(t, "dependents")
       \/ /\ tasks[t].role # "split" /\ (FixedBy(t) \cup VerifiedBy(t) = {} \/ req.st = "gone")
          /\ Go(t, "dependents")
          /\ UNCHANGED <<req, issues>>
    /\ UNCHANGED tasks /\ Step

\* spawnReverify: a test without agent that depends on the fix.
Spawn(t) ==
    /\ At(t, "spawn")
    /\ \/ Creates(t, [NoTask EXCEPT !.st = "planned", !.role = "test", !.deps = {t},
                                    !.verifies = thread[t].iss], "note")
       \/ Fails(1) /\ Go(t, "dependents") /\ UNCHANGED tasks
    /\ UNCHANGED <<req, issues>>

\* Mutant of Note: the new test is not scheduled.
NoteOnly(t) ==
    /\ At(t, "note")
    /\ issues' = IF req.st = "gone" THEN issues
                 ELSE [issues EXCEPT ![thread[t].iss].reverify = thread[t].cur]
    /\ End(t)
    /\ UNCHANGED <<req, tasks>> /\ Step

Note(t) ==
    /\ At(t, "note")
    /\ issues' = IF req.st = "gone" THEN issues
                 ELSE [issues EXCEPT ![thread[t].iss].reverify = thread[t].cur]
    /\ Go(t, "dependents")
    /\ UNCHANGED <<req, tasks>> /\ Step

Reported(t) == \E i \in 1..Len(issues) : issues[i].source = t /\ issues[i].st # "resolved"

\* OnTaskFailed: a test that no unresolved issue reports opens a blocker.
Failed(t) ==
    /\ At(t, "failed")
    /\ IF tasks[t].role = "test" /\ req.st # "gone" /\ ~Reported(t)
       THEN Begin(t, [Quiet EXCEPT !.pc = "open", !.blocker = TRUE, !.source = t])
       ELSE End(t)
    /\ UNCHANGED <<req, tasks, issues>> /\ Step

-----------------------------------------------------------------------------
(* Issues *)

Fix == [NoTask EXCEPT !.st = "planned", !.role = "fix"]

\* OpenIssue: a blocker gets its fix at once.
Open(k) ==
    /\ At(k, "open")
    /\ \/ /\ req.st \notin {"gone", "cancelled", "done"}
          /\ \/ thread[k].blocker /\ Creates(k, Fix, "append")
             \/ ~thread[k].blocker /\ Go(k, "append") /\ Step /\ UNCHANGED tasks
             \/ thread[k].blocker /\ Fails(1) /\ End(k) /\ UNCHANGED tasks
       \/ req.st \in {"gone", "cancelled", "done"} /\ End(k) /\ Step /\ UNCHANGED tasks
    /\ UNCHANGED <<req, issues>>

\* Mutant of OpenStatus: whatever its severity, the issue is being fixed.
OpenAsFixing(blocker) == "fixing"
OpenStatus(blocker) == IF blocker THEN "fixing" ELSE "open"

\* Its update; the handler of a user then starts what is ready.
Opened(k) ==
    LET d == thread[k] IN
    /\ At(k, "append")
    /\ Put(Activated)
    /\ issues' = IF req.st = "gone" \/ Len(issues) = MaxIssues THEN issues
                 ELSE Append(issues, [st |-> OpenStatus(d.blocker),
                        source |-> d.source, fix |-> d.cur, reverify |-> 0, auto |-> k \in Ids])
    /\ IF k \in Users /\ d.blocker THEN Go(k, "ready") ELSE End(k)
    /\ UNCHANGED tasks /\ Step

OpenByUser(u, blocker, source) ==
    /\ Begin(u, [Quiet EXCEPT !.pc = "open", !.blocker = blocker, !.source = source])
    /\ UNCHANGED <<req, tasks, issues>> /\ Request(u)

\* ConfirmFix: the look at the issue and the creation ...
ConfirmFix(u, i) ==
    /\ issues[i].st = "open" /\ issues[i].fix = 0 /\ req.st # "gone"
    /\ Free # {} /\ Request(u)
    /\ tasks' = [tasks EXCEPT ![FirstOf(Free)] = Fix]
    /\ Begin(u, [Quiet EXCEPT !.pc = "assign", !.iss = i, !.cur = FirstOf(Free)])
    /\ UNCHANGED <<req, issues>>

\* ... and the update, which does not look again.
Assign(u) ==
    /\ At(u, "assign")
    /\ issues' = IF req.st = "gone" THEN issues
                 ELSE [issues EXCEPT ![thread[u].iss].st = "fixing",
                                     ![thread[u].iss].fix = thread[u].cur]
    /\ Go(u, "ready")
    /\ UNCHANGED <<req, tasks>> /\ Step

Resolve(u, i) ==
    /\ req.st # "gone" /\ Resolves(i) /\ Request(u) /\ UNCHANGED <<tasks, thread>>

\* HumanVerify: a verdict of fail goes on as an issue.
HumanVerify(u, pass) ==
    /\ req.st # "gone"
    /\ req' = [req EXCEPT !.human = IF pass THEN "pass" ELSE "fail"]
    /\ IF pass THEN UNCHANGED thread ELSE Begin(u, [Quiet EXCEPT !.pc = "open"])
    /\ UNCHANGED <<tasks, issues>> /\ Request(u)

\* DeriveRequirementOutcome for one criterion that is not deferred.
CanMarkDone ==
    /\ \A i \in 1..Len(issues) : issues[i].st = "resolved"
    /\ \/ req.human = "pass"
       \/ req.human = "none" /\ \E t \in Known : tasks[t].st = "completed"
    /\ req.st \notin {"cancelled", "gone"}

MarkDone(u) ==
    /\ CanMarkDone
    /\ Begin(u, [Quiet EXCEPT !.pc = "done"])
    /\ UNCHANGED <<req, tasks, issues>> /\ Request(u)

WriteDone(u) ==
    /\ At(u, "done")
    /\ Put([req EXCEPT !.st = "done"])
    /\ End(u)
    /\ UNCHANGED <<tasks, issues>> /\ Step

-----------------------------------------------------------------------------
(* Proposals *)

\* PutProposal, for a body of nodes.
Propose(u, p) ==
    /\ req.st # "gone" /\ Valid(p, {})
    /\ req' = [req EXCEPT !.proposal = p]
    /\ UNCHANGED <<tasks, issues, thread>> /\ Request(u)

Discard(u) ==
    /\ req.proposal # <<>>
    /\ req' = [req EXCEPT !.proposal = <<>>]
    /\ UNCHANGED <<tasks, issues, thread>> /\ Request(u)

Confirm(u) ==
    /\ Begin(u, [Quiet EXCEPT !.pc = "apply"])
    /\ UNCHANGED <<req, tasks, issues>> /\ Request(u)

\* expandRequirement: the first node may wait for a task that exists.
Expand(u, p, e) ==
    LET q == [p EXCEPT ![1].on = {e}] IN
    /\ req.st # "gone" /\ e \in Known /\ Valid(q, Known)
    /\ req' = [req EXCEPT !.proposal = q]
    /\ Begin(u, [Quiet EXCEPT !.pc = "apply", !.expand = TRUE])
    /\ UNCHANGED <<tasks, issues>> /\ Request(u)

HasProgressedWork == \E t \in Work : tasks[t].st \notin {"planned", "cancelled"}

\* confirmRequirement with replace: the work tasks are cancelled one by one,
Replace(u, force) ==
    /\ force \/ ~HasProgressedWork
    /\ Begin(u, [Quiet EXCEPT !.pc = "stop", !.force = force,
                              !.todo = {t \in Work : tasks[t].st # "cancelled"}])
    /\ UNCHANGED <<req, tasks, issues>> /\ Request(u)

Cancelled(t) == [Moved(t, "cancelled") EXCEPT !.turns = 0]

Stop(u) ==
    LET t == FirstOf(thread[u].todo) IN
    /\ At(u, "stop") /\ thread[u].todo # {}
    /\ tasks' = [tasks EXCEPT ![t] = Cancelled(t)]
    /\ thread' = [thread EXCEPT ![u].todo = @ \ {t}]
    /\ UNCHANGED <<req, issues>> /\ Step

\* ConfirmReplace looks again,
Look(u) ==
    /\ At(u, "stop") /\ thread[u].todo = {}
    /\ IF thread[u].force \/ ~HasProgressedWork
       THEN Begin(u, [Quiet EXCEPT !.pc = "abandon",
               !.todo = {t \in Work : ~(tasks[t].st = "cancelled" /\ tasks[t].abandoned)}])
       ELSE End(u)
    /\ UNCHANGED <<req, tasks, issues>> /\ Step

\* and they are abandoned, whatever their outcome was.
Abandon(u) ==
    LET t == FirstOf(thread[u].todo) IN
    /\ At(u, "abandon") /\ thread[u].todo # {}
    /\ tasks' = IF t \in Known
                THEN [tasks EXCEPT ![t].st = "cancelled", ![t].abandoned = TRUE] ELSE tasks
    /\ IF t \in Known THEN thread' = [thread EXCEPT ![u].todo = @ \ {t}] ELSE End(u)
    /\ UNCHANGED <<req, issues>> /\ Step

Abandoned(u) == At(u, "abandon") /\ thread[u].todo = {}

\* applyProposal reads and validates,
Apply(u) ==
    /\ At(u, "apply") \/ Abandoned(u)
    /\ IF req.st # "gone" /\ Valid(req.proposal, IF thread[u].expand THEN Known ELSE {})
       THEN thread' = [thread EXCEPT ![u].pc = "create", ![u].nodes = req.proposal]
       ELSE End(u)
    /\ UNCHANGED <<req, tasks, issues>> /\ Step

\* The ids that n tasks get which are created one after the other.
FreshIds(n) ==
    {id \in [1..n -> Free] :
        \A i \in 1..n, t \in Free : t < id[i] <=> \E j \in 1..(i - 1) : id[j] = t}

\* The first n nodes have become tasks; a dependency that has none is 0.
PlannedTask(node, id, n) ==
    [NoTask EXCEPT !.st = "planned", !.role = node.role, !.agent = node.agent,
                   !.deps = {IF j <= n THEN id[j] ELSE 0 : j \in node.deps} \cup node.on]
Planned(p, id, n) ==
    [t \in Ids |-> IF \E i \in 1..n : id[i] = t
                   THEN PlannedTask(p[CHOOSE i \in 1..n : id[i] = t], id, n) ELSE tasks[t]]

\* and creates one task for each node; one that fails leaves those before it,
\* which may depend on a task 0 that never comes to be.
Create(u) ==
    LET p == thread[u].nodes IN
    /\ At(u, "create")
    /\ \/ \E id \in FreshIds(Len(p)) :
            \/ /\ tasks' = Planned(p, id, Len(p))
               /\ Begin(u, [Quiet EXCEPT !.pc = "record", !.expand = thread[u].expand])
               /\ Step
            \/ /\ \E n \in 0..(Len(p) - 1) : tasks' = Planned(p, id, n)
               /\ Fails(0) /\ End(u)
       \/ Len(p) > Cardinality(Free) /\ End(u) /\ UNCHANGED tasks /\ Step
    /\ UNCHANGED <<req, issues>>

\* The branch and the update of the requirement, whatever its status is.
Record(u) ==
    /\ At(u, "record")
    /\ \/ /\ Put([req EXCEPT !.st = "active", !.branch = @ \/ ~thread[u].expand])
          /\ IF req.st = "gone" THEN End(u) ELSE Go(u, "discard")
          /\ Step
       \/ ~thread[u].expand /\ ~req.branch /\ Fails(0) /\ End(u) /\ UNCHANGED req
    /\ UNCHANGED <<tasks, issues>>

DiscardApplied(u) ==
    /\ At(u, "discard")
    /\ req' = [req EXCEPT !.proposal = <<>>]
    /\ Begin(u, [Quiet EXCEPT !.pc = "ready"])
    /\ UNCHANGED <<tasks, issues>> /\ Step

\* suggestRequirementSplit: a session in progress is returned, and started again
\* if it is pending.
Suggest(u) ==
    LET open == {t \in Known : tasks[t].role = "split" /\ tasks[t].st \in Live} IN
    /\ req.st \notin {"gone", "cancelled", "done"} /\ Request(u)
    /\ \/ /\ open = {} /\ Free # {}
          /\ tasks' = [tasks EXCEPT ![FirstOf(Free)] =
                          [NoTask EXCEPT !.st = "pending", !.role = "split", !.agent = TRUE]]
          /\ Begin(u, [Quiet EXCEPT !.pc = "suggest", !.cur = FirstOf(Free)])
       \/ \E t \in open :
            /\ tasks[t].st = "pending"
            /\ tasks' = [tasks EXCEPT ![t].turns = @ + 1]
            /\ UNCHANGED thread
    /\ UNCHANGED <<req, issues>>

StartSuggest(u) ==
    /\ At(u, "suggest")
    /\ Put(Activated)
    /\ tasks' = [tasks EXCEPT ![thread[u].cur].turns = @ + 1]
    /\ End(u)
    /\ UNCHANGED issues /\ Step

-----------------------------------------------------------------------------
(* Other requests *)

\* Promote: a task of no requirement joins, perhaps in the middle of a turn.
Promote(u, st) ==
    /\ req.st # "gone" /\ Free # {} /\ Request(u)
    /\ tasks' = [tasks EXCEPT ![FirstOf(Free)] =
                    [NoTask EXCEPT !.st = st, !.agent = TRUE, !.done = st = "completed"]]
    /\ thread' = [thread EXCEPT ![u].pc = "promote",
                                ![FirstOf(Free)].pc = IF st = "running" THEN "turn" ELSE "idle"]
    /\ UNCHANGED <<req, issues>>

Promoted(u) ==
    /\ At(u, "promote")
    /\ Put(Activated)
    /\ End(u)
    /\ UNCHANGED <<tasks, issues>> /\ Step

\* A follow-up prompt for a task with an outcome.
Resume(u, t) ==
    /\ t \in Known /\ tasks[t].st \in Terminal
    /\ tasks' = [tasks EXCEPT ![t].turns = @ + 1, ![t].again = TRUE]
    /\ UNCHANGED <<req, issues, thread>> /\ Request(u)

Cancel(u, t) ==
    /\ t \in Known
    /\ tasks' = [tasks EXCEPT ![t] = Cancelled(t)]
    /\ UNCHANGED <<req, issues, thread>> /\ Request(u)

Delete(u, t) ==
    /\ t \in Known
    /\ tasks' = [tasks EXCEPT ![t] = [Cancelled(t) EXCEPT !.st = "deleted"]]
    /\ UNCHANGED <<req, issues, thread>> /\ Request(u)

Patch(u, st) ==
    /\ req.st # "gone"
    /\ req' = [req EXCEPT !.st = st]
    /\ UNCHANGED <<tasks, issues, thread>> /\ Request(u)

DeleteRequirement(u) ==
    /\ req.st # "gone"
    /\ req' = [req EXCEPT !.st = "gone"]
    /\ UNCHANGED <<tasks, issues, thread>> /\ Request(u)

-----------------------------------------------------------------------------

Advances(k) ==
    \/ StartReady(k) \/ Activate(k) \/ Pend(k) \/ Open(k) \/ Opened(k)

FeedsBack(t) ==
    \/ TurnBegins(t) \/ Completed(t) \/ Spawn(t) \/ Note(t) \/ Failed(t) \/ Dependents(t)

Handles(u) ==
    \/ Assign(u) \/ WriteDone(u) \/ Stop(u) \/ Look(u) \/ Abandon(u) \/ Apply(u) \/ Create(u)
    \/ Record(u) \/ DiscardApplied(u) \/ StartSuggest(u) \/ Promoted(u)

Requested(u) ==
    \/ \E b \in BOOLEAN :
         HumanVerify(u, b) \/ Replace(u, b) \/ \E s \in {0} \cup {t \in Known : tasks[t].role = "test"} : OpenByUser(u, b, s)
    \/ \E i \in 1..Len(issues) : ConfirmFix(u, i) \/ Resolve(u, i)
    \/ \E p \in Proposals : Propose(u, p) \/ \E e \in Ids : Expand(u, p, e)
    \/ \E t \in Ids : StartPlanned(u, t) \/ Resume(u, t) \/ Cancel(u, t) \/ Delete(u, t)
    \/ \E st \in {"done", "cancelled"} : Patch(u, st)
    \/ \E st \in {"running", "completed"} : Promote(u, st)
    \/ MarkDone(u) \/ Discard(u) \/ Confirm(u) \/ Suggest(u) \/ DeleteRequirement(u)

Next ==
    \/ \E k \in Threads : Advances(k)
    \/ \E t \in Ids : FeedsBack(t) \/ TurnEnds(t, "completed") \/ TurnEnds(t, "failed")
    \/ \E u \in Users : Handles(u) \/ Requested(u)

Spec == Init /\ [][Next]_vars

-----------------------------------------------------------------------------
(* Properties *)

Status == {"none", "planned", "deleted"} \cup Live \cup Terminal

\* Every part of the plane is well formed, and no queue of turns grows beyond
\* the requests and threads that fill it.
TypeOK ==
    /\ req.st \in {"draft", "active", "done", "cancelled", "gone"}
    /\ req.human \in {"none", "pass", "fail"}
    /\ \A t \in Ids :
         /\ tasks[t].st \in Status /\ tasks[t].deps \subseteq (Ids \cup {0}) \ {t}
         /\ tasks[t].turns \in 0..(MaxRequests + Cardinality(Threads))
    /\ Len(issues) <= MaxIssues
    /\ \A i \in 1..Len(issues) :
         /\ issues[i].fix \in Ids \cup {0} /\ issues[i].reverify \in Ids \cup {0}
         /\ issues[i].st = "fixing" => issues[i].fix # 0
    /\ \A k \in Threads : thread[k].todo \subseteq Ids /\ thread[k].cur \in 0..MaxTasks
    /\ requests <= MaxRequests /\ faults <= MaxFaults

\* A task that is under way, or came to an end, had each of its dependencies
\* completed before, unless a user cancelled and resumed it himself: neither
\* racing completions, expansions nor replacements start one early
\* (dag_schedule.go, DepsSatisfied).
DependenciesFirst ==
    \A t \in Known : tasks[t].st \in Live \cup {"completed", "failed"} /\ ~tasks[t].again =>
        \A d \in tasks[t].deps : d # 0 /\ tasks[d].done

\* However often turns are repeated, cancelled and resumed, and however many users
\* confirm the fix of one issue at a time: no fix is re-verified twice, an issue of
\* the runner gets one re-verification, and a failing test has one unresolved issue
\* that the runner opened for it (OnTaskCompleted and OnTaskFailed). An issue that two
\* users confirm may get one re-verification for each of their fixes, since the second
\* overwrites the fix that the issue names (Assign).
FeedbackOnce ==
    /\ \A s, t \in Ids :
          tasks[s].verifies # 0 /\ tasks[t].verifies # 0 /\ tasks[s].deps = tasks[t].deps => s = t
    /\ \A i, j \in 1..Len(issues) :
          /\ issues[i].auto => Cardinality({t \in Ids : tasks[t].verifies = i}) <= 1
          /\ i # j /\ issues[i].auto /\ issues[j].auto /\ issues[i].source = issues[j].source
               => "resolved" \in {issues[i].st, issues[j].st}

Due(t) == tasks[t].st = "planned" /\ tasks[t].deps # {} /\ t \in ReadyPlanned

\* Thread k will look for task t, or has found it.
Minds(k, t) ==
    \/ t \in thread[k].todo /\ thread[k].pc \in {"activate", "pend"}
    \/ thread[k].pc \in {"record", "discard", "ready"}
    \/ k \in tasks[t].deps /\ thread[k].pc \in {"completed", "spawn", "note", "dependents"}

\* A planned task whose dependencies are all completed is never forgotten: while
\* it is due, some thread is committed to start it, also if it is a
\* re-verification that its fix has just created, and whichever of several
\* dependencies completes last.  One that an expansion adds needs an agent, and
\* nobody minds after a creation that failed half-way or a deleted requirement
\* (scheduleReadyDependents comes after OnTaskCompleted in completeTask).
DueIsMinded ==
    faults = 0 /\ req.st # "gone" =>
        \A t \in Ids : Due(t) /\ (tasks[t].verifies # 0 \/ tasks[t].agent)
                         => \E k \in Threads : Minds(k, t)

\* Only a planned task is set pending by the schedule: one that was abandoned by
\* a replacement, or is started by a user meanwhile, is left alone.
OnlyPlannedIsActivated ==
    [][\A t \in Ids : tasks'[t].st = "pending" /\ tasks[t].st # "pending"
           => tasks[t].st \in {"none", "planned"}]_vars

=============================================================================
