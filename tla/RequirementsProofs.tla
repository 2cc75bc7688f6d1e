------------------------- MODULE RequirementsProofs -------------------------
(***************************************************************************)
(* Theorems about Requirements for any number of users, tasks, issues and  *)
(* proposals: the ranges and the bound of the queues of turns, that no     *)
(* task starts before its dependencies, that an outcome is fed back once,  *)
(* and that a task that is due is never forgotten.                         *)
(*                                                                         *)
(* What a task is, on whom it depends and what it verifies is settled when *)
(* it is created; that it was completed once and that a user resumed it    *)
(* stay true.  The invariants rest on these, since a thread acts on what   *)
(* it read some steps ago.                                                 *)
(***************************************************************************)
EXTENDS Requirements, FiniteSetTheorems, WellFoundedInduction, TLAPS

Taken(t) == tasks[t].st # "none"

NodesOn == [role : {"impl", "test"}, deps : SUBSET Nat, on : SUBSET Ids, agent : BOOLEAN]

TaskType ==
    [st : Status, role : {"impl", "test", "split", "fix"}, deps : SUBSET (Ids \cup {0}),
     agent : BOOLEAN, turns : Nat, abandoned : BOOLEAN, verifies : Nat, done : BOOLEAN,
     again : BOOLEAN]

\* An issue that is being fixed has its fix.
IssueType ==
    {i \in [st : {"open", "fixing", "resolved"}, source : Ids \cup {0}, fix : Ids \cup {0},
             reverify : Ids \cup {0}, auto : BOOLEAN] : i.st = "fixing" => i.fix \in Ids}

Places ==
    {"idle", "ready", "activate", "pend", "turn", "completed", "failed", "spawn", "note",
     "dependents", "open", "append", "assign", "done", "stop", "abandon", "apply", "create",
     "record", "discard", "suggest", "promote"}

ThreadType ==
    [pc : Places, todo : SUBSET Ids, cur : Ids \cup {0}, iss : Nat, nodes : Seq(NodesOn),
     expand : BOOLEAN, force : BOOLEAN, blocker : BOOLEAN, source : Ids \cup {0}]

ReqType ==
    [st : {"draft", "active", "done", "cancelled", "gone"}, human : {"none", "pass", "fail"},
     branch : BOOLEAN, proposal : Seq(NodesOn)]

Typed ==
    /\ req \in ReqType
    /\ tasks \in [Ids -> TaskType]
    /\ issues \in Seq(IssueType) /\ Len(issues) <= MaxIssues
    /\ thread \in [Threads -> ThreadType]
    /\ requests \in 0..MaxRequests /\ faults \in 0..MaxFaults

\* What is not created yet is a fresh task, with a thread at rest, and nobody
\* knows it.
Fresh ==
    \A t \in Free :
        /\ tasks[t] = NoTask /\ thread[t] = Quiet
        /\ \A o \in Ids : t \notin tasks[o].deps
        /\ \A k \in Threads :
              /\ t \notin thread[k].todo
              /\ thread[k].pc = "suggest" => thread[k].cur # t

\* What is going to be created depends on what is there, and on no later node.
Plans ==
    \A k \in Threads : thread[k].pc = "create" =>
        \A i \in 1..Len(thread[k].nodes) :
            /\ thread[k].nodes[i].deps \subseteq 1..Len(thread[k].nodes) \ {i}
            /\ thread[k].nodes[i].on \cap Free = {}

\* The places of the two kinds of threads, and what they hold there.
Roles ==
    /\ \A u \in Users : thread[u].pc \notin {"turn", "completed", "failed", "spawn", "note", "dependents"}
    /\ \A t \in Ids : thread[t].pc \in {"idle", "activate", "pend", "turn", "completed", "failed", "spawn",
                                        "note", "dependents", "open", "append"}
    /\ \A k \in Threads : thread[k].pc \in {"activate", "pend"} => thread[k].todo # {}
    /\ \A k \in Threads :
          /\ thread[k].pc \in {"suggest", "assign", "note"} => thread[k].cur \in Ids
          /\ thread[k].pc = "append" /\ thread[k].blocker => thread[k].cur \in Ids
          /\ thread[k].pc \in {"assign", "spawn", "note"} => thread[k].iss \in 1..Len(issues)

\* Nobody depends on himself.
NoneOnItself == \A t \in Ids : t \notin tasks[t].deps

\* Task t may be started: what it depends on was completed, or a user resumed it.
Earned(t) == tasks[t].again \/ \A d \in tasks[t].deps : d # 0 /\ tasks[d].done

Started == Live \cup {"completed", "failed"}

\* Whoever starts a task, or is going to, has reason to.
Starts ==
    /\ \A t \in Ids :
          /\ tasks[t].st \in Started \/ tasks[t].turns > 0 \/ thread[t].pc = "turn" => Earned(t)
          /\ tasks[t].st = "completed" => tasks[t].done
    /\ \A k \in Threads :
          /\ thread[k].pc = "pend" => Earned(FirstOf(thread[k].todo))
          /\ thread[k].pc = "suggest" => Earned(thread[k].cur)

\* The threads that are about to give task t a turn.
Givers(t) ==
    {k \in Threads : \/ thread[k].pc = "pend" /\ FirstOf(thread[k].todo) = t
                     \/ thread[k].pc = "suggest" /\ thread[k].cur = t}

\* A turn of a task was asked for by a request, or comes from one of the threads.
Turns ==
    /\ \A t \in Ids :
          /\ tasks[t].turns + Cardinality(Givers(t)) <= requests + Cardinality(Threads)
          /\ tasks[t].st \in {"none", "planned"} => tasks[t].turns = 0
    /\ \A k \in Threads : thread[k].pc = "suggest" => tasks[thread[k].cur].st # "planned"

\* Who has not only the intention, but the very task, or its dependency, in hand.
Holds(k, t) ==
    \/ t \in thread[k].todo /\ thread[k].pc \in {"activate", "pend"}
    \/ k \in tasks[t].deps /\ thread[k].pc \in {"completed", "spawn", "note", "dependents"}

Minded ==
    faults = 0 /\ req.st # "gone" =>
        \A t \in Ids : Due(t) =>
            /\ tasks[t].verifies # 0 => \E k \in Threads : Holds(k, t)
            /\ tasks[t].agent => \E k \in Threads : Minds(k, t)

\* The issues that are fixed once: those of the runner are blockers and get their
\* fix as they are opened; of the others two users may confirm two fixes.
Once(i) == issues[i].auto

Issues ==
    /\ \A i \in 1..Len(issues) :
          /\ issues[i].auto => issues[i].st # "open"
          /\ issues[i].fix = 0 => issues[i].reverify = 0
    /\ \A u \in Users : thread[u].pc = "assign" => ~issues[thread[u].iss].auto

Unresolved(t) == \E i \in 1..Len(issues) : issues[i].auto /\ issues[i].source = t /\ issues[i].st # "resolved"

\* A failing test has one unresolved issue of the runner, and opens it itself.
OneBlocker ==
    /\ \A t \in Ids : thread[t].pc \in {"open", "append"} =>
          thread[t].source = t /\ thread[t].blocker /\ ~Unresolved(t)
    /\ \A i, j \in 1..Len(issues) :
          i # j /\ issues[i].auto /\ issues[j].auto /\ issues[i].source = issues[j].source
             => "resolved" \in {issues[i].st, issues[j].st}

\* The re-verification of issue i is noted, or its fix is about to do so.
Verified(i) ==
    \/ issues[i].reverify # 0 \/ req.st = "gone"
    \/ /\ issues[i].fix \in Ids
       /\ thread[issues[i].fix].pc = "note" /\ thread[issues[i].fix].iss = i

\* Whoever creates a re-verification is the fix of an issue that has none.
OneReverification ==
    /\ \A t \in Ids : tasks[t].verifies # 0 =>
          tasks[t].verifies \in 1..Len(issues) /\ (Once(tasks[t].verifies) => Verified(tasks[t].verifies))
    /\ \A t \in Ids : thread[t].pc \in {"spawn", "note"} =>
          /\ issues[thread[t].iss].fix \in Ids
          /\ Once(thread[t].iss) => issues[thread[t].iss].fix = t /\ issues[thread[t].iss].reverify = 0
    /\ \A t, o \in Ids : thread[t].pc = "spawn" /\ Once(thread[t].iss) => tasks[o].verifies # thread[t].iss
    /\ \A t, o \in Ids : tasks[t].verifies # 0 /\ tasks[t].verifies = tasks[o].verifies /\ Once(tasks[t].verifies)
          => t = o

Feeds == Issues /\ OneBlocker /\ OneReverification

Part1 == Typed /\ Fresh /\ Plans /\ Roles /\ NoneOnItself

-----------------------------------------------------------------------------
(* The operators the steps are made of *)

Upto(S, x) == {o \in S : o <= x}

LEMMA UptoGrows ==
  ASSUME NEW S \in SUBSET Nat, NEW x \in S, NEW y \in S, y < x
  PROVE  <<Upto(S, y), Upto(S, x)>> \in StrictSubsetOrdering(Nat)
  <1>0. \A z \in S : z \in Nat /\ (z <= y => z <= x)
    OBVIOUS
  <1>1. Upto(S, y) \subseteq Upto(S, x)
    BY <1>0 DEF Upto
  <1>2. x \in Upto(S, x) /\ x \notin Upto(S, y)
    BY DEF Upto
  <1>3. Upto(S, y) \in SUBSET Nat /\ Upto(S, x) \in SUBSET Nat
    BY DEF Upto
  <1>4. \A U, V \in SUBSET Nat : U \subseteq V /\ U # V => <<U, V>> \in StrictSubsetOrdering(Nat)
    BY DEF StrictSubsetOrdering
  <1>5. Upto(S, y) # Upto(S, x)
    BY <1>2
  <1> QED BY <1>1, <1>3, <1>4, <1>5

\* The oldest of some tasks, or issues, is one of them.
LEMMA FirstIsThere ==
  ASSUME NEW S \in SUBSET Nat, S # {}
  PROVE  FirstOf(S) \in S /\ \A j \in S : FirstOf(S) <= j
  <1> DEFINE T == {Upto(S, x) : x \in S}
  <1>1. \A x \in S : Upto(S, x) \in FiniteSubsetsOf(Nat)
    BY FS_BoundedSetOfNaturals DEF FiniteSubsetsOf, Upto
  <1>2. T \subseteq FiniteSubsetsOf(Nat) /\ T # {}
    BY <1>1
  <1>3. PICK m \in T : \A y \in T : <<y, m>> \notin StrictSubsetOrdering(Nat)
    <2>1. IsWellFoundedOn(StrictSubsetOrdering(Nat), FiniteSubsetsOf(Nat))
      BY FS_StrictSubsetOrderingWellFounded
    <2> HIDE DEF T
    <2> QED BY <1>2, <2>1, WFMin
  <1>4. PICK x \in S : m = Upto(S, x)
    BY <1>3
  <1>5. \A y \in S : ~(y < x)
    BY <1>3, <1>4, UptoGrows
  <1>6. \A y \in S : x <= y
    BY <1>5
  <1> QED BY <1>6 DEF FirstOf

LEMMA FirstTask ==
  /\ \A S \in SUBSET Ids : S # {} => FirstOf(S) \in S
  /\ Free # {} => FirstOf(Free) \in Free
  BY FirstIsThere, RequirementsAssumption DEF Free, Ids

-----------------------------------------------------------------------------
(* What every step does to the tasks and the threads *)

\* What is settled when a task is created stays.
Kept(t) ==
    /\ tasks'[t].st # "none"
    /\ tasks'[t].deps = tasks[t].deps /\ tasks'[t].verifies = tasks[t].verifies
    /\ tasks[t].done => tasks'[t].done
    /\ tasks[t].again => tasks'[t].again

Born(t) ==
    /\ tasks'[t].st # "none" /\ t \notin tasks'[t].deps
    /\ \A d \in tasks'[t].deps : d \in Ids => tasks'[d].st # "none"

Evolves ==
    /\ tasks' \in [Ids -> TaskType]
    /\ \A t \in Ids : IF Taken(t) THEN Kept(t) ELSE tasks'[t] = tasks[t] \/ Born(t)

NodesHold(nodes) ==
    \A i \in 1..Len(nodes) :
        /\ nodes[i].deps \subseteq 1..Len(nodes) \ {i}
        /\ \A t \in nodes[i].on : tasks'[t].st # "none"

\* What thread k holds, and where: only tasks that are there, and only its places.
Allowed(k, d) ==
    /\ k \in Ids => tasks'[k].st # "none"
    /\ \A t \in d.todo : tasks'[t].st # "none"
    /\ d.pc \in {"suggest", "assign", "note"} => d.cur \in Ids
    /\ d.pc = "append" /\ d.blocker => d.cur \in Ids
    /\ d.pc \in {"assign", "spawn", "note"} => d.iss \in 1..Len(issues')
    /\ d.pc = "suggest" => tasks'[d.cur].st # "none"
    /\ k \in Users => d.pc \notin {"turn", "completed", "failed", "spawn", "note", "dependents"}
    /\ k \in Ids => d.pc \in {"idle", "activate", "pend", "turn", "completed", "failed", "spawn",
                             "note", "dependents", "open", "append"}
    /\ d.pc \in {"activate", "pend"} => d.todo # {}
    /\ d.pc = "create" => NodesHold(d.nodes)

Turnover ==
    /\ thread' \in [Threads -> ThreadType]
    /\ \A k \in Threads : thread'[k] = thread[k] \/ Allowed(k, thread'[k])

Ranges ==
    /\ req' \in ReqType
    /\ issues' \in Seq(IssueType) /\ Len(issues') <= MaxIssues /\ Len(issues) <= Len(issues')
    /\ requests' \in 0..MaxRequests /\ faults' \in 0..MaxFaults
    /\ requests <= requests' /\ faults <= faults'

Frame == Evolves /\ Turnover /\ Ranges

LEMMA FrameStep ==
  ASSUME Part1, Frame
  PROVE  Part1'
  <1> USE DEF Part1, Frame
  <1>1. Typed'
    BY DEF Evolves, Turnover, Ranges, Typed
  <1>2. \A t \in Ids : Taken(t) => Taken(t)'
    BY DEF Evolves, Kept, Taken
  <1>3. Free' \subseteq Free /\ \A t \in Ids : t \in Free <=> ~Taken(t)
    BY <1>2 DEF Free, Taken
  <1>4. \A t \in Free' : tasks'[t] = tasks[t] /\ t \in Ids
    BY <1>3 DEF Evolves, Born, Free
  <1>5. Fresh'
    <2> SUFFICES ASSUME NEW t \in Free'
                 PROVE  /\ tasks'[t] = NoTask /\ thread'[t] = Quiet
                        /\ \A o \in Ids : t \notin tasks'[o].deps
                        /\ \A k \in Threads : /\ t \notin thread'[k].todo
                                              /\ thread'[k].pc = "suggest" => thread'[k].cur # t
      BY DEF Fresh
    <2>1. t \in Free /\ tasks'[t] = tasks[t] /\ t \in Ids /\ t \in Threads /\ tasks'[t].st = "none"
      BY <1>3, <1>4 DEF Free, Threads
    <2>2. tasks'[t] = NoTask /\ thread'[t] = Quiet
      BY <2>1 DEF Fresh, Turnover, Allowed
    <2>3. ASSUME NEW o \in Ids PROVE t \notin tasks'[o].deps
      BY <2>1 DEF Fresh, Evolves, Kept, Born
    <2>4. ASSUME NEW k \in Threads
          PROVE  /\ t \notin thread'[k].todo
                 /\ thread'[k].pc = "suggest" => thread'[k].cur # t
      BY <2>1 DEF Fresh, Turnover, Allowed
    <2> QED BY <2>2, <2>3, <2>4
  <1>6. Plans'
    <2> SUFFICES ASSUME NEW k \in Threads, thread'[k].pc = "create", NEW i \in 1..Len(thread'[k].nodes)
                 PROVE  /\ thread'[k].nodes[i].deps \subseteq 1..Len(thread'[k].nodes) \ {i}
                        /\ thread'[k].nodes[i].on \cap Free' = {}
      BY DEF Plans
    <2>1. CASE thread'[k] = thread[k]
      BY <1>3, <2>1 DEF Plans
    <2>2. CASE Allowed(k, thread'[k])
      BY <1>4, <2>2 DEF Allowed, NodesHold, Free
    <2> QED BY <2>1, <2>2 DEF Turnover
  <1>7. Roles'
    <2>1. Len(issues) \in Nat /\ Len(issues') \in Nat /\ Len(issues) <= Len(issues')
      BY DEF Ranges, Typed
    <2>2. 1..Len(issues) \subseteq 1..Len(issues')
      BY <2>1
    <2>3. \A k \in Threads : thread'[k] = thread[k] \/ Allowed(k, thread'[k])
      BY DEF Turnover
    <2>4. (\A u \in Users : thread[u].pc \notin {"turn", "completed", "failed", "spawn", "note", "dependents"})'
      BY <2>3, RequirementsAssumption DEF Roles, Allowed, Threads
    <2>5. (\A t \in Ids : thread[t].pc \in {"idle", "activate", "pend", "turn", "completed", "failed", "spawn",
                                             "note", "dependents", "open", "append"})'
      BY <2>3, RequirementsAssumption DEF Roles, Allowed, Threads
    <2>6. ASSUME NEW k \in Threads
          PROVE  /\ thread'[k].pc \in {"activate", "pend"} => thread'[k].todo # {}
                 /\ thread'[k].pc \in {"suggest", "assign", "note"} => thread'[k].cur \in Ids
                 /\ thread'[k].pc = "append" /\ thread'[k].blocker => thread'[k].cur \in Ids
                 /\ thread'[k].pc \in {"assign", "spawn", "note"} => thread'[k].iss \in 1..Len(issues')
      BY <2>2, <2>3 DEF Roles, Allowed
    <2> QED BY <2>4, <2>5, <2>6 DEF Roles
  <1>8. NoneOnItself'
    BY DEF NoneOnItself, Evolves, Kept, Born
  <1> QED BY <1>1, <1>5, <1>6, <1>7, <1>8

LEMMA QuietIs ==
  /\ Quiet \in ThreadType
  /\ Quiet.pc = "idle" /\ Quiet.todo = {} /\ Quiet.cur = 0 /\ Quiet.iss = 0 /\ Quiet.nodes = <<>>
  /\ Quiet.source = 0 /\ Quiet.blocker = FALSE /\ Quiet.expand = FALSE
  BY RequirementsAssumption DEF Quiet, ThreadType, Places, Ids

LEMMA NoTaskIs == NoTask \in TaskType
  BY RequirementsAssumption DEF NoTask, TaskType, Status, Ids

\* Thread k goes on to d, all others stay.
Moves(k, d) ==
    /\ thread' \in [Threads -> ThreadType] /\ thread'[k] = d
    /\ \A o \in Threads \ {k} : thread'[o] = thread[o]

LEMMA BeginMoves ==
  ASSUME Typed, NEW k \in Threads, NEW d \in ThreadType, Begin(k, d)
  PROVE  Moves(k, d)
  BY DEF Typed, Begin, Moves

LEMMA EndMoves ==
  ASSUME Typed, NEW k \in Threads, End(k)
  PROVE  Moves(k, Quiet)
  BY QuietIs DEF Typed, End, Moves

At1(d, l) == [d EXCEPT !.pc = l]

LEMMA GoMoves ==
  ASSUME Typed, NEW k \in Threads, NEW l \in Places, Go(k, l)
  PROVE  /\ Moves(k, At1(thread[k], l))
         /\ thread'[k].pc = l /\ thread'[k].todo = thread[k].todo /\ thread'[k].cur = thread[k].cur
         /\ thread'[k].iss = thread[k].iss /\ thread'[k].nodes = thread[k].nodes
         /\ thread'[k].source = thread[k].source /\ thread'[k].blocker = thread[k].blocker
  <1>1. thread[k] \in ThreadType
    BY DEF Typed
  <1>2. /\ At1(thread[k], l) \in ThreadType
        /\ At1(thread[k], l).pc = l /\ At1(thread[k], l).todo = thread[k].todo
        /\ At1(thread[k], l).cur = thread[k].cur /\ At1(thread[k], l).iss = thread[k].iss
        /\ At1(thread[k], l).nodes = thread[k].nodes /\ At1(thread[k], l).source = thread[k].source
        /\ At1(thread[k], l).blocker = thread[k].blocker
    BY <1>1 DEF At1, ThreadType
  <1>3. thread' = [thread EXCEPT ![k] = At1(thread[k], l)]
    BY DEF Go, At1
  <1>4. Moves(k, At1(thread[k], l))
    BY <1>2, <1>3 DEF Typed, Moves
  <1> QED BY <1>2, <1>4 DEF Moves

LEMMA LoopMoves ==
  ASSUME Typed, NEW k \in Threads, NEW l \in Places, NEW S \in SUBSET Ids, Loop(k, l, S)
  PROVE  /\ Moves(k, IF S = {} THEN Quiet ELSE [Quiet EXCEPT !.pc = l, !.todo = S])
         /\ thread'[k].todo = S /\ thread'[k].pc = IF S = {} THEN "idle" ELSE l
  <1>1. [Quiet EXCEPT !.pc = l, !.todo = S] \in ThreadType
    BY QuietIs DEF ThreadType
  <1>2. /\ [Quiet EXCEPT !.pc = l, !.todo = S].todo = S
        /\ [Quiet EXCEPT !.pc = l, !.todo = S].pc = l
    BY DEF Quiet
  <1>3. Moves(k, IF S = {} THEN Quiet ELSE [Quiet EXCEPT !.pc = l, !.todo = S])
    BY <1>1, QuietIs DEF Typed, Loop, Moves
  <1> QED BY <1>2, <1>3, QuietIs DEF Moves

LEMMA MovesTurnover ==
  ASSUME Typed, NEW k \in Threads, NEW d, Moves(k, d), Allowed(k, thread'[k])
  PROVE  Turnover
  BY DEF Moves, Turnover

LEMMA NoneMoves ==
  ASSUME Typed, UNCHANGED thread
  PROVE  Turnover
  BY DEF Typed, Turnover

LEMMA StayEvolves ==
  ASSUME Typed, UNCHANGED tasks
  PROVE  Evolves
  BY DEF Typed, Evolves, Kept, Taken

\* Requests of a user that touch no task.
LEMMA BeginFrame ==
  ASSUME Part1, Ranges, UNCHANGED tasks, NEW u \in Users, NEW d \in ThreadType, Begin(u, d),
         d.pc \in {"open", "done", "apply", "stop", "abandon", "record", "ready"},
         d.todo \subseteq Known
  PROVE  Frame
  <1>1. u \in Threads /\ u \notin Ids
    BY RequirementsAssumption DEF Threads
  <1>2. Moves(u, d) /\ thread'[u] = d
    BY <1>1, BeginMoves DEF Part1, Moves
  <1>3. \A t \in d.todo : tasks'[t].st # "none"
    BY DEF Known
  <1>4. Allowed(u, thread'[u])
    BY <1>1, <1>2, <1>3 DEF Allowed
  <1> QED BY <1>1, <1>2, <1>4, MovesTurnover, StayEvolves DEF Part1, Frame

LEMMA ProposalTypes ==
  ASSUME NEW p \in Proposals
  PROVE  /\ p \in Seq(NodesOn)
         /\ \A e \in Ids : [p EXCEPT ![1].on = {e}] \in Seq(NodesOn)
  <1>1. p \in Seq(Nodes) /\ p # <<>>
    BY ProposalsAssumption
  <1>2. \A n \in Nodes : n \in NodesOn /\ \A e \in Ids : [n EXCEPT !.on = {e}] \in NodesOn
    BY DEF Nodes, NodesOn
  <1>3. p \in Seq(NodesOn)
    BY <1>1, <1>2
  <1>4. ASSUME NEW e \in Ids PROVE [p EXCEPT ![1].on = {e}] \in Seq(NodesOn)
    <2>1. 1 \in DOMAIN p /\ p[1] \in Nodes
      BY <1>1
    <2>2. [p EXCEPT ![1].on = {e}] = [p EXCEPT ![1] = [p[1] EXCEPT !.on = {e}]]
      BY <2>1
    <2> QED BY <1>2, <1>3, <2>1, <2>2
  <1> QED BY <1>3, <1>4

LEMMA ReqTypes ==
  ASSUME Typed
  PROVE  /\ \A h \in {"none", "pass", "fail"} : [req EXCEPT !.human = h] \in ReqType
         /\ \A st \in {"draft", "active", "done", "cancelled", "gone"} : [req EXCEPT !.st = st] \in ReqType
         /\ \A p \in Seq(NodesOn) : [req EXCEPT !.proposal = p] \in ReqType
         /\ \A b \in BOOLEAN : [req EXCEPT !.st = "active", !.branch = b] \in ReqType
         /\ req \in ReqType /\ Activated \in ReqType
  BY DEF Typed, ReqType, Activated

LEMMA Asked ==
  ASSUME Typed, NEW u \in Users, Request(u), req' \in ReqType, issues' \in Seq(IssueType),
         Len(issues') <= MaxIssues, Len(issues) <= Len(issues')
  PROVE  Ranges
  BY RequirementsAssumption DEF Typed, Request, Ranges

LEMMA Stepped ==
  ASSUME Typed, Step \/ (\E n : Fails(n)), req' \in ReqType, issues' \in Seq(IssueType),
         Len(issues') <= MaxIssues, Len(issues) <= Len(issues')
  PROVE  Ranges
  BY RequirementsAssumption DEF Typed, Step, Fails, Ranges

\* Users who ask for something that touches no task.
AsksOnly(u) ==
    \/ \E b \in BOOLEAN : HumanVerify(u, b) \/ Replace(u, b)
                          \/ \E s \in {0} \cup {t \in Known : tasks[t].role = "test"} : OpenByUser(u, b, s)
    \/ \E i \in 1..Len(issues) : Resolve(u, i)
    \/ \E p \in Proposals : Propose(u, p) \/ \E e \in Ids : Expand(u, p, e)
    \/ \E st \in {"done", "cancelled"} : Patch(u, st)
    \/ MarkDone(u) \/ Discard(u) \/ Confirm(u) \/ DeleteRequirement(u)

LEMMA ResolvesTypes ==
  ASSUME Typed, NEW i \in 1..Len(issues), Resolves(i)
  PROVE  /\ issues' \in Seq(IssueType) /\ Len(issues') = Len(issues) /\ req' \in ReqType
         /\ req'.st = req.st
         /\ \A j \in 1..Len(issues) :
               /\ issues'[j].st = IF j = i THEN "resolved" ELSE issues[j].st
               /\ issues'[j].fix = issues[j].fix /\ issues'[j].reverify = issues[j].reverify
               /\ issues'[j].auto = issues[j].auto /\ issues'[j].source = issues[j].source
  <1>0. issues[i] \in IssueType
    BY DEF Typed
  <1>1. issues[i] \in IssueType /\ [issues[i] EXCEPT !.st = "resolved"] \in IssueType
    BY <1>0 DEF IssueType
  <1>2. issues' = [issues EXCEPT ![i] = [issues[i] EXCEPT !.st = "resolved"]]
    BY DEF Resolves
  <1>3. issues' \in Seq(IssueType) /\ Len(issues') = Len(issues)
    BY <1>1, <1>2 DEF Typed
  <1>4. req' \in ReqType /\ req'.st = req.st
    BY ReqTypes DEF Resolves, Typed, ReqType
  <1>5. \A j \in 1..Len(issues) : issues'[j] = IF j = i THEN [issues[i] EXCEPT !.st = "resolved"] ELSE issues[j]
    BY <1>2 DEF Typed
  <1> QED BY <1>1, <1>3, <1>4, <1>5 DEF IssueType

LEMMA AsksFrame ==
  ASSUME Part1, NEW u \in Users, AsksOnly(u)
  PROVE  Frame
  <1> USE DEF Part1
  <1>0. UNCHANGED tasks /\ Request(u)
    BY DEF AsksOnly, HumanVerify, Replace, OpenByUser, Resolve, Propose, Expand, Patch, MarkDone,
           Discard, Confirm, DeleteRequirement
  <1>1. /\ issues \in Seq(IssueType) /\ Len(issues) <= MaxIssues /\ <<>> \in Seq(NodesOn)
        /\ Len(issues) <= Len(issues)
    BY DEF Typed
  <1>2. /\ \A b \in BOOLEAN, s \in {0} \cup Ids :
              [Quiet EXCEPT !.pc = "open", !.blocker = b, !.source = s] \in ThreadType
        /\ \A l \in {"open", "done", "apply"} : [Quiet EXCEPT !.pc = l] \in ThreadType
        /\ [Quiet EXCEPT !.pc = "apply", !.expand = TRUE] \in ThreadType
        /\ \A b \in BOOLEAN, S \in SUBSET Ids :
              [Quiet EXCEPT !.pc = "stop", !.force = b, !.todo = S] \in ThreadType
    BY ZenonT(60), QuietIs DEF ThreadType, Places
  <1>3. ASSUME NEW b \in BOOLEAN, NEW s \in {0} \cup {t \in Known : tasks[t].role = "test"}, OpenByUser(u, b, s)
        PROVE  Frame
    <2>1. s \in {0} \cup Ids
      BY DEF Known
    <2>2. /\ [Quiet EXCEPT !.pc = "open", !.blocker = b, !.source = s].pc = "open"
          /\ [Quiet EXCEPT !.pc = "open", !.blocker = b, !.source = s].todo = {}
      BY QuietIs DEF ThreadType
    <2>3. Ranges
      BY <1>0, <1>1, <1>3, Asked DEF OpenByUser, Typed
    <2> QED BY <1>0, <1>2, <1>3, <2>1, <2>2, <2>3, BeginFrame DEF OpenByUser
  <1>4. ASSUME NEW b \in BOOLEAN, Replace(u, b)
        PROVE  Frame
    <2> DEFINE S == {t \in Work : tasks[t].st # "cancelled"}
    <2>1. S \subseteq Known /\ S \subseteq Ids
      BY DEF Work, Known
    <2> HIDE DEF S
    <2>2. /\ [Quiet EXCEPT !.pc = "stop", !.force = b, !.todo = S].pc = "stop"
          /\ [Quiet EXCEPT !.pc = "stop", !.force = b, !.todo = S].todo = S
      BY QuietIs DEF ThreadType
    <2>3. Ranges
      BY <1>0, <1>1, <1>4, Asked DEF Replace, Typed
    <2>4. Begin(u, [Quiet EXCEPT !.pc = "stop", !.force = b, !.todo = S])
      BY <1>4 DEF Replace, S
    <2> QED BY <1>0, <1>2, <2>1, <2>2, <2>3, <2>4, BeginFrame
  <1>5. ASSUME NEW l \in {"open", "done", "apply"}, Begin(u, [Quiet EXCEPT !.pc = l]), Ranges
        PROVE  Frame
    <2>1. [Quiet EXCEPT !.pc = l].pc = l /\ [Quiet EXCEPT !.pc = l].todo = {}
      BY QuietIs DEF ThreadType
    <2> QED BY <1>0, <1>2, <1>5, <2>1, BeginFrame
  <1>6. ASSUME NEW b \in BOOLEAN, HumanVerify(u, b)
        PROVE  Frame
    <2>1. Ranges
      BY <1>0, <1>1, <1>6, Asked, ReqTypes DEF HumanVerify
    <2> QED BY <1>0, <1>5, <1>6, <2>1, NoneMoves, StayEvolves DEF HumanVerify, Frame
  <1>7. ASSUME NEW p \in Proposals, NEW e \in Ids, Expand(u, p, e)
        PROVE  Frame
    <2>1. Ranges
      BY <1>0, <1>1, <1>7, Asked, ReqTypes, ProposalTypes DEF Expand
    <2>2. /\ [Quiet EXCEPT !.pc = "apply", !.expand = TRUE].pc = "apply"
          /\ [Quiet EXCEPT !.pc = "apply", !.expand = TRUE].todo = {}
      BY QuietIs DEF ThreadType
    <2> QED BY <1>0, <1>2, <1>7, <2>1, <2>2, BeginFrame DEF Expand
  <1>8. CASE MarkDone(u) \/ Confirm(u)
    <2>1. Ranges
      BY <1>0, <1>1, <1>8, Asked, ReqTypes DEF MarkDone, Confirm
    <2> QED BY <1>5, <1>8, <2>1 DEF MarkDone, Confirm
  <1>9. CASE Discard(u) \/ DeleteRequirement(u) \/ (\E st \in {"done", "cancelled"} : Patch(u, st))
             \/ (\E p \in Proposals : Propose(u, p))
    <2>1. Ranges /\ UNCHANGED thread
      BY ZenonT(60), <1>0, <1>1, <1>9, Asked, ReqTypes, ProposalTypes DEF Discard, DeleteRequirement, Patch, Propose
    <2> QED BY <1>0, <2>1, NoneMoves, StayEvolves DEF Frame
  <1>10. ASSUME NEW i \in 1..Len(issues), Resolve(u, i) PROVE Frame
    <2>1. Ranges /\ UNCHANGED thread
      BY <1>0, <1>1, <1>10, Asked, ResolvesTypes DEF Resolve
    <2> QED BY <1>0, <2>1, NoneMoves, StayEvolves DEF Frame
  <1> QED BY <1>3, <1>4, <1>6, <1>7, <1>8, <1>9, <1>10 DEF AsksOnly

-----------------------------------------------------------------------------
(* Steps that change one task, and steps that create one *)

\* Only task t is altered, which is there and stays what it is.
Alters(t) ==
    /\ t \in Ids /\ Taken(t) /\ Kept(t)
    /\ tasks' \in [Ids -> TaskType]
    /\ \A o \in Ids \ {t} : tasks'[o] = tasks[o]
    /\ tasks[t].agent => tasks'[t].agent

\* Its new status, whether it was completed once, was resumed, and its turns.
Becomes(t, st, done, again, turns) ==
    /\ tasks'[t].st = st /\ tasks'[t].done = done /\ tasks'[t].again = again
    /\ tasks'[t].turns = turns

LEMMA AltersEvolves ==
  ASSUME Typed, NEW t, Alters(t)
  PROVE  Evolves
  BY DEF Typed, Alters, Evolves, Kept, Taken

LEMMA OneAltered ==
  ASSUME Typed, NEW t \in Ids, Taken(t), NEW new \in TaskType, tasks' = [tasks EXCEPT ![t] = new],
         new.st # "none", new.deps = tasks[t].deps, new.verifies = tasks[t].verifies,
         tasks[t].done => new.done, tasks[t].again => new.again, tasks[t].agent => new.agent
  PROVE  Alters(t) /\ tasks'[t] = new
  BY DEF Typed, Alters, Kept

LEMMA MovedIs ==
  ASSUME Typed, NEW t \in Ids, NEW st \in Status \ {"none"}
  PROVE  /\ Moved(t, st) \in TaskType
         /\ Moved(t, st).st = IF t \in Known /\ (tasks[t].st \in Terminal => st = "running")
                              THEN st ELSE tasks[t].st
         /\ Moved(t, st).done =
               (tasks[t].done \/ (st = "completed" /\ t \in Known /\ tasks[t].st \notin Terminal))
         /\ Moved(t, st).deps = tasks[t].deps /\ Moved(t, st).verifies = tasks[t].verifies
         /\ Moved(t, st).again = tasks[t].again /\ Moved(t, st).agent = tasks[t].agent
         /\ Moved(t, st).turns = tasks[t].turns /\ Moved(t, st).role = tasks[t].role
  <1>1. tasks[t] \in TaskType
    BY DEF Typed
  <1> QED BY <1>1 DEF Moved, TaskType, Terminal

LEMMA TaskIs ==
  ASSUME Typed, NEW t \in Ids
  PROVE  /\ tasks[t] \in TaskType /\ tasks[t].st \in Status /\ tasks[t].turns \in Nat
         /\ tasks[t].done \in BOOLEAN /\ tasks[t].again \in BOOLEAN /\ tasks[t].agent \in BOOLEAN
         /\ tasks[t].deps \subseteq Ids \cup {0} /\ tasks[t].verifies \in Nat
         /\ t \in Known => Taken(t)
  <1>1. tasks[t] \in TaskType
    BY DEF Typed
  <1> QED BY <1>1 DEF TaskType, Known, Taken

\* The first of the tasks that thread k works through.
Next1(k) == FirstOf(thread[k].todo)

LEMMA NextIs ==
  ASSUME Part1, NEW k \in Threads, thread[k].todo # {}
  PROVE  Next1(k) \in Ids /\ Next1(k) \in thread[k].todo /\ Taken(Next1(k))
  <1>1. thread[k].todo \subseteq Ids
    BY DEF Part1, Typed, ThreadType
  <1> QED BY <1>1, FirstTask DEF Part1, Fresh, Next1, Taken, Free

LEMMA PendEffect ==
  ASSUME Part1, NEW k \in Threads, Pend(k)
  PROVE  /\ Next1(k) \in thread[k].todo /\ Next1(k) \in Ids /\ Taken(Next1(k))
         /\ Next1(k) \in Known =>
               /\ Alters(Next1(k))
               /\ Becomes(Next1(k), "pending", tasks[Next1(k)].done, tasks[Next1(k)].again,
                          tasks[Next1(k)].turns + 1)
         /\ Next1(k) \notin Known => UNCHANGED tasks
  <1> DEFINE t == Next1(k)
             new == [tasks[t] EXCEPT !.st = "pending", !.turns = @ + 1]
  <1>1. t \in thread[k].todo /\ t \in Ids /\ Taken(t)
    BY NextIs DEF Pend, At, Part1, Roles
  <1>2. Typed /\ tasks[t] \in TaskType /\ tasks[t].turns + 1 \in Nat
    BY <1>1, TaskIs DEF Part1
  <1>3. new \in TaskType
    BY <1>2 DEF TaskType, Status, Live
  <1>4. /\ new.st = "pending" /\ new.turns = tasks[t].turns + 1 /\ new.deps = tasks[t].deps
        /\ new.verifies = tasks[t].verifies /\ new.done = tasks[t].done /\ new.again = tasks[t].again
        /\ new.agent = tasks[t].agent
    BY <1>2 DEF TaskType
  <1>5. IF t \in Known THEN tasks' = [tasks EXCEPT ![t] = new] ELSE UNCHANGED tasks
    BY DEF Pend, Next1
  <1> HIDE DEF new, t
  <1>6. t \in Known => Alters(t) /\ tasks'[t] = new
    BY <1>1, <1>2, <1>3, <1>4, <1>5, OneAltered
  <1> QED BY <1>1, <1>4, <1>5, <1>6 DEF Becomes, t

LEMMA StartPlannedEffect ==
  ASSUME Part1, NEW u \in Users, NEW t \in Ids, StartPlanned(u, t)
  PROVE  /\ Alters(t) /\ Becomes(t, tasks[t].st, tasks[t].done, tasks[t].again, tasks[t].turns)
         /\ t \in Known /\ tasks[t].st = "planned"
  <1> DEFINE new == [tasks[t] EXCEPT !.agent = TRUE]
  <1>1. Typed /\ tasks[t] \in TaskType /\ t \in Known /\ Taken(t) /\ tasks[t].st = "planned"
    BY TaskIs DEF Part1, StartPlanned, ReadyPlanned
  <1>2. new \in TaskType
    BY <1>1 DEF TaskType
  <1>3. /\ new.st = tasks[t].st /\ new.turns = tasks[t].turns /\ new.deps = tasks[t].deps
        /\ new.verifies = tasks[t].verifies /\ new.done = tasks[t].done /\ new.again = tasks[t].again
        /\ new.agent
    BY <1>1 DEF TaskType
  <1>4. tasks' = [tasks EXCEPT ![t] = new]
    BY DEF StartPlanned
  <1> HIDE DEF new
  <1>5. Alters(t) /\ tasks'[t] = new
    BY <1>1, <1>2, <1>3, <1>4, OneAltered DEF Taken
  <1> QED BY <1>1, <1>3, <1>5 DEF Becomes

LEMMA TurnBeginsEffect ==
  ASSUME Part1, NEW t \in Ids, TurnBegins(t)
  PROVE  /\ Alters(t) /\ Becomes(t, "running", tasks[t].done, tasks[t].again, tasks[t].turns - 1)
         /\ t \in Known
  <1> DEFINE new == [Moved(t, "running") EXCEPT !.turns = @ - 1]
             mid == Moved(t, "running")
  <1>1. Typed /\ tasks[t] \in TaskType /\ t \in Known /\ Taken(t) /\ tasks[t].turns \in Nat /\ tasks[t].turns > 0
    BY TaskIs DEF Part1, TurnBegins
  <1>2. /\ mid \in TaskType /\ mid.st = "running" /\ mid.done = tasks[t].done
        /\ mid.deps = tasks[t].deps /\ mid.verifies = tasks[t].verifies
        /\ mid.again = tasks[t].again /\ mid.agent = tasks[t].agent /\ mid.turns = tasks[t].turns
    <2>1. "running" \in Status \ {"none"}
      BY DEF Status, Live
    <2>2. tasks[t].done \in BOOLEAN
      BY <1>1, TaskIs
    <2> QED BY <1>1, <2>1, <2>2, MovedIs
  <1>3. new = [mid EXCEPT !.turns = @ - 1]
    OBVIOUS
  <1> HIDE DEF mid, new
  <1>4. new \in TaskType
    BY <1>1, <1>2, <1>3 DEF TaskType
  <1>5. /\ new.st = "running" /\ new.turns = tasks[t].turns - 1 /\ new.deps = tasks[t].deps
        /\ new.verifies = tasks[t].verifies /\ new.done = tasks[t].done /\ new.again = tasks[t].again
        /\ new.agent = tasks[t].agent
    BY <1>2, <1>3 DEF TaskType
  <1>6. tasks' = [tasks EXCEPT ![t] = new]
    BY DEF TurnBegins, new
  <1>7. Alters(t) /\ tasks'[t] = new
    BY <1>1, <1>4, <1>5, <1>6, OneAltered
  <1> QED BY <1>1, <1>5, <1>7 DEF Becomes

LEMMA TurnEndsEffect ==
  ASSUME Part1, NEW t \in Ids, NEW outcome \in {"completed", "failed"}, TurnEnds(t, outcome)
  PROVE  /\ Alters(t)
         /\ LET moves == t \in Known /\ tasks[t].st \notin Terminal IN
            Becomes(t, IF moves THEN outcome ELSE tasks[t].st,
                    tasks[t].done \/ (moves /\ outcome = "completed"), tasks[t].again, tasks[t].turns)
  <1> DEFINE new == Moved(t, outcome)
  <1>1. Typed /\ tasks[t] \in TaskType /\ Taken(t)
    BY TaskIs, QuietIs DEF Part1, TurnEnds, At, Fresh, Taken, Free
  <1>2. outcome \in Status \ {"none"}
    BY DEF Status, Terminal
  <1>3. /\ new \in TaskType /\ new.deps = tasks[t].deps /\ new.verifies = tasks[t].verifies
        /\ new.again = tasks[t].again /\ new.agent = tasks[t].agent /\ new.turns = tasks[t].turns
        /\ new.st = (IF t \in Known /\ tasks[t].st \notin Terminal THEN outcome ELSE tasks[t].st)
        /\ new.done = (tasks[t].done \/ (t \in Known /\ tasks[t].st \notin Terminal /\ outcome = "completed"))
    BY <1>1, <1>2, MovedIs
  <1>4. tasks' = [tasks EXCEPT ![t] = new]
    BY DEF TurnEnds
  <1> HIDE DEF new
  <1>5. Alters(t) /\ tasks'[t] = new
    BY ZenonT(60), <1>1, <1>2, <1>3, <1>4, OneAltered DEF Taken
  <1> QED BY <1>3, <1>5 DEF Becomes

\* What becomes of a cancelled task.
Stopped(t) == IF t \in Known /\ tasks[t].st \notin Terminal THEN "cancelled" ELSE tasks[t].st

LEMMA CancelledIs ==
  ASSUME Typed, NEW t \in Ids
  PROVE  /\ Cancelled(t) \in TaskType /\ Cancelled(t).st = Stopped(t) /\ Cancelled(t).turns = 0
         /\ Cancelled(t).deps = tasks[t].deps /\ Cancelled(t).verifies = tasks[t].verifies
         /\ Cancelled(t).done = tasks[t].done /\ Cancelled(t).again = tasks[t].again
         /\ Cancelled(t).agent = tasks[t].agent
  <1> DEFINE mid == Moved(t, "cancelled")
  <1>1. "cancelled" \in Status \ {"none"} /\ tasks[t].done \in BOOLEAN
    BY TaskIs DEF Status, Terminal
  <1>2. /\ mid \in TaskType /\ mid.st = Stopped(t) /\ mid.deps = tasks[t].deps
        /\ mid.verifies = tasks[t].verifies /\ mid.done = tasks[t].done
        /\ mid.again = tasks[t].again /\ mid.agent = tasks[t].agent
    BY <1>1, MovedIs DEF Stopped
  <1>3. Cancelled(t) = [mid EXCEPT !.turns = 0]
    BY DEF Cancelled
  <1> HIDE DEF mid
  <1> QED BY <1>2, <1>3 DEF TaskType

LEMMA CancelEffect ==
  ASSUME Typed, NEW t \in Ids, Taken(t), tasks' = [tasks EXCEPT ![t] = Cancelled(t)]
  PROVE  Alters(t) /\ Becomes(t, Stopped(t), tasks[t].done, tasks[t].again, 0)
  <1>1. Stopped(t) # "none"
    BY DEF Stopped, Taken
  <1>2. Alters(t) /\ tasks'[t] = Cancelled(t)
    BY <1>1, CancelledIs, OneAltered
  <1> QED BY <1>2, CancelledIs DEF Becomes

LEMMA DeleteEffect ==
  ASSUME Typed, NEW u, NEW t \in Ids, Delete(u, t)
  PROVE  Alters(t) /\ Becomes(t, "deleted", tasks[t].done, tasks[t].again, 0)
  <1> DEFINE new == [Cancelled(t) EXCEPT !.st = "deleted"]
  <1>1. Taken(t)
    BY TaskIs DEF Delete
  <1>2. /\ new \in TaskType /\ new.st = "deleted" /\ new.turns = 0
        /\ new.deps = tasks[t].deps /\ new.verifies = tasks[t].verifies
        /\ new.done = tasks[t].done /\ new.again = tasks[t].again
        /\ new.agent = tasks[t].agent
    BY CancelledIs DEF TaskType, Status
  <1>3. tasks' = [tasks EXCEPT ![t] = new]
    BY DEF Delete
  <1> HIDE DEF new
  <1>4. Alters(t) /\ tasks'[t] = new
    BY ZenonT(60), <1>1, <1>2, <1>3, OneAltered
  <1> QED BY <1>2, <1>4 DEF Becomes

LEMMA AbandonEffect ==
  ASSUME Part1, NEW u \in Threads, Abandon(u)
  PROVE  /\ Next1(u) \in thread[u].todo /\ Next1(u) \in Ids /\ Taken(Next1(u))
         /\ Next1(u) \in Known =>
               /\ Alters(Next1(u))
               /\ Becomes(Next1(u), "cancelled", tasks[Next1(u)].done, tasks[Next1(u)].again,
                          tasks[Next1(u)].turns)
         /\ Next1(u) \notin Known => UNCHANGED tasks
  <1> DEFINE t == Next1(u)
             new == [tasks[t] EXCEPT !.st = "cancelled", !.abandoned = TRUE]
  <1>1. t \in thread[u].todo /\ t \in Ids /\ Taken(t)
    BY NextIs DEF Abandon
  <1>2. Typed /\ tasks[t] \in TaskType
    BY <1>1, TaskIs DEF Part1
  <1>3. new \in TaskType
    BY <1>2 DEF TaskType, Status, Terminal
  <1>4. /\ new.st = "cancelled" /\ new.turns = tasks[t].turns /\ new.deps = tasks[t].deps
        /\ new.verifies = tasks[t].verifies /\ new.done = tasks[t].done /\ new.again = tasks[t].again
        /\ new.agent = tasks[t].agent
    BY <1>2 DEF TaskType
  <1>5. IF t \in Known THEN tasks' = [tasks EXCEPT ![t] = new] ELSE UNCHANGED tasks
    BY DEF Abandon, Next1
  <1> HIDE DEF new, t
  <1>6. t \in Known => Alters(t) /\ tasks'[t] = new
    BY <1>1, <1>2, <1>3, <1>4, <1>5, OneAltered
  <1> QED BY <1>1, <1>4, <1>5, <1>6 DEF Becomes, t

LEMMA ResumeEffect ==
  ASSUME Typed, NEW u, NEW t \in Ids, Resume(u, t)
  PROVE  Alters(t) /\ Becomes(t, tasks[t].st, tasks[t].done, TRUE, tasks[t].turns + 1)
  <1> DEFINE new == [tasks[t] EXCEPT !.turns = @ + 1, !.again = TRUE]
  <1>1. tasks[t] \in TaskType /\ Taken(t) /\ tasks[t].turns + 1 \in Nat
    BY TaskIs DEF Resume
  <1>2. new \in TaskType
    BY <1>1 DEF TaskType
  <1>3. /\ new.st = tasks[t].st /\ new.turns = tasks[t].turns + 1 /\ new.deps = tasks[t].deps
        /\ new.verifies = tasks[t].verifies /\ new.done = tasks[t].done /\ new.again = TRUE
        /\ new.agent = tasks[t].agent
    BY <1>1 DEF TaskType
  <1>4. tasks' = [tasks EXCEPT ![t] = new]
    BY DEF Resume
  <1> HIDE DEF new
  <1>5. Alters(t) /\ tasks'[t] = new
    BY <1>1, <1>2, <1>3, <1>4, OneAltered DEF Taken
  <1> QED BY <1>3, <1>5 DEF Becomes

\* A turn is given to a task without any other change.
Gives(t) == tasks' = [tasks EXCEPT ![t].turns = @ + 1]

LEMMA GiveEffect ==
  ASSUME Typed, NEW t \in Ids, Taken(t), Gives(t)
  PROVE  Alters(t) /\ Becomes(t, tasks[t].st, tasks[t].done, tasks[t].again, tasks[t].turns + 1)
  <1> DEFINE new == [tasks[t] EXCEPT !.turns = @ + 1]
  <1>1. tasks[t] \in TaskType /\ tasks[t].turns + 1 \in Nat /\ tasks[t].st # "none"
    BY TaskIs DEF Taken
  <1>2. new \in TaskType
    BY <1>1 DEF TaskType
  <1>3. /\ new.st = tasks[t].st /\ new.turns = tasks[t].turns + 1 /\ new.deps = tasks[t].deps
        /\ new.verifies = tasks[t].verifies /\ new.done = tasks[t].done /\ new.again = tasks[t].again
        /\ new.agent = tasks[t].agent
    BY <1>1 DEF TaskType
  <1>4. tasks' = [tasks EXCEPT ![t] = new]
    BY DEF Gives
  <1> HIDE DEF new
  <1>5. Alters(t) /\ tasks'[t] = new
    BY ZenonT(60), <1>1, <1>2, <1>3, <1>4, OneAltered
  <1> QED BY <1>3, <1>5 DEF Becomes

\* Task f is created.
Adds(f) ==
    /\ f \in Free /\ Born(f)
    /\ tasks' \in [Ids -> TaskType]
    /\ \A o \in Ids \ {f} : tasks'[o] = tasks[o]

LEMMA AddsEvolves ==
  ASSUME Typed, NEW f, Adds(f)
  PROVE  Evolves
  BY DEF Typed, Adds, Evolves, Kept, Taken, Free

LEMMA OneAdded ==
  ASSUME Typed, NEW new \in TaskType, Free # {}, tasks' = [tasks EXCEPT ![FirstOf(Free)] = new],
         new.st # "none", \A d \in new.deps : d \in Ids /\ Taken(d)
  PROVE  Adds(FirstOf(Free)) /\ tasks'[FirstOf(Free)] = new
  <1> DEFINE f == FirstOf(Free)
  <1>1. f \in Free /\ f \in Ids /\ ~Taken(f)
    BY FirstTask DEF Free, Taken
  <1>2. tasks' = [tasks EXCEPT ![f] = new]
    OBVIOUS
  <1> HIDE DEF f
  <1>3. tasks' \in [Ids -> TaskType] /\ tasks'[f] = new /\ \A o \in Ids \ {f} : tasks'[o] = tasks[o]
    BY <1>1, <1>2 DEF Typed
  <1>4. \A d \in new.deps : d # f /\ tasks'[d].st # "none"
    BY <1>1, <1>3 DEF Taken
  <1> QED BY <1>1, <1>3, <1>4 DEF Adds, Born, f

LEMMA NewTasks ==
  /\ Fix \in TaskType /\ Fix.st = "planned" /\ Fix.deps = {} /\ Fix.turns = 0 /\ Fix.verifies = 0
  /\ Fix.agent = FALSE
  /\ LET new == [NoTask EXCEPT !.st = "pending", !.role = "split", !.agent = TRUE] IN
        new \in TaskType /\ new.st = "pending" /\ new.deps = {} /\ new.turns = 0 /\ new.verifies = 0
  /\ \A st \in {"running", "completed"} :
        LET new == [NoTask EXCEPT !.st = st, !.agent = TRUE, !.done = st = "completed"] IN
        /\ new \in TaskType /\ new.st = st /\ new.deps = {} /\ new.turns = 0 /\ new.verifies = 0
        /\ new.done = (st = "completed")
  /\ \A t \in Ids, i \in Nat :
        LET new == [NoTask EXCEPT !.st = "planned", !.role = "test", !.deps = {t}, !.verifies = i] IN
        /\ new \in TaskType /\ new.st = "planned" /\ new.deps = {t} /\ new.turns = 0
        /\ new.verifies = i /\ new.agent = FALSE
  BY ZenonT(60), RequirementsAssumption DEF Fix, NoTask, TaskType, Status, Live, Terminal, Ids

LEMMA FreshAreDistinct ==
  ASSUME NEW n \in Nat, NEW id \in FreshIds(n)
  PROVE  /\ \A i \in 1..n : id[i] \in Free
         /\ \A i, j \in 1..n : i # j => id[i] # id[j]
  <1>1. id \in [1..n -> Free] /\ Free \subseteq Ids
    BY DEF FreshIds, Free
  <1>2. ASSUME NEW i \in 1..n, NEW j \in 1..n, j < i PROVE id[j] < id[i]
    <2>1. id[j] \in Free /\ j \in 1..(i - 1)
      BY <1>1, <1>2
    <2>2. \A t \in Free : t < id[i] <=> \E m \in 1..(i - 1) : id[m] = t
      BY DEF FreshIds
    <2> QED BY <2>1, <2>2
  <1>3. \A i \in 1..n : id[i] \in Nat
    <2>1. Free \subseteq Nat
      BY RequirementsAssumption DEF Free, Ids
    <2> QED BY <1>1, <2>1
  <1>4. ASSUME NEW i \in 1..n, NEW j \in 1..n, i # j PROVE id[i] # id[j]
    <2>1. i < j \/ j < i
      BY <1>4
    <2> QED BY <1>2, <1>3, <2>1
  <1> QED BY <1>1, <1>4

LEMMA PlannedEvolves ==
  ASSUME Part1, NEW k \in Threads, thread[k].pc = "create", NEW id \in FreshIds(Len(thread[k].nodes)),
         NEW n \in 0..Len(thread[k].nodes), tasks' = Planned(thread[k].nodes, id, n)
  PROVE  /\ Evolves
         /\ \A t \in Ids : \/ tasks'[t] = tasks[t]
                           \/ /\ t \in Free /\ tasks'[t].st = "planned" /\ tasks'[t].turns = 0
                              /\ tasks'[t].verifies = 0
  <1> DEFINE p == thread[k].nodes
             New(i) == PlannedTask(p[i], id, n)
  <1>1. p \in Seq(NodesOn) /\ Len(p) \in Nat /\ n \in Nat /\ n <= Len(p)
    BY DEF Part1, Typed, ThreadType
  <1>2. /\ \A i \in 1..Len(p) : id[i] \in Free
        /\ \A i, j \in 1..Len(p) : i # j => id[i] # id[j]
    BY <1>1, FreshAreDistinct
  <1>3. \A i \in 1..Len(p) : p[i].deps \subseteq 1..Len(p) \ {i} /\ p[i].on \cap Free = {}
    BY DEF Part1, Plans
  <1>4. \A i \in 1..Len(p) : p[i] \in NodesOn
    BY <1>1
  <1>5. /\ \A t \in Ids : (\A i \in 1..n : id[i] # t) => tasks'[t] = tasks[t]
        /\ \A t \in Ids : (\E i \in 1..n : id[i] = t) => \E i \in 1..n : id[i] = t /\ tasks'[t] = New(i)
        /\ tasks' = [t \in Ids |-> tasks'[t]]
    BY DEF Planned
  <1> HIDE DEF p, New
  <1>6. \A i \in 1..n : i \in 1..Len(p)
    BY <1>1
  <1>7. ASSUME NEW i \in 1..n
        PROVE  /\ New(i) \in TaskType /\ New(i).st = "planned" /\ New(i).turns = 0 /\ New(i).verifies = 0
               /\ New(i).deps = {IF j <= n THEN id[j] ELSE 0 : j \in p[i].deps} \cup p[i].on
    <2>1. p[i] \in NodesOn
      BY <1>4, <1>6
    <2>2. \A j \in p[i].deps : j \in 1..Len(p) /\ (j <= n => id[j] \in Ids)
      BY <1>2, <1>3, <1>6 DEF Free
    <2>3. {IF j <= n THEN id[j] ELSE 0 : j \in p[i].deps} \cup p[i].on \subseteq Ids \cup {0}
      BY <2>1, <2>2 DEF NodesOn
    <2> QED BY <2>1, <2>3, RequirementsAssumption
         DEF New, PlannedTask, NoTask, TaskType, NodesOn, Status, Ids
  <1>8. tasks' \in [Ids -> TaskType]
    BY <1>5, <1>7 DEF Part1, Typed
  <1>9. \A i \in 1..n : id[i] \in Ids /\ tasks'[id[i]].st # "none"
    <2> SUFFICES ASSUME NEW i \in 1..n PROVE id[i] \in Ids /\ tasks'[id[i]].st # "none"
      OBVIOUS
    <2>1. id[i] \in Ids
      BY <1>2, <1>6 DEF Free
    <2>2. PICK j \in 1..n : tasks'[id[i]] = New(j)
      BY <1>5, <2>1
    <2> QED BY <1>7, <2>1, <2>2
  <1>10. \A t \in Ids : Taken(t) => tasks'[t] = tasks[t]
    BY <1>2, <1>5, <1>6 DEF Taken, Free
  <1>11. ASSUME NEW t \in Ids, NEW i \in 1..n, id[i] = t, tasks'[t] = New(i)
         PROVE  Born(t)
    <2>1. tasks'[t].st # "none" /\ t \in Free
      BY <1>2, <1>6, <1>7, <1>11
    <2>2. ASSUME NEW d \in New(i).deps
          PROVE  d # t /\ (d \in Ids => tasks'[d].st # "none")
      <3>1. CASE d \in p[i].on
        <4>1. d \in Ids /\ d \notin Free
          BY <1>3, <1>4, <1>6, <3>1 DEF NodesOn
        <4> QED BY <1>10, <2>1, <4>1 DEF Free, Taken
      <3>2. ASSUME NEW j \in p[i].deps, d = IF j <= n THEN id[j] ELSE 0
            PROVE  d # t /\ (d \in Ids => tasks'[d].st # "none")
        <4>1. j \in 1..Len(p) /\ j # i /\ i \in 1..Len(p)
          BY <1>3, <1>6
        <4>2. CASE j <= n
          <5>1. j \in 1..n
            BY <1>1, <4>1, <4>2
          <5> QED BY <1>2, <1>9, <1>11, <3>2, <4>1, <4>2, <5>1
        <4>3. CASE ~(j <= n)
          BY <3>2, <4>3 DEF Ids
        <4> QED BY <4>2, <4>3
      <3> QED BY <1>7, <3>1, <3>2
    <2> QED BY <1>11, <2>1, <2>2 DEF Born
  <1>12. \A t \in Ids : tasks'[t] = tasks[t] \/ (\E i \in 1..n : id[i] = t /\ tasks'[t] = New(i))
    BY <1>5
  <1>13. ASSUME NEW t \in Ids
         PROVE  /\ tasks'[t] = tasks[t] \/ Born(t)
                /\ \/ tasks'[t] = tasks[t]
                   \/ /\ t \in Free /\ tasks'[t].st = "planned" /\ tasks'[t].turns = 0
                      /\ tasks'[t].verifies = 0
    BY <1>2, <1>6, <1>7, <1>11, <1>12
  <1> QED BY <1>8, <1>10, <1>13 DEF Evolves, Kept, Taken

-----------------------------------------------------------------------------
(* Every step keeps the frame *)

TaskPlaces ==
    {"turn", "completed", "failed", "spawn", "note", "dependents"}

LEMMA AtWork ==
  ASSUME Part1, Evolves, NEW k \in Threads, k \in Users \/ thread[k].pc # "idle" \/ Taken(k)
  PROVE  k \in Ids => tasks'[k].st # "none"
  <1> SUFFICES ASSUME k \in Ids PROVE tasks'[k].st # "none"
    OBVIOUS
  <1>1. Taken(k)
    BY RequirementsAssumption, QuietIs DEF Part1, Fresh, Taken, Free
  <1> QED BY <1>1 DEF Evolves, Kept

LEMMA StillThere ==
  ASSUME Evolves
  PROVE  \A t \in Ids : Taken(t) => tasks'[t].st # "none"
  BY DEF Evolves, Kept

LEMMA GoFrame ==
  ASSUME Part1, Evolves, Ranges, NEW k \in Threads, NEW l \in Places, Go(k, l),
         k \in Users \/ thread[k].pc # "idle" \/ Taken(k),
         k \in Users => l \notin TaskPlaces,
         k \in Ids => l \in TaskPlaces \cup {"idle", "activate", "pend", "open", "append"},
         l \notin {"assign", "spawn", "note"}, l = "append" => ~thread[k].blocker,
         l \in {"activate", "pend"} => thread[k].todo # {},
         l \notin {"create", "suggest"}
  PROVE  Frame
  <1>1. Typed
    BY DEF Part1
  <1>2. /\ Moves(k, At1(thread[k], l))
        /\ thread'[k].pc = l /\ thread'[k].todo = thread[k].todo /\ thread'[k].cur = thread[k].cur
        /\ thread'[k].blocker = thread[k].blocker
    BY <1>1, GoMoves
  <1>3. \A t \in thread[k].todo : tasks'[t].st # "none"
    <2>1. thread[k] \in ThreadType
      BY <1>1 DEF Typed
    <2>2. thread[k].todo \subseteq Ids
      BY <2>1 DEF ThreadType
    <2> QED BY <2>2, StillThere DEF Part1, Fresh, Taken, Free
  <1>4. Allowed(k, thread'[k])
    BY <1>2, <1>3, AtWork DEF Allowed, TaskPlaces
  <1> QED BY <1>1, <1>2, <1>4, MovesTurnover DEF Frame

LEMMA QuietFrame ==
  ASSUME Part1, Evolves, Ranges, NEW k \in Threads, End(k), k \in Users \/ thread[k].pc # "idle" \/ Taken(k)
  PROVE  Frame
  <1>1. Typed /\ Moves(k, Quiet) /\ thread'[k] = Quiet
    BY EndMoves DEF Part1, Moves
  <1>2. Allowed(k, thread'[k])
    BY <1>1, AtWork, QuietIs DEF Allowed
  <1> QED BY <1>1, <1>2, MovesTurnover DEF Frame

LEMMA LoopFrame ==
  ASSUME Part1, Evolves, Ranges, NEW k \in Threads, NEW S \in SUBSET Ids, Loop(k, "activate", S),
         \A t \in S : Taken(t), k \in Users \/ thread[k].pc # "idle" \/ Taken(k)
  PROVE  Frame
  <1>1. Typed /\ "activate" \in Places
    BY DEF Part1, Places
  <1> DEFINE d == IF S = {} THEN Quiet ELSE [Quiet EXCEPT !.pc = "activate", !.todo = S]
  <1>2. Moves(k, d)
    BY <1>1, LoopMoves
  <1> HIDE DEF d
  <1>3. thread'[k].todo = S /\ thread'[k].pc = IF S = {} THEN "idle" ELSE "activate"
    BY <1>1, LoopMoves
  <1>4. \A t \in S : tasks'[t].st # "none"
    BY StillThere
  <1>5. Allowed(k, thread'[k])
    BY <1>3, <1>4, AtWork DEF Allowed
  <1> QED BY <1>1, <1>2, <1>5, MovesTurnover DEF Frame

LEMMA NewFrame ==
  ASSUME Part1, Evolves, Ranges, NEW k \in Threads, NEW d \in ThreadType, Begin(k, d),
         k \in Users \/ thread[k].pc # "idle" \/ Taken(k), d.todo \subseteq Ids, \A t \in d.todo : Taken(t),
         \/ d.pc \in {"idle", "open", "abandon", "record", "ready", "create"}
         \/ k \in Users /\ d.pc \in {"assign", "suggest"} /\ d.cur \in Ids,
         d.pc = "assign" => d.iss \in 1..Len(issues),
         d.pc \in {"abandon", "record", "ready", "create"} => k \in Users,
         d.pc = "create" => NodesHold(d.nodes),
         d.pc = "suggest" => tasks'[d.cur].st # "none"
  PROVE  Frame
  <1>0. (k \in Users => k \notin Ids) /\ (d.pc = "assign" => d.iss \in 1..Len(issues'))
    <2>1. Len(issues) \in Nat /\ Len(issues') \in Nat /\ Len(issues) <= Len(issues')
      BY DEF Part1, Typed, Ranges
    <2> QED BY <2>1, RequirementsAssumption
  <1>1. Typed /\ Moves(k, d) /\ thread'[k] = d
    BY BeginMoves DEF Part1, Moves
  <1>2. \A t \in d.todo : tasks'[t].st # "none"
    BY StillThere
  <1>3. Allowed(k, thread'[k])
    BY <1>0, <1>1, <1>2, AtWork DEF Allowed
  <1> QED BY <1>1, <1>3, MovesTurnover DEF Frame

\* The schedule.
LEMMA ScheduleFrame ==
  ASSUME Part1, NEW k \in Threads,
         StartReady(k) \/ Activate(k) \/ Pend(k) \/ (k \in Ids /\ Dependents(k))
  PROVE  Frame
  <1>0. Typed /\ Ranges
    <2>1. Typed /\ req \in ReqType /\ issues \in Seq(IssueType) /\ Len(issues) <= MaxIssues
      BY DEF Part1, Typed
    <2>2. Step /\ UNCHANGED <<req, issues>>
      BY DEF StartReady, Activate, Pend, Dependents
    <2> QED BY <2>1, <2>2, Stepped
  <1>1. \A t \in Known : t \in Ids /\ Taken(t)
    BY DEF Known, Taken
  <1>2. ReadyPlanned \subseteq Known
    BY DEF ReadyPlanned
  <1>3. thread[k] \in ThreadType /\ thread[k].todo \subseteq Ids /\ \A t \in thread[k].todo : Taken(t)
    <2>1. thread[k] \in ThreadType
      BY <1>0 DEF Typed
    <2> QED BY <2>1 DEF ThreadType, Part1, Fresh, Taken, Free
  <1>4. CASE StartReady(k)
    <2>1. Evolves /\ thread[k].pc # "idle"
      BY <1>0, <1>4, StayEvolves DEF StartReady, At
    <2>2. {t \in ReadyPlanned : tasks[t].agent} \in SUBSET Ids
          /\ \A t \in {o \in ReadyPlanned : tasks[o].agent} : Taken(t)
      BY <1>1, <1>2
    <2> QED BY <1>0, <1>4, <2>1, <2>2, LoopFrame DEF StartReady
  <1>5. CASE k \in Ids /\ Dependents(k)
    <2>1. Evolves /\ thread[k].pc # "idle"
      BY <1>0, <1>5, StayEvolves DEF Dependents, At
    <2>2. {o \in ReadyPlanned : k \in tasks[o].deps} \in SUBSET Ids
          /\ \A t \in {o \in ReadyPlanned : k \in tasks[o].deps} : Taken(t)
      BY <1>1, <1>2
    <2> QED BY <1>0, <1>5, <2>1, <2>2, LoopFrame DEF Dependents
  <1>6. CASE Activate(k)
    <2>1. Evolves /\ thread[k].pc = "activate" /\ "pend" \in Places
      BY <1>0, <1>6, StayEvolves DEF Activate, At, Places
    <2>2. thread[k].todo # {}
      BY <2>1 DEF Part1, Roles
    <2>3. CASE Go(k, "pend")
      BY <1>0, <2>1, <2>2, <2>3, GoFrame DEF TaskPlaces
    <2>4. CASE Loop(k, "activate", thread[k].todo \ {Next1(k)})
      <3>1. thread[k].todo \ {Next1(k)} \in SUBSET Ids /\ \A t \in thread[k].todo \ {Next1(k)} : Taken(t)
        BY <1>3
      <3> QED BY <1>0, <2>1, <2>4, <3>1, LoopFrame
    <2> QED BY <1>6, <2>3, <2>4 DEF Activate, Next1
  <1>7. CASE Pend(k)
    <2>1. Evolves
      BY <1>0, <1>7, PendEffect, AltersEvolves, StayEvolves
    <2>2. thread[k].pc # "idle" /\ Loop(k, "activate", thread[k].todo \ {Next1(k)})
      BY <1>7 DEF Pend, At, Next1
    <2>3. thread[k].todo \ {Next1(k)} \in SUBSET Ids /\ \A t \in thread[k].todo \ {Next1(k)} : Taken(t)
      BY <1>3
    <2> QED BY <1>0, <2>1, <2>2, <2>3, LoopFrame
  <1> QED BY <1>4, <1>5, <1>6, <1>7

LEMMA IssueUpdates ==
  ASSUME Typed, NEW i \in 1..Len(issues), NEW new \in IssueType, issues' = [issues EXCEPT ![i] = new]
  PROVE  /\ issues' \in Seq(IssueType) /\ Len(issues') = Len(issues)
         /\ \A j \in 1..Len(issues) : issues'[j] = IF j = i THEN new ELSE issues[j]
  BY DEF Typed

\* The turns of a task and what they feed back.
LEMMA FeedbackFrame ==
  ASSUME Part1, NEW t \in Ids,
         \/ TurnBegins(t) \/ TurnEnds(t, "completed") \/ TurnEnds(t, "failed")
         \/ Completed(t) \/ Spawn(t) \/ Note(t) \/ Failed(t)
  PROVE  Frame
  <1>0. /\ Typed /\ req \in ReqType /\ issues \in Seq(IssueType) /\ Len(issues) <= MaxIssues
        /\ Len(issues) \in Nat /\ Len(issues) <= Len(issues)
        /\ t \in Threads /\ t \notin Users /\ thread[t] \in ThreadType
    BY RequirementsAssumption DEF Part1, Typed, Threads
  <1>1. CASE TurnBegins(t)
    <2>1. Ranges
      BY <1>0, <1>1, Stepped DEF TurnBegins
    <2>2. Evolves /\ Taken(t)
      BY <1>0, <1>1, TurnBeginsEffect, AltersEvolves DEF Alters
    <2> QED BY <1>0, <1>1, <2>1, <2>2, GoFrame DEF TurnBegins, TaskPlaces, Places
  <1>2. ASSUME NEW outcome \in {"completed", "failed"}, TurnEnds(t, outcome) PROVE Frame
    <2>1. Ranges
      BY <1>0, <1>2, Stepped DEF TurnEnds
    <2>2. Evolves /\ thread[t].pc # "idle"
      BY <1>0, <1>2, TurnEndsEffect, AltersEvolves DEF TurnEnds, At
    <2>3. PICK l \in {"idle", "completed", "failed"} : Go(t, l)
      BY <1>2 DEF TurnEnds
    <2> QED BY <1>0, <2>1, <2>2, <2>3, GoFrame DEF TaskPlaces, Places
  <1>3. CASE Completed(t)
    <2>1. Evolves /\ thread[t].pc # "idle" /\ Step
      BY <1>0, <1>3, StayEvolves DEF Completed, At
    <2>2. Ranges
      <3>1. CASE issues' = issues /\ (req' = req \/ \E p \in Proposals : req' = [req EXCEPT !.proposal = p])
        BY <1>0, <2>1, <3>1, Stepped, ReqTypes, ProposalTypes
      <3>2. ASSUME VerifiedBy(t) # {}, Resolves(FirstOf(VerifiedBy(t))) PROVE Ranges
        <4>1. VerifiedBy(t) \in SUBSET Nat /\ VerifiedBy(t) \subseteq 1..Len(issues)
          BY <1>0 DEF VerifiedBy
        <4>2. FirstOf(VerifiedBy(t)) \in 1..Len(issues)
          BY <3>2, <4>1, FirstIsThere
        <4> QED BY <1>0, <2>1, <3>2, <4>2, Stepped, ResolvesTypes
      <3>3. \/ issues' = issues /\ (req' = req \/ \E p \in Proposals : req' = [req EXCEPT !.proposal = p])
            \/ VerifiedBy(t) # {} /\ Resolves(FirstOf(VerifiedBy(t)))
        BY <1>3 DEF Completed, Put
      <3> QED BY <3>1, <3>2, <3>3
    <2>3. CASE Go(t, "dependents")
      BY <1>0, <2>1, <2>2, <2>3, GoFrame DEF TaskPlaces, Places
    <2>4. CASE /\ FixedBy(t) # {} /\ issues' = issues
               /\ thread' = [thread EXCEPT ![t].pc = "spawn", ![t].iss = FirstOf(FixedBy(t))]
      <3> DEFINE d == [thread[t] EXCEPT !.pc = "spawn", !.iss = FirstOf(FixedBy(t))]
      <3>1. FixedBy(t) \in SUBSET Nat /\ FixedBy(t) \subseteq 1..Len(issues)
        BY <1>0 DEF FixedBy
      <3>2. FirstOf(FixedBy(t)) \in Nat /\ FirstOf(FixedBy(t)) \in 1..Len(issues) /\ issues' = issues
        <4>1. FirstOf(FixedBy(t)) \in FixedBy(t)
          BY <2>4, <3>1, FirstIsThere
        <4> QED BY <2>4, <3>1, <4>1
      <3>3. /\ d \in ThreadType /\ d.pc = "spawn" /\ d.todo = thread[t].todo /\ d.cur = thread[t].cur
            /\ d.iss \in 1..Len(issues')
        BY <1>0, <3>2 DEF ThreadType, Places
      <3>4. thread' = [thread EXCEPT ![t] = d]
        BY <2>4
      <3> HIDE DEF d
      <3>5. Moves(t, d) /\ thread'[t] = d
        BY <1>0, <3>3, <3>4 DEF Typed, Moves
      <3>6. \A o \in d.todo : tasks'[o].st # "none"
        BY <1>0, <2>1, <3>3, StillThere DEF Part1, Fresh, Taken, Free, ThreadType
      <3>7. Allowed(t, thread'[t])
        BY <1>0, <2>1, <3>3, <3>5, <3>6, AtWork DEF Allowed
      <3> QED BY <1>0, <2>1, <2>2, <3>5, <3>7, MovesTurnover DEF Frame
    <2> QED BY <1>3, <2>3, <2>4 DEF Completed
  <1>4. CASE Spawn(t)
    <2>1. Ranges /\ thread[t].pc # "idle" /\ Taken(t)
      BY <1>0, <1>4, Stepped, QuietIs DEF Spawn, Creates, At, Part1, Fresh, Taken, Free
    <2>2. CASE Go(t, "dependents") /\ UNCHANGED tasks
      BY <1>0, <2>1, <2>2, GoFrame, StayEvolves DEF TaskPlaces, Places
    <2>3. CASE Creates(t, [NoTask EXCEPT !.st = "planned", !.role = "test", !.deps = {t},
                                         !.verifies = thread[t].iss], "note")
      <3> DEFINE new == [NoTask EXCEPT !.st = "planned", !.role = "test", !.deps = {t},
                                       !.verifies = thread[t].iss]
                 f == FirstOf(Free)
                 d == [thread[t] EXCEPT !.cur = f, !.pc = "note"]
      <3>1. new \in TaskType /\ new.st = "planned" /\ new.deps = {t}
        <4>1. thread[t].iss \in Nat
          BY <1>0 DEF ThreadType
        <4> QED BY ZenonT(60), <4>1, NewTasks
      <3>2. Free # {} /\ tasks' = [tasks EXCEPT ![f] = new]
        BY <2>3 DEF Creates
      <3>a. f \in Ids
        BY <3>2, FirstTask DEF Free
      <3>3. Adds(f) /\ Evolves
        <4> HIDE DEF new
        <4>1. new.st # "none" /\ \A o \in new.deps : o \in Ids /\ Taken(o)
          BY <2>1, <3>1
        <4>2. Adds(f)
          BY <1>0, <3>1, <3>2, <4>1, OneAdded
        <4> QED BY <1>0, <4>2, AddsEvolves
      <3>4. /\ d \in ThreadType /\ d.pc = "note" /\ d.todo = thread[t].todo /\ d.cur = f
            /\ d.iss \in 1..Len(issues')
        <4>1. thread[t].iss \in 1..Len(issues) /\ issues' = issues
          BY <1>0, <1>4 DEF Spawn, At, Part1, Roles
        <4> QED BY <1>0, <3>a, <4>1 DEF ThreadType, Places
      <3>5. thread' = [thread EXCEPT ![t] = d]
        BY <2>3 DEF Creates
      <3> HIDE DEF new, d, f
      <3>6. Moves(t, d) /\ thread'[t] = d
        BY <1>0, <3>4, <3>5 DEF Typed, Moves
      <3>7. \A o \in d.todo : tasks'[o].st # "none"
        BY <1>0, <3>3, <3>4, StillThere DEF Part1, Fresh, Taken, Free, ThreadType
      <3>8. Allowed(t, thread'[t])
        BY <1>0, <2>1, <3>a, <3>3, <3>4, <3>6, <3>7, AtWork DEF Allowed
      <3> QED BY <1>0, <2>1, <3>3, <3>6, <3>8, MovesTurnover DEF Frame
    <2> QED BY <1>4, <2>2, <2>3 DEF Spawn
  <1>6. CASE Failed(t)
    <2>1. Ranges /\ Evolves /\ thread[t].pc # "idle"
      BY <1>0, <1>6, Stepped, StayEvolves DEF Failed, At
    <2>2. CASE End(t)
      BY <1>0, <2>1, <2>2, QuietFrame
    <2>3. CASE Begin(t, [Quiet EXCEPT !.pc = "open", !.blocker = TRUE, !.source = t])
      <3> DEFINE d == [Quiet EXCEPT !.pc = "open", !.blocker = TRUE, !.source = t]
      <3>1. d \in ThreadType /\ d.pc = "open" /\ d.todo = {}
        BY QuietIs DEF ThreadType, Places
      <3> HIDE DEF d
      <3> QED BY <1>0, <2>1, <2>3, <3>1, NewFrame DEF d
    <2> QED BY <1>6, <2>2, <2>3 DEF Failed
  <1>7. CASE Note(t)
    <2>1. Evolves /\ thread[t].pc = "note" /\ Go(t, "dependents") /\ Step /\ UNCHANGED req
      BY <1>0, <1>7, StayEvolves DEF Note, At
    <2>2. Ranges
      <3> DEFINE i == thread[t].iss
                 new == [issues[i] EXCEPT !.reverify = thread[t].cur]
      <3>1. i \in 1..Len(issues) /\ thread[t].cur \in Ids
        BY <1>0, <2>1 DEF Part1, Roles
      <3>2. issues[i] \in IssueType
        BY <1>0, <3>1
      <3>3. new \in IssueType
        BY <3>1, <3>2 DEF IssueType
      <3>4. issues' = issues \/ issues' = [issues EXCEPT ![i] = new]
        BY <1>7 DEF Note
      <3> HIDE DEF i, new
      <3> QED BY <1>0, <2>1, <3>1, <3>3, <3>4, IssueUpdates, Stepped
    <2> QED BY <1>0, <2>1, <2>2, GoFrame DEF TaskPlaces, Places
  <1> QED BY <1>1, <1>2, <1>3, <1>4, <1>6, <1>7

\* A thread that changes some of its fields.
LEMMA FieldsFrame ==
  ASSUME Part1, Evolves, Ranges, NEW k \in Threads, NEW d \in ThreadType, thread' = [thread EXCEPT ![k] = d],
         k \in Users \/ thread[k].pc # "idle" \/ Taken(k), Allowed(k, d)
  PROVE  Frame
  <1>1. Typed /\ Moves(k, d) /\ thread'[k] = d
    BY DEF Part1, Typed, Moves
  <1> QED BY <1>1, MovesTurnover DEF Frame

Drops(u, t) == thread' = [thread EXCEPT ![u].todo = @ \ {t}]

LEMMA DropFrame ==
  ASSUME Part1, Evolves, Ranges, NEW u \in Users, NEW t, thread[u].pc \in {"stop", "abandon"},
         Drops(u, t)
  PROVE  Frame
  <1> DEFINE d == [thread[u] EXCEPT !.todo = @ \ {t}]
  <1>1. Typed /\ u \in Threads /\ u \notin Ids
    BY RequirementsAssumption DEF Part1, Threads
  <1>2. thread[u] \in ThreadType /\ thread[u].todo \subseteq Ids /\ \A o \in thread[u].todo : Taken(o)
    <2>1. thread[u] \in ThreadType
      BY <1>1 DEF Typed
    <2> QED BY <1>1, <2>1 DEF ThreadType, Part1, Fresh, Taken, Free
  <1>3. d \in ThreadType /\ d.pc = thread[u].pc /\ d.todo \subseteq thread[u].todo
    BY <1>2 DEF ThreadType
  <1>4. thread' = [thread EXCEPT ![u] = d]
    BY DEF Drops
  <1> HIDE DEF d
  <1>5. \A o \in d.todo : tasks'[o].st # "none"
    BY <1>2, <1>3, StillThere
  <1>6. Allowed(u, d)
    BY <1>1, <1>3, <1>5 DEF Allowed
  <1> QED BY <1>1, <1>3, <1>4, <1>6, FieldsFrame

\* The requests that touch a task.
LEMMA RequestFrame ==
  ASSUME Part1, NEW u \in Users,
         \/ \E t \in Ids : StartPlanned(u, t) \/ Resume(u, t) \/ Cancel(u, t) \/ Delete(u, t)
         \/ \E i \in 1..Len(issues) : ConfirmFix(u, i)
         \/ Suggest(u)
  PROVE  Frame
  <1>0. /\ Typed /\ u \in Threads /\ u \notin Ids /\ thread[u] \in ThreadType
        /\ req \in ReqType /\ issues \in Seq(IssueType) /\ Len(issues) <= MaxIssues /\ Len(issues) <= Len(issues)
    BY RequirementsAssumption DEF Part1, Typed, Threads
  <1>1. Ranges
    <2>1. Request(u) /\ UNCHANGED <<req, issues>>
      BY DEF StartPlanned, Resume, Cancel, Delete, ConfirmFix, Suggest
    <2> QED BY <1>0, <2>1, Asked
  <1>2. ASSUME NEW t \in Ids, StartPlanned(u, t) PROVE Frame
    <2>1. Evolves /\ t \in Known /\ Taken(t)
      BY <1>0, <1>2, StartPlannedEffect, AltersEvolves, TaskIs
    <2>2. Loop(u, "activate", {t})
      BY <1>2 DEF StartPlanned
    <2> QED BY <1>0, <1>1, <2>1, <2>2, LoopFrame
  <1>3. ASSUME NEW t \in Ids, Resume(u, t) \/ Cancel(u, t) \/ Delete(u, t) PROVE Frame
    <2>1. UNCHANGED thread /\ t \in Known /\ Taken(t)
      BY <1>0, <1>3, TaskIs DEF Resume, Cancel, Delete
    <2>2. Alters(t)
      BY <1>0, <1>3, <2>1, ResumeEffect, CancelEffect, DeleteEffect DEF Cancel
    <2> QED BY <1>0, <1>1, <2>1, <2>2, AltersEvolves, NoneMoves DEF Frame
  <1>4. ASSUME NEW i \in 1..Len(issues), ConfirmFix(u, i) PROVE Frame
    <2> DEFINE f == FirstOf(Free)
               d == [Quiet EXCEPT !.pc = "assign", !.iss = i, !.cur = f]
    <2>1. Free # {} /\ tasks' = [tasks EXCEPT ![f] = Fix] /\ Begin(u, d)
      BY <1>4 DEF ConfirmFix
    <2>2. f \in Ids /\ i \in Nat
      BY <2>1, FirstTask DEF Free
    <2>3. Evolves
      BY <1>0, <2>1, NewTasks, OneAdded, AddsEvolves
    <2>4. d \in ThreadType /\ d.pc = "assign" /\ d.todo = {} /\ d.cur = f /\ d.iss = i
      BY <1>0, <2>2, QuietIs DEF ThreadType, Places
    <2> HIDE DEF d, f
    <2> QED BY <1>0, <1>1, <2>1, <2>2, <2>3, <2>4, NewFrame
  <1>5. CASE Suggest(u)
    <2> DEFINE f == FirstOf(Free)
               d == [Quiet EXCEPT !.pc = "suggest", !.cur = f]
               new == [NoTask EXCEPT !.st = "pending", !.role = "split", !.agent = TRUE]
    <2>1. CASE Free # {} /\ tasks' = [tasks EXCEPT ![f] = new] /\ Begin(u, d)
      <3>2. f \in Ids
        BY <2>1, FirstTask DEF Free
      <3>3. new \in TaskType /\ new.st = "pending" /\ new.deps = {}
        BY NewTasks
      <3>4. d \in ThreadType /\ d.pc = "suggest" /\ d.todo = {} /\ d.cur = f
        BY <1>0, <3>2, QuietIs DEF ThreadType, Places
      <3> HIDE DEF new
      <3>5. Adds(f) /\ Evolves /\ tasks'[f] = new
        BY <1>0, <2>1, <3>3, OneAdded, AddsEvolves
      <3> HIDE DEF d, f
      <3> QED BY <1>0, <1>1, <2>1, <3>2, <3>3, <3>4, <3>5, NewFrame
    <2>2. ASSUME NEW t \in Known, Gives(t), UNCHANGED thread PROVE Frame
      <3>1. t \in Ids /\ Taken(t)
        BY DEF Known, Taken
      <3> QED BY <1>0, <1>1, <2>2, <3>1, GiveEffect, AltersEvolves, NoneMoves DEF Frame
    <2> QED BY <1>5, <2>1, <2>2 DEF Suggest, Gives
  <1> QED BY <1>2, <1>3, <1>4, <1>5

\* A task that joins, and perhaps is at work.
LEMMA PromoteFrame ==
  ASSUME Part1, NEW u \in Users, NEW st \in {"running", "completed"}, Promote(u, st)
  PROVE  Frame
  <1>0. /\ Typed /\ u \in Threads /\ u \notin Ids /\ thread[u] \in ThreadType
        /\ req \in ReqType /\ issues \in Seq(IssueType) /\ Len(issues) <= MaxIssues /\ Len(issues) <= Len(issues)
    BY RequirementsAssumption DEF Part1, Typed, Threads
  <1>1. Ranges
    BY <1>0, Asked DEF Promote
  <1> DEFINE f == FirstOf(Free)
             new == [NoTask EXCEPT !.st = st, !.agent = TRUE, !.done = st = "completed"]
             l == IF st = "running" THEN "turn" ELSE "idle"
             d == [thread[u] EXCEPT !.pc = "promote"]
             e == [thread[f] EXCEPT !.pc = l]
  <1>2. Free # {} /\ tasks' = [tasks EXCEPT ![f] = new]
    BY DEF Promote
  <1>3. thread' = [thread EXCEPT ![u].pc = "promote", ![f].pc = l]
    BY DEF Promote
  <1>4. new \in TaskType /\ new.st # "none" /\ new.deps = {}
    BY NewTasks
  <1>5. f \in Free /\ f \in Ids /\ f \in Threads /\ f # u
    BY <1>0, <1>2, FirstTask DEF Free, Threads
  <1>6. Evolves /\ tasks'[f] = new
    <2> HIDE DEF new
    <2> QED BY <1>0, <1>2, <1>4, OneAdded, AddsEvolves
  <1> HIDE DEF f, new
  <1>7. thread[f] = Quiet
    BY <1>5 DEF Part1, Fresh
  <1>8. /\ d \in ThreadType /\ d.pc = "promote" /\ d.todo = thread[u].todo
        /\ e \in ThreadType /\ e.pc = l /\ e.todo = {}
    BY <1>0, <1>7, QuietIs DEF ThreadType, Places
  <1>9. thread' = [[thread EXCEPT ![u] = d] EXCEPT ![f] = e]
    BY <1>0, <1>3, <1>5 DEF Typed
  <1>10. l \in {"turn", "idle"}
    OBVIOUS
  <1> HIDE DEF d, e, l
  <1>11. /\ thread' \in [Threads -> ThreadType] /\ thread'[u] = d /\ thread'[f] = e
         /\ \A k \in Threads \ {u, f} : thread'[k] = thread[k]
    BY <1>0, <1>5, <1>8, <1>9 DEF Typed
  <1>12. \A o \in d.todo : tasks'[o].st # "none"
    <2>0. thread[u].todo \subseteq Ids
      BY <1>0 DEF ThreadType
    <2>1. \A o \in thread[u].todo : Taken(o)
      BY <1>0, <2>0 DEF Part1, Fresh, Taken, Free
    <2> QED BY <1>6, <1>8, <2>0, <2>1, StillThere
  <1>13. Allowed(u, d)
    BY <1>0, <1>8, <1>12 DEF Allowed
  <1>14. f \notin Users
    BY <1>5, RequirementsAssumption
  <1>15. Allowed(f, e)
    BY <1>4, <1>6, <1>8, <1>10, <1>14 DEF Allowed
  <1>16. Turnover
    BY <1>11, <1>13, <1>15 DEF Turnover
  <1> QED BY <1>1, <1>6, <1>16 DEF Frame

\* What an Append of an issue, and an update of one, do.
LEMMA IssueAppends ==
  ASSUME Typed, NEW new \in IssueType, Len(issues) # MaxIssues, issues' = Append(issues, new)
  PROVE  /\ issues' \in Seq(IssueType) /\ Len(issues') = Len(issues) + 1 /\ Len(issues') <= MaxIssues
         /\ Len(issues) <= Len(issues')
         /\ \A i \in 1..Len(issues) : issues'[i] = issues[i]
         /\ issues'[Len(issues) + 1] = new
  BY RequirementsAssumption DEF Typed

\* How an issue comes to be.
LEMMA IssueFrame ==
  ASSUME Part1, NEW k \in Threads, Open(k) \/ Opened(k)
  PROVE  Frame
  <1>0. /\ Typed /\ thread[k] \in ThreadType /\ thread[k].pc # "idle"
        /\ req \in ReqType /\ issues \in Seq(IssueType) /\ Len(issues) <= MaxIssues /\ Len(issues) <= Len(issues)
    BY DEF Part1, Typed, Open, Opened, At
  <1>1. CASE Open(k)
    <2>1. Ranges /\ thread[k].pc = "open"
      BY <1>0, <1>1, Stepped DEF Open, Creates, At
    <2>2. CASE End(k) /\ UNCHANGED tasks
      BY <1>0, <2>1, <2>2, QuietFrame, StayEvolves
    <2>3. CASE Go(k, "append") /\ UNCHANGED tasks /\ ~thread[k].blocker
      BY <1>0, <2>1, <2>3, GoFrame, StayEvolves DEF Places, TaskPlaces
    <2>4. CASE Creates(k, Fix, "append")
      <3> DEFINE f == FirstOf(Free)
                 d == [thread[k] EXCEPT !.cur = f, !.pc = "append"]
      <3>1. Free # {} /\ tasks' = [tasks EXCEPT ![f] = Fix] /\ thread' = [thread EXCEPT ![k] = d]
        BY <2>4 DEF Creates
      <3>2. f \in Ids
        BY <3>1, FirstTask DEF Free
      <3>3. Evolves
        BY <1>0, <3>1, NewTasks, OneAdded, AddsEvolves
      <3>4. d \in ThreadType /\ d.pc = "append" /\ d.todo = thread[k].todo /\ d.cur = f
        BY <1>0, <3>2 DEF ThreadType, Places
      <3> HIDE DEF d, f
      <3>5. \A o \in d.todo : tasks'[o].st # "none"
        BY <1>0, <3>3, <3>4, StillThere DEF Part1, Fresh, Taken, Free, ThreadType
      <3>6. Allowed(k, d)
        BY <1>0, <3>2, <3>3, <3>4, <3>5, AtWork DEF Allowed
      <3> QED BY <1>0, <2>1, <3>1, <3>3, <3>4, <3>6, FieldsFrame
    <2> QED BY <1>1, <2>2, <2>3, <2>4 DEF Open
  <1>2. CASE Opened(k)
    <2> DEFINE new == [st |-> OpenStatus(thread[k].blocker), source |-> thread[k].source,
                       fix |-> thread[k].cur, reverify |-> 0, auto |-> k \in Ids]
    <2>1. new \in IssueType
      <3>1. thread[k].blocker => thread[k].cur \in Ids
        BY <1>2 DEF Opened, At, Part1, Roles
      <3> QED BY <1>0, <3>1 DEF IssueType, ThreadType, OpenStatus
    <2>2. issues' = issues \/ (Len(issues) # MaxIssues /\ issues' = Append(issues, new))
      BY <1>2 DEF Opened
    <2> HIDE DEF new
    <2>3. issues' \in Seq(IssueType) /\ Len(issues') <= MaxIssues /\ Len(issues) <= Len(issues')
      BY <1>0, <2>1, <2>2, IssueAppends
    <2>4. req' \in ReqType /\ Step /\ Evolves
      BY <1>0, <1>2, ReqTypes, StayEvolves DEF Opened, Put
    <2>5. Ranges
      BY <1>0, <2>3, <2>4, Stepped
    <2>6. CASE k \in Users /\ Go(k, "ready")
      <3>1. k \notin Ids
        BY <2>6, RequirementsAssumption
      <3> QED BY <1>0, <2>4, <2>5, <2>6, <3>1, GoFrame DEF TaskPlaces, Places
    <2>7. CASE End(k)
      BY <1>0, <2>4, <2>5, <2>7, QuietFrame
    <2> QED BY <1>2, <2>6, <2>7 DEF Opened
  <1> QED BY <1>1, <1>2

\* The handlers of a user go on.
LEMMA HandleFrame ==
  ASSUME Part1, NEW u \in Users, Handles(u)
  PROVE  Frame
  <1>0. /\ Typed /\ u \in Threads /\ u \notin Ids /\ thread[u] \in ThreadType
        /\ req \in ReqType /\ issues \in Seq(IssueType) /\ Len(issues) <= MaxIssues /\ Len(issues) <= Len(issues)
    BY RequirementsAssumption DEF Part1, Typed, Threads
  <1>1. CASE Assign(u)
    <2> DEFINE i == thread[u].iss
               new == [issues[i] EXCEPT !.st = "fixing", !.fix = thread[u].cur]
    <2>1. i \in 1..Len(issues) /\ thread[u].cur \in Ids
      BY <1>0, <1>1 DEF Assign, At, Part1, Roles
    <2>2. issues[i] \in IssueType
      BY <1>0, <2>1
    <2>3. new \in IssueType
      BY <2>1, <2>2 DEF IssueType
    <2>4. issues' = issues \/ issues' = [issues EXCEPT ![i] = new]
      BY <1>1 DEF Assign
    <2> HIDE DEF i, new
    <2>5. Step /\ UNCHANGED <<req, tasks>> /\ Go(u, "ready")
      BY <1>1 DEF Assign
    <2>6. Ranges
      BY <1>0, <2>1, <2>3, <2>4, <2>5, IssueUpdates, Stepped
    <2> QED BY <1>0, <2>5, <2>6, GoFrame, StayEvolves DEF TaskPlaces, Places
  <1>2. CASE WriteDone(u) \/ Promoted(u)
    <2>1. End(u) /\ UNCHANGED <<tasks, issues>> /\ Step /\ req' \in ReqType
      BY <1>0, <1>2, ReqTypes DEF WriteDone, Promoted, Put
    <2> QED BY <1>0, <2>1, QuietFrame, Stepped, StayEvolves
  <1>3. CASE Stop(u)
    <2>1. Next1(u) \in Ids /\ Taken(Next1(u))
      BY <1>0, <1>3, NextIs DEF Stop
    <2>2. Evolves
      BY <1>0, <1>3, <2>1, CancelEffect, AltersEvolves DEF Stop, Next1
    <2>3. Ranges
      BY <1>0, <1>3, Stepped DEF Stop
    <2>4. thread[u].pc = "stop" /\ Drops(u, Next1(u))
      BY <1>3 DEF Stop, Next1, At, Drops
    <2> QED BY <1>0, <2>2, <2>3, <2>4, DropFrame
  <1>4. CASE Look(u)
    <2> DEFINE S == {t \in Work : ~(tasks[t].st = "cancelled" /\ tasks[t].abandoned)}
               d == [Quiet EXCEPT !.pc = "abandon", !.todo = S]
    <2>1. Ranges /\ UNCHANGED tasks
      BY <1>0, <1>4, Stepped DEF Look
    <2>2. S \subseteq Ids /\ S \subseteq Known
      BY DEF Work, Known
    <2> HIDE DEF S
    <2>3. d \in ThreadType /\ d.pc = "abandon" /\ d.todo = S
      BY <2>2, QuietIs DEF ThreadType, Places
    <2>4. Begin(u, d) \/ End(u)
      BY <1>4 DEF Look, S
    <2> HIDE DEF d
    <2> QED BY <1>0, <2>1, <2>2, <2>3, <2>4, BeginFrame, QuietFrame, StayEvolves
  <1>5. CASE Abandon(u)
    <2>1. Evolves
      BY <1>0, <1>5, AbandonEffect, AltersEvolves, StayEvolves
    <2>2. Ranges
      BY <1>0, <1>5, Stepped DEF Abandon
    <2>3. thread[u].pc = "abandon" /\ (End(u) \/ Drops(u, Next1(u)))
      BY <1>5 DEF Abandon, Next1, At, Drops
    <2> QED BY <1>0, <2>1, <2>2, <2>3, DropFrame, QuietFrame
  <1>6. CASE Apply(u)
    <2>1. Ranges /\ UNCHANGED tasks /\ Evolves
      BY <1>0, <1>6, Stepped, StayEvolves DEF Apply
    <2>2. CASE End(u)
      BY <1>0, <2>1, <2>2, QuietFrame
    <2>3. ASSUME NEW existing \in {Known, {}}, Valid(req.proposal, existing),
                 thread' = [thread EXCEPT ![u].pc = "create", ![u].nodes = req.proposal]
          PROVE  Frame
      <3> DEFINE d == [thread[u] EXCEPT !.pc = "create", !.nodes = req.proposal]
      <3>1. req.proposal \in Seq(NodesOn)
        BY <1>0 DEF ReqType
      <3>2. d \in ThreadType /\ d.pc = "create" /\ d.todo = thread[u].todo /\ d.nodes = req.proposal
        BY <1>0, <3>1 DEF ThreadType, Places
      <3>3. thread' = [thread EXCEPT ![u] = d]
        BY <2>3
      <3> HIDE DEF d
      <3>4. \A o \in d.todo : tasks'[o].st # "none"
        BY <1>0, <2>1, <3>2, StillThere DEF Part1, Fresh, Taken, Free, ThreadType
      <3>5. NodesHold(req.proposal)
        <4> DEFINE p == req.proposal
        <4>1. \A i \in 1..Len(p) : p[i].deps \subseteq 1..Len(p) /\ p[i].on \subseteq existing
          BY <2>3 DEF Valid
        <4>2. \A i \in 1..Len(p) : p[i].deps \cap {i} = {}
          <5> TAKE i \in 1..Len(p)
          <5>1. {i} \in (SUBSET (1..Len(p))) \ {{}}
            OBVIOUS
          <5>2. \E j \in {i} : p[j].deps \cap {i} = {}
            BY <2>3, <5>1 DEF Valid
          <5> QED BY <5>2
        <4>3. \A t \in existing : tasks'[t].st # "none"
          BY <2>1 DEF Known
        <4> HIDE DEF p
        <4> QED BY <4>1, <4>2, <4>3 DEF NodesHold, p
      <3>6. Allowed(u, d)
        BY <1>0, <3>2, <3>4, <3>5 DEF Allowed
      <3> QED BY <1>0, <2>1, <3>2, <3>3, <3>6, FieldsFrame
    <2> QED BY <1>6, <2>2, <2>3 DEF Apply
  <1>7. CASE Create(u)
    <2> DEFINE d == [Quiet EXCEPT !.pc = "record", !.expand = thread[u].expand]
    <2>1. Ranges /\ thread[u].pc = "create"
      BY <1>0, <1>7, Stepped DEF Create, At
    <2>2. d \in ThreadType /\ d.pc = "record" /\ d.todo = {}
      BY <1>0, QuietIs DEF ThreadType, Places
    <2>3. (tasks' = tasks) \/ \E id \in FreshIds(Len(thread[u].nodes)), n \in 0..Len(thread[u].nodes) :
                              tasks' = Planned(thread[u].nodes, id, n)
      <3>1. thread[u].nodes \in Seq(NodesOn) /\ Len(thread[u].nodes) \in Nat
        BY <1>0 DEF ThreadType
      <3>2. /\ Len(thread[u].nodes) \in 0..Len(thread[u].nodes)
            /\ 0..(Len(thread[u].nodes) - 1) \subseteq 0..Len(thread[u].nodes)
        BY <3>1
      <3> QED BY <1>7, <3>2 DEF Create
    <2>4. Evolves
      BY <1>0, <2>1, <2>3, PlannedEvolves, StayEvolves
    <2>5. Begin(u, d) \/ End(u)
      BY <1>7 DEF Create
    <2> HIDE DEF d
    <2> QED BY <1>0, <2>1, <2>2, <2>4, <2>5, NewFrame, QuietFrame
  <1>8. CASE Record(u)
    <2>1. Evolves /\ thread[u].pc = "record"
      BY <1>0, <1>8, StayEvolves DEF Record, At
    <2>2. Ranges
      <3>1. req' \in ReqType
        <4>1. \A b \in BOOLEAN : [req EXCEPT !.st = "active", !.branch = b] \in ReqType
          BY <1>0, ReqTypes
        <4>2. \/ req' = req
              \/ req' = [req EXCEPT !.st = "active", !.branch = req.branch \/ ~thread[u].expand]
          BY <1>8 DEF Record, Put
        <4>3. (req.branch \/ ~thread[u].expand) \in BOOLEAN
          OBVIOUS
        <4> QED BY <1>0, <4>1, <4>2, <4>3
      <3> QED BY <1>0, <1>8, <3>1, Stepped DEF Record
    <2>3. End(u) \/ Go(u, "discard")
      BY <1>8 DEF Record
    <2> QED BY <1>0, <2>1, <2>2, <2>3, GoFrame, QuietFrame DEF TaskPlaces, Places
  <1>9. CASE DiscardApplied(u)
    <2> DEFINE d == [Quiet EXCEPT !.pc = "ready"]
    <2>1. <<>> \in Seq(NodesOn)
      OBVIOUS
    <2>2. Ranges /\ UNCHANGED tasks /\ Begin(u, d)
      BY <1>0, <1>9, <2>1, Stepped, ReqTypes DEF DiscardApplied
    <2>3. d \in ThreadType /\ d.pc = "ready" /\ d.todo = {}
      BY QuietIs DEF ThreadType, Places
    <2> HIDE DEF d
    <2> QED BY <1>0, <2>2, <2>3, BeginFrame
  <1>10. CASE StartSuggest(u)
    <2>1. thread[u].pc = "suggest" /\ End(u) /\ Gives(thread[u].cur)
      BY <1>10 DEF StartSuggest, At, Gives
    <2>2. thread[u].cur \in Ids /\ Taken(thread[u].cur)
      BY <1>0, <2>1 DEF Part1, Roles, Fresh, Taken, Free
    <2>3. Ranges
      BY <1>0, <1>10, Stepped, ReqTypes DEF StartSuggest, Put
    <2> QED BY <1>0, <2>1, <2>2, <2>3, GiveEffect, AltersEvolves, QuietFrame
  <1> QED BY <1>1, <1>2, <1>3, <1>4, <1>5, <1>6, <1>7, <1>8, <1>9, <1>10 DEF Handles

\* Who takes a step, and how.
Asks(u) ==
    \/ AsksOnly(u) \/ Suggest(u)
    \/ \E t \in Ids : StartPlanned(u, t) \/ Resume(u, t) \/ Cancel(u, t) \/ Delete(u, t)
    \/ \E i \in 1..Len(issues) : ConfirmFix(u, i)
    \/ \E st \in {"running", "completed"} : Promote(u, st)

LEMMA NextFrame ==
  ASSUME Part1, Next
  PROVE  Frame
  <1>1. ASSUME NEW k \in Threads, Advances(k) PROVE Frame
    BY <1>1, ScheduleFrame, IssueFrame DEF Advances
  <1>2. ASSUME NEW t \in Ids, FeedsBack(t) \/ TurnEnds(t, "completed") \/ TurnEnds(t, "failed") PROVE Frame
    <2>1. t \in Threads
      BY DEF Threads
    <2> QED BY <1>2, <2>1, FeedbackFrame, ScheduleFrame DEF FeedsBack
  <1>3. ASSUME NEW u \in Users, Requested(u) PROVE Asks(u)
    BY <1>3 DEF Requested, Asks, AsksOnly
  <1>4. ASSUME NEW u \in Users, Asks(u) PROVE Frame
    BY <1>4, AsksFrame, RequestFrame, PromoteFrame DEF Asks
  <1> QED BY <1>1, <1>2, <1>3, <1>4, HandleFrame DEF Next

-----------------------------------------------------------------------------
(* No task starts before its dependencies *)

LEMMA InitPart1 == Init => Part1
  <1> SUFFICES ASSUME Init PROVE Part1
    OBVIOUS
  <1>1. /\ req \in ReqType /\ issues \in Seq(IssueType) /\ Len(issues) = 0
        /\ requests = 0 /\ faults = 0
    <2>1. \A p \in {<<>>} \cup {q \in Proposals : Valid(q, {})} : p \in Seq(NodesOn)
      <3>1. \A p \in Proposals : p \in Seq(NodesOn)
        BY ProposalTypes
      <3>2. <<>> \in Seq(NodesOn)
        OBVIOUS
      <3> QED BY <3>1, <3>2
    <2>2. req \in ReqType
      BY <2>1 DEF Init, ReqType
    <2> QED BY <2>2 DEF Init
  <1>2. thread \in [Threads -> ThreadType] /\ \A k \in Threads : thread[k] = Quiet
    BY QuietIs DEF Init
  <1>3. tasks \in [Ids -> TaskType] /\ \A t \in Ids : tasks[t] = NoTask
    BY NoTaskIs DEF Init
  <1>4. Typed
    BY <1>1, <1>2, <1>3, RequirementsAssumption DEF Typed
  <1>5. NoTask.deps = {} /\ NoTask.st = "none"
    BY DEF NoTask
  <1>6. Free \subseteq Ids /\ Ids \subseteq Threads /\ Users \subseteq Threads
    BY DEF Free, Threads
  <1>7. Fresh /\ Plans /\ Roles /\ NoneOnItself
    BY <1>2, <1>3, <1>5, <1>6, QuietIs DEF Fresh, Plans, Roles, NoneOnItself
  <1> QED BY <1>4, <1>7 DEF Part1

\* The places where a thread gives a task a turn, or is that turn.
Starting == {"pend", "suggest", "turn"}

\* The places where a thread minds tasks that are due, and how it goes on.
Minding ==
    {"activate", "pend", "record", "discard", "ready", "completed", "spawn", "note", "dependents"}

MindStep(k) ==
    \/ StartReady(k) \/ Activate(k)
    \/ k \in Ids /\ (Completed(k) \/ Spawn(k) \/ Note(k) \/ Dependents(k))
    \/ k \in Users /\ (Record(k) \/ DiscardApplied(k))

\* A step that touches no task, and no thread that is about to start one.
Plain ==
    /\ UNCHANGED tasks
    /\ \E k \in Threads :
          /\ thread[k].pc \notin Starting /\ thread'[k].pc \notin Starting
          /\ \A o \in Threads \ {k} : thread'[o] = thread[o]
          /\ thread[k].pc \notin Minding \/ MindStep(k)

\* Their actions.
PlainStep ==
    \/ \E k \in Threads :
          \/ StartReady(k) \/ Opened(k)
          \/ Activate(k) /\ Next1(k) \notin ReadyPlanned
          \/ Open(k) /\ UNCHANGED tasks
    \/ \E t \in Ids :
          \/ Completed(t) \/ Note(t) \/ Failed(t) \/ Dependents(t)
          \/ Spawn(t) /\ UNCHANGED tasks
    \/ \E u \in Users :
          \/ AsksOnly(u) \/ Assign(u) \/ WriteDone(u) \/ Look(u) \/ Apply(u) \/ Record(u)
          \/ DiscardApplied(u) \/ Promoted(u)
          \/ Create(u) /\ UNCHANGED tasks

LEMMA OneMoves ==
  ASSUME Typed, NEW k \in Threads, UNCHANGED tasks, thread[k].pc \notin Minding \/ MindStep(k),
         NEW d, thread' = [thread EXCEPT ![k] = d],
         thread[k].pc \notin Starting, d.pc \notin Starting
  PROVE  Plain
  BY DEF Typed, Plain

LEMMA LoopPlain ==
  ASSUME Typed, NEW k \in Threads, UNCHANGED tasks, thread[k].pc \notin Minding \/ MindStep(k),
         NEW S \in SUBSET Ids, Loop(k, "activate", S),
         thread[k].pc \notin Starting
  PROVE  Plain
  <1>1. "activate" \in Places
    BY DEF Places
  <1> DEFINE d == IF S = {} THEN Quiet ELSE [Quiet EXCEPT !.pc = "activate", !.todo = S]
  <1>2. Moves(k, d)
    BY <1>1, LoopMoves
  <1> HIDE DEF d
  <1>3. thread'[k].pc = IF S = {} THEN "idle" ELSE "activate"
    BY <1>1, LoopMoves
  <1> QED BY <1>2, <1>3 DEF Plain, Moves, Starting

LEMMA GoPlain ==
  ASSUME Typed, NEW k \in Threads, UNCHANGED tasks, thread[k].pc \notin Minding \/ MindStep(k),
         NEW l \in Places \ Starting, Go(k, l),
         thread[k].pc \notin Starting
  PROVE  Plain
  <1>1. Moves(k, At1(thread[k], l)) /\ thread'[k].pc = l
    BY GoMoves
  <1> QED BY <1>1 DEF Plain, Moves

LEMMA EndPlain ==
  ASSUME Typed, NEW k \in Threads, UNCHANGED tasks, thread[k].pc \notin Minding \/ MindStep(k),
         End(k), thread[k].pc \notin Starting
  PROVE  Plain
  <1>1. Moves(k, Quiet)
    BY EndMoves
  <1> QED BY <1>1, QuietIs DEF Plain, Moves, Starting

LEMMA BeginPlain ==
  ASSUME Typed, NEW k \in Threads, UNCHANGED tasks, thread[k].pc \notin Minding \/ MindStep(k),
         NEW d, Begin(k, d), d.pc \notin Starting,
         thread[k].pc \notin Starting
  PROVE  Plain
  BY OneMoves DEF Begin

LEMMA AsksPlain ==
  ASSUME Part1, NEW u \in Users, AsksOnly(u)
  PROVE  Plain
  <1>0. /\ Typed /\ u \in Threads /\ thread[u] \in ThreadType /\ UNCHANGED tasks
        /\ thread[u].pc \notin Starting \cup Minding
    <2>1. Typed /\ u \in Threads /\ thread[u] \in ThreadType
      BY DEF Part1, Typed, Threads
    <2>2. UNCHANGED tasks /\ Request(u)
      BY DEF AsksOnly, HumanVerify, Replace, OpenByUser, Resolve, Propose, Expand, Patch, MarkDone,
             Discard, Confirm, DeleteRequirement
    <2> QED BY <2>1, <2>2 DEF Request, At, Starting, Minding
  <1>1. CASE UNCHANGED thread
    BY <1>0, <1>1 DEF Plain
  <1>2. CASE \E d : Begin(u, d) /\ d.pc \in {"open", "stop", "done", "apply"}
    BY <1>0, <1>2, BeginPlain DEF Starting
  <1>3. /\ \A b \in BOOLEAN, s \in {0} \cup {t \in Known : tasks[t].role = "test"} :
             [Quiet EXCEPT !.pc = "open", !.blocker = b, !.source = s].pc = "open"
        /\ \A l \in {"open", "done", "apply"} : [Quiet EXCEPT !.pc = l].pc = l
        /\ [Quiet EXCEPT !.pc = "apply", !.expand = TRUE].pc = "apply"
        /\ \A b \in BOOLEAN : \A S : [Quiet EXCEPT !.pc = "stop", !.force = b, !.todo = S].pc = "stop"
    BY DEF Quiet
  <1>4. ASSUME NEW b \in BOOLEAN, NEW s \in {0} \cup {t \in Known : tasks[t].role = "test"}, OpenByUser(u, b, s)
        PROVE  \E d : Begin(u, d) /\ d.pc \in {"open", "stop", "done", "apply"}
    <2>1. Begin(u, [Quiet EXCEPT !.pc = "open", !.blocker = b, !.source = s])
      BY <1>4 DEF OpenByUser
    <2>2. [Quiet EXCEPT !.pc = "open", !.blocker = b, !.source = s].pc = "open"
      BY <1>3
    <2> QED BY <2>1, <2>2
  <1>5. ASSUME NEW b \in BOOLEAN, Replace(u, b)
        PROVE  \E d : Begin(u, d) /\ d.pc \in {"open", "stop", "done", "apply"}
    <2> DEFINE S == {t \in Work : tasks[t].st # "cancelled"}
    <2>1. Begin(u, [Quiet EXCEPT !.pc = "stop", !.force = b, !.todo = S])
      BY <1>5 DEF Replace
    <2> HIDE DEF S
    <2>2. [Quiet EXCEPT !.pc = "stop", !.force = b, !.todo = S].pc = "stop"
      BY <1>3
    <2> QED BY <2>1, <2>2
  <1>6. ASSUME NEW b \in BOOLEAN, HumanVerify(u, b)
        PROVE  UNCHANGED thread \/ \E d : Begin(u, d) /\ d.pc \in {"open", "stop", "done", "apply"}
    BY <1>3, <1>6 DEF HumanVerify
  <1>7. ASSUME NEW p \in Proposals, NEW e \in Ids, Expand(u, p, e)
        PROVE  \E d : Begin(u, d) /\ d.pc \in {"open", "stop", "done", "apply"}
    BY <1>3, <1>7 DEF Expand
  <1>8. (MarkDone(u) \/ Confirm(u)) => (\E d : Begin(u, d) /\ d.pc \in {"open", "stop", "done", "apply"})
    BY <1>3 DEF MarkDone, Confirm
  <1>9. (\/ Discard(u) \/ DeleteRequirement(u)
         \/ (\E st \in {"done", "cancelled"} : Patch(u, st))
         \/ (\E p \in Proposals : Propose(u, p))
         \/ (\E i \in 1..Len(issues) : Resolve(u, i))) => UNCHANGED thread
    BY DEF Discard, DeleteRequirement, Patch, Propose, Resolve
  <1> QED BY <1>1, <1>2, <1>4, <1>5, <1>6, <1>7, <1>8, <1>9 DEF AsksOnly

LEMMA PlainSteps ==
  ASSUME Part1, PlainStep
  PROVE  Plain
  <1>0. Typed /\ Users \subseteq Threads /\ Ids \subseteq Threads /\ ReadyPlanned \subseteq Ids
    BY DEF Part1, Threads, ReadyPlanned, Known
  <1>a. \A k \in Threads : thread[k] \in ThreadType /\ thread[k].todo \subseteq Ids
    <2>1. \A k \in Threads : thread[k] \in ThreadType
      BY <1>0 DEF Typed
    <2> QED BY <2>1 DEF ThreadType
  <1>1. ASSUME NEW k \in Threads, StartReady(k) PROVE Plain
    <2>1. MindStep(k)
      BY <1>1 DEF MindStep
    <2> QED BY <1>0, <1>1, <2>1, LoopPlain DEF StartReady, At, Starting
  <1>2. ASSUME NEW k \in Threads, Opened(k) PROVE Plain
    <2>1. thread[k].pc \notin Starting \cup Minding /\ UNCHANGED tasks /\ (Go(k, "ready") \/ End(k))
      BY <1>2 DEF Opened, At, Starting, Minding
    <2>2. "ready" \in Places \ Starting
      BY DEF Places, Starting
    <2> QED BY <1>0, <2>1, <2>2, GoPlain, EndPlain
  <1>3. ASSUME NEW k \in Threads, Activate(k), Next1(k) \notin ReadyPlanned PROVE Plain
    <2>1. Loop(k, "activate", thread[k].todo \ {Next1(k)}) /\ thread[k].pc \notin Starting /\ UNCHANGED tasks /\ MindStep(k)
      BY <1>3 DEF Activate, Next1, At, Starting, MindStep
    <2>2. thread[k].todo \ {Next1(k)} \in SUBSET Ids
      BY <1>a
    <2> QED BY <1>0, <2>1, <2>2, LoopPlain
  <1>4. ASSUME NEW k \in Threads, Open(k), UNCHANGED tasks PROVE Plain
    <2>1. thread[k].pc \notin Starting \cup Minding
      BY <1>4 DEF Open, At, Starting, Minding
    <2>2. \/ End(k) \/ Go(k, "append")
          \/ thread' = [thread EXCEPT ![k].cur = FirstOf(Free), ![k].pc = "append"]
      BY <1>4 DEF Open, Creates
    <2>3. CASE thread' = [thread EXCEPT ![k].cur = FirstOf(Free), ![k].pc = "append"]
      <3> DEFINE d == [thread[k] EXCEPT !.cur = FirstOf(Free), !.pc = "append"]
      <3>1. d.pc = "append"
        BY <1>a DEF ThreadType
      <3>2. thread' = [thread EXCEPT ![k] = d]
        BY <2>3
      <3> HIDE DEF d
      <3> QED BY <1>0, <1>4, <2>1, <3>1, <3>2, OneMoves DEF Starting
    <2>4. "append" \in Places \ Starting
      BY DEF Places, Starting
    <2> QED BY <1>0, <1>4, <2>1, <2>2, <2>3, <2>4, EndPlain, GoPlain
  <1>5. ASSUME NEW t \in Ids, Completed(t) PROVE Plain
    <2>1. thread[t].pc \notin Starting /\ UNCHANGED tasks /\ t \in Threads /\ MindStep(t)
      BY <1>0, <1>5 DEF Completed, At, Starting, MindStep
    <2>2. Go(t, "dependents") \/ \E i : thread' = [thread EXCEPT ![t].pc = "spawn", ![t].iss = i]
      BY <1>5 DEF Completed
    <2>3. ASSUME NEW i, thread' = [thread EXCEPT ![t].pc = "spawn", ![t].iss = i] PROVE Plain
      <3> DEFINE d == [thread[t] EXCEPT !.pc = "spawn", !.iss = i]
      <3>1. d.pc = "spawn"
        BY <1>a, <2>1 DEF ThreadType
      <3>2. thread' = [thread EXCEPT ![t] = d]
        BY <2>3
      <3> HIDE DEF d
      <3> QED BY <1>0, <2>1, <3>1, <3>2, OneMoves DEF Starting
    <2>4. "dependents" \in Places \ Starting
      BY DEF Places, Starting
    <2> QED BY <1>0, <2>1, <2>2, <2>3, <2>4, GoPlain
  <1>6. ASSUME NEW t \in Ids, Note(t) \/ Failed(t) PROVE Plain
    <2>1. /\ thread[t].pc \notin Starting /\ UNCHANGED tasks /\ t \in Threads
          /\ thread[t].pc \notin Minding \/ MindStep(t)
      BY <1>0, <1>6 DEF Note, Failed, At, Starting, Minding, MindStep
    <2>2. "dependents" \in Places \ Starting
      BY DEF Places, Starting
    <2>3. [Quiet EXCEPT !.pc = "open", !.blocker = TRUE, !.source = t].pc = "open"
      BY DEF Quiet
    <2>4. Go(t, "dependents") \/ End(t) \/ Begin(t, [Quiet EXCEPT !.pc = "open", !.blocker = TRUE, !.source = t])
      BY <1>6 DEF Note, Failed
    <2> QED BY <1>0, <2>1, <2>2, <2>3, <2>4, GoPlain, EndPlain, BeginPlain DEF Starting
  <1>7. ASSUME NEW t \in Ids, Dependents(t) PROVE Plain
    <2>1. MindStep(t)
      BY <1>7 DEF MindStep
    <2> QED BY <1>0, <1>7, <2>1, LoopPlain DEF Dependents, At, Starting
  <1>8. ASSUME NEW t \in Ids, Spawn(t), UNCHANGED tasks PROVE Plain
    <2>1. thread[t].pc \notin Starting /\ t \in Threads /\ MindStep(t)
      BY <1>0, <1>8 DEF Spawn, At, Starting, MindStep
    <2>2. "dependents" \in Places \ Starting
      BY DEF Places, Starting
    <2>3. Go(t, "dependents") \/ thread' = [thread EXCEPT ![t].cur = FirstOf(Free), ![t].pc = "note"]
      BY <1>8 DEF Spawn, Creates
    <2>4. CASE thread' = [thread EXCEPT ![t].cur = FirstOf(Free), ![t].pc = "note"]
      <3> DEFINE d == [thread[t] EXCEPT !.cur = FirstOf(Free), !.pc = "note"]
      <3>1. d.pc = "note"
        BY <1>a, <2>1 DEF ThreadType
      <3>2. thread' = [thread EXCEPT ![t] = d]
        BY <2>4
      <3> HIDE DEF d
      <3> QED BY <1>0, <1>8, <2>1, <3>1, <3>2, OneMoves DEF Starting
    <2> QED BY <1>0, <1>8, <2>1, <2>2, <2>3, <2>4, GoPlain
  <1>9. ASSUME NEW u \in Users,
               Assign(u) \/ WriteDone(u) \/ Promoted(u) \/ Record(u)
        PROVE  Plain
    <2>1. /\ thread[u].pc \notin Starting /\ UNCHANGED tasks /\ u \in Threads
          /\ thread[u].pc \notin Minding \/ MindStep(u)
      BY <1>0, <1>9 DEF Assign, WriteDone, Promoted, Record, At, Starting, Minding, MindStep
    <2>2. End(u) \/ Go(u, "ready") \/ Go(u, "discard")
      BY <1>9 DEF Assign, WriteDone, Promoted, Record
    <2>3. {"ready", "discard"} \subseteq Places \ Starting
      BY DEF Places, Starting
    <2> QED BY <1>0, <2>1, <2>2, <2>3, EndPlain, GoPlain
  <1>10. ASSUME NEW u \in Users, Look(u) \/ DiscardApplied(u) PROVE Plain
    <2>1. /\ thread[u].pc \notin Starting /\ UNCHANGED tasks /\ u \in Threads
          /\ thread[u].pc \notin Minding \/ MindStep(u)
      BY <1>0, <1>10 DEF Look, DiscardApplied, At, Starting, Minding, MindStep
    <2>2. End(u) \/ (\E d : Begin(u, d) /\ d.pc \in {"abandon", "ready"})
      <3>1. [Quiet EXCEPT !.pc = "ready"].pc = "ready" /\ \A S : [Quiet EXCEPT !.pc = "abandon", !.todo = S].pc = "abandon"
        BY DEF Quiet
      <3> QED BY <1>10, <3>1 DEF Look, DiscardApplied
    <2> QED BY <1>0, <2>1, <2>2, EndPlain, BeginPlain DEF Starting
  <1>11. ASSUME NEW u \in Users, Apply(u) PROVE Plain
    <2>1. thread[u].pc \notin Starting \cup Minding /\ UNCHANGED tasks /\ u \in Threads
      BY <1>0, <1>11 DEF Apply, Abandoned, At, Starting, Minding
    <2>2. End(u) \/ thread' = [thread EXCEPT ![u].pc = "create", ![u].nodes = req.proposal]
      BY <1>11 DEF Apply
    <2>3. CASE thread' = [thread EXCEPT ![u].pc = "create", ![u].nodes = req.proposal]
      <3> DEFINE d == [thread[u] EXCEPT !.pc = "create", !.nodes = req.proposal]
      <3>1. d.pc = "create"
        BY <1>a, <2>1 DEF ThreadType
      <3>2. thread' = [thread EXCEPT ![u] = d]
        BY <2>3
      <3> HIDE DEF d
      <3> QED BY <1>0, <2>1, <3>1, <3>2, OneMoves DEF Starting
    <2> QED BY <1>0, <2>1, <2>2, <2>3, EndPlain
  <1>12. ASSUME NEW u \in Users, Create(u), UNCHANGED tasks PROVE Plain
    <2>1. thread[u].pc \notin Starting \cup Minding /\ u \in Threads
      BY <1>0, <1>12 DEF Create, At, Starting, Minding
    <2>2. [Quiet EXCEPT !.pc = "record", !.expand = thread[u].expand].pc = "record"
      BY DEF Quiet
    <2>3. End(u) \/ Begin(u, [Quiet EXCEPT !.pc = "record", !.expand = thread[u].expand])
      BY <1>12 DEF Create
    <2> QED BY <1>0, <1>12, <2>1, <2>2, <2>3, EndPlain, BeginPlain DEF Starting
  <1> QED BY <1>1, <1>2, <1>3, <1>4, <1>5, <1>6, <1>7, <1>8, <1>9, <1>10, <1>11, <1>12, AsksPlain DEF PlainStep

\* The other steps: they start a task, or change some.
OtherStep ==
    \/ \E k \in Threads :
          \/ Activate(k) /\ Next1(k) \in ReadyPlanned
          \/ Pend(k)
          \/ Open(k) /\ tasks' # tasks
    \/ \E t \in Ids :
          \/ TurnBegins(t) \/ TurnEnds(t, "completed") \/ TurnEnds(t, "failed")
          \/ Spawn(t) /\ tasks' # tasks
    \/ \E u \in Users :
          \/ Stop(u) \/ Abandon(u) \/ StartSuggest(u) \/ Suggest(u)
          \/ Create(u) /\ tasks' # tasks
          \/ \E t \in Ids : StartPlanned(u, t) \/ Resume(u, t) \/ Cancel(u, t) \/ Delete(u, t)
          \/ \E i \in 1..Len(issues) : ConfirmFix(u, i)
          \/ \E st \in {"running", "completed"} : Promote(u, st)

LEMMA NextSplits == Next => PlainStep \/ OtherStep
  <1>1. ASSUME NEW k \in Threads, Advances(k) PROVE PlainStep \/ OtherStep
    BY <1>1 DEF Advances, PlainStep, OtherStep
  <1>2. ASSUME NEW t \in Ids, FeedsBack(t) \/ TurnEnds(t, "completed") \/ TurnEnds(t, "failed")
        PROVE  PlainStep \/ OtherStep
    BY <1>2 DEF FeedsBack, PlainStep, OtherStep
  <1>3. ASSUME NEW u \in Users, Handles(u) PROVE PlainStep \/ OtherStep
    BY <1>3 DEF Handles, PlainStep, OtherStep
  <1>4. ASSUME NEW u \in Users, Requested(u) PROVE PlainStep \/ OtherStep
    BY <1>4 DEF Requested, AsksOnly, PlainStep, OtherStep
  <1> QED BY <1>1, <1>2, <1>3, <1>4 DEF Next

\* Earned after the step.
WillBeEarned(t) == tasks'[t].again \/ \A d \in tasks'[t].deps : d # 0 /\ tasks'[d].done

\* Whatever starts a task, or is about to, has reason to do so after the step.
Reasons ==
    /\ \A t \in Ids :
          /\ \/ WillBeEarned(t)
             \/ /\ tasks'[t].st \in Started => tasks[t].st \in Started
                /\ tasks'[t].turns > 0 => tasks[t].turns > 0
                /\ thread'[t].pc = "turn" => thread[t].pc = "turn"
          /\ tasks'[t].st = "completed" => tasks[t].st = "completed" \/ tasks'[t].done
    /\ \A k \in Threads :
          \/ thread'[k] = thread[k]
          \/ /\ thread'[k].pc = "pend" => WillBeEarned(FirstOf(thread'[k].todo))
             /\ thread'[k].pc = "suggest" => WillBeEarned(thread'[k].cur)

LEMMA EarnedKept ==
  ASSUME Part1, Evolves, NEW t \in Ids, Earned(t), Taken(t)
  PROVE  WillBeEarned(t)
  <1>1. CASE tasks[t].again
    BY <1>1 DEF Evolves, Kept, Earned, WillBeEarned
  <1>2. CASE \A d \in tasks[t].deps : d # 0 /\ tasks[d].done
    <2>1. tasks'[t].deps = tasks[t].deps
      BY DEF Evolves, Kept
    <2>2. ASSUME NEW d \in tasks[t].deps PROVE d # 0 /\ tasks'[d].done
      <3>1. d \in Ids /\ tasks[d].done
        BY <1>2, TaskIs DEF Part1
      <3>2. Taken(d)
        BY <3>1 DEF Part1, Fresh, Taken, Free, NoTask
      <3> QED BY <1>2, <3>1, <3>2 DEF Evolves, Kept
    <2> QED BY <2>1, <2>2 DEF Earned, WillBeEarned
  <1> QED BY <1>1, <1>2 DEF Earned, WillBeEarned

\* A thread that is going to start a task holds one that is there.
LEMMA InHand ==
  ASSUME Part1, NEW k \in Threads
  PROVE  /\ thread[k].pc = "pend" => FirstOf(thread[k].todo) \in Ids /\ Taken(FirstOf(thread[k].todo))
         /\ thread[k].pc = "suggest" => thread[k].cur \in Ids /\ Taken(thread[k].cur)
  <1>1. thread[k].pc = "pend" => FirstOf(thread[k].todo) \in Ids /\ Taken(FirstOf(thread[k].todo))
    BY NextIs DEF Part1, Roles, Next1
  <1>2. thread[k].pc = "suggest" => thread[k].cur \in Ids /\ Taken(thread[k].cur)
    BY DEF Part1, Roles, Fresh, Taken, Free
  <1> QED BY <1>1, <1>2

LEMMA ReasonsHold ==
  ASSUME Part1, Starts, Frame, Reasons
  PROVE  Starts'
  <1>1. ASSUME NEW t \in Ids
        PROVE  /\ tasks'[t].st \in Started \/ tasks'[t].turns > 0 \/ thread'[t].pc = "turn" => WillBeEarned(t)
               /\ tasks'[t].st = "completed" => tasks'[t].done
    <2>0. t \in Threads /\ tasks[t].turns \in Nat
      BY TaskIs DEF Threads, Part1
    <2>1. CASE ~Taken(t)
      <3>1. /\ tasks[t].st \notin Started /\ tasks[t].turns = 0 /\ thread[t].pc # "turn"
            /\ tasks[t].st # "completed"
        BY <2>1, QuietIs DEF Part1, Fresh, Taken, Free, NoTask, Started, Live
      <3> QED BY <3>1 DEF Reasons
    <2>2. CASE Taken(t)
      <3>1. tasks[t].st \in Started \/ tasks[t].turns > 0 \/ thread[t].pc = "turn" => WillBeEarned(t)
        BY <2>2, EarnedKept DEF Starts, Frame
      <3>2. tasks[t].st = "completed" => tasks'[t].done
        BY <2>2 DEF Starts, Frame, Evolves, Kept
      <3> QED BY <3>1, <3>2 DEF Reasons
    <2> QED BY <2>1, <2>2
  <1>2. ASSUME NEW k \in Threads
        PROVE  /\ thread'[k].pc = "pend" => WillBeEarned(FirstOf(thread'[k].todo))
               /\ thread'[k].pc = "suggest" => WillBeEarned(thread'[k].cur)
    <2>1. CASE thread'[k] = thread[k]
      <3>1. ASSUME thread[k].pc = "pend" PROVE WillBeEarned(FirstOf(thread'[k].todo))
        <4> DEFINE t == FirstOf(thread[k].todo)
        <4>1. t \in Ids /\ Taken(t) /\ Earned(t)
          BY <3>1, InHand DEF Starts
        <4>2. FirstOf(thread'[k].todo) = t
          BY <2>1
        <4> HIDE DEF t
        <4>3. tasks'[t].again \/ \A d \in tasks'[t].deps : d # 0 /\ tasks'[d].done
          BY <4>1, EarnedKept DEF Frame, Earned, WillBeEarned
        <4> QED BY <4>2, <4>3 DEF Earned, WillBeEarned
      <3>2. ASSUME thread[k].pc = "suggest" PROVE WillBeEarned(thread'[k].cur)
        <4> DEFINE t == thread[k].cur
        <4>1. t \in Ids /\ Taken(t) /\ Earned(t)
          BY <3>2, InHand DEF Starts
        <4>2. thread'[k].cur = t
          BY <2>1
        <4> HIDE DEF t
        <4>3. tasks'[t].again \/ \A d \in tasks'[t].deps : d # 0 /\ tasks'[d].done
          BY <4>1, EarnedKept DEF Frame, Earned, WillBeEarned
        <4> QED BY <4>2, <4>3 DEF Earned, WillBeEarned
      <3> QED BY <2>1, <3>1, <3>2
    <2> QED BY <2>1 DEF Reasons
  <1>3. /\ \A t \in Ids : Earned(t)' <=> WillBeEarned(t)
        /\ \A k \in Threads : Earned(FirstOf(thread[k].todo))' <=> WillBeEarned(FirstOf(thread'[k].todo))
        /\ \A k \in Threads : Earned(thread[k].cur)' <=> WillBeEarned(thread'[k].cur)
    BY DEF Earned, WillBeEarned
  <1> QED BY <1>1, <1>2, <1>3 DEF Starts

\* Where the threads go that start a task or change some.
OnlyMoves(k) == \A o \in Threads \ {k} : thread'[o] = thread[o]
Shifts(k, from, to) == thread[k].pc = from /\ thread'[k].pc \in to /\ OnlyMoves(k)

LEMMA FieldsMove ==
  ASSUME Typed, NEW k \in Threads, NEW d, thread' = [thread EXCEPT ![k] = d]
  PROVE  thread'[k] = d /\ OnlyMoves(k)
  BY DEF Typed, OnlyMoves

LEMMA ActivateMoves ==
  ASSUME Part1, NEW k \in Threads, Activate(k), Next1(k) \in ReadyPlanned
  PROVE  /\ Shifts(k, "activate", {"pend"}) /\ UNCHANGED tasks
         /\ thread'[k].todo = thread[k].todo /\ FirstOf(thread'[k].todo) = Next1(k)
  <1>1. Typed /\ "pend" \in Places /\ Go(k, "pend") /\ thread[k].pc = "activate" /\ UNCHANGED tasks
    BY DEF Part1, Places, Activate, At, Next1
  <1>2. Moves(k, At1(thread[k], "pend")) /\ thread'[k].pc = "pend" /\ thread'[k].todo = thread[k].todo
    BY <1>1, GoMoves
  <1> QED BY <1>1, <1>2 DEF Shifts, OnlyMoves, Moves, Next1

LEMMA PendMoves ==
  ASSUME Part1, NEW k \in Threads, Pend(k)
  PROVE  /\ Shifts(k, "pend", {"idle", "activate"})
         /\ thread'[k].todo = thread[k].todo \ {Next1(k)}
         /\ thread[k].todo # {Next1(k)} => thread'[k].pc = "activate"
  <1> DEFINE S == thread[k].todo \ {Next1(k)}
             d == IF S = {} THEN Quiet ELSE [Quiet EXCEPT !.pc = "activate", !.todo = S]
  <1>1. Typed /\ "activate" \in Places /\ thread[k].pc = "pend" /\ Loop(k, "activate", S) /\ Next1(k) \in thread[k].todo
    BY PendEffect DEF Part1, Places, Pend, At, Next1
  <1>2. S \in SUBSET Ids
    <2>1. thread[k] \in ThreadType
      BY <1>1 DEF Typed
    <2> QED BY <2>1 DEF ThreadType
  <1> HIDE DEF S
  <1>3. Moves(k, d)
    BY <1>1, <1>2, LoopMoves
  <1>4. thread'[k].todo = S /\ thread'[k].pc = IF S = {} THEN "idle" ELSE "activate"
    BY <1>1, <1>2, LoopMoves
  <1> HIDE DEF d
  <1> QED BY <1>1, <1>3, <1>4 DEF Shifts, OnlyMoves, Moves, S

LEMMA TurnBeginsMoves ==
  ASSUME Part1, NEW t \in Ids, TurnBegins(t)
  PROVE  Shifts(t, "idle", {"turn"})
  <1>1. Typed /\ t \in Threads /\ "turn" \in Places /\ thread[t].pc = "idle" /\ Go(t, "turn")
    BY DEF Part1, Threads, Places, TurnBegins, At
  <1>2. Moves(t, At1(thread[t], "turn")) /\ thread'[t].pc = "turn"
    BY <1>1, GoMoves
  <1> QED BY <1>1, <1>2 DEF Shifts, OnlyMoves, Moves

LEMMA TurnEndsMoves ==
  ASSUME Part1, NEW t \in Ids, NEW outcome \in {"completed", "failed"}, TurnEnds(t, outcome)
  PROVE  Shifts(t, "turn", {IF t \in Known THEN outcome ELSE "idle"})
  <1> DEFINE l == IF t \in Known THEN outcome ELSE "idle"
  <1>1. Typed /\ t \in Threads /\ l \in Places /\ thread[t].pc = "turn" /\ Go(t, l)
    BY DEF Part1, Threads, Places, TurnEnds, At
  <1> HIDE DEF l
  <1>2. Moves(t, At1(thread[t], l)) /\ thread'[t].pc = l
    BY <1>1, GoMoves
  <1> QED BY <1>1, <1>2 DEF Shifts, OnlyMoves, Moves, l

\* A step that creates one task.
LEMMA CreatesEffect ==
  ASSUME Part1, NEW k \in Threads, NEW new \in TaskType, NEW next, Creates(k, new, next),
         new.st # "none", \A d \in new.deps : d \in Ids /\ Taken(d)
  PROVE  /\ Adds(FirstOf(Free)) /\ tasks'[FirstOf(Free)] = new
         /\ Shifts(k, thread[k].pc, {next}) /\ thread'[k].cur = FirstOf(Free)
         /\ thread'[k].iss = thread[k].iss /\ thread'[k].todo = thread[k].todo
         /\ thread'[k].source = thread[k].source /\ thread'[k].blocker = thread[k].blocker
  <1>1. Typed /\ thread[k] \in ThreadType
    BY DEF Part1, Typed
  <1>2. Adds(FirstOf(Free)) /\ tasks'[FirstOf(Free)] = new
    BY <1>1, OneAdded DEF Creates
  <1> DEFINE f == FirstOf(Free)
             d == [thread[k] EXCEPT !.cur = f, !.pc = next]
  <1>3. thread' = [thread EXCEPT ![k] = d]
    BY DEF Creates
  <1>4. /\ d.pc = next /\ d.cur = f /\ d.iss = thread[k].iss /\ d.todo = thread[k].todo
        /\ d.source = thread[k].source /\ d.blocker = thread[k].blocker
    BY <1>1 DEF ThreadType
  <1> HIDE DEF d, f
  <1> QED BY <1>1, <1>2, <1>3, <1>4, FieldsMove DEF Shifts, f

LEMMA OpenEffect ==
  ASSUME Part1, NEW k \in Threads, Open(k), tasks' # tasks
  PROVE  /\ Adds(FirstOf(Free)) /\ tasks'[FirstOf(Free)] = Fix
         /\ Shifts(k, "open", {"append"}) /\ thread[k].blocker
         /\ thread'[k].source = thread[k].source /\ thread'[k].blocker = thread[k].blocker
         /\ thread'[k].cur = FirstOf(Free)
  <1>1. Creates(k, Fix, "append") /\ thread[k].pc = "open" /\ thread[k].blocker
    BY DEF Open, At
  <1>2. Fix \in TaskType /\ Fix.st # "none" /\ Fix.deps = {}
    BY NewTasks
  <1> QED BY <1>1, <1>2, CreatesEffect DEF Shifts

LEMMA SpawnEffect ==
  ASSUME Part1, NEW t \in Ids, Spawn(t), tasks' # tasks
  PROVE  /\ Adds(FirstOf(Free)) /\ Shifts(t, "spawn", {"note"}) /\ thread'[t].cur = FirstOf(Free)
         /\ thread'[t].iss = thread[t].iss
         /\ LET new == tasks'[FirstOf(Free)] IN
            /\ new.st = "planned" /\ new.deps = {t} /\ new.turns = 0 /\ new.verifies = thread[t].iss
            /\ new.agent = FALSE
  <1> DEFINE new == [NoTask EXCEPT !.st = "planned", !.role = "test", !.deps = {t}, !.verifies = thread[t].iss]
  <1>0. t \in Threads /\ thread[t] \in ThreadType /\ Taken(t)
    BY QuietIs DEF Part1, Typed, Threads, Spawn, At, Fresh, Taken, Free
  <1>1. Creates(t, new, "note") /\ thread[t].pc = "spawn"
    BY DEF Spawn, At
  <1>2. /\ new \in TaskType /\ new.st = "planned" /\ new.deps = {t} /\ new.turns = 0
        /\ new.verifies = thread[t].iss /\ new.agent = FALSE
    <2>1. thread[t].iss \in Nat
      BY <1>0 DEF ThreadType
    <2> QED BY ZenonT(60), <2>1, NewTasks
  <1> HIDE DEF new
  <1> QED BY <1>0, <1>1, <1>2, CreatesEffect DEF Shifts

LEMMA ConfirmFixEffect ==
  ASSUME Part1, NEW u \in Users, NEW i \in 1..Len(issues), ConfirmFix(u, i)
  PROVE  /\ Adds(FirstOf(Free)) /\ tasks'[FirstOf(Free)] = Fix
         /\ Shifts(u, "idle", {"assign"}) /\ thread'[u].iss = i /\ thread'[u].cur = FirstOf(Free)
  <1> DEFINE f == FirstOf(Free)
             d == [Quiet EXCEPT !.pc = "assign", !.iss = i, !.cur = f]
  <1>1. Typed /\ Free # {} /\ tasks' = [tasks EXCEPT ![f] = Fix] /\ Begin(u, d) /\ thread[u].pc = "idle" /\ u \in Threads
    BY DEF Part1, ConfirmFix, Request, At, Threads
  <1>2. Fix \in TaskType /\ Fix.st # "none" /\ Fix.deps = {}
    BY NewTasks
  <1>3. Adds(f) /\ tasks'[f] = Fix
    BY <1>1, <1>2, OneAdded
  <1>4. d.pc = "assign" /\ d.iss = i /\ d.cur = f
    BY DEF Quiet
  <1> HIDE DEF d
  <1> QED BY <1>1, <1>3, <1>4, FieldsMove DEF Begin, Shifts

LEMMA StopEffect ==
  ASSUME Part1, NEW u \in Users, Stop(u)
  PROVE  /\ Next1(u) \in Ids /\ Taken(Next1(u)) /\ Alters(Next1(u))
         /\ Becomes(Next1(u), Stopped(Next1(u)), tasks[Next1(u)].done, tasks[Next1(u)].again, 0)
         /\ Shifts(u, "stop", {"stop"})
  <1> DEFINE d == [thread[u] EXCEPT !.todo = @ \ {Next1(u)}]
  <1>1. Typed /\ u \in Threads /\ thread[u] \in ThreadType /\ thread[u].pc = "stop"
    BY DEF Part1, Typed, Threads, Stop, At
  <1>2. Next1(u) \in Ids /\ Taken(Next1(u))
    BY <1>1, NextIs DEF Stop
  <1>3. tasks' = [tasks EXCEPT ![Next1(u)] = Cancelled(Next1(u))] /\ thread' = [thread EXCEPT ![u] = d]
    BY DEF Stop, Next1
  <1>4. d.pc = "stop"
    BY <1>1 DEF ThreadType
  <1> HIDE DEF d
  <1> QED BY <1>1, <1>2, <1>3, <1>4, CancelEffect, FieldsMove DEF Shifts

LEMMA AbandonMoves ==
  ASSUME Part1, NEW u \in Users, Abandon(u)
  PROVE  Shifts(u, "abandon", {"idle", "abandon"})
  <1> DEFINE d == [thread[u] EXCEPT !.todo = @ \ {Next1(u)}]
  <1>1. Typed /\ u \in Threads /\ thread[u] \in ThreadType /\ thread[u].pc = "abandon"
    BY DEF Part1, Typed, Threads, Abandon, At
  <1>2. End(u) \/ thread' = [thread EXCEPT ![u] = d]
    BY DEF Abandon, Next1
  <1>3. d.pc = "abandon"
    BY <1>1 DEF ThreadType
  <1> HIDE DEF d
  <1> QED BY <1>1, <1>2, <1>3, QuietIs, FieldsMove DEF End, Shifts

LEMMA StartSuggestEffect ==
  ASSUME Part1, NEW u \in Users, StartSuggest(u)
  PROVE  /\ Shifts(u, "suggest", {"idle"}) /\ thread[u].cur \in Ids /\ Alters(thread[u].cur)
         /\ LET t == thread[u].cur IN
            Becomes(t, tasks[t].st, tasks[t].done, tasks[t].again, tasks[t].turns + 1)
  <1>1. Typed /\ u \in Threads /\ thread[u].pc = "suggest" /\ End(u) /\ Gives(thread[u].cur)
    BY DEF Part1, Threads, StartSuggest, At, Gives
  <1>2. thread[u].cur \in Ids /\ Taken(thread[u].cur)
    BY <1>1, InHand
  <1> QED BY <1>1, <1>2, GiveEffect, QuietIs, FieldsMove DEF End, Shifts

\* A session that splits the requirement is created, or gets another turn.
LEMMA SuggestEffect ==
  ASSUME Part1, NEW u \in Users, Suggest(u)
  PROVE  \/ /\ Adds(FirstOf(Free)) /\ Shifts(u, "idle", {"suggest"}) /\ thread'[u].cur = FirstOf(Free)
            /\ LET new == tasks'[FirstOf(Free)] IN
               new.st = "pending" /\ new.deps = {} /\ new.turns = 0 /\ new.verifies = 0
         \/ \E t \in Known :
               /\ tasks[t].st = "pending" /\ UNCHANGED thread /\ Alters(t)
               /\ Becomes(t, tasks[t].st, tasks[t].done, tasks[t].again, tasks[t].turns + 1)
  <1> DEFINE f == FirstOf(Free)
             d == [Quiet EXCEPT !.pc = "suggest", !.cur = f]
             new == [NoTask EXCEPT !.st = "pending", !.role = "split", !.agent = TRUE]
  <1>1. Typed /\ u \in Threads /\ thread[u].pc = "idle"
    BY DEF Part1, Threads, Suggest, Request, At
  <1>2. CASE Free # {} /\ tasks' = [tasks EXCEPT ![f] = new] /\ Begin(u, d)
    <2>1. new \in TaskType /\ new.st = "pending" /\ new.deps = {} /\ new.turns = 0 /\ new.verifies = 0
      BY NewTasks
    <2>2. d.pc = "suggest" /\ d.cur = f
      BY DEF Quiet
    <2> HIDE DEF new, d
    <2>3. Adds(f) /\ tasks'[f] = new
      BY <1>1, <1>2, <2>1, OneAdded
    <2> QED BY <1>1, <1>2, <2>1, <2>2, <2>3, FieldsMove DEF Begin, Shifts
  <1>3. ASSUME NEW t \in Known, tasks[t].st = "pending", Gives(t), UNCHANGED thread
        PROVE  /\ Alters(t)
               /\ Becomes(t, tasks[t].st, tasks[t].done, tasks[t].again, tasks[t].turns + 1)
    <2>1. t \in Ids /\ Taken(t)
      BY DEF Known, Taken
    <2> QED BY <1>1, <1>3, <2>1, GiveEffect
  <1>4. \/ Free # {} /\ tasks' = [tasks EXCEPT ![f] = new] /\ Begin(u, d)
        \/ \E t \in Known : tasks[t].st = "pending" /\ Gives(t) /\ UNCHANGED thread
    BY DEF Suggest, Gives
  <1> HIDE DEF f, d, new
  <1> QED BY <1>2, <1>3, <1>4 DEF f

LEMMA CreateEffect ==
  ASSUME Part1, NEW u \in Users, Create(u)
  PROVE  /\ Shifts(u, "create", {"idle", "record"})
         /\ \A t \in Ids : \/ tasks'[t] = tasks[t]
                           \/ /\ t \in Free /\ tasks'[t].st = "planned" /\ tasks'[t].turns = 0
                              /\ tasks'[t].verifies = 0
  <1> DEFINE d == [Quiet EXCEPT !.pc = "record", !.expand = thread[u].expand]
  <1>1. Typed /\ u \in Threads /\ thread[u] \in ThreadType /\ thread[u].pc = "create"
    BY DEF Part1, Typed, Threads, Create, At
  <1>2. Begin(u, d) \/ End(u)
    BY DEF Create
  <1>3. d.pc = "record"
    BY DEF Quiet
  <1> HIDE DEF d
  <1>4. Shifts(u, "create", {"idle", "record"})
    BY <1>1, <1>2, <1>3, QuietIs, FieldsMove DEF Begin, End, Shifts
  <1>5. (tasks' = tasks) \/ \E id \in FreshIds(Len(thread[u].nodes)), n \in 0..Len(thread[u].nodes) :
                            tasks' = Planned(thread[u].nodes, id, n)
    <2>1. Len(thread[u].nodes) \in Nat
      BY <1>1 DEF ThreadType
    <2>2. /\ Len(thread[u].nodes) \in 0..Len(thread[u].nodes)
          /\ 0..(Len(thread[u].nodes) - 1) \subseteq 0..Len(thread[u].nodes)
      BY <2>1
    <2> QED BY <2>2 DEF Create
  <1> QED BY <1>1, <1>4, <1>5, PlannedEvolves

LEMMA StartPlannedMoves ==
  ASSUME Part1, NEW u \in Users, NEW t \in Ids, StartPlanned(u, t)
  PROVE  Shifts(u, "idle", {"activate"}) /\ thread'[u].todo = {t}
  <1>1. Typed /\ u \in Threads /\ thread[u].pc = "idle" /\ Loop(u, "activate", {t}) /\ "activate" \in Places
    BY DEF Part1, Threads, StartPlanned, Request, At, Places
  <1> DEFINE d == [Quiet EXCEPT !.pc = "activate", !.todo = {t}]
  <1>2. thread' = [thread EXCEPT ![u] = d]
    BY <1>1 DEF Loop
  <1>3. d.pc = "activate" /\ d.todo = {t}
    BY DEF Quiet
  <1> HIDE DEF d
  <1> QED BY <1>1, <1>2, <1>3, FieldsMove DEF Shifts

LEMMA PromoteEffect ==
  ASSUME Part1, NEW u \in Users, NEW st \in {"running", "completed"}, Promote(u, st)
  PROVE  /\ Adds(FirstOf(Free)) /\ u # FirstOf(Free) /\ FirstOf(Free) \in Ids
         /\ LET new == tasks'[FirstOf(Free)] IN
            /\ new.st = st /\ new.deps = {} /\ new.turns = 0 /\ new.verifies = 0
            /\ new.done = (st = "completed")
         /\ thread[u].pc = "idle" /\ thread'[u].pc = "promote"
         /\ thread[FirstOf(Free)].pc = "idle" /\ thread'[FirstOf(Free)].pc \in {"idle", "turn"}
         /\ \A o \in Threads \ {u, FirstOf(Free)} : thread'[o] = thread[o]
  <1> DEFINE f == FirstOf(Free)
             new == [NoTask EXCEPT !.st = st, !.agent = TRUE, !.done = st = "completed"]
             l == IF st = "running" THEN "turn" ELSE "idle"
             d == [thread[u] EXCEPT !.pc = "promote"]
             e == [thread[f] EXCEPT !.pc = l]
  <1>0. Typed /\ u \in Threads /\ u \notin Ids /\ thread[u] \in ThreadType /\ thread[u].pc = "idle"
    BY RequirementsAssumption DEF Part1, Typed, Threads, Promote, Request, At
  <1>2. Free # {} /\ tasks' = [tasks EXCEPT ![f] = new]
    BY DEF Promote
  <1>3. thread' = [thread EXCEPT ![u].pc = "promote", ![f].pc = l]
    BY DEF Promote
  <1>4. /\ new \in TaskType /\ new.st = st /\ new.deps = {} /\ new.turns = 0 /\ new.verifies = 0
        /\ new.done = (st = "completed")
    BY NewTasks
  <1>5. f \in Free /\ f \in Ids /\ f \in Threads /\ f # u
    BY <1>0, <1>2, FirstTask DEF Free, Threads
  <1>6. Adds(f) /\ tasks'[f] = new
    <2> HIDE DEF new
    <2> QED BY <1>0, <1>2, <1>4, OneAdded
  <1> HIDE DEF f, new
  <1>7. thread[f] = Quiet
    BY <1>5 DEF Part1, Fresh
  <1>8. d.pc = "promote" /\ e.pc = l
    BY <1>0, <1>7, QuietIs DEF ThreadType
  <1>9. thread' = [[thread EXCEPT ![u] = d] EXCEPT ![f] = e]
    BY <1>0, <1>3, <1>5 DEF Typed
  <1>10. l \in {"turn", "idle"}
    OBVIOUS
  <1> HIDE DEF d, e, l
  <1>11. thread'[u] = d /\ thread'[f] = e /\ \A k \in Threads \ {u, f} : thread'[k] = thread[k]
    BY <1>0, <1>5, <1>9 DEF Typed
  <1> QED BY <1>0, <1>4, <1>5, <1>6, <1>7, <1>8, <1>10, <1>11, QuietIs DEF f

LEMMA PlainReasons ==
  ASSUME Part1, Plain
  PROVE  Reasons
  BY DEF Plain, Reasons, Starting, Part1, Typed, Threads

\* A thread shifts, and starts nothing.
LEMMA ShiftReasons ==
  ASSUME Part1, NEW k \in Threads, NEW from, NEW to, Shifts(k, from, to), to \cap Starting = {}
  PROVE  /\ \A o \in Threads : thread'[o].pc = "turn" => thread[o].pc = "turn"
         /\ \A o \in Threads :
              \/ thread'[o] = thread[o]
              \/ /\ thread'[o].pc = "pend" => WillBeEarned(FirstOf(thread'[o].todo))
                 /\ thread'[o].pc = "suggest" => WillBeEarned(thread'[o].cur)
  BY DEF Shifts, OnlyMoves, Starting

\* A task that is altered and was, or is, started with reason.
LEMMA AlterReasons ==
  ASSUME Part1, NEW t \in Ids, Alters(t),
         WillBeEarned(t) \/ (tasks'[t].st \notin Started \ {tasks[t].st} /\ tasks'[t].turns \in {0, tasks[t].turns}),
         tasks'[t].st # "completed" \/ tasks[t].st = "completed" \/ tasks'[t].done,
         \A o \in Threads : thread'[o].pc = "turn" => thread[o].pc = "turn" \/ (o = t /\ WillBeEarned(t))
  PROVE  \A o \in Ids :
           /\ \/ WillBeEarned(o)
              \/ /\ tasks'[o].st \in Started => tasks[o].st \in Started
                 /\ tasks'[o].turns > 0 => tasks[o].turns > 0
                 /\ thread'[o].pc = "turn" => thread[o].pc = "turn"
           /\ tasks'[o].st = "completed" => tasks[o].st = "completed" \/ tasks'[o].done
  <1>1. Ids \subseteq Threads
    BY DEF Threads
  <1> QED BY <1>1 DEF Alters

\* A task that is created.
LEMMA AddReasons ==
  ASSUME Part1, NEW f \in Ids, Adds(f),
         WillBeEarned(f) \/ (tasks'[f].st \notin Started /\ tasks'[f].turns = 0),
         tasks'[f].st # "completed" \/ tasks'[f].done,
         \A o \in Threads : thread'[o].pc = "turn" => thread[o].pc = "turn" \/ (o = f /\ WillBeEarned(f))
  PROVE  \A o \in Ids :
           /\ \/ WillBeEarned(o)
              \/ /\ tasks'[o].st \in Started => tasks[o].st \in Started
                 /\ tasks'[o].turns > 0 => tasks[o].turns > 0
                 /\ thread'[o].pc = "turn" => thread[o].pc = "turn"
           /\ tasks'[o].st = "completed" => tasks[o].st = "completed" \/ tasks'[o].done
  <1>1. Ids \subseteq Threads
    BY DEF Threads
  <1> QED BY <1>1 DEF Adds

LEMMA ReadyIsEarned ==
  ASSUME Part1, Starts, NEW t \in ReadyPlanned
  PROVE  t \in Ids /\ Taken(t) /\ Earned(t)
  <1>1. t \in Ids /\ Taken(t) /\ \A d \in tasks[t].deps : d \in Ids /\ tasks[d].st = "completed"
    BY DEF ReadyPlanned, DepsSatisfied, Known, Taken
  <1>2. 0 \notin Ids
    BY DEF Ids
  <1> QED BY <1>1, <1>2 DEF Earned, Starts

LEMMA NothingNeeded ==
  ASSUME NEW t, tasks'[t].deps = {} \/ tasks'[t].again
  PROVE  WillBeEarned(t)
  BY DEF Earned, WillBeEarned

LEMMA OtherReasons ==
  ASSUME Part1, Starts, Frame, OtherStep
  PROVE  Reasons
  <1>0. Typed /\ Evolves /\ Users \subseteq Threads /\ Ids \subseteq Threads
    BY DEF Part1, Frame, Threads
  <1>a. \A f \in Free : f \in Ids
    BY DEF Free
  <1>1. ASSUME NEW k \in Threads, Activate(k), Next1(k) \in ReadyPlanned PROVE Reasons
    <2>1. /\ Shifts(k, "activate", {"pend"}) /\ UNCHANGED tasks /\ FirstOf(thread'[k].todo) = Next1(k)
          /\ Earned(Next1(k))
      BY <1>1, ActivateMoves, ReadyIsEarned
    <2>2. WillBeEarned(FirstOf(thread'[k].todo))
      BY <2>1 DEF Earned, WillBeEarned
    <2>3. \A o \in Threads : thread'[o].pc \notin {"suggest", "turn"} \/ thread'[o] = thread[o]
      BY <2>1 DEF Shifts, OnlyMoves
    <2>4. \A o \in Threads : thread'[o] = thread[o] \/ o = k
      BY <2>1 DEF Shifts, OnlyMoves
    <2> QED BY <1>0, <2>1, <2>2, <2>3, <2>4 DEF Reasons
  <1>2. ASSUME NEW k \in Threads, Pend(k) PROVE Reasons
    <2>1. /\ Next1(k) \in Ids /\ Taken(Next1(k)) /\ Earned(Next1(k))
          /\ Shifts(k, "pend", {"idle", "activate"})
      BY <1>2, PendEffect, PendMoves DEF Shifts, Starts, Next1
    <2>2. WillBeEarned(Next1(k))
      BY <1>0, <2>1, EarnedKept
    <2>3. CASE Next1(k) \in Known
      <3>1. Alters(Next1(k)) /\ tasks'[Next1(k)].st = "pending"
        BY <1>2, <2>3, PendEffect DEF Becomes
      <3> QED BY <2>1, <2>2, <3>1, ShiftReasons, AlterReasons DEF Reasons, Starting
    <2>4. CASE Next1(k) \notin Known
      <3>1. UNCHANGED tasks
        BY <1>2, <2>4, PendEffect
      <3> QED BY <1>0, <2>1, <3>1, ShiftReasons DEF Reasons, Starting
    <2> QED BY <2>3, <2>4
  <1>3. ASSUME NEW k \in Threads, Open(k), tasks' # tasks PROVE Reasons
    <2>1. Adds(FirstOf(Free)) /\ tasks'[FirstOf(Free)] = Fix /\ Shifts(k, "open", {"append"})
      BY <1>3, OpenEffect
    <2>2. FirstOf(Free) \in Ids /\ Fix.st = "planned" /\ Fix.deps = {}
      BY <2>1, NewTasks DEF Adds, Free
    <2>3. WillBeEarned(FirstOf(Free))
      BY <2>1, <2>2, NothingNeeded
    <2> QED BY <2>1, <2>2, <2>3, ShiftReasons, AddReasons DEF Reasons, Starting
  <1>4. ASSUME NEW t \in Ids, TurnBegins(t) PROVE Reasons
    <2>1. /\ Alters(t) /\ tasks'[t].st = "running" /\ Shifts(t, "idle", {"turn"})
      BY <1>4, TurnBeginsEffect, TurnBeginsMoves DEF Becomes
    <2>2. WillBeEarned(t)
      BY <1>0, <1>4, <2>1, EarnedKept DEF Starts, TurnBegins, Alters
    <2>3. /\ \A o \in Threads : thread'[o].pc = "turn" => thread[o].pc = "turn" \/ (o = t /\ WillBeEarned(t))
          /\ \A o \in Threads : thread'[o] = thread[o] \/ thread'[o].pc = "turn"
      BY <2>1, <2>2 DEF Shifts, OnlyMoves
    <2> QED BY <2>1, <2>2, <2>3, AlterReasons DEF Reasons
  <1>5. ASSUME NEW t \in Ids, NEW outcome \in {"completed", "failed"}, TurnEnds(t, outcome) PROVE Reasons
    <2>1. /\ Alters(t) /\ Taken(t)
          /\ tasks'[t].st = "completed" => tasks[t].st = "completed" \/ tasks'[t].done
      BY <1>5, TurnEndsEffect DEF Becomes, Alters
    <2>2. /\ Shifts(t, "turn", {IF t \in Known THEN outcome ELSE "idle"})
          /\ {IF t \in Known THEN outcome ELSE "idle"} \cap Starting = {}
      BY <1>5, TurnEndsMoves DEF Starting
    <2>3. WillBeEarned(t)
      BY <1>0, <2>1, <2>2, EarnedKept DEF Starts, Shifts
    <2> QED BY <1>0, <2>1, <2>2, <2>3, ShiftReasons, AlterReasons DEF Reasons
  <1>6. ASSUME NEW t \in Ids, Spawn(t), tasks' # tasks PROVE Reasons
    <2>1. Adds(FirstOf(Free)) /\ tasks'[FirstOf(Free)].st = "planned" /\ tasks'[FirstOf(Free)].turns = 0
          /\ Shifts(t, "spawn", {"note"}) /\ FirstOf(Free) \in Ids
      BY <1>6, SpawnEffect DEF Adds, Free
    <2>2. "planned" \notin Started /\ {"note"} \cap Starting = {}
      BY DEF Started, Live, Starting
    <2> QED BY <1>0, <2>1, <2>2, ShiftReasons, AddReasons DEF Reasons
  <1>7. ASSUME NEW u \in Users, Stop(u) PROVE Reasons
    <2>1. /\ Next1(u) \in Ids /\ Alters(Next1(u)) /\ Shifts(u, "stop", {"stop"})
          /\ tasks'[Next1(u)].st = Stopped(Next1(u)) /\ tasks'[Next1(u)].turns = 0
      BY <1>7, StopEffect DEF Becomes
    <2>2. Stopped(Next1(u)) \in {"cancelled", tasks[Next1(u)].st} /\ {"stop"} \cap Starting = {}
          /\ "cancelled" \notin Started
      BY DEF Stopped, Starting, Started, Live
    <2> QED BY <1>0, <2>1, <2>2, ShiftReasons, AlterReasons DEF Reasons
  <1>8. ASSUME NEW u \in Users, Abandon(u) PROVE Reasons
    <2>1. Shifts(u, "abandon", {"idle", "abandon"}) /\ {"idle", "abandon"} \cap Starting = {} /\ "cancelled" \notin Started
      BY <1>8, AbandonMoves DEF Starting, Started, Live
    <2>2. CASE Next1(u) \in Known
      <3>1. Alters(Next1(u)) /\ tasks'[Next1(u)].st = "cancelled" /\ tasks'[Next1(u)].turns = tasks[Next1(u)].turns
            /\ Next1(u) \in Ids
        BY <1>0, <1>8, <2>2, AbandonEffect DEF Becomes
      <3> QED BY <1>0, <2>1, <3>1, ShiftReasons, AlterReasons DEF Reasons
    <2>3. CASE Next1(u) \notin Known
      <3>1. UNCHANGED tasks
        BY <1>0, <1>8, <2>3, AbandonEffect
      <3> QED BY <1>0, <2>1, <3>1, ShiftReasons DEF Reasons
    <2> QED BY <2>2, <2>3
  <1>9. ASSUME NEW u \in Users, StartSuggest(u) PROVE Reasons
    <2>1. /\ Shifts(u, "suggest", {"idle"}) /\ thread[u].cur \in Ids /\ Alters(thread[u].cur)
          /\ tasks'[thread[u].cur].st = tasks[thread[u].cur].st
      BY <1>9, StartSuggestEffect DEF Becomes
    <2>2. Earned(thread[u].cur) /\ Taken(thread[u].cur)
      BY <1>0, <2>1 DEF Shifts, Starts, Alters
    <2> DEFINE t == thread[u].cur
    <2> HIDE DEF t
    <2>3. WillBeEarned(t)
      <3>1. t \in Ids /\ Earned(t) /\ Taken(t)
        BY <2>1, <2>2 DEF t
      <3> QED BY <1>0, <3>1, EarnedKept
    <2>4. {"idle"} \cap Starting = {}
      BY DEF Starting
    <2> QED BY <1>0, <2>1, <2>3, <2>4, ShiftReasons, AlterReasons DEF Reasons, t
  <1>10. ASSUME NEW u \in Users, Suggest(u) PROVE Reasons
    <2>1. CASE /\ Adds(FirstOf(Free)) /\ Shifts(u, "idle", {"suggest"}) /\ thread'[u].cur = FirstOf(Free)
               /\ tasks'[FirstOf(Free)].st = "pending" /\ tasks'[FirstOf(Free)].deps = {}
      <3>1. FirstOf(Free) \in Ids
        BY <2>1 DEF Adds, Free
      <3>2. WillBeEarned(FirstOf(Free)) /\ WillBeEarned(thread'[u].cur)
        BY <2>1 DEF Earned, WillBeEarned
      <3>3. /\ \A o \in Threads : thread'[o].pc = "turn" => thread[o].pc = "turn"
            /\ \A o \in Threads : thread'[o] = thread[o] \/ (o = u /\ thread'[o].pc = "suggest")
        BY <2>1 DEF Shifts, OnlyMoves
      <3> QED BY <1>0, <2>1, <3>1, <3>2, <3>3, AddReasons DEF Reasons
    <2>2. ASSUME NEW t \in Known, tasks[t].st = "pending", UNCHANGED thread, Alters(t), tasks'[t].st = tasks[t].st
          PROVE  Reasons
      <3>1. t \in Ids /\ Taken(t) /\ Earned(t)
        BY <2>2 DEF Known, Taken, Starts, Started, Live
      <3>2. WillBeEarned(t)
        BY <1>0, <3>1, EarnedKept
      <3> QED BY <1>0, <2>2, <3>1, <3>2, AlterReasons DEF Reasons
    <2> QED BY <1>10, <2>1, <2>2, SuggestEffect DEF Becomes
  <1>11. ASSUME NEW u \in Users, Create(u) PROVE Reasons
    <2>1. /\ Shifts(u, "create", {"idle", "record"}) /\ {"idle", "record"} \cap Starting = {}
          /\ "planned" \notin Started
      BY <1>11, CreateEffect DEF Starting, Started, Live
    <2>2. \A t \in Ids : tasks'[t] = tasks[t] \/ (tasks'[t].st = "planned" /\ tasks'[t].turns = 0)
      BY <1>11, CreateEffect
    <2> QED BY <1>0, <2>1, <2>2, ShiftReasons DEF Reasons
  <1>12. ASSUME NEW u \in Users, NEW t \in Ids, StartPlanned(u, t) PROVE Reasons
    <2>1. Alters(t) /\ tasks'[t].st = tasks[t].st /\ tasks'[t].turns = tasks[t].turns
          /\ Shifts(u, "idle", {"activate"}) /\ {"activate"} \cap Starting = {}
      BY <1>12, StartPlannedEffect, StartPlannedMoves DEF Becomes, Starting
    <2> QED BY <1>0, <2>1, ShiftReasons, AlterReasons DEF Reasons
  <1>13. ASSUME NEW u \in Users, NEW t \in Ids, Resume(u, t) PROVE Reasons
    <2>1. Alters(t) /\ tasks'[t].st = tasks[t].st /\ UNCHANGED thread /\ WillBeEarned(t)
      BY <1>0, <1>13, ResumeEffect, NothingNeeded DEF Becomes, Resume
    <2> QED BY <1>0, <2>1, AlterReasons DEF Reasons
  <1>14. ASSUME NEW u \in Users, NEW t \in Ids, Cancel(u, t) \/ Delete(u, t) PROVE Reasons
    <2>1. t \in Known /\ Taken(t) /\ UNCHANGED thread
      BY <1>14 DEF Cancel, Delete, Known, Taken
    <2>2. Alters(t) /\ tasks'[t].st \in {Stopped(t), "deleted"} /\ tasks'[t].turns = 0
      BY <1>0, <1>14, <2>1, CancelEffect, DeleteEffect DEF Becomes, Cancel
    <2>3. Stopped(t) \in {"cancelled", tasks[t].st} /\ "cancelled" \notin Started /\ "deleted" \notin Started
      BY DEF Stopped, Started, Live
    <2> QED BY <1>0, <2>1, <2>2, <2>3, AlterReasons DEF Reasons
  <1>15. ASSUME NEW u \in Users, NEW i \in 1..Len(issues), ConfirmFix(u, i) PROVE Reasons
    <2>1. Adds(FirstOf(Free)) /\ tasks'[FirstOf(Free)] = Fix /\ Shifts(u, "idle", {"assign"})
      BY <1>15, ConfirmFixEffect
    <2>2. FirstOf(Free) \in Ids /\ Fix.st = "planned" /\ Fix.deps = {}
      BY <2>1, NewTasks DEF Adds, Free
    <2>3. WillBeEarned(FirstOf(Free)) /\ {"assign"} \cap Starting = {}
      BY <2>1, <2>2, NothingNeeded DEF Starting
    <2> QED BY <1>0, <2>1, <2>2, <2>3, ShiftReasons, AddReasons DEF Reasons
  <1>16. ASSUME NEW u \in Users, NEW st \in {"running", "completed"}, Promote(u, st) PROVE Reasons
    <2> DEFINE f == FirstOf(Free)
    <2>1. /\ Adds(f) /\ f \in Ids /\ tasks'[f].st = st /\ tasks'[f].deps = {} /\ tasks'[f].done = (st = "completed")
          /\ thread'[u].pc = "promote" /\ thread'[f].pc \in {"idle", "turn"}
          /\ \A o \in Threads \ {u, f} : thread'[o] = thread[o]
      BY <1>16, PromoteEffect
    <2>2. WillBeEarned(f)
      BY <2>1 DEF Earned, WillBeEarned
    <2> HIDE DEF f
    <2>3. /\ \A o \in Threads : thread'[o].pc = "turn" => thread[o].pc = "turn" \/ (o = f /\ WillBeEarned(f))
          /\ \A o \in Threads : thread'[o] = thread[o] \/ thread'[o].pc \notin {"pend", "suggest"}
      BY <2>1, <2>2
    <2> QED BY <1>0, <2>1, <2>2, <2>3, AddReasons DEF Reasons
  <1> QED BY <1>1, <1>2, <1>3, <1>4, <1>5, <1>6, <1>7, <1>8, <1>9, <1>10, <1>11, <1>12, <1>13, <1>14,
            <1>15, <1>16 DEF OtherStep

LEMMA InitStarts == Init => Starts
  <1> SUFFICES ASSUME Init PROVE Starts
    OBVIOUS
  <1>1. \A k \in Threads : thread[k].pc = "idle"
    BY QuietIs DEF Init
  <1>2. \A t \in Ids : tasks[t].st = "none" /\ tasks[t].turns = 0 /\ t \in Threads
    BY DEF Init, NoTask, Threads
  <1> QED BY <1>1, <1>2 DEF Starts, Started, Live

LEMMA StartsSteps ==
  ASSUME Part1, Starts, Frame, Next
  PROVE  Starts'
  BY NextSplits, PlainSteps, PlainReasons, OtherReasons, ReasonsHold

-----------------------------------------------------------------------------
(* Every turn is asked for *)

LEMMA FiniteThreads ==
  /\ IsFiniteSet(Threads) /\ Cardinality(Threads) \in Nat
  /\ \A S \in SUBSET Threads :
        /\ IsFiniteSet(S) /\ Cardinality(S) \in Nat /\ Cardinality(S) <= Cardinality(Threads)
        /\ \A T \in SUBSET S : Cardinality(T) <= Cardinality(S)
        /\ \A k \in S : Cardinality(S \ {k}) = Cardinality(S) - 1
  <1>1. IsFiniteSet(Ids)
    BY RequirementsAssumption, FS_Interval DEF Ids
  <1>2. IsFiniteSet(Threads)
    BY <1>1, RequirementsAssumption, FS_Union DEF Threads
  <1>3. Cardinality(Threads) \in Nat
    BY <1>2, FS_CardinalityType
  <1>4. ASSUME NEW S \in SUBSET Threads
        PROVE  /\ IsFiniteSet(S) /\ Cardinality(S) \in Nat /\ Cardinality(S) <= Cardinality(Threads)
               /\ \A T \in SUBSET S : Cardinality(T) <= Cardinality(S)
               /\ \A k \in S : Cardinality(S \ {k}) = Cardinality(S) - 1
    <2>1. IsFiniteSet(S) /\ Cardinality(S) <= Cardinality(Threads)
      BY <1>2, FS_Subset
    <2>2. Cardinality(S) \in Nat
      BY <2>1, FS_CardinalityType
    <2>3. \A T \in SUBSET S : Cardinality(T) <= Cardinality(S)
      BY <2>1, FS_Subset
    <2>4. \A k \in S : Cardinality(S \ {k}) = Cardinality(S) - 1
      BY <2>1, FS_RemoveElement
    <2> QED BY <2>1, <2>2, <2>3, <2>4
  <1> QED BY <1>2, <1>3, <1>4

\* The threads that are about to give task t a turn after the step.
WillGive(t) ==
    {k \in Threads : \/ thread'[k].pc = "pend" /\ FirstOf(thread'[k].todo) = t
                     \/ thread'[k].pc = "suggest" /\ thread'[k].cur = t}

\* The turns of task t and those it is about to get.
Bounded(t) == tasks[t].turns + Cardinality(Givers(t)) <= requests + Cardinality(Threads)
WillBeBounded(t) == tasks'[t].turns + Cardinality(WillGive(t)) <= requests' + Cardinality(Threads)

LEMMA FewGivers ==
  ASSUME NEW t
  PROVE  Givers(t) \in SUBSET Threads /\ WillGive(t) \in SUBSET Threads
  BY DEF Givers, WillGive

\* Neither turns nor givers get more than requests do.
LEMMA StillBounded ==
  ASSUME Part1, Frame, NEW t \in Ids, Bounded(t), WillGive(t) \subseteq Givers(t),
         \/ tasks'[t].turns <= tasks[t].turns
         \/ tasks'[t].turns = tasks[t].turns + 1 /\ requests' = requests + 1
  PROVE  WillBeBounded(t)
  <1>1. tasks[t].turns \in Nat /\ requests \in Nat /\ requests' \in Nat /\ requests <= requests'
    BY TaskIs DEF Part1, Frame, Ranges, Typed
  <1>2. tasks'[t].turns \in Nat
    <2>1. tasks'[t] \in TaskType
      BY DEF Frame, Evolves
    <2> QED BY <2>1 DEF TaskType
  <1>3. /\ Cardinality(Givers(t)) \in Nat /\ Cardinality(WillGive(t)) \in Nat /\ Cardinality(Threads) \in Nat
        /\ Cardinality(WillGive(t)) <= Cardinality(Givers(t))
    BY FewGivers, FiniteThreads
  <1> QED BY <1>1, <1>2, <1>3 DEF Bounded, WillBeBounded

\* One of the givers has given its turn.
LEMMA GivenBounded ==
  ASSUME Part1, Frame, NEW t \in Ids, Bounded(t), NEW k \in Givers(t), WillGive(t) \subseteq Givers(t) \ {k},
         tasks'[t].turns = tasks[t].turns + 1
  PROVE  WillBeBounded(t)
  <1>1. tasks[t].turns \in Nat /\ requests \in Nat /\ requests' \in Nat /\ requests <= requests'
    BY TaskIs DEF Part1, Frame, Ranges, Typed
  <1>2. Givers(t) \ {k} \in SUBSET Threads /\ WillGive(t) \in SUBSET (Givers(t) \ {k})
    BY FewGivers
  <1>3. /\ Cardinality(Givers(t)) \in Nat /\ Cardinality(WillGive(t)) \in Nat /\ Cardinality(Threads) \in Nat
        /\ Cardinality(Givers(t) \ {k}) \in Nat
        /\ Cardinality(WillGive(t)) <= Cardinality(Givers(t) \ {k})
        /\ Cardinality(Givers(t) \ {k}) = Cardinality(Givers(t)) - 1
    BY <1>2, FewGivers, FiniteThreads
  <1> QED BY <1>1, <1>3 DEF Bounded, WillBeBounded

\* There is room for all threads.
LEMMA FirstBounded ==
  ASSUME Part1, Frame, NEW t \in Ids, tasks'[t].turns = 0
  PROVE  WillBeBounded(t)
  <1>1. requests' \in Nat
    BY DEF Part1, Frame, Ranges, Typed
  <1>2. /\ Cardinality(WillGive(t)) \in Nat /\ Cardinality(Threads) \in Nat
        /\ Cardinality(WillGive(t)) <= Cardinality(Threads)
    BY FewGivers, FiniteThreads
  <1> QED BY <1>1, <1>2 DEF WillBeBounded

LEMMA ShiftGivers ==
  ASSUME NEW k \in Threads, NEW from, NEW to, Shifts(k, from, to), to \cap {"pend", "suggest"} = {}
  PROVE  \A t : /\ WillGive(t) \subseteq Givers(t)
                /\ (from = "pend" /\ FirstOf(thread[k].todo) = t) \/ (from = "suggest" /\ thread[k].cur = t)
                      => k \in Givers(t) /\ WillGive(t) \subseteq Givers(t) \ {k}
  BY DEF Shifts, OnlyMoves, Givers, WillGive

LEMMA PlainTurns ==
  ASSUME Part1, Frame, Turns, Plain
  PROVE  Turns'
  <1>0. Typed /\ \A t \in Ids : tasks[t].turns \in Nat
    BY TaskIs DEF Part1
  <1>1. UNCHANGED tasks /\ \A k \in Threads : thread'[k] = thread[k] \/ {thread'[k].pc, thread[k].pc} \cap Starting = {}
    BY DEF Plain
  <1>2. \A t \in Ids : WillGive(t) \subseteq Givers(t)
    BY <1>1 DEF Givers, WillGive, Starting
  <1>3. \A t \in Ids : WillBeBounded(t)
    <2> TAKE t \in Ids
    <2>1. tasks'[t].turns <= tasks[t].turns
      BY <1>0, <1>1
    <2>2. Bounded(t)
      BY DEF Turns, Bounded
    <2> QED BY <1>2, <2>1, <2>2, StillBounded
  <1>4. \A k \in Threads : thread'[k].pc = "suggest" => tasks'[thread'[k].cur].st # "planned"
    BY <1>1 DEF Turns, Starting
  <1> QED BY <1>1, <1>3, <1>4 DEF Turns, WillBeBounded, WillGive, Givers

\* No task that is under way becomes a planned one, and no thread suggests another.
SplitsStay ==
    /\ \A t \in Ids : Taken(t) /\ tasks[t].st # "planned" => tasks'[t].st # "planned"
    /\ \A k \in Threads : thread'[k] = thread[k] \/ thread'[k].pc # "suggest"

LEMMA SplitsKept ==
  ASSUME Part1, Turns, SplitsStay
  PROVE  \A k \in Threads : thread'[k].pc = "suggest" => tasks'[thread'[k].cur].st # "planned"
  BY InHand DEF Turns, SplitsStay

\* The step of one thread that alters one task, or none.
LEMMA AlterTurns ==
  ASSUME Part1, Frame, Turns, NEW k \in Threads, NEW from, NEW to, Shifts(k, from, to),
         to \cap {"pend", "suggest"} = {}, NEW t \in Ids, Alters(t), WillBeBounded(t),
         tasks'[t].st = "planned" => tasks[t].st = "planned" /\ tasks'[t].turns \in {0, tasks[t].turns}
  PROVE  Turns'
  <1>0. Typed /\ \A o \in Ids : tasks[o].turns \in Nat
    BY TaskIs DEF Part1
  <1>1. \A o \in Ids : WillBeBounded(o)
    <2> TAKE o \in Ids
    <2>1. CASE o # t
      <3>1. tasks'[o].turns <= tasks[o].turns /\ Bounded(o) /\ WillGive(o) \subseteq Givers(o)
        BY <1>0, <2>1, ShiftGivers DEF Alters, Turns, Bounded
      <3> QED BY <3>1, StillBounded
    <2> QED BY <2>1
  <1>2. \A o \in Ids : tasks'[o].st \in {"none", "planned"} => tasks'[o].turns = 0
    BY DEF Alters, Turns, Kept
  <1>3. SplitsStay
    BY DEF SplitsStay, Shifts, OnlyMoves, Alters
  <1> QED BY <1>1, <1>2, <1>3, SplitsKept DEF Turns, WillBeBounded, WillGive, Givers

\* A request that alters one task.
LEMMA RequestTurns ==
  ASSUME Part1, Frame, Turns, UNCHANGED thread, NEW t \in Ids, Alters(t), WillBeBounded(t),
         tasks'[t].st = "planned" => tasks[t].st = "planned" /\ tasks'[t].turns \in {0, tasks[t].turns}
  PROVE  Turns'
  <1>0. Typed /\ \A o \in Ids : tasks[o].turns \in Nat
    BY TaskIs DEF Part1
  <1>1. \A o \in Ids : WillBeBounded(o)
    <2> TAKE o \in Ids
    <2>1. CASE o # t
      <3>1. tasks'[o].turns <= tasks[o].turns /\ Bounded(o) /\ WillGive(o) \subseteq Givers(o)
        BY <1>0, <2>1 DEF Alters, Turns, Bounded, Givers, WillGive
      <3> QED BY <3>1, StillBounded
    <2> QED BY <2>1
  <1>2. \A o \in Ids : tasks'[o].st \in {"none", "planned"} => tasks'[o].turns = 0
    BY DEF Alters, Turns, Kept
  <1>3. SplitsStay
    BY DEF SplitsStay, Alters
  <1> QED BY <1>1, <1>2, <1>3, SplitsKept DEF Turns, WillBeBounded, WillGive, Givers

\* The step of one thread that creates a task.
LEMMA AddTurns ==
  ASSUME Part1, Frame, Turns, NEW f \in Ids, Adds(f), tasks'[f].turns = 0,
         \A o \in Ids \ {f} : WillGive(o) \subseteq Givers(o),
         \A k \in Threads : \/ thread'[k] = thread[k] \/ thread'[k].pc # "suggest"
                            \/ thread'[k].cur = f /\ tasks'[f].st # "planned"
  PROVE  Turns'
  <1>0. Typed /\ \A o \in Ids : tasks[o].turns \in Nat
    BY TaskIs DEF Part1
  <1>1. \A o \in Ids : WillBeBounded(o)
    <2> TAKE o \in Ids
    <2>1. CASE o # f
      <3>1. tasks'[o].turns <= tasks[o].turns /\ Bounded(o) /\ WillGive(o) \subseteq Givers(o)
        BY <1>0, <2>1 DEF Adds, Turns, Bounded
      <3> QED BY <3>1, StillBounded
    <2> QED BY <2>1, FirstBounded
  <1>2. \A o \in Ids : tasks'[o].st \in {"none", "planned"} => tasks'[o].turns = 0
    BY DEF Adds, Turns
  <1>3. \A k \in Threads : thread'[k].pc = "suggest" => tasks'[thread'[k].cur].st # "planned"
    <2> SUFFICES ASSUME NEW k \in Threads, thread'[k].pc = "suggest" PROVE tasks'[thread'[k].cur].st # "planned"
      OBVIOUS
    <2>1. CASE thread'[k] = thread[k]
      <3>1. thread[k].cur \in Ids /\ Taken(thread[k].cur) /\ tasks[thread[k].cur].st # "planned"
        BY <2>1, InHand DEF Turns
      <3> QED BY <2>1, <3>1 DEF Adds, Taken, Free
    <2> QED BY <2>1
  <1> QED BY <1>1, <1>2, <1>3 DEF Turns, WillBeBounded, WillGive, Givers

LEMMA OtherTurns ==
  ASSUME Part1, Frame, Turns, OtherStep
  PROVE  Turns'
  <1>0. Typed /\ Users \subseteq Threads /\ Ids \subseteq Threads
    BY DEF Part1, Frame, Threads
  <1>a. \A t \in Ids : tasks[t].turns \in Nat /\ Bounded(t) /\ tasks[t].turns <= tasks[t].turns /\ tasks[t].turns - 1 <= tasks[t].turns
                       /\ 0 <= tasks[t].turns
    BY <1>0, TaskIs DEF Turns, Bounded
  <1>1. ASSUME NEW k \in Threads, Activate(k), Next1(k) \in ReadyPlanned PROVE Turns'
    <2>1. /\ Shifts(k, "activate", {"pend"}) /\ UNCHANGED tasks /\ FirstOf(thread'[k].todo) = Next1(k)
          /\ Next1(k) \in Ids /\ tasks[Next1(k)].turns = 0
      BY <1>1, ActivateMoves DEF ReadyPlanned, Known, Turns
    <2>2. \A t \in Ids : WillBeBounded(t)
      <3> TAKE t \in Ids
      <3>1. CASE t = Next1(k)
        BY <2>1, <3>1, FirstBounded
      <3>2. CASE t # Next1(k)
        <4>1. WillGive(t) \subseteq Givers(t)
          BY <2>1, <3>2 DEF Givers, WillGive, Shifts, OnlyMoves
        <4> QED BY <1>a, <2>1, <4>1, StillBounded
      <3> QED BY <3>1, <3>2
    <2>3. SplitsStay
      BY <2>1 DEF SplitsStay, Shifts, OnlyMoves
    <2> QED BY <2>1, <2>2, <2>3, SplitsKept DEF Turns, WillBeBounded, WillGive, Givers
  <1>2. ASSUME NEW k \in Threads, Pend(k) PROVE Turns'
    <2> DEFINE t == Next1(k)
    <2>1. /\ t \in Ids /\ Taken(t) /\ FirstOf(thread[k].todo) = t
          /\ Shifts(k, "pend", {"idle", "activate"}) /\ {"idle", "activate"} \cap {"pend", "suggest"} = {}
      BY <1>2, PendEffect, PendMoves DEF Next1
    <2>2. k \in Givers(t) /\ WillGive(t) \subseteq Givers(t) \ {k}
      BY <2>1, ShiftGivers
    <2>3. CASE t \in Known
      <3>1. Alters(t) /\ tasks'[t].st = "pending" /\ tasks'[t].turns = tasks[t].turns + 1
        BY <1>2, <2>3, PendEffect DEF Becomes
      <3> HIDE DEF t
      <3>2. WillBeBounded(t)
        BY <1>a, <2>1, <2>2, <3>1, GivenBounded
      <3> QED BY <2>1, <3>1, <3>2, AlterTurns
    <2>4. CASE t \notin Known
      <3>1. UNCHANGED tasks
        BY <1>2, <2>4, PendEffect
      <3>2. \A o \in Ids : WillGive(o) \subseteq Givers(o)
        BY <2>1, ShiftGivers
      <3>3. \A o \in Ids : WillBeBounded(o)
        BY <1>a, <3>1, <3>2, StillBounded
      <3>4. SplitsStay
        BY <2>1, <3>1 DEF SplitsStay, Shifts, OnlyMoves
      <3> QED BY <3>1, <3>3, <3>4, SplitsKept DEF Turns, WillBeBounded, WillGive, Givers
    <2> QED BY <2>3, <2>4
  <1>3. ASSUME NEW k \in Threads, Open(k), tasks' # tasks PROVE Turns'
    <2>1. Adds(FirstOf(Free)) /\ tasks'[FirstOf(Free)].turns = 0 /\ Shifts(k, "open", {"append"}) /\ FirstOf(Free) \in Ids
      BY <1>3, OpenEffect, NewTasks DEF Adds, Free
    <2>2. /\ \A o \in Ids : WillGive(o) \subseteq Givers(o)
          /\ \A o \in Threads : thread'[o] = thread[o] \/ thread'[o].pc # "suggest"
      BY <2>1, ShiftGivers DEF Shifts, OnlyMoves
    <2> QED BY <2>1, <2>2, AddTurns
  <1>4. ASSUME NEW t \in Ids, TurnBegins(t) PROVE Turns'
    <2>1. /\ Alters(t) /\ tasks'[t].st = "running" /\ tasks'[t].turns = tasks[t].turns - 1
          /\ Shifts(t, "idle", {"turn"}) /\ {"turn"} \cap {"pend", "suggest"} = {}
      BY <1>4, TurnBeginsEffect, TurnBeginsMoves DEF Becomes
    <2>2. WillBeBounded(t)
      BY <1>0, <1>a, <2>1, ShiftGivers, StillBounded
    <2> QED BY <1>0, <2>1, <2>2, AlterTurns
  <1>5. ASSUME NEW t \in Ids, NEW outcome \in {"completed", "failed"}, TurnEnds(t, outcome) PROVE Turns'
    <2>1. /\ Alters(t) /\ tasks'[t].st \in {outcome, tasks[t].st} /\ tasks'[t].turns = tasks[t].turns
          /\ Shifts(t, "turn", {IF t \in Known THEN outcome ELSE "idle"})
          /\ {IF t \in Known THEN outcome ELSE "idle"} \cap {"pend", "suggest"} = {}
      BY <1>5, TurnEndsEffect, TurnEndsMoves DEF Becomes
    <2>2. WillBeBounded(t)
      BY <1>0, <1>a, <2>1, ShiftGivers, StillBounded
    <2> QED BY <1>0, <2>1, <2>2, AlterTurns
  <1>6. ASSUME NEW t \in Ids, Spawn(t), tasks' # tasks PROVE Turns'
    <2>1. Adds(FirstOf(Free)) /\ tasks'[FirstOf(Free)].turns = 0 /\ Shifts(t, "spawn", {"note"}) /\ FirstOf(Free) \in Ids
      BY <1>6, SpawnEffect DEF Adds, Free
    <2>2. /\ \A o \in Ids : WillGive(o) \subseteq Givers(o)
          /\ \A o \in Threads : thread'[o] = thread[o] \/ thread'[o].pc # "suggest"
      BY <1>0, <2>1, ShiftGivers DEF Shifts, OnlyMoves
    <2> QED BY <2>1, <2>2, AddTurns
  <1>7. ASSUME NEW u \in Users, Stop(u) PROVE Turns'
    <2> DEFINE t == Next1(u)
    <2>1. /\ t \in Ids /\ Alters(t) /\ Shifts(u, "stop", {"stop"}) /\ {"stop"} \cap {"pend", "suggest"} = {}
          /\ tasks'[t].st \in {"cancelled", tasks[t].st} /\ tasks'[t].turns = 0
      BY <1>7, StopEffect DEF Becomes, Stopped
    <2> HIDE DEF t
    <2>2. WillBeBounded(t)
      BY <2>1, FirstBounded
    <2> QED BY <1>0, <2>1, <2>2, AlterTurns
  <1>8. ASSUME NEW u \in Users, Abandon(u) PROVE Turns'
    <2> DEFINE t == Next1(u)
    <2>1. Shifts(u, "abandon", {"idle", "abandon"}) /\ {"idle", "abandon"} \cap {"pend", "suggest"} = {}
      BY <1>8, AbandonMoves
    <2>2. CASE t \in Known
      <3>1. Alters(t) /\ tasks'[t].st = "cancelled" /\ tasks'[t].turns = tasks[t].turns /\ t \in Ids
        BY <1>0, <1>8, <2>2, AbandonEffect DEF Becomes
      <3> HIDE DEF t
      <3>2. WillBeBounded(t)
        BY <1>0, <1>a, <2>1, <3>1, ShiftGivers, StillBounded
      <3> QED BY <1>0, <2>1, <3>1, <3>2, AlterTurns
    <2>3. CASE t \notin Known
      <3>1. UNCHANGED tasks
        BY <1>0, <1>8, <2>3, AbandonEffect
      <3>2. \A o \in Ids : WillGive(o) \subseteq Givers(o)
        BY <1>0, <2>1, ShiftGivers
      <3>3. \A o \in Ids : WillBeBounded(o)
        BY <1>a, <3>1, <3>2, StillBounded
      <3>4. SplitsStay
        BY <1>0, <2>1, <3>1 DEF SplitsStay, Shifts, OnlyMoves
      <3> QED BY <3>1, <3>3, <3>4, SplitsKept DEF Turns, WillBeBounded, WillGive, Givers
    <2> QED BY <2>2, <2>3
  <1>9. ASSUME NEW u \in Users, StartSuggest(u) PROVE Turns'
    <2> DEFINE t == thread[u].cur
    <2>1. /\ Shifts(u, "suggest", {"idle"}) /\ {"idle"} \cap {"pend", "suggest"} = {} /\ t \in Ids /\ Alters(t)
          /\ tasks'[t].st = tasks[t].st /\ tasks'[t].turns = tasks[t].turns + 1
      BY <1>9, StartSuggestEffect DEF Becomes
    <2>2. tasks[t].st # "planned"
      BY <1>0, <2>1 DEF Shifts, Turns
    <2>3. u \in Givers(t) /\ WillGive(t) \subseteq Givers(t) \ {u}
      BY <1>0, <2>1, ShiftGivers
    <2> HIDE DEF t
    <2>4. WillBeBounded(t)
      BY <1>a, <2>1, <2>3, GivenBounded
    <2> QED BY <1>0, <2>1, <2>2, <2>4, AlterTurns
  <1>10. ASSUME NEW u \in Users, Suggest(u) PROVE Turns'
    <2> DEFINE f == FirstOf(Free)
    <2>1. CASE /\ Adds(f) /\ Shifts(u, "idle", {"suggest"}) /\ thread'[u].cur = f
               /\ tasks'[f].st = "pending" /\ tasks'[f].turns = 0
      <3>1. f \in Ids
        BY <2>1 DEF Adds, Free
      <3>2. \A o \in Ids \ {f} : WillGive(o) \subseteq Givers(o)
        BY <1>0, <2>1 DEF Shifts, OnlyMoves, Givers, WillGive
      <3>3. \A o \in Threads : thread'[o] = thread[o] \/ thread'[o].cur = f
        BY <2>1 DEF Shifts, OnlyMoves
      <3> HIDE DEF f
      <3> QED BY <1>0, <2>1, <3>1, <3>2, <3>3, AddTurns
    <2>2. ASSUME NEW t \in Known, tasks[t].st = "pending", UNCHANGED thread, Alters(t), tasks'[t].st = tasks[t].st,
                 tasks'[t].turns = tasks[t].turns + 1
          PROVE  Turns'
      <3>1. t \in Ids /\ requests' = requests + 1 /\ WillGive(t) \subseteq Givers(t)
        BY <1>10, <2>2 DEF Known, Suggest, Request, Givers, WillGive
      <3>2. WillBeBounded(t)
        BY <1>a, <2>2, <3>1, StillBounded
      <3> QED BY <1>0, <2>2, <3>1, <3>2, RequestTurns
    <2> QED BY <1>10, <2>1, <2>2, SuggestEffect DEF Becomes
  <1>11. ASSUME NEW u \in Users, Create(u) PROVE Turns'
    <2>1. /\ Shifts(u, "create", {"idle", "record"}) /\ {"idle", "record"} \cap {"pend", "suggest"} = {}
      BY <1>11, CreateEffect
    <2>2. \A t \in Ids : tasks'[t] = tasks[t] \/ (t \in Free /\ tasks'[t].st = "planned" /\ tasks'[t].turns = 0)
      BY <1>11, CreateEffect
    <2>3. \A o \in Ids : WillGive(o) \subseteq Givers(o)
      BY <1>0, <2>1, ShiftGivers
    <2>4. \A o \in Ids : tasks'[o].turns <= tasks[o].turns
      BY <1>a, <2>2
    <2>5. \A o \in Ids : WillBeBounded(o)
      BY <1>a, <2>3, <2>4, StillBounded
    <2>6. SplitsStay
      BY <1>0, <2>1, <2>2 DEF SplitsStay, Shifts, OnlyMoves, Taken, Free
    <2>7. \A o \in Ids : tasks'[o].st \in {"none", "planned"} => tasks'[o].turns = 0
      BY <2>2 DEF Turns
    <2> QED BY <2>5, <2>6, <2>7, SplitsKept DEF Turns, WillBeBounded, WillGive, Givers
  <1>12. ASSUME NEW u \in Users, NEW t \in Ids, StartPlanned(u, t) PROVE Turns'
    <2>1. /\ Alters(t) /\ tasks'[t].st = tasks[t].st /\ tasks'[t].turns = tasks[t].turns
          /\ Shifts(u, "idle", {"activate"}) /\ {"activate"} \cap {"pend", "suggest"} = {}
      BY <1>12, StartPlannedEffect, StartPlannedMoves DEF Becomes
    <2>2. WillBeBounded(t)
      BY <1>0, <1>a, <2>1, ShiftGivers, StillBounded
    <2> QED BY <1>0, <2>1, <2>2, AlterTurns
  <1>13. ASSUME NEW u \in Users, NEW t \in Ids, Resume(u, t) PROVE Turns'
    <2>1. /\ Alters(t) /\ tasks'[t].st = tasks[t].st /\ tasks[t].st \in Terminal /\ UNCHANGED thread
          /\ tasks'[t].turns = tasks[t].turns + 1 /\ requests' = requests + 1
      BY <1>0, <1>13, ResumeEffect DEF Becomes, Resume, Request
    <2>2. WillGive(t) \subseteq Givers(t)
      BY <2>1 DEF Givers, WillGive
    <2>3. WillBeBounded(t)
      BY <1>a, <2>1, <2>2, StillBounded
    <2> QED BY <1>0, <2>1, <2>3, RequestTurns DEF Terminal
  <1>14. ASSUME NEW u \in Users, NEW t \in Ids, Cancel(u, t) \/ Delete(u, t) PROVE Turns'
    <2>1. t \in Known /\ Taken(t) /\ UNCHANGED thread
      BY <1>14 DEF Cancel, Delete, Known, Taken
    <2>2. Alters(t) /\ tasks'[t].st \in {"cancelled", tasks[t].st, "deleted"} /\ tasks'[t].turns = 0
      BY <1>0, <1>14, <2>1, CancelEffect, DeleteEffect DEF Becomes, Cancel, Stopped
    <2>3. WillBeBounded(t)
      BY <2>2, FirstBounded
    <2> QED BY <1>0, <2>1, <2>2, <2>3, RequestTurns
  <1>15. ASSUME NEW u \in Users, NEW i \in 1..Len(issues), ConfirmFix(u, i) PROVE Turns'
    <2>1. Adds(FirstOf(Free)) /\ tasks'[FirstOf(Free)].turns = 0 /\ Shifts(u, "idle", {"assign"}) /\ FirstOf(Free) \in Ids
      BY <1>15, ConfirmFixEffect, NewTasks DEF Adds, Free
    <2>2. /\ \A o \in Ids : WillGive(o) \subseteq Givers(o)
          /\ \A o \in Threads : thread'[o] = thread[o] \/ thread'[o].pc # "suggest"
      BY <1>0, <2>1, ShiftGivers DEF Shifts, OnlyMoves
    <2> QED BY <2>1, <2>2, AddTurns
  <1>16. ASSUME NEW u \in Users, NEW st \in {"running", "completed"}, Promote(u, st) PROVE Turns'
    <2> DEFINE f == FirstOf(Free)
    <2>1. /\ Adds(f) /\ f \in Ids /\ tasks'[f].turns = 0
          /\ thread'[u].pc = "promote" /\ thread'[f].pc \in {"idle", "turn"}
          /\ \A o \in Threads \ {u, f} : thread'[o] = thread[o]
      BY <1>16, PromoteEffect
    <2> HIDE DEF f
    <2>2. /\ \A o \in Ids : WillGive(o) \subseteq Givers(o)
          /\ \A o \in Threads : thread'[o] = thread[o] \/ thread'[o].pc # "suggest"
      BY <2>1 DEF Givers, WillGive
    <2> QED BY <2>1, <2>2, AddTurns
  <1> QED BY <1>1, <1>2, <1>3, <1>4, <1>5, <1>6, <1>7, <1>8, <1>9, <1>10, <1>11, <1>12, <1>13, <1>14,
            <1>15, <1>16 DEF OtherStep

LEMMA InitTurns == Init => Turns
  <1> SUFFICES ASSUME Init PROVE Turns
    OBVIOUS
  <1>1. \A k \in Threads : thread[k].pc = "idle"
    BY QuietIs DEF Init
  <1>2. \A t \in Ids : tasks[t].turns = 0 /\ Givers(t) = {}
    BY <1>1 DEF Init, NoTask, Givers
  <1>3. Cardinality({}) = 0 /\ Cardinality(Threads) \in Nat /\ requests = 0
    BY FiniteThreads, FS_EmptySet DEF Init
  <1>4. 0 + 0 <= 0 + Cardinality(Threads)
    BY <1>3
  <1>5. \A t \in Ids : tasks[t].turns + Cardinality(Givers(t)) <= requests + Cardinality(Threads)
    BY <1>2, <1>3, <1>4
  <1> QED BY <1>1, <1>2, <1>5 DEF Turns

LEMMA TurnsSteps ==
  ASSUME Part1, Turns, Frame, Next
  PROVE  Turns'
  BY NextSplits, PlainSteps, PlainTurns, OtherTurns

-----------------------------------------------------------------------------
(* The first theorems *)

TypeInv == Part1 /\ Starts /\ Turns

LEMMA TypeSteps ==
  ASSUME TypeInv, [Next]_vars
  PROVE  TypeInv' /\ (Next => Frame)
  <1>1. CASE Next
    <2>1. Frame
      BY <1>1, NextFrame DEF TypeInv
    <2> QED BY <1>1, <2>1, FrameStep, StartsSteps, TurnsSteps DEF TypeInv
  <1>2. CASE UNCHANGED vars /\ ~Next
    <2> USE <1>2 DEF vars
    <2>1. Part1'
      BY DEF TypeInv, Part1, Typed, Fresh, Free, Plans, Roles, NoneOnItself
    <2>2. Starts'
      BY DEF TypeInv, Starts, Earned
    <2>3. Turns'
      BY DEF TypeInv, Turns, Givers
    <2> QED BY <2>1, <2>2, <2>3 DEF TypeInv
  <1> QED BY <1>1, <1>2 DEF vars

LEMMA TypeAlways == Spec => []TypeInv
  <1>1. Init => TypeInv
    BY InitPart1, InitStarts, InitTurns DEF TypeInv
  <1>2. TypeInv /\ [Next]_vars => TypeInv'
    BY TypeSteps
  <1> QED BY <1>1, <1>2, PTL DEF Spec

\* Every part of the plane is well formed in every reachable state, for any number
\* of users, tasks and proposals, and no task has more turns waiting than requests
\* and threads have asked for: what is re-queued by cancellations, resumptions and
\* schedules that race does not pile up.
THEOREM TypeCorrect == Spec => []TypeOK
  <1>1. TypeInv => TypeOK
    <2> SUFFICES ASSUME TypeInv PROVE TypeOK
      OBVIOUS
    <2> USE DEF TypeInv, Part1
    <2>1. req.st \in {"draft", "active", "done", "cancelled", "gone"} /\ req.human \in {"none", "pass", "fail"}
      BY DEF Typed, ReqType
    <2>2. ASSUME NEW t \in Ids
          PROVE  /\ tasks[t].st \in Status /\ tasks[t].deps \subseteq (Ids \cup {0}) \ {t}
                 /\ tasks[t].turns \in 0..(MaxRequests + Cardinality(Threads))
      <3>1. tasks[t].st \in Status /\ tasks[t].deps \subseteq Ids \cup {0} /\ tasks[t].turns \in Nat
        BY TaskIs
      <3>2. t \notin tasks[t].deps
        BY DEF NoneOnItself
      <3>3. /\ Cardinality(Givers(t)) \in Nat /\ Cardinality(Threads) \in Nat
            /\ requests \in Nat /\ requests <= MaxRequests /\ MaxRequests \in Nat
        BY FewGivers, FiniteThreads, RequirementsAssumption DEF Typed
      <3>4. tasks[t].turns <= MaxRequests + Cardinality(Threads)
        BY <3>1, <3>3 DEF Turns
      <3> QED BY <3>1, <3>2, <3>3, <3>4
    <2>3. Len(issues) <= MaxIssues /\ requests <= MaxRequests /\ faults <= MaxFaults
      BY RequirementsAssumption DEF Typed
    <2>4. ASSUME NEW i \in 1..Len(issues)
          PROVE  /\ issues[i].fix \in Ids \cup {0} /\ issues[i].reverify \in Ids \cup {0}
                 /\ issues[i].st = "fixing" => issues[i].fix # 0
      <3>1. issues[i] \in IssueType
        BY DEF Typed
      <3> QED BY <3>1 DEF IssueType, Ids
    <2>5. ASSUME NEW k \in Threads PROVE thread[k].todo \subseteq Ids /\ thread[k].cur \in 0..MaxTasks
      <3>1. thread[k] \in ThreadType
        BY DEF Typed
      <3> QED BY <3>1, RequirementsAssumption DEF ThreadType, Ids
    <2> QED BY <2>1, <2>2, <2>3, <2>4, <2>5 DEF TypeOK
  <1> QED BY <1>1, TypeAlways, PTL

\* No task starts before its dependencies, whatever races: a task that is under
\* way or came to an end had each of them completed before, unless a user resumed
\* it (dag_schedule.go, DepsSatisfied).
THEOREM DependenciesComeFirst == Spec => []DependenciesFirst
  <1>1. TypeInv => DependenciesFirst
    BY DEF TypeInv, Starts, Earned, Started, DependenciesFirst, Known
  <1> QED BY <1>1, TypeAlways, PTL

-----------------------------------------------------------------------------
(* A task that is due is minded *)

\* Due, held and minded after the step.
WillBeDue(t) ==
    /\ tasks'[t].st = "planned" /\ tasks'[t].deps # {}
    /\ \A d \in tasks'[t].deps : d \in Ids /\ tasks'[d].st = "completed"

WillHold(k, t) ==
    \/ t \in thread'[k].todo /\ thread'[k].pc \in {"activate", "pend"}
    \/ k \in tasks'[t].deps /\ thread'[k].pc \in {"completed", "spawn", "note", "dependents"}

WillMind(k, t) ==
    \/ t \in thread'[k].todo /\ thread'[k].pc \in {"activate", "pend"}
    \/ thread'[k].pc \in {"record", "discard", "ready"}
    \/ k \in tasks'[t].deps /\ thread'[k].pc \in {"completed", "spawn", "note", "dependents"}

LEMMA DueIs ==
  /\ \A t \in Ids : Due(t) <=> /\ tasks[t].st = "planned" /\ tasks[t].deps # {}
                               /\ \A d \in tasks[t].deps : d \in Ids /\ tasks[d].st = "completed"
  /\ \A t \in Ids : Due(t)' <=> WillBeDue(t)
  /\ \A t \in Ids : Due(t) => t \in ReadyPlanned
  BY DEF Due, ReadyPlanned, DepsSatisfied, Known, WillBeDue

\* Whoever minds task t goes on to do so.
KeptInMind(t) ==
    \A k \in Threads :
        /\ Holds(k, t) => WillHold(k, t)
        /\ Minds(k, t) /\ tasks'[t].agent => WillMind(k, t)

InMind(t) ==
    /\ tasks'[t].verifies # 0 => \E k \in Threads : WillHold(k, t)
    /\ tasks'[t].agent => \E k \in Threads : WillMind(k, t)

\* What a step does for the tasks that are due after it.
MindsOn ==
    /\ req'.st # "gone" => req.st # "gone"
    /\ faults' = 0 /\ req'.st # "gone" =>
          \A t \in Ids : WillBeDue(t) =>
             \/ Due(t) /\ tasks'[t].verifies = tasks[t].verifies /\ tasks'[t].agent = tasks[t].agent /\ KeptInMind(t)
             \/ InMind(t)

LEMMA MindedHolds ==
  ASSUME Part1, Frame, Minded, MindsOn
  PROVE  Minded'
  <1>1. faults' = 0 => faults = 0
    BY DEF Part1, Frame, Ranges, Typed
  <1>2. ASSUME faults' = 0, req'.st # "gone", NEW t \in Ids, WillBeDue(t) PROVE InMind(t)
    <2>1. CASE Due(t) /\ tasks'[t].verifies = tasks[t].verifies /\ tasks'[t].agent = tasks[t].agent /\ KeptInMind(t)
      BY <1>1, <1>2, <2>1 DEF Minded, MindsOn, KeptInMind, InMind
    <2> QED BY <1>2, <2>1 DEF MindsOn
  <1>3. /\ \A t \in Ids, k \in Threads : Holds(k, t)' <=> WillHold(k, t)
        /\ \A t \in Ids, k \in Threads : Minds(k, t)' <=> WillMind(k, t)
    BY DEF Holds, Minds, WillHold, WillMind
  <1> QED BY <1>2, <1>3, DueIs DEF Minded, InMind

\* A thread that minds nothing moves.
LEMMA AsideKeeps ==
  ASSUME Part1, Frame, NEW k \in Threads, OnlyMoves(k), thread[k].pc \notin Minding, NEW t \in Ids, Taken(t)
  PROVE  KeptInMind(t)
  <1>1. tasks'[t].deps = tasks[t].deps
    BY DEF Frame, Evolves, Kept
  <1> QED BY <1>1 DEF KeptInMind, Holds, Minds, WillHold, WillMind, OnlyMoves, Minding

LEMMA RestKeeps ==
  ASSUME Part1, Frame, UNCHANGED thread, NEW t \in Ids, Taken(t)
  PROVE  KeptInMind(t)
  <1>1. tasks'[t].deps = tasks[t].deps
    BY DEF Frame, Evolves, Kept
  <1> QED BY <1>1 DEF KeptInMind, Holds, Minds, WillHold, WillMind

\* What is due stays so, with nobody else, while no task gets planned or completed.
LEMMA SameDue ==
  ASSUME Part1, UNCHANGED tasks, NEW t \in Ids, WillBeDue(t)
  PROVE  Due(t) /\ Taken(t) /\ tasks'[t].verifies = tasks[t].verifies /\ tasks'[t].agent = tasks[t].agent
  BY DueIs DEF WillBeDue, Taken

LEMMA AlteredDue ==
  ASSUME Part1, NEW x \in Ids, Alters(x), tasks'[x].st \in {tasks[x].st} \cup (Status \ {"planned", "completed"}),
         NEW t \in Ids, WillBeDue(t)
  PROVE  Due(t) /\ Taken(t) /\ tasks'[t].verifies = tasks[t].verifies
         /\ (t # x => tasks'[t].agent = tasks[t].agent)
  <1>1. tasks[t].st = "planned" /\ tasks[t].deps = tasks'[t].deps /\ tasks'[t].verifies = tasks[t].verifies
    BY DEF WillBeDue, Alters, Kept
  <1>2. \A d \in tasks[t].deps : d \in Ids /\ tasks[d].st = "completed"
    BY <1>1 DEF WillBeDue, Alters
  <1> QED BY <1>1, <1>2, DueIs DEF WillBeDue, Taken, Alters

LEMMA AddedDue ==
  ASSUME Part1, NEW f \in Ids, Adds(f), NEW t \in Ids, t # f, WillBeDue(t)
  PROVE  Due(t) /\ Taken(t) /\ tasks'[t] = tasks[t]
  <1>1. tasks'[t] = tasks[t] /\ f \notin tasks[t].deps
    BY DEF Adds, Part1, Fresh
  <1>2. \A d \in tasks[t].deps : d \in Ids /\ tasks[d].st = "completed"
    BY <1>1 DEF WillBeDue, Adds
  <1> QED BY <1>1, <1>2, DueIs DEF WillBeDue, Taken

LEMMA StaysGone ==
  ASSUME Part1, PlainStep \/ OtherStep
  PROVE  req'.st # "gone" => req.st # "gone"
  <1>0. Typed /\ req \in ReqType
    BY DEF Part1, Typed
  <1>1. \A h, p : [req EXCEPT !.human = h].st = req.st /\ [req EXCEPT !.proposal = p].st = req.st
    BY <1>0 DEF ReqType
  <1>2. ASSUME NEW i, Resolves(i) PROVE req'.st = req.st
    BY <1>1, <1>2 DEF Resolves
  <1>3. ASSUME NEW f, Put(f) PROVE req'.st # "gone" => req.st # "gone"
    BY <1>3 DEF Put
  <1>4. ASSUME OtherStep PROVE req'.st # "gone" => req.st # "gone"
    BY <1>3, <1>4 DEF OtherStep, Activate, Pend, Open, TurnBegins, TurnEnds, Spawn, Stop, Abandon, StartSuggest,
           Suggest, Create, StartPlanned, Resume, Cancel, Delete, ConfirmFix, Promote
  <1>5. ASSUME NEW k, StartReady(k) \/ Opened(k) \/ Activate(k) \/ Open(k) \/ Completed(k) \/ Note(k)
                      \/ Failed(k) \/ Dependents(k) \/ Spawn(k)
        PROVE  req'.st # "gone" => req.st # "gone"
    BY <1>2, <1>3, <1>5 DEF StartReady, Opened, Activate, Open, Completed, Note, Failed, Dependents, Spawn
  <1>6. ASSUME NEW u, Assign(u) \/ WriteDone(u) \/ Look(u) \/ Apply(u) \/ Record(u)
                      \/ DiscardApplied(u) \/ Promoted(u) \/ Create(u)
        PROVE  req'.st # "gone" => req.st # "gone"
    BY <1>1, <1>3, <1>6 DEF Assign, WriteDone, Look, Apply, Record, DiscardApplied, Promoted, Create
  <1>7. ASSUME NEW u \in Users, AsksOnly(u) PROVE req'.st # "gone" => req.st # "gone"
    BY <1>1, <1>2, <1>7 DEF AsksOnly, HumanVerify, Replace, OpenByUser, Resolve, Propose, Expand, Patch, MarkDone,
           Discard, Confirm, DeleteRequirement
  <1> QED BY <1>4, <1>5, <1>6, <1>7 DEF PlainStep

\* A thread in a place where it minds goes on to the next one.
LEMMA OnwardKeeps ==
  ASSUME Part1, Frame, NEW k \in Threads, OnlyMoves(k), NEW t \in Ids, Taken(t),
         thread'[k].todo = thread[k].todo,
         \/ thread[k].pc \in {"completed", "spawn", "note"} /\ thread'[k].pc \in {"spawn", "note", "dependents"}
         \/ thread[k].pc = "activate" /\ thread'[k].pc = "pend"
         \/ thread[k].pc = "record" /\ thread'[k].pc = "discard"
  PROVE  KeptInMind(t)
  <1>1. tasks'[t].deps = tasks[t].deps
    BY DEF Frame, Evolves, Kept
  <1> QED BY <1>1 DEF KeptInMind, Holds, Minds, WillHold, WillMind, OnlyMoves

\* The task leaves the thread's hands only when it is not due.
LEMMA LoopKeeps ==
  ASSUME Part1, Frame, NEW k \in Threads, OnlyMoves(k), NEW t \in Ids, Taken(t),
         Holds(k, t) \/ (Minds(k, t) /\ tasks'[t].agent) => t \in thread'[k].todo /\ thread'[k].pc = "activate"
  PROVE  KeptInMind(t)
  <1>1. tasks'[t].deps = tasks[t].deps
    BY DEF Frame, Evolves, Kept
  <1> QED BY <1>1 DEF KeptInMind, Holds, Minds, WillHold, WillMind, OnlyMoves

LEMMA GoesTo ==
  ASSUME Typed, NEW k \in Threads, NEW l \in Places, Go(k, l)
  PROVE  OnlyMoves(k) /\ thread'[k].pc = l /\ thread'[k].todo = thread[k].todo
  BY GoMoves DEF OnlyMoves, Moves

LEMMA LoopsTo ==
  ASSUME Typed, NEW k \in Threads, NEW S \in SUBSET Ids, Loop(k, "activate", S)
  PROVE  OnlyMoves(k) /\ thread'[k].todo = S /\ (S # {} => thread'[k].pc = "activate")
  <1>1. "activate" \in Places
    BY DEF Places
  <1> DEFINE d == IF S = {} THEN Quiet ELSE [Quiet EXCEPT !.pc = "activate", !.todo = S]
  <1>2. Moves(k, d)
    BY <1>1, LoopMoves
  <1>3. thread'[k].todo = S /\ thread'[k].pc = IF S = {} THEN "idle" ELSE "activate"
    BY <1>1, LoopMoves
  <1> HIDE DEF d
  <1> QED BY <1>2, <1>3 DEF OnlyMoves, Moves

LEMMA MindStepKeeps ==
  ASSUME Part1, Frame, NEW k \in Threads, MindStep(k), faults' = 0, req'.st # "gone", UNCHANGED tasks,
         NEW t \in Ids, Due(t)
  PROVE  KeptInMind(t)
  <1>0. Typed /\ Taken(t) /\ t \in ReadyPlanned /\ ReadyPlanned \subseteq Ids /\ thread[k] \in ThreadType
        /\ tasks'[t].agent = tasks[t].agent
    BY DueIs DEF Part1, Typed, Due, Taken, ReadyPlanned, Known
  <1>a. thread[k].todo \in SUBSET Ids /\ faults \in Nat /\ faults <= 0 /\ faults + 1 # 0
    BY <1>0 DEF ThreadType, Part1, Typed, Frame, Ranges
  <1>b. \A n \in Nat : n < 0 => FALSE
    OBVIOUS
  <1>1. CASE StartReady(k)
    <2>1. Loop(k, "activate", {o \in ReadyPlanned : tasks[o].agent}) /\ thread[k].pc = "ready"
      BY <1>1 DEF StartReady, At
    <2>2. /\ OnlyMoves(k) /\ thread'[k].todo = {o \in ReadyPlanned : tasks[o].agent}
          /\ {o \in ReadyPlanned : tasks[o].agent} # {} => thread'[k].pc = "activate"
      BY <1>0, <2>1, LoopsTo
    <2> QED BY <1>0, <2>1, <2>2, LoopKeeps DEF Holds
  <1>2. CASE Activate(k)
    <2>1. CASE Next1(k) \in ReadyPlanned
      <3>1. /\ OnlyMoves(k) /\ thread[k].pc = "activate" /\ thread'[k].pc = "pend"
            /\ thread'[k].todo = thread[k].todo
        BY <1>2, <2>1, ActivateMoves DEF Shifts
      <3> QED BY <1>0, <3>1, OnwardKeeps
    <2>2. CASE Next1(k) \notin ReadyPlanned
      <3>1. Loop(k, "activate", thread[k].todo \ {Next1(k)}) /\ thread[k].pc = "activate"
        BY <1>2, <2>2 DEF Activate, At, Next1
      <3>2. thread[k].todo \ {Next1(k)} \in SUBSET Ids
        BY <1>a
      <3>3. /\ OnlyMoves(k) /\ thread'[k].todo = thread[k].todo \ {Next1(k)}
            /\ thread[k].todo \ {Next1(k)} # {} => thread'[k].pc = "activate"
        BY <1>0, <3>1, <3>2, LoopsTo
      <3>4. Holds(k, t) \/ Minds(k, t) => t \in thread[k].todo \ {Next1(k)}
        BY <1>0, <2>2, <3>1 DEF Holds, Minds
      <3> QED BY <1>0, <3>3, <3>4, LoopKeeps
    <2> QED BY <2>1, <2>2
  <1>3. CASE k \in Ids /\ Completed(k)
    <2>1. thread[k].pc = "completed"
      BY <1>3 DEF Completed, At
    <2>2. CASE Go(k, "dependents")
      <3>1. "dependents" \in Places
        BY DEF Places
      <3>2. OnlyMoves(k) /\ thread'[k].pc = "dependents" /\ thread'[k].todo = thread[k].todo
        BY <1>0, <2>2, <3>1, GoesTo
      <3> QED BY <1>0, <2>1, <3>2, OnwardKeeps
    <2>3. ASSUME NEW i, thread' = [thread EXCEPT ![k].pc = "spawn", ![k].iss = i] PROVE KeptInMind(t)
      <3> DEFINE d == [thread[k] EXCEPT !.pc = "spawn", !.iss = i]
      <3>1. d.pc = "spawn" /\ d.todo = thread[k].todo
        BY <1>0 DEF ThreadType
      <3>2. thread' = [thread EXCEPT ![k] = d]
        BY <2>3
      <3> HIDE DEF d
      <3>3. OnlyMoves(k) /\ thread'[k].pc = "spawn" /\ thread'[k].todo = thread[k].todo
        BY <1>0, <3>1, <3>2, FieldsMove
      <3> QED BY <1>0, <2>1, <3>3, OnwardKeeps
    <2> QED BY <1>3, <2>2, <2>3 DEF Completed
  <1>4. CASE k \in Ids /\ (Spawn(k) \/ Note(k))
    <2>1. thread[k].pc \in {"spawn", "note"} /\ "dependents" \in Places
      BY <1>4 DEF Spawn, Note, At, Places
    <2>2. CASE Go(k, "dependents")
      <3>1. OnlyMoves(k) /\ thread'[k].pc = "dependents" /\ thread'[k].todo = thread[k].todo
        BY <1>0, <2>1, <2>2, GoesTo
      <3> QED BY <1>0, <2>1, <3>1, OnwardKeeps
    <2>3. CASE thread' = [thread EXCEPT ![k].cur = FirstOf(Free), ![k].pc = "note"]
      <3> DEFINE d == [thread[k] EXCEPT !.cur = FirstOf(Free), !.pc = "note"]
      <3>1. d.pc = "note" /\ d.todo = thread[k].todo
        BY <1>0 DEF ThreadType
      <3>2. thread' = [thread EXCEPT ![k] = d]
        BY <2>3
      <3> HIDE DEF d
      <3>3. OnlyMoves(k) /\ thread'[k].pc = "note" /\ thread'[k].todo = thread[k].todo
        BY <1>0, <3>1, <3>2, FieldsMove
      <3> QED BY <1>0, <2>1, <3>3, OnwardKeeps
    <2> QED BY <1>4, <2>2, <2>3 DEF Spawn, Note, Creates
  <1>5. CASE k \in Ids /\ Dependents(k)
    <2>1. Loop(k, "activate", {o \in ReadyPlanned : k \in tasks[o].deps}) /\ thread[k].pc = "dependents"
      BY <1>5 DEF Dependents, At
    <2>2. /\ OnlyMoves(k) /\ thread'[k].todo = {o \in ReadyPlanned : k \in tasks[o].deps}
          /\ {o \in ReadyPlanned : k \in tasks[o].deps} # {} => thread'[k].pc = "activate"
      BY <1>0, <2>1, LoopsTo
    <2>3. Holds(k, t) \/ Minds(k, t) => k \in tasks[t].deps
      BY <2>1 DEF Holds, Minds
    <2> QED BY <1>0, <2>2, <2>3, LoopKeeps
  <1>6. CASE k \in Users /\ Record(k)
    <2>1. thread[k].pc = "record" /\ "discard" \in Places
      BY <1>6 DEF Record, At, Places
    <2>2. Go(k, "discard")
      <3>1. ~Fails(0)
        <4>1. Free \subseteq Threads
          BY DEF Free, Threads
        <4>2. Cardinality(Free) \in Nat
          BY <4>1, FiniteThreads
        <4> QED BY <1>a, <4>2 DEF Fails
      <3>2. req.st # "gone"
        <4>1. [req EXCEPT !.st = "active", !.branch = @ \/ ~thread[k].expand].st = "active"
          BY <1>0 DEF Typed, ReqType
        <4> QED BY <1>6, <3>1, <4>1 DEF Record, Put
      <3> QED BY <1>6, <3>1, <3>2 DEF Record
    <2>3. OnlyMoves(k) /\ thread'[k].pc = "discard" /\ thread'[k].todo = thread[k].todo
      BY <1>0, <2>1, <2>2, GoesTo
    <2> QED BY <1>0, <2>1, <2>3, OnwardKeeps
  <1>7. CASE k \in Users /\ DiscardApplied(k)
    <2>1. thread[k].pc = "discard" /\ thread' = [thread EXCEPT ![k] = [Quiet EXCEPT !.pc = "ready"]]
      BY <1>7 DEF DiscardApplied, At, Begin
    <2>2. [Quiet EXCEPT !.pc = "ready"].pc = "ready"
      BY DEF Quiet
    <2>3. OnlyMoves(k) /\ thread'[k].pc = "ready"
      BY <1>0, <2>1, <2>2, FieldsMove
    <2>4. tasks'[t].deps = tasks[t].deps
      OBVIOUS
    <2> QED BY <2>1, <2>3, <2>4 DEF KeptInMind, Holds, Minds, WillHold, WillMind, OnlyMoves
  <1> QED BY <1>1, <1>2, <1>3, <1>4, <1>5, <1>6, <1>7 DEF MindStep

LEMMA PlainMinds ==
  ASSUME Part1, Frame, Minded, PlainStep
  PROVE  Minded'
  <1>1. Plain /\ (req'.st # "gone" => req.st # "gone")
    BY PlainSteps, StaysGone
  <1>2. ASSUME faults' = 0, req'.st # "gone", NEW t \in Ids, WillBeDue(t)
        PROVE  Due(t) /\ tasks'[t].verifies = tasks[t].verifies /\ tasks'[t].agent = tasks[t].agent /\ KeptInMind(t)
    <2>1. UNCHANGED tasks
      BY <1>1 DEF Plain
    <2>2. Due(t) /\ Taken(t) /\ tasks'[t].verifies = tasks[t].verifies /\ tasks'[t].agent = tasks[t].agent
      BY <1>2, <2>1, SameDue
    <2>3. PICK k \in Threads : OnlyMoves(k) /\ (thread[k].pc \notin Minding \/ MindStep(k))
      BY <1>1 DEF Plain, OnlyMoves
    <2>4. KeptInMind(t)
      BY <1>2, <2>1, <2>2, <2>3, AsideKeeps, MindStepKeeps
    <2> QED BY <2>2, <2>4
  <1> QED BY <1>1, <1>2, MindedHolds DEF MindsOn

\* A step that changes one task, to a status in which it is neither planned nor
\* newly completed.
LEMMA AlterMinds ==
  ASSUME Part1, Frame, Minded, req'.st # "gone" => req.st # "gone", NEW x \in Ids, Alters(x),
         tasks'[x].st # "planned", tasks'[x].st = "completed" => tasks[x].st = "completed",
         \A t \in Ids : Due(t) /\ Taken(t) /\ t # x => KeptInMind(t)
  PROVE  Minded'
  <1>1. tasks'[x].st \in Status
    BY TaskIs DEF Alters, TaskType
  <1>2. ASSUME NEW t \in Ids, WillBeDue(t)
        PROVE  Due(t) /\ tasks'[t].verifies = tasks[t].verifies /\ tasks'[t].agent = tasks[t].agent /\ KeptInMind(t)
    <2>1. t # x
      BY <1>2 DEF WillBeDue
    <2>2. Due(t) /\ Taken(t) /\ tasks'[t].verifies = tasks[t].verifies /\ tasks'[t].agent = tasks[t].agent
      BY <1>1, <1>2, <2>1, AlteredDue
    <2> QED BY <2>1, <2>2
  <1> QED BY <1>2, MindedHolds DEF MindsOn

\* A step that creates one task.
LEMMA AddMinds ==
  ASSUME Part1, Frame, Minded, req'.st # "gone" => req.st # "gone", NEW f \in Ids, Adds(f),
         WillBeDue(f) => InMind(f), \A t \in Ids : Taken(t) => KeptInMind(t)
  PROVE  Minded'
  <1>1. ASSUME NEW t \in Ids, WillBeDue(t), t # f
        PROVE  Due(t) /\ tasks'[t].verifies = tasks[t].verifies /\ tasks'[t].agent = tasks[t].agent /\ KeptInMind(t)
    BY <1>1, AddedDue
  <1> QED BY <1>1, MindedHolds DEF MindsOn

\* The update of an activation takes its task out of the thread's hands.
LEMMA PendMinds ==
  ASSUME Part1, Frame, Minded, req'.st # "gone" => req.st # "gone", NEW k \in Threads, Pend(k)
  PROVE  Minded'
  <1> DEFINE x == Next1(k)
  <1>1. /\ thread[k].pc = "pend" /\ OnlyMoves(k) /\ thread'[k].todo = thread[k].todo \ {x}
        /\ thread[k].todo # {x} => thread'[k].pc = "activate"
    BY PendMoves DEF Shifts
  <1>2. /\ x \in Ids
        /\ x \in Known => Alters(x) /\ tasks'[x].st = "pending"
        /\ x \notin Known => UNCHANGED tasks
    BY PendEffect DEF Becomes
  <1> HIDE DEF x
  <1>3. ASSUME NEW t \in Ids, t # x, Taken(t) PROVE KeptInMind(t)
    <2>1. Holds(k, t) \/ Minds(k, t) => t \in thread[k].todo
      BY <1>1 DEF Holds, Minds
    <2>2. t \in thread[k].todo => t \in thread'[k].todo /\ thread'[k].pc = "activate"
      BY <1>1, <1>3
    <2> QED BY <1>1, <1>3, <2>1, <2>2, LoopKeeps
  <1>4. CASE x \in Known
    BY <1>2, <1>3, <1>4, AlterMinds
  <1>5. CASE x \notin Known
    <2>1. ASSUME NEW t \in Ids, WillBeDue(t)
          PROVE  Due(t) /\ tasks'[t].verifies = tasks[t].verifies /\ tasks'[t].agent = tasks[t].agent /\ KeptInMind(t)
      <3>1. Due(t) /\ Taken(t) /\ tasks'[t].verifies = tasks[t].verifies /\ tasks'[t].agent = tasks[t].agent
        BY <1>2, <1>5, <2>1, SameDue
      <3>2. t # x
        BY <1>5, <3>1 DEF Due, ReadyPlanned
      <3> QED BY <1>3, <3>1, <3>2
    <2> QED BY <2>1, MindedHolds DEF MindsOn
  <1> QED BY <1>4, <1>5

\* Who completes a task looks after those that depend on it.
LEMMA TurnEndsMinds ==
  ASSUME Part1, Frame, Minded, req'.st # "gone" => req.st # "gone", NEW x \in Ids,
         NEW outcome \in {"completed", "failed"}, TurnEnds(x, outcome)
  PROVE  Minded'
  <1> DEFINE moves == x \in Known /\ tasks[x].st \notin Terminal
  <1>1. /\ Alters(x) /\ tasks'[x].st = (IF moves THEN outcome ELSE tasks[x].st)
    BY TurnEndsEffect DEF Becomes
  <1>2. Shifts(x, "turn", {IF x \in Known THEN outcome ELSE "idle"}) /\ x \in Threads
    BY TurnEndsMoves DEF Threads
  <1>3. ~moves => tasks[x].st # "planned"
    <2>1. tasks[x].st \in Status /\ tasks[x].st # "none"
      BY <1>1, TaskIs DEF Part1, Alters, Taken
    <2> QED BY <2>1 DEF Known, Terminal
  <1>4. ASSUME NEW t \in Ids, Taken(t) PROVE KeptInMind(t)
    BY <1>2, <1>4, AsideKeeps DEF Shifts, Minding
  <1>5. CASE moves /\ outcome = "completed"
    <2>1. thread'[x].pc = "completed" /\ tasks'[x].st = "completed"
      BY <1>1, <1>2, <1>5 DEF Shifts
    <2>2. ASSUME NEW t \in Ids, WillBeDue(t), x \in tasks'[t].deps PROVE InMind(t)
      BY <1>2, <2>1, <2>2 DEF InMind, WillHold, WillMind
    <2>3. ASSUME NEW t \in Ids, WillBeDue(t), x \notin tasks'[t].deps
          PROVE  Due(t) /\ tasks'[t].verifies = tasks[t].verifies /\ tasks'[t].agent = tasks[t].agent /\ KeptInMind(t)
      <3>1. t # x
        BY <2>1, <2>3 DEF WillBeDue
      <3>2. tasks'[t] = tasks[t] /\ \A d \in tasks[t].deps : d \in Ids /\ d # x /\ tasks[d].st = "completed"
        BY <1>1, <2>3, <3>1 DEF Alters, WillBeDue
      <3>3. Due(t) /\ Taken(t)
        BY <2>3, <3>2, DueIs DEF WillBeDue, Taken
      <3> QED BY <1>4, <3>2, <3>3
    <2> QED BY <2>2, <2>3, MindedHolds DEF MindsOn
  <1>6. CASE ~(moves /\ outcome = "completed")
    <2>1. tasks'[x].st # "planned" /\ (tasks'[x].st = "completed" => tasks[x].st = "completed")
      BY <1>1, <1>3, <1>6
    <2> HIDE DEF moves
    <2> QED BY <1>1, <1>4, <2>1, AlterMinds
  <1> QED BY <1>5, <1>6

\* Tasks of a proposal: whoever creates them all goes on to record them.
LEMMA CreateMinds ==
  ASSUME Part1, Frame, Minded, req'.st # "gone" => req.st # "gone", NEW u \in Users, Create(u),
         tasks' # tasks
  PROVE  Minded'
  <1>1. /\ thread[u].pc = "create" /\ OnlyMoves(u) /\ u \in Threads
        /\ \A t \in Ids : \/ tasks'[t] = tasks[t]
                          \/ t \in Free /\ tasks'[t].st = "planned" /\ tasks'[t].verifies = 0
    BY CreateEffect DEF Shifts, Threads
  <1>2. faults' = 0 => thread'[u].pc = "record"
    <2>1. faults \in Nat /\ faults + 1 # 0
      BY DEF Part1, Typed
    <2>2. ~(Cardinality(Free) < 0)
      <3>1. Free \subseteq Threads
        BY DEF Free, Threads
      <3>2. Cardinality(Free) \in Nat
        BY <3>1, FiniteThreads
      <3> QED BY <3>2
    <2> DEFINE d == [Quiet EXCEPT !.pc = "record", !.expand = thread[u].expand]
    <2>3. d.pc = "record"
      BY DEF Quiet
    <2>4. Begin(u, d) \/ faults' # 0
      BY <2>1, <2>2 DEF Create, Fails
    <2> HIDE DEF d
    <2> QED BY <1>1, <2>3, <2>4, FieldsMove DEF Begin, Part1
  <1>3. ASSUME NEW t \in Ids, WillBeDue(t), tasks'[t] = tasks[t]
        PROVE  Due(t) /\ tasks'[t].verifies = tasks[t].verifies /\ tasks'[t].agent = tasks[t].agent /\ KeptInMind(t)
    <2>1. \A d \in tasks[t].deps : d \in Ids /\ tasks[d].st = "completed"
      BY <1>1, <1>3 DEF WillBeDue
    <2>2. Due(t) /\ Taken(t)
      BY <1>3, <2>1, DueIs DEF WillBeDue, Taken
    <2> QED BY <1>1, <1>3, <2>2, AsideKeeps DEF Minding
  <1>4. ASSUME faults' = 0, NEW t \in Ids, tasks'[t] # tasks[t]
        PROVE  InMind(t)
    BY <1>1, <1>2, <1>4 DEF InMind, WillMind
  <1> QED BY <1>3, <1>4, MindedHolds DEF MindsOn

LEMMA OtherMinds ==
  ASSUME Part1, Turns, Frame, Minded, OtherStep
  PROVE  Minded'
  <1>0. Typed /\ Users \subseteq Threads /\ Ids \subseteq Threads /\ (req'.st # "gone" => req.st # "gone")
    BY StaysGone DEF Part1, Threads
  <1>a. ASSUME NEW k \in Threads, OnlyMoves(k), thread[k].pc \notin Minding, NEW t \in Ids, Taken(t)
        PROVE  KeptInMind(t)
    BY <1>a, AsideKeeps
  <1>b. Fix.deps = {}
    BY NewTasks
  <1>c. ASSUME NEW f \in Ids, tasks'[f].deps = {} PROVE ~WillBeDue(f)
    BY <1>c DEF WillBeDue
  <1>d. Free \subseteq Ids
    BY DEF Free
  <1>1. ASSUME NEW k \in Threads, Activate(k), Next1(k) \in ReadyPlanned PROVE Minded'
    <2>1. /\ UNCHANGED tasks /\ OnlyMoves(k) /\ thread[k].pc = "activate" /\ thread'[k].pc = "pend"
          /\ thread'[k].todo = thread[k].todo
      BY <1>1, ActivateMoves DEF Shifts
    <2>2. ASSUME NEW t \in Ids, WillBeDue(t)
          PROVE  Due(t) /\ tasks'[t].verifies = tasks[t].verifies /\ tasks'[t].agent = tasks[t].agent /\ KeptInMind(t)
      BY <2>1, <2>2, SameDue, OnwardKeeps
    <2> QED BY <1>0, <2>2, MindedHolds DEF MindsOn
  <1>2. ASSUME NEW k \in Threads, Pend(k) PROVE Minded'
    BY <1>0, <1>2, PendMinds
  <1>3. ASSUME NEW k \in Threads, Open(k), tasks' # tasks PROVE Minded'
    <2> DEFINE f == FirstOf(Free)
    <2>1. Adds(f) /\ tasks'[f].deps = {} /\ OnlyMoves(k) /\ thread[k].pc \notin Minding
      BY <1>b, <1>3, OpenEffect DEF Shifts, Minding
    <2> HIDE DEF f
    <2>2. f \in Ids
      BY <1>d, <2>1 DEF Adds
    <2> QED BY <1>0, <1>a, <1>c, <2>1, <2>2, AddMinds
  <1>4. ASSUME NEW t \in Ids, TurnBegins(t) PROVE Minded'
    <2>1. Alters(t) /\ tasks'[t].st = "running" /\ OnlyMoves(t) /\ thread[t].pc \notin Minding
      BY <1>4, TurnBeginsEffect, TurnBeginsMoves DEF Becomes, Shifts, Minding
    <2> QED BY <1>0, <1>a, <2>1, AlterMinds
  <1>5. ASSUME NEW t \in Ids, NEW outcome \in {"completed", "failed"}, TurnEnds(t, outcome) PROVE Minded'
    BY <1>0, <1>5, TurnEndsMinds
  <1>6. ASSUME NEW t \in Ids, Spawn(t), tasks' # tasks PROVE Minded'
    <2> DEFINE f == FirstOf(Free)
    <2>1. /\ Adds(f) /\ tasks'[f].deps = {t} /\ tasks'[f].agent = FALSE
          /\ OnlyMoves(t) /\ thread[t].pc = "spawn" /\ thread'[t].pc = "note"
      BY <1>6, SpawnEffect DEF Shifts
    <2>2. thread'[t].todo = thread[t].todo
      <3>1. thread' = [thread EXCEPT ![t].cur = FirstOf(Free), ![t].pc = "note"]
        BY <1>6 DEF Spawn, Creates
      <3> DEFINE d == [thread[t] EXCEPT !.cur = FirstOf(Free), !.pc = "note"]
      <3>2. thread[t] \in ThreadType /\ t \in Threads
        BY <1>0 DEF Typed
      <3>3. d.todo = thread[t].todo
        BY <3>2 DEF ThreadType
      <3>4. thread' = [thread EXCEPT ![t] = d]
        BY <3>1
      <3> HIDE DEF d
      <3> QED BY <1>0, <3>2, <3>3, <3>4, FieldsMove
    <2> HIDE DEF f
    <2>3. f \in Ids
      BY <1>d, <2>1 DEF Adds
    <2>4. InMind(f)
      BY <1>0, <2>1 DEF InMind, WillHold
    <2>5. \A o \in Ids : Taken(o) => KeptInMind(o)
      BY <1>0, <2>1, <2>2, OnwardKeeps
    <2> QED BY <1>0, <2>1, <2>3, <2>4, <2>5, AddMinds
  <1>7. ASSUME NEW u \in Users, Stop(u) PROVE Minded'
    <2> DEFINE x == Next1(u)
    <2>1. x \in Ids /\ Alters(x) /\ tasks'[x].st = Stopped(x) /\ OnlyMoves(u) /\ thread[u].pc \notin Minding
      BY <1>7, StopEffect DEF Becomes, Shifts, Minding
    <2> HIDE DEF x
    <2>2. Stopped(x) # "planned" /\ (Stopped(x) = "completed" => tasks[x].st = "completed")
      BY <1>0, <2>1, TaskIs DEF Stopped, Known, Terminal, Alters, Taken
    <2> QED BY <1>0, <1>a, <2>1, <2>2, AlterMinds
  <1>8. ASSUME NEW u \in Users, Abandon(u) PROVE Minded'
    <2> DEFINE x == Next1(u)
    <2>1. /\ OnlyMoves(u) /\ thread[u].pc \notin Minding /\ x \in Ids
          /\ (Alters(x) /\ tasks'[x].st = "cancelled") \/ UNCHANGED tasks
      BY <1>0, <1>8, AbandonEffect, AbandonMoves DEF Becomes, Shifts, Minding
    <2> HIDE DEF x
    <2>2. CASE Alters(x) /\ tasks'[x].st = "cancelled"
      BY <1>0, <1>a, <2>1, <2>2, AlterMinds
    <2>3. CASE UNCHANGED tasks
      <3>1. ASSUME NEW t \in Ids, WillBeDue(t)
            PROVE  Due(t) /\ tasks'[t].verifies = tasks[t].verifies /\ tasks'[t].agent = tasks[t].agent /\ KeptInMind(t)
        BY <1>0, <1>a, <2>1, <2>3, <3>1, SameDue
      <3> QED BY <1>0, <3>1, MindedHolds DEF MindsOn
    <2> QED BY <2>1, <2>2, <2>3
  <1>9. ASSUME NEW u \in Users, StartSuggest(u) PROVE Minded'
    <2> DEFINE x == thread[u].cur
    <2>1. /\ x \in Ids /\ Alters(x) /\ tasks'[x].st = tasks[x].st /\ OnlyMoves(u)
          /\ thread[u].pc = "suggest" /\ thread[u].pc \notin Minding
      BY <1>9, StartSuggestEffect DEF Becomes, Shifts, Minding
    <2>2. tasks[x].st # "planned"
      BY <1>0, <2>1 DEF Turns
    <2> HIDE DEF x
    <2> QED BY <1>0, <1>a, <2>1, <2>2, AlterMinds
  <1>10. ASSUME NEW u \in Users, Suggest(u) PROVE Minded'
    <2> DEFINE f == FirstOf(Free)
    <2>1. CASE /\ Adds(f) /\ Shifts(u, "idle", {"suggest"}) /\ tasks'[f].deps = {}
      <3>1. OnlyMoves(u) /\ thread[u].pc \notin Minding /\ f \in Ids
        BY <1>d, <2>1 DEF Shifts, Minding, Adds
      <3> HIDE DEF f
      <3> QED BY <1>0, <1>a, <1>c, <2>1, <3>1, AddMinds
    <2>2. ASSUME NEW t \in Known, tasks[t].st = "pending", UNCHANGED thread, Alters(t), tasks'[t].st = tasks[t].st
          PROVE  Minded'
      <3>1. t \in Ids /\ tasks'[t].st = "pending"
        BY <2>2 DEF Known
      <3> QED BY <1>0, <2>2, <3>1, RestKeeps, AlterMinds
    <2> QED BY <1>10, <2>1, <2>2, SuggestEffect DEF Becomes
  <1>11. ASSUME NEW u \in Users, Create(u), tasks' # tasks PROVE Minded'
    BY <1>0, <1>11, CreateMinds
  <1>12. ASSUME NEW u \in Users, NEW x \in Ids, StartPlanned(u, x) PROVE Minded'
    <2>1. /\ Alters(x) /\ tasks'[x].st = tasks[x].st /\ OnlyMoves(u) /\ thread[u].pc \notin Minding
          /\ thread'[u].pc = "activate" /\ thread'[u].todo = {x}
      BY <1>12, StartPlannedEffect, StartPlannedMoves DEF Becomes, Shifts, Minding
    <2>2. InMind(x)
      BY <1>0, <2>1 DEF InMind, WillHold, WillMind
    <2>3. ASSUME NEW t \in Ids, WillBeDue(t), t # x
          PROVE  Due(t) /\ tasks'[t].verifies = tasks[t].verifies /\ tasks'[t].agent = tasks[t].agent /\ KeptInMind(t)
      BY <1>0, <1>a, <2>1, <2>3, AlteredDue
    <2> QED BY <1>0, <2>2, <2>3, MindedHolds DEF MindsOn
  <1>13. ASSUME NEW u \in Users, NEW x \in Ids, Resume(u, x) PROVE Minded'
    <2>1. Alters(x) /\ tasks'[x].st = tasks[x].st /\ tasks[x].st # "planned" /\ UNCHANGED thread
      BY <1>0, <1>13, ResumeEffect DEF Becomes, Resume, Terminal
    <2> QED BY <1>0, <2>1, RestKeeps, AlterMinds
  <1>14. ASSUME NEW u \in Users, NEW x \in Ids, Cancel(u, x) \/ Delete(u, x) PROVE Minded'
    <2>1. x \in Known /\ Taken(x) /\ UNCHANGED thread
      BY <1>14 DEF Cancel, Delete, Known, Taken
    <2>2. Alters(x) /\ tasks'[x].st \in {Stopped(x), "deleted"}
      BY <1>0, <1>14, <2>1, CancelEffect, DeleteEffect DEF Becomes, Cancel
    <2>3. Stopped(x) # "planned" /\ (Stopped(x) = "completed" => tasks[x].st = "completed")
      BY <1>0, <2>1, TaskIs DEF Stopped, Terminal
    <2> QED BY <1>0, <2>1, <2>2, <2>3, RestKeeps, AlterMinds
  <1>15. ASSUME NEW u \in Users, NEW i \in 1..Len(issues), ConfirmFix(u, i) PROVE Minded'
    <2> DEFINE f == FirstOf(Free)
    <2>1. Adds(f) /\ tasks'[f].deps = {} /\ OnlyMoves(u) /\ thread[u].pc \notin Minding
      BY <1>b, <1>15, ConfirmFixEffect DEF Shifts, Minding
    <2> HIDE DEF f
    <2>2. f \in Ids
      BY <1>d, <2>1 DEF Adds
    <2> QED BY <1>0, <1>a, <1>c, <2>1, <2>2, AddMinds
  <1>16. ASSUME NEW u \in Users, NEW st \in {"running", "completed"}, Promote(u, st) PROVE Minded'
    <2> DEFINE f == FirstOf(Free)
    <2>1. /\ Adds(f) /\ f \in Ids /\ tasks'[f].deps = {}
          /\ thread[u].pc = "idle" /\ thread'[u].pc = "promote"
          /\ thread[f].pc = "idle" /\ thread'[f].pc \in {"idle", "turn"}
          /\ \A o \in Threads \ {u, f} : thread'[o] = thread[o]
      BY <1>16, PromoteEffect
    <2> HIDE DEF f
    <2>2. ASSUME NEW t \in Ids, Taken(t) PROVE KeptInMind(t)
      <3>1. tasks'[t].deps = tasks[t].deps
        BY <2>2 DEF Frame, Evolves, Kept
      <3> QED BY <2>1, <3>1 DEF KeptInMind, Holds, Minds, WillHold, WillMind
    <2> QED BY <1>0, <1>c, <2>1, <2>2, AddMinds
  <1> QED BY <1>1, <1>2, <1>3, <1>4, <1>5, <1>6, <1>7, <1>8, <1>9, <1>10, <1>11, <1>12, <1>13, <1>14,
            <1>15, <1>16 DEF OtherStep

LEMMA InitMinded == Init => Minded
  BY DEF Init, Minded, Due, NoTask

\* A planned task whose dependencies are all completed is never forgotten: some
\* thread is committed to start it, for any number of users, tasks and proposals
\* (scheduleReadyDependents, StartReadyInRequirement and startPlannedTask).
THEOREM DueAreMinded == Spec => []DueIsMinded
  <1>1. Init => TypeInv /\ Minded
    BY InitPart1, InitStarts, InitTurns, InitMinded DEF TypeInv
  <1>2. TypeInv /\ Minded /\ [Next]_vars => (TypeInv /\ Minded)'
    <2> SUFFICES ASSUME TypeInv, Minded, [Next]_vars PROVE TypeInv' /\ Minded'
      OBVIOUS
    <2>1. TypeInv' /\ (Next => Frame)
      BY TypeSteps
    <2>2. CASE Next
      BY <2>1, <2>2, NextSplits, PlainMinds, OtherMinds DEF TypeInv
    <2>3. CASE UNCHANGED vars
      BY <2>1, <2>3 DEF vars, Minded, Due, ReadyPlanned, DepsSatisfied, Known, Holds, Minds
    <2> QED BY <2>1, <2>2, <2>3
  <1>3. TypeInv /\ Minded => DueIsMinded
    BY DEF Minded, DueIsMinded, Holds, Minds
  <1> QED BY <1>1, <1>2, <1>3, PTL DEF Spec

-----------------------------------------------------------------------------
(* An outcome is fed back once *)

\* The places in which a task feeds its outcome back, and a user confirms a fix.
Feeding(k) == IF k \in Ids THEN {"open", "append", "spawn", "note"} ELSE {"assign"}

\* The fix that a thread has created and that no issue names yet, if any; and the
\* places in which a thread may come to have one.
Hand(d) == IF d.pc \in {"open", "append", "assign"} THEN d.cur ELSE 0
Busy(k) == Feeding(k) \cup {"open", "append", "assign"}

\* A step that touches no issue, creates no re-verification, and leads nobody to
\* one of these places; only a user who opens an issue has a new fix in hand.
Neutral ==
    /\ UNCHANGED issues
    /\ \A t \in Ids : tasks'[t].verifies = tasks[t].verifies
    /\ \A k \in Threads :
          \/ thread'[k] = thread[k]
          \/ /\ thread[k].pc # "note" /\ thread'[k].pc \notin Feeding(k)
             /\ Hand(thread'[k]) = 0 \/ (k \in Users /\ Open(k))

LEMMA NeutralKeeps ==
  ASSUME Part1, Frame, Feeds, Neutral, req.st = "gone" => req'.st = "gone"
  PROVE  Feeds'
  <1>0. /\ issues' = issues /\ Users \subseteq Threads /\ Ids \subseteq Threads /\ Users \cap Ids = {}
        /\ Len(issues) \in Nat
    BY RequirementsAssumption DEF Neutral, Threads, Part1, Typed
  <1>1. Issues'
    <2>1. \A u \in Users : thread'[u].pc = "assign" => thread'[u] = thread[u]
      BY <1>0 DEF Neutral, Feeding
    <2> QED BY <1>0, <2>1 DEF Feeds, Issues
  <1>2. OneBlocker'
    <2>1. \A t \in Ids : thread'[t].pc \in {"open", "append"} => thread'[t] = thread[t]
      BY <1>0 DEF Neutral, Feeding
    <2> QED BY <1>0, <2>1 DEF Feeds, OneBlocker, Unresolved
  <1>3. OneReverification'
    <2>1. \A t \in Ids : thread'[t].pc \in {"spawn", "note"} \/ thread[t].pc = "note" => thread'[t] = thread[t]
      BY <1>0 DEF Neutral, Feeding
    <2>2. \A t \in Ids : tasks'[t].verifies = tasks[t].verifies
      BY DEF Neutral
    <2>3. ASSUME NEW i \in 1..Len(issues), Verified(i)
          PROVE  \/ issues'[i].reverify # 0 \/ req'.st = "gone"
                 \/ /\ issues'[i].fix \in Ids
                    /\ thread'[issues'[i].fix].pc = "note" /\ thread'[issues'[i].fix].iss = i
      BY <1>0, <2>1, <2>3 DEF Verified
    <2>4. ASSUME NEW t \in Ids, tasks'[t].verifies # 0
          PROVE  /\ tasks'[t].verifies \in 1..Len(issues')
                 /\ (Once(tasks[t].verifies) => Verified(tasks[t].verifies))'
      <3>1. tasks[t].verifies \in 1..Len(issues) /\ (Once(tasks[t].verifies) => Verified(tasks[t].verifies))
        BY <2>2, <2>4 DEF Feeds, OneReverification
      <3> QED BY <1>0, <2>2, <2>3, <3>1 DEF Once, Verified
    <2>5. ASSUME NEW t \in Ids, thread'[t].pc \in {"spawn", "note"}
          PROVE  /\ issues'[thread'[t].iss].fix \in Ids
                 /\ (Once(thread[t].iss))' => issues'[thread'[t].iss].fix = t /\ issues'[thread'[t].iss].reverify = 0
      BY <1>0, <2>1, <2>5 DEF Feeds, OneReverification, Once
    <2>6. ASSUME NEW t \in Ids, NEW o \in Ids, thread'[t].pc = "spawn", (Once(thread[t].iss))'
          PROVE  tasks'[o].verifies # thread'[t].iss
      BY <1>0, <2>1, <2>2, <2>6 DEF Feeds, OneReverification, Once
    <2>7. ASSUME NEW t \in Ids, NEW o \in Ids, tasks'[t].verifies # 0, tasks'[t].verifies = tasks'[o].verifies,
                 (Once(tasks[t].verifies))'
          PROVE  t = o
      BY <1>0, <2>2, <2>7 DEF Feeds, OneReverification, Once
    <2> QED BY <2>4, <2>5, <2>6, <2>7 DEF OneReverification
  <1> QED BY <1>1, <1>2, <1>3 DEF Feeds

\* One thread moves.
LEMMA NeutralMove ==
  ASSUME Part1, UNCHANGED issues, \A t \in Ids : tasks'[t].verifies = tasks[t].verifies,
         NEW k \in Threads, OnlyMoves(k), thread[k].pc # "note", thread'[k].pc \notin Busy(k)
  PROVE  Neutral
  BY DEF Neutral, OnlyMoves, Busy, Hand

\* The steps that ask for something but a fix, or the resolution of an issue.
LEMMA AsksNeutral ==
  ASSUME Part1, NEW u \in Users, AsksOnly(u), UNCHANGED issues
  PROVE  Neutral
  <1>0. /\ Typed /\ u \in Threads /\ u \notin Ids /\ UNCHANGED tasks /\ thread[u].pc = "idle"
    <2>1. Typed /\ u \in Threads /\ u \notin Ids
      BY RequirementsAssumption DEF Part1, Threads
    <2>2. UNCHANGED tasks /\ Request(u)
      BY DEF AsksOnly, HumanVerify, Replace, OpenByUser, Resolve, Propose, Expand, Patch, MarkDone,
             Discard, Confirm, DeleteRequirement
    <2> QED BY <2>1, <2>2 DEF Request, At
  <1>1. CASE UNCHANGED thread
    BY <1>0, <1>1 DEF Neutral
  <1>2. ASSUME NEW d, Begin(u, d), d.pc # "assign", d.cur = 0 PROVE Neutral
    <2>1. thread'[u] = d /\ OnlyMoves(u)
      BY <1>0, <1>2, FieldsMove DEF Begin
    <2>2. Hand(d) = 0 /\ Feeding(u) = {"assign"}
      BY <1>0, <1>2 DEF Hand, Feeding
    <2> QED BY <1>0, <1>2, <2>1, <2>2 DEF Neutral, OnlyMoves
  <1>3. ASSUME NEW b, NEW s
        PROVE  LET d == [Quiet EXCEPT !.pc = "open", !.blocker = b, !.source = s] IN d.pc = "open" /\ d.cur = 0
    BY DEF Quiet
  <1>4. ASSUME NEW b, NEW S
        PROVE  LET d == [Quiet EXCEPT !.pc = "stop", !.force = b, !.todo = S] IN d.pc = "stop" /\ d.cur = 0
    BY DEF Quiet
  <1>5. /\ LET d == [Quiet EXCEPT !.pc = "apply", !.expand = TRUE] IN d.pc = "apply" /\ d.cur = 0
        /\ LET d == [Quiet EXCEPT !.pc = "open"] IN d.pc = "open" /\ d.cur = 0
        /\ LET d == [Quiet EXCEPT !.pc = "done"] IN d.pc = "done" /\ d.cur = 0
        /\ LET d == [Quiet EXCEPT !.pc = "apply"] IN d.pc = "apply" /\ d.cur = 0
    BY DEF Quiet
  <1>6. ASSUME NEW b \in BOOLEAN, NEW s, OpenByUser(u, b, s) PROVE Neutral
    BY <1>2, <1>3, <1>6 DEF OpenByUser
  <1>7. ASSUME NEW b \in BOOLEAN, Replace(u, b) PROVE Neutral
    <2> DEFINE S == {t \in Work : tasks[t].st # "cancelled"}
    <2>1. Begin(u, [Quiet EXCEPT !.pc = "stop", !.force = b, !.todo = S])
      BY <1>7 DEF Replace
    <2> HIDE DEF S
    <2> QED BY <1>2, <1>4, <2>1
  <1>8. ASSUME NEW b \in BOOLEAN, HumanVerify(u, b) PROVE Neutral
    BY <1>1, <1>2, <1>5, <1>8 DEF HumanVerify
  <1>9. ASSUME NEW p \in Proposals, NEW e \in Ids, Expand(u, p, e) PROVE Neutral
    BY <1>2, <1>5, <1>9 DEF Expand
  <1>10. ASSUME MarkDone(u) \/ Confirm(u) PROVE Neutral
    BY <1>2, <1>5, <1>10 DEF MarkDone, Confirm
  <1>11. (\/ Discard(u) \/ DeleteRequirement(u)
          \/ (\E st \in {"done", "cancelled"} : Patch(u, st))
          \/ (\E p \in Proposals : Propose(u, p))
          \/ (\E i \in 1..Len(issues) : Resolve(u, i))) => UNCHANGED thread
    BY DEF Discard, DeleteRequirement, Patch, Propose, Resolve
  <1> QED BY <1>1, <1>6, <1>7, <1>8, <1>9, <1>10, <1>11 DEF AsksOnly

\* The steps that feed an outcome back, and those that touch an issue.
FeedStep ==
    \/ \E k \in Threads : Opened(k)
    \/ \E t \in Ids : Open(t) \/ Completed(t) \/ Spawn(t) \/ Note(t) \/ Failed(t)
    \/ \E u \in Users :
          \/ Assign(u)
          \/ \E i \in 1..Len(issues) : ConfirmFix(u, i) \/ Resolve(u, i)

NeutralStep ==
    \/ \E k \in Threads : StartReady(k) \/ Activate(k) \/ Pend(k)
    \/ \E t \in Ids : TurnBegins(t) \/ TurnEnds(t, "completed") \/ TurnEnds(t, "failed") \/ Dependents(t)
    \/ \E u \in Users :
          \/ Open(u) \/ WriteDone(u) \/ Stop(u) \/ Look(u) \/ Abandon(u) \/ Apply(u) \/ Create(u) \/ Record(u)
          \/ DiscardApplied(u) \/ StartSuggest(u) \/ Promoted(u) \/ Suggest(u)
          \/ AsksOnly(u) /\ UNCHANGED issues
          \/ \E t \in Ids : StartPlanned(u, t) \/ Resume(u, t) \/ Cancel(u, t) \/ Delete(u, t)
          \/ \E st \in {"running", "completed"} : Promote(u, st)

LEMMA NextFeeds == Next => NeutralStep \/ FeedStep
  <1>1. ASSUME NEW k \in Threads, Advances(k) PROVE NeutralStep \/ FeedStep
    BY <1>1 DEF Advances, NeutralStep, FeedStep, Threads
  <1>2. ASSUME NEW t \in Ids, FeedsBack(t) \/ TurnEnds(t, "completed") \/ TurnEnds(t, "failed")
        PROVE  NeutralStep \/ FeedStep
    BY <1>2 DEF FeedsBack, NeutralStep, FeedStep
  <1>3. ASSUME NEW u \in Users, Handles(u) PROVE NeutralStep \/ FeedStep
    BY <1>3 DEF Handles, NeutralStep, FeedStep
  <1>4. ASSUME NEW u \in Users, AsksOnly(u)
        PROVE  UNCHANGED issues \/ \E i \in 1..Len(issues) : Resolve(u, i)
    BY <1>4 DEF AsksOnly, HumanVerify, Replace, OpenByUser, Propose, Expand, Patch, MarkDone,
             Discard, Confirm, DeleteRequirement
  <1>5. ASSUME NEW u \in Users, Requested(u) PROVE NeutralStep \/ FeedStep
    <2>1. CASE AsksOnly(u)
      BY <1>4, <2>1 DEF NeutralStep, FeedStep
    <2>2. CASE ~AsksOnly(u)
      BY <1>5, <2>2 DEF Requested, AsksOnly, NeutralStep, FeedStep
    <2> QED BY <2>1, <2>2
  <1> QED BY <1>1, <1>2, <1>3, <1>5 DEF Next

\* No existing task gets another issue to verify, and a new one has none.
LEMMA AlterVerifies ==
  ASSUME NEW x \in Ids, Alters(x)
  PROVE  \A t \in Ids : tasks'[t].verifies = tasks[t].verifies
  BY DEF Alters, Kept

LEMMA AddVerifies ==
  ASSUME Part1, NEW f \in Ids, Adds(f), tasks'[f].verifies = 0
  PROVE  \A t \in Ids : tasks'[t].verifies = tasks[t].verifies
  BY DEF Adds, Part1, Fresh, NoTask

LEMMA Elsewhere ==
  ASSUME NEW k \in Threads
  PROVE  \A l \in {"idle", "activate", "pend", "turn", "completed", "failed", "ready", "stop", "abandon",
                   "create", "record", "discard", "suggest", "promote", "dependents"} : l \notin Busy(k)
  BY DEF Feeding, Busy

\* The schedule of planned tasks, and the turns.
LEMMA ScheduleNeutral ==
  ASSUME Part1, NEW k \in Threads,
         \/ StartReady(k) \/ Activate(k) \/ Pend(k)
         \/ k \in Ids /\ (TurnBegins(k) \/ TurnEnds(k, "completed") \/ TurnEnds(k, "failed") \/ Dependents(k))
  PROVE  Neutral
  <1>0. Typed /\ ReadyPlanned \subseteq Ids /\ thread[k].todo \in SUBSET Ids
    <2>1. thread[k] \in ThreadType
      BY DEF Part1, Typed
    <2> QED BY <2>1 DEF Part1, ReadyPlanned, Known, ThreadType
  <1>1. ASSUME NEW S \in SUBSET Ids, Loop(k, "activate", S), UNCHANGED <<tasks, issues>>, thread[k].pc # "note"
        PROVE  Neutral
    <2>1. "activate" \in Places
      BY DEF Places
    <2>2. OnlyMoves(k) /\ thread'[k].pc \in {"idle", "activate"}
      <3>1. thread'[k].pc = IF S = {} THEN "idle" ELSE "activate"
        BY <1>0, <1>1, <2>1, LoopMoves
      <3> QED BY <1>0, <1>1, <3>1, LoopsTo
    <2> QED BY <1>1, <2>2, Elsewhere, NeutralMove
  <1>2. CASE StartReady(k) \/ (k \in Ids /\ Dependents(k))
    BY <1>0, <1>1, <1>2 DEF StartReady, Dependents, At
  <1>3. CASE Activate(k)
    <2>1. CASE Next1(k) \in ReadyPlanned
      <3>1. Shifts(k, "activate", {"pend"}) /\ UNCHANGED <<tasks, issues>>
        BY <1>3, <2>1, ActivateMoves DEF Activate
      <3> QED BY <3>1, Elsewhere, NeutralMove DEF Shifts
    <2>2. CASE Next1(k) \notin ReadyPlanned
      <3>1. Loop(k, "activate", thread[k].todo \ {Next1(k)}) /\ UNCHANGED <<tasks, issues>> /\ thread[k].pc = "activate"
        BY <1>3, <2>2 DEF Activate, Next1, At
      <3>2. thread[k].todo \ {Next1(k)} \in SUBSET Ids
        BY <1>0
      <3> QED BY <1>1, <3>1, <3>2
    <2> QED BY <2>1, <2>2
  <1>4. CASE Pend(k)
    <2>1. Shifts(k, "pend", {"idle", "activate"}) /\ UNCHANGED issues
      BY <1>4, PendMoves DEF Pend
    <2>2. \A t \in Ids : tasks'[t].verifies = tasks[t].verifies
      BY <1>4, PendEffect, AlterVerifies
    <2> QED BY <2>1, <2>2, Elsewhere, NeutralMove DEF Shifts
  <1>5. CASE k \in Ids /\ TurnBegins(k)
    <2>1. Shifts(k, "idle", {"turn"}) /\ UNCHANGED issues /\ Alters(k)
      BY <1>5, TurnBeginsMoves, TurnBeginsEffect DEF TurnBegins
    <2> QED BY <1>5, <2>1, AlterVerifies, Elsewhere, NeutralMove DEF Shifts
  <1>6. ASSUME NEW outcome \in {"completed", "failed"}, k \in Ids, TurnEnds(k, outcome) PROVE Neutral
    <2>1. /\ Shifts(k, "turn", {"idle", "completed", "failed"}) /\ UNCHANGED issues /\ Alters(k)
      BY <1>6, TurnEndsMoves, TurnEndsEffect DEF TurnEnds, Shifts
    <2> QED BY <1>6, <2>1, AlterVerifies, Elsewhere, NeutralMove DEF Shifts
  <1> QED BY <1>2, <1>3, <1>4, <1>5, <1>6

\* The handlers of a user, and the requests.
LEMMA HandleNeutral ==
  ASSUME Part1, NEW u \in Users,
         \/ Open(u) \/ WriteDone(u) \/ Stop(u) \/ Look(u) \/ Abandon(u) \/ Apply(u) \/ Create(u) \/ Record(u)
         \/ DiscardApplied(u) \/ StartSuggest(u) \/ Promoted(u)
  PROVE  Neutral
  <1>0. /\ Typed /\ u \in Threads /\ u \notin Ids /\ thread[u] \in ThreadType
        /\ Feeding(u) = {"assign"} /\ Busy(u) = {"open", "append", "assign"}
    BY RequirementsAssumption DEF Part1, Typed, Threads, Feeding, Busy
  <1>a. /\ UNCHANGED issues /\ thread[u].pc # "note"
    BY DEF Open, WriteDone, Stop, Look, Abandon, Apply, Create, Record, DiscardApplied, StartSuggest, Promoted, At, Abandoned
  <1>b. ASSUME NEW l \in Places \ {"open", "append", "assign"}, Go(u, l), \A t \in Ids : tasks'[t].verifies = tasks[t].verifies
        PROVE  Neutral
    BY <1>0, <1>a, <1>b, GoesTo, NeutralMove
  <1>c. ASSUME NEW d, d.pc \notin {"open", "append", "assign"}, thread' = [thread EXCEPT ![u] = d],
               \A t \in Ids : tasks'[t].verifies = tasks[t].verifies
        PROVE  Neutral
    BY <1>0, <1>a, <1>c, FieldsMove, NeutralMove
  <1>d. ASSUME End(u), \A t \in Ids : tasks'[t].verifies = tasks[t].verifies PROVE Neutral
    BY <1>c, <1>d, QuietIs DEF End
  <1>e. {"ready", "discard"} \subseteq Places \ {"open", "append", "assign"} /\ "append" \in Places
    BY DEF Places
  <1>f. ASSUME Open(u), OnlyMoves(u), thread'[u].pc = "append",
               \A t \in Ids : tasks'[t].verifies = tasks[t].verifies
        PROVE  Neutral
    BY <1>0, <1>a, <1>f DEF Neutral, OnlyMoves
  <1>1. CASE Open(u)
    <2>1. CASE tasks' # tasks
      <3>1. Adds(FirstOf(Free)) /\ tasks'[FirstOf(Free)] = Fix /\ Shifts(u, "open", {"append"})
        BY <1>0, <1>1, <2>1, OpenEffect
      <3>2. FirstOf(Free) \in Ids /\ Fix.verifies = 0
        BY <3>1 DEF Adds, Free, Fix, NoTask
      <3> QED BY <1>1, <1>f, <3>1, <3>2, AddVerifies DEF Shifts
    <2>2. CASE tasks' = tasks
      <3>1. CASE thread' = [thread EXCEPT ![u].cur = FirstOf(Free), ![u].pc = "append"]
        <4> DEFINE d == [thread[u] EXCEPT !.cur = FirstOf(Free), !.pc = "append"]
        <4>1. d.pc = "append"
          BY <1>0 DEF ThreadType
        <4>2. thread' = [thread EXCEPT ![u] = d]
          BY <3>1
        <4> HIDE DEF d
        <4> QED BY <1>0, <1>1, <1>f, <2>2, <4>1, <4>2, FieldsMove
      <3>2. CASE Go(u, "append")
        BY <1>0, <1>1, <1>e, <1>f, <2>2, <3>2, GoesTo
      <3>3. \/ End(u) \/ Go(u, "append")
            \/ thread' = [thread EXCEPT ![u].cur = FirstOf(Free), ![u].pc = "append"]
        BY <1>1 DEF Open, Creates
      <3> QED BY <1>d, <2>2, <3>1, <3>2, <3>3
    <2> QED BY <2>1, <2>2
  <1>2. CASE WriteDone(u) \/ Promoted(u) \/ Record(u)
    <2>1. (End(u) \/ Go(u, "discard")) /\ UNCHANGED tasks
      BY <1>2 DEF WriteDone, Promoted, Record
    <2> QED BY <1>b, <1>d, <1>e, <2>1
  <1>3. CASE Stop(u)
    <2>1. Next1(u) \in Ids /\ Alters(Next1(u)) /\ Shifts(u, "stop", {"stop"})
      BY <1>3, StopEffect
    <2> QED BY <1>0, <1>a, <2>1, AlterVerifies, NeutralMove DEF Shifts
  <1>4. CASE Abandon(u)
    <2>1. Next1(u) \in Ids /\ (Alters(Next1(u)) \/ UNCHANGED tasks) /\ Shifts(u, "abandon", {"idle", "abandon"})
      BY <1>0, <1>4, AbandonEffect, AbandonMoves
    <2>2. \A t \in Ids : tasks'[t].verifies = tasks[t].verifies
      BY <2>1, AlterVerifies
    <2> QED BY <1>0, <1>a, <2>1, <2>2, NeutralMove DEF Shifts
  <1>5. CASE Look(u) \/ DiscardApplied(u)
    <2>1. [Quiet EXCEPT !.pc = "ready"].pc = "ready" /\ \A S : [Quiet EXCEPT !.pc = "abandon", !.todo = S].pc = "abandon"
      BY DEF Quiet
    <2>2. (End(u) \/ (\E d : Begin(u, d) /\ d.pc \in {"abandon", "ready"})) /\ UNCHANGED tasks
      BY <1>5, <2>1 DEF Look, DiscardApplied
    <2> QED BY <1>c, <1>d, <2>2 DEF Begin
  <1>6. CASE Apply(u)
    <2>1. (End(u) \/ thread' = [thread EXCEPT ![u].pc = "create", ![u].nodes = req.proposal]) /\ UNCHANGED tasks
      BY <1>6 DEF Apply
    <2>2. CASE thread' = [thread EXCEPT ![u].pc = "create", ![u].nodes = req.proposal]
      <3> DEFINE d == [thread[u] EXCEPT !.pc = "create", !.nodes = req.proposal]
      <3>1. d.pc = "create"
        BY <1>0 DEF ThreadType
      <3>2. thread' = [thread EXCEPT ![u] = d]
        BY <2>2
      <3> HIDE DEF d
      <3> QED BY <1>c, <2>1, <3>1, <3>2
    <2> QED BY <1>d, <2>1, <2>2
  <1>7. CASE Create(u)
    <2>1. Shifts(u, "create", {"idle", "record"}) /\ \A t \in Ids : tasks'[t] = tasks[t] \/ (t \in Free /\ tasks'[t].verifies = 0)
      BY <1>7, CreateEffect
    <2>2. \A t \in Ids : tasks'[t].verifies = tasks[t].verifies
      BY <2>1 DEF Part1, Fresh, NoTask
    <2> QED BY <1>0, <1>a, <2>1, <2>2, NeutralMove DEF Shifts
  <1>8. CASE StartSuggest(u)
    <2>1. Shifts(u, "suggest", {"idle"}) /\ thread[u].cur \in Ids /\ Alters(thread[u].cur)
      BY <1>8, StartSuggestEffect
    <2>2. \A t \in Ids : tasks'[t].verifies = tasks[t].verifies
      BY <2>1, AlterVerifies
    <2> QED BY <1>0, <1>a, <2>1, <2>2, NeutralMove DEF Shifts
  <1> QED BY <1>1, <1>2, <1>3, <1>4, <1>5, <1>6, <1>7, <1>8

LEMMA NeutralSteps ==
  ASSUME Part1, NeutralStep
  PROVE  Neutral
  <1>0. Typed /\ Users \subseteq Threads /\ Ids \subseteq Threads /\ \A u \in Users : u \notin Ids /\ Busy(u) = {"open", "append", "assign"}
    BY RequirementsAssumption DEF Part1, Threads, Feeding, Busy
  <1>1. ASSUME NEW u \in Users, Suggest(u) PROVE Neutral
    <2> DEFINE f == FirstOf(Free)
    <2>1. UNCHANGED issues
      BY <1>1 DEF Suggest
    <2>2. CASE /\ Adds(f) /\ Shifts(u, "idle", {"suggest"}) /\ tasks'[f].verifies = 0
      <3>1. f \in Ids
        BY <2>2 DEF Adds, Free
      <3> HIDE DEF f
      <3> QED BY <1>0, <2>1, <2>2, <3>1, AddVerifies, NeutralMove DEF Shifts
    <2>3. ASSUME NEW t \in Known, UNCHANGED thread, Alters(t) PROVE Neutral
      <3>1. t \in Ids
        BY DEF Known
      <3> QED BY <2>1, <2>3, <3>1, AlterVerifies DEF Neutral
    <2> QED BY <1>1, <2>2, <2>3, SuggestEffect
  <1>2. ASSUME NEW u \in Users, NEW t \in Ids, StartPlanned(u, t) PROVE Neutral
    <2>1. Shifts(u, "idle", {"activate"}) /\ UNCHANGED issues /\ Alters(t)
      BY <1>2, StartPlannedMoves, StartPlannedEffect DEF StartPlanned
    <2> QED BY <1>0, <2>1, AlterVerifies, NeutralMove DEF Shifts
  <1>3. ASSUME NEW u \in Users, NEW t \in Ids, Resume(u, t) \/ Cancel(u, t) \/ Delete(u, t) PROVE Neutral
    <2>1. UNCHANGED <<issues, thread>> /\ Taken(t)
      BY <1>3 DEF Resume, Cancel, Delete, Known, Taken
    <2>2. Alters(t)
      BY <1>0, <1>3, <2>1, ResumeEffect, CancelEffect, DeleteEffect DEF Cancel
    <2> QED BY <2>1, <2>2, AlterVerifies DEF Neutral
  <1>4. ASSUME NEW u \in Users, NEW st \in {"running", "completed"}, Promote(u, st) PROVE Neutral
    <2> DEFINE f == FirstOf(Free)
    <2>1. /\ Adds(f) /\ f \in Ids /\ tasks'[f].verifies = 0
          /\ thread[u].pc = "idle" /\ thread'[u].pc = "promote"
          /\ thread[f].pc = "idle" /\ thread'[f].pc \in {"idle", "turn"}
          /\ \A o \in Threads \ {u, f} : thread'[o] = thread[o]
      BY <1>4, PromoteEffect
    <2>2. UNCHANGED issues
      BY <1>4 DEF Promote
    <2> HIDE DEF f
    <2>3. \A t \in Ids : tasks'[t].verifies = tasks[t].verifies
      BY <2>1, AddVerifies
    <2> QED BY <1>0, <2>1, <2>2, <2>3 DEF Neutral, Feeding, Hand
  <1> QED BY <1>0, <1>1, <1>2, <1>3, <1>4, AsksNeutral, ScheduleNeutral, HandleNeutral DEF NeutralStep

\* The invariant after the step.
WillBeOnce(i) == issues'[i].auto

WillBeVerified(i) ==
    \/ issues'[i].reverify # 0 \/ req'.st = "gone"
    \/ /\ issues'[i].fix \in Ids
       /\ thread'[issues'[i].fix].pc = "note" /\ thread'[issues'[i].fix].iss = i

IssuesAfter ==
    /\ \A i \in 1..Len(issues') :
          /\ issues'[i].auto => issues'[i].st # "open"
          /\ issues'[i].fix = 0 => issues'[i].reverify = 0
    /\ \A u \in Users : thread'[u].pc = "assign" => ~issues'[thread'[u].iss].auto

UnresolvedAfter(t) == \E i \in 1..Len(issues') : issues'[i].auto /\ issues'[i].source = t /\ issues'[i].st # "resolved"

BlockersAfter ==
    /\ \A t \in Ids : thread'[t].pc \in {"open", "append"} =>
          thread'[t].source = t /\ thread'[t].blocker /\ ~UnresolvedAfter(t)
    /\ \A i, j \in 1..Len(issues') :
          i # j /\ issues'[i].auto /\ issues'[j].auto /\ issues'[i].source = issues'[j].source
             => "resolved" \in {issues'[i].st, issues'[j].st}

Reverifies ==
    /\ \A t \in Ids : tasks'[t].verifies # 0 =>
          tasks'[t].verifies \in 1..Len(issues') /\ (WillBeOnce(tasks'[t].verifies) => WillBeVerified(tasks'[t].verifies))
    /\ \A t \in Ids : thread'[t].pc \in {"spawn", "note"} =>
          /\ issues'[thread'[t].iss].fix \in Ids
          /\ WillBeOnce(thread'[t].iss) => issues'[thread'[t].iss].fix = t /\ issues'[thread'[t].iss].reverify = 0
    /\ \A t, o \in Ids : thread'[t].pc = "spawn" /\ WillBeOnce(thread'[t].iss) => tasks'[o].verifies # thread'[t].iss
    /\ \A t, o \in Ids : tasks'[t].verifies # 0 /\ tasks'[t].verifies = tasks'[o].verifies
                         /\ WillBeOnce(tasks'[t].verifies) => t = o

LEMMA FeedsAfter ==
  ASSUME IssuesAfter, BlockersAfter, Reverifies
  PROVE  Feeds'
  <1>1. Issues'
    BY DEF IssuesAfter, Issues
  <1>2. OneBlocker'
    BY DEF BlockersAfter, OneBlocker, Unresolved, UnresolvedAfter
  <1>3. OneReverification'
    BY DEF Reverifies, OneReverification, Once, WillBeOnce, Verified, WillBeVerified
  <1> QED BY <1>1, <1>2, <1>3 DEF Feeds

\* The status of an issue is none of the re-verification's business.
SameFixes ==
    /\ Len(issues') = Len(issues)
    /\ \A i \in 1..Len(issues) :
          /\ issues'[i].fix = issues[i].fix /\ issues'[i].reverify = issues[i].reverify
          /\ issues'[i].auto = issues[i].auto /\ issues'[i].source = issues[i].source

\* What a task does that completes, fails or opens an issue concerns only itself.
SameVerifies == \A t \in Ids : tasks'[t].verifies = tasks[t].verifies

\* The facts about the state before that each step needs.
LEMMA Situation ==
  ASSUME Part1, Feeds
  PROVE  /\ Typed /\ Users \subseteq Threads /\ Ids \subseteq Threads /\ Users \cap Ids = {} /\ 0 \notin Ids
         /\ Len(issues) \in Nat /\ 0 \notin 1..Len(issues)
         /\ \A i \in 1..Len(issues) : issues[i] \in IssueType
         /\ \A k \in Threads : thread[k] \in ThreadType
         /\ \A k \in Threads : thread[k].pc \in {"assign", "spawn", "note"} => thread[k].iss \in 1..Len(issues)
         /\ \A i \in 1..Len(issues) : issues[i].fix \in Ids \cup {0}
  <1>1. /\ Typed /\ Users \subseteq Threads /\ Ids \subseteq Threads /\ Users \cap Ids = {} /\ 0 \notin Ids
        /\ Len(issues) \in Nat
    BY RequirementsAssumption DEF Part1, Typed, Threads, Ids
  <1>2. \A i \in 1..Len(issues) : issues[i] \in IssueType
    BY <1>1 DEF Typed
  <1>3. \A k \in Threads : thread[k] \in ThreadType
    BY <1>1 DEF Typed
  <1>4. \A k \in Threads : thread[k].pc \in {"assign", "spawn", "note"} => thread[k].iss \in 1..Len(issues)
    BY DEF Part1, Roles
  <1>5. \A i \in 1..Len(issues) : issues[i].fix \in Ids \cup {0}
    BY <1>2 DEF IssueType
  <1> QED BY <1>1, <1>2, <1>3, <1>4, <1>5

\* An issue is resolved, by a user or by its re-verification.
LEMMA ResolvedFeeds ==
  ASSUME Part1, Frame, Feeds, SameVerifies, NEW i \in 1..Len(issues), Resolves(i),
         \/ UNCHANGED thread
         \/ \E t \in Ids : OnlyMoves(t) /\ thread[t].pc = "completed" /\ thread'[t].pc = "dependents"
  PROVE  Feeds'
  <1>0. /\ Typed /\ Users \subseteq Threads /\ Ids \subseteq Threads /\ Users \cap Ids = {} /\ 0 \notin Ids
        /\ Len(issues) \in Nat /\ 0 \notin 1..Len(issues)
        /\ \A k \in Threads : thread[k].pc \in {"assign", "spawn", "note"} => thread[k].iss \in 1..Len(issues)
    BY Situation
  <1>1. /\ SameFixes /\ req'.st = req.st
        /\ \A j \in 1..Len(issues) : issues'[j].st \in {"resolved", issues[j].st}
    BY <1>0, ResolvesTypes DEF SameFixes
  <1>2. /\ \A k \in Threads : thread'[k].pc \in {"open", "append", "assign", "spawn", "note"} => thread'[k] = thread[k]
        /\ \A k \in Threads : thread[k].pc = "note" => thread'[k] = thread[k]
    BY <1>0 DEF OnlyMoves
  <1>3. IssuesAfter
    BY SMTT(30), <1>0, <1>1, <1>2 DEF Feeds, Issues, IssuesAfter, SameFixes
  <1>4. \A t : UnresolvedAfter(t) => Unresolved(t)
    BY <1>1 DEF Unresolved, UnresolvedAfter, SameFixes
  <1>5. BlockersAfter
    BY <1>0, <1>1, <1>2, <1>4 DEF Feeds, OneBlocker, BlockersAfter, SameFixes
  <1>6. /\ \A j \in 1..Len(issues) : Verified(j) => WillBeVerified(j)
        /\ \A j \in 1..Len(issues) : WillBeOnce(j) => Once(j)
    BY <1>0, <1>1, <1>2 DEF Verified, WillBeVerified, Once, WillBeOnce, SameFixes
  <1>7. Reverifies
    BY SMTT(30), <1>0, <1>1, <1>2, <1>6 DEF Feeds, OneReverification, Reverifies, SameFixes, SameVerifies
  <1> QED BY <1>3, <1>5, <1>7, FeedsAfter

\* A task that completed a fix goes on to create the re-verification of an issue
\* that has none.
LEMMA CompletedFeeds ==
  ASSUME Part1, Frame, Feeds, NEW t \in Ids, Completed(t)
  PROVE  Feeds'
  <1>0. /\ Typed /\ Users \subseteq Threads /\ Ids \subseteq Threads /\ Users \cap Ids = {} /\ 0 \notin Ids
        /\ Len(issues) \in Nat /\ 0 \notin 1..Len(issues) /\ thread[t] \in ThreadType
        /\ \A k \in Threads : thread[k].pc \in {"assign", "spawn", "note"} => thread[k].iss \in 1..Len(issues)
    BY Situation
  <1>1. /\ UNCHANGED tasks /\ SameVerifies /\ thread[t].pc = "completed" /\ t \in Threads
        /\ "dependents" \in Places
    BY <1>0 DEF Completed, At, SameVerifies, Places
  <1>2. CASE Go(t, "dependents") /\ UNCHANGED issues
    <2>1. OnlyMoves(t) /\ thread'[t].pc = "dependents"
      BY <1>0, <1>1, <1>2, GoesTo
    <2>2. Neutral
      BY <1>1, <1>2, <2>1, Elsewhere, NeutralMove DEF SameVerifies
    <2>3. req.st = "gone" => req'.st = "gone"
      BY <1>0 DEF Completed, Put, Resolves, Typed, ReqType
    <2> QED BY <2>2, <2>3, NeutralKeeps
  <1>3. CASE Resolves(FirstOf(VerifiedBy(t))) /\ Go(t, "dependents") /\ VerifiedBy(t) # {}
    <2>1. OnlyMoves(t) /\ thread'[t].pc = "dependents"
      BY <1>0, <1>1, <1>3, GoesTo
    <2>2. FirstOf(VerifiedBy(t)) \in 1..Len(issues)
      <3>1. VerifiedBy(t) \subseteq 1..Len(issues) /\ VerifiedBy(t) \in SUBSET Nat
        BY <1>0 DEF VerifiedBy
      <3> QED BY <1>3, <3>1, FirstIsThere
    <2> QED BY <1>1, <1>3, <2>1, <2>2, ResolvedFeeds
  <1>4. CASE /\ req.st # "gone" /\ FixedBy(t) # {} /\ UNCHANGED <<req, issues>>
             /\ thread' = [thread EXCEPT ![t].pc = "spawn", ![t].iss = FirstOf(FixedBy(t))]
    <2> DEFINE i == FirstOf(FixedBy(t))
               d == [thread[t] EXCEPT !.pc = "spawn", !.iss = i]
    <2>1. i \in FixedBy(t)
      <3>1. FixedBy(t) \in SUBSET Nat
        BY <1>0 DEF FixedBy
      <3> QED BY <1>4, <3>1, FirstIsThere
    <2>2. i \in 1..Len(issues) /\ issues[i].fix = t /\ issues[i].reverify = 0
      BY <2>1 DEF FixedBy
    <2>3. d.pc = "spawn" /\ d.iss = i
      BY <1>0 DEF ThreadType
    <2>4. thread' = [thread EXCEPT ![t] = d]
      BY <1>4
    <2> HIDE DEF d, i
    <2>5. thread'[t].pc = "spawn" /\ thread'[t].iss = i /\ \A k \in Threads \ {t} : thread'[k] = thread[k]
      BY <1>0, <1>1, <2>3, <2>4, FieldsMove DEF OnlyMoves
    <2>6. IssuesAfter
      BY <1>0, <1>4, <2>5 DEF Feeds, Issues, IssuesAfter
    <2>7. \A o : UnresolvedAfter(o) <=> Unresolved(o)
      BY <1>4 DEF Unresolved, UnresolvedAfter
    <2>8. BlockersAfter
      BY <1>0, <1>4, <2>5, <2>7 DEF Feeds, OneBlocker, BlockersAfter
    <2>9. /\ \A j \in 1..Len(issues) : Verified(j) => WillBeVerified(j)
          /\ \A j : WillBeOnce(j) <=> Once(j)
      BY <1>0, <1>1, <1>4, <2>5 DEF Verified, WillBeVerified, Once, WillBeOnce
    <2>10. \A o \in Ids : Once(i) => tasks[o].verifies # i
      BY <1>0, <1>1, <1>4, <2>2 DEF Feeds, OneReverification, Verified
    <2>11. ASSUME NEW x \in Ids, thread'[x].pc \in {"spawn", "note"}
           PROVE  /\ issues'[thread'[x].iss].fix \in Ids
                  /\ WillBeOnce(thread'[x].iss) => issues'[thread'[x].iss].fix = x /\ issues'[thread'[x].iss].reverify = 0
      <3>1. CASE x = t
        BY <1>4, <2>2, <2>5, <3>1
      <3>2. CASE x # t
        <4>1. x \in Threads /\ thread'[x] = thread[x]
          BY <1>0, <2>5, <3>2
        <4> QED BY <1>4, <2>9, <2>11, <4>1 DEF Feeds, OneReverification
      <3> QED BY <3>1, <3>2
    <2>12. ASSUME NEW x \in Ids, NEW o \in Ids, thread'[x].pc = "spawn", WillBeOnce(thread'[x].iss)
           PROVE  tasks'[o].verifies # thread'[x].iss
      <3>1. CASE x = t
        BY <1>1, <2>5, <2>9, <2>10, <2>12, <3>1
      <3>2. CASE x # t
        <4>1. x \in Threads /\ thread'[x] = thread[x]
          BY <1>0, <2>5, <3>2
        <4> QED BY <1>1, <2>9, <2>12, <4>1 DEF Feeds, OneReverification
      <3> QED BY <3>1, <3>2
    <2>13. \A x \in Ids : tasks'[x].verifies # 0 =>
              tasks'[x].verifies \in 1..Len(issues') /\ (WillBeOnce(tasks'[x].verifies) => WillBeVerified(tasks'[x].verifies))
      BY <1>1, <1>4, <2>9 DEF Feeds, OneReverification
    <2>14. \A x, o \in Ids : tasks'[x].verifies # 0 /\ tasks'[x].verifies = tasks'[o].verifies
                             /\ WillBeOnce(tasks'[x].verifies) => x = o
      BY <1>1, <2>9 DEF Feeds, OneReverification
    <2>15. Reverifies
      BY <2>11, <2>12, <2>13, <2>14 DEF Reverifies
    <2> QED BY <2>6, <2>8, <2>15, FeedsAfter
  <1> QED BY <1>2, <1>3, <1>4 DEF Completed

\* It creates it, and has it in hand until it is noted.
LEMMA SpawnFeeds ==
  ASSUME Part1, Frame, Feeds, NEW t \in Ids, Spawn(t)
  PROVE  Feeds'
  <1>0. /\ Typed /\ Users \subseteq Threads /\ Ids \subseteq Threads /\ Users \cap Ids = {} /\ 0 \notin Ids
        /\ Len(issues) \in Nat /\ 0 \notin 1..Len(issues) /\ thread[t] \in ThreadType
        /\ \A k \in Threads : thread[k].pc \in {"assign", "spawn", "note"} => thread[k].iss \in 1..Len(issues)
    BY Situation
  <1>1. UNCHANGED <<req, issues>> /\ t \in Threads /\ thread[t].pc = "spawn" /\ "dependents" \in Places
    BY <1>0 DEF Spawn, At, Places
  <1>2. CASE Go(t, "dependents") /\ UNCHANGED tasks
    <2>1. OnlyMoves(t) /\ thread'[t].pc = "dependents"
      BY <1>0, <1>1, <1>2, GoesTo
    <2> QED BY <1>1, <1>2, <2>1, Elsewhere, NeutralMove, NeutralKeeps
  <1>3. CASE tasks' # tasks
    <2> DEFINE f == FirstOf(Free)
               i == thread[t].iss
    <2>1. /\ Adds(f) /\ tasks'[f].verifies = i
          /\ OnlyMoves(t) /\ thread'[t].pc = "note" /\ thread'[t].iss = i
      BY <1>3, SpawnEffect DEF Shifts
    <2>2. i \in 1..Len(issues) /\ i # 0
      BY <1>0, <1>1
    <2>3. f \in Ids
      BY <2>1 DEF Adds, Free
    <2> HIDE DEF f, i
    <2>4. /\ \A o \in Ids \ {f} : tasks'[o].verifies = tasks[o].verifies
          /\ \A k \in Threads \ {t} : thread'[k] = thread[k]
      BY <2>1 DEF Adds, OnlyMoves
    <2>5. IssuesAfter
      BY <1>0, <1>1, <2>1, <2>4 DEF Feeds, Issues, IssuesAfter
    <2>6. \A o : UnresolvedAfter(o) <=> Unresolved(o)
      BY <1>1 DEF Unresolved, UnresolvedAfter
    <2>7. BlockersAfter
      BY <1>0, <1>1, <2>1, <2>4, <2>6 DEF Feeds, OneBlocker, BlockersAfter
    <2>8. /\ issues[i].fix \in Ids
          /\ Once(i) => issues[i].fix = t /\ issues[i].reverify = 0
          /\ \A o \in Ids : Once(i) => tasks[o].verifies # i
      BY <1>0, <1>1 DEF Feeds, OneReverification, i
    <2>9. /\ \A j \in 1..Len(issues) : Verified(j) => WillBeVerified(j)
          /\ \A j : WillBeOnce(j) <=> Once(j)
          /\ Once(i) => WillBeVerified(i)
      BY <1>0, <1>1, <2>1, <2>4, <2>8 DEF Verified, WillBeVerified, Once, WillBeOnce
    <2>10. ASSUME NEW x \in Ids, tasks'[x].verifies # 0
           PROVE  tasks'[x].verifies \in 1..Len(issues') /\ (WillBeOnce(tasks'[x].verifies) => WillBeVerified(tasks'[x].verifies))
      <3>1. CASE x = f
        BY <1>1, <2>1, <2>2, <2>9, <3>1
      <3>2. CASE x # f
        BY <1>1, <2>4, <2>9, <2>10, <3>2 DEF Feeds, OneReverification
      <3> QED BY <3>1, <3>2
    <2>11. ASSUME NEW x \in Ids, thread'[x].pc \in {"spawn", "note"}
           PROVE  /\ issues'[thread'[x].iss].fix \in Ids
                  /\ WillBeOnce(thread'[x].iss) => issues'[thread'[x].iss].fix = x /\ issues'[thread'[x].iss].reverify = 0
      <3>1. CASE x = t
        BY <1>1, <2>1, <2>8, <2>9, <3>1
      <3>2. CASE x # t
        BY <1>0, <1>1, <2>4, <2>9, <2>11, <3>2 DEF Feeds, OneReverification
      <3> QED BY <3>1, <3>2
    <2>12. ASSUME NEW x \in Ids, NEW o \in Ids, thread'[x].pc = "spawn", WillBeOnce(thread'[x].iss)
           PROVE  tasks'[o].verifies # thread'[x].iss
      <3>1. x # t /\ thread'[x] = thread[x] /\ thread[x].pc = "spawn" /\ Once(thread[x].iss)
        BY <1>0, <2>1, <2>4, <2>9, <2>12
      <3>2. thread[x].iss # i
        BY <2>8, <3>1 DEF Feeds, OneReverification
      <3>3. CASE o = f
        BY <2>1, <3>1, <3>2, <3>3
      <3>4. CASE o # f
        BY <2>4, <3>1, <3>4 DEF Feeds, OneReverification
      <3> QED BY <3>3, <3>4
    <2>13. ASSUME NEW x \in Ids, NEW o \in Ids, tasks'[x].verifies # 0, tasks'[x].verifies = tasks'[o].verifies,
                  WillBeOnce(tasks'[x].verifies)
           PROVE  x = o
      <3>1. x # f /\ o # f => x = o
        BY <2>4, <2>9, <2>13 DEF Feeds, OneReverification
      <3>2. x = f => o = f
        BY <2>1, <2>4, <2>8, <2>9, <2>13
      <3>3. o = f => x = f
        BY <2>1, <2>4, <2>8, <2>9, <2>13
      <3> QED BY <3>1, <3>2, <3>3
    <2>14. Reverifies
      BY <2>10, <2>11, <2>12, <2>13 DEF Reverifies
    <2> QED BY <2>5, <2>7, <2>14, FeedsAfter
  <1>4. CASE Creates(t, [NoTask EXCEPT !.st = "planned", !.role = "test", !.deps = {t}, !.verifies = thread[t].iss], "note")
    <2> DEFINE f == FirstOf(Free)
               new == [NoTask EXCEPT !.st = "planned", !.role = "test", !.deps = {t}, !.verifies = thread[t].iss]
    <2>1. tasks' = [tasks EXCEPT ![f] = new] /\ f \in Ids /\ tasks[f].st = "none"
      BY <1>4, FirstTask DEF Creates, Free
    <2>2. new.st = "planned"
      BY DEF NoTask
    <2> HIDE DEF new, f
    <2> QED BY <1>0, <1>3, <2>1, <2>2 DEF Typed
  <1> QED BY <1>2, <1>3, <1>4 DEF Spawn

\* It notes it, unless the requirement is gone.
LEMMA NoteFeeds ==
  ASSUME Part1, Frame, Feeds, NEW t \in Ids, Note(t)
  PROVE  Feeds'
  <1>0. /\ Typed /\ Users \subseteq Threads /\ Ids \subseteq Threads /\ Users \cap Ids = {} /\ 0 \notin Ids
        /\ Len(issues) \in Nat /\ 0 \notin 1..Len(issues) /\ thread[t] \in ThreadType
        /\ \A j \in 1..Len(issues) : issues[j] \in IssueType
        /\ \A k \in Threads : thread[k].pc \in {"assign", "spawn", "note"} => thread[k].iss \in 1..Len(issues)
    BY Situation
  <1> DEFINE i == thread[t].iss
             new == [issues[i] EXCEPT !.reverify = thread[t].cur]
  <1>1. /\ UNCHANGED <<req, tasks>> /\ t \in Threads /\ thread[t].pc = "note" /\ i \in 1..Len(issues)
        /\ thread[t].cur \in Ids
    BY <1>0 DEF Note, At, Part1, Roles
  <1>2. OnlyMoves(t) /\ thread'[t].pc = "dependents"
    <2>1. "dependents" \in Places /\ Go(t, "dependents")
      BY DEF Places, Note
    <2> QED BY <1>0, <1>1, <2>1, GoesTo
  <1>3. new \in IssueType /\ new.st = issues[i].st /\ new.fix = issues[i].fix /\ new.reverify = thread[t].cur
        /\ new.auto = issues[i].auto /\ new.source = issues[i].source
    BY <1>0, <1>1 DEF IssueType
  <1>4. issues' = IF req.st = "gone" THEN issues ELSE [issues EXCEPT ![i] = new]
    BY DEF Note
  <1>5. /\ issues[i].fix \in Ids /\ (Once(i) => issues[i].fix = t)
    BY <1>0, <1>1 DEF Feeds, OneReverification
  <1>6. \A k \in Threads \ {t} : thread'[k] = thread[k]
    BY <1>2 DEF OnlyMoves
  <1> HIDE DEF new, i
  <1>7. /\ Len(issues') = Len(issues)
        /\ \A j \in 1..Len(issues) :
              /\ issues'[j].st = issues[j].st /\ issues'[j].fix = issues[j].fix
              /\ issues'[j].auto = issues[j].auto /\ issues'[j].source = issues[j].source
              /\ issues'[j].reverify = IF j = i /\ req.st # "gone" THEN thread[t].cur ELSE issues[j].reverify
    BY <1>0, <1>1, <1>3, <1>4, IssueUpdates
  <1>8. IssuesAfter
    BY SMTT(30), <1>0, <1>1, <1>2, <1>5, <1>6, <1>7 DEF Feeds, Issues, IssuesAfter
  <1>9. \A o : UnresolvedAfter(o) => Unresolved(o)
    BY <1>7 DEF Unresolved, UnresolvedAfter
  <1>10. BlockersAfter
    BY <1>0, <1>2, <1>6, <1>7, <1>9 DEF Feeds, OneBlocker, BlockersAfter
  <1>11. /\ \A j \in 1..Len(issues) : WillBeOnce(j) <=> Once(j)
         /\ \A j \in 1..Len(issues) : Verified(j) => WillBeVerified(j)
    <2>1. \A j \in 1..Len(issues) : WillBeOnce(j) <=> Once(j)
      BY <1>7 DEF Once, WillBeOnce
    <2>2. ASSUME NEW j \in 1..Len(issues), Verified(j) PROVE WillBeVerified(j)
      <3>1. CASE issues[j].reverify # 0 \/ req.st = "gone"
        BY <1>0, <1>1, <1>7, <3>1 DEF WillBeVerified
      <3>2. CASE issues[j].fix \in Ids /\ thread[issues[j].fix].pc = "note" /\ thread[issues[j].fix].iss = j
                 /\ req.st # "gone"
        <4>1. CASE issues[j].fix = t
          <5>1. j = i
            BY <3>2, <4>1 DEF i
          <5> QED BY <1>0, <1>1, <1>7, <3>2, <5>1 DEF WillBeVerified
        <4>2. CASE issues[j].fix # t
          BY <1>0, <1>6, <1>7, <3>2, <4>2 DEF WillBeVerified
        <4> QED BY <4>1, <4>2
      <3> QED BY <2>2, <3>1, <3>2 DEF Verified
    <2> QED BY <2>1, <2>2
  <1>12. ASSUME NEW x \in Ids, thread'[x].pc \in {"spawn", "note"}
         PROVE  /\ issues'[thread'[x].iss].fix \in Ids
                /\ WillBeOnce(thread'[x].iss) => issues'[thread'[x].iss].fix = x /\ issues'[thread'[x].iss].reverify = 0
    <2>1. x # t /\ thread'[x] = thread[x] /\ thread[x].iss \in 1..Len(issues)
      BY <1>0, <1>2, <1>6, <1>12
    <2>2. /\ issues[thread[x].iss].fix \in Ids
          /\ Once(thread[x].iss) => issues[thread[x].iss].fix = x /\ issues[thread[x].iss].reverify = 0
      BY <1>12, <2>1 DEF Feeds, OneReverification
    <2>3. Once(thread[x].iss) => thread[x].iss # i
      BY <1>5, <2>1, <2>2
    <2> QED BY <1>7, <1>11, <2>1, <2>2, <2>3
  <1>13. ASSUME NEW x \in Ids, tasks'[x].verifies # 0
         PROVE  tasks'[x].verifies \in 1..Len(issues') /\ (WillBeOnce(tasks'[x].verifies) => WillBeVerified(tasks'[x].verifies))
    <2>1. /\ tasks[x].verifies \in 1..Len(issues) /\ tasks'[x].verifies = tasks[x].verifies
          /\ Once(tasks[x].verifies) => Verified(tasks[x].verifies)
      BY <1>1, <1>13 DEF Feeds, OneReverification
    <2> QED BY <1>7, <1>11, <2>1
  <1>14. ASSUME NEW x \in Ids, NEW o \in Ids, thread'[x].pc = "spawn", WillBeOnce(thread'[x].iss)
         PROVE  tasks'[o].verifies # thread'[x].iss
    <2>1. thread'[x] = thread[x] /\ thread[x].pc = "spawn" /\ thread[x].iss \in 1..Len(issues)
      BY <1>0, <1>2, <1>6, <1>14
    <2>2. Once(thread[x].iss)
      BY <1>11, <1>14, <2>1
    <2> QED BY <1>1, <2>1, <2>2 DEF Feeds, OneReverification
  <1>15. ASSUME NEW x \in Ids, NEW o \in Ids, tasks'[x].verifies # 0, tasks'[x].verifies = tasks'[o].verifies,
                WillBeOnce(tasks'[x].verifies)
         PROVE  x = o
    <2>1. tasks'[x].verifies \in 1..Len(issues) /\ tasks' = tasks
      BY <1>1, <1>7, <1>13, <1>15
    <2>2. Once(tasks[x].verifies)
      BY <1>11, <1>15, <2>1
    <2> QED BY <1>15, <2>1, <2>2 DEF Feeds, OneReverification
  <1>16. Reverifies
    BY <1>12, <1>13, <1>14, <1>15 DEF Reverifies
  <1> QED BY <1>8, <1>10, <1>16, FeedsAfter

\* A test that fails with no unresolved issue of the runner opens one.
LEMMA FailedFeeds ==
  ASSUME Part1, Frame, Feeds, NEW t \in Ids, Failed(t)
  PROVE  Feeds'
  <1>0. /\ Typed /\ Users \subseteq Threads /\ Ids \subseteq Threads /\ Users \cap Ids = {}
        /\ \A k \in Threads : thread[k].pc \in {"assign", "spawn", "note"} => thread[k].iss \in 1..Len(issues)
    BY Situation
  <1>1. UNCHANGED <<req, tasks, issues>> /\ t \in Threads /\ thread[t].pc = "failed"
    BY <1>0 DEF Failed, At
  <1>2. CASE End(t)
    <2>1. OnlyMoves(t) /\ thread'[t].pc = "idle"
      BY <1>0, <1>1, <1>2, FieldsMove, QuietIs DEF End
    <2> QED BY <1>1, <2>1, Elsewhere, NeutralMove, NeutralKeeps
  <1>3. CASE ~Reported(t) /\ Begin(t, [Quiet EXCEPT !.pc = "open", !.blocker = TRUE, !.source = t])
    <2> DEFINE d == [Quiet EXCEPT !.pc = "open", !.blocker = TRUE, !.source = t]
    <2>1. d.pc = "open" /\ d.blocker /\ d.source = t
      BY DEF Quiet
    <2>2. thread' = [thread EXCEPT ![t] = d]
      BY <1>3 DEF Begin
    <2> HIDE DEF d
    <2>3. /\ thread'[t].pc = "open" /\ thread'[t].blocker /\ thread'[t].source = t
          /\ \A k \in Threads \ {t} : thread'[k] = thread[k]
      BY ZenonT(60), <1>0, <1>1, <2>1, <2>2, FieldsMove DEF OnlyMoves
    <2>4. IssuesAfter
      BY <1>0, <1>1, <2>3 DEF Feeds, Issues, IssuesAfter
    <2>5. \A o : UnresolvedAfter(o) <=> Unresolved(o)
      BY <1>1 DEF Unresolved, UnresolvedAfter
    <2>6. ~Unresolved(t)
      BY <1>3 DEF Reported, Unresolved
    <2>7. BlockersAfter
      BY <1>0, <1>1, <2>3, <2>5, <2>6 DEF Feeds, OneBlocker, BlockersAfter
    <2>8. /\ \A j : WillBeOnce(j) <=> Once(j)
          /\ \A j : Verified(j) => WillBeVerified(j)
      BY <1>0, <1>1, <2>3 DEF Once, WillBeOnce, Verified, WillBeVerified
    <2>9. \A x \in Ids : thread'[x].pc \in {"spawn", "note"} => thread'[x] = thread[x]
      BY <1>0, <2>3
    <2>10. Reverifies
      BY <1>0, <1>1, <2>8, <2>9 DEF Feeds, OneReverification, Reverifies
    <2> QED BY <2>4, <2>7, <2>10, FeedsAfter
  <1> QED BY <1>2, <1>3 DEF Failed

\* The look at the requirement, and the fix: the issue is still to come.
LEMMA OpenFeeds ==
  ASSUME Part1, Frame, Feeds, NEW t \in Ids, Open(t)
  PROVE  Feeds'
  <1>0. /\ Typed /\ Users \subseteq Threads /\ Ids \subseteq Threads /\ Users \cap Ids = {}
        /\ \A k \in Threads : thread[k].pc \in {"assign", "spawn", "note"} => thread[k].iss \in 1..Len(issues)
        /\ thread[t] \in ThreadType
    BY Situation
  <1>1. UNCHANGED <<req, issues>> /\ t \in Threads /\ thread[t].pc = "open"
    BY <1>0 DEF Open, At
  <1>2. CASE End(t) /\ UNCHANGED tasks
    <2>1. OnlyMoves(t) /\ thread'[t].pc = "idle"
      BY <1>0, <1>1, <1>2, FieldsMove, QuietIs DEF End
    <2> QED BY <1>1, <1>2, <2>1, Elsewhere, NeutralMove, NeutralKeeps
  <1>3. ASSUME /\ OnlyMoves(t) /\ thread'[t].pc = "append"
               /\ thread'[t].source = thread[t].source /\ thread'[t].blocker = thread[t].blocker, SameVerifies
        PROVE  Feeds'
    <2>1. \A k \in Threads \ {t} : thread'[k] = thread[k]
      BY <1>3 DEF OnlyMoves
    <2>2. IssuesAfter
      BY <1>0, <1>1, <1>3, <2>1 DEF Feeds, Issues, IssuesAfter
    <2>3. \A o : UnresolvedAfter(o) <=> Unresolved(o)
      BY <1>1 DEF Unresolved, UnresolvedAfter
    <2>4. BlockersAfter
      BY <1>0, <1>1, <1>3, <2>1, <2>3 DEF Feeds, OneBlocker, BlockersAfter
    <2>5. /\ \A j : WillBeOnce(j) <=> Once(j)
          /\ \A j : Verified(j) => WillBeVerified(j)
      BY <1>0, <1>1, <2>1 DEF Once, WillBeOnce, Verified, WillBeVerified
    <2>6. \A x \in Ids : thread'[x].pc \in {"spawn", "note"} => thread'[x] = thread[x]
      BY <1>0, <1>3, <2>1
    <2>7. Reverifies
      BY <1>0, <1>1, <1>3, <2>5, <2>6 DEF Feeds, OneReverification, Reverifies, SameVerifies
    <2> QED BY <2>2, <2>4, <2>7, FeedsAfter
  <1>4. CASE tasks' # tasks
    <2>1. /\ Adds(FirstOf(Free)) /\ tasks'[FirstOf(Free)] = Fix /\ Shifts(t, "open", {"append"})
          /\ thread'[t].source = thread[t].source /\ thread'[t].blocker = thread[t].blocker
      BY <1>1, <1>4, OpenEffect
    <2>2. FirstOf(Free) \in Ids /\ Fix.verifies = 0
      BY <2>1 DEF Adds, Free, Fix, NoTask
    <2>3. SameVerifies
      BY <2>1, <2>2, AddVerifies DEF SameVerifies
    <2> QED BY <1>3, <2>1, <2>3 DEF Shifts
  <1>5. CASE Go(t, "append") /\ UNCHANGED tasks
    <2>1. "append" \in Places
      BY DEF Places
    <2>2. /\ thread'[t].pc = "append" /\ Moves(t, At1(thread[t], "append"))
          /\ thread'[t].source = thread[t].source /\ thread'[t].blocker = thread[t].blocker
      BY <1>0, <1>1, <1>5, <2>1, GoMoves
    <2> QED BY <1>3, <1>5, <2>2 DEF OnlyMoves, Moves, SameVerifies
  <1>6. CASE Creates(t, Fix, "append") /\ tasks' = tasks
    <2>1. tasks' = [tasks EXCEPT ![FirstOf(Free)] = Fix] /\ FirstOf(Free) \in Ids /\ tasks[FirstOf(Free)].st = "none"
      BY <1>6, FirstTask DEF Creates, Free
    <2>2. Fix.st = "planned"
      BY DEF Fix, NoTask
    <2> QED BY <1>0, <1>6, <2>1, <2>2 DEF Typed
  <1> QED BY <1>2, <1>4, <1>5, <1>6 DEF Open

\* The issue is appended: one of the runner is the only unresolved one of its test.
LEMMA OpenedFeeds ==
  ASSUME Part1, Frame, Feeds, NEW k \in Threads, Opened(k)
  PROVE  Feeds'
  <1>0. /\ Typed /\ Users \subseteq Threads /\ Ids \subseteq Threads /\ Users \cap Ids = {}
        /\ Len(issues) \in Nat /\ thread[k] \in ThreadType
        /\ \A o \in Threads : thread[o].pc \in {"assign", "spawn", "note"} => thread[o].iss \in 1..Len(issues)
    BY Situation
  <1> DEFINE d == thread[k]
             new == [st |-> OpenStatus(d.blocker), source |-> d.source, fix |-> d.cur, reverify |-> 0, auto |-> k \in Ids]
  <1>1. UNCHANGED tasks /\ SameVerifies /\ d.pc = "append"
    BY DEF Opened, At, SameVerifies
  <1>2. OnlyMoves(k) /\ thread'[k].pc \in {"idle", "ready"}
    <2>1. CASE Go(k, "ready")
      <3>1. "ready" \in Places
        BY DEF Places
      <3> QED BY <1>0, <2>1, <3>1, GoesTo
    <2>2. CASE End(k)
      BY <1>0, <2>2, FieldsMove, QuietIs DEF End
    <2> QED BY <2>1, <2>2 DEF Opened
  <1>3. req.st = "gone" => req'.st = "gone"
    BY DEF Opened, Put
  <1>4. CASE issues' = issues
    BY <1>1, <1>2, <1>3, <1>4, Elsewhere, NeutralMove, NeutralKeeps DEF SameVerifies
  <1>5. CASE Len(issues) # MaxIssues /\ issues' = Append(issues, new)
    <2> DEFINE n == Len(issues) + 1
    <2>1. new \in IssueType
      <3>1. d.blocker => d.cur \in Ids
        BY <1>1 DEF Part1, Roles
      <3> QED BY <1>0, <3>1 DEF IssueType, ThreadType, OpenStatus
    <2>2. /\ new.st = OpenStatus(d.blocker) /\ new.source = d.source /\ new.reverify = 0 /\ new.auto = (k \in Ids)
      OBVIOUS
    <2> HIDE DEF new
    <2>3. /\ Len(issues') = n /\ \A i \in 1..Len(issues) : issues'[i] = issues[i]
          /\ issues'[n] = new
      BY <1>0, <1>5, <2>1, IssueAppends
    <2>4. 1..Len(issues') = 1..Len(issues) \cup {n} /\ n \notin 1..Len(issues)
      BY <1>0, <2>3
    <2>5. /\ \A o \in Threads \ {k} : thread'[o] = thread[o]
          /\ \A o \in Threads : thread'[o].pc \in {"open", "append", "assign", "spawn", "note"} => o # k /\ thread'[o] = thread[o]
      BY <1>2 DEF OnlyMoves
    <2>6. k \in Ids => d.source = k /\ d.blocker /\ ~Unresolved(k)
      BY <1>1 DEF Feeds, OneBlocker
    <2> HIDE DEF n, d
    <2>7. IssuesAfter
      <3>1. ASSUME NEW i \in 1..Len(issues')
            PROVE  /\ issues'[i].auto => issues'[i].st # "open"
                   /\ issues'[i].fix = 0 => issues'[i].reverify = 0
        BY <2>2, <2>3, <2>4, <2>6, <3>1 DEF Feeds, Issues, OpenStatus
      <3>2. ASSUME NEW u \in Users, thread'[u].pc = "assign"
            PROVE  ~issues'[thread'[u].iss].auto
        BY <1>0, <2>3, <2>5, <3>2 DEF Feeds, Issues
      <3> QED BY <3>1, <3>2 DEF IssuesAfter
    <2>8. BlockersAfter
      <3>1. ASSUME NEW t, t # k \/ k \notin Ids, UnresolvedAfter(t) PROVE Unresolved(t)
        <4>1. PICK i \in 1..Len(issues') : issues'[i].auto /\ issues'[i].source = t /\ issues'[i].st # "resolved"
          BY <3>1 DEF UnresolvedAfter
        <4>2. i # n
          BY <2>2, <2>3, <2>6, <3>1, <4>1
        <4> QED BY <2>3, <2>4, <4>1, <4>2 DEF Unresolved
      <3>2. ASSUME NEW t \in Ids, thread'[t].pc \in {"open", "append"}
            PROVE  thread'[t].source = t /\ thread'[t].blocker /\ ~UnresolvedAfter(t)
        BY <1>0, <2>5, <3>1, <3>2 DEF Feeds, OneBlocker
      <3>3. ASSUME NEW i \in 1..Len(issues), issues[i].auto, new.auto, issues[i].source = new.source
            PROVE  issues[i].st = "resolved"
        BY <2>2, <2>6, <3>3 DEF Unresolved
      <3>4. ASSUME NEW i \in 1..Len(issues'), NEW j \in 1..Len(issues'), i # j, issues'[i].auto, issues'[j].auto,
                   issues'[i].source = issues'[j].source
            PROVE  "resolved" \in {issues'[i].st, issues'[j].st}
        <4>1. CASE i # n /\ j # n
          BY <2>3, <2>4, <3>4, <4>1 DEF Feeds, OneBlocker
        <4>2. CASE i = n
          BY <2>3, <2>4, <3>3, <3>4, <4>2
        <4>3. CASE j = n
          BY <2>3, <2>4, <3>3, <3>4, <4>3
        <4> QED BY <4>1, <4>2, <4>3
      <3> QED BY <3>2, <3>4 DEF BlockersAfter
    <2>9. /\ \A j \in 1..Len(issues) : WillBeOnce(j) <=> Once(j)
          /\ \A j \in 1..Len(issues) : Verified(j) => WillBeVerified(j)
      <3>1. \A o \in Ids : thread[o].pc = "note" => thread'[o] = thread[o]
        BY <1>0, <1>1, <2>5 DEF d
      <3> QED BY <1>3, <2>3, <3>1 DEF Once, WillBeOnce, Verified, WillBeVerified
    <2>10. ASSUME NEW x \in Ids, tasks'[x].verifies # 0
           PROVE  tasks'[x].verifies \in 1..Len(issues') /\ (WillBeOnce(tasks'[x].verifies) => WillBeVerified(tasks'[x].verifies))
      <3>1. /\ tasks[x].verifies \in 1..Len(issues) /\ tasks'[x].verifies = tasks[x].verifies
            /\ Once(tasks[x].verifies) => Verified(tasks[x].verifies)
        BY <1>1, <2>10 DEF Feeds, OneReverification
      <3> QED BY <2>4, <2>9, <3>1
    <2>11. ASSUME NEW x \in Ids, thread'[x].pc \in {"spawn", "note"}
           PROVE  /\ issues'[thread'[x].iss].fix \in Ids
                  /\ WillBeOnce(thread'[x].iss) => issues'[thread'[x].iss].fix = x /\ issues'[thread'[x].iss].reverify = 0
      <3>1. x \in Threads /\ thread'[x] = thread[x] /\ thread[x].iss \in 1..Len(issues)
        BY <1>0, <2>5, <2>11
      <3> QED BY <2>3, <2>9, <2>11, <3>1 DEF Feeds, OneReverification
    <2>12. ASSUME NEW x \in Ids, NEW o \in Ids, thread'[x].pc = "spawn", WillBeOnce(thread'[x].iss)
           PROVE  tasks'[o].verifies # thread'[x].iss
      <3>1. x \in Threads /\ thread'[x] = thread[x] /\ thread[x].iss \in 1..Len(issues)
        BY <1>0, <2>5, <2>12
      <3> QED BY <1>1, <2>9, <2>12, <3>1 DEF Feeds, OneReverification
    <2>13. ASSUME NEW x \in Ids, NEW o \in Ids, tasks'[x].verifies # 0, tasks'[x].verifies = tasks'[o].verifies,
                  WillBeOnce(tasks'[x].verifies)
           PROVE  x = o
      <3>1. tasks[x].verifies \in 1..Len(issues) /\ tasks' = tasks
        BY <1>1, <2>13 DEF Feeds, OneReverification
      <3> QED BY <2>9, <2>13, <3>1 DEF Feeds, OneReverification
    <2>14. Reverifies
      BY <2>10, <2>11, <2>12, <2>13 DEF Reverifies
    <2> QED BY <2>7, <2>8, <2>14, FeedsAfter
  <1> QED BY <1>4, <1>5 DEF Opened

\* A user's look at the issue and his fix, and the update that does not look again.
LEMMA ConfirmFeeds ==
  ASSUME Part1, Frame, Feeds, NEW u \in Users, NEW i \in 1..Len(issues), ConfirmFix(u, i)
  PROVE  Feeds'
  <1>0. /\ Typed /\ Users \subseteq Threads /\ Ids \subseteq Threads /\ Users \cap Ids = {}
    BY Situation
  <1>1. UNCHANGED <<req, issues>> /\ issues[i].st = "open" /\ issues[i].fix = 0
    BY DEF ConfirmFix
  <1>2. /\ Adds(FirstOf(Free)) /\ tasks'[FirstOf(Free)] = Fix
        /\ thread[u].pc = "idle" /\ thread'[u].pc = "assign" /\ thread'[u].iss = i
        /\ \A k \in Threads \ {u} : thread'[k] = thread[k]
    BY ConfirmFixEffect DEF Shifts, OnlyMoves
  <1>3. SameVerifies
    <2>1. FirstOf(Free) \in Ids /\ Fix.verifies = 0
      BY <1>2 DEF Adds, Free, Fix, NoTask
    <2> QED BY <1>2, <2>1, AddVerifies DEF SameVerifies
  <1>4. \A t \in Ids : t \in Threads /\ thread'[t] = thread[t]
    BY <1>0, <1>2
  <1>5. IssuesAfter
    BY <1>0, <1>1, <1>2 DEF Feeds, Issues, IssuesAfter
  <1>6. \A o : UnresolvedAfter(o) <=> Unresolved(o)
    BY <1>1 DEF Unresolved, UnresolvedAfter
  <1>7. BlockersAfter
    BY <1>1, <1>4, <1>6 DEF Feeds, OneBlocker, BlockersAfter
  <1>8. /\ \A j : WillBeOnce(j) <=> Once(j)
        /\ \A j : Verified(j) => WillBeVerified(j)
    BY <1>1, <1>4 DEF Once, WillBeOnce, Verified, WillBeVerified
  <1>9. Reverifies
    BY <1>1, <1>3, <1>4, <1>8 DEF Feeds, OneReverification, Reverifies, SameVerifies
  <1> QED BY <1>5, <1>7, <1>9, FeedsAfter

LEMMA AssignFeeds ==
  ASSUME Part1, Frame, Feeds, NEW u \in Users, Assign(u)
  PROVE  Feeds'
  <1>0. /\ Typed /\ Users \subseteq Threads /\ Ids \subseteq Threads /\ Users \cap Ids = {} /\ 0 \notin Ids
        /\ Len(issues) \in Nat /\ 0 \notin 1..Len(issues) /\ thread[u] \in ThreadType
        /\ \A j \in 1..Len(issues) : issues[j] \in IssueType
        /\ \A k \in Threads : thread[k].pc \in {"assign", "spawn", "note"} => thread[k].iss \in 1..Len(issues)
    BY Situation
  <1> DEFINE i == thread[u].iss
             new == [issues[i] EXCEPT !.st = "fixing", !.fix = thread[u].cur]
  <1>1. /\ UNCHANGED <<req, tasks>> /\ u \in Threads /\ thread[u].pc = "assign" /\ i \in 1..Len(issues)
        /\ thread[u].cur \in Ids
    BY <1>0 DEF Assign, At, Part1, Roles
  <1>2. OnlyMoves(u) /\ thread'[u].pc = "ready"
    <2>1. "ready" \in Places /\ Go(u, "ready")
      BY DEF Places, Assign
    <2> QED BY <1>0, <1>1, <2>1, GoesTo
  <1>3. new \in IssueType /\ new.st = "fixing" /\ new.fix = thread[u].cur /\ new.reverify = issues[i].reverify
        /\ new.auto = issues[i].auto /\ new.source = issues[i].source
    <2> DEFINE c == thread[u].cur
               old == issues[i]
    <2>1. old \in IssueType /\ c \in Ids /\ new = [old EXCEPT !.st = "fixing", !.fix = c]
      BY <1>0, <1>1
    <2> HIDE DEF c, old, new
    <2>2. new \in IssueType /\ new.st = "fixing" /\ new.fix = c /\ new.reverify = old.reverify
          /\ new.auto = old.auto /\ new.source = old.source
      BY <2>1 DEF IssueType
    <2> QED BY <2>2 DEF c, old
  <1>4. \/ issues' = issues
        \/ req.st # "gone" /\ issues' = [issues EXCEPT ![i] = new]
    <2>1. [issues EXCEPT ![i].st = "fixing", ![i].fix = thread[u].cur] = [issues EXCEPT ![i] = new]
      BY <1>0, <1>1 DEF IssueType, Typed
    <2> QED BY <2>1 DEF Assign
  <1>5. ~issues[i].auto
    BY <1>1 DEF Feeds, Issues
  <1>6. /\ \A k \in Threads \ {u} : thread'[k] = thread[k]
        /\ \A t \in Ids : t \in Threads /\ thread'[t] = thread[t]
    BY <1>0, <1>2 DEF OnlyMoves
  <1>7. CASE issues' = issues
    <2>1. Neutral
      BY <1>1, <1>2, <1>7, Elsewhere, NeutralMove
    <2> QED BY <1>1, <2>1, NeutralKeeps
  <1>8. CASE req.st # "gone" /\ issues' = [issues EXCEPT ![i] = new]
    <2> HIDE DEF new, i
    <2>1. /\ Len(issues') = Len(issues)
          /\ \A j \in 1..Len(issues) : issues'[j] = IF j = i THEN new ELSE issues[j]
      BY <1>0, <1>1, <1>3, <1>8, IssueUpdates
    <2>2. IssuesAfter
      <3>1. ASSUME NEW j \in 1..Len(issues)
            PROVE  /\ issues'[j].auto => issues'[j].st # "open"
                   /\ issues'[j].fix = 0 => issues'[j].reverify = 0
        BY <1>0, <1>1, <1>3, <1>5, <2>1 DEF Feeds, Issues
      <3>2. ASSUME NEW v \in Users, thread'[v].pc = "assign"
            PROVE  ~issues'[thread'[v].iss].auto
        <4>1. v # u /\ v \in Threads /\ thread'[v] = thread[v] /\ thread[v].iss \in 1..Len(issues)
          BY <1>0, <1>2, <1>6, <3>2
        <4>2. ~issues[thread[v].iss].auto
          BY <3>2, <4>1 DEF Feeds, Issues
        <4> QED BY <1>3, <1>5, <2>1, <4>1, <4>2
      <3> QED BY <2>1, <3>1, <3>2 DEF IssuesAfter
    <2>3. ASSUME NEW j \in 1..Len(issues'), issues'[j].auto PROVE j \in 1..Len(issues) /\ issues'[j] = issues[j]
      BY <1>3, <1>5, <2>1, <2>3
    <2>4. \A t : UnresolvedAfter(t) => Unresolved(t)
      BY <2>1, <2>3 DEF Unresolved, UnresolvedAfter
    <2>5. BlockersAfter
      BY <1>6, <2>3, <2>4 DEF Feeds, OneBlocker, BlockersAfter
    <2>6. /\ \A j \in 1..Len(issues) : WillBeOnce(j) => Once(j)
          /\ \A j \in 1..Len(issues) : Once(j) /\ Verified(j) => WillBeVerified(j)
      <3>1. \A j \in 1..Len(issues) : WillBeOnce(j) => Once(j)
        BY <1>3, <2>1 DEF Once, WillBeOnce
      <3>2. ASSUME NEW j \in 1..Len(issues), Once(j), Verified(j) PROVE WillBeVerified(j)
        <4>1. j # i
          BY <1>0, <1>5, <1>8, <3>2 DEF Once, Verified
        <4> QED BY <1>1, <1>6, <2>1, <3>2, <4>1 DEF Verified, WillBeVerified
      <3> QED BY <3>1, <3>2
    <2>7. ASSUME NEW x \in Ids, thread'[x].pc \in {"spawn", "note"}
          PROVE  /\ issues'[thread'[x].iss].fix \in Ids
                 /\ WillBeOnce(thread'[x].iss) => issues'[thread'[x].iss].fix = x /\ issues'[thread'[x].iss].reverify = 0
      <3>1. thread'[x] = thread[x] /\ thread[x].iss \in 1..Len(issues)
        BY <1>0, <1>6, <2>7
      <3>2. /\ issues[thread[x].iss].fix \in Ids
            /\ Once(thread[x].iss) => issues[thread[x].iss].fix = x /\ issues[thread[x].iss].reverify = 0
        BY <2>7, <3>1 DEF Feeds, OneReverification
      <3>3. CASE thread[x].iss # i
        BY <2>1, <2>6, <3>1, <3>2, <3>3
      <3>4. CASE thread[x].iss = i
        <4>1. ~Once(i)
          BY <1>0, <1>5, <3>2, <3>4 DEF Once
        <4> QED BY <1>1, <1>3, <2>1, <2>6, <3>1, <3>4, <4>1
      <3> QED BY <3>3, <3>4
    <2>8. ASSUME NEW x \in Ids, tasks'[x].verifies # 0
          PROVE  tasks'[x].verifies \in 1..Len(issues') /\ (WillBeOnce(tasks'[x].verifies) => WillBeVerified(tasks'[x].verifies))
      <3>1. /\ tasks[x].verifies \in 1..Len(issues) /\ tasks'[x].verifies = tasks[x].verifies
            /\ Once(tasks[x].verifies) => Verified(tasks[x].verifies)
        BY <1>1, <2>8 DEF Feeds, OneReverification
      <3> QED BY <2>1, <2>6, <3>1
    <2>9. ASSUME NEW x \in Ids, NEW o \in Ids, thread'[x].pc = "spawn", WillBeOnce(thread'[x].iss)
          PROVE  tasks'[o].verifies # thread'[x].iss
      <3>1. thread'[x] = thread[x] /\ thread[x].iss \in 1..Len(issues) /\ tasks' = tasks
        BY <1>0, <1>1, <1>6, <2>9
      <3>2. Once(thread[x].iss)
        BY <2>6, <2>9, <3>1
      <3> QED BY <2>9, <3>1, <3>2 DEF Feeds, OneReverification
    <2>10. ASSUME NEW x \in Ids, NEW o \in Ids, tasks'[x].verifies # 0, tasks'[x].verifies = tasks'[o].verifies,
                  WillBeOnce(tasks'[x].verifies)
           PROVE  x = o
      <3>1. tasks[x].verifies \in 1..Len(issues) /\ tasks' = tasks
        BY <1>1, <2>1, <2>8, <2>10
      <3>2. Once(tasks[x].verifies)
        BY <2>6, <2>10, <3>1
      <3> QED BY <2>10, <3>1, <3>2 DEF Feeds, OneReverification
    <2>11. Reverifies
      BY <2>7, <2>8, <2>9, <2>10 DEF Reverifies
    <2> QED BY <2>2, <2>5, <2>11, FeedsAfter
  <1> QED BY <1>4, <1>7, <1>8

LEMMA FeedSteps ==
  ASSUME Part1, Frame, Feeds, Next
  PROVE  Feeds'
  <1>1. CASE NeutralStep
    <2>1. Neutral
      BY <1>1, NeutralSteps
    <2>2. req.st = "gone" => req'.st = "gone"
      BY NextSplits, StaysGone
    <2> QED BY <2>1, <2>2, NeutralKeeps
  <1>2. ASSUME NEW u \in Users, NEW i \in 1..Len(issues), Resolve(u, i) PROVE Feeds'
    <2>1. UNCHANGED <<tasks, thread>> /\ Resolves(i) /\ SameVerifies
      BY <1>2 DEF Resolve, SameVerifies
    <2> QED BY <2>1, ResolvedFeeds
  <1>3. CASE FeedStep
    BY <1>2, <1>3, OpenedFeeds, OpenFeeds, CompletedFeeds, SpawnFeeds, NoteFeeds, FailedFeeds, AssignFeeds, ConfirmFeeds
       DEF FeedStep
  <1> QED BY <1>1, <1>3, NextFeeds

LEMMA InitFeeds == Init => Feeds
  <1> SUFFICES ASSUME Init PROVE Feeds
    OBVIOUS
  <1>1. Len(issues) = 0 /\ 1..Len(issues) = {}
    BY DEF Init
  <1>2. \A k \in Threads : thread[k].pc = "idle"
    BY QuietIs DEF Init
  <1>3. (\A t \in Ids : tasks[t].verifies = 0) /\ Users \subseteq Threads /\ Ids \subseteq Threads
    BY DEF Init, NoTask, Threads
  <1> QED BY <1>1, <1>2, <1>3 DEF Feeds, Issues, OneBlocker, OneReverification

LEMMA FeedsAlways == Spec => [](Part1 /\ Feeds)
  <1>1. Init => Part1 /\ Feeds
    BY InitPart1, InitFeeds
  <1>2. Part1 /\ Feeds /\ [Next]_vars => (Part1 /\ Feeds)'
    <2> SUFFICES ASSUME Part1, Feeds, [Next]_vars PROVE Part1' /\ Feeds'
      OBVIOUS
    <2>1. CASE Next
      BY <2>1, NextFrame, FrameStep, FeedSteps
    <2>2. CASE UNCHANGED vars
      <3> USE <2>2 DEF vars
      <3>1. Part1'
        BY DEF Part1, Typed, Fresh, Free, Plans, Roles, NoneOnItself
      <3>2. Issues' /\ OneBlocker'
        BY DEF Feeds, Issues, OneBlocker, Unresolved
      <3>3. OneReverification'
        BY DEF Feeds, OneReverification, Once, Verified
      <3> QED BY <3>1, <3>2, <3>3 DEF Feeds
    <2> QED BY <2>1, <2>2
  <1> QED BY <1>1, <1>2, PTL DEF Spec

\* What one re-verification for each issue says of a set of tasks.
LEMMA AtMostOne ==
  ASSUME NEW S, \A x, y \in S : x = y
  PROVE  Cardinality(S) <= 1
  <1>1. CASE S = {}
    BY <1>1, FS_EmptySet
  <1>2. ASSUME NEW x \in S PROVE Cardinality(S) <= 1
    <2>1. S = {x}
      BY <1>2
    <2> QED BY <2>1, FS_Singleton
  <1> QED BY <1>1, <1>2

-----------------------------------------------------------------------------
(* A fix is re-verified once *)

\* A fix that a thread has in hand is new to everybody else: no issue names it, no
\* test re-verifies it, and it is not about to create one.
NewFixes(I, T, H) ==
    \A k \in Threads, f \in Ids : Hand(H[k]) = f =>
        /\ T[f].st # "none" /\ H[f].pc \notin {"spawn", "note"}
        /\ \A i \in 1..Len(I) : I[i].fix # f
        /\ \A o \in Ids : T[o].verifies # 0 => T[o].deps # {f}
        /\ \A l \in Threads : Hand(H[l]) = f => l = k

\* A fix is that of one issue, and creates the re-verification of that one.
OwnFixes(I, T, H) ==
    /\ \A i \in 1..Len(I) : I[i].fix \in Ids => T[I[i].fix].st # "none"
    /\ \A i, j \in 1..Len(I) : I[i].fix \in Ids /\ I[i].fix = I[j].fix => i = j
    /\ \A t \in Ids, j \in 1..Len(I) :
          H[t].pc \in {"spawn", "note"} /\ I[j].fix = t => H[t].iss = j

\* The issue of fix f has its re-verification, or f is about to note it.
Settled(I, H, gone, f) ==
    \/ H[f].pc = "note" \/ gone
    \/ \A j \in 1..Len(I) : I[j].fix = f => I[j].reverify # 0

\* A test that re-verifies does so for one fix, which creates no other.
OwnTests(I, T, H, gone) ==
    /\ \A o \in Ids : T[o].verifies # 0 => \E f \in Ids : T[o].deps = {f} /\ Settled(I, H, gone, f)
    /\ \A t, o \in Ids : H[t].pc = "spawn" /\ T[o].verifies # 0 => T[o].deps # {t}
    /\ \A o, p \in Ids : T[o].verifies # 0 /\ T[p].verifies # 0 /\ T[o].deps = T[p].deps => o = p

FixedOnce ==
    /\ NewFixes(issues, tasks, thread) /\ OwnFixes(issues, tasks, thread)
    /\ OwnTests(issues, tasks, thread, req.st = "gone")

LEMMA FixedAfter ==
  ASSUME NewFixes(issues', tasks', thread'), OwnFixes(issues', tasks', thread'),
         OwnTests(issues', tasks', thread', req'.st = "gone")
  PROVE  FixedOnce'
  BY DEF FixedOnce, NewFixes, OwnFixes, OwnTests, Settled

\* What the tasks have after a step that creates no re-verification.
LEMMA SameTests ==
  ASSUME Part1, Evolves, SameVerifies
  PROVE  /\ \A t \in Ids : tasks[t].st # "none" => tasks'[t].st # "none"
         /\ \A o \in Ids : tasks'[o].verifies # 0 => tasks[o].verifies # 0 /\ tasks'[o].deps = tasks[o].deps
  <1>1. \A o \in Ids : tasks[o].verifies # 0 => Taken(o)
    BY DEF Part1, Fresh, Free, Taken, NoTask
  <1> QED BY <1>1 DEF Evolves, Kept, Taken, SameVerifies

\* Steps that move no fix.
LEMMA AsideFixes ==
  ASSUME Part1, Evolves, Feeds, FixedOnce, SameFixes, SameVerifies, req.st = "gone" => req'.st = "gone",
         \A k \in Threads : \/ thread'[k] = thread[k]
                            \/ /\ thread[k].pc # "note" /\ thread'[k].pc \notin {"spawn", "note"}
                               /\ Hand(thread'[k]) \in {0, Hand(thread[k])}
  PROVE  FixedOnce'
  <1>0. Ids \subseteq Threads /\ 0 \notin Ids /\ Len(issues') = Len(issues)
    BY Situation DEF SameFixes
  <1>1. /\ \A t \in Ids : tasks[t].st # "none" => tasks'[t].st # "none"
        /\ \A o \in Ids : tasks'[o].verifies # 0 => tasks[o].verifies # 0 /\ tasks'[o].deps = tasks[o].deps
    BY SameTests
  <1>2. /\ \A k \in Threads, f \in Ids : Hand(thread'[k]) = f => Hand(thread[k]) = f
        /\ \A t \in Ids : thread'[t].pc \in {"spawn", "note"} => thread'[t] = thread[t]
        /\ \A t \in Ids : thread[t].pc = "note" => thread'[t] = thread[t]
    BY <1>0
  <1>3. \A i \in 1..Len(issues) : issues'[i].fix = issues[i].fix /\ issues'[i].reverify = issues[i].reverify
    BY DEF SameFixes
  <1>4. NewFixes(issues', tasks', thread')
    BY <1>0, <1>1, <1>2, <1>3 DEF FixedOnce, NewFixes
  <1>5. OwnFixes(issues', tasks', thread')
    BY <1>0, <1>1, <1>2, <1>3 DEF FixedOnce, OwnFixes
  <1>6. \A f \in Ids : Settled(issues, thread, req.st = "gone", f)
                         => Settled(issues', thread', req'.st = "gone", f)
    BY <1>0, <1>2, <1>3 DEF Settled
  <1>7. OwnTests(issues', tasks', thread', req'.st = "gone")
    BY <1>0, <1>1, <1>2, <1>6 DEF FixedOnce, OwnTests
  <1> QED BY <1>4, <1>5, <1>7, FixedAfter

\* One thread moves, and holds no other fix than before.
LEMMA AsideMove ==
  ASSUME Part1, Evolves, Feeds, FixedOnce, SameFixes, SameVerifies, req.st = "gone" => req'.st = "gone",
         NEW k \in Threads, OnlyMoves(k), thread[k].pc # "note", thread'[k].pc \notin {"spawn", "note"},
         Hand(thread'[k]) \in {0, Hand(thread[k])}
  PROVE  FixedOnce'
  BY AsideFixes DEF OnlyMoves

\* A new fix comes into the hand of thread k.
LEMMA TakenInHand ==
  ASSUME Part1, Evolves, Feeds, FixedOnce, UNCHANGED issues, NEW f \in Ids, Adds(f), tasks'[f].verifies = 0,
         req.st = "gone" => req'.st = "gone",
         NEW k \in Threads, OnlyMoves(k), k # f, thread[k].pc # "note", thread'[k].pc \notin {"spawn", "note"},
         Hand(thread'[k]) = f
  PROVE  FixedOnce'
  <1>0. Ids \subseteq Threads /\ 0 \notin Ids
    BY Situation
  <1>1. SameVerifies
    BY AddVerifies DEF SameVerifies
  <1>2. /\ \A t \in Ids : tasks[t].st # "none" => tasks'[t].st # "none"
        /\ \A o \in Ids : tasks'[o].verifies # 0 => tasks[o].verifies # 0 /\ tasks'[o].deps = tasks[o].deps
    BY <1>1, SameTests
  <1>3. /\ tasks[f].st = "none" /\ tasks'[f].st # "none" /\ thread'[f].pc = "idle"
        /\ \A o \in Ids : f \notin tasks[o].deps
    <2>1. f \in Free /\ tasks'[f].st # "none"
      BY DEF Adds, Born
    <2>2. thread'[f] = thread[f]
      BY <1>0 DEF OnlyMoves
    <2> QED BY <2>1, <2>2, QuietIs DEF Part1, Fresh, Free
  <1>4. /\ \A i \in 1..Len(issues) : issues[i].fix # f
        /\ \A l \in Threads : Hand(thread[l]) # f
    BY <1>3 DEF FixedOnce, NewFixes, OwnFixes
  <1>5. /\ \A l \in Threads : l # k => thread'[l] = thread[l]
        /\ \A t \in Ids : thread'[t].pc \in {"spawn", "note"} => thread'[t] = thread[t]
        /\ \A t \in Ids : thread[t].pc = "note" => thread'[t] = thread[t]
    BY <1>0 DEF OnlyMoves
  <1>6. NewFixes(issues', tasks', thread')
    <2> SUFFICES ASSUME NEW l \in Threads, NEW g \in Ids, Hand(thread'[l]) = g
                 PROVE  /\ tasks'[g].st # "none" /\ thread'[g].pc \notin {"spawn", "note"}
                        /\ \A i \in 1..Len(issues') : issues'[i].fix # g
                        /\ \A o \in Ids : tasks'[o].verifies # 0 => tasks'[o].deps # {g}
                        /\ \A m \in Threads : Hand(thread'[m]) = g => m = l
      BY DEF NewFixes
    <2>1. CASE l = k
      <3>1. g = f
        BY <2>1
      <3> QED BY <1>2, <1>3, <1>4, <1>5, <2>1, <3>1
    <2>2. CASE l # k
      <3>1. Hand(thread[l]) = g /\ g # f
        BY <1>4, <1>5, <2>2
      <3>2. /\ tasks[g].st # "none" /\ thread[g].pc \notin {"spawn", "note"}
            /\ \A i \in 1..Len(issues) : issues[i].fix # g
            /\ \A o \in Ids : tasks[o].verifies # 0 => tasks[o].deps # {g}
            /\ \A m \in Threads : Hand(thread[m]) = g => m = l
        BY <3>1 DEF FixedOnce, NewFixes
      <3> QED BY <1>0, <1>2, <1>5, <3>1, <3>2
    <2> QED BY <2>1, <2>2
  <1>7. OwnFixes(issues', tasks', thread')
    BY <1>0, <1>2, <1>5 DEF FixedOnce, OwnFixes
  <1>8. \A g \in Ids : Settled(issues, thread, req.st = "gone", g)
                         => Settled(issues', thread', req'.st = "gone", g)
    BY <1>0, <1>5 DEF Settled
  <1>9. OwnTests(issues', tasks', thread', req'.st = "gone")
    BY <1>0, <1>2, <1>5, <1>8 DEF FixedOnce, OwnTests
  <1> QED BY <1>6, <1>7, <1>9, FixedAfter

\* The fix that thread k has in hand becomes that of issue n, which nobody else's is.
LEMMA Named ==
  ASSUME Part1, Evolves, Feeds, FixedOnce, UNCHANGED tasks, req.st = "gone" => req'.st = "gone",
         NEW k \in Threads, OnlyMoves(k), thread[k].pc \in {"append", "assign"}, thread'[k].pc \in {"idle", "ready"},
         NEW n \in 1..Len(issues'), issues'[n].fix = thread[k].cur,
         \A j \in (1..Len(issues')) \ {n} : /\ j \in 1..Len(issues)
                                          /\ issues'[j].fix = issues[j].fix /\ issues'[j].reverify = issues[j].reverify
  PROVE  FixedOnce'
  <1>0. Ids \subseteq Threads /\ 0 \notin Ids
    BY Situation
  <1> DEFINE f == thread[k].cur
  <1>1. Hand(thread[k]) = f /\ Hand(thread'[k]) = 0
    BY DEF Hand
  <1>2. f \in Ids =>
        /\ tasks[f].st # "none" /\ thread[f].pc \notin {"spawn", "note"}
        /\ \A i \in 1..Len(issues) : issues[i].fix # f
        /\ \A o \in Ids : tasks[o].verifies # 0 => tasks[o].deps # {f}
        /\ \A l \in Threads : Hand(thread[l]) = f => l = k
    BY <1>1 DEF FixedOnce, NewFixes
  <1>3. /\ \A l \in Threads : l # k => thread'[l] = thread[l]
        /\ \A t \in Ids : thread'[t].pc \in {"spawn", "note"} => thread'[t] = thread[t]
        /\ \A t \in Ids : thread[t].pc = "note" => thread'[t] = thread[t]
    BY <1>0 DEF OnlyMoves
  <1>4. issues'[n].fix = f
    OBVIOUS
  <1> HIDE DEF f
  <1>5. NewFixes(issues', tasks', thread')
    <2> SUFFICES ASSUME NEW l \in Threads, NEW g \in Ids, Hand(thread'[l]) = g
                 PROVE  /\ tasks'[g].st # "none" /\ thread'[g].pc \notin {"spawn", "note"}
                        /\ \A i \in 1..Len(issues') : issues'[i].fix # g
                        /\ \A o \in Ids : tasks'[o].verifies # 0 => tasks'[o].deps # {g}
                        /\ \A m \in Threads : Hand(thread'[m]) = g => m = l
      BY DEF NewFixes
    <2>1. l # k /\ Hand(thread[l]) = g
      BY <1>0, <1>1, <1>3
    <2>2. /\ tasks[g].st # "none" /\ thread[g].pc \notin {"spawn", "note"}
          /\ \A i \in 1..Len(issues) : issues[i].fix # g
          /\ \A o \in Ids : tasks[o].verifies # 0 => tasks[o].deps # {g}
          /\ \A m \in Threads : Hand(thread[m]) = g => m = l
      BY <2>1 DEF FixedOnce, NewFixes
    <2>3. g # f
      BY <1>1, <2>1, <2>2
    <2>4. \A i \in 1..Len(issues') : issues'[i].fix # g
      BY <1>4, <2>2, <2>3
    <2>5. \A m \in Threads : Hand(thread'[m]) = g => m = l
      BY <1>0, <1>1, <1>3, <2>2
    <2> QED BY <1>0, <1>3, <2>2, <2>4, <2>5
  <1>6. OwnFixes(issues', tasks', thread')
    <2>1. \A i \in 1..Len(issues') : issues'[i].fix \in Ids => tasks'[issues'[i].fix].st # "none"
      BY <1>2, <1>4 DEF FixedOnce, OwnFixes
    <2>2. \A i, j \in 1..Len(issues') : issues'[i].fix \in Ids /\ issues'[i].fix = issues'[j].fix => i = j
      BY <1>2, <1>4 DEF FixedOnce, OwnFixes
    <2>3. \A t \in Ids, j \in 1..Len(issues') :
            thread'[t].pc \in {"spawn", "note"} /\ issues'[j].fix = t => thread'[t].iss = j
      BY <1>2, <1>3, <1>4 DEF FixedOnce, OwnFixes
    <2> QED BY <2>1, <2>2, <2>3 DEF OwnFixes
  <1>7. \A g \in Ids : g # f /\ Settled(issues, thread, req.st = "gone", g)
                         => Settled(issues', thread', req'.st = "gone", g)
    BY <1>0, <1>3, <1>4 DEF Settled
  <1>8. OwnTests(issues', tasks', thread', req'.st = "gone")
    <2>1. ASSUME NEW o \in Ids, tasks'[o].verifies # 0
          PROVE  \E g \in Ids : tasks'[o].deps = {g} /\ Settled(issues', thread', req'.st = "gone", g)
      <3>1. PICK g \in Ids : tasks[o].deps = {g} /\ Settled(issues, thread, req.st = "gone", g)
        BY <2>1 DEF FixedOnce, OwnTests
      <3>2. g # f
        BY <1>2, <2>1, <3>1
      <3> QED BY <1>7, <3>1, <3>2
    <2>2. \A t, o \in Ids : thread'[t].pc = "spawn" /\ tasks'[o].verifies # 0 => tasks'[o].deps # {t}
      BY <1>3 DEF FixedOnce, OwnTests
    <2> QED BY <2>1, <2>2 DEF FixedOnce, OwnTests
  <1> QED BY <1>5, <1>6, <1>8, FixedAfter

\* A completed fix is about to create a test only for an issue that has none, so that
\* no test re-verifies it yet.
LEMMA CompletedFixes ==
  ASSUME Part1, Evolves, Feeds, FixedOnce, NEW t \in Ids, Completed(t)
  PROVE  FixedOnce'
  <1>0. /\ Typed /\ Ids \subseteq Threads /\ 0 \notin Ids /\ Len(issues) \in Nat /\ thread[t] \in ThreadType
        /\ \A k \in Threads : thread[k] \in ThreadType
    BY Situation
  <1>1. /\ UNCHANGED tasks /\ SameVerifies /\ thread[t].pc = "completed" /\ t \in Threads
        /\ "dependents" \in Places
    BY <1>0 DEF Completed, At, SameVerifies, Places
  <1>2. req.st = "gone" => req'.st = "gone"
    BY <1>0 DEF Completed, Put, Resolves, Typed, ReqType
  <1>3. CASE Go(t, "dependents")
    <2>1. OnlyMoves(t) /\ thread'[t].pc = "dependents"
      BY <1>0, <1>1, <1>3, GoesTo
    <2>2. Hand(thread'[t]) = 0
      BY <2>1 DEF Hand
    <2>3. SameFixes
      <3>1. CASE issues' = issues
        BY <3>1 DEF SameFixes
      <3>2. CASE VerifiedBy(t) # {} /\ Resolves(FirstOf(VerifiedBy(t)))
        <4>1. VerifiedBy(t) \subseteq 1..Len(issues) /\ VerifiedBy(t) \in SUBSET Nat
          BY <1>0 DEF VerifiedBy
        <4>2. FirstOf(VerifiedBy(t)) \in 1..Len(issues)
          BY <3>2, <4>1, FirstIsThere
        <4> QED BY <1>0, <3>2, <4>2, ResolvesTypes DEF SameFixes
      <3>3. t \in Threads /\ "spawn" # "dependents" /\ thread'[t].pc # "spawn"
        BY <1>1, <2>1
      <3>4. thread' = [thread EXCEPT ![t].pc = "spawn", ![t].iss = FirstOf(FixedBy(t))] => thread'[t].pc = "spawn"
        BY <1>0, <1>1 DEF Typed, ThreadType
      <3> QED BY <3>1, <3>2, <3>3, <3>4 DEF Completed
    <2> QED BY <1>1, <1>2, <2>1, <2>2, <2>3, AsideMove
  <1>4. CASE /\ req.st # "gone" /\ FixedBy(t) # {} /\ UNCHANGED <<req, issues>>
             /\ thread' = [thread EXCEPT ![t].pc = "spawn", ![t].iss = FirstOf(FixedBy(t))]
    <2> DEFINE i == FirstOf(FixedBy(t))
               d == [thread[t] EXCEPT !.pc = "spawn", !.iss = i]
    <2>1. i \in FixedBy(t)
      <3>1. FixedBy(t) \in SUBSET Nat
        BY <1>0 DEF FixedBy
      <3> QED BY <1>4, <3>1, FirstIsThere
    <2>0. UNCHANGED <<req, tasks, issues>> /\ req.st # "gone"
      BY <1>1, <1>4
    <2>2. i \in 1..Len(issues) /\ issues[i].fix = t /\ issues[i].reverify = 0
      BY <2>1 DEF FixedBy
    <2>3. d.pc = "spawn" /\ d.iss = i
      BY <1>0 DEF ThreadType
    <2>4. thread' = [thread EXCEPT ![t] = d]
      BY <1>4
    <2> HIDE DEF d, i
    <2>5. thread'[t].pc = "spawn" /\ thread'[t].iss = i /\ \A k \in Threads \ {t} : thread'[k] = thread[k]
      BY <1>0, <1>1, <2>3, <2>4, FieldsMove DEF OnlyMoves
    <2>6. Hand(thread'[t]) = 0 /\ Hand(thread[t]) = 0
      BY <1>1, <2>5 DEF Hand
    <2>7. \A o \in Ids : tasks[o].verifies # 0 => tasks[o].deps # {t}
      <3> SUFFICES ASSUME NEW o \in Ids, tasks[o].verifies # 0, tasks[o].deps = {t} PROVE FALSE
        OBVIOUS
      <3>1. PICK f \in Ids : tasks[o].deps = {f} /\ Settled(issues, thread, req.st = "gone", f)
        BY DEF FixedOnce, OwnTests
      <3>2. f = t
        BY <3>1
      <3> QED BY <1>1, <2>0, <2>2, <3>1, <3>2 DEF Settled
    <2>8. NewFixes(issues', tasks', thread')
      <3>1. ASSUME NEW k \in Threads, NEW f \in Ids, Hand(thread'[k]) = f
            PROVE  Hand(thread[k]) = f /\ f # t
        <4>1. Hand(thread[k]) = f
          BY <1>0, <2>5, <2>6, <3>1
        <4>2. \A j \in 1..Len(issues) : issues[j].fix # f
          BY <4>1 DEF FixedOnce, NewFixes
        <4> QED BY <2>2, <4>1, <4>2
      <3>2. \A k \in Threads, f \in Ids : Hand(thread'[k]) = f =>
              /\ tasks[f].st # "none" /\ thread[f].pc \notin {"spawn", "note"}
              /\ \A j \in 1..Len(issues) : issues[j].fix # f
              /\ \A o \in Ids : tasks[o].verifies # 0 => tasks[o].deps # {f}
              /\ \A l \in Threads : Hand(thread'[l]) = f => l = k
        BY <3>1 DEF FixedOnce, NewFixes
      <3>3. \A f \in Ids : f # t => thread'[f] = thread[f]
        BY <1>0, <2>5
      <3> QED BY <2>0, <3>1, <3>2, <3>3 DEF NewFixes
    <2>9. OwnFixes(issues', tasks', thread')
      BY <1>0, <1>1, <2>0, <2>2, <2>5 DEF FixedOnce, OwnFixes
    <2>10. \A f \in Ids : Settled(issues, thread, req.st = "gone", f)
                           => Settled(issues', thread', req'.st = "gone", f)
      BY <1>0, <1>1, <2>0, <2>5 DEF Settled
    <2>11. OwnTests(issues', tasks', thread', req'.st = "gone")
      BY <1>0, <2>0, <2>5, <2>7, <2>10 DEF FixedOnce, OwnTests
    <2> QED BY <2>8, <2>9, <2>11, FixedAfter
  <1> QED BY <1>3, <1>4 DEF Completed

\* The test that it creates is the first one that re-verifies it.
LEMMA SpawnFixes ==
  ASSUME Part1, Evolves, Feeds, FixedOnce, NEW t \in Ids, Spawn(t)
  PROVE  FixedOnce'
  <1>0. Typed /\ Ids \subseteq Threads /\ 0 \notin Ids
    BY Situation
  <1>1. UNCHANGED <<req, issues>> /\ t \in Threads /\ thread[t].pc = "spawn" /\ "dependents" \in Places
    BY <1>0 DEF Spawn, At, Places
  <1>2. CASE tasks' # tasks
    <2> DEFINE f == FirstOf(Free)
    <2>1. /\ Adds(f) /\ tasks'[f].deps = {t}
          /\ OnlyMoves(t) /\ thread'[t].pc = "note" /\ thread'[t].iss = thread[t].iss
      BY <1>2, SpawnEffect DEF Shifts
    <2>2. /\ f \in Ids /\ tasks[f].st = "none" /\ tasks'[f].st # "none"
          /\ \A o \in Ids \ {f} : tasks'[o] = tasks[o]
          /\ \A k \in Threads \ {t} : thread'[k] = thread[k]
      BY <2>1 DEF Adds, Free, Born, OnlyMoves
    <2> HIDE DEF f
    <2>3. \A o \in Ids : tasks[o].verifies # 0 => tasks[o].deps # {t}
      BY <1>1 DEF FixedOnce, OwnTests
    <2>4. Hand(thread[t]) = 0 /\ Hand(thread'[t]) = 0
      BY <1>1, <2>1 DEF Hand
    <2>5. NewFixes(issues', tasks', thread')
      <3>1. \A k \in Threads, g \in Ids : Hand(thread'[k]) = g => Hand(thread[k]) = g /\ g # t
        BY <1>0, <1>1, <2>2, <2>4 DEF FixedOnce, NewFixes
      <3>2. \A k \in Threads, g \in Ids : Hand(thread'[k]) = g =>
              /\ tasks[g].st # "none" /\ thread[g].pc \notin {"spawn", "note"}
              /\ \A i \in 1..Len(issues) : issues[i].fix # g
              /\ \A o \in Ids : tasks[o].verifies # 0 => tasks[o].deps # {g}
              /\ \A l \in Threads : Hand(thread'[l]) = g => l = k
        BY <3>1 DEF FixedOnce, NewFixes
      <3>3. \A g \in Ids, o \in Ids : g # t /\ (tasks[o].verifies # 0 => tasks[o].deps # {g})
                                        => (tasks'[o].verifies # 0 => tasks'[o].deps # {g})
        BY <2>1, <2>2
      <3> QED BY <1>0, <1>1, <2>1, <2>2, <3>1, <3>2, <3>3 DEF NewFixes
    <2>6. OwnFixes(issues', tasks', thread')
      BY <1>0, <1>1, <2>1, <2>2 DEF FixedOnce, OwnFixes
    <2>7. \A g \in Ids : Settled(issues, thread, req.st = "gone", g)
                           => Settled(issues', thread', req'.st = "gone", g)
      BY <1>0, <1>1, <2>1, <2>2 DEF Settled
    <2>8. OwnTests(issues', tasks', thread', req'.st = "gone")
      <3>1. ASSUME NEW o \in Ids, tasks'[o].verifies # 0
            PROVE  \E g \in Ids : tasks'[o].deps = {g} /\ Settled(issues', thread', req'.st = "gone", g)
        <4>1. CASE o = f
          BY <2>1, <4>1 DEF Settled
        <4>2. CASE o # f
          BY <2>2, <2>7, <3>1, <4>2 DEF FixedOnce, OwnTests
        <4> QED BY <4>1, <4>2
      <3>2. ASSUME NEW x \in Ids, NEW o \in Ids, thread'[x].pc = "spawn", tasks'[o].verifies # 0
            PROVE  tasks'[o].deps # {x}
        <4>1. x # t /\ thread[x].pc = "spawn"
          BY <1>0, <2>1, <2>2, <3>2
        <4> QED BY <2>1, <2>2, <3>2, <4>1 DEF FixedOnce, OwnTests
      <3>3. ASSUME NEW o \in Ids, NEW p \in Ids, tasks'[o].verifies # 0, tasks'[p].verifies # 0,
                   tasks'[o].deps = tasks'[p].deps
            PROVE  o = p
        <4>1. CASE o = f \/ p = f
          BY <2>1, <2>2, <2>3, <3>3, <4>1
        <4>2. CASE o # f /\ p # f
          BY <2>2, <3>3, <4>2 DEF FixedOnce, OwnTests
        <4> QED BY <4>1, <4>2
      <3> QED BY <3>1, <3>2, <3>3 DEF OwnTests
    <2> QED BY <2>5, <2>6, <2>8, FixedAfter
  <1>3. CASE tasks' = tasks
    <2>1. CASE Go(t, "dependents")
      <3>1. OnlyMoves(t) /\ thread'[t].pc = "dependents"
        BY <1>0, <1>1, <2>1, GoesTo
      <3> QED BY <1>1, <1>3, <3>1, AsideMove DEF SameFixes, SameVerifies, Hand
    <2>2. CASE Creates(t, [NoTask EXCEPT !.st = "planned", !.role = "test", !.deps = {t}, !.verifies = thread[t].iss], "note")
      <3> DEFINE f == FirstOf(Free)
                 new == [NoTask EXCEPT !.st = "planned", !.role = "test", !.deps = {t}, !.verifies = thread[t].iss]
      <3>1. tasks' = [tasks EXCEPT ![f] = new] /\ f \in Ids /\ tasks[f].st = "none"
        BY <2>2, FirstTask DEF Creates, Free
      <3>2. new.st = "planned"
        BY DEF NoTask
      <3> HIDE DEF new, f
      <3> QED BY <1>0, <1>3, <3>1, <3>2 DEF Typed
    <2> QED BY <2>1, <2>2 DEF Spawn
  <1> QED BY <1>2, <1>3

\* Noting it settles every issue of the fix, as there is one at most.
LEMMA NoteFixes ==
  ASSUME Part1, Evolves, Feeds, FixedOnce, NEW t \in Ids, Note(t)
  PROVE  FixedOnce'
  <1>0. /\ Typed /\ Ids \subseteq Threads /\ 0 \notin Ids /\ Len(issues) \in Nat
        /\ \A j \in 1..Len(issues) : issues[j] \in IssueType
        /\ \A k \in Threads : thread[k].pc \in {"assign", "spawn", "note"} => thread[k].iss \in 1..Len(issues)
    BY Situation
  <1> DEFINE i == thread[t].iss
             new == [issues[i] EXCEPT !.reverify = thread[t].cur]
  <1>1. /\ UNCHANGED <<req, tasks>> /\ t \in Threads /\ thread[t].pc = "note" /\ i \in 1..Len(issues)
        /\ thread[t].cur \in Ids
    BY <1>0 DEF Note, At, Part1, Roles
  <1>2. OnlyMoves(t) /\ thread'[t].pc = "dependents"
    <2>1. "dependents" \in Places /\ Go(t, "dependents")
      BY DEF Places, Note
    <2> QED BY <1>0, <1>1, <2>1, GoesTo
  <1>3. new \in IssueType /\ new.fix = issues[i].fix /\ new.reverify = thread[t].cur
    BY <1>0, <1>1 DEF IssueType
  <1>4. issues' = IF req.st = "gone" THEN issues ELSE [issues EXCEPT ![i] = new]
    BY DEF Note
  <1>5. \A j \in 1..Len(issues) : issues[j].fix = t => i = j
    BY <1>1 DEF FixedOnce, OwnFixes
  <1> HIDE DEF new, i
  <1>6. /\ Len(issues') = Len(issues)
        /\ \A j \in 1..Len(issues) :
              /\ issues'[j].fix = issues[j].fix
              /\ issues'[j].reverify = IF j = i /\ req.st # "gone" THEN thread[t].cur ELSE issues[j].reverify
    BY <1>0, <1>1, <1>3, <1>4, IssueUpdates
  <1>7. /\ \A k \in Threads \ {t} : thread'[k] = thread[k]
        /\ \A x \in Ids : thread'[x].pc \in {"spawn", "note"} => thread'[x] = thread[x]
        /\ Hand(thread'[t]) = 0
    BY <1>0, <1>2 DEF OnlyMoves, Hand
  <1>8. NewFixes(issues', tasks', thread')
    <2>1. \A k \in Threads, f \in Ids : Hand(thread'[k]) = f => Hand(thread[k]) = f
      BY <1>0, <1>7
    <2> QED BY <1>0, <1>1, <1>6, <1>7, <2>1 DEF FixedOnce, NewFixes
  <1>9. OwnFixes(issues', tasks', thread')
    BY <1>0, <1>1, <1>6, <1>7 DEF FixedOnce, OwnFixes
  <1>10. ASSUME NEW f \in Ids, Settled(issues, thread, req.st = "gone", f)
         PROVE  Settled(issues', thread', req'.st = "gone", f)
    <2>1. CASE f = t
      BY <1>0, <1>1, <1>5, <1>6, <2>1 DEF Settled
    <2>2. CASE f # t
      BY <1>0, <1>1, <1>6, <1>7, <1>10, <2>2 DEF Settled
    <2> QED BY <2>1, <2>2
  <1>11. OwnTests(issues', tasks', thread', req'.st = "gone")
    BY <1>0, <1>1, <1>7, <1>10 DEF FixedOnce, OwnTests
  <1> QED BY <1>8, <1>9, <1>11, FixedAfter

LEMMA FailedFixes ==
  ASSUME Part1, Evolves, Feeds, FixedOnce, NEW t \in Ids, Failed(t)
  PROVE  FixedOnce'
  <1>0. Typed /\ t \in Threads /\ thread[t].pc = "failed" /\ UNCHANGED <<req, tasks, issues>>
    BY Situation DEF Failed, At
  <1>1. ASSUME NEW d, d.pc \notin {"spawn", "note"}, d.cur = 0, thread' = [thread EXCEPT ![t] = d]
        PROVE  FixedOnce'
    <2>1. thread'[t] = d /\ OnlyMoves(t)
      BY <1>0, <1>1, FieldsMove
    <2>2. Hand(d) = 0
      BY <1>1 DEF Hand
    <2> QED BY <1>0, <1>1, <2>1, <2>2, AsideMove DEF SameFixes, SameVerifies
  <1>2. CASE End(t)
    <2>1. Quiet.pc \notin {"spawn", "note"} /\ Quiet.cur = 0
      BY DEF Quiet
    <2> QED BY <1>1, <1>2, <2>1 DEF End
  <1>3. CASE Begin(t, [Quiet EXCEPT !.pc = "open", !.blocker = TRUE, !.source = t])
    <2> DEFINE d == [Quiet EXCEPT !.pc = "open", !.blocker = TRUE, !.source = t]
    <2>1. d.pc = "open" /\ d.cur = 0
      BY DEF Quiet
    <2>2. thread' = [thread EXCEPT ![t] = d]
      BY <1>3 DEF Begin
    <2> HIDE DEF d
    <2> QED BY <1>1, <2>1, <2>2
  <1> QED BY <1>2, <1>3 DEF Failed

\* The fix of a blocker, which its thread has in hand until the issue names it.
LEMMA OpenFixes ==
  ASSUME Part1, Evolves, Feeds, FixedOnce, NEW k \in Threads, Open(k)
  PROVE  FixedOnce'
  <1>0. Typed /\ UNCHANGED <<req, issues>> /\ thread[k] \in ThreadType /\ thread[k].pc = "open" /\ Ids \subseteq Threads
    BY Situation DEF Open, At
  <1>1. CASE tasks' # tasks
    <2> DEFINE f == FirstOf(Free)
    <2>1. /\ Adds(f) /\ tasks'[f] = Fix /\ Shifts(k, "open", {"append"})
          /\ thread'[k].cur = f
      BY <1>1, OpenEffect
    <2>2. f \in Ids /\ f \in Free /\ Fix.verifies = 0
      BY <2>1 DEF Adds, Free, Fix, NoTask
    <2> HIDE DEF f
    <2>3. k # f
      BY <1>0, <2>2, QuietIs DEF Part1, Fresh
    <2>4. Hand(thread'[k]) = f
      BY <2>1 DEF Hand, Shifts
    <2> QED BY <1>0, <2>1, <2>2, <2>3, <2>4, TakenInHand DEF Shifts
  <1>2. CASE tasks' = tasks
    <2>1. CASE Go(k, "append")
      <3>1. "append" \in Places
        BY DEF Places
      <3>2. thread'[k].pc = "append" /\ Moves(k, At1(thread[k], "append"))
        BY <1>0, <2>1, <3>1, GoMoves
      <3>3. At1(thread[k], "append").cur = thread[k].cur
        BY <1>0 DEF At1, ThreadType
      <3> QED BY <1>0, <1>2, <3>2, <3>3, AsideMove DEF Moves, OnlyMoves, SameFixes, SameVerifies, Hand
    <2>2. CASE End(k)
      <3>1. OnlyMoves(k) /\ thread'[k].pc = "idle"
        BY <1>0, <2>2, FieldsMove, QuietIs DEF End
      <3> QED BY <1>0, <1>2, <3>1, AsideMove DEF SameFixes, SameVerifies, Hand
    <2>3. CASE Creates(k, Fix, "append")
      <3>1. tasks' = [tasks EXCEPT ![FirstOf(Free)] = Fix] /\ FirstOf(Free) \in Ids /\ tasks[FirstOf(Free)].st = "none"
        BY <2>3, FirstTask DEF Creates, Free
      <3>2. Fix.st = "planned"
        BY DEF Fix, NoTask
      <3> QED BY <1>0, <1>2, <3>1, <3>2 DEF Typed
    <2> QED BY <2>1, <2>2, <2>3 DEF Open
  <1> QED BY <1>1, <1>2

LEMMA OpenedFixes ==
  ASSUME Part1, Evolves, Feeds, FixedOnce, NEW k \in Threads, Opened(k)
  PROVE  FixedOnce'
  <1>0. Typed /\ Len(issues) \in Nat /\ thread[k] \in ThreadType
    BY Situation
  <1> DEFINE d == thread[k]
             new == [st |-> OpenStatus(d.blocker), source |-> d.source, fix |-> d.cur, reverify |-> 0, auto |-> k \in Ids]
  <1>1. UNCHANGED tasks /\ SameVerifies /\ d.pc = "append"
    BY DEF Opened, At, SameVerifies
  <1>2. OnlyMoves(k) /\ thread'[k].pc \in {"idle", "ready"}
    <2>1. CASE Go(k, "ready")
      <3>1. "ready" \in Places
        BY DEF Places
      <3> QED BY <1>0, <2>1, <3>1, GoesTo
    <2>2. CASE End(k)
      BY <1>0, <2>2, FieldsMove, QuietIs DEF End
    <2> QED BY <2>1, <2>2 DEF Opened
  <1>3. req.st = "gone" => req'.st = "gone"
    BY DEF Opened, Put
  <1>4. CASE issues' = issues
    BY <1>1, <1>2, <1>3, <1>4, AsideMove DEF SameFixes, Hand
  <1>5. CASE Len(issues) # MaxIssues /\ issues' = Append(issues, new)
    <2> DEFINE n == Len(issues) + 1
    <2>1. new \in IssueType
      <3>1. d.blocker => d.cur \in Ids
        BY <1>1 DEF Part1, Roles
      <3> QED BY <1>0, <3>1 DEF IssueType, ThreadType, OpenStatus
    <2>2. new.fix = thread[k].cur
      OBVIOUS
    <2> HIDE DEF new
    <2>3. /\ Len(issues') = n /\ \A i \in 1..Len(issues) : issues'[i] = issues[i]
          /\ issues'[n] = new
      BY <1>0, <1>5, <2>1, IssueAppends
    <2>4. n \in 1..Len(issues') /\ (1..Len(issues')) \ {n} = 1..Len(issues)
      BY <1>0, <2>3
    <2> HIDE DEF n
    <2> QED BY <1>1, <1>2, <1>3, <2>2, <2>3, <2>4, Named
  <1> QED BY <1>4, <1>5 DEF Opened

\* The fix of a user, which he has in hand until he has assigned it.
LEMMA ConfirmFixes ==
  ASSUME Part1, Evolves, Feeds, FixedOnce, NEW u \in Users, NEW i \in 1..Len(issues), ConfirmFix(u, i)
  PROVE  FixedOnce'
  <1> DEFINE f == FirstOf(Free)
  <1>0. UNCHANGED <<req, issues>> /\ u \in Threads /\ u \notin Ids
    BY RequirementsAssumption DEF ConfirmFix, Threads
  <1>1. /\ Adds(f) /\ tasks'[f] = Fix /\ Shifts(u, "idle", {"assign"}) /\ thread'[u].cur = f
    BY ConfirmFixEffect
  <1>2. f \in Ids /\ Fix.verifies = 0
    BY <1>1 DEF Adds, Free, Fix, NoTask
  <1> HIDE DEF f
  <1>3. Hand(thread'[u]) = f
    BY <1>1 DEF Hand, Shifts
  <1> QED BY <1>0, <1>1, <1>2, <1>3, TakenInHand DEF Shifts

LEMMA AssignFixes ==
  ASSUME Part1, Evolves, Feeds, FixedOnce, NEW u \in Users, Assign(u)
  PROVE  FixedOnce'
  <1>0. /\ Typed /\ u \in Threads /\ Len(issues) \in Nat
        /\ \A j \in 1..Len(issues) : issues[j] \in IssueType
        /\ \A k \in Threads : thread[k].pc \in {"assign", "spawn", "note"} => thread[k].iss \in 1..Len(issues)
    BY Situation
  <1> DEFINE i == thread[u].iss
             new == [issues[i] EXCEPT !.st = "fixing", !.fix = thread[u].cur]
  <1>1. /\ UNCHANGED <<req, tasks>> /\ SameVerifies /\ thread[u].pc = "assign" /\ i \in 1..Len(issues)
        /\ thread[u].cur \in Ids
    BY <1>0 DEF Assign, At, Part1, Roles, SameVerifies
  <1>2. OnlyMoves(u) /\ thread'[u].pc = "ready"
    <2>1. "ready" \in Places /\ Go(u, "ready")
      BY DEF Places, Assign
    <2> QED BY <1>0, <1>1, <2>1, GoesTo
  <1>3. new \in IssueType /\ new.fix = thread[u].cur
    <2> DEFINE c == thread[u].cur
               old == issues[i]
    <2>1. old \in IssueType /\ c \in Ids /\ new = [old EXCEPT !.st = "fixing", !.fix = c]
      BY <1>0, <1>1
    <2> HIDE DEF c, old, new
    <2>2. new \in IssueType /\ new.fix = c
      BY <2>1 DEF IssueType
    <2> QED BY <2>2 DEF c
  <1>4. issues' = issues \/ issues' = [issues EXCEPT ![i] = new]
    <2>1. [issues EXCEPT ![i].st = "fixing", ![i].fix = thread[u].cur] = [issues EXCEPT ![i] = new]
      BY <1>0, <1>1 DEF IssueType, Typed
    <2> QED BY <2>1 DEF Assign
  <1>5. CASE issues' = issues
    BY <1>0, <1>1, <1>2, <1>5, AsideMove DEF SameFixes, Hand
  <1>6. CASE issues' = [issues EXCEPT ![i] = new]
    <2> HIDE DEF new, i
    <2>1. /\ Len(issues') = Len(issues)
          /\ \A j \in 1..Len(issues) : issues'[j] = IF j = i THEN new ELSE issues[j]
      BY <1>0, <1>1, <1>3, <1>6, IssueUpdates
    <2> QED BY <1>0, <1>1, <1>2, <1>3, <2>1, Named
  <1> QED BY <1>4, <1>5, <1>6

LEMMA FixedSteps ==
  ASSUME Part1, Frame, Feeds, FixedOnce, Next
  PROVE  FixedOnce'
  <1>0. Evolves /\ (req.st = "gone" => req'.st = "gone") /\ Users \subseteq Threads /\ Ids \subseteq Threads
    BY NextSplits, StaysGone DEF Frame, Threads
  <1>1. CASE NeutralStep
    <2>1. CASE \E u \in Users : Open(u)
      BY <1>0, <2>1, OpenFixes
    <2>2. CASE ~\E u \in Users : Open(u)
      <3>1. Neutral
        BY <1>1, NeutralSteps
      <3>2. \A k \in Threads : thread'[k].pc \in {"spawn", "note"} => k \in Ids
        BY RequirementsAssumption DEF Frame, Turnover, Allowed, Threads, Part1, Roles
      <3>3. \A k \in Threads : thread'[k] = thread[k] \/ (/\ thread[k].pc # "note" /\ Hand(thread'[k]) = 0
                                                        /\ thread'[k].pc \notin {"spawn", "note"})
        BY <2>2, <3>1, <3>2 DEF Neutral, Feeding
      <3> QED BY <1>0, <3>1, <3>3, AsideFixes DEF Neutral, SameFixes, SameVerifies
    <2> QED BY <2>1, <2>2
  <1>2. ASSUME NEW u \in Users, NEW i \in 1..Len(issues), Resolve(u, i) PROVE FixedOnce'
    <2>1. UNCHANGED <<tasks, thread>> /\ Resolves(i) /\ Typed
      BY <1>2 DEF Resolve, Part1
    <2>2. SameFixes
      BY <2>1, ResolvesTypes DEF SameFixes
    <2> QED BY <1>0, <2>1, <2>2, AsideFixes DEF SameVerifies
  <1>3. CASE FeedStep
    BY <1>0, <1>2, <1>3, OpenedFixes, OpenFixes, CompletedFixes, SpawnFixes, NoteFixes, FailedFixes, AssignFixes,
       ConfirmFixes DEF FeedStep
  <1> QED BY <1>1, <1>3, NextFeeds

LEMMA InitFixed == Init => FixedOnce
  <1> SUFFICES ASSUME Init PROVE FixedOnce
    OBVIOUS
  <1>1. 1..Len(issues) = {} /\ 0 \notin Ids /\ Ids \subseteq Threads
    BY DEF Init, Ids, Threads
  <1>2. \A k \in Threads : thread[k].pc = "idle" /\ Hand(thread[k]) = 0
    BY QuietIs DEF Init, Hand
  <1>3. \A t \in Ids : tasks[t].verifies = 0
    BY DEF Init, NoTask
  <1> QED BY <1>1, <1>2, <1>3 DEF FixedOnce, NewFixes, OwnFixes, OwnTests

LEMMA FixedAlways == Spec => [](Part1 /\ Feeds /\ FixedOnce)
  <1>1. Init => FixedOnce
    BY InitFixed
  <1>2. Part1 /\ Feeds /\ FixedOnce /\ [Next]_vars => FixedOnce'
    <2> SUFFICES ASSUME Part1, Feeds, FixedOnce, [Next]_vars PROVE FixedOnce'
      OBVIOUS
    <2>1. CASE Next
      BY <2>1, NextFrame, FixedSteps
    <2>2. CASE UNCHANGED vars
      BY <2>2, FixedAfter DEF vars, FixedOnce
    <2> QED BY <2>1, <2>2
  <1> QED BY <1>1, <1>2, FeedsAlways, PTL DEF Spec

\* However many users there are and whatever they confirm, an outcome is fed back
\* once: no fix is re-verified twice, an issue of the runner gets one re-verification,
\* and a failing test has one unresolved issue of the runner, however turns are
\* repeated, cancelled and resumed (OnTaskCompleted and OnTaskFailed).
THEOREM FeedsBackOnce == Spec => []FeedbackOnce
  <1>1. Part1 /\ Feeds /\ FixedOnce => FeedbackOnce
    <2> SUFFICES ASSUME Part1, Feeds, FixedOnce PROVE FeedbackOnce
      OBVIOUS
    <2>1. \A s, t \in Ids :
            tasks[s].verifies # 0 /\ tasks[t].verifies # 0 /\ tasks[s].deps = tasks[t].deps => s = t
      BY DEF FixedOnce, OwnTests
    <2>2. ASSUME NEW i \in 1..Len(issues), issues[i].auto
          PROVE  Cardinality({t \in Ids : tasks[t].verifies = i}) <= 1
      <3>1. i # 0
        OBVIOUS
      <3>2. \A x, y \in {t \in Ids : tasks[t].verifies = i} : x = y
        BY <2>2, <3>1 DEF Feeds, OneReverification, Once
      <3> QED BY <3>2, AtMostOne
    <2> QED BY <2>1, <2>2 DEF FeedbackOnce, Feeds, OneBlocker
  <1> QED BY <1>1, FixedAlways, PTL

=============================================================================
