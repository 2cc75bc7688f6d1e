-------------------------- MODULE TurnQueueProofs --------------------------
(***************************************************************************)
(* Theorems about TurnQueue for any set of turns, any number of flushes    *)
(* and a deletion at any time: the typing, the exactness of busy, mutual   *)
(* exclusion of turns, and that the queue implements SerialTurns.          *)
(*                                                                         *)
(* The inductive invariant joins the three views the code has of a turn:   *)
(* the queue (jobs), the goroutines (push and drain) and the closure in a  *)
(* goroutine's hands (job), with the ghost `fate` as the common ground.    *)
(***************************************************************************)
EXTENDS TurnQueue, FiniteSetTheorems, TLAPS

Holding(d) == drain[d] \in {"lookup", "run"}

\* A drain goroutine exists only after its push launched it.
LaunchOrder == \A d \in Turns : push[d] # "returned" => drain[d] = "none"

\* A drainer between two iterations has nothing in hand; one inside has one
\* active turn, and every active turn is in the hands of some drainer.
HandsExact ==
    /\ \A d \in Turns : Holding(d) => job[d] \in Turns /\ fate[job[d]] = "active"
    /\ \A t \in Turns : fate[t] = "active" => \E d \in Turns : Holding(d) /\ job[d] = t

\* What is in the queue is exactly queued, once.
QueueExact ==
    /\ \A i \in DOMAIN jobs : fate[jobs[i]] = "queued"
    /\ \A i, j \in DOMAIN jobs : jobs[i] = jobs[j] => i = j

\* A turn nobody pushed is new.
NewExact == \A t \in Turns : push[t] = "idle" => fate[t] = "new"

IInv ==
    /\ TypeOK
    /\ BusyIsExact
    /\ LaunchOrder
    /\ HandsExact
    /\ QueueExact
    /\ NewExact

-----------------------------------------------------------------------------

\* The first state has no goroutine and an empty queue.
LEMMA InitIInv == Init => IInv
  <1> SUFFICES ASSUME Init PROVE IInv
    OBVIOUS
  <1> USE DEF Init
  <1>1. TypeOK
    <2>1. jobs \in Seq(Turns)
      OBVIOUS
    <2>2. front \in [Turns -> SUBSET Turns] /\ ahead \in [Turns -> Nat]
      OBVIOUS
    <2> QED BY <2>1, <2>2 DEF TypeOK, Fates, PushPC, DrainPC
  <1>2. \A d \in Turns : ~Serving(d) /\ ~Holding(d)
    BY DEF Serving, Holding
  <1>3. BusyIsExact
    BY <1>2 DEF BusyIsExact
  <1>4. LaunchOrder /\ HandsExact /\ QueueExact /\ NewExact
    BY <1>2 DEF LaunchOrder, HandsExact, QueueExact, NewExact
  <1> QED BY <1>1, <1>3, <1>4 DEF IInv

\* Typing on its own: it needs the queue's typing and HandsExact, because a
\* finished turn is the one in the drainer's hands.
LEMMA NextTypeOK == TypeOK /\ HandsExact /\ [Next]_vars => TypeOK'
  <1> SUFFICES ASSUME TypeOK, HandsExact, [Next]_vars PROVE TypeOK'
    OBVIOUS
  <1> USE DEF TypeOK, Fates, PushPC, DrainPC
  <1>1. ASSUME NEW t \in Turns, Push(t) PROVE TypeOK'
    <2>1. AheadOf \in Nat
      BY DEF AheadOf
    <2>2. InHand \cup Queued \subseteq Turns
      BY DEF InHand, Queued
    <2> QED BY <1>1, <2>1, <2>2 DEF Push
  <1>2. ASSUME NEW t \in Turns, Drainer(t) PROVE TypeOK'
    <2>1. CASE Launch(t)
      BY <2>1 DEF Launch
    <2>2. CASE DrainExit(t)
      BY <2>2 DEF DrainExit
    <2>3. CASE DrainTake(t)
      <3>1. Head(jobs) \in Turns /\ Tail(jobs) \in Seq(Turns)
        BY <2>3 DEF DrainTake
      <3> QED BY <2>3, <3>1 DEF DrainTake
    <2>4. CASE StartTurn(t)
      BY <2>4 DEF StartTurn
    <2>5. CASE SkipTurn(t)
      BY <2>5 DEF SkipTurn, Release
    <2> QED BY <1>2, <2>1, <2>2, <2>3, <2>4, <2>5 DEF Drainer
  <1>3. ASSUME NEW t \in Turns, EndTurn(t) PROVE TypeOK'
    BY <1>3 DEF EndTurn, Release
  <1>4. CASE Flush
    BY <1>4 DEF Flush
  <1>5. CASE DeleteTask
    BY <1>5 DEF DeleteTask
  <1>6. CASE UNCHANGED vars
    BY <1>6 DEF vars
  <1> QED BY <1>1, <1>2, <1>3, <1>4, <1>5, <1>6 DEF Next

\* At a push the queue grows by a turn that was nowhere else.
LEMMA PushIInv ==
  ASSUME IInv, NEW t \in Turns, Push(t), TypeOK'
  PROVE  IInv'
  <1> USE DEF IInv, TypeOK, Push, PushPC, DrainPC, Fates
  <1>1. \A d \in Turns : Serving(d)' <=> (Serving(d) \/ (d = t /\ ~busy))
    BY DEF LaunchOrder, Serving
  <1>2. BusyIsExact'
    <2>1. busy' /\ jobs' # <<>>
      OBVIOUS
    <2>2. \E d \in Turns : Serving(d)'
      BY <1>1 DEF BusyIsExact
    <2>3. \A d, e \in Turns : Serving(d)' /\ Serving(e)' => d = e
      BY <1>1 DEF BusyIsExact
    <2> QED BY <2>1, <2>2, <2>3 DEF BusyIsExact
  <1>3. LaunchOrder'
    BY DEF LaunchOrder
  <1>4. fate[t] = "new"
    BY DEF NewExact
  <1>5. HandsExact'
    BY <1>4 DEF HandsExact, Holding
  <1>6. QueueExact'
    <2>1. DOMAIN jobs' = DOMAIN jobs \cup {Len(jobs) + 1}
      OBVIOUS
    <2>2. /\ jobs'[Len(jobs) + 1] = t
          /\ \A i \in DOMAIN jobs : jobs'[i] = jobs[i] /\ jobs[i] # t
      BY <1>4 DEF QueueExact
    <2> QED BY <2>1, <2>2 DEF QueueExact
  <1>7. NewExact'
    BY DEF NewExact
  <1> QED BY <1>2, <1>3, <1>5, <1>6, <1>7

\* Taking a job moves the head of the queue into the drainer's hands.
LEMMA TakeIInv ==
  ASSUME IInv, NEW d \in Turns, DrainTake(d), TypeOK'
  PROVE  IInv'
  <1> USE DEF IInv, TypeOK, DrainTake, PushPC, DrainPC, Fates
  <1> DEFINE h == Head(jobs)
  <1>1. h \in Turns /\ h = jobs[1] /\ 1 \in DOMAIN jobs
    OBVIOUS
  <1>2. fate[h] = "queued"
    BY <1>1 DEF QueueExact
  <1>3. \A e \in Turns : Serving(e)' <=> Serving(e)
    BY DEF Serving
  <1>4. BusyIsExact'
    BY <1>3 DEF BusyIsExact
  <1>5. LaunchOrder'
    BY DEF LaunchOrder
  <1>6. HandsExact'
    <2>1. \A e \in Turns : Holding(e)' <=> (Holding(e) \/ e = d)
      BY DEF Holding
    <2>2. ~Holding(d)
      BY DEF Holding
    <2>3. \A e \in Turns : Holding(e) => job'[e] = job[e] /\ job[e] # h
      BY <1>2, <2>2 DEF HandsExact
    <2> QED BY <1>1, <1>2, <2>1, <2>2, <2>3 DEF HandsExact
  <1>7. QueueExact'
    <2>1. \A i \in DOMAIN jobs' : i + 1 \in DOMAIN jobs /\ jobs'[i] = jobs[i + 1]
      OBVIOUS
    <2>2. \A i \in DOMAIN jobs' : jobs'[i] # h
      BY <1>1, <2>1 DEF QueueExact
    <2> QED BY SMTT(30), <2>1, <2>2 DEF QueueExact
  <1>8. NewExact'
    BY <1>2 DEF NewExact
  <1> QED BY <1>4, <1>5, <1>6, <1>7, <1>8

\* Giving a turn up, or ending it, empties the hands of the only drainer.
LEMMA ReleaseIInv ==
  ASSUME IInv, NEW d \in Turns, Holding(d), Release(d), TypeOK'
  PROVE  IInv'
  <1> USE DEF IInv, TypeOK, Release, PushPC, DrainPC, Fates
  <1>1. job[d] \in Turns /\ fate[job[d]] = "active"
    BY DEF HandsExact
  <1>2. \A e \in Turns : Serving(e)' <=> Serving(e)
    BY DEF Serving, Holding
  <1>3. BusyIsExact'
    BY <1>2 DEF BusyIsExact
  <1>4. LaunchOrder'
    BY DEF LaunchOrder, Holding
  <1>5. \A e \in Turns : Holding(e) => e = d
    BY DEF BusyIsExact, Serving, Holding
  <1>6. HandsExact'
    <2>1. \A e \in Turns : ~Holding(e)'
      BY <1>5 DEF Holding
    <2>2. \A t \in Turns : fate'[t] # "active"
      BY <1>1, <1>5 DEF HandsExact
    <2> QED BY <2>1, <2>2 DEF HandsExact
  <1>7. QueueExact'
    BY <1>1 DEF QueueExact
  <1>8. NewExact'
    BY <1>1 DEF NewExact
  <1> QED BY <1>3, <1>4, <1>6, <1>7, <1>8

\* A flush takes from the queue only: no turn in hand is queued.
LEMMA FlushIInv ==
  ASSUME IInv, Flush, TypeOK'
  PROVE  IInv'
  <1> USE DEF IInv, TypeOK, Flush, PushPC, DrainPC, Fates
  <1>1. \A t \in Turns : t \in Queued <=> \E i \in DOMAIN jobs : jobs[i] = t
    BY DEF Queued
  <1>2. \A t \in Turns : t \in Queued => fate[t] = "queued"
    BY <1>1 DEF QueueExact
  <1>3. BusyIsExact'
    BY DEF BusyIsExact, Serving
  <1>4. LaunchOrder' /\ QueueExact'
    BY DEF LaunchOrder, QueueExact
  <1>5. HandsExact'
    BY <1>2 DEF HandsExact, Holding
  <1>6. NewExact'
    BY <1>2 DEF NewExact
  <1> QED BY <1>3, <1>4, <1>5, <1>6

LEMMA NextIInv == IInv /\ [Next]_vars => IInv'
  <1> SUFFICES ASSUME IInv, [Next]_vars PROVE IInv'
    OBVIOUS
  <1>0. TypeOK'
    BY NextTypeOK DEF IInv
  <1>1. ASSUME NEW t \in Turns, Push(t) PROVE IInv'
    BY <1>0, <1>1, PushIInv
  <1>2. ASSUME NEW d \in Turns, Drainer(d) PROVE IInv'
    <2>1. CASE Launch(d)
      <3>1. \A e \in Turns : Serving(e)' <=> Serving(e)
        BY <2>1 DEF Launch, Serving, IInv, TypeOK, PushPC, DrainPC
      <3>2. BusyIsExact'
        BY <2>1, <3>1 DEF Launch, BusyIsExact, IInv
      <3>3. LaunchOrder' /\ QueueExact' /\ NewExact'
        BY <2>1 DEF Launch, LaunchOrder, QueueExact, NewExact, IInv, TypeOK,
                    PushPC, DrainPC
      <3>4. \A e \in Turns : Holding(e)' <=> Holding(e)
        BY <2>1 DEF Launch, Holding, LaunchOrder, IInv, TypeOK, PushPC, DrainPC
      <3>5. HandsExact'
        BY <2>1, <3>4 DEF Launch, HandsExact, IInv
      <3> QED BY <1>0, <3>2, <3>3, <3>5 DEF IInv
    <2>2. CASE DrainExit(d)
      <3>1. \A e \in Turns : Serving(e)' <=> (Serving(e) /\ e # d)
        BY <2>2 DEF DrainExit, Serving, IInv, TypeOK, PushPC, DrainPC, LaunchOrder
      <3>2. Serving(d)
        BY <2>2 DEF DrainExit, Serving
      <3>3. BusyIsExact'
        BY <2>2, <3>1, <3>2 DEF DrainExit, BusyIsExact, IInv
      <3>4. LaunchOrder' /\ HandsExact' /\ QueueExact' /\ NewExact'
        BY <2>2 DEF DrainExit, LaunchOrder, HandsExact, QueueExact, NewExact, Holding,
                    IInv, TypeOK, PushPC, DrainPC
      <3> QED BY <1>0, <3>3, <3>4 DEF IInv
    <2>3. CASE DrainTake(d)
      BY <1>0, <2>3, TakeIInv
    <2>4. CASE StartTurn(d)
      <3>1. \A e \in Turns : (Serving(e)' <=> Serving(e)) /\ (Holding(e)' <=> Holding(e))
        BY <2>4 DEF StartTurn, Serving, Holding, IInv, TypeOK, PushPC, DrainPC
      <3>2. BusyIsExact' /\ HandsExact'
        BY <2>4, <3>1 DEF StartTurn, BusyIsExact, HandsExact, IInv
      <3>3. LaunchOrder' /\ QueueExact' /\ NewExact'
        BY <2>4 DEF StartTurn, LaunchOrder, QueueExact, NewExact, IInv, TypeOK,
                    PushPC, DrainPC
      <3> QED BY <1>0, <3>2, <3>3 DEF IInv
    <2>5. CASE SkipTurn(d)
      BY <1>0, <2>5, ReleaseIInv DEF SkipTurn, Holding
    <2> QED BY <1>2, <2>1, <2>2, <2>3, <2>4, <2>5 DEF Drainer
  <1>3. ASSUME NEW d \in Turns, EndTurn(d) PROVE IInv'
    BY <1>0, <1>3, ReleaseIInv DEF EndTurn, Holding
  <1>4. CASE Flush
    BY <1>0, <1>4, FlushIInv
  <1>5. CASE DeleteTask
    <2>1. \A d \in Turns : (Serving(d)' <=> Serving(d)) /\ (Holding(d)' <=> Holding(d))
      BY <1>5 DEF DeleteTask, Serving, Holding
    <2>2. BusyIsExact' /\ HandsExact'
      BY <1>5, <2>1 DEF DeleteTask, BusyIsExact, HandsExact, IInv
    <2>3. LaunchOrder' /\ QueueExact' /\ NewExact'
      BY <1>5 DEF DeleteTask, LaunchOrder, QueueExact, NewExact, IInv
    <2> QED BY <1>0, <2>2, <2>3 DEF IInv
  <1>6. CASE UNCHANGED vars
    BY <1>6 DEF vars, IInv, TypeOK, BusyIsExact, LaunchOrder, HandsExact,
                QueueExact, NewExact, Serving, Holding
  <1> QED BY <1>1, <1>2, <1>3, <1>4, <1>5, <1>6 DEF Next

THEOREM Invariance == Spec => []IInv
  <1>1. Init => IInv
    BY InitIInv
  <1>2. IInv /\ [Next]_vars => IInv'
    BY NextIInv
  <1> QED BY <1>1, <1>2, PTL DEF Spec

-----------------------------------------------------------------------------

\* Every variable of the queue keeps its type (turn_queue.go:32-36).
THEOREM TypeCorrect == Spec => []TypeOK
  <1>1. IInv => TypeOK
    BY DEF IInv
  <1> QED BY <1>1, Invariance, PTL

\* busy is set exactly while one goroutine is committed to drain the queue, so
\* that no job is stranded and no second drainer starts (push and drain).
THEOREM BusyExact == Spec => []BusyIsExact
  <1>1. IInv => BusyIsExact
    BY DEF IInv
  <1> QED BY <1>1, Invariance, PTL

\* At most one turn of the task runs at any time, for any number of callers
\* that submit, cancel and delete concurrently (turn_queue.go:12-31).
THEOREM MutualExclusion == Spec => []OneTurnAtATime
  <1>1. IInv => OneTurnAtATime
    BY DEF IInv, BusyIsExact, OneTurnAtATime, Serving
  <1> QED BY <1>1, Invariance, PTL

\* The queue with its mutex, flag and goroutines implements the serial line of
\* SerialTurns: first in, first out, one active turn, a flush drops the rest.
THEOREM ImplementsSerialTurns == Spec => SerialLine
  <1>1. Init => Line!Init
    BY DEF Init, Line!Init
  <1>2. IInv /\ [Next]_vars => [Line!Next]_(Line!vars)
    <2> SUFFICES ASSUME IInv, [Next]_vars PROVE [Line!Next]_(Line!vars)
      OBVIOUS
    <2> USE DEF IInv, TypeOK, PushPC, DrainPC, Fates
    <2>1. ASSUME NEW t \in Turns, Push(t) PROVE Line!Submit(t)
      BY <2>1 DEF Push, Line!Submit, NewExact
    <2>2. ASSUME NEW d \in Turns, Drainer(d) PROVE [Line!Next]_(Line!vars)
      <3>1. CASE DrainTake(d)
        <4>1. \A t \in Turns : fate[t] # "active"
          <5>1. ~Holding(d) /\ Serving(d)
            BY <3>1 DEF DrainTake, Holding, Serving
          <5>2. \A e \in Turns : Holding(e) => Serving(e)
            BY DEF Holding, Serving
          <5> QED BY <5>1, <5>2 DEF BusyIsExact, HandsExact
        <4>2. Line!Active = {}
          BY <4>1 DEF Line!Active
        <4> QED BY <3>1, <4>2 DEF DrainTake, Line!Begin, Line!Next
      <3>2. CASE SkipTurn(d)
        <4>1. job[d] \in Turns /\ Line!Finish(job[d])
          BY <3>2 DEF SkipTurn, Release, Line!Finish, HandsExact, Holding
        <4> QED BY <4>1 DEF Line!Next
      <3>3. CASE Launch(d) \/ DrainExit(d) \/ StartTurn(d)
        BY <3>3 DEF Launch, DrainExit, StartTurn, Line!vars
      <3> QED BY <2>2, <3>1, <3>2, <3>3 DEF Drainer
    <2>3. ASSUME NEW d \in Turns, EndTurn(d) PROVE Line!Next
      <3>1. job[d] \in Turns /\ Line!Finish(job[d])
        BY <2>3 DEF EndTurn, Release, Line!Finish, HandsExact, Holding
      <3> QED BY <3>1 DEF Line!Next
    <2>4. ASSUME Flush PROVE Line!Next
      BY <2>4 DEF Flush, Line!Flush, Line!Next, Queued, Line!Waiting
    <2>5. ASSUME DeleteTask \/ UNCHANGED vars PROVE UNCHANGED Line!vars
      BY <2>5 DEF DeleteTask, vars, Line!vars
    <2> QED BY <2>1, <2>2, <2>3, <2>4, <2>5 DEF Next, Line!Next
  <1> QED BY <1>1, <1>2, Invariance, PTL DEF Spec, SerialLine, Line!Spec

-----------------------------------------------------------------------------
(* The receipt of push: a count against a set *)

\* The queue holds as many turns as it has jobs, for none is queued twice.
LEMMA QueuedCount ==
  ASSUME TypeOK, QueueExact
  PROVE  IsFiniteSet(Queued) /\ Cardinality(Queued) = Len(jobs)
  <1> DEFINE D == 1..Len(jobs)
             f == [i \in D |-> jobs[i]]
  <1>1. Len(jobs) \in Nat /\ DOMAIN jobs = D
    BY DEF TypeOK
  <1>2. IsFiniteSet(D) /\ Cardinality(D) = Len(jobs)
    <2>1. \A n \in Nat : IsFiniteSet(1..n)
                       /\ Cardinality(1..n) = IF 1 > n THEN 0 ELSE n - 1 + 1
      BY FS_Interval
    <2> QED BY <1>1, <2>1
  <1>3. f \in Bijection(D, Queued)
    <2>1. f \in [D -> Queued]
      BY <1>1 DEF Queued
    <2>2. \A i, j \in D : f[i] = f[j] => i = j
      BY <1>1 DEF QueueExact
    <2>3. \A t \in Queued : \E i \in D : f[i] = t
      BY <1>1 DEF Queued
    <2> QED BY <2>1, <2>2, <2>3 DEF Bijection, Injection, Surjection, IsInjective
  <1> QED BY <1>2, <1>3, FS_Bijection DEF ExistsBijection

\* One drainer holds one turn, and none when the queue is not busy.
LEMMA InHandCount ==
  ASSUME TypeOK, BusyIsExact, HandsExact
  PROVE  /\ IsFiniteSet(InHand)
         /\ Cardinality(InHand) \in {0, 1}
         /\ ~busy => InHand = {}
  <1>1. \A d \in Turns : Holding(d) => Serving(d)
    BY DEF Holding, Serving
  <1>2. ~busy => InHand = {}
    BY <1>1 DEF InHand, BusyIsExact, HandsExact
  <1>3. \A t, u \in InHand : t = u
    BY <1>1 DEF InHand, BusyIsExact, HandsExact
  <1>4. CASE InHand = {}
    BY <1>2, <1>4, FS_EmptySet
  <1>5. CASE InHand # {}
    <2>1. PICK t : InHand = {t}
      BY <1>3, <1>5
    <2> QED BY <1>2, <2>1, FS_Singleton
  <1> QED BY <1>4, <1>5

\* What push returns against what is really in front.
LEMMA AheadBounds ==
  ASSUME IInv
  PROVE  AheadOf \in {Cardinality(InHand \cup Queued), Cardinality(InHand \cup Queued) + 1}
  <1>1. IsFiniteSet(Queued) /\ Cardinality(Queued) = Len(jobs) /\ Len(jobs) \in Nat
    BY QueuedCount DEF IInv, TypeOK
  <1>2. IsFiniteSet(InHand) /\ Cardinality(InHand) \in {0, 1} /\ (~busy => InHand = {})
    BY InHandCount DEF IInv
  <1>3. InHand \cap Queued = {}
    BY DEF IInv, QueueExact, InHand, Queued
  <1>4. Cardinality(InHand \cap Queued) = 0
    BY <1>3, FS_EmptySet
  <1>5. Cardinality(InHand \cup Queued) = Cardinality(InHand) + Len(jobs)
    <2>1. Cardinality(InHand \cup Queued)
            = Cardinality(InHand) + Cardinality(Queued) - Cardinality(InHand \cap Queued)
      BY <1>1, <1>2, FS_Union
    <2> QED BY <1>1, <1>2, <1>4, <2>1
  <1>6. CASE busy
    BY <1>1, <1>2, <1>5, <1>6 DEF AheadOf
  <1>7. CASE ~busy
    <2>1. jobs = <<>> /\ Len(jobs) = 0
      BY <1>7 DEF IInv, BusyIsExact, TypeOK
    <2>2. Cardinality(InHand) = 0
      BY <1>2, <1>7, FS_EmptySet
    <2> QED BY <1>5, <1>7, <2>1, <2>2 DEF AheadOf
  <1> QED BY <1>6, <1>7, <1>2 DEF IInv, TypeOK

\* push never tells a turn of fewer turns in front than there are, and of at most
\* one too many, whoever drains or flushes meanwhile (turn_queue.go:40-52).
THEOREM ReceiptBounds == Spec => []ReceiptNeverShort
  <1>1. Init => ReceiptNeverShort
    BY DEF Init, ReceiptNeverShort
  <1>2. IInv /\ ReceiptNeverShort /\ [Next]_vars => ReceiptNeverShort'
    <2> SUFFICES ASSUME IInv, ReceiptNeverShort, [Next]_vars,
                        NEW u \in Turns, push'[u] # "idle"
                 PROVE  ahead'[u] \in {Cardinality(front'[u]), Cardinality(front'[u]) + 1}
      BY DEF ReceiptNeverShort
    <2> USE DEF IInv, TypeOK, ReceiptNeverShort
    <2>1. ASSUME NEW t \in Turns, Push(t), u = t
          PROVE  ahead'[u] \in {Cardinality(front'[u]), Cardinality(front'[u]) + 1}
      <3>1. ahead'[u] = AheadOf /\ front'[u] = InHand \cup Queued
        BY <2>1 DEF Push
      <3> QED BY <3>1, AheadBounds
    <2>2. ASSUME NEW t \in Turns, Push(t), u # t
          PROVE  push[u] # "idle" /\ ahead'[u] = ahead[u] /\ front'[u] = front[u]
      BY <2>2 DEF Push
    <2>3. ASSUME NEW t \in Turns, Drainer(t) \/ EndTurn(t)
          PROVE  push[u] # "idle" /\ UNCHANGED <<ahead, front>>
      BY <2>3 DEF Drainer, Launch, DrainExit, DrainTake, StartTurn, SkipTurn, EndTurn, Release
    <2>4. ASSUME Flush \/ DeleteTask \/ UNCHANGED vars
          PROVE  push[u] # "idle" /\ UNCHANGED <<ahead, front>>
      BY <2>4 DEF Flush, DeleteTask, vars
    <2> QED BY <2>1, <2>2, <2>3, <2>4 DEF Next
  <1> QED BY <1>1, <1>2, Invariance, PTL DEF Spec

=============================================================================
