------------------------- MODULE AgentManagerProofs -------------------------
(***************************************************************************)
(* Theorems about AgentManager for any finite set of calls, any tasks and  *)
(* any number of slots: the slots are exactly accounted for, no adapter is *)
(* forgotten, a session has one prompt at a time, and a project never runs *)
(* more agents than it has slots.                                          *)
(*                                                                         *)
(* The inductive invariant adds to those properties that the three ways to *)
(* owe a slot exclude each other (Apart): an unregistered opener, a        *)
(* registered session and a session being closed are never the same.       *)
(***************************************************************************)
EXTENDS AgentManager, FiniteSetTheorems, TLAPS

Opening(c) == pc[c] \in {"idle", "acquire", "create", "register", "withdraw"}

\* A call that has not returned from Open has no registered and no closing
\* session, before it is created it has no adapter, and Close takes a session
\* from the table before anything else.
Apart ==
    \A c \in Calls :
        /\ pc[c] \in {"idle", "acquire", "create"} => adapter[c] = "none"
        /\ Opening(c) => ~Registered(c) /\ closing[c] = "no"
        /\ Registered(c) => closing[c] = "no"

\* A call about to prompt has found a session.
Found == \A c \in Calls : pc[c] \in {"start", "run"} => sess[c] \in Calls

IInv ==
    /\ TypeOK
    /\ SlotsAreOwed
    /\ NoAdapterIsForgotten
    /\ OnePromptPerSession
    /\ Apart
    /\ Found

-----------------------------------------------------------------------------

\* No call owes a slot before it has taken one.
LEMMA InitIInv == Init => IInv
  <1> SUFFICES ASSUME Init PROVE IInv
    OBVIOUS
  <1> USE CallsAssumption, SlotsAssumption, NoSessionAssumption DEF Init
  <1>1. TypeOK
    BY DEF TypeOK
  <1>2. Owners = {}
    BY DEF Owners, Registered
  <1>3. SlotsAreOwed
    BY <1>2, FS_EmptySet DEF SlotsAreOwed
  <1>4. NoAdapterIsForgotten /\ OnePromptPerSession
    BY DEF NoAdapterIsForgotten, OnePromptPerSession
  <1>5. Apart /\ Found
    BY DEF Apart, Found, Opening, Registered
  <1> QED BY <1>1, <1>3, <1>4, <1>5 DEF IInv

\* The owners of slots are finitely many, and taking one in or out counts by one.
LEMMA OwnersFinite == IsFiniteSet(Owners) /\ Cardinality(Owners) \in Nat
  <1>1. Owners \in SUBSET Calls
    BY DEF Owners
  <1> QED BY <1>1, CallsAssumption, FS_Subset, FS_CardinalityType

\* Every step keeps the account of the slots, and their bound.
LEMMA SlotsStep ==
    ASSUME IInv, [Next]_vars
    PROVE  SlotsAreOwed' /\ held' \in 0 .. Slots
  <1> USE CallsAssumption, SlotsAssumption, NoSessionAssumption DEF IInv
  <1> DEFINE Same == Owners' = Owners /\ held' = held
             More(c) == Owners' = Owners \cup {c} /\ c \notin Owners /\ held' = held + 1
                        /\ held < Slots
             Less(c) == Owners' = Owners \ {c} /\ c \in Owners
                        /\ held' = IF held > 0 THEN held - 1 ELSE held
  <1>0. held \in 0 .. Slots /\ held = Cardinality(Owners)
    BY DEF TypeOK, SlotsAreOwed
  <1>1. CASE Same
    BY <1>0, <1>1 DEF SlotsAreOwed
  <1>2. ASSUME NEW c \in Calls, More(c) PROVE SlotsAreOwed' /\ held' \in 0 .. Slots
    <2>1. Cardinality(Owners \cup {c}) = Cardinality(Owners) + 1
      BY <1>2, OwnersFinite, FS_AddElement
    <2>2. held' = Cardinality(Owners')
      BY <1>0, <1>2, <2>1
    <2>3. held' \in 0 .. Slots
      BY <1>0, <1>2
    <2> QED BY <2>2, <2>3 DEF SlotsAreOwed
  <1>3. ASSUME NEW c \in Calls, Less(c) PROVE SlotsAreOwed' /\ held' \in 0 .. Slots
    <2>1. Cardinality(Owners \ {c}) = Cardinality(Owners) - 1
      BY <1>3, OwnersFinite, FS_RemoveElement
    <2>2. Cardinality(Owners \ {c}) \in Nat
      BY OwnersFinite, FS_RemoveElement, FS_CardinalityType
    <2> QED BY <1>0, <1>3, <2>1, <2>2, OwnersFinite DEF SlotsAreOwed
  <1>4. CASE UNCHANGED vars
    <2>1. Same
      BY <1>4 DEF vars, Owners, Registered
    <2> QED BY <1>1, <2>1
  <1>5. ASSUME NEW c \in Calls, CallStep(c) \/ PromptReturns(c)
        PROVE  SlotsAreOwed' /\ held' \in 0 .. Slots
    <2> USE DEF TypeOK, Apart, Opening, Owners, Registered, Goto
    <2>1. CASE Check(c) \/ LookUp(c) \/ Start(c) \/ PromptReturns(c) \/ PromptFails(c)
               \/ \E next \in {"lookup", "done"} : Refuse(c, next)
      <3>1. Same
        BY <2>1 DEF Check, LookUp, Start, PromptReturns, PromptFails, Refuse, Return
      <3> QED BY <1>1, <3>1
    <2>2. CASE Acquire(c)
      <3>1. More(c)
        BY <2>2 DEF Acquire
      <3> QED BY <1>2, <3>1
    <2>3. CASE Create(c)
      <3>1. Same
        BY <2>3 DEF Create
      <3> QED BY <1>1, <3>1
    <2>4. CASE CreateFails(c)
      <3>1. c \in Owners /\ Owners' = Owners \ {c} /\ held' = held - 1
        BY <2>4 DEF CreateFails
      <3>2. held > 0
        BY <1>0, <3>1, OwnersFinite, FS_EmptySet
      <3> QED BY <1>0, <1>3, <3>1, <3>2
    <2>5. CASE Register(c)
      <3>1. Same
        BY <2>5 DEF Register
      <3> QED BY <1>1, <3>1
    <2>6. CASE Withdraw(c)
      <3>1. c \in Owners /\ Owners' = Owners \ {c} /\ held' = held - 1
        BY <2>6 DEF Withdraw
      <3>2. held > 0
        BY SMTT(30), <1>0, <3>1, OwnersFinite, FS_EmptySet
      <3> QED BY <1>0, <1>3, <3>1, <3>2
    <2> QED BY <1>5, <2>1, <2>2, <2>3, <2>4, <2>5, <2>6 DEF CallStep
  <1>6. ASSUME NEW s \in Calls, CloseStep(s)
        PROVE  SlotsAreOwed' /\ held' \in 0 .. Slots
    <2> USE DEF TypeOK, Apart, Opening, Owners, Registered
    <2>1. CASE Interrupt(s) \/ CloseAdapter(s)
      <3>1. Same
        BY <2>1 DEF Interrupt, CloseAdapter
      <3> QED BY <1>1, <3>1
    <2>2. CASE Release(s)
      <3>1. Less(s)
        BY <2>2 DEF Release
      <3> QED BY <1>3, <3>1
    <2> QED BY <1>6, <2>1, <2>2 DEF CloseStep
  <1>7. ASSUME NEW t \in Tasks, Close(t) \/ ReaperPicks(t)
        PROVE  SlotsAreOwed' /\ held' \in 0 .. Slots
    <2>1. Same
      BY <1>7 DEF Close, ReaperPicks, Detach, TypeOK, Apart, Opening, Owners, Registered
    <2> QED BY <1>1, <2>1
  <1>8. CASE ReaperCloses
    <2>1. Same
      BY <1>8 DEF ReaperCloses, Detach, TypeOK, Apart, Opening, Owners, Registered
    <2> QED BY <1>1, <2>1
  <1> QED BY <1>4, <1>5, <1>6, <1>7, <1>8 DEF Next

\* Every step keeps the types and the separation of openers, registered sessions
\* and closing ones; the bound of the slots comes from SlotsStep.
LEMMA ShapeStep ==
    ASSUME IInv, [Next]_vars, held' \in 0 .. Slots
    PROVE  TypeOK' /\ Apart' /\ Found'
  <1> USE CallsAssumption, SlotsAssumption, NoSessionAssumption, NoTaskAssumption
          DEF IInv, TypeOK
  <1>1. CASE UNCHANGED vars
    BY <1>1 DEF vars, Apart, Found, Opening, Registered
  <1>2. ASSUME NEW c \in Calls, CallStep(c) \/ PromptReturns(c)
        PROVE  TypeOK' /\ Apart' /\ Found'
    <2> USE DEF Apart, Found, Opening, Registered, Goto
    <2>1. CASE Check(c)
      BY <2>1 DEF Check
    <2>2. CASE Acquire(c)
      BY <2>2 DEF Acquire
    <2>3. CASE Create(c) \/ CreateFails(c)
      BY <2>3 DEF Create, CreateFails
    <2>4. CASE Register(c)
      BY <2>4 DEF Register
    <2>5. CASE Withdraw(c)
      BY <2>5 DEF Withdraw
    <2>6. CASE LookUp(c)
      BY <2>6 DEF LookUp
    <2>7. CASE Start(c) \/ \E next \in {"lookup", "done"} : Refuse(c, next)
      BY <2>7 DEF Start, Refuse
    <2>8. CASE PromptReturns(c) \/ PromptFails(c)
      BY <2>8 DEF PromptReturns, PromptFails, Return
    <2> QED BY <1>2, <2>1, <2>2, <2>3, <2>4, <2>5, <2>6, <2>7, <2>8 DEF CallStep
  <1>3. ASSUME NEW s \in Calls, CloseStep(s)
        PROVE  TypeOK' /\ Apart' /\ Found'
    BY <1>3 DEF CloseStep, Interrupt, CloseAdapter, Release, Apart, Found, Opening, Registered
  <1>4. ASSUME NEW t \in Tasks, Close(t) \/ ReaperPicks(t)
        PROVE  TypeOK' /\ Apart' /\ Found'
    BY <1>4 DEF Close, ReaperPicks, Detach, Apart, Found, Opening, Registered
  <1>5. CASE ReaperCloses
    BY <1>5 DEF ReaperCloses, Detach, Apart, Found, Opening, Registered
  <1> QED BY <1>1, <1>2, <1>3, <1>4, <1>5 DEF Next

\* Every step that opens an adapter, or takes its session from where it was
\* remembered, remembers it elsewhere.
LEMMA AdapterStep ==
    ASSUME IInv, [Next]_vars
    PROVE  NoAdapterIsForgotten'
  <1> USE CallsAssumption, NoSessionAssumption
          DEF IInv, TypeOK, NoAdapterIsForgotten, Apart, Opening, Registered
  <1>1. CASE UNCHANGED vars
    BY <1>1 DEF vars
  <1>2. ASSUME NEW c \in Calls, CallStep(c) \/ PromptReturns(c)
        PROVE  NoAdapterIsForgotten'
    BY <1>2 DEF CallStep, Check, Acquire, Create, CreateFails, Register, Withdraw, LookUp,
                Start, Refuse, PromptReturns, PromptFails, Return, Goto
  <1>3. ASSUME NEW s \in Calls, CloseStep(s)
        PROVE  NoAdapterIsForgotten'
    BY <1>3 DEF CloseStep, Interrupt, CloseAdapter, Release
  <1>4. ASSUME NEW t \in Tasks, Close(t) \/ ReaperPicks(t)
        PROVE  NoAdapterIsForgotten'
    BY <1>4 DEF Close, ReaperPicks, Detach
  <1>5. CASE ReaperCloses
    BY <1>5 DEF ReaperCloses, Detach
  <1> QED BY <1>1, <1>2, <1>3, <1>4, <1>5 DEF Next

\* Only Start begins a prompt, on a session without one, and only its own call
\* ends it.
LEMMA PromptStep ==
    ASSUME IInv, [Next]_vars
    PROVE  OnePromptPerSession'
  <1> USE DEF IInv, TypeOK, Found, OnePromptPerSession
  <1>1. CASE UNCHANGED vars
    BY <1>1 DEF vars
  <1>2. ASSUME NEW c \in Calls, CallStep(c) \/ PromptReturns(c)
        PROVE  OnePromptPerSession'
    <2> USE DEF Goto
    <2>1. CASE Start(c)
      BY <2>1 DEF Start
    <2>2. CASE PromptReturns(c) \/ PromptFails(c)
      BY <2>2 DEF PromptReturns, PromptFails, Return
    <2>3. CASE Check(c) \/ Acquire(c) \/ Create(c) \/ CreateFails(c) \/ Register(c)
               \/ Withdraw(c)
      BY <2>3 DEF Check, Acquire, Create, CreateFails, Register, Withdraw
    <2>4. CASE LookUp(c) \/ \E next \in {"lookup", "done"} : Refuse(c, next)
      BY <2>4 DEF LookUp, Refuse
    <2> QED BY <1>2, <2>1, <2>2, <2>3, <2>4 DEF CallStep
  <1>3. ASSUME NEW s \in Calls, CloseStep(s)
        PROVE  OnePromptPerSession'
    BY <1>3 DEF CloseStep, Interrupt, CloseAdapter, Release
  <1>4. ASSUME NEW t \in Tasks, Close(t) \/ ReaperPicks(t)
        PROVE  OnePromptPerSession'
    BY <1>4 DEF Close, ReaperPicks
  <1>5. CASE ReaperCloses
    BY <1>5 DEF ReaperCloses
  <1> QED BY <1>1, <1>2, <1>3, <1>4, <1>5 DEF Next

\* The invariant is inductive.
LEMMA NextIInv == ASSUME IInv, [Next]_vars PROVE IInv'
  <1>1. SlotsAreOwed' /\ held' \in 0 .. Slots
    BY SlotsStep
  <1>2. TypeOK' /\ Apart' /\ Found'
    BY <1>1, ShapeStep
  <1> QED BY <1>1, <1>2, AdapterStep, PromptStep DEF IInv

\* The inductive invariant holds in every reachable state.
THEOREM Invariance == Spec => []IInv
  <1> QED BY InitIInv, NextIInv, PTL DEF Spec

-----------------------------------------------------------------------------

\* Type correctness of the session table.
THEOREM TypeCorrect == Spec => []TypeOK
  <1>1. IInv => TypeOK
    BY DEF IInv
  <1> QED BY <1>1, Invariance, PTL

\* The semaphore holds one value for every call and session that owes one.
THEOREM SlotsExact == Spec => []SlotsAreOwed
  <1>1. IInv => SlotsAreOwed
    BY DEF IInv
  <1> QED BY <1>1, Invariance, PTL

\* Whatever races, no open adapter drops out of sight.
THEOREM AdaptersRemembered == Spec => []NoAdapterIsForgotten
  <1>1. IInv => NoAdapterIsForgotten
    BY DEF IInv
  <1> QED BY <1>1, Invariance, PTL

\* RunRich lets one prompt at a time into a session.
THEOREM PromptsExclude == Spec => []OnePromptPerSession
  <1>1. IInv => OnePromptPerSession
    BY DEF IInv
  <1> QED BY <1>1, Invariance, PTL

\* max_concurrent_per_project is kept: the open adapters of a project are never
\* more than its slots, the ones being opened or closed included.
OpenAdapters == {s \in Calls : adapter[s] = "open"}
THEOREM AgentsAreBounded == Spec => [](Cardinality(OpenAdapters) <= Slots)
  <1>1. ASSUME IInv PROVE Cardinality(OpenAdapters) <= Slots
    <2>1. OpenAdapters \in SUBSET Owners
      BY <1>1 DEF IInv, NoAdapterIsForgotten, Owners, OpenAdapters
    <2>2. /\ Cardinality(OpenAdapters) <= Cardinality(Owners)
          /\ Cardinality(OpenAdapters) \in Nat
      BY <2>1, OwnersFinite, FS_Subset, FS_CardinalityType
    <2>3. Cardinality(Owners) = held /\ held \in 0 .. Slots
      BY <1>1 DEF IInv, TypeOK, SlotsAreOwed
    <2> QED BY <2>2, <2>3, SlotsAssumption
  <1> QED BY <1>1, Invariance, PTL

=============================================================================
