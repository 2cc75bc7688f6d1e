------------------------- MODULE AgentServicesProofs -------------------------
(***************************************************************************)
(* Theorems about what stands between the program and its agents, for      *)
(* every value of the constants of each service: the state of all of them  *)
(* is typed, and commands and requests are taken for what they are.        *)
(*                                                                         *)
(* Each service has an inductive invariant of its own, a section below,    *)
(* and a behaviour is of one service while the others stay as they begin,  *)
(* so the invariant of all is their conjunction.                           *)
(*                                                                         *)
(* What a fold of the library gives for a sequence of any length is said   *)
(* by Climbing, FoldingExists and their like: a set that has 0 and, with   *)
(* each number below n, the next one has all numbers up to n.              *)
(***************************************************************************)
EXTENDS MCAgentServices, WellFoundedInduction, FiniteSetTheorems, TLAPS

------------------------------------------------------------------------------
(* Sequences, whatever they hold.                                               *)

LEMMA HeadAndTail ==
    ASSUME NEW S, NEW s \in Seq(S), s # <<>>
    PROVE  /\ Head(s) \in S /\ Tail(s) \in Seq(S)
           /\ Len(s) \in Nat \ {0} /\ Len(Tail(s)) = Len(s) - 1
OBVIOUS

LEMMA JoinedSequences ==
    ASSUME NEW S, NEW s \in Seq(S), NEW t \in Seq(S)
    PROVE  /\ s \o t \in Seq(S) /\ Len(s \o t) = Len(s) + Len(t) /\ Len(s) \in Nat
           /\ \A x \in S : Append(s, x) \in Seq(S) /\ Len(Append(s, x)) = Len(s) + 1
OBVIOUS

LEMMA EmptySequence == \A S : <<>> \in Seq(S) /\ Len(<<>>) = 0
OBVIOUS

LEMMA OneElement == ASSUME NEW S, NEW x \in S PROVE <<x>> \in Seq(S)
OBVIOUS

------------------------------------------------------------------------------
(* Folds. A library fold is a function on sets of positions that some choice has *)
(* picked; here is such a function, and so what was picked is one.               *)

LEMMA Climbing ==
    ASSUME NEW n \in Nat, NEW S, 0 \in S, \A k \in 0..(n - 1) : k \in S => k + 1 \in S
    PROVE  \A k \in 0..n : k \in S
<1> DEFINE T == {k \in Nat : k <= n /\ k \notin S}
<1> SUFFICES ASSUME T # {} PROVE FALSE
  OBVIOUS
<1>1. PICK m \in T : \A y \in T : ~(<<y, m>> \in OpToRel(<, Nat))
  <2>1. T \subseteq Nat
    OBVIOUS
  <2> HIDE DEF T
  <2> QED  BY <2>1, NatLessThanWellFounded, WFMin
<1>2. m \in 0..n /\ m # 0 /\ m - 1 \in 0..(n - 1) /\ m - 1 + 1 = m /\ m - 1 \in Nat
  OBVIOUS
<1>3. \A y \in T : ~(y < m)
  <2>1. T \subseteq Nat /\ m \in T
    BY <1>1
  <2> HIDE DEF T
  <2> QED  BY <1>1, <2>1 DEF OpToRel
<1>4. m - 1 \notin T
  BY <1>2, <1>3
<1> QED  BY <1>2, <1>4

LEMMA LargestExists ==
    ASSUME NEW n \in Nat, NEW S \in SUBSET (1..n), S # {}
    PROVE  \E x \in S : \A y \in S : x >= y
<1> DEFINE R == {k \in 0..n : \A s \in SUBSET (1..k) :
                     s # {} => \E x \in s : \A y \in s : x >= y}
<1>1. 0 \in R
  <2>1. 0 \in 0..n /\ 1..0 = {}
    OBVIOUS
  <2>2. \A s \in SUBSET (1..0) : s = {}
    BY <2>1
  <2> QED  BY <2>1, <2>2
<1>2. ASSUME NEW k \in 0..(n - 1), k \in R PROVE k + 1 \in R
  <2> SUFFICES ASSUME NEW s \in SUBSET (1..(k + 1)), s # {}
               PROVE  \E x \in s : \A y \in s : x >= y
    OBVIOUS
  <2>1. CASE k + 1 \in s
    BY <2>1
  <2>2. CASE k + 1 \notin s
    <3>1. s \in SUBSET (1..k)
      BY <2>2
    <3> QED  BY <1>2, <3>1
  <2> QED  BY <2>1, <2>2
<1> HIDE DEF R
<1>3. n \in R
  BY <1>1, <1>2, Climbing
<1> QED  BY <1>3 DEF R

TakesLargest(top, n) ==
    \A s \in SUBSET (1..n) : s # {} => top[s] \in s /\ \A y \in s : top[s] >= y

Folding(n, X, b, g, top) ==
    \E h \in [SUBSET (1..n) -> X] : \A s \in SUBSET (1..n) :
        h[s] = IF s = {} THEN b ELSE g[<<h[s \ {top[s]}], top[s]>>]

LEMMA FoldingExists ==
    ASSUME NEW n \in Nat, NEW X, NEW b \in X, NEW g \in [X \X (1..n) -> X],
           NEW top, TakesLargest(top, n)
    PROVE  Folding(n, X, b, g, top)
<1> DEFINE Is(k, h) ==
        \A s \in SUBSET (1..k) : h[s] = IF s = {} THEN b ELSE g[<<h[s \ {top[s]}], top[s]>>]
    R == {k \in 0..n : \E h \in [SUBSET (1..k) -> X] : Is(k, h)}
<1>1. 0 \in R
  <2> DEFINE h == [s \in SUBSET (1..0) |-> b]
  <2>1. 0 \in 0..n /\ 1..0 = {}
    OBVIOUS
  <2>2. h \in [SUBSET (1..0) -> X] /\ Is(0, h)
    BY <2>1
  <2> HIDE DEF h, Is
  <2> QED  BY <2>1, <2>2
<1>2. ASSUME NEW k \in 0..(n - 1), k \in R PROVE k + 1 \in R
  <2>1. PICK h \in [SUBSET (1..k) -> X] : Is(k, h)
    BY <1>2
  <2> DEFINE next == [s \in SUBSET (1..(k + 1)) |->
                         IF k + 1 \in s THEN g[<<h[s \ {k + 1}], k + 1>>] ELSE h[s]]
  <2>2. k + 1 \in 1..n /\ 1..(k + 1) \subseteq 1..n /\ 1..k \subseteq 1..(k + 1)
        /\ k + 1 \notin 1..k
    OBVIOUS
  <2>3. \A s \in SUBSET (1..(k + 1)) : s \ {k + 1} \in SUBSET (1..k)
    OBVIOUS
  <2>4. \A s \in SUBSET (1..(k + 1)) : k + 1 \notin s => s \in SUBSET (1..k)
    OBVIOUS
  <2>5. \A s \in SUBSET (1..k) : next[s] = h[s]
    BY <2>2
  <2>6. next \in [SUBSET (1..(k + 1)) -> X]
    <3> SUFFICES ASSUME NEW s \in SUBSET (1..(k + 1)) PROVE next[s] \in X
      OBVIOUS
    <3>1. CASE k + 1 \in s
      BY <2>2, <2>3, <3>1
    <3>2. CASE k + 1 \notin s
      BY <2>4, <3>2
    <3> QED  BY <3>1, <3>2
  <2>7. ASSUME NEW s \in SUBSET (1..(k + 1))
        PROVE  next[s] = IF s = {} THEN b ELSE g[<<next[s \ {top[s]}], top[s]>>]
    <3>1. CASE k + 1 \in s
      <4>1. top[s] \in s /\ \A y \in s : top[s] >= y
        BY <2>2, <3>1 DEF TakesLargest
      <4>2. top[s] = k + 1
        <5>1. top[s] \in 1..(k + 1) /\ top[s] >= k + 1
          BY <3>1, <4>1
        <5> QED  BY <5>1
      <4>3. next[s] = g[<<h[s \ {k + 1}], k + 1>>]
        BY <3>1
      <4>4. next[s \ {k + 1}] = h[s \ {k + 1}]
        BY <2>3, <2>5
      <4> QED  BY <3>1, <4>2, <4>3, <4>4
    <3>2. CASE k + 1 \notin s
      <4>1. s \in SUBSET (1..k)
        BY <2>4, <3>2
      <4>2. next[s] = h[s] /\ next[s \ {top[s]}] = h[s \ {top[s]}]
        BY <2>5, <4>1
      <4> QED  BY <2>1, <4>1, <4>2
    <3> QED  BY <3>1, <3>2
  <2> HIDE DEF next
  <2>8. Is(k + 1, next)
    BY <2>7
  <2> HIDE DEF Is
  <2> QED  BY <2>6, <2>8
<1> HIDE DEF R
<1>3. n \in R
  BY <1>1, <1>2, Climbing
<1> QED  BY <1>3 DEF R, Folding

\* The sets of positions that a fold from the left meets.
LEMMA Prefixes ==
    ASSUME NEW n \in Nat, NEW k \in 1..n
    PROVE  /\ 1..k \in SUBSET (1..n) /\ 1..k # {} /\ 1..(k - 1) \in SUBSET (1..n)
           /\ (1..k) \ {k} = 1..(k - 1) /\ k \in 1..k
           /\ \A x \in 1..k : (\A y \in 1..k : x >= y) => x = k
OBVIOUS

LEMMA JoiningExists ==
    ASSUME NEW S, NEW seqs \in Seq(Seq(S))
    PROVE  \E f : f = [i \in 1..Len(seqs) |-> IF i = 1 THEN seqs[i] ELSE f[i - 1] \o seqs[i]]
<1> DEFINE n == Len(seqs)
    Is(k, f) == f = [i \in 1..k |-> IF i = 1 THEN seqs[i] ELSE f[i - 1] \o seqs[i]]
    R == {k \in 0..n : \E f : Is(k, f)}
<1>0. n \in Nat
  OBVIOUS
<1>1. 0 \in R
  <2> DEFINE f == [i \in 1..0 |-> <<>>]
  <2>1. 0 \in 0..n /\ 1..0 = {}
    BY <1>0
  <2>2. Is(0, f)
    BY <2>1
  <2> HIDE DEF f, Is
  <2> QED  BY <2>1, <2>2
<1>2. ASSUME NEW k \in 0..(n - 1), k \in R PROVE k + 1 \in R
  <2>1. PICK f : Is(k, f)
    BY <1>2
  <2> DEFINE next == [i \in 1..(k + 1) |->
                         IF i = k + 1 THEN IF i = 1 THEN seqs[i] ELSE f[k] \o seqs[i] ELSE f[i]]
  <2>2. \A i \in 1..k : i \in 1..(k + 1) /\ i # k + 1 /\ next[i] = f[i]
    OBVIOUS
  <2>3. ASSUME NEW i \in 1..(k + 1)
        PROVE  next[i] = IF i = 1 THEN seqs[i] ELSE next[i - 1] \o seqs[i]
    <3>1. CASE i = k + 1
      <4>1. i # 1 => i - 1 = k /\ k \in 1..k
        BY <3>1
      <4> QED  BY <2>2, <3>1, <4>1
    <3>2. CASE i # k + 1
      <4>1. i \in 1..k /\ (i # 1 => i - 1 \in 1..k)
        BY <3>2
      <4>2. f[i] = IF i = 1 THEN seqs[i] ELSE f[i - 1] \o seqs[i]
        BY <2>1, <4>1
      <4> QED  BY <2>2, <4>1, <4>2
    <3> QED  BY <3>1, <3>2
  <2>4. next = [i \in 1..(k + 1) |-> next[i]]
    OBVIOUS
  <2> HIDE DEF next
  <2>5. Is(k + 1, next)
    BY <2>3, <2>4
  <2>6. k + 1 \in 0..n
    BY <1>0
  <2> HIDE DEF Is
  <2> QED  BY <2>5, <2>6
<1>3. n \in R
  <2> HIDE DEF R
  <2>1. \A k \in 0..n : k \in R
    <3> HIDE DEF n
    <3> QED  BY <1>0, <1>1, <1>2, Climbing
  <2> QED  BY <1>0, <2>1
<1> QED  BY <1>3

LEMMA JoinedAre ==
    ASSUME NEW S, NEW seqs \in Seq(Seq(S)), NEW f,
           f = [i \in 1..Len(seqs) |-> IF i = 1 THEN seqs[i] ELSE f[i - 1] \o seqs[i]]
    PROVE  \A i \in 1..Len(seqs) : f[i] \in Seq(S)
<1> DEFINE n == Len(seqs)
    R == {0} \cup {k \in 1..n : f[k] \in Seq(S)}
<1>0. n \in Nat /\ \A i \in 1..n : seqs[i] \in Seq(S)
  OBVIOUS
<1>a. \A i \in 1..n : f[i] = IF i = 1 THEN seqs[i] ELSE f[i - 1] \o seqs[i]
  OBVIOUS
<1>1. ASSUME NEW k \in 0..(n - 1), k \in R PROVE k + 1 \in R
  <2>1. k + 1 \in 1..n /\ seqs[k + 1] \in Seq(S)
    BY <1>0
  <2>2. CASE k = 0
    BY <2>1, <2>2
  <2>3. CASE k # 0
    <3>1. f[k] \in Seq(S) /\ k + 1 # 1 /\ k + 1 - 1 = k
      BY <1>1, <2>3
    <3>2. f[k + 1] = f[k] \o seqs[k + 1]
      <4> HIDE DEF n
      <4>1. \A i \in 1..n : i = k + 1 => i # 1 /\ i - 1 = k
        BY <3>1
      <4>2. \A i \in 1..n : i = k + 1 => f[i] = f[k] \o seqs[i]
        BY <1>a, <4>1
      <4> QED  BY <2>1, <4>2
    <3>3. f[k] \o seqs[k + 1] \in Seq(S)
      BY <2>1, <3>1, JoinedSequences
    <3> QED  BY <2>1, <3>1, <3>2, <3>3
  <2> QED  BY <2>2, <2>3
<1>2. \A k \in 0..n : k \in R
  <2>1. 0 \in R
    OBVIOUS
  <2> HIDE DEF R, n
  <2> QED  BY <1>0, <1>1, <2>1, Climbing
<1> SUFFICES ASSUME NEW i \in 1..n PROVE f[i] \in Seq(S)
  OBVIOUS
<1>3. i \in 0..n /\ i # 0
  BY <1>0
<1> QED  BY <1>2, <1>3

------------------------------------------------------------------------------
(* The session. A channel is written by whoever takes its entry from the table, *)
(* so the entries that remain have empty channels.                              *)

SessionInv ==
    /\ Session!TypeOK
    /\ \A r \in Session!Askings : sessionChannel[r] # "empty" =>
           sessionAsk[r] \in {"registered", "waiting"} \cup Session!Ended
    /\ \A c \in SessionCalls : sessionPending[c] # NoValue =>
           sessionChannel[sessionPending[c]] = "empty"

LEMMA SessionBegins ==
    ASSUME Session!AcpAssumption, Session!Init
    PROVE  SessionInv
<1>1. /\ sessionAsk \in [Session!Askings -> {"no"}]
      /\ sessionPending \in [SessionCalls -> {NoValue}]
      /\ sessionChannel \in [Session!Askings -> {"empty"}]
  BY DEF Session!Init
<1>2. sessionPrompts \in 0..SessionMaxPrompts
  BY DEF Session!Init, Session!AcpAssumption
<1> QED  BY <1>1, <1>2 DEF Session!Init, SessionInv, Session!TypeOK

LEMMA SessionRests == ASSUME SessionInv, UNCHANGED sessionVars PROVE SessionInv'
BY DEF SessionInv, sessionVars, Session!TypeOK

LEMMA SessionStep ==
    ASSUME Session!AcpAssumption, SessionInv, Session!Next
    PROVE  SessionInv'
<1> USE DEF Session!lifeVars, Session!layerVars, Session!promptVars, Session!permVars
<1>0. /\ NoValue \notin Session!Askings /\ SessionMaxPrompts \in Nat
      /\ \A r \in Session!Askings : Session!CallOf(r) \in SessionCalls
  BY DEF Session!AcpAssumption, Session!Askings, Session!CallOf
<1>1. ASSUME UNCHANGED <<sessionAsk, sessionPending, sessionChannel, sessionCarded>>,
             \/ Session!Spawn \/ Session!SpawnFails \/ Session!Handshake
             \/ Session!HandshakeFails \/ Session!SessionOpens \/ Session!ModelSettles
             \/ Session!ModeSettles \/ Session!OpenFails \/ Session!Wrap \/ Session!Hear
             \/ Session!Wire \/ Session!Unwire \/ Session!AgentDies \/ Session!WatchExit
             \/ Session!NoticeExit \/ Session!SendPrompt \/ Session!PromptEnds
             \/ Session!Retry \/ Session!PromptFails \/ Session!BeginClose
             \/ Session!CloseStdin \/ Session!AwaitExit \/ Session!Kill
             \/ Session!ClearCallbacks
      PROVE  SessionInv'
  <2>1. /\ sessionProcess' \in {"none", "up", "down"}
        /\ sessionOpening' \in
             {"no", "handshake", "session", "model", "mode", "open", "failed"}
        /\ sessionClosing' \in {"no", "begun", "waiting", "sweep", "clear", "closed"}
        /\ sessionLayer' \in {"none", "wrapped", "heard", "wired"}
    BY <1>1 DEF SessionInv, Session!TypeOK, Session!Spawn, Session!SpawnFails,
       Session!Handshake, Session!HandshakeFails, Session!SessionOpens,
       Session!ModelSettles, Session!ModeSettles, Session!OpenFails, Session!Wrap,
       Session!Hear, Session!Wire, Session!Unwire, Session!AgentDies, Session!WatchExit,
       Session!NoticeExit, Session!SendPrompt, Session!PromptEnds, Session!Retry,
       Session!PromptFails, Session!BeginClose, Session!CloseStdin, Session!AwaitExit,
       Session!Kill, Session!ClearCallbacks
  <2>2. {sessionDone', sessionClosedByUs', sessionExited', sessionTold', sessionUpDone'}
          \subseteq BOOLEAN
    BY <1>1 DEF SessionInv, Session!TypeOK, Session!Spawn, Session!SpawnFails,
       Session!Handshake, Session!HandshakeFails, Session!SessionOpens,
       Session!ModelSettles, Session!ModeSettles, Session!OpenFails, Session!Wrap,
       Session!Hear, Session!Wire, Session!Unwire, Session!AgentDies, Session!WatchExit,
       Session!NoticeExit, Session!SendPrompt, Session!PromptEnds, Session!Retry,
       Session!PromptFails, Session!BeginClose, Session!CloseStdin, Session!AwaitExit,
       Session!Kill, Session!ClearCallbacks
  <2>3. sessionPrompt' \in {"idle", "sent", "again", "failed"}
        /\ sessionPrompts' \in 0..SessionMaxPrompts
    BY <1>0, <1>1 DEF SessionInv, Session!TypeOK, Session!Spawn, Session!SpawnFails,
       Session!Handshake, Session!HandshakeFails, Session!SessionOpens,
       Session!ModelSettles, Session!ModeSettles, Session!OpenFails, Session!Wrap,
       Session!Hear, Session!Wire, Session!Unwire, Session!AgentDies, Session!WatchExit,
       Session!NoticeExit, Session!SendPrompt, Session!PromptEnds, Session!Retry,
       Session!PromptFails, Session!BeginClose, Session!CloseStdin, Session!AwaitExit,
       Session!Kill, Session!ClearCallbacks
  <2> QED  BY <1>1, <2>1, <2>2, <2>3 DEF SessionInv, Session!TypeOK
<1>2. ASSUME NEW r \in Session!Askings, Session!Send(r) \/ Session!Admit(r)
      PROVE  SessionInv'
  BY <1>0, <1>2 DEF SessionInv, Session!TypeOK, Session!Send, Session!Admit, Session!Ended
<1>3. ASSUME NEW r \in Session!Askings, Session!Register(r) PROVE SessionInv'
  BY <1>0, <1>3 DEF SessionInv, Session!TypeOK, Session!Register, Session!Ended
<1>4. ASSUME NEW r \in Session!Askings, Session!Show(r) PROVE SessionInv'
  BY <1>0, <1>4 DEF SessionInv, Session!TypeOK, Session!Show, Session!Ended
<1>5. ASSUME NEW r \in Session!Askings, Session!Receive(r) PROVE SessionInv'
  BY <1>0, <1>5 DEF SessionInv, Session!TypeOK, Session!Receive, Session!Ended
<1>6. ASSUME NEW r \in Session!Askings, Session!GiveUp(r) PROVE SessionInv'
  BY <1>0, <1>6 DEF SessionInv, Session!TypeOK, Session!GiveUp, Session!Ended
<1>7. ASSUME NEW c \in SessionCalls, NEW verdict \in {"allow", "deny"},
             Session!Decide(c, verdict)
      PROVE  SessionInv'
  BY <1>0, <1>7 DEF SessionInv, Session!TypeOK, Session!Decide
<1>8. ASSUME Session!SweepPending PROVE SessionInv'
  BY <1>0, <1>8 DEF SessionInv, Session!TypeOK, Session!SweepPending
<1> QED  BY <1>1, <1>2, <1>3, <1>4, <1>5, <1>6, <1>7, <1>8
         DEF Session!Next, Session!Spawn, Session!SpawnFails, Session!Handshake,
             Session!HandshakeFails, Session!SessionOpens, Session!ModelSettles,
             Session!ModeSettles, Session!OpenFails, Session!Wrap, Session!Hear,
             Session!Wire, Session!Unwire, Session!AgentDies, Session!WatchExit,
             Session!NoticeExit, Session!SendPrompt, Session!PromptEnds, Session!Retry,
             Session!PromptFails, Session!BeginClose, Session!CloseStdin,
             Session!AwaitExit, Session!Kill, Session!ClearCallbacks

------------------------------------------------------------------------------
(* The deaths of agents. An exit is noticed after done is closed, and whichever *)
(* of the watcher and OnEvent comes second tells it.                            *)

SessionTells == Session!SeenDeathsAreTold /\ (sessionExited => sessionDone)

LEMMA DeathBegins == ASSUME Session!Init PROVE SessionTells
BY DEF Session!Init, SessionTells, Session!SeenDeathsAreTold

LEMMA DeathRests == ASSUME SessionTells, UNCHANGED sessionVars PROVE SessionTells'
BY DEF SessionTells, sessionVars, Session!SeenDeathsAreTold

LEMMA DeathStep ==
    ASSUME SessionInv, SessionTells, Session!Next
    PROVE  SessionTells'
<1> USE DEF Session!lifeVars, Session!layerVars
<1>1. CASE Session!NoticeExit
  BY <1>1 DEF Session!NoticeExit, SessionTells, Session!SeenDeathsAreTold
<1>2. CASE Session!Hear \/ Session!Wrap \/ Session!Wire \/ Session!Unwire
  BY <1>2 DEF Session!Hear, Session!Wrap, Session!Wire, Session!Unwire, SessionTells,
              Session!SeenDeathsAreTold, SessionInv, Session!TypeOK
<1>3. CASE Session!WatchExit \/ Session!BeginClose \/ Session!ClearCallbacks
  BY <1>3 DEF Session!WatchExit, Session!BeginClose, Session!ClearCallbacks, SessionTells,
              Session!SeenDeathsAreTold
<1>4. ASSUME UNCHANGED <<sessionDone, sessionLayer, sessionExited, sessionTold, sessionUpDone>>
      PROVE  SessionTells'
  BY <1>4 DEF SessionTells, Session!SeenDeathsAreTold
<1>5. ASSUME \/ Session!Spawn \/ Session!SpawnFails \/ Session!Handshake
             \/ Session!HandshakeFails \/ Session!SessionOpens \/ Session!ModelSettles
             \/ Session!ModeSettles \/ Session!OpenFails \/ Session!AgentDies
             \/ Session!SendPrompt \/ Session!PromptEnds \/ Session!Retry
             \/ Session!PromptFails \/ Session!CloseStdin \/ Session!AwaitExit
             \/ Session!Kill \/ Session!SweepPending
      PROVE  SessionTells'
  BY <1>4, <1>5
     DEF Session!Spawn, Session!SpawnFails, Session!Handshake, Session!HandshakeFails,
         Session!SessionOpens, Session!ModelSettles, Session!ModeSettles,
         Session!OpenFails, Session!AgentDies, Session!SendPrompt, Session!PromptEnds,
         Session!Retry, Session!PromptFails, Session!CloseStdin, Session!AwaitExit,
         Session!Kill, Session!SweepPending
<1>6. ASSUME NEW r \in Session!Askings,
             \/ Session!Send(r) \/ Session!Admit(r) \/ Session!Register(r)
             \/ Session!Show(r) \/ Session!Receive(r) \/ Session!GiveUp(r)
      PROVE  SessionTells'
  BY <1>4, <1>6
     DEF Session!Send, Session!Admit, Session!Register, Session!Show, Session!Receive,
         Session!GiveUp
<1>7. ASSUME NEW c \in SessionCalls, NEW verdict \in {"allow", "deny"},
             Session!Decide(c, verdict)
      PROVE  SessionTells'
  BY <1>4, <1>7 DEF Session!Decide
<1> QED  BY <1>1, <1>2, <1>3, <1>5, <1>6, <1>7 DEF Session!Next

------------------------------------------------------------------------------
(* The events. Each change that is not yet numbered is in the hands of one      *)
(* publisher, so the numbers are never ahead of the changes.                    *)

BusEvents == [version : 0..BusMaxVersions, seq : 0..BusMaxVersions]

BusUnnumbered ==
    {p \in BusPublishers : busPublishing[p].version # 0 /\ busPublishing[p].seq = 0}

BusCounted ==
    /\ busVersion \in 0..BusMaxVersions /\ busSeq \in 0..BusMaxVersions
    /\ busPublishing \in [BusPublishers -> BusEvents]
    /\ IsFiniteSet(BusUnnumbered) /\ busVersion = busSeq + Cardinality(BusUnnumbered)

BusQueued == busQueue \in Seq(BusEvents) /\ Len(busQueue) <= BusBuffer

BusHeld ==
    /\ busLoop \in {"none", "number", "list", "write", "wait"} /\ busFrame \in Bus!Frames
    /\ busLine \in {"up", "dead"} /\ busDropped \in BOOLEAN /\ busRefetch \in BOOLEAN

BusWaits ==
    /\ busIdle \in 0..BusPingTicks /\ busLinks \in 0..BusMaxLinks
    /\ busLast \in 0..BusMaxVersions /\ busShown \in 0..BusMaxVersions

BusInv == BusCounted /\ BusQueued /\ BusHeld /\ BusWaits

LEMMA BusIsTyped == ASSUME BusInv PROVE Bus!TypeOK
BY DEF BusInv, BusCounted, BusQueued, BusHeld, BusWaits, BusEvents, Bus!TypeOK, Bus!Versions

LEMMA BusBegins ==
    ASSUME Bus!EventBusAssumption, Bus!Init
    PROVE  BusInv
<1>1. BusUnnumbered = {}
  BY DEF Bus!Init, BusUnnumbered, Bus!Nothing
<1>2. IsFiniteSet({}) /\ Cardinality({}) = 0
  BY FS_EmptySet
<1>3. busPublishing \in [BusPublishers -> BusEvents]
  BY DEF Bus!Init, Bus!EventBusAssumption, Bus!Nothing, BusEvents
<1>4. busFrame \in Bus!Frames
  BY DEF Bus!Init, Bus!EventBusAssumption, Bus!NoFrame, Bus!Frames, Bus!Versions
<1>5. BusCounted
  <2>1. busVersion = 0 /\ busSeq = 0 /\ BusMaxVersions \in Nat
    BY DEF Bus!Init, Bus!EventBusAssumption
  <2> QED  BY <1>1, <1>2, <1>3, <2>1 DEF BusCounted
<1>6. BusQueued
  BY DEF Bus!Init, Bus!EventBusAssumption, BusQueued
<1>7. BusHeld
  BY <1>4 DEF Bus!Init, BusHeld
<1>8. BusWaits
  BY DEF Bus!Init, Bus!EventBusAssumption, BusWaits
<1> QED  BY <1>5, <1>6, <1>7, <1>8 DEF BusInv

LEMMA BusRests == ASSUME BusInv, UNCHANGED busVars PROVE BusInv'
BY DEF BusInv, busVars, BusCounted, BusQueued, BusHeld, BusWaits, BusUnnumbered

LEMMA BusStep ==
    ASSUME Bus!EventBusAssumption, BusInv, Bus!Next
    PROVE  BusInv'
<1> USE DEF Bus!serverVars, Bus!clientVars
<1>0. /\ BusMaxVersions \in Nat /\ BusMaxLinks \in Nat /\ BusPingTicks \in Nat
      /\ BusPingTicks > 1 /\ BusBuffer \in Nat \ {0}
  BY DEF Bus!EventBusAssumption
<1>a. /\ busPublishing \in [BusPublishers -> BusEvents]
      /\ busVersion \in 0..BusMaxVersions /\ busSeq \in 0..BusMaxVersions
      /\ IsFiniteSet(BusUnnumbered) /\ busVersion = busSeq + Cardinality(BusUnnumbered)
      /\ Cardinality(BusUnnumbered) \in Nat
  BY FS_CardinalityType DEF BusInv, BusCounted
<1>b. BusQueued /\ BusHeld /\ BusWaits
  BY DEF BusInv
<1>c. ASSUME UNCHANGED <<busQueue, busDropped, busLoop, busFrame, busIdle, busLine, busLinks,
                         busLast, busRefetch, busShown>>
      PROVE  BusQueued' /\ BusHeld' /\ BusWaits'
  BY <1>b, <1>c DEF BusQueued, BusHeld, BusWaits
<1>1. ASSUME NEW p \in BusPublishers, Bus!Update(p) PROVE BusInv'
  <2>0. /\ busPublishing[p].version = 0 /\ busVersion + 1 \in 0..BusMaxVersions
        /\ busPublishing' = [busPublishing EXCEPT ![p].version = busVersion + 1]
        /\ busVersion' = busVersion + 1 /\ busSeq' = busSeq
    BY <1>0, <1>1, <1>a DEF Bus!Update, Bus!Nothing
  <2>s. busPublishing[p].seq = 0
    BY <1>1, <1>a DEF Bus!Update, Bus!Nothing
  <2>1. BusUnnumbered' = BusUnnumbered \cup {p} /\ p \notin BusUnnumbered
    BY <1>a, <2>0, <2>s DEF BusUnnumbered, BusEvents
  <2>2. IsFiniteSet(BusUnnumbered') /\ Cardinality(BusUnnumbered') = Cardinality(BusUnnumbered) + 1
    BY <1>a, <2>1, FS_AddElement
  <2>3. busPublishing' \in [BusPublishers -> BusEvents]
    BY <1>a, <2>0 DEF BusEvents
  <2>4. BusCounted'
    BY <1>0, <1>a, <2>0, <2>2, <2>3 DEF BusCounted
  <2> QED  BY <1>1, <1>c, <2>4 DEF BusInv, Bus!Update
<1>2. ASSUME NEW p \in BusPublishers, Bus!Number(p) PROVE BusInv'
  <2>0. /\ busPublishing[p].version # 0 /\ busPublishing[p].seq = 0
        /\ busPublishing' = [busPublishing EXCEPT ![p].seq = busSeq + 1]
        /\ busVersion' = busVersion /\ busSeq' = busSeq + 1
    BY <1>2 DEF Bus!Number
  <2>1. BusUnnumbered' = BusUnnumbered \ {p} /\ p \in BusUnnumbered
    BY <1>a, <2>0 DEF BusUnnumbered, BusEvents
  <2>2. IsFiniteSet(BusUnnumbered') /\ Cardinality(BusUnnumbered') = Cardinality(BusUnnumbered) - 1
    BY <1>a, <2>1, FS_RemoveElement
  <2>3. Cardinality(BusUnnumbered') \in Nat
    BY <2>2, FS_CardinalityType
  <2>4. busSeq + 1 \in 0..BusMaxVersions
    BY <1>0, <1>a, <2>2, <2>3
  <2>5. busPublishing' \in [BusPublishers -> BusEvents]
    BY <1>a, <2>0, <2>4 DEF BusEvents
  <2>6. BusCounted'
    BY <1>0, <1>a, <2>0, <2>2, <2>4, <2>5 DEF BusCounted
  <2> QED  BY <1>2, <1>c, <2>6 DEF BusInv, Bus!Number
<1>3. ASSUME NEW p \in BusPublishers, Bus!Deliver(p) PROVE BusInv'
  <2>0. /\ busPublishing' = [busPublishing EXCEPT ![p] = Bus!Nothing]
        /\ busPublishing[p].seq # 0 /\ UNCHANGED <<busVersion, busSeq>>
    BY <1>3 DEF Bus!Deliver
  <2>1. BusUnnumbered' = BusUnnumbered
    BY <1>a, <2>0 DEF BusUnnumbered, Bus!Nothing
  <2>2. busPublishing' \in [BusPublishers -> BusEvents]
    BY <1>0, <1>a, <2>0 DEF Bus!Nothing, BusEvents
  <2>3. BusCounted'
    BY <1>a, <2>0, <2>1, <2>2 DEF BusCounted
  <2>4. BusQueued'
    <3>1. CASE busQueue' = busQueue
      BY <1>b, <3>1 DEF BusQueued
    <3>2. CASE busQueue' = Append(busQueue, busPublishing[p]) /\ Len(busQueue) < BusBuffer
      <4>1. busQueue \in Seq(BusEvents) /\ busPublishing[p] \in BusEvents
        BY <1>a, <1>b DEF BusQueued
      <4>2. busQueue' \in Seq(BusEvents) /\ Len(busQueue') = Len(busQueue) + 1
        BY <3>2, <4>1
      <4> QED  BY <1>0, <3>2, <4>1, <4>2 DEF BusQueued
    <3> QED  BY <1>3, <3>1, <3>2 DEF Bus!Deliver
  <2>5. BusHeld' /\ BusWaits'
    BY <1>3, <1>b DEF Bus!Deliver, BusHeld, BusWaits
  <2> QED  BY <2>3, <2>4, <2>5 DEF BusInv
<1>4. ASSUME UNCHANGED <<busPublishing, busSeq, busVersion>>,
             \/ Bus!Connect \/ Bus!ReadSeq \/ Bus!ReadList \/ Bus!Take \/ Bus!Write
             \/ Bus!Resync \/ Bus!Ping \/ Bus!Tick \/ Bus!ClientCloses \/ Bus!LineDies
             \/ Bus!Refetch
      PROVE  BusInv'
  <2>1. BusCounted'
    <3>1. BusUnnumbered' = BusUnnumbered
      BY <1>4 DEF BusUnnumbered
    <3> QED  BY <1>4, <1>a, <3>1 DEF BusCounted
  <2>2. BusQueued'
    <3>1. CASE busQueue' = busQueue
      BY <1>b, <3>1 DEF BusQueued
    <3>2. CASE busQueue' = <<>>
      BY <1>0, <3>2 DEF BusQueued
    <3>3. CASE busQueue' = Tail(busQueue) /\ busQueue # <<>>
      <4>1. busQueue \in Seq(BusEvents)
        BY <1>b DEF BusQueued
      <4>2. busQueue' \in Seq(BusEvents) /\ Len(busQueue') = Len(busQueue) - 1
        BY <3>3, <4>1
      <4> QED  BY <1>0, <1>b, <4>1, <4>2 DEF BusQueued
    <3> QED  BY <1>4, <3>1, <3>2, <3>3
             DEF Bus!Connect, Bus!ReadSeq, Bus!ReadList, Bus!Take, Bus!Write, Bus!Resync,
                 Bus!Ping, Bus!Tick, Bus!ClientCloses, Bus!LineDies, Bus!Refetch
  <2>3. busFrame' \in Bus!Frames
    <3>1. CASE busFrame' \in {busFrame, Bus!NoFrame}
      BY <1>0, <1>b, <3>1 DEF BusHeld, Bus!NoFrame, Bus!Frames, Bus!Versions
    <3>2. CASE Bus!ReadSeq
      BY <1>0, <1>a, <3>2 DEF Bus!ReadSeq, Bus!Frames, Bus!Versions
    <3>3. CASE Bus!ReadList
      BY <1>a, <1>b, <3>3 DEF Bus!ReadList, BusHeld, Bus!Frames, Bus!Versions
    <3>4. CASE Bus!Take
      <4>1. busQueue \in Seq(BusEvents) /\ busQueue # <<>>
        BY <1>b, <3>4 DEF Bus!Take, BusQueued
      <4>2. Head(busQueue) \in BusEvents
        BY <4>1
      <4> QED  BY <3>4, <4>2 DEF Bus!Take, Bus!Frames, Bus!Versions, BusEvents
    <3> QED  BY <1>4, <3>1, <3>2, <3>3, <3>4
             DEF Bus!Connect, Bus!Write, Bus!Resync, Bus!Ping, Bus!Tick, Bus!ClientCloses,
                 Bus!LineDies, Bus!Refetch
  <2>4. /\ busLoop' \in {"none", "number", "list", "write", "wait"}
        /\ busLine' \in {"up", "dead"} /\ busDropped' \in BOOLEAN /\ busRefetch' \in BOOLEAN
    BY <1>4, <1>b
       DEF BusHeld, Bus!Connect, Bus!ReadSeq, Bus!ReadList, Bus!Take, Bus!Write, Bus!Observe,
           Bus!Resync, Bus!Ping, Bus!Tick, Bus!ClientCloses, Bus!LineDies, Bus!Refetch
  <2>5. busIdle' \in 0..BusPingTicks /\ busLinks' \in 0..BusMaxLinks
    BY <1>0, <1>4, <1>b
       DEF BusWaits, Bus!Connect, Bus!ReadSeq, Bus!ReadList, Bus!Take, Bus!Write,
           Bus!Resync, Bus!Ping, Bus!Tick, Bus!ClientCloses, Bus!LineDies, Bus!Refetch
  <2>6. busLast' \in 0..BusMaxVersions /\ busShown' \in 0..BusMaxVersions
    <3>1. busFrame.seq \in 0..BusMaxVersions /\ busFrame.version \in 0..BusMaxVersions
      BY <1>b DEF BusHeld, Bus!Frames, Bus!Versions
    <3>2. /\ busLast' \in {busLast, busFrame.seq}
          /\ busShown' \in {busShown, busFrame.version, busVersion}
      BY <1>4
         DEF Bus!Connect, Bus!ReadSeq, Bus!ReadList, Bus!Take, Bus!Write, Bus!Observe,
             Bus!Larger, Bus!Resync, Bus!Ping, Bus!Tick, Bus!ClientCloses, Bus!LineDies,
             Bus!Refetch
    <3> QED  BY <1>a, <1>b, <3>1, <3>2 DEF BusWaits
  <2> QED  BY <2>1, <2>2, <2>3, <2>4, <2>5, <2>6 DEF BusInv, BusHeld, BusWaits
<1> QED  BY <1>1, <1>2, <1>3, <1>4
         DEF Bus!Next, Bus!PublishStep, Bus!LoopStep, Bus!Connect, Bus!ReadSeq, Bus!ReadList,
             Bus!Take, Bus!Write, Bus!Resync, Bus!Ping, Bus!Tick, Bus!ClientCloses,
             Bus!LineDies, Bus!Refetch

------------------------------------------------------------------------------
(* Where the newest version is. The disjunct that holds before a step either    *)
(* holds after it or is replaced by the next one on the way to the client.      *)

LEMMA NewsBegins == ASSUME Bus!Init PROVE Bus!NewestIsOnTheWay
BY DEF Bus!Init, Bus!NewestIsOnTheWay

LEMMA NewsRests ==
    ASSUME Bus!NewestIsOnTheWay, UNCHANGED busVars
    PROVE  Bus!NewestIsOnTheWay'
BY DEF Bus!NewestIsOnTheWay, busVars

LEMMA NewsIsPublished ==
    ASSUME Bus!EventBusAssumption, BusInv, Bus!NewestIsOnTheWay, NEW p \in BusPublishers,
           Bus!Update(p) \/ Bus!Number(p) \/ Bus!Deliver(p)
    PROVE  Bus!NewestIsOnTheWay'
<1> USE DEF Bus!serverVars, Bus!clientVars
<1>0. /\ busPublishing \in [BusPublishers -> BusEvents]
      /\ busVersion \in 0..BusMaxVersions /\ busSeq \in 0..BusMaxVersions
      /\ busQueue \in Seq(BusEvents)
  BY DEF BusInv, BusCounted, BusQueued
<1>1. CASE Bus!Update(p)
  <2>1. busPublishing'[p].version = busVersion'
    BY <1>0, <1>1 DEF Bus!Update, BusEvents
  <2> QED  BY <2>1 DEF Bus!NewestIsOnTheWay
<1>2. CASE Bus!Number(p)
  <2>1. \A q \in BusPublishers : busPublishing'[q].version = busPublishing[q].version
    BY <1>0, <1>2 DEF Bus!Number, BusEvents
  <2>2. UNCHANGED <<busVersion, busQueue, busDropped, busLoop, busFrame, busLine, busShown>>
    BY <1>2 DEF Bus!Number
  <2> QED  BY <2>1, <2>2 DEF Bus!NewestIsOnTheWay
<1>3. CASE Bus!Deliver(p)
  <2>1. UNCHANGED <<busVersion, busLoop, busFrame, busLine, busShown>>
    BY <1>3 DEF Bus!Deliver
  <2>2. \A q \in BusPublishers : q # p => busPublishing'[q] = busPublishing[q]
    BY <1>0, <1>3 DEF Bus!Deliver
  <2>3. SUFFICES ASSUME busLoop # "none" /\ busLine = "up"
                 PROVE  Bus!NewestIsOnTheWay'
    BY <2>1 DEF Bus!NewestIsOnTheWay
  <2>4. CASE busDropped'
    BY <2>4 DEF Bus!NewestIsOnTheWay
  <2>5. CASE ~busDropped'
    <3>1. busQueue' = Append(busQueue, busPublishing[p]) /\ busDropped' = busDropped
      BY <1>3, <2>3, <2>5 DEF Bus!Deliver
    <3>2. busPublishing[p] \in BusEvents
      BY <1>0
    <3>3. /\ DOMAIN busQueue' = 1..(Len(busQueue) + 1)
          /\ \A i \in DOMAIN busQueue : i \in DOMAIN busQueue' /\ busQueue'[i] = busQueue[i]
          /\ busQueue'[Len(busQueue) + 1] = busPublishing[p]
          /\ Len(busQueue) + 1 \in DOMAIN busQueue'
      BY <1>0, <3>1, <3>2
    <3>4. CASE \E i \in DOMAIN busQueue : busQueue[i].version = busVersion
      BY <2>1, <3>3, <3>4 DEF Bus!NewestIsOnTheWay
    <3>5. CASE busPublishing[p].version = busVersion
      BY <2>1, <3>3, <3>5 DEF Bus!NewestIsOnTheWay
    <3>6. CASE \E q \in BusPublishers : q # p /\ busPublishing[q].version = busVersion
      BY <2>1, <2>2, <3>6 DEF Bus!NewestIsOnTheWay
    <3> QED  BY <2>1, <2>3, <2>5, <3>1, <3>4, <3>5, <3>6 DEF Bus!NewestIsOnTheWay
  <2> QED  BY <2>4, <2>5
<1> QED  BY <1>1, <1>2, <1>3

LEMMA NewsStep ==
    ASSUME Bus!EventBusAssumption, BusInv, Bus!NewestIsOnTheWay, Bus!Next
    PROVE  Bus!NewestIsOnTheWay'
<1> USE DEF Bus!serverVars, Bus!clientVars
<1>0. /\ busVersion \in Nat /\ busShown \in Nat /\ busFrame.version \in Nat
      /\ busQueue \in Seq(BusEvents)
  BY DEF Bus!EventBusAssumption, BusInv, BusCounted, BusQueued, BusHeld, BusWaits,
         Bus!Frames, Bus!Versions
<1>1. ASSUME NEW p \in BusPublishers, Bus!Update(p) \/ Bus!PublishStep(p)
      PROVE  Bus!NewestIsOnTheWay'
  BY <1>1, NewsIsPublished DEF Bus!PublishStep
<1>2. CASE Bus!Connect \/ Bus!ReadSeq \/ Bus!ClientCloses
  BY <1>2 DEF Bus!Connect, Bus!ReadSeq, Bus!ClientCloses, Bus!NewestIsOnTheWay
<1>3. CASE Bus!ReadList
  <2>1. busFrame'.version = busVersion'
    BY <1>3 DEF Bus!ReadList, BusInv, BusHeld, Bus!Frames
  <2> QED  BY <1>0, <1>3, <2>1 DEF Bus!ReadList, Bus!NewestIsOnTheWay
<1>4. CASE Bus!Take
  <2>1. /\ UNCHANGED <<busVersion, busPublishing, busDropped, busLine, busShown>>
        /\ busLoop = "wait" /\ busLoop' = "write" /\ busQueue # <<>>
        /\ busFrame'.version = busQueue[1].version /\ busQueue' = Tail(busQueue)
    BY <1>0, <1>4 DEF Bus!Take
  <2>2. \A i \in DOMAIN busQueue :
            i = 1 \/ (i - 1 \in DOMAIN busQueue' /\ busQueue'[i - 1] = busQueue[i])
    BY <1>0, <2>1
  <2>3. ASSUME NEW i \in DOMAIN busQueue, busQueue[i].version = busVersion, busLine = "up"
        PROVE  Bus!NewestIsOnTheWay'
    <3>1. CASE i = 1
      BY <1>0, <2>1, <2>3, <3>1 DEF Bus!NewestIsOnTheWay
    <3>2. CASE i # 1
      BY <2>1, <2>2, <2>3, <3>2 DEF Bus!NewestIsOnTheWay
    <3> QED  BY <3>1, <3>2
  <2> QED  BY <2>1, <2>3 DEF Bus!NewestIsOnTheWay
<1>5. CASE Bus!Write
  <2>1. UNCHANGED <<busVersion, busPublishing, busQueue, busDropped, busLine>>
        /\ busLoop = "write" /\ busLoop' = "wait"
    BY <1>5 DEF Bus!Write
  <2>2. busLine = "up" =>
            busShown' \in Nat /\ busShown' >= busShown /\ busShown' >= busFrame.version
    BY <1>0, <1>5 DEF Bus!Write, Bus!Observe, Bus!Larger
  <2> QED  BY <1>0, <2>1, <2>2 DEF Bus!NewestIsOnTheWay
<1>6. CASE Bus!Resync \/ Bus!Ping \/ Bus!Tick \/ Bus!LineDies
  BY <1>6 DEF Bus!Resync, Bus!Ping, Bus!Tick, Bus!LineDies, Bus!NewestIsOnTheWay
<1>7. CASE Bus!Refetch
  BY <1>0, <1>7 DEF Bus!Refetch, Bus!NewestIsOnTheWay
<1> QED  BY <1>1, <1>2, <1>3, <1>4, <1>5, <1>6, <1>7 DEF Bus!Next, Bus!LoopStep

------------------------------------------------------------------------------
(* The runs that print. The queue never holds more turns than were submitted.   *)

PrintTurns ==
    /\ printSubmitted \in 0..PrintMaxTurns /\ printAhead \in 0..printSubmitted
    /\ printTurn \in {"idle", "slot", "spawn", "spawned", "read", "settle"}
    /\ {printFirst, printResumed, printStopped, printLive} \subseteq BOOLEAN

PrintTask ==
    /\ printStatus \in {"pending", "running", "waiting"} \cup OneShot!Ended
    /\ printCard \in BOOLEAN
    /\ printProc \in {"none", "alive", "done", "failed", "lost"}
    /\ printSaid \in {"nothing", "settled", "hung"}
    /\ printAnswering \in BOOLEAN /\ printCancelling \in BOOLEAN

PrintAsks ==
    /\ printUsed \in 0..PrintMaxCalls /\ printAsked \in SUBSET OneShot!Calls
    /\ printHandler \in
         [OneShot!Calls -> {"none", "placed", "waiting", "expired", "done"}]
    /\ printChoice \in [OneShot!Calls -> {"none", "approve", "deny"}]
    /\ printEntry \in OneShot!Calls \cup {0}

PrintInv == PrintTurns /\ PrintTask /\ PrintAsks

LEMMA PrintIsTyped == ASSUME OneShot!PrintAssumption, PrintInv PROVE OneShot!TypeOK
<1>1. printAhead \in 0..PrintMaxTurns
  BY DEF PrintInv, PrintTurns, OneShot!PrintAssumption
<1> QED  BY <1>1 DEF PrintInv, PrintTurns, PrintTask, PrintAsks, OneShot!TypeOK

LEMMA PrintBegins ==
    ASSUME OneShot!PrintAssumption, OneShot!Init
    PROVE  PrintInv
<1>1. PrintTurns
  <2>1. PrintMaxTurns \in Nat /\ printSubmitted = 0 /\ printAhead = 0 /\ printTurn = "idle"
    BY DEF OneShot!PrintAssumption, OneShot!Init
  <2>2. {printFirst, printResumed, printStopped, printLive} \subseteq BOOLEAN
    BY DEF OneShot!Init
  <2> QED  BY <2>1, <2>2 DEF PrintTurns
<1>2. PrintTask
  BY DEF OneShot!Init, OneShot!Ended, PrintTask
<1>3. PrintAsks
  BY DEF OneShot!PrintAssumption, OneShot!Init, PrintAsks
<1> QED  BY <1>1, <1>2, <1>3 DEF PrintInv

LEMMA PrintRests == ASSUME PrintInv, UNCHANGED printVars PROVE PrintInv'
BY DEF PrintInv, printVars, PrintTurns, PrintTask, PrintAsks

LEMMA PrintStep ==
    ASSUME OneShot!PrintAssumption, PrintInv, OneShot!Next
    PROVE  PrintInv'
<1> USE DEF OneShot!taskVars, OneShot!turnVars, OneShot!hookVars, OneShot!userVars,
            OneShot!Ended
<1>0. /\ PrintMaxTurns \in Nat /\ PrintMaxCalls \in Nat /\ PrintTurns /\ PrintTask /\ PrintAsks
      /\ OneShot!Calls = 1..PrintMaxCalls
  BY DEF OneShot!PrintAssumption, PrintInv, OneShot!Calls
<1>1. ASSUME NEW c \in OneShot!Calls, OneShot!HandlerStep(c) PROVE PrintInv'
  <2>1. PrintTurns'
    BY <1>0, <1>1
       DEF PrintTurns, OneShot!HandlerStep, OneShot!ShowCard, OneShot!Hear, OneShot!TimeUp,
           OneShot!Expire
  <2>2. PrintTask'
    BY <1>0, <1>1
       DEF PrintTask, OneShot!HandlerStep, OneShot!ShowCard, OneShot!Hear, OneShot!TimeUp,
           OneShot!Expire, OneShot!SetStatus
  <2>3. PrintAsks'
    BY <1>0, <1>1
       DEF PrintAsks, OneShot!HandlerStep, OneShot!ShowCard, OneShot!Hear, OneShot!TimeUp,
           OneShot!Expire, OneShot!Reply
  <2> QED  BY <2>1, <2>2, <2>3 DEF PrintInv
<1>2. ASSUME NEW x \in {"approve", "deny"}, OneShot!Answer(x) PROVE PrintInv'
  <2>1. PrintTurns' /\ PrintTask'
    BY <1>0, <1>2 DEF PrintTurns, PrintTask, OneShot!Answer
  <2>2. PrintAsks'
    BY <1>0, <1>2 DEF PrintAsks, OneShot!Answer
  <2> QED  BY <2>1, <2>2 DEF PrintInv
<1>3. ASSUME OneShot!Ask PROVE PrintInv'
  <2>1. PrintTurns' /\ PrintTask'
    BY <1>0, <1>3 DEF PrintTurns, PrintTask, OneShot!Ask
  <2>2. printUsed' \in 1..PrintMaxCalls
    BY <1>0, <1>3 DEF PrintAsks, OneShot!Ask
  <2>3. PrintAsks'
    <3>1. CASE printEntry = 0
      <4>1. /\ printEntry' = printUsed' /\ printAsked' = printAsked \cup {printUsed'}
            /\ printHandler' = [printHandler EXCEPT ![printUsed'] = "placed"]
            /\ printChoice' = printChoice
        BY <1>3, <3>1 DEF OneShot!Ask
      <4> QED  BY <1>0, <2>2, <4>1 DEF PrintAsks
    <3>2. CASE printEntry # 0
      <4>1. UNCHANGED <<printEntry, printAsked, printHandler, printChoice>>
        BY <1>3, <3>2 DEF OneShot!Ask
      <4> QED  BY <1>0, <2>2, <4>1 DEF PrintAsks
    <3> QED  BY <3>1, <3>2
  <2> QED  BY <2>1, <2>3 DEF PrintInv
<1>4. ASSUME \/ OneShot!Submit \/ OneShot!TurnStep \/ OneShot!ReadLine \/ OneShot!Exit
             \/ OneShot!Answered \/ OneShot!Message \/ OneShot!Cancel \/ OneShot!Cancelled
      PROVE  PrintInv'
  <2>1. PrintTurns'
    <3>1. /\ printSubmitted' \in {printSubmitted, printSubmitted + 1}
          /\ \/ printAhead' \in {printAhead, 0}
             \/ printAhead' = printAhead - 1 /\ printAhead > 0
             \/ printAhead' = printAhead + 1 /\ printSubmitted' = printSubmitted + 1
          /\ printSubmitted' # printSubmitted => printSubmitted < PrintMaxTurns
      BY <1>4
         DEF OneShot!Submit, OneShot!TurnStep, OneShot!Begin, OneShot!Prepare,
             OneShot!Spawn, OneShot!Spawned, OneShot!EndOfStream, OneShot!Settle,
             OneShot!ReadLine, OneShot!Exit, OneShot!Answered, OneShot!Message,
             OneShot!Cancel, OneShot!Cancelled
    <3>2. printSubmitted' \in 0..PrintMaxTurns /\ printAhead' \in 0..printSubmitted'
      BY <1>0, <3>1 DEF PrintTurns
    <3>3. printTurn' \in {"idle", "slot", "spawn", "spawned", "read", "settle"}
      BY <1>0, <1>4
         DEF PrintTurns, OneShot!Submit, OneShot!TurnStep, OneShot!Begin, OneShot!Prepare,
             OneShot!Spawn, OneShot!Spawned, OneShot!EndOfStream, OneShot!Settle,
             OneShot!ReadLine, OneShot!Exit, OneShot!Answered, OneShot!Message,
             OneShot!Cancel, OneShot!Cancelled
    <3>4. {printFirst', printResumed', printStopped', printLive'} \subseteq BOOLEAN
      BY <1>0, <1>4
         DEF PrintTurns, OneShot!Submit, OneShot!TurnStep, OneShot!Begin, OneShot!Prepare,
             OneShot!Spawn, OneShot!Spawned, OneShot!EndOfStream, OneShot!Settle,
             OneShot!ReadLine, OneShot!Exit, OneShot!Answered, OneShot!Message,
             OneShot!Cancel, OneShot!Cancelled
    <3> QED  BY <3>2, <3>3, <3>4 DEF PrintTurns
  <2>2. PrintTask'
    <3>1. /\ printStatus' \in {"pending", "running", "waiting"} \cup OneShot!Ended
          /\ printCard' \in BOOLEAN
      BY <1>0, <1>4
         DEF PrintTask, OneShot!Submit, OneShot!TurnStep, OneShot!Begin, OneShot!Prepare,
             OneShot!Spawn, OneShot!Spawned, OneShot!EndOfStream, OneShot!Settle,
             OneShot!ReadLine, OneShot!Exit, OneShot!Answered, OneShot!Message,
             OneShot!Cancel, OneShot!Cancelled, OneShot!SetStatus, OneShot!SetRunning,
             OneShot!FailTask, OneShot!CompleteAfterTurn
    <3>2. /\ printProc' \in {"none", "alive", "done", "failed", "lost"}
          /\ printSaid' \in {"nothing", "settled", "hung"}
          /\ printAnswering' \in BOOLEAN /\ printCancelling' \in BOOLEAN
      BY <1>0, <1>4
         DEF PrintTask, OneShot!Submit, OneShot!TurnStep, OneShot!Begin, OneShot!Prepare,
             OneShot!Spawn, OneShot!Spawned, OneShot!EndOfStream, OneShot!Settle,
             OneShot!ReadLine, OneShot!Exit, OneShot!Answered, OneShot!Message,
             OneShot!Cancel, OneShot!Cancelled
    <3> QED  BY <3>1, <3>2 DEF PrintTask
  <2>3. PrintAsks'
    BY <1>0, <1>4
       DEF PrintAsks, OneShot!Submit, OneShot!TurnStep, OneShot!Begin, OneShot!Prepare,
           OneShot!Spawn, OneShot!Spawned, OneShot!EndOfStream, OneShot!Settle,
           OneShot!ReadLine, OneShot!Exit, OneShot!Answered, OneShot!Message,
           OneShot!Cancel, OneShot!Cancelled
  <2> QED  BY <2>1, <2>2, <2>3 DEF PrintInv
<1> QED  BY <1>1, <1>2, <1>3, <1>4 DEF OneShot!Next

------------------------------------------------------------------------------
(* The decision that is pending. Calls are numbered as they come, so a call that *)
(* is placed has never been answered before.                                     *)

PrintHeld ==
    /\ OneShot!PendingHasAHandler
    /\ printEntry # 0 => printEntry <= printUsed
    /\ \A c \in OneShot!Calls : c > printUsed => printChoice[c] = "none"

LEMMA DecisionBegins == ASSUME OneShot!Init PROVE PrintHeld
BY DEF OneShot!Init, PrintHeld, OneShot!PendingHasAHandler

LEMMA DecisionRests == ASSUME PrintHeld, UNCHANGED printVars PROVE PrintHeld'
BY DEF PrintHeld, printVars, OneShot!PendingHasAHandler

LEMMA DecisionStep ==
    ASSUME OneShot!PrintAssumption, PrintInv, PrintHeld, OneShot!Next
    PROVE  PrintHeld'
<1> USE DEF OneShot!hookVars
<1>0. /\ OneShot!Calls = 1..PrintMaxCalls /\ PrintMaxCalls \in Nat
      /\ printUsed \in 0..PrintMaxCalls /\ printEntry \in OneShot!Calls \cup {0}
      /\ printHandler \in
           [OneShot!Calls -> {"none", "placed", "waiting", "expired", "done"}]
      /\ printChoice \in [OneShot!Calls -> {"none", "approve", "deny"}]
  BY DEF OneShot!PrintAssumption, PrintInv, PrintAsks, OneShot!Calls
<1>1. ASSUME NEW c \in OneShot!Calls, OneShot!ShowCard(c) \/ OneShot!TimeUp(c)
      PROVE  PrintHeld'
  BY <1>0, <1>1 DEF OneShot!ShowCard, OneShot!TimeUp, PrintHeld, OneShot!PendingHasAHandler
<1>2. ASSUME NEW c \in OneShot!Calls, OneShot!Hear(c) PROVE PrintHeld'
  <2>1. c # printEntry
    BY <1>0, <1>2 DEF OneShot!Hear, PrintHeld, OneShot!PendingHasAHandler
  <2> QED  BY <1>0, <1>2, <2>1
           DEF OneShot!Hear, OneShot!Reply, PrintHeld, OneShot!PendingHasAHandler
<1>3. ASSUME NEW c \in OneShot!Calls, OneShot!Expire(c) PROVE PrintHeld'
  BY <1>0, <1>3 DEF OneShot!Expire, OneShot!Reply, PrintHeld, OneShot!PendingHasAHandler
<1>4. ASSUME NEW x \in {"approve", "deny"}, OneShot!Answer(x) PROVE PrintHeld'
  <2>1. /\ printEntry \in OneShot!Calls /\ printEntry <= printUsed /\ printEntry' = 0
        /\ printChoice' = [printChoice EXCEPT ![printEntry] = x] /\ printUsed' = printUsed
    BY <1>0, <1>4 DEF OneShot!Answer, PrintHeld
  <2>2. \A c \in OneShot!Calls : c > printUsed => c # printEntry
    BY <1>0, <2>1
  <2> QED  BY <1>0, <2>1, <2>2 DEF PrintHeld, OneShot!PendingHasAHandler
<1>5. CASE OneShot!Ask
  <2>1. printUsed' = printUsed + 1 /\ printUsed' \in OneShot!Calls /\ printChoice' = printChoice
    BY <1>0, <1>5 DEF OneShot!Ask
  <2>2. CASE printEntry = 0
    <3>1. /\ printEntry' = printUsed'
          /\ printHandler' = [printHandler EXCEPT ![printUsed'] = "placed"]
      BY <1>5, <2>2 DEF OneShot!Ask
    <3>2. printHandler'[printUsed'] = "placed" /\ printChoice'[printUsed'] = "none"
      BY <1>0, <2>1, <3>1 DEF PrintHeld
    <3> QED  BY <1>0, <2>1, <3>1, <3>2 DEF PrintHeld, OneShot!PendingHasAHandler
  <2>3. CASE printEntry # 0
    <3>1. UNCHANGED <<printEntry, printHandler>>
      BY <1>5, <2>3 DEF OneShot!Ask
    <3> QED  BY <1>0, <2>1, <3>1 DEF PrintHeld, OneShot!PendingHasAHandler
  <2> QED  BY <2>2, <2>3
<1>6. CASE \/ OneShot!Submit \/ OneShot!TurnStep \/ OneShot!ReadLine \/ OneShot!Exit
           \/ OneShot!Answered \/ OneShot!Message \/ OneShot!Cancel \/ OneShot!Cancelled
  <2>1. UNCHANGED <<printUsed, printHandler, printChoice, printEntry>>
    BY <1>6
       DEF OneShot!Submit, OneShot!TurnStep, OneShot!Begin, OneShot!Prepare,
           OneShot!Spawn, OneShot!Spawned, OneShot!EndOfStream, OneShot!Settle,
           OneShot!ReadLine, OneShot!Exit, OneShot!Answered, OneShot!Message,
           OneShot!Cancel, OneShot!Cancelled
  <2> QED  BY <2>1 DEF PrintHeld, OneShot!PendingHasAHandler
<1> QED  BY <1>1, <1>2, <1>3, <1>4, <1>5, <1>6 DEF OneShot!Next, OneShot!HandlerStep

------------------------------------------------------------------------------
(* The list of models. A leader is a caller whose probe is in flight, and whoever *)
(* has led a probe has found something.                                          *)

CatalogClock ==
    /\ catalogDay \in 0..CatalogMaxDays /\ catalogConfig \in 0..CatalogMaxConfigs
    /\ catalogRestarts \in 0..CatalogMaxRestarts /\ catalogChanging \in {"no", "memory", "disk"}
    /\ catalogUntil \in 0..(CatalogMaxDays + 1)

CatalogFound ==
    /\ catalogMemory \in Catalog!Lists /\ catalogDisk \in Catalog!Lists
    /\ catalogDisk.kind # "error" /\ catalogAnswer \in [CatalogCallers -> Catalog!Lists]
    /\ \A c \in CatalogCallers :
           catalogCaller[c] \in {"probing", "storing", "saving", "closing"} =>
               catalogAnswer[c].kind \in Catalog!Kinds

CatalogLed ==
    /\ catalogCaller \in
         [CatalogCallers ->
             {"idle", "probing", "storing", "saving", "closing", "waiting", "done"}]
    /\ catalogLeader # NoValue =>
           catalogLeader \in CatalogCallers
           /\ catalogCaller[catalogLeader] \in {"probing", "storing"}
    /\ \A c \in CatalogCallers :
           catalogCaller[c] \in {"probing", "storing"} => catalogLeader = c

CatalogAwaited ==
    /\ catalogWaitsFor \in [CatalogCallers -> CatalogCallers \cup {NoValue}]
    /\ \A c \in CatalogCallers :
           IF catalogCaller[c] # "waiting" THEN catalogWaitsFor[c] = NoValue
           ELSE catalogWaitsFor[c] \in CatalogCallers
                /\ catalogCaller[catalogWaitsFor[c]] \in
                       {"probing", "storing", "saving", "closing"}

CatalogInv == CatalogClock /\ CatalogFound /\ CatalogLed /\ CatalogAwaited

LEMMA CatalogIsTyped == ASSUME CatalogInv PROVE Catalog!TypeOK
<1> DEFINE Probing == {c \in CatalogCallers : catalogCaller[c] \in {"probing", "storing"}}
<1>1. Probing \subseteq {catalogLeader}
  BY DEF CatalogInv, CatalogLed
<1>2. IsFiniteSet({catalogLeader}) /\ Cardinality({catalogLeader}) = 1
  BY FS_Singleton
<1>3. IsFiniteSet(Probing) /\ Cardinality(Probing) <= 1
  BY <1>1, <1>2, FS_Subset
<1>4. Catalog!Cardinality(Probing) <= 1
  BY <1>3 DEF Catalog!Cardinality, Cardinality
<1> QED  BY <1>4 DEF CatalogInv, CatalogClock, CatalogFound, CatalogLed, CatalogAwaited,
             Catalog!TypeOK, Catalog!TTL

LEMMA CatalogBegins ==
    ASSUME Catalog!CatalogAssumption, Catalog!Init
    PROVE  CatalogInv
<1>1. CatalogClock
  BY DEF Catalog!CatalogAssumption, Catalog!Init, CatalogClock
<1>2. CatalogFound
  BY DEF Catalog!Init, CatalogFound, Catalog!Lists, Catalog!NoList
<1>3. CatalogLed /\ CatalogAwaited
  BY DEF Catalog!Init, CatalogLed, CatalogAwaited
<1> QED  BY <1>1, <1>2, <1>3 DEF CatalogInv

LEMMA CatalogRests == ASSUME CatalogInv, UNCHANGED catalogVars PROVE CatalogInv'
BY DEF CatalogInv, catalogVars, CatalogClock, CatalogFound, CatalogLed, CatalogAwaited

LEMMA CatalogStep ==
    ASSUME Catalog!CatalogAssumption, CatalogInv, Catalog!Next
    PROVE  CatalogInv'
<1> USE DEF Catalog!clockVars, Catalog!cacheVars
<1>0. /\ NoValue \notin CatalogCallers
      /\ CatalogMaxDays \in Nat /\ CatalogMaxConfigs \in Nat /\ CatalogMaxRestarts \in Nat
      /\ CatalogClock /\ CatalogFound /\ CatalogLed /\ CatalogAwaited
  BY DEF Catalog!CatalogAssumption, CatalogInv
<1>a. /\ Catalog!NoList \in Catalog!Lists /\ Catalog!NoList.kind # "error"
      /\ \A list \in Catalog!Lists : list.kind \in Catalog!Kinds =>
             list \in [kind : Catalog!Kinds, config : 0..CatalogMaxConfigs,
                       probed : 0..CatalogMaxDays]
  BY DEF Catalog!Lists, Catalog!NoList, Catalog!Kinds
<1>b. \A list \in Catalog!Lists, day \in 0..CatalogMaxDays :
          list.kind \in Catalog!Kinds =>
              /\ [list EXCEPT !.probed = day] \in Catalog!Lists
              /\ [list EXCEPT !.probed = day].kind = list.kind
  BY <1>a DEF Catalog!Lists
<1>c. \A list \in Catalog!Lists, kind \in Catalog!Kinds :
          list.kind \in Catalog!Kinds =>
              /\ [list EXCEPT !.kind = kind] \in Catalog!Lists
              /\ [list EXCEPT !.kind = kind].kind = kind
  BY <1>a DEF Catalog!Lists
<1>1. ASSUME NEW c \in CatalogCallers, Catalog!FromMemory(c) PROVE CatalogInv'
  BY <1>0, <1>1 DEF CatalogInv, Catalog!FromMemory, Catalog!Give, CatalogClock, CatalogFound,
     CatalogLed, CatalogAwaited
<1>2. ASSUME NEW c \in CatalogCallers, Catalog!FromDisk(c) PROVE CatalogInv'
  <2>1. CatalogClock'
    BY <1>0, <1>2 DEF Catalog!FromDisk, CatalogClock, Catalog!TTL
  <2> QED  BY <1>0, <1>2, <2>1 DEF CatalogInv, Catalog!FromDisk, Catalog!Give, CatalogFound,
               CatalogLed, CatalogAwaited
<1>3. ASSUME NEW c \in CatalogCallers, Catalog!Join(c) PROVE CatalogInv'
  <2>1. catalogLeader \in CatalogCallers /\ catalogLeader # c
    BY <1>0, <1>3 DEF Catalog!Join, CatalogLed
  <2>2. CatalogClock' /\ CatalogFound'
    BY <1>0, <1>3 DEF Catalog!Join, CatalogClock, CatalogFound, CatalogLed
  <2>3. CatalogLed'
    BY <1>0, <1>3, <2>1 DEF Catalog!Join, CatalogLed
  <2>4. CatalogAwaited'
    BY <1>0, <1>3, <2>1 DEF Catalog!Join, CatalogLed, CatalogAwaited
  <2> QED  BY <2>2, <2>3, <2>4 DEF CatalogInv
<1>4. ASSUME NEW c \in CatalogCallers, Catalog!Lead(c) PROVE CatalogInv'
  <2>1. CatalogClock'
    BY <1>0, <1>4 DEF Catalog!Lead, CatalogClock
  <2>2. [kind |-> "error", config |-> catalogConfig, probed |-> catalogDay] \in Catalog!Lists
    BY <1>0 DEF CatalogClock, Catalog!Lists, Catalog!Kinds
  <2>3. CatalogFound'
    BY <1>0, <1>4, <2>2 DEF Catalog!Lead, CatalogFound, CatalogLed, Catalog!Kinds
  <2>4. CatalogLed'
    BY <1>0, <1>4 DEF Catalog!Lead, CatalogLed
  <2>5. CatalogAwaited'
    BY <1>0, <1>4 DEF Catalog!Lead, CatalogLed, CatalogAwaited
  <2> QED  BY <2>1, <2>3, <2>4, <2>5 DEF CatalogInv
<1>5. ASSUME NEW c \in CatalogCallers, NEW kind \in Catalog!Kinds, Catalog!ProbeEnds(c, kind)
      PROVE  CatalogInv'
  <2>1. CatalogClock'
    BY <1>0, <1>5 DEF Catalog!ProbeEnds, CatalogClock
  <2>2. /\ [catalogAnswer[c] EXCEPT !.kind = kind] \in Catalog!Lists
        /\ [catalogAnswer[c] EXCEPT !.kind = kind].kind = kind
    BY <1>0, <1>5, <1>c DEF Catalog!ProbeEnds, CatalogFound
  <2>3. catalogAnswer' =
            [catalogAnswer EXCEPT ![c] = [catalogAnswer[c] EXCEPT !.kind = kind]]
    BY <1>0, <1>5 DEF Catalog!ProbeEnds, CatalogFound
  <2>4. CatalogFound'
    BY <1>0, <1>5, <2>2, <2>3 DEF Catalog!ProbeEnds, CatalogFound, CatalogLed
  <2>5. CatalogLed'
    BY <1>0, <1>5 DEF Catalog!ProbeEnds, CatalogLed
  <2>6. CatalogAwaited'
    BY <1>0, <1>5 DEF Catalog!ProbeEnds, CatalogLed, CatalogAwaited
  <2> QED  BY <2>1, <2>4, <2>5, <2>6 DEF CatalogInv
<1>6. ASSUME NEW c \in CatalogCallers, Catalog!Store(c) PROVE CatalogInv'
  <2>1. CatalogClock'
    BY <1>0, <1>6 DEF Catalog!Store, CatalogClock, Catalog!TTL
  <2>2. /\ [catalogAnswer[c] EXCEPT !.probed = catalogDay] \in Catalog!Lists
        /\ [catalogAnswer[c] EXCEPT !.probed = catalogDay].kind = catalogAnswer[c].kind
        /\ catalogAnswer[c].kind \in Catalog!Kinds
    BY <1>0, <1>6, <1>b DEF Catalog!Store, CatalogFound, CatalogClock
  <2>3. catalogAnswer' =
            [catalogAnswer EXCEPT ![c] = [catalogAnswer[c] EXCEPT !.probed = catalogDay]]
    BY <1>0, <1>6 DEF Catalog!Store, CatalogFound
  <2>4. CatalogFound'
    BY <1>0, <1>6, <2>2, <2>3 DEF Catalog!Store, CatalogFound, CatalogLed
  <2>5. CatalogLed'
    BY <1>0, <1>6 DEF Catalog!Store, CatalogLed
  <2>6. CatalogAwaited'
    BY <1>0, <1>6 DEF Catalog!Store, CatalogLed, CatalogAwaited
  <2> QED  BY <2>1, <2>4, <2>5, <2>6 DEF CatalogInv
<1>7. ASSUME NEW c \in CatalogCallers, Catalog!Save(c) PROVE CatalogInv'
  <2>1. CatalogClock' /\ CatalogLed' /\ CatalogAwaited'
    BY <1>0, <1>7 DEF Catalog!Save, CatalogClock, CatalogLed, CatalogAwaited
  <2>2. /\ [catalogAnswer[c] EXCEPT !.probed = catalogDay] \in Catalog!Lists
        /\ [catalogAnswer[c] EXCEPT !.probed = catalogDay].kind = catalogAnswer[c].kind
    BY <1>0, <1>7, <1>b DEF Catalog!Save, CatalogFound, CatalogClock
  <2>3. CatalogFound'
    BY <1>0, <1>7, <2>2 DEF Catalog!Save, CatalogFound, CatalogLed
  <2> QED  BY <2>1, <2>3 DEF CatalogInv
<1>8. ASSUME NEW c \in CatalogCallers, Catalog!CloseProbe(c) PROVE CatalogInv'
  <2> DEFINE Who == {w \in CatalogCallers : catalogWaitsFor[w] = c}
  <2>0. /\ catalogCaller' =
              [w \in CatalogCallers |-> IF w \in Who \cup {c} THEN "done" ELSE catalogCaller[w]]
        /\ catalogAnswer' =
              [w \in CatalogCallers |-> IF w \in Who THEN catalogAnswer[c] ELSE catalogAnswer[w]]
        /\ catalogWaitsFor' =
              [w \in CatalogCallers |-> IF w \in Who THEN NoValue ELSE catalogWaitsFor[w]]
        /\ catalogCaller[c] = "closing"
        /\ UNCHANGED <<catalogLeader, catalogMemory, catalogDisk, catalogUntil>>
    BY <1>8 DEF Catalog!CloseProbe, Catalog!Told
  <2>1. CatalogClock'
    BY <1>0, <1>8 DEF Catalog!CloseProbe, Catalog!Told, CatalogClock
  <2>2. \A w \in Who : catalogCaller[w] = "waiting"
    BY <1>0 DEF CatalogAwaited
  <2> HIDE DEF Who
  <2>w. Who \subseteq CatalogCallers /\ \A w \in CatalogCallers : catalogWaitsFor[w] = c <=> w \in Who
    BY DEF Who
  <2>3. CatalogFound'
    BY <1>0, <2>0, <2>2, <2>w DEF CatalogFound
  <2>4. CatalogLed'
    BY <1>0, <2>0, <2>2, <2>w DEF CatalogLed
  <2>5. CatalogAwaited'
    BY <1>0, <2>0, <2>2, <2>w DEF CatalogAwaited
  <2> QED  BY <2>1, <2>3, <2>4, <2>5 DEF CatalogInv
<1>9. ASSUME NEW c \in CatalogCallers, Catalog!GiveUpWaiting(c) PROVE CatalogInv'
  BY <1>0, <1>9 DEF CatalogInv, Catalog!GiveUpWaiting, CatalogClock, CatalogFound, CatalogLed,
     CatalogAwaited
<1>10. ASSUME Catalog!NextDay \/ Catalog!Configure \/ Catalog!InvalidateMemory
              \/ Catalog!InvalidateDisk
       PROVE  CatalogInv'
  <2>1. CatalogClock'
    BY <1>0, <1>10 DEF Catalog!NextDay, Catalog!Configure, Catalog!InvalidateMemory,
       Catalog!InvalidateDisk, CatalogClock
  <2>2. CatalogFound' /\ CatalogLed' /\ CatalogAwaited'
    BY <1>0, <1>a, <1>10 DEF Catalog!NextDay, Catalog!Configure, Catalog!InvalidateMemory,
       Catalog!InvalidateDisk, CatalogFound, CatalogLed, CatalogAwaited
  <2> QED  BY <2>1, <2>2 DEF CatalogInv
<1>11. ASSUME Catalog!RestartProgram PROVE CatalogInv'
  <2>1. CatalogClock'
    BY <1>0, <1>11 DEF Catalog!RestartProgram, CatalogClock
  <2>2. CatalogFound' /\ CatalogLed' /\ CatalogAwaited'
    BY <1>0, <1>a, <1>11 DEF Catalog!RestartProgram, CatalogFound, CatalogLed, CatalogAwaited
  <2> QED  BY <2>1, <2>2 DEF CatalogInv
<1> QED  BY <1>1, <1>2, <1>3, <1>4, <1>5, <1>6, <1>7, <1>8, <1>9, <1>10, <1>11
         DEF Catalog!Next

------------------------------------------------------------------------------
(* The bridge. What it says names prompts that were sent and permissions that    *)
(* were asked for; a turn in flight has a prompt.                                *)

BridgeFlags ==
    /\ bridgeKnown \in BOOLEAN /\ bridgeClosed \in BOOLEAN /\ bridgeIdleSdk \in BOOLEAN
    /\ bridgeInFlight \in BOOLEAN /\ bridgeCancelling \in BOOLEAN

BridgeTurns ==
    /\ bridgeState \in {"idle", "running", "waiting", "closed"}
    /\ bridgeQueue \in Seq(Resident!Prompts)
    /\ bridgeCurrent \in Resident!Prompts \cup {0} /\ bridgeTurn \in {0, bridgeCurrent}
    /\ bridgeInFlight => bridgeCurrent # 0

BridgeAsked == bridgeAsks \in 0..BridgeMaxAsks /\ bridgePending \subseteq 1..bridgeAsks

BridgeWords ==
    {e \in Resident!Events : /\ e.kind = "end" => e.ref \in Resident!Prompts
                             /\ e.kind = "perm" => e.ref \in 1..bridgeAsks}

BridgeSaid ==
    /\ bridgeHistory \in Seq(BridgeWords) /\ Len(bridgeHistory) <= BridgeHistoryMax
    /\ bridgeLine \in Seq(BridgeWords)

BridgeKept == bridgeEnds \subseteq Resident!Prompts /\ bridgeCards \subseteq 1..bridgeAsks

BridgeKnows ==
    /\ bridgeHeard \in BOOLEAN /\ bridgeFatal \in BOOLEAN /\ bridgeGone \in BOOLEAN
    /\ bridgeDone \in BOOLEAN /\ bridgeCtxDone \in BOOLEAN /\ bridgeWatch \in BOOLEAN

BridgePlaces == {"new", "check", "drop", "asleep", "back"}

BridgeGo ==
    /\ bridgeOpening \in {"health", "create", "hear", "open", "print"}
    /\ bridgeStream \in {"none", "open", "ended", "over"}
    /\ bridgePrompt \in [Resident!Prompts -> BridgePlaces]
    /\ bridgeStop \in {"no", "interrupt", "close", "delete", "out"}
    /\ bridgeFaults \in 0..BridgeMaxFaults

BridgeInv ==
    /\ BridgeFlags /\ BridgeTurns /\ BridgeAsked /\ BridgeSaid /\ BridgeKept /\ BridgeKnows
    /\ BridgeGo

LEMMA BridgeIsTyped ==
    ASSUME Resident!BridgeAssumption, BridgeInv
    PROVE  Resident!TypeOK
<1>1. BridgeWords \subseteq Resident!Events
  BY DEF BridgeWords
<1>2. bridgeHistory \in Seq(Resident!Events) /\ bridgeLine \in Seq(Resident!Events)
  BY <1>1 DEF BridgeInv, BridgeSaid
<1>3. /\ bridgeCurrent \in 0..BridgeMaxPrompts /\ bridgeQueue \in Seq(Resident!Prompts)
      /\ bridgeTurn \in {0, bridgeCurrent}
  BY DEF BridgeInv, BridgeTurns, Resident!Prompts, Resident!BridgeAssumption
<1> QED  BY <1>2, <1>3 DEF BridgeInv, BridgeFlags, BridgeTurns, BridgeAsked, BridgeSaid,
             BridgeKept, BridgeKnows, BridgeGo, BridgePlaces, Resident!TypeOK

LEMMA BridgeBegins ==
    ASSUME Resident!BridgeAssumption, Resident!Init
    PROVE  BridgeInv
<1>0. /\ BridgeMaxPrompts \in Nat /\ BridgeMaxAsks \in Nat /\ BridgeMaxFaults \in Nat
      /\ BridgeHistoryMax \in Nat
  BY DEF Resident!BridgeAssumption
<1>1. BridgeFlags /\ BridgeKnows
  BY DEF Resident!Init, BridgeFlags, BridgeKnows
<1>2. BridgeTurns
  BY EmptySequence DEF Resident!Init, BridgeTurns
<1>3. BridgeAsked /\ BridgeKept
  BY <1>0 DEF Resident!Init, BridgeAsked, BridgeKept
<1>4. BridgeSaid
  BY <1>0, EmptySequence DEF Resident!Init, BridgeSaid
<1>5. BridgeGo
  <2>1. bridgePrompt \in [Resident!Prompts -> BridgePlaces]
    BY DEF Resident!Init, BridgePlaces
  <2> QED  BY <1>0, <2>1 DEF Resident!Init, BridgeGo
<1> QED  BY <1>1, <1>2, <1>3, <1>4, <1>5 DEF BridgeInv

LEMMA BridgeRests == ASSUME BridgeInv, UNCHANGED bridgeVars PROVE BridgeInv'
BY DEF BridgeInv, bridgeVars, BridgeFlags, BridgeTurns, BridgeAsked, BridgeSaid, BridgeKept,
   BridgeKnows, BridgeGo, BridgeWords

\* What is emitted joins the line and the newest of the history.
LEMMA BridgeEmits ==
    ASSUME BridgeHistoryMax \in Nat \ {0}, NEW W,
           bridgeHistory \in Seq(W), Len(bridgeHistory) <= BridgeHistoryMax,
           bridgeLine \in Seq(W), NEW words \in Seq(W), Resident!Emit(words)
    PROVE  /\ bridgeHistory' \in Seq(W) /\ Len(bridgeHistory') <= BridgeHistoryMax
           /\ bridgeLine' \in Seq(W)
<1> DEFINE All == bridgeHistory \o words
           n == Len(All)
<1>1. All \in Seq(W) /\ n \in Nat /\ bridgeLine \o words \in Seq(W)
  OBVIOUS
<1>2. /\ bridgeHistory' =
            IF n > BridgeHistoryMax THEN SubSeq(All, n - BridgeHistoryMax + 1, n) ELSE All
      /\ bridgeLine' \in {bridgeLine, bridgeLine \o words}
  BY DEF Resident!Emit
<1> HIDE DEF All
<1>3. n > BridgeHistoryMax =>
          /\ SubSeq(All, n - BridgeHistoryMax + 1, n) \in Seq(W)
          /\ Len(SubSeq(All, n - BridgeHistoryMax + 1, n)) = BridgeHistoryMax
  BY <1>1
<1>4. bridgeHistory' \in Seq(W) /\ Len(bridgeHistory') <= BridgeHistoryMax
  <2>1. CASE n > BridgeHistoryMax
    BY <1>2, <1>3, <2>1
  <2>2. CASE ~(n > BridgeHistoryMax)
    <3>1. bridgeHistory' = All
      BY <1>2, <2>2
    <3> QED  BY <1>1, <2>2, <3>1
  <2> QED  BY <2>1, <2>2
<1>5. bridgeLine' \in Seq(W)
  BY <1>1, <1>2
<1> QED  BY <1>4, <1>5

LEMMA BridgeStep ==
    ASSUME Resident!BridgeAssumption, BridgeInv, Resident!Next
    PROVE  BridgeInv'
<1> USE DEF Resident!nodeVars, Resident!sentVars, Resident!goVars, Resident!callVars,
            Resident!Quiet, Resident!GoStays, Resident!OpeningStays, Resident!LoopStays,
            Resident!CallStays
<1>0. /\ BridgeMaxPrompts \in Nat /\ BridgeMaxAsks \in Nat /\ BridgeMaxFaults \in Nat
      /\ BridgeHistoryMax \in Nat \ {0} /\ 0 \notin Resident!Prompts
      /\ BridgeFlags /\ BridgeTurns /\ BridgeAsked /\ BridgeSaid /\ BridgeKept /\ BridgeKnows
      /\ BridgeGo
  BY DEF Resident!BridgeAssumption, Resident!Prompts, BridgeInv
<1>n. \/ UNCHANGED Resident!nodeVars
      \/ Resident!SdkPulls \/ Resident!ResultArrives \/ Resident!SdkAsks
      \/ Resident!CancelReturns \/ Resident!CloseRuntime \/ Resident!SdkEnds
      \/ Resident!BridgeDies \/ Resident!Created \/ Resident!Interrupt
      \/ \E p \in Resident!Prompts : Resident!Push(p)
      \/ \E a \in 1..BridgeMaxAsks : Resident!Decide(a)
  BY DEF Resident!Next, Resident!Reclaim, Resident!Healthy, Resident!CreateSession,
         Resident!FallBack, Resident!OnEvent, Resident!StreamBreaks, Resident!LoopStep,
         Resident!OpenStream, Resident!Read, Resident!StreamEnds, Resident!SendPrompt,
         Resident!SendFails, Resident!CallStep, Resident!Look, Resident!Sleep,
         Resident!WatchContext, Resident!EndContext, Resident!StopStep,
         Resident!PostCancel, Resident!CloseSession, Resident!PostDelete
<1>f. BridgeFlags'
  BY <1>0, <1>n DEF BridgeFlags, Resident!SdkPulls, Resident!ResultArrives, Resident!SdkAsks,
     Resident!CancelReturns, Resident!CloseRuntime, Resident!SdkEnds, Resident!BridgeDies,
     Resident!Forget, Resident!Created, Resident!Interrupt, Resident!Push, Resident!Take,
     Resident!Decide
<1>a. BridgeAsked' /\ bridgeAsks' \in {bridgeAsks, bridgeAsks + 1}
  <2>1. \/ bridgeAsks' = bridgeAsks /\ bridgePending' \subseteq bridgePending
        \/ /\ bridgeAsks < BridgeMaxAsks /\ bridgeAsks' = bridgeAsks + 1
           /\ bridgePending' = bridgePending \cup {bridgeAsks + 1}
    BY <1>n DEF Resident!SdkPulls, Resident!ResultArrives, Resident!SdkAsks,
       Resident!CancelReturns, Resident!CloseRuntime, Resident!SdkEnds, Resident!BridgeDies,
       Resident!Forget, Resident!Created, Resident!Interrupt, Resident!Push, Resident!Decide
  <2>2. bridgeAsks \in 0..BridgeMaxAsks /\ bridgePending \subseteq 1..bridgeAsks
    BY <1>0 DEF BridgeAsked
  <2>3. bridgeAsks' \in 0..BridgeMaxAsks /\ bridgeAsks' \in {bridgeAsks, bridgeAsks + 1}
    BY <1>0, <2>1, <2>2
  <2>4. 1..bridgeAsks \subseteq 1..bridgeAsks' /\ (bridgeAsks' # bridgeAsks => bridgeAsks + 1 \in 1..bridgeAsks')
    BY <2>2, <2>3
  <2>5. bridgePending' \subseteq 1..bridgeAsks'
    <3>1. CASE bridgePending' \subseteq bridgePending
      BY <2>2, <2>4, <3>1
    <3>2. CASE bridgeAsks' = bridgeAsks + 1 /\ bridgePending' = bridgePending \cup {bridgeAsks + 1}
      BY <2>2, <2>4, <3>2
    <3> QED  BY <2>1, <3>1, <3>2
  <2> QED  BY <2>3, <2>5 DEF BridgeAsked
<1>t. BridgeTurns'
  <2>1. bridgeState' \in {"idle", "running", "waiting", "closed"}
    BY <1>0, <1>n DEF BridgeTurns, Resident!SdkPulls, Resident!ResultArrives,
       Resident!SdkAsks, Resident!CancelReturns, Resident!CloseRuntime, Resident!SdkEnds,
       Resident!BridgeDies, Resident!Created, Resident!Interrupt, Resident!Push,
       Resident!Decide
  <2>2. \/ UNCHANGED <<bridgeQueue, bridgeCurrent, bridgeTurn, bridgeInFlight>>
        \/ /\ bridgeQueue' \in {bridgeQueue, <<>>} /\ bridgeCurrent' = bridgeCurrent
           /\ bridgeTurn' \in {0, bridgeTurn}
           /\ bridgeInFlight' = FALSE
        \/ \E p \in Resident!Prompts :
               /\ Resident!Take(p) /\ bridgeQueue' = bridgeQueue
        \/ \E p \in Resident!Prompts :
               /\ UNCHANGED <<bridgeCurrent, bridgeTurn, bridgeInFlight>>
               /\ bridgeQueue' = Append(bridgeQueue, p)
        \/ /\ bridgeQueue # <<>> /\ bridgeQueue' = Tail(bridgeQueue)
           /\ Resident!Take(Head(bridgeQueue))
    BY <1>n DEF Resident!SdkPulls, Resident!ResultArrives, Resident!SdkAsks,
       Resident!CancelReturns, Resident!CloseRuntime, Resident!SdkEnds, Resident!BridgeDies,
       Resident!Forget, Resident!Created, Resident!Interrupt, Resident!Push, Resident!Decide
  <2>3. /\ bridgeQueue \in Seq(Resident!Prompts)
        /\ bridgeQueue # <<>> => /\ Head(bridgeQueue) \in Resident!Prompts
                                 /\ Tail(bridgeQueue) \in Seq(Resident!Prompts)
        /\ \A p \in Resident!Prompts : Append(bridgeQueue, p) \in Seq(Resident!Prompts)
    BY <1>0, HeadAndTail, JoinedSequences DEF BridgeTurns
  <2>4. bridgeQueue' \in Seq(Resident!Prompts)
    BY <2>2, <2>3, EmptySequence
  <2>5. /\ bridgeCurrent' \in Resident!Prompts \cup {0} /\ bridgeTurn' \in {0, bridgeCurrent'}
        /\ bridgeInFlight' => bridgeCurrent' # 0
    BY <1>0, <2>2, <2>3 DEF BridgeTurns, Resident!Take
  <2> QED  BY <2>1, <2>4, <2>5 DEF BridgeTurns
<1>2. BridgeWords \subseteq BridgeWords'
  BY <1>0, <1>a DEF BridgeWords, BridgeAsked
<1>3. /\ bridgeHistory \in Seq(BridgeWords') /\ Len(bridgeHistory) <= BridgeHistoryMax
      /\ bridgeLine \in Seq(BridgeWords')
  BY <1>0, <1>2 DEF BridgeSaid
<1>4. /\ [kind |-> "closed", ref |-> 0] \in BridgeWords'
      /\ [kind |-> "error", ref |-> 0] \in BridgeWords'
      /\ bridgeCurrent # 0 => [kind |-> "end", ref |-> bridgeCurrent] \in BridgeWords'
      /\ bridgeAsks' = bridgeAsks + 1 =>
             [kind |-> "perm", ref |-> bridgeAsks + 1] \in BridgeWords'
  BY <1>0, <1>a DEF BridgeTurns, BridgeAsked, BridgeWords, Resident!Events, Resident!Prompts
<1>5. BridgeSaid'
  <2>1. CASE /\ bridgeHistory' \in {bridgeHistory, <<>>}
             /\ bridgeLine' \in {bridgeLine, bridgeHistory, <<>>}
    <3>1. <<>> \in Seq(BridgeWords') /\ Len(<<>>) = 0
      BY EmptySequence
    <3>2. bridgeHistory' \in Seq(BridgeWords') /\ Len(bridgeHistory') <= BridgeHistoryMax
      <4>1. CASE bridgeHistory' = bridgeHistory
        BY <1>3, <4>1
      <4>2. CASE bridgeHistory' = <<>>
        BY <1>0, <3>1, <4>2
      <4> QED  BY <2>1, <4>1, <4>2
    <3> QED  BY <1>3, <2>1, <3>1, <3>2 DEF BridgeSaid
  <2>2. ASSUME Resident!ResultArrives PROVE BridgeSaid'
    <3>1. bridgeCurrent # 0
      BY <1>0, <2>2 DEF BridgeTurns, Resident!ResultArrives
    <3>2. <<[kind |-> "end", ref |-> bridgeCurrent]>> \in Seq(BridgeWords')
      BY <1>4, <3>1
    <3>3. Resident!Emit(<<[kind |-> "end", ref |-> bridgeCurrent]>>)
      BY <2>2 DEF Resident!ResultArrives, Resident!Event
    <3> QED  BY <1>0, <1>3, <3>2, <3>3, BridgeEmits DEF BridgeSaid
  <2>3. ASSUME Resident!SdkAsks PROVE BridgeSaid'
    <3>1. <<[kind |-> "perm", ref |-> bridgeAsks + 1]>> \in Seq(BridgeWords')
      BY <1>4, <2>3 DEF Resident!SdkAsks
    <3>2. Resident!Emit(<<[kind |-> "perm", ref |-> bridgeAsks + 1]>>)
      BY <2>3 DEF Resident!SdkAsks, Resident!Event
    <3> QED  BY <1>0, <1>3, <3>1, <3>2, BridgeEmits DEF BridgeSaid
  <2>4. ASSUME Resident!CancelReturns PROVE BridgeSaid'
    <3>1. CASE ~bridgeInFlight
      BY <2>1, <2>4, <3>1 DEF Resident!CancelReturns
    <3>2. CASE bridgeInFlight
      <4>1. <<[kind |-> "end", ref |-> bridgeCurrent]>> \in Seq(BridgeWords')
        BY <1>0, <1>4, <3>2 DEF BridgeTurns
      <4>2. Resident!Emit(<<[kind |-> "end", ref |-> bridgeCurrent]>>)
        BY <2>4, <3>2 DEF Resident!CancelReturns, Resident!Event
      <4> QED  BY <1>0, <1>3, <4>1, <4>2, BridgeEmits DEF BridgeSaid
    <3> QED  BY <3>1, <3>2
  <2>5. ASSUME Resident!CloseRuntime PROVE BridgeSaid'
    <3>1. <<[kind |-> "closed", ref |-> 0]>> \in Seq(BridgeWords')
      BY <1>4
    <3>2. \/ Resident!Emit(<<[kind |-> "closed", ref |-> 0]>>)
          \/ UNCHANGED <<bridgeHistory, bridgeLine>>
      BY <2>5 DEF Resident!CloseRuntime, Resident!Event
    <3> QED  BY <1>0, <1>3, <2>1, <3>1, <3>2, BridgeEmits DEF BridgeSaid
  <2>6. ASSUME Resident!SdkEnds PROVE BridgeSaid'
    <3>1. /\ bridgeHistory' = <<>>
          /\ bridgeLine' \in
               {bridgeLine,
                bridgeLine \o Append(<<>>, [kind |-> "closed", ref |-> 0]),
                bridgeLine \o Append(<<[kind |-> "error", ref |-> 0]>>,
                                     [kind |-> "closed", ref |-> 0])}
      BY <2>6 DEF Resident!SdkEnds, Resident!Forget, Resident!Event
    <3>2. /\ Append(<<>>, [kind |-> "closed", ref |-> 0]) \in Seq(BridgeWords')
          /\ Append(<<[kind |-> "error", ref |-> 0]>>, [kind |-> "closed", ref |-> 0])
                 \in Seq(BridgeWords')
      BY <1>4
    <3>3. bridgeLine' \in Seq(BridgeWords')
      BY <1>3, <3>1, <3>2, JoinedSequences
    <3> QED  BY <1>0, <3>1, <3>3, EmptySequence DEF BridgeSaid
  <2>7. ASSUME Resident!Read PROVE BridgeSaid'
    <3>1. bridgeHistory' = bridgeHistory /\ bridgeLine # <<>> /\ bridgeLine' = Tail(bridgeLine)
      BY <2>7 DEF Resident!Read
    <3>2. Tail(bridgeLine) \in Seq(BridgeWords')
      BY <1>3, <3>1, HeadAndTail
    <3> QED  BY <1>3, <3>1, <3>2 DEF BridgeSaid
  <2> QED  BY <2>1, <2>2, <2>3, <2>4, <2>5, <2>6, <2>7
           DEF Resident!Next, Resident!Reclaim, Resident!SdkPulls, Resident!BridgeDies,
               Resident!Forget, Resident!Healthy, Resident!CreateSession,
               Resident!FallBack, Resident!OnEvent, Resident!StreamBreaks, Resident!LoopStep,
               Resident!OpenStream, Resident!StreamEnds, Resident!SendPrompt,
               Resident!SendFails, Resident!Sends, Resident!CallStep, Resident!Look,
               Resident!Sleep, Resident!WatchContext, Resident!EndContext,
               Resident!StopStep, Resident!PostCancel, Resident!CloseSession,
               Resident!PostDelete, Resident!Decide
<1>6. BridgeKept'
  <2>1. CASE UNCHANGED bridgeEnds /\ bridgeCards' \subseteq bridgeCards
    BY <1>0, <1>a, <2>1 DEF BridgeKept, BridgeAsked
  <2>2. ASSUME Resident!Read PROVE BridgeKept'
    <3>1. bridgeLine \in Seq(BridgeWords) /\ bridgeLine # <<>>
      BY <1>0, <2>2 DEF Resident!Read, BridgeSaid
    <3>2. Head(bridgeLine) \in BridgeWords
      BY <3>1, HeadAndTail
    <3>3. bridgeAsks' = bridgeAsks
      BY <2>2 DEF Resident!Read
    <3>4. \/ UNCHANGED <<bridgeEnds, bridgeCards>>
          \/ /\ Head(bridgeLine).kind = "end" /\ UNCHANGED bridgeCards
             /\ bridgeEnds' = bridgeEnds \cup {Head(bridgeLine).ref}
          \/ /\ Head(bridgeLine).kind = "perm" /\ UNCHANGED bridgeEnds
             /\ bridgeCards' = bridgeCards \cup {Head(bridgeLine).ref}
      BY <2>2 DEF Resident!Read
    <3> QED  BY <1>0, <3>2, <3>3, <3>4 DEF BridgeKept, BridgeWords
  <2> QED  BY <2>1, <2>2
           DEF Resident!Next, Resident!Reclaim, Resident!SdkPulls, Resident!ResultArrives,
               Resident!SdkAsks, Resident!CancelReturns, Resident!SdkEnds,
               Resident!BridgeDies, Resident!Healthy, Resident!CreateSession,
               Resident!FallBack, Resident!OnEvent, Resident!StreamBreaks, Resident!LoopStep,
               Resident!OpenStream, Resident!StreamEnds, Resident!SendPrompt,
               Resident!SendFails, Resident!Sends, Resident!CallStep, Resident!Look,
               Resident!Sleep, Resident!WatchContext, Resident!EndContext,
               Resident!StopStep, Resident!PostCancel, Resident!CloseSession,
               Resident!PostDelete, Resident!Decide
<1>k. BridgeKnows'
  <2>1. bridgeHeard' \in BOOLEAN /\ bridgeGone' \in BOOLEAN
    BY <1>0 DEF BridgeKnows, Resident!Next, Resident!SdkPulls, Resident!ResultArrives,
       Resident!SdkAsks, Resident!CancelReturns, Resident!Reclaim, Resident!SdkEnds,
       Resident!BridgeDies, Resident!Healthy, Resident!CreateSession, Resident!FallBack,
       Resident!OnEvent, Resident!StreamBreaks, Resident!LoopStep, Resident!OpenStream,
       Resident!Read, Resident!StreamEnds, Resident!SendPrompt,
       Resident!SendFails, Resident!Sends, Resident!CallStep, Resident!Look, Resident!Sleep,
       Resident!WatchContext, Resident!EndContext, Resident!StopStep, Resident!PostCancel,
       Resident!CloseSession, Resident!PostDelete, Resident!Decide
  <2>2. bridgeFatal' \in BOOLEAN /\ bridgeDone' \in BOOLEAN
    <3>1. \/ bridgeFatal' \in {bridgeFatal, TRUE} /\ bridgeDone' \in {bridgeDone, TRUE}
          \/ Resident!Fail
      BY <1>0 DEF BridgeKnows, Resident!Next, Resident!SdkPulls, Resident!ResultArrives,
       Resident!SdkAsks, Resident!CancelReturns, Resident!Reclaim, Resident!SdkEnds,
       Resident!BridgeDies, Resident!Healthy, Resident!CreateSession, Resident!FallBack,
       Resident!OnEvent, Resident!StreamBreaks, Resident!LoopStep, Resident!OpenStream,
       Resident!Read, Resident!StreamEnds, Resident!SendPrompt,
       Resident!SendFails, Resident!Sends, Resident!CallStep, Resident!Look, Resident!Sleep,
       Resident!WatchContext, Resident!EndContext, Resident!StopStep, Resident!PostCancel,
       Resident!CloseSession, Resident!PostDelete, Resident!Decide
    <3> QED  BY <1>0, <3>1 DEF BridgeKnows, Resident!Fail
  <2>3. bridgeCtxDone' \in BOOLEAN /\ bridgeWatch' \in BOOLEAN
    BY <1>0 DEF BridgeKnows, Resident!Next, Resident!SdkPulls, Resident!ResultArrives,
       Resident!SdkAsks, Resident!CancelReturns, Resident!Reclaim, Resident!SdkEnds,
       Resident!BridgeDies, Resident!Healthy, Resident!CreateSession, Resident!FallBack,
       Resident!OnEvent, Resident!StreamBreaks, Resident!LoopStep, Resident!OpenStream,
       Resident!Read, Resident!StreamEnds, Resident!SendPrompt,
       Resident!SendFails, Resident!Sends, Resident!CallStep, Resident!Look, Resident!Sleep,
       Resident!WatchContext, Resident!EndContext, Resident!StopStep, Resident!PostCancel,
       Resident!CloseSession, Resident!PostDelete, Resident!Decide
  <2> QED  BY <2>1, <2>2, <2>3 DEF BridgeKnows
<1>7. /\ bridgeOpening' \in {"health", "create", "hear", "open", "print"}
      /\ bridgeStop' \in {"no", "interrupt", "close", "delete", "out"}
  BY <1>0 DEF BridgeGo, Resident!Next, Resident!SdkPulls, Resident!ResultArrives,
     Resident!SdkAsks, Resident!CancelReturns, Resident!Reclaim, Resident!SdkEnds,
     Resident!BridgeDies, Resident!Healthy, Resident!CreateSession, Resident!FallBack,
     Resident!OnEvent, Resident!StreamBreaks, Resident!LoopStep, Resident!OpenStream,
     Resident!Read, Resident!StreamEnds, Resident!SendPrompt,
     Resident!SendFails, Resident!Sends, Resident!CallStep, Resident!Look, Resident!Sleep,
     Resident!WatchContext, Resident!EndContext, Resident!StopStep, Resident!PostCancel,
     Resident!CloseSession, Resident!PostDelete, Resident!Decide
<1>8. bridgeStream' \in {"none", "open", "ended", "over"}
  BY <1>0 DEF BridgeGo, Resident!Next, Resident!SdkPulls, Resident!ResultArrives,
     Resident!SdkAsks, Resident!CancelReturns, Resident!Reclaim, Resident!SdkEnds,
     Resident!BridgeDies, Resident!Forget, Resident!Healthy, Resident!CreateSession,
     Resident!FallBack, Resident!OnEvent, Resident!StreamBreaks, Resident!LoopStep,
     Resident!OpenStream, Resident!Read, Resident!StreamEnds, Resident!SendPrompt,
     Resident!SendFails, Resident!Sends, Resident!CallStep, Resident!Look, Resident!Sleep,
     Resident!WatchContext, Resident!EndContext, Resident!StopStep, Resident!PostCancel,
     Resident!CloseSession, Resident!PostDelete, Resident!Decide
<1>9. bridgeFaults' \in 0..BridgeMaxFaults
  <2>1. UNCHANGED bridgeFaults \/ Resident!Fault
    BY DEF Resident!Next, Resident!SdkPulls, Resident!ResultArrives,
     Resident!SdkAsks, Resident!CancelReturns, Resident!Reclaim, Resident!SdkEnds,
     Resident!BridgeDies, Resident!Healthy, Resident!CreateSession, Resident!FallBack,
     Resident!OnEvent, Resident!StreamBreaks, Resident!LoopStep, Resident!OpenStream,
     Resident!Read, Resident!StreamEnds, Resident!SendPrompt, Resident!SendFails,
     Resident!CallStep, Resident!Look, Resident!Sleep, Resident!WatchContext,
     Resident!EndContext, Resident!StopStep, Resident!PostCancel, Resident!CloseSession,
     Resident!PostDelete, Resident!Decide
  <2> QED  BY <1>0, <2>1 DEF BridgeGo, Resident!Fault
<1>10. bridgePrompt' \in [Resident!Prompts -> BridgePlaces]
  <2>1. \/ UNCHANGED bridgePrompt \/ Resident!Broadcast
        \/ \E p \in Resident!Prompts, place \in BridgePlaces : Resident!Becomes(p, place)
    BY DEF BridgePlaces, Resident!Next, Resident!SdkPulls, Resident!ResultArrives,
     Resident!SdkAsks, Resident!CancelReturns, Resident!Reclaim, Resident!SdkEnds,
     Resident!BridgeDies, Resident!Healthy, Resident!CreateSession, Resident!FallBack,
     Resident!OnEvent, Resident!StreamBreaks, Resident!LoopStep, Resident!OpenStream,
     Resident!Read, Resident!StreamEnds, Resident!Fail, Resident!SendPrompt,
     Resident!SendFails, Resident!CallStep, Resident!Look, Resident!Sleep,
     Resident!WatchContext, Resident!EndContext, Resident!StopStep, Resident!PostCancel,
     Resident!CloseSession, Resident!PostDelete, Resident!Decide
  <2>2. "check" \in BridgePlaces
    BY DEF BridgePlaces
  <2> QED  BY <1>0, <2>1, <2>2 DEF BridgeGo, Resident!Broadcast, Resident!Becomes
<1> QED  BY <1>f, <1>a, <1>t, <1>5, <1>6, <1>k, <1>7, <1>8, <1>9, <1>10 DEF BridgeInv, BridgeGo

------------------------------------------------------------------------------
(* Whoever changes what a prompt waits for takes the lock and wakes the sleepers. *)

LEMMA WakeBegins == ASSUME Resident!Init PROVE Resident!WakeUpsReach
BY DEF Resident!Init, Resident!WakeUpsReach

LEMMA WakeRests ==
    ASSUME Resident!WakeUpsReach, UNCHANGED bridgeVars PROVE Resident!WakeUpsReach'
BY DEF Resident!WakeUpsReach, bridgeVars

\* With the lock free and the sleepers woken, nobody is on his way to sleep.
LEMMA AllAwake ==
    ASSUME Resident!Unlocked, Resident!Broadcast
    PROVE  Resident!WakeUpsReach'
<1>1. \A p \in Resident!Prompts : bridgePrompt'[p] \notin {"drop", "asleep"}
  BY DEF Resident!Unlocked, Resident!Broadcast
<1> QED  BY <1>1 DEF Resident!WakeUpsReach

LEMMA WakeStep ==
    ASSUME BridgeInv, Resident!WakeUpsReach, Resident!Next
    PROVE  Resident!WakeUpsReach'
<1> USE DEF Resident!nodeVars, Resident!sentVars, Resident!goVars, Resident!callVars,
            Resident!Quiet, Resident!GoStays, Resident!OpeningStays, Resident!LoopStays,
            Resident!CallStays
<1>0. bridgePrompt \in [Resident!Prompts -> BridgePlaces]
  BY DEF BridgeInv, BridgeGo
<1>1. ASSUME UNCHANGED <<bridgePrompt, bridgeEnds, bridgeFatal, bridgeGone>>
      PROVE  Resident!WakeUpsReach'
  BY <1>1 DEF Resident!WakeUpsReach
<1>2. CASE \/ Resident!SdkPulls \/ Resident!ResultArrives \/ Resident!SdkAsks
           \/ Resident!CancelReturns \/ Resident!Reclaim \/ Resident!SdkEnds
           \/ Resident!BridgeDies
  BY <1>1, <1>2 DEF Resident!SdkPulls, Resident!ResultArrives, Resident!SdkAsks,
     Resident!CancelReturns, Resident!Reclaim, Resident!SdkEnds, Resident!BridgeDies
<1>3. CASE \/ Resident!Healthy \/ Resident!CreateSession \/ Resident!FallBack
           \/ Resident!OnEvent
  BY <1>1, <1>3 DEF Resident!Healthy, Resident!CreateSession, Resident!FallBack,
     Resident!OnEvent
<1>4. CASE Resident!StreamBreaks \/ Resident!OpenStream \/ Resident!StreamEnds
  <2>1. \/ UNCHANGED <<bridgePrompt, bridgeEnds, bridgeFatal, bridgeGone>>
        \/ Resident!Unlocked /\ Resident!Broadcast
    BY <1>4 DEF Resident!StreamBreaks, Resident!OpenStream, Resident!StreamEnds, Resident!Fail
  <2> QED  BY <1>1, <2>1, AllAwake
<1>5. CASE Resident!Read
  <2>1. \/ UNCHANGED <<bridgePrompt, bridgeEnds, bridgeFatal, bridgeGone>>
        \/ Resident!Unlocked /\ Resident!Broadcast
    BY <1>5 DEF Resident!Read, Resident!Fail
  <2> QED  BY <1>1, <2>1, AllAwake
<1>6. ASSUME NEW p \in Resident!Prompts, NEW place \in BridgePlaces,
             Resident!Becomes(p, place),
             UNCHANGED <<bridgeEnds, bridgeFatal, bridgeGone>>,
             place \in {"drop", "asleep"} => p \notin bridgeEnds /\ ~bridgeFatal /\ ~bridgeGone
      PROVE  Resident!WakeUpsReach'
  BY <1>0, <1>6 DEF Resident!Becomes, Resident!WakeUpsReach
<1>7. ASSUME NEW p \in Resident!Prompts, Resident!SendPrompt(p) \/ Resident!SendFails(p)
      PROVE  Resident!WakeUpsReach'
  <2>1. /\ Resident!Becomes(p, "check") \/ Resident!Becomes(p, "back")
        /\ UNCHANGED <<bridgeEnds, bridgeFatal, bridgeGone>>
    BY <1>7 DEF Resident!SendPrompt, Resident!SendFails, Resident!Sends
  <2> QED  BY <1>6, <2>1 DEF BridgePlaces
<1>8. ASSUME NEW p \in Resident!Prompts, Resident!Look(p) PROVE Resident!WakeUpsReach'
  BY <1>6, <1>8 DEF Resident!Look, BridgePlaces
<1>9. ASSUME NEW p \in Resident!Prompts, Resident!Sleep(p) PROVE Resident!WakeUpsReach'
  <2>1. p \notin bridgeEnds /\ ~bridgeFatal /\ ~bridgeGone
    BY <1>9 DEF Resident!Sleep, Resident!WakeUpsReach
  <2> QED  BY <1>6, <1>9, <2>1 DEF Resident!Sleep, BridgePlaces
<1>10. CASE Resident!WatchContext
  <2>1. Resident!Broadcast /\ UNCHANGED <<bridgeEnds, bridgeFatal, bridgeGone>>
    BY <1>10 DEF Resident!WatchContext
  <2>2. \A p \in Resident!Prompts :
            bridgePrompt'[p] \in {"drop", "asleep"} => bridgePrompt[p] = "drop"
    BY <2>1 DEF Resident!Broadcast
  <2> QED  BY <2>1, <2>2 DEF Resident!WakeUpsReach
<1>11. CASE Resident!EndContext \/ Resident!PostCancel \/ Resident!PostDelete
  BY <1>1, <1>11 DEF Resident!EndContext, Resident!PostCancel, Resident!PostDelete
<1>12. CASE Resident!CloseSession
  BY <1>12, AllAwake DEF Resident!CloseSession
<1>13. ASSUME NEW a \in 1..BridgeMaxAsks, Resident!Decide(a) PROVE Resident!WakeUpsReach'
  BY <1>1, <1>13 DEF Resident!Decide
<1> QED  BY <1>2, <1>3, <1>4, <1>5, <1>7, <1>8, <1>9, <1>10, <1>11, <1>12, <1>13
         DEF Resident!Next, Resident!LoopStep, Resident!CallStep, Resident!StopStep

------------------------------------------------------------------------------
(* The streams. Only what was heard waits to be written.                         *)

LEMMA ReplacedElement ==
    ASSUME NEW S, NEW s \in Seq(S), NEW i \in DOMAIN s, NEW e \in S
    PROVE  [s EXCEPT ![i] = e] \in Seq(S) /\ Len([s EXCEPT ![i] = e]) = Len(s)
OBVIOUS

LEMMA BlocksExtended ==
    ASSUME NEW blocks \in Seq(Stream!Block), NEW i \in DOMAIN blocks,
           NEW more \in Seq(Stream!Chunks)
    PROVE  [blocks EXCEPT ![i].of = more] \in Seq(Stream!Block)
<1>1. blocks[i] \in Stream!Block
  OBVIOUS
<1>2. [blocks[i] EXCEPT !.of = more] \in Stream!Block
  BY <1>1 DEF Stream!Block
<1>3. [blocks EXCEPT ![i].of = more] = [blocks EXCEPT ![i] = [blocks[i] EXCEPT !.of = more]]
  OBVIOUS
<1> QED  BY <1>2, <1>3, ReplacedElement

LEMMA JoinedIsTyped ==
    ASSUME NEW blocks \in Seq(Stream!Block), NEW k \in Stream!Kinds, NEW n \in Stream!Chunks
    PROVE  Stream!Joined(blocks, k, n) \in Seq(Stream!Block)
<1>1. [kind |-> k, of |-> <<n>>] \in Stream!Block
  BY DEF Stream!Block
<1>2. Append(blocks, [kind |-> k, of |-> <<n>>]) \in Seq(Stream!Block)
  BY <1>1, JoinedSequences
<1>3. blocks # <<>> =>
          [blocks EXCEPT ![Len(blocks)].of = Append(@, n)] \in Seq(Stream!Block)
  <2> SUFFICES ASSUME blocks # <<>>
               PROVE  [blocks EXCEPT ![Len(blocks)].of = Append(@, n)] \in Seq(Stream!Block)
    OBVIOUS
  <2>1. Len(blocks) \in DOMAIN blocks /\ blocks[Len(blocks)] \in Stream!Block
    OBVIOUS
  <2>2. Append(blocks[Len(blocks)].of, n) \in Seq(Stream!Chunks)
    BY <2>1, JoinedSequences DEF Stream!Block
  <2>3. [blocks EXCEPT ![Len(blocks)].of = Append(@, n)]
            = [blocks EXCEPT ![Len(blocks)].of = Append(blocks[Len(blocks)].of, n)]
    BY <2>1
  <2> QED  BY <2>1, <2>2, <2>3, BlocksExtended
<1> QED  BY <1>2, <1>3 DEF Stream!Joined

LEMMA MergedIsTyped ==
    ASSUME NEW blocks \in Seq(Stream!Block), NEW block \in Stream!Block
    PROVE  Stream!Merged(blocks, block) \in Seq(Stream!Block)
<1>1. Append(blocks, block) \in Seq(Stream!Block)
  BY JoinedSequences
<1>2. blocks # <<>> =>
          [blocks EXCEPT ![Len(blocks)].of = @ \o block.of] \in Seq(Stream!Block)
  <2> SUFFICES ASSUME blocks # <<>>
               PROVE  [blocks EXCEPT ![Len(blocks)].of = @ \o block.of] \in Seq(Stream!Block)
    OBVIOUS
  <2>1. Len(blocks) \in DOMAIN blocks /\ blocks[Len(blocks)] \in Stream!Block
    OBVIOUS
  <2>2. blocks[Len(blocks)].of \o block.of \in Seq(Stream!Chunks)
    BY <2>1, JoinedSequences DEF Stream!Block
  <2>3. [blocks EXCEPT ![Len(blocks)].of = @ \o block.of]
            = [blocks EXCEPT ![Len(blocks)].of = blocks[Len(blocks)].of \o block.of]
    BY <2>1
  <2> QED  BY <2>1, <2>2, <2>3, BlocksExtended
<1> QED  BY <1>1, <1>2 DEF Stream!Merged

\* What is written of a call that was heard.
LEMMA AppliedIsTyped ==
    ASSUME Stream!StreamsAssumption, streamHeard \in Seq(Stream!Kinds),
           Len(streamHeard) <= StreamMaxChunks,
           NEW evs \in Seq(Stream!Block), NEW n \in 1..Len(streamHeard)
    PROVE  Stream!Applied(evs, n) \in Seq(Stream!Block)
<1>1. n \in Stream!Chunks /\ streamHeard[n] \in Stream!Kinds
  BY DEF Stream!StreamsAssumption, Stream!Chunks
<1>2. Stream!EventOf(n) \in Stream!Block
  BY <1>1 DEF Stream!EventOf, Stream!Block
<1>3. Append(evs, Stream!EventOf(n)) \in Seq(Stream!Block)
  BY <1>2, JoinedSequences
<1>4. Stream!CallsIn(evs) # {} => Stream!Merge(evs, n) \in Seq(Stream!Block)
  <2> SUFFICES ASSUME Stream!CallsIn(evs) # {}
               PROVE  Stream!Merge(evs, n) \in Seq(Stream!Block)
    OBVIOUS
  <2> DEFINE c == CHOOSE i \in Stream!CallsIn(evs) : TRUE
  <2>1. c \in DOMAIN evs
    BY DEF Stream!CallsIn
  <2>2. Stream!Merge(evs, n) = [evs EXCEPT ![c].of = Append(@, n)]
    BY DEF Stream!Merge
  <2> HIDE DEF c
  <2>3. evs[c] \in Stream!Block
    BY <2>1
  <2>4. Append(evs[c].of, n) \in Seq(Stream!Chunks)
    BY <1>1, <2>3, JoinedSequences DEF Stream!Block
  <2>5. [evs EXCEPT ![c].of = Append(@, n)] = [evs EXCEPT ![c].of = Append(evs[c].of, n)]
    BY <2>1
  <2>6. [evs EXCEPT ![c].of = Append(evs[c].of, n)] \in Seq(Stream!Block)
    BY <2>1, <2>4, BlocksExtended
  <2> QED  BY <2>2, <2>5, <2>6
<1> QED  BY <1>3, <1>4 DEF Stream!Applied

\* appendChunk, block after block.
LEMMA MergedFold ==
    ASSUME NEW base \in Seq(Stream!Block), NEW seq \in Seq(Stream!Block)
    PROVE  \E r \in [0..Len(seq) -> Seq(Stream!Block)] :
               /\ r[0] = base
               /\ \A k \in 1..Len(seq) : r[k] = Stream!Merged(r[k - 1], seq[k])
               /\ Stream!FoldLeft(Stream!Merged, base, seq) = r[Len(seq)]
<1> DEFINE n == Len(seq)
    Tops == [s \in SUBSET (1..n) |-> Stream!Max(s)]
    Steps == [p \in (Seq(Stream!Block)) \X (1..n) |-> Stream!Merged(p[1], seq[p[2]])]
    Is(f) == f = [s \in SUBSET (DOMAIN seq) |->
                     IF s = {} THEN base ELSE Stream!Merged(f[s \ {Stream!Max(s)}], seq[Stream!Max(s)])]
<1>1. n \in Nat /\ DOMAIN seq = 1..n
  OBVIOUS
<1>2. \A s \in SUBSET (1..n) : s # {} =>
          /\ Stream!Max(s) \in s /\ (\A y \in s : Stream!Max(s) >= y) /\ Stream!Max(s) \in 1..n
  <2> SUFFICES ASSUME NEW s \in SUBSET (1..n), s # {}
               PROVE  Stream!Max(s) \in s /\ \A y \in s : Stream!Max(s) >= y
    OBVIOUS
  <2>1. \E x \in s : \A y \in s : x >= y
    <3> HIDE DEF n
    <3> QED  BY <1>1, LargestExists
  <2> QED  BY <2>1 DEF Stream!Max
<1>3. \A x \in Seq(Stream!Block), i \in 1..n : Stream!Merged(x, seq[i]) \in Seq(Stream!Block)
  BY MergedIsTyped
<1>4. Steps \in [(Seq(Stream!Block)) \X (1..n) -> Seq(Stream!Block)]
  BY <1>3
<1>5. \A x \in Seq(Stream!Block), i \in 1..n : Steps[<<x, i>>] = Stream!Merged(x, seq[i])
  OBVIOUS
<1>6. TakesLargest(Tops, n)
  BY <1>2 DEF TakesLargest
<1>7. \E f : Is(f)
  <2>1. PICK h \in [SUBSET (1..n) -> Seq(Stream!Block)] : \A s \in SUBSET (1..n) :
            h[s] = IF s = {} THEN base ELSE Steps[<<h[s \ {Tops[s]}], Tops[s]>>]
    <3> DEFINE X == Seq(Stream!Block)
    <3>1. base \in X /\ Steps \in [X \X (1..n) -> X]
      BY <1>4
    <3> HIDE DEF n, Steps, Tops, X
    <3>2. Folding(n, X, base, Steps, Tops)
      BY <1>1, <1>6, <3>1, FoldingExists
    <3> QED  BY <3>2 DEF Folding, X
  <2>2. ASSUME NEW s \in SUBSET (1..n)
        PROVE  h[s] = IF s = {} THEN base ELSE Stream!Merged(h[s \ {Stream!Max(s)}], seq[Stream!Max(s)])
    <3>1. CASE s = {}
      BY <2>1, <3>1
    <3>2. CASE s # {}
      <4>1. Tops[s] = Stream!Max(s) /\ Stream!Max(s) \in 1..n
        BY <1>2, <3>2
      <4>2. s \ {Stream!Max(s)} \in SUBSET (1..n)
        OBVIOUS
      <4>3. h[s \ {Stream!Max(s)}] \in Seq(Stream!Block)
        BY <2>1, <4>2
      <4>4. h[s] = Steps[<<h[s \ {Stream!Max(s)}], Stream!Max(s)>>]
        BY <2>1, <3>2, <4>1
      <4> HIDE DEF Steps
      <4> QED  BY <1>5, <3>2, <4>1, <4>3, <4>4
    <3> QED  BY <3>1, <3>2
  <2>3. h = [s \in SUBSET (1..n) |-> h[s]]
    BY <2>1
  <2>4. h = [s \in SUBSET (1..n) |-> IF s = {} THEN base ELSE Stream!Merged(h[s \ {Stream!Max(s)}], seq[Stream!Max(s)])]
    <3> HIDE DEF n
    <3> QED  BY <2>2, <2>3
  <2> QED  BY <1>1, <2>4
<1> DEFINE f == CHOOSE f : Is(f)
<1>8. Is(f)
  BY <1>7
<1>9. Stream!FoldLeft(Stream!Merged, base, seq) = f[DOMAIN seq]
  BY DEF Stream!FoldLeft, Stream!MapThenFoldSet
<1>10. \A s \in SUBSET (1..n) : f[s] = IF s = {} THEN base ELSE Stream!Merged(f[s \ {Stream!Max(s)}], seq[Stream!Max(s)])
  <2> HIDE DEF f, n
  <2> QED  BY <1>1, <1>8
<1> HIDE DEF f, Is
<1>11. ASSUME NEW k \in 1..n
       PROVE  f[1..k] = Stream!Merged(f[1..(k - 1)], seq[k])
  <2>1. /\ 1..k \in SUBSET (1..n) /\ 1..k # {} /\ (1..k) \ {k} = 1..(k - 1)
        /\ \A x \in 1..k : (\A y \in 1..k : x >= y) => x = k
    <3> HIDE DEF n
    <3> QED  BY <1>1, Prefixes
  <2>2. Stream!Max(1..k) = k
    BY <1>2, <2>1
  <2> HIDE DEF n
  <2> QED  BY <1>10, <2>1, <2>2
<1>12. f[1..0] = base
  <2>1. 1..0 = {} /\ {} \in SUBSET (1..n)
    OBVIOUS
  <2> HIDE DEF n
  <2> QED  BY <1>10, <2>1
<1> DEFINE R == {k \in 0..n : f[1..k] \in Seq(Stream!Block)}
<1>13. \A k \in 0..n : k \in R
  <2>1. 0 \in R
    BY <1>1, <1>12
  <2>2. ASSUME NEW k \in 0..(n - 1), k \in R PROVE k + 1 \in R
    <3>1. k + 1 \in 1..n /\ k + 1 - 1 = k /\ f[1..k] \in Seq(Stream!Block)
      BY <1>1, <2>2
    <3>2. f[1..(k + 1)] = Stream!Merged(f[1..k], seq[k + 1])
      <4> HIDE DEF n
      <4> QED  BY <1>11, <3>1
    <3>3. Stream!Merged(f[1..k], seq[k + 1]) \in Seq(Stream!Block)
      <4> HIDE DEF n
      <4> QED  BY <1>3, <3>1
    <3> QED  BY <1>1, <3>1, <3>2, <3>3
  <2> HIDE DEF R, n
  <2> QED  BY <1>1, <2>1, <2>2, Climbing
<1> DEFINE r == [k \in 0..n |-> f[1..k]]
<1>14. r \in [0..n -> Seq(Stream!Block)]
  BY <1>13
<1>15. r[0] = base
  BY <1>1, <1>12
<1>16. \A k \in 1..n : r[k] = Stream!Merged(r[k - 1], seq[k])
  <2> SUFFICES ASSUME NEW k \in 1..n PROVE r[k] = Stream!Merged(r[k - 1], seq[k])
    OBVIOUS
  <2>1. k \in 0..n /\ k - 1 \in 0..n
    BY <1>1
  <2>2. r[k] = f[1..k] /\ r[k - 1] = f[1..(k - 1)]
    BY <2>1
  <2> HIDE DEF r, n
  <2> QED  BY <1>11, <2>2
<1>17. Stream!FoldLeft(Stream!Merged, base, seq) = r[n]
  <2>1. n \in 0..n
    BY <1>1
  <2> QED  BY <1>1, <1>9, <2>1
<1> HIDE DEF r
<1> QED  BY <1>14, <1>15, <1>16, <1>17

\* applyToolCallUpdate, update after update.
LEMMA AppliedFold ==
    ASSUME Stream!StreamsAssumption, streamHeard \in Seq(Stream!Kinds),
           Len(streamHeard) <= StreamMaxChunks,
           NEW base \in Seq(Stream!Block), NEW seq \in Seq(1..Len(streamHeard))
    PROVE  \E r \in [0..Len(seq) -> Seq(Stream!Block)] :
               /\ r[0] = base
               /\ \A k \in 1..Len(seq) : r[k] = Stream!Applied(r[k - 1], seq[k])
               /\ Stream!FoldLeft(Stream!Applied, base, seq) = r[Len(seq)]
<1> DEFINE n == Len(seq)
    Tops == [s \in SUBSET (1..n) |-> Stream!Max(s)]
    Steps == [p \in (Seq(Stream!Block)) \X (1..n) |-> Stream!Applied(p[1], seq[p[2]])]
    Is(f) == f = [s \in SUBSET (DOMAIN seq) |->
                     IF s = {} THEN base ELSE Stream!Applied(f[s \ {Stream!Max(s)}], seq[Stream!Max(s)])]
<1>1. n \in Nat /\ DOMAIN seq = 1..n
  OBVIOUS
<1>2. \A s \in SUBSET (1..n) : s # {} =>
          /\ Stream!Max(s) \in s /\ (\A y \in s : Stream!Max(s) >= y) /\ Stream!Max(s) \in 1..n
  <2> SUFFICES ASSUME NEW s \in SUBSET (1..n), s # {}
               PROVE  Stream!Max(s) \in s /\ \A y \in s : Stream!Max(s) >= y
    OBVIOUS
  <2>1. \E x \in s : \A y \in s : x >= y
    <3> HIDE DEF n
    <3> QED  BY <1>1, LargestExists
  <2> QED  BY <2>1 DEF Stream!Max
<1>3. \A x \in Seq(Stream!Block), i \in 1..n : Stream!Applied(x, seq[i]) \in Seq(Stream!Block)
  BY AppliedIsTyped
<1>4. Steps \in [(Seq(Stream!Block)) \X (1..n) -> Seq(Stream!Block)]
  BY <1>3
<1>5. \A x \in Seq(Stream!Block), i \in 1..n : Steps[<<x, i>>] = Stream!Applied(x, seq[i])
  OBVIOUS
<1>6. TakesLargest(Tops, n)
  BY <1>2 DEF TakesLargest
<1>7. \E f : Is(f)
  <2>1. PICK h \in [SUBSET (1..n) -> Seq(Stream!Block)] : \A s \in SUBSET (1..n) :
            h[s] = IF s = {} THEN base ELSE Steps[<<h[s \ {Tops[s]}], Tops[s]>>]
    <3> DEFINE X == Seq(Stream!Block)
    <3>1. base \in X /\ Steps \in [X \X (1..n) -> X]
      BY <1>4
    <3> HIDE DEF n, Steps, Tops, X
    <3>2. Folding(n, X, base, Steps, Tops)
      BY <1>1, <1>6, <3>1, FoldingExists
    <3> QED  BY <3>2 DEF Folding, X
  <2>2. ASSUME NEW s \in SUBSET (1..n)
        PROVE  h[s] = IF s = {} THEN base ELSE Stream!Applied(h[s \ {Stream!Max(s)}], seq[Stream!Max(s)])
    <3>1. CASE s = {}
      BY <2>1, <3>1
    <3>2. CASE s # {}
      <4>1. Tops[s] = Stream!Max(s) /\ Stream!Max(s) \in 1..n
        BY <1>2, <3>2
      <4>2. s \ {Stream!Max(s)} \in SUBSET (1..n)
        OBVIOUS
      <4>3. h[s \ {Stream!Max(s)}] \in Seq(Stream!Block)
        BY <2>1, <4>2
      <4>4. h[s] = Steps[<<h[s \ {Stream!Max(s)}], Stream!Max(s)>>]
        BY <2>1, <3>2, <4>1
      <4> HIDE DEF Steps
      <4> QED  BY <1>5, <3>2, <4>1, <4>3, <4>4
    <3> QED  BY <3>1, <3>2
  <2>3. h = [s \in SUBSET (1..n) |-> h[s]]
    BY <2>1
  <2>4. h = [s \in SUBSET (1..n) |-> IF s = {} THEN base ELSE Stream!Applied(h[s \ {Stream!Max(s)}], seq[Stream!Max(s)])]
    <3> HIDE DEF n
    <3> QED  BY <2>2, <2>3
  <2> QED  BY <1>1, <2>4
<1> DEFINE f == CHOOSE f : Is(f)
<1>8. Is(f)
  BY <1>7
<1>9. Stream!FoldLeft(Stream!Applied, base, seq) = f[DOMAIN seq]
  BY DEF Stream!FoldLeft, Stream!MapThenFoldSet
<1>10. \A s \in SUBSET (1..n) : f[s] = IF s = {} THEN base ELSE Stream!Applied(f[s \ {Stream!Max(s)}], seq[Stream!Max(s)])
  <2> HIDE DEF f, n
  <2> QED  BY <1>1, <1>8
<1> HIDE DEF f, Is
<1>11. ASSUME NEW k \in 1..n
       PROVE  f[1..k] = Stream!Applied(f[1..(k - 1)], seq[k])
  <2>1. /\ 1..k \in SUBSET (1..n) /\ 1..k # {} /\ (1..k) \ {k} = 1..(k - 1)
        /\ \A x \in 1..k : (\A y \in 1..k : x >= y) => x = k
    <3> HIDE DEF n
    <3> QED  BY <1>1, Prefixes
  <2>2. Stream!Max(1..k) = k
    BY <1>2, <2>1
  <2> HIDE DEF n
  <2> QED  BY <1>10, <2>1, <2>2
<1>12. f[1..0] = base
  <2>1. 1..0 = {} /\ {} \in SUBSET (1..n)
    OBVIOUS
  <2> HIDE DEF n
  <2> QED  BY <1>10, <2>1
<1> DEFINE R == {k \in 0..n : f[1..k] \in Seq(Stream!Block)}
<1>13. \A k \in 0..n : k \in R
  <2>1. 0 \in R
    BY <1>1, <1>12
  <2>2. ASSUME NEW k \in 0..(n - 1), k \in R PROVE k + 1 \in R
    <3>1. k + 1 \in 1..n /\ k + 1 - 1 = k /\ f[1..k] \in Seq(Stream!Block)
      BY <1>1, <2>2
    <3>2. f[1..(k + 1)] = Stream!Applied(f[1..k], seq[k + 1])
      <4> HIDE DEF n
      <4> QED  BY <1>11, <3>1
    <3>3. Stream!Applied(f[1..k], seq[k + 1]) \in Seq(Stream!Block)
      <4> HIDE DEF n
      <4> QED  BY <1>3, <3>1
    <3> QED  BY <1>1, <3>1, <3>2, <3>3
  <2> HIDE DEF R, n
  <2> QED  BY <1>1, <2>1, <2>2, Climbing
<1> DEFINE r == [k \in 0..n |-> f[1..k]]
<1>14. r \in [0..n -> Seq(Stream!Block)]
  BY <1>13
<1>15. r[0] = base
  BY <1>1, <1>12
<1>16. \A k \in 1..n : r[k] = Stream!Applied(r[k - 1], seq[k])
  <2> SUFFICES ASSUME NEW k \in 1..n PROVE r[k] = Stream!Applied(r[k - 1], seq[k])
    OBVIOUS
  <2>1. k \in 0..n /\ k - 1 \in 0..n
    BY <1>1
  <2>2. r[k] = f[1..k] /\ r[k - 1] = f[1..(k - 1)]
    BY <2>1
  <2> HIDE DEF r, n
  <2> QED  BY <1>11, <2>2
<1>17. Stream!FoldLeft(Stream!Applied, base, seq) = r[n]
  <2>1. n \in 0..n
    BY <1>1
  <2> QED  BY <1>1, <1>9, <2>1
<1> HIDE DEF r
<1> QED  BY <1>14, <1>15, <1>16, <1>17

\* And the plan with them.
LEMMA PlanFold ==
    ASSUME Stream!StreamsAssumption, Len(streamHeard) \in Nat, Len(streamHeard) <= StreamMaxChunks,
           NEW base \in 0..StreamMaxChunks, NEW seq \in Seq(1..Len(streamHeard))
    PROVE  \E r \in [0..Len(seq) -> 0..StreamMaxChunks] :
               /\ r[0] = base
               /\ \A k \in 1..Len(seq) : r[k] = Stream!PlanOf(r[k - 1], seq[k])
               /\ Stream!FoldLeft(Stream!PlanOf, base, seq) = r[Len(seq)]
<1> DEFINE n == Len(seq)
    Tops == [s \in SUBSET (1..n) |-> Stream!Max(s)]
    Steps == [p \in (0..StreamMaxChunks) \X (1..n) |-> Stream!PlanOf(p[1], seq[p[2]])]
    Is(f) == f = [s \in SUBSET (DOMAIN seq) |->
                     IF s = {} THEN base ELSE Stream!PlanOf(f[s \ {Stream!Max(s)}], seq[Stream!Max(s)])]
<1>1. n \in Nat /\ DOMAIN seq = 1..n
  OBVIOUS
<1>2. \A s \in SUBSET (1..n) : s # {} =>
          /\ Stream!Max(s) \in s /\ (\A y \in s : Stream!Max(s) >= y) /\ Stream!Max(s) \in 1..n
  <2> SUFFICES ASSUME NEW s \in SUBSET (1..n), s # {}
               PROVE  Stream!Max(s) \in s /\ \A y \in s : Stream!Max(s) >= y
    OBVIOUS
  <2>1. \E x \in s : \A y \in s : x >= y
    <3> HIDE DEF n
    <3> QED  BY <1>1, LargestExists
  <2> QED  BY <2>1 DEF Stream!Max
<1>3. \A x \in 0..StreamMaxChunks, i \in 1..n : Stream!PlanOf(x, seq[i]) \in 0..StreamMaxChunks
  BY DEF Stream!PlanOf, Stream!StreamsAssumption
<1>4. Steps \in [(0..StreamMaxChunks) \X (1..n) -> 0..StreamMaxChunks]
  BY <1>3
<1>5. \A x \in 0..StreamMaxChunks, i \in 1..n : Steps[<<x, i>>] = Stream!PlanOf(x, seq[i])
  OBVIOUS
<1>6. TakesLargest(Tops, n)
  BY <1>2 DEF TakesLargest
<1>7. \E f : Is(f)
  <2>1. PICK h \in [SUBSET (1..n) -> 0..StreamMaxChunks] : \A s \in SUBSET (1..n) :
            h[s] = IF s = {} THEN base ELSE Steps[<<h[s \ {Tops[s]}], Tops[s]>>]
    <3> DEFINE X == 0..StreamMaxChunks
    <3>1. base \in X /\ Steps \in [X \X (1..n) -> X]
      BY <1>4
    <3> HIDE DEF n, Steps, Tops, X
    <3>2. Folding(n, X, base, Steps, Tops)
      BY <1>1, <1>6, <3>1, FoldingExists
    <3> QED  BY <3>2 DEF Folding, X
  <2>2. ASSUME NEW s \in SUBSET (1..n)
        PROVE  h[s] = IF s = {} THEN base ELSE Stream!PlanOf(h[s \ {Stream!Max(s)}], seq[Stream!Max(s)])
    <3>1. CASE s = {}
      BY <2>1, <3>1
    <3>2. CASE s # {}
      <4>1. Tops[s] = Stream!Max(s) /\ Stream!Max(s) \in 1..n
        BY <1>2, <3>2
      <4>2. s \ {Stream!Max(s)} \in SUBSET (1..n)
        OBVIOUS
      <4>3. h[s \ {Stream!Max(s)}] \in 0..StreamMaxChunks
        BY <2>1, <4>2
      <4>4. h[s] = Steps[<<h[s \ {Stream!Max(s)}], Stream!Max(s)>>]
        BY <2>1, <3>2, <4>1
      <4> HIDE DEF Steps
      <4> QED  BY <1>5, <3>2, <4>1, <4>3, <4>4
    <3> QED  BY <3>1, <3>2
  <2>3. h = [s \in SUBSET (1..n) |-> h[s]]
    BY <2>1
  <2>4. h = [s \in SUBSET (1..n) |-> IF s = {} THEN base ELSE Stream!PlanOf(h[s \ {Stream!Max(s)}], seq[Stream!Max(s)])]
    <3> HIDE DEF n
    <3> QED  BY <2>2, <2>3
  <2> QED  BY <1>1, <2>4
<1> DEFINE f == CHOOSE f : Is(f)
<1>8. Is(f)
  BY <1>7
<1>9. Stream!FoldLeft(Stream!PlanOf, base, seq) = f[DOMAIN seq]
  BY DEF Stream!FoldLeft, Stream!MapThenFoldSet
<1>10. \A s \in SUBSET (1..n) : f[s] = IF s = {} THEN base ELSE Stream!PlanOf(f[s \ {Stream!Max(s)}], seq[Stream!Max(s)])
  <2> HIDE DEF f, n
  <2> QED  BY <1>1, <1>8
<1> HIDE DEF f, Is
<1>11. ASSUME NEW k \in 1..n
       PROVE  f[1..k] = Stream!PlanOf(f[1..(k - 1)], seq[k])
  <2>1. /\ 1..k \in SUBSET (1..n) /\ 1..k # {} /\ (1..k) \ {k} = 1..(k - 1)
        /\ \A x \in 1..k : (\A y \in 1..k : x >= y) => x = k
    <3> HIDE DEF n
    <3> QED  BY <1>1, Prefixes
  <2>2. Stream!Max(1..k) = k
    BY <1>2, <2>1
  <2> HIDE DEF n
  <2> QED  BY <1>10, <2>1, <2>2
<1>12. f[1..0] = base
  <2>1. 1..0 = {} /\ {} \in SUBSET (1..n)
    OBVIOUS
  <2> HIDE DEF n
  <2> QED  BY <1>10, <2>1
<1> DEFINE R == {k \in 0..n : f[1..k] \in 0..StreamMaxChunks}
<1>13. \A k \in 0..n : k \in R
  <2>1. 0 \in R
    BY <1>1, <1>12
  <2>2. ASSUME NEW k \in 0..(n - 1), k \in R PROVE k + 1 \in R
    <3>1. k + 1 \in 1..n /\ k + 1 - 1 = k /\ f[1..k] \in 0..StreamMaxChunks
      BY <1>1, <2>2
    <3>2. f[1..(k + 1)] = Stream!PlanOf(f[1..k], seq[k + 1])
      <4> HIDE DEF n
      <4> QED  BY <1>11, <3>1
    <3>3. Stream!PlanOf(f[1..k], seq[k + 1]) \in 0..StreamMaxChunks
      <4> HIDE DEF n
      <4> QED  BY <1>3, <3>1
    <3> QED  BY <1>1, <3>1, <3>2, <3>3
  <2> HIDE DEF R, n
  <2> QED  BY <1>1, <2>1, <2>2, Climbing
<1> DEFINE r == [k \in 0..n |-> f[1..k]]
<1>14. r \in [0..n -> 0..StreamMaxChunks]
  BY <1>13
<1>15. r[0] = base
  BY <1>1, <1>12
<1>16. \A k \in 1..n : r[k] = Stream!PlanOf(r[k - 1], seq[k])
  <2> SUFFICES ASSUME NEW k \in 1..n PROVE r[k] = Stream!PlanOf(r[k - 1], seq[k])
    OBVIOUS
  <2>1. k \in 0..n /\ k - 1 \in 0..n
    BY <1>1
  <2>2. r[k] = f[1..k] /\ r[k - 1] = f[1..(k - 1)]
    BY <2>1
  <2> HIDE DEF r, n
  <2> QED  BY <1>11, <2>2
<1>17. Stream!FoldLeft(Stream!PlanOf, base, seq) = r[n]
  <2>1. n \in 0..n
    BY <1>1
  <2> QED  BY <1>1, <1>9, <2>1
<1> HIDE DEF r
<1> QED  BY <1>14, <1>15, <1>16, <1>17

LEMMA TextsAreTyped ==
    ASSUME NEW blocks \in Seq(Stream!Block)
    PROVE  Stream!TextsOf(blocks) \in Seq(Stream!Chunks)
<1> DEFINE parts ==
        [i \in DOMAIN blocks |-> IF blocks[i].kind = "text" THEN blocks[i].of ELSE <<>>]
<1>1. \A i \in DOMAIN blocks : blocks[i] \in Stream!Block
  OBVIOUS
<1>2. \A i \in DOMAIN blocks : parts[i] \in Seq(Stream!Chunks)
  BY <1>1, EmptySequence DEF Stream!Block
<1>3. parts \in Seq(Seq(Stream!Chunks)) /\ Len(parts) \in Nat
  <2>1. Len(blocks) \in Nat /\ DOMAIN blocks = 1..Len(blocks)
    OBVIOUS
  <2>2. parts \in [1..Len(blocks) -> Seq(Stream!Chunks)]
    BY <1>2, <2>1
  <2> HIDE DEF parts
  <2> QED  BY <2>1, <2>2
<1>4. Stream!TextsOf(blocks) = Stream!FlattenSeq(parts)
  BY DEF Stream!TextsOf
<1> HIDE DEF parts
<1>5. CASE Len(parts) = 0
  <2>1. Stream!FlattenSeq(parts) = parts
    BY <1>5 DEF Stream!FlattenSeq
  <2>2. parts = <<>>
    BY <1>3, <1>5
  <2> QED  BY <1>4, <2>1, <2>2, EmptySequence
<1>6. CASE Len(parts) # 0
  <2> DEFINE Is(f) ==
          f = [i \in 1..Len(parts) |-> IF i = 1 THEN parts[i] ELSE f[i - 1] \o parts[i]]
      f == CHOOSE f : Is(f)
  <2>1. Is(f)
    BY <1>3, JoiningExists
  <2>2. Stream!FlattenSeq(parts) = f[Len(parts)]
    BY <1>6 DEF Stream!FlattenSeq
  <2> HIDE DEF f
  <2>3. \A i \in 1..Len(parts) : f[i] \in Seq(Stream!Chunks)
    BY <1>3, <2>1, JoinedAre
  <2>4. f[Len(parts)] \in Seq(Stream!Chunks)
    BY <1>3, <1>6, <2>3
  <2> QED  BY <1>4, <2>2, <2>4
<1> QED  BY <1>5, <1>6

StreamHeard ==
    /\ streamHeard \in Seq(Stream!Kinds) /\ Len(streamHeard) <= StreamMaxChunks
    /\ streamTools \in Seq(1..Len(streamHeard))

StreamHeld ==
    /\ streamTexts \in Seq(Stream!Block)
    /\ streamTaken \in [Stream!Flushers -> Seq(Stream!Block)]
    /\ streamEvents \in Seq(Stream!Block)

StreamTold ==
    /\ streamOutput \in Seq(Stream!Chunks) /\ streamSeen \in Seq(Stream!Chunks)
    /\ streamPlan \in 0..StreamMaxChunks /\ streamUsage \in 0..StreamMaxChunks

StreamTurn ==
    /\ streamTextTimer \in BOOLEAN /\ streamToolTimer \in BOOLEAN
    /\ streamTurn \in {"prompt", "flush", "look", "judge", "complete", "commit", "completed",
                       "failed", "closed"}

StreamInv == StreamHeard /\ StreamHeld /\ StreamTold /\ StreamTurn

LEMMA StreamIsTyped ==
    ASSUME Stream!StreamsAssumption, StreamInv
    PROVE  Stream!TypeOK
<1>1. 1..Len(streamHeard) \subseteq Stream!Chunks
  BY DEF StreamInv, StreamHeard, Stream!StreamsAssumption, Stream!Chunks
<1>2. streamTools \in Seq(Stream!Chunks)
  BY <1>1 DEF StreamInv, StreamHeard
<1> QED  BY <1>2 DEF StreamInv, StreamHeard, StreamHeld, StreamTold, StreamTurn, Stream!TypeOK

LEMMA StreamBegins ==
    ASSUME Stream!StreamsAssumption, Stream!Init
    PROVE  StreamInv
<1>0. StreamMaxChunks \in Nat /\ 0 \in 0..StreamMaxChunks
  BY DEF Stream!StreamsAssumption
<1>1. StreamHeard
  BY <1>0, EmptySequence DEF Stream!Init, StreamHeard
<1>2. StreamHeld
  BY EmptySequence DEF Stream!Init, StreamHeld
<1>3. StreamTold
  BY <1>0, EmptySequence DEF Stream!Init, StreamTold
<1> QED  BY <1>1, <1>2, <1>3 DEF Stream!Init, StreamInv, StreamTurn

LEMMA StreamRests == ASSUME StreamInv, UNCHANGED streamVars PROVE StreamInv'
BY DEF StreamInv, streamVars, StreamHeard, StreamHeld, StreamTold, StreamTurn

LEMMA WiderSequence ==
    ASSUME NEW S, NEW T, S \subseteq T, NEW s \in Seq(S) PROVE s \in Seq(T)
OBVIOUS

\* A chunk more was heard.
LEMMA StreamHears ==
    ASSUME Stream!StreamsAssumption, StreamHeard, NEW k \in Stream!Kinds, Stream!Hear(k)
    PROVE  /\ streamHeard' \in Seq(Stream!Kinds) /\ Len(streamHeard') <= StreamMaxChunks
           /\ Stream!Count' \in Stream!Chunks /\ Stream!Count' \in 0..StreamMaxChunks
           /\ Stream!Count' \in 1..Len(streamHeard')
           /\ streamTools \in Seq(1..Len(streamHeard'))
<1>1. /\ streamHeard \in Seq(Stream!Kinds) /\ Len(streamHeard) < StreamMaxChunks
      /\ streamHeard' = Append(streamHeard, k) /\ Len(streamHeard) \in Nat
      /\ StreamMaxChunks \in Nat
  BY DEF StreamHeard, Stream!Hear, Stream!Count, Stream!StreamsAssumption
<1>2. streamHeard' \in Seq(Stream!Kinds) /\ Len(streamHeard') = Len(streamHeard) + 1
  BY <1>1, JoinedSequences
<1>3. 1..Len(streamHeard) \subseteq 1..Len(streamHeard')
  BY <1>1, <1>2
<1>4. streamTools \in Seq(1..Len(streamHeard'))
  BY <1>3, WiderSequence DEF StreamHeard
<1> QED  BY <1>1, <1>2, <1>4 DEF Stream!Count, Stream!Chunks

\* What waits of the tools is written.
LEMMA StreamFlushesTools ==
    ASSUME Stream!StreamsAssumption, StreamHeard, StreamHeld, StreamTold, Stream!FlushTools,
           UNCHANGED streamHeard
    PROVE  /\ streamEvents' \in Seq(Stream!Block) /\ streamPlan' \in 0..StreamMaxChunks
           /\ StreamHeard' /\ streamToolTimer' \in BOOLEAN
<1>0. /\ streamHeard \in Seq(Stream!Kinds) /\ Len(streamHeard) <= StreamMaxChunks
      /\ Len(streamHeard) \in Nat /\ streamTools \in Seq(1..Len(streamHeard))
      /\ Len(streamTools) \in Nat /\ streamEvents \in Seq(Stream!Block)
      /\ streamPlan \in 0..StreamMaxChunks
  BY DEF StreamHeard, StreamHeld, StreamTold
<1>a. Len(streamTools) \in 0..Len(streamTools)
  BY <1>0
<1>1. streamEvents' \in Seq(Stream!Block)
  <2>1. PICK r \in [0..Len(streamTools) -> Seq(Stream!Block)] :
            Stream!FoldLeft(Stream!Applied, streamEvents, streamTools) = r[Len(streamTools)]
    BY <1>0, AppliedFold
  <2> QED  BY <1>a, <2>1 DEF Stream!FlushTools
<1>2. streamPlan' \in 0..StreamMaxChunks
  <2>1. PICK r \in [0..Len(streamTools) -> 0..StreamMaxChunks] :
            Stream!FoldLeft(Stream!PlanOf, streamPlan, streamTools) = r[Len(streamTools)]
    BY <1>0, PlanFold
  <2> QED  BY <1>a, <2>1 DEF Stream!FlushTools
<1>3. StreamHeard'
  BY EmptySequence DEF Stream!FlushTools, StreamHeard
<1> QED  BY <1>1, <1>2, <1>3 DEF Stream!FlushTools

\* What a flush has taken is written.
LEMMA StreamPersists ==
    ASSUME StreamHeld, StreamTold, NEW f \in Stream!Flushers, Stream!Persist(f)
    PROVE  /\ streamEvents' \in Seq(Stream!Block) /\ streamOutput' \in Seq(Stream!Chunks)
           /\ streamTaken' \in [Stream!Flushers -> Seq(Stream!Block)]
<1>1. /\ streamTaken[f] \in Seq(Stream!Block) /\ Len(streamTaken[f]) \in Nat
      /\ streamEvents \in Seq(Stream!Block) /\ streamOutput \in Seq(Stream!Chunks)
  BY DEF StreamHeld, StreamTold
<1>2. streamEvents' \in Seq(Stream!Block)
  <2>1. PICK r \in [0..Len(streamTaken[f]) -> Seq(Stream!Block)] :
            Stream!FoldLeft(Stream!Merged, streamEvents, streamTaken[f])
                = r[Len(streamTaken[f])]
    BY <1>1, MergedFold
  <2>2. Len(streamTaken[f]) \in 0..Len(streamTaken[f])
    BY <1>1
  <2> QED  BY <2>1, <2>2 DEF Stream!Persist
<1>3. streamOutput' \in Seq(Stream!Chunks)
  BY <1>1, TextsAreTyped, JoinedSequences DEF Stream!Persist
<1>4. streamTaken' \in [Stream!Flushers -> Seq(Stream!Block)]
  BY EmptySequence DEF StreamHeld, Stream!Persist
<1> QED  BY <1>2, <1>3, <1>4

LEMMA StreamTakes ==
    ASSUME StreamHeld, NEW f \in Stream!Flushers, Stream!Take(f)
    PROVE  /\ streamTexts' \in Seq(Stream!Block) /\ streamTextTimer' \in BOOLEAN
           /\ streamTaken' \in [Stream!Flushers -> Seq(Stream!Block)]
BY EmptySequence DEF StreamHeld, Stream!Take

LEMMA StreamStep ==
    ASSUME Stream!StreamsAssumption, StreamInv, Stream!Next
    PROVE  StreamInv'
<1>0. StreamHeard /\ StreamHeld /\ StreamTold /\ StreamTurn
  BY DEF StreamInv
<1>k. /\ Stream!Texts \subseteq Stream!Kinds /\ Stream!Tools \subseteq Stream!Kinds
      /\ {"plan", "usage", "goal"} \subseteq Stream!Kinds
      /\ "timer" \in Stream!Flushers /\ "turn" \in Stream!Flushers
  BY DEF Stream!Kinds, Stream!Flushers
<1>e. \A k \in Stream!Kinds, n \in Stream!Chunks :
          Append(streamEvents, [kind |-> k, of |-> <<n>>]) \in Seq(Stream!Block)
  <2> SUFFICES ASSUME NEW k \in Stream!Kinds, NEW n \in Stream!Chunks
               PROVE  Append(streamEvents, [kind |-> k, of |-> <<n>>]) \in Seq(Stream!Block)
    OBVIOUS
  <2>1. [kind |-> k, of |-> <<n>>] \in Stream!Block
    BY DEF Stream!Block
  <2> QED  BY <1>0, <2>1, JoinedSequences DEF StreamHeld
<1>1. ASSUME NEW k \in Stream!Texts, Stream!HearText(k) PROVE StreamInv'
  <2>1. Stream!Hear(k) /\ k \in Stream!Kinds
    BY <1>1, <1>k DEF Stream!HearText
  <2>2. StreamHeard'
    BY <1>0, <1>1, <2>1, StreamHears DEF Stream!HearText, StreamHeard
  <2>3. Stream!Joined(streamTexts, k, Stream!Count') \in Seq(Stream!Block)
    BY <1>0, <2>1, StreamHears, JoinedIsTyped DEF StreamHeld
  <2>4. StreamHeld'
    BY <1>0, <1>1, <2>3 DEF Stream!HearText, StreamHeld
  <2>5. StreamTold' /\ StreamTurn'
    BY <1>0, <1>1 DEF Stream!HearText, StreamTold, StreamTurn
  <2> QED  BY <2>2, <2>4, <2>5 DEF StreamInv
<1>2. ASSUME NEW k \in Stream!Tools, Stream!HearTool(k) PROVE StreamInv'
  <2>1. Stream!Hear(k) /\ k \in Stream!Kinds /\ streamTools' = Append(streamTools, Stream!Count')
    BY <1>2, <1>k DEF Stream!HearTool
  <2>2. streamTools' \in Seq(1..Len(streamHeard'))
    BY <1>0, <2>1, StreamHears, JoinedSequences
  <2>3. StreamHeard'
    BY <1>0, <2>1, <2>2, StreamHears DEF StreamHeard
  <2>4. StreamHeld' /\ StreamTold' /\ StreamTurn'
    BY <1>0, <1>2 DEF Stream!HearTool, StreamHeld, StreamTold, StreamTurn
  <2> QED  BY <2>3, <2>4 DEF StreamInv
<1>3. ASSUME Stream!HearPlan PROVE StreamInv'
  <2>1. Stream!Hear("plan") /\ UNCHANGED streamTools
    BY <1>3 DEF Stream!HearPlan
  <2>2. StreamHeard' /\ Stream!Count' \in Stream!Chunks /\ Stream!Count' \in 0..StreamMaxChunks
    BY <1>0, <1>k, <2>1, StreamHears DEF StreamHeard
  <2>3. streamEvents' \in Seq(Stream!Block)
    BY <1>3, <1>e, <1>k, <2>2 DEF Stream!HearPlan
  <2>4. StreamHeld' /\ StreamTold' /\ StreamTurn'
    BY <1>0, <1>3, <2>2, <2>3 DEF Stream!HearPlan, StreamHeld, StreamTold, StreamTurn
  <2> QED  BY <2>2, <2>4 DEF StreamInv
<1>4. ASSUME Stream!HearUsage PROVE StreamInv'
  <2>1. Stream!Hear("usage") /\ UNCHANGED streamTools
    BY <1>4 DEF Stream!HearUsage
  <2>2. StreamHeard' /\ Stream!Count' \in 0..StreamMaxChunks
    BY <1>0, <1>k, <2>1, StreamHears DEF StreamHeard
  <2>3. StreamHeld' /\ StreamTold' /\ StreamTurn'
    BY <1>0, <1>4, <2>2 DEF Stream!HearUsage, StreamHeld, StreamTold, StreamTurn
  <2> QED  BY <2>2, <2>3 DEF StreamInv
<1>5. ASSUME Stream!HearGoal PROVE StreamInv'
  <2>1. Stream!Hear("goal") /\ UNCHANGED streamTools
    BY <1>5 DEF Stream!HearGoal
  <2>2. StreamHeard' /\ Stream!Count' \in Stream!Chunks
    BY <1>0, <1>k, <2>1, StreamHears DEF StreamHeard
  <2>3. streamEvents' \in Seq(Stream!Block)
    BY <1>5, <1>e, <1>k, <2>2 DEF Stream!HearGoal
  <2>4. StreamHeld' /\ StreamTold' /\ StreamTurn'
    BY <1>0, <1>5, <2>3 DEF Stream!HearGoal, StreamHeld, StreamTold, StreamTurn
  <2> QED  BY <2>2, <2>4 DEF StreamInv
<1>6. ASSUME Stream!TimerTakes \/ Stream!PromptReturns \/ Stream!Complete PROVE StreamInv'
  <2>1. \/ Stream!Take("timer") /\ UNCHANGED streamTurn
        \/ Stream!Take("turn") /\ streamTurn' \in {"look", "commit"}
    BY <1>6 DEF Stream!TimerTakes, Stream!PromptReturns, Stream!Complete, Stream!FlushDelta
  <2>2. UNCHANGED <<streamHeard, streamTools, streamToolTimer, streamEvents, streamOutput,
                    streamPlan, streamUsage, streamSeen>>
    BY <1>6 DEF Stream!TimerTakes, Stream!PromptReturns, Stream!Complete, Stream!FlushDelta
  <2>3. /\ streamTexts' \in Seq(Stream!Block) /\ streamTextTimer' \in BOOLEAN
        /\ streamTaken' \in [Stream!Flushers -> Seq(Stream!Block)]
    BY <1>0, <1>k, <2>1, StreamTakes
  <2>4. StreamHeard' /\ StreamHeld' /\ StreamTold'
    BY <1>0, <2>2, <2>3 DEF StreamHeard, StreamHeld, StreamTold
  <2>5. StreamTurn'
    BY <1>0, <2>1, <2>2, <2>3 DEF StreamTurn
  <2> QED  BY <2>4, <2>5 DEF StreamInv
<1>7. ASSUME Stream!TimerPersists \/ Stream!Flushed PROVE StreamInv'
  <2>1. Stream!Persist("timer") \/ Stream!Persist("turn")
    BY <1>7 DEF Stream!TimerPersists, Stream!Flushed
  <2>2. UNCHANGED <<streamHeard, streamTexts, streamTextTimer, streamTools, streamToolTimer,
                    streamPlan, streamUsage, streamTurn, streamSeen>>
    BY <1>7 DEF Stream!TimerPersists, Stream!Flushed
  <2>3. /\ streamEvents' \in Seq(Stream!Block) /\ streamOutput' \in Seq(Stream!Chunks)
        /\ streamTaken' \in [Stream!Flushers -> Seq(Stream!Block)]
    BY <1>0, <1>k, <2>1, StreamPersists
  <2> QED  BY <1>0, <2>2, <2>3 DEF StreamInv, StreamHeard, StreamHeld, StreamTold, StreamTurn
<1>8. ASSUME Stream!ToolTimer PROVE StreamInv'
  <2>1. /\ streamEvents' \in Seq(Stream!Block) /\ streamPlan' \in 0..StreamMaxChunks
        /\ StreamHeard' /\ streamToolTimer' \in BOOLEAN
    BY <1>0, <1>8, StreamFlushesTools DEF Stream!ToolTimer
  <2> QED  BY <1>0, <1>8, <2>1
           DEF Stream!ToolTimer, StreamInv, StreamHeld, StreamTold, StreamTurn
<1>9. ASSUME Stream!Close PROVE StreamInv'
  <2>1. /\ streamEvents' \in Seq(Stream!Block) /\ streamPlan' \in 0..StreamMaxChunks
        /\ StreamHeard' /\ streamToolTimer' \in BOOLEAN
    BY <1>0, <1>9, StreamFlushesTools DEF Stream!Close
  <2>2. /\ streamTexts' \in Seq(Stream!Block) /\ streamTextTimer' \in BOOLEAN
        /\ streamTaken' \in [Stream!Flushers -> Seq(Stream!Block)]
    BY <1>0, <1>9, <1>k, StreamTakes DEF Stream!Close
  <2> QED  BY <1>0, <1>9, <2>1, <2>2
           DEF Stream!Close, StreamInv, StreamHeld, StreamTold, StreamTurn
<1>10. ASSUME Stream!Look \/ Stream!Judge \/ Stream!Commit PROVE StreamInv'
  <2>1. UNCHANGED <<streamHeard, streamTexts, streamTextTimer, streamTaken, streamTools,
                    streamToolTimer, streamEvents, streamPlan, streamUsage>>
    BY <1>10 DEF Stream!Look, Stream!Judge, Stream!Commit
  <2>2. /\ streamOutput' \in {streamOutput, streamSeen}
        /\ streamSeen' \in {streamOutput, streamSeen}
    BY <1>10 DEF Stream!Look, Stream!Judge, Stream!Commit
  <2>3. streamTurn' \in {"judge", "failed", "complete", "completed"}
    BY <1>10 DEF Stream!Look, Stream!Judge, Stream!Commit
  <2>4. StreamHeard' /\ StreamHeld' /\ StreamTold'
    BY <1>0, <2>1, <2>2 DEF StreamHeard, StreamHeld, StreamTold
  <2>5. StreamTurn'
    BY <1>0, <2>1, <2>3 DEF StreamTurn
  <2> QED  BY <2>4, <2>5 DEF StreamInv
<1> QED  BY <1>1, <1>2, <1>3, <1>4, <1>5, <1>6, <1>7, <1>8, <1>9, <1>10
         DEF Stream!Next, Stream!TimerStep, Stream!TurnStep

------------------------------------------------------------------------------
(* The ledger of the stream: what a sequence of blocks holds when a block is    *)
(* added to it or one of its blocks grows, and so what the folds of a flush do. *)

NoneTwice(s) == \A a, b \in DOMAIN s : s[a] = s[b] => a = b

LEMMA HeldIs ==
    ASSUME NEW blocks, NEW n
    PROVE  n \in Stream!Held(blocks)
               <=> \E i \in DOMAIN blocks : \E a \in DOMAIN blocks[i].of : blocks[i].of[a] = n
BY DEF Stream!Held, Stream!Range

LEMMA NothingHeld == Stream!Held(<<>>) = {} /\ Stream!HeldOnce(<<>>)
BY DEF Stream!Held, Stream!HeldOnce

LEMMA AddedBlock ==
    ASSUME NEW blocks \in Seq(Stream!Block), NEW block \in Stream!Block,
           Stream!HeldOnce(blocks), NoneTwice(block.of),
           Stream!Range(block.of) \cap Stream!Held(blocks) = {}
    PROVE  /\ Stream!HeldOnce(Append(blocks, block))
           /\ Stream!Held(Append(blocks, block))
                = Stream!Held(blocks) \cup Stream!Range(block.of)
<1> DEFINE all == Append(blocks, block)
           m == Len(blocks) + 1
<1>1. /\ DOMAIN all = DOMAIN blocks \cup {m} /\ m \notin DOMAIN blocks
      /\ all[m] = block /\ \A i \in DOMAIN blocks : all[i] = blocks[i]
  OBVIOUS
<1> HIDE DEF all, m
<1>2. Stream!Held(all) = Stream!Held(blocks) \cup Stream!Range(block.of)
  BY <1>1 DEF Stream!Held
<1>3. ASSUME NEW i \in DOMAIN blocks, NEW a \in DOMAIN blocks[i].of, NEW b \in DOMAIN block.of
      PROVE  blocks[i].of[a] # block.of[b]
  <2>1. blocks[i].of[a] \in Stream!Held(blocks)
    BY HeldIs
  <2>2. block.of[b] \in Stream!Range(block.of)
    BY DEF Stream!Range
  <2> QED  BY <2>1, <2>2
<1>4. Stream!HeldOnce(all)
  <2> SUFFICES ASSUME NEW i \in DOMAIN all, NEW j \in DOMAIN all,
                      NEW a \in DOMAIN all[i].of, NEW b \in DOMAIN all[j].of,
                      all[i].of[a] = all[j].of[b]
               PROVE  i = j /\ a = b
    BY DEF Stream!HeldOnce
  <2>1. CASE i \in DOMAIN blocks /\ j \in DOMAIN blocks
    BY <1>1, <2>1 DEF Stream!HeldOnce
  <2>2. CASE i = m /\ j = m
    BY <1>1, <2>2 DEF NoneTwice
  <2>3. CASE i \in DOMAIN blocks /\ j = m
    BY <1>1, <1>3, <2>3
  <2>4. CASE i = m /\ j \in DOMAIN blocks
    BY <1>1, <1>3, <2>4
  <2> QED  BY <1>1, <2>1, <2>2, <2>3, <2>4
<1> QED  BY <1>2, <1>4 DEF all

LEMMA JoinedNumbers ==
    ASSUME NEW s \in Seq(Stream!Chunks), NEW t \in Seq(Stream!Chunks),
           NoneTwice(s), NoneTwice(t), Stream!Range(s) \cap Stream!Range(t) = {}
    PROVE  /\ NoneTwice(s \o t)
           /\ Stream!Range(s \o t) = Stream!Range(s) \cup Stream!Range(t)
<1> DEFINE u == s \o t
<1>0. Len(s) \in Nat /\ Len(t) \in Nat /\ DOMAIN s = 1..Len(s) /\ DOMAIN t = 1..Len(t)
  OBVIOUS
<1>1. /\ \A a \in DOMAIN s : a \in DOMAIN u /\ u[a] = s[a]
      /\ \A a \in DOMAIN t : Len(s) + a \in DOMAIN u /\ u[Len(s) + a] = t[a]
      /\ \A a \in DOMAIN u : a \in DOMAIN s \/ (a - Len(s) \in DOMAIN t /\ a \in Nat)
  OBVIOUS
<1>2. \A a \in DOMAIN u : a \in DOMAIN s \/ \E b \in DOMAIN t : a = Len(s) + b
  <2> SUFFICES ASSUME NEW a \in DOMAIN u, a \notin DOMAIN s
               PROVE  \E b \in DOMAIN t : a = Len(s) + b
    OBVIOUS
  <2>1. a - Len(s) \in DOMAIN t /\ a \in Nat /\ a = Len(s) + (a - Len(s))
    BY <1>0, <1>1
  <2> QED  BY <2>1
<1> HIDE DEF u
<1>3. \A a \in DOMAIN s, b \in DOMAIN t : s[a] # t[b]
  BY DEF Stream!Range
<1>4. Stream!Range(u) = Stream!Range(s) \cup Stream!Range(t)
  <2>1. ASSUME NEW x \in Stream!Range(u) PROVE x \in Stream!Range(s) \cup Stream!Range(t)
    BY <1>1, <1>2 DEF Stream!Range
  <2>2. ASSUME NEW x \in Stream!Range(s) PROVE x \in Stream!Range(u)
    BY <1>1 DEF Stream!Range
  <2>3. ASSUME NEW x \in Stream!Range(t) PROVE x \in Stream!Range(u)
    <3>1. PICK b \in DOMAIN t : x = t[b]
      BY DEF Stream!Range
    <3>2. Len(s) + b \in DOMAIN u /\ u[Len(s) + b] = x
      BY <1>1, <3>1
    <3> QED  BY <3>2 DEF Stream!Range
  <2> QED  BY <2>1, <2>2, <2>3
<1>5. ASSUME NEW a \in DOMAIN u, NEW b \in DOMAIN u, u[a] = u[b] PROVE a = b
  <2>1. CASE a \in DOMAIN s /\ b \in DOMAIN s
    BY <1>1, <1>5, <2>1 DEF NoneTwice
  <2>2. CASE a \in DOMAIN s /\ b \notin DOMAIN s
    BY <1>1, <1>2, <1>3, <1>5, <2>2
  <2>3. CASE a \notin DOMAIN s /\ b \in DOMAIN s
    BY <1>1, <1>2, <1>3, <1>5, <2>3
  <2>4. CASE a \notin DOMAIN s /\ b \notin DOMAIN s
    <3>1. PICK x \in DOMAIN t, y \in DOMAIN t : a = Len(s) + x /\ b = Len(s) + y
      BY <1>2, <2>4
    <3>2. x = y
      BY <1>1, <1>5, <3>1 DEF NoneTwice
    <3> QED  BY <3>1, <3>2
  <2> QED  BY <2>1, <2>2, <2>3, <2>4
<1> QED  BY <1>4, <1>5 DEF NoneTwice, u

LEMMA GrownBlock ==
    ASSUME NEW blocks \in Seq(Stream!Block), NEW i \in DOMAIN blocks,
           NEW more \in Seq(Stream!Chunks), Stream!HeldOnce(blocks), NoneTwice(more),
           Stream!Range(more) \cap Stream!Held(blocks) = {}
    PROVE  /\ Stream!HeldOnce([blocks EXCEPT ![i].of = blocks[i].of \o more])
           /\ Stream!Held([blocks EXCEPT ![i].of = blocks[i].of \o more])
                = Stream!Held(blocks) \cup Stream!Range(more)
<1> DEFINE grown == blocks[i].of \o more
           all == [blocks EXCEPT ![i].of = grown]
<1>a. blocks[i] \in Stream!Block
  OBVIOUS
<1>0. blocks[i] \in Stream!Block /\ blocks[i].of \in Seq(Stream!Chunks)
  BY <1>a DEF Stream!Block
<1>1. NoneTwice(blocks[i].of) /\ Stream!Range(blocks[i].of) \subseteq Stream!Held(blocks)
  BY DEF NoneTwice, Stream!HeldOnce, Stream!Held
<1>2. /\ NoneTwice(grown)
      /\ Stream!Range(grown) = Stream!Range(blocks[i].of) \cup Stream!Range(more)
  <2>1. Stream!Range(blocks[i].of) \cap Stream!Range(more) = {}
    BY <1>1
  <2> QED  BY <1>0, <1>1, <2>1, JoinedNumbers
<1> HIDE DEF grown
<1>3. /\ DOMAIN all = DOMAIN blocks /\ all[i].of = grown
      /\ \A j \in DOMAIN blocks : j # i => all[j] = blocks[j]
  BY <1>0 DEF Stream!Block
<1> HIDE DEF all
<1>4. Stream!Held(all) = Stream!Held(blocks) \cup Stream!Range(more)
  <2>1. \A j \in DOMAIN blocks :
            Stream!Range(all[j].of)
                = Stream!Range(blocks[j].of) \cup (IF j = i THEN Stream!Range(more) ELSE {})
    BY <1>2, <1>3
  <2> QED  BY <1>3, <2>1 DEF Stream!Held
<1>5. ASSUME NEW j \in DOMAIN blocks, j # i, NEW a \in DOMAIN grown,
             NEW b \in DOMAIN blocks[j].of
      PROVE  grown[a] # blocks[j].of[b]
  <2>1. grown[a] \in Stream!Range(grown) /\ blocks[j].of[b] \in Stream!Held(blocks)
    BY HeldIs DEF Stream!Range
  <2>2. CASE grown[a] \in Stream!Range(more)
    BY <2>1, <2>2
  <2>3. CASE grown[a] \in Stream!Range(blocks[i].of)
    <3>1. PICK c \in DOMAIN blocks[i].of : grown[a] = blocks[i].of[c]
      BY <2>3 DEF Stream!Range
    <3> QED  BY <1>5, <3>1 DEF Stream!HeldOnce
  <2> QED  BY <1>2, <2>1, <2>2, <2>3
<1>6. Stream!HeldOnce(all)
  <2> SUFFICES ASSUME NEW j \in DOMAIN blocks, NEW k \in DOMAIN blocks,
                      NEW a \in DOMAIN all[j].of, NEW b \in DOMAIN all[k].of,
                      all[j].of[a] = all[k].of[b]
               PROVE  j = k /\ a = b
    BY <1>3 DEF Stream!HeldOnce
  <2>1. CASE j # i /\ k # i
    BY <1>3, <2>1 DEF Stream!HeldOnce
  <2>2. CASE j = i /\ k = i
    BY <1>2, <1>3, <2>2 DEF NoneTwice
  <2>3. CASE j # i /\ k = i
    BY <1>3, <1>5, <2>3
  <2>4. CASE j = i /\ k # i
    BY <1>3, <1>5, <2>4
  <2> QED  BY <2>1, <2>2, <2>3, <2>4
<1> QED  BY <1>4, <1>6 DEF all, grown

\* A single number is a sequence in which nothing comes twice.
LEMMA OneNumber ==
    ASSUME NEW n \in Stream!Chunks
    PROVE  /\ NoneTwice(<<n>>) /\ Stream!Range(<<n>>) = {n} /\ <<n>> \in Seq(Stream!Chunks)
           /\ \A s \in Seq(Stream!Chunks) : Append(s, n) = s \o <<n>>
BY DEF NoneTwice, Stream!Range

\* A chunk more in a buffer.
LEMMA JoinedHolds ==
    ASSUME NEW blocks \in Seq(Stream!Block), NEW k \in Stream!Kinds, NEW n \in Stream!Chunks,
           Stream!HeldOnce(blocks), n \notin Stream!Held(blocks)
    PROVE  /\ Stream!HeldOnce(Stream!Joined(blocks, k, n))
           /\ Stream!Held(Stream!Joined(blocks, k, n)) = Stream!Held(blocks) \cup {n}
<1> DEFINE new == [kind |-> k, of |-> <<n>>]
           m == Len(blocks)
<1>1. new \in Stream!Block /\ new.of = <<n>>
  BY OneNumber DEF Stream!Block
<1>2. Stream!Range(<<n>>) \cap Stream!Held(blocks) = {}
  BY OneNumber
<1>3. CASE Stream!Joined(blocks, k, n) = Append(blocks, new)
  <2> HIDE DEF new
  <2> QED  BY <1>1, <1>2, <1>3, AddedBlock, OneNumber
<1>4. CASE blocks # <<>> /\ Stream!Joined(blocks, k, n) # Append(blocks, new)
  <2>0. m \in DOMAIN blocks /\ blocks[m] \in Stream!Block
    BY <1>4
  <2>1. m \in DOMAIN blocks /\ blocks[m] \in Stream!Block /\ blocks[m].of \in Seq(Stream!Chunks)
    BY <2>0 DEF Stream!Block
  <2>2. Stream!Joined(blocks, k, n) = [blocks EXCEPT ![m].of = Append(blocks[m].of, n)]
    BY <1>4, <2>1 DEF Stream!Joined
  <2>3. Append(blocks[m].of, n) = blocks[m].of \o <<n>>
    BY <2>1, OneNumber
  <2> HIDE DEF m, new
  <2> DEFINE all == [blocks EXCEPT ![m].of = blocks[m].of \o <<n>>]
  <2>4. <<n>> \in Seq(Stream!Chunks) /\ NoneTwice(<<n>>) /\ Stream!Range(<<n>>) = {n}
    BY OneNumber
  <2>5. /\ Stream!HeldOnce(all)
        /\ Stream!Held(all) = Stream!Held(blocks) \cup Stream!Range(<<n>>)
    BY <1>2, <2>1, <2>4, GrownBlock
  <2>6. Stream!Joined(blocks, k, n) = all
    BY <2>2, <2>3
  <2> HIDE DEF all
  <2> QED  BY <2>4, <2>5, <2>6
<1> QED  BY <1>3, <1>4 DEF Stream!Joined

\* appendChunk.
LEMMA MergedHolds ==
    ASSUME NEW blocks \in Seq(Stream!Block), NEW block \in Stream!Block,
           Stream!HeldOnce(blocks), NoneTwice(block.of),
           Stream!Range(block.of) \cap Stream!Held(blocks) = {}
    PROVE  /\ Stream!HeldOnce(Stream!Merged(blocks, block))
           /\ Stream!Held(Stream!Merged(blocks, block))
                = Stream!Held(blocks) \cup Stream!Range(block.of)
<1> DEFINE m == Len(blocks)
<1>1. CASE Stream!Merged(blocks, block) = Append(blocks, block)
  BY <1>1, AddedBlock
<1>2. CASE blocks # <<>> /\ Stream!Merged(blocks, block) # Append(blocks, block)
  <2>0. m \in DOMAIN blocks /\ blocks[m] \in Stream!Block
    BY <1>2
  <2>1. blocks[m].of \in Seq(Stream!Chunks) /\ block.of \in Seq(Stream!Chunks)
    BY <2>0 DEF Stream!Block
  <2>2. Stream!Merged(blocks, block) = [blocks EXCEPT ![m].of = blocks[m].of \o block.of]
    BY <1>2, <2>0 DEF Stream!Merged
  <2> HIDE DEF m
  <2> DEFINE all == [blocks EXCEPT ![m].of = blocks[m].of \o block.of]
  <2>3. /\ Stream!HeldOnce(all)
        /\ Stream!Held(all) = Stream!Held(blocks) \cup Stream!Range(block.of)
    BY <2>0, <2>1, GrownBlock
  <2>4. Stream!Merged(blocks, block) = all
    BY <2>2
  <2> HIDE DEF all
  <2> QED  BY <2>3, <2>4
<1> QED  BY <1>1, <1>2 DEF Stream!Merged

\* applyToolCallUpdate.
LEMMA AppliedHolds ==
    ASSUME Stream!StreamsAssumption, streamHeard \in Seq(Stream!Kinds),
           Len(streamHeard) <= StreamMaxChunks,
           NEW evs \in Seq(Stream!Block), NEW n \in 1..Len(streamHeard),
           Stream!HeldOnce(evs), n \notin Stream!Held(evs)
    PROVE  /\ Stream!HeldOnce(Stream!Applied(evs, n))
           /\ Stream!Held(Stream!Applied(evs, n)) = Stream!Held(evs) \cup {n}
<1>0. n \in Stream!Chunks /\ streamHeard[n] \in Stream!Kinds
  BY DEF Stream!StreamsAssumption, Stream!Chunks
<1>1. Stream!Range(<<n>>) \cap Stream!Held(evs) = {}
  BY <1>0, OneNumber
<1>2. CASE Stream!Applied(evs, n) = Append(evs, Stream!EventOf(n))
  <2>1. Stream!EventOf(n) \in Stream!Block /\ Stream!EventOf(n).of = <<n>>
    BY <1>0 DEF Stream!EventOf, Stream!Block
  <2> QED  BY <1>0, <1>1, <1>2, <2>1, AddedBlock, OneNumber
<1>3. CASE Stream!CallsIn(evs) # {} /\ Stream!Applied(evs, n) = Stream!Merge(evs, n)
  <2> DEFINE c == CHOOSE i \in Stream!CallsIn(evs) : TRUE
  <2>1. c \in DOMAIN evs
    BY <1>3 DEF Stream!CallsIn
  <2>2. Stream!Merge(evs, n) = [evs EXCEPT ![c].of = Append(@, n)]
    BY DEF Stream!Merge
  <2> HIDE DEF c
  <2>a. evs[c] \in Stream!Block
    BY <2>1
  <2>3. evs[c] \in Stream!Block /\ evs[c].of \in Seq(Stream!Chunks)
    BY <2>a DEF Stream!Block
  <2> DEFINE all == [evs EXCEPT ![c].of = evs[c].of \o <<n>>]
  <2>4. Append(evs[c].of, n) = evs[c].of \o <<n>>
    BY <1>0, <2>3, OneNumber
  <2>5. Stream!Merge(evs, n) = all
    BY <2>1, <2>2, <2>4
  <2>6. <<n>> \in Seq(Stream!Chunks) /\ NoneTwice(<<n>>) /\ Stream!Range(<<n>>) = {n}
    BY <1>0, OneNumber
  <2>7. /\ Stream!HeldOnce(all)
        /\ Stream!Held(all) = Stream!Held(evs) \cup Stream!Range(<<n>>)
    BY <1>1, <2>1, <2>6, GrownBlock
  <2> HIDE DEF all
  <2> QED  BY <1>3, <2>5, <2>6, <2>7
<1> QED  BY <1>2, <1>3 DEF Stream!Applied

\* appendChunk, block after block.
LEMMA MergedFoldHolds ==
    ASSUME NEW base \in Seq(Stream!Block), NEW seq \in Seq(Stream!Block),
           Stream!HeldOnce(base), Stream!HeldOnce(seq),
           Stream!Held(base) \cap Stream!Held(seq) = {}
    PROVE  /\ Stream!HeldOnce(Stream!FoldLeft(Stream!Merged, base, seq))
           /\ Stream!Held(Stream!FoldLeft(Stream!Merged, base, seq))
                = Stream!Held(base) \cup Stream!Held(seq)
<1>1. PICK r \in [0..Len(seq) -> Seq(Stream!Block)] :
          /\ r[0] = base
          /\ \A k \in 1..Len(seq) : r[k] = Stream!Merged(r[k - 1], seq[k])
          /\ Stream!FoldLeft(Stream!Merged, base, seq) = r[Len(seq)]
  BY MergedFold
<1> DEFINE n == Len(seq)
           Upto(k) == UNION {Stream!Range(seq[i].of) : i \in 1..k}
           R == {k \in 0..n : /\ Stream!HeldOnce(r[k])
                              /\ Stream!Held(r[k]) = Stream!Held(base) \cup Upto(k)}
<1>2. n \in Nat /\ DOMAIN seq = 1..n /\ \A i \in 1..n : seq[i] \in Stream!Block
  OBVIOUS
<1>3. Upto(0) = {} /\ Upto(n) = Stream!Held(seq)
  BY <1>2 DEF Stream!Held
<1>4. ASSUME NEW k \in 0..(n - 1)
      PROVE  /\ Upto(k + 1) = Upto(k) \cup Stream!Range(seq[k + 1].of)
             /\ Upto(k) \cap Stream!Range(seq[k + 1].of) = {}
             /\ Stream!Range(seq[k + 1].of) \subseteq Stream!Held(seq)
             /\ NoneTwice(seq[k + 1].of)
  <2>1. /\ k + 1 \in 1..n /\ 1..(k + 1) = 1..k \cup {k + 1} /\ k + 1 \notin 1..k
        /\ \A i \in 1..k : i \in 1..n
    BY <1>2
  <2>2. Upto(k + 1) = Upto(k) \cup Stream!Range(seq[k + 1].of)
    BY <2>1
  <2>3. Upto(k) \cap Stream!Range(seq[k + 1].of) = {}
    <3> SUFFICES ASSUME NEW i \in 1..k, NEW x \in Stream!Range(seq[i].of),
                        x \in Stream!Range(seq[k + 1].of)
                 PROVE  FALSE
      OBVIOUS
    <3>1. PICK a \in DOMAIN seq[i].of : x = seq[i].of[a]
      BY DEF Stream!Range
    <3>2. PICK b \in DOMAIN seq[k + 1].of : x = seq[k + 1].of[b]
      BY DEF Stream!Range
    <3>3. i \in DOMAIN seq /\ k + 1 \in DOMAIN seq /\ seq[i].of[a] = seq[k + 1].of[b]
      BY <1>2, <2>1, <3>1, <3>2
    <3>4. i = k + 1
      BY <3>1, <3>2, <3>3 DEF Stream!HeldOnce
    <3> QED  BY <2>1, <3>4
  <2>4. Stream!Range(seq[k + 1].of) \subseteq Stream!Held(seq)
    BY <1>2, <2>1 DEF Stream!Held
  <2>5. NoneTwice(seq[k + 1].of)
    BY <1>2, <2>1 DEF NoneTwice, Stream!HeldOnce
  <2> QED  BY <2>2, <2>3, <2>4, <2>5
<1> HIDE DEF Upto
<1>5. 0 \in R
  BY <1>1, <1>2, <1>3
<1>6. ASSUME NEW k \in 0..(n - 1), k \in R PROVE k + 1 \in R
  <2>1. k + 1 \in 1..n /\ k + 1 \in 0..n /\ k + 1 - 1 = k /\ k \in 0..n
    BY <1>2
  <2>2. r[k + 1] = Stream!Merged(r[k], seq[k + 1]) /\ r[k] \in Seq(Stream!Block)
    BY <1>1, <2>1
  <2>3. seq[k + 1] \in Stream!Block
    BY <1>2, <2>1
  <2>4. /\ Stream!HeldOnce(r[k]) /\ NoneTwice(seq[k + 1].of)
        /\ Stream!Range(seq[k + 1].of) \cap Stream!Held(r[k]) = {}
    BY <1>4, <1>6
  <2>5. /\ Stream!HeldOnce(r[k + 1])
        /\ Stream!Held(r[k + 1]) = Stream!Held(r[k]) \cup Stream!Range(seq[k + 1].of)
    BY <2>2, <2>3, <2>4, MergedHolds
  <2> QED  BY <1>4, <1>6, <2>1, <2>5
<1>7. n \in R
  <2> HIDE DEF R, n
  <2>1. \A k \in 0..n : k \in R
    BY <1>2, <1>5, <1>6, Climbing
  <2> QED  BY <1>2, <2>1
<1> QED  BY <1>1, <1>3, <1>7

\* The flush of the tools.
LEMMA AppliedFoldHolds ==
    ASSUME Stream!StreamsAssumption, streamHeard \in Seq(Stream!Kinds),
           Len(streamHeard) <= StreamMaxChunks,
           NEW base \in Seq(Stream!Block), NEW seq \in Seq(1..Len(streamHeard)),
           Stream!HeldOnce(base), NoneTwice(seq),
           Stream!Held(base) \cap Stream!Range(seq) = {}
    PROVE  /\ Stream!HeldOnce(Stream!FoldLeft(Stream!Applied, base, seq))
           /\ Stream!Held(Stream!FoldLeft(Stream!Applied, base, seq))
                = Stream!Held(base) \cup Stream!Range(seq)
<1>1. PICK r \in [0..Len(seq) -> Seq(Stream!Block)] :
          /\ r[0] = base
          /\ \A k \in 1..Len(seq) : r[k] = Stream!Applied(r[k - 1], seq[k])
          /\ Stream!FoldLeft(Stream!Applied, base, seq) = r[Len(seq)]
  BY AppliedFold
<1> DEFINE n == Len(seq)
           Upto(k) == {seq[i] : i \in 1..k}
           R == {k \in 0..n : /\ Stream!HeldOnce(r[k])
                              /\ Stream!Held(r[k]) = Stream!Held(base) \cup Upto(k)}
<1>2. n \in Nat /\ DOMAIN seq = 1..n /\ \A i \in 1..n : seq[i] \in 1..Len(streamHeard)
  OBVIOUS
<1>3. Upto(0) = {} /\ Upto(n) = Stream!Range(seq)
  BY <1>2 DEF Stream!Range
<1>4. ASSUME NEW k \in 0..(n - 1)
      PROVE  /\ Upto(k + 1) = Upto(k) \cup {seq[k + 1]} /\ seq[k + 1] \notin Upto(k)
             /\ seq[k + 1] \in Stream!Range(seq)
  <2>1. /\ k + 1 \in 1..n /\ 1..(k + 1) = 1..k \cup {k + 1} /\ k + 1 \notin 1..k
        /\ \A i \in 1..k : i \in 1..n
    BY <1>2
  <2>2. seq[k + 1] \notin Upto(k)
    BY <1>2, <2>1 DEF NoneTwice
  <2>3. Upto(k + 1) = Upto(k) \cup {seq[k + 1]}
    BY <2>1
  <2>4. seq[k + 1] \in Stream!Range(seq)
    BY <1>2, <2>1 DEF Stream!Range
  <2> QED  BY <2>2, <2>3, <2>4
<1> HIDE DEF Upto
<1>5. 0 \in R
  BY <1>1, <1>2, <1>3
<1>6. ASSUME NEW k \in 0..(n - 1), k \in R PROVE k + 1 \in R
  <2>1. k + 1 \in 1..n /\ k + 1 \in 0..n /\ k + 1 - 1 = k /\ k \in 0..n
    BY <1>2
  <2>2. r[k + 1] = Stream!Applied(r[k], seq[k + 1]) /\ r[k] \in Seq(Stream!Block)
    <3>1. r[k + 1] = Stream!Applied(r[k + 1 - 1], seq[k + 1])
      BY <1>1, <2>1
    <3>2. r[k] \in Seq(Stream!Block)
      BY <1>1, <2>1
    <3> QED  BY <2>1, <3>1, <3>2
  <2>3. seq[k + 1] \in 1..Len(streamHeard)
    BY <1>2, <2>1
  <2>4. Stream!HeldOnce(r[k]) /\ seq[k + 1] \notin Stream!Held(r[k])
    BY <1>4, <1>6
  <2>5. /\ Stream!HeldOnce(r[k + 1])
        /\ Stream!Held(r[k + 1]) = Stream!Held(r[k]) \cup {seq[k + 1]}
    BY <2>2, <2>3, <2>4, AppliedHolds
  <2> QED  BY <1>4, <1>6, <2>1, <2>5
<1>7. n \in R
  <2> HIDE DEF R, n
  <2>1. \A k \in 0..n : k \in R
    BY <1>2, <1>5, <1>6, Climbing
  <2> QED  BY <1>2, <2>1
<1> QED  BY <1>1, <1>3, <1>7

\* The ledger: the buffers, what a flush has taken, and the events share no chunk, and
\* together have all that is to be written. The turn takes only with empty hands.
Told == {n \in 1..Len(streamHeard) : streamHeard[n] # "usage"}

StreamWhole ==
    Stream!Held(streamTexts) \cup Stream!Held(streamTaken["timer"])
        \cup Stream!Held(streamTaken["turn"]) \cup Stream!Held(streamEvents)
        \cup Stream!Range(streamTools) = Told

StreamOnce ==
    /\ Stream!HeldOnce(streamTexts) /\ Stream!HeldOnce(streamTaken["timer"])
    /\ Stream!HeldOnce(streamTaken["turn"]) /\ Stream!HeldOnce(streamEvents)
    /\ NoneTwice(streamTools)

StreamApart ==
    /\ Stream!Held(streamTexts) \cap Stream!Held(streamTaken["timer"]) = {}
    /\ Stream!Held(streamTexts) \cap Stream!Held(streamTaken["turn"]) = {}
    /\ Stream!Held(streamTexts) \cap Stream!Held(streamEvents) = {}
    /\ Stream!Held(streamTexts) \cap Stream!Range(streamTools) = {}
    /\ Stream!Held(streamTaken["timer"]) \cap Stream!Held(streamTaken["turn"]) = {}
    /\ Stream!Held(streamTaken["timer"]) \cap Stream!Held(streamEvents) = {}
    /\ Stream!Held(streamTaken["timer"]) \cap Stream!Range(streamTools) = {}
    /\ Stream!Held(streamTaken["turn"]) \cap Stream!Held(streamEvents) = {}
    /\ Stream!Held(streamTaken["turn"]) \cap Stream!Range(streamTools) = {}
    /\ Stream!Held(streamEvents) \cap Stream!Range(streamTools) = {}

StreamHands ==
    streamTurn \notin {"look", "commit", "closed"} => streamTaken["turn"] = <<>>

StreamLedger == StreamWhole /\ StreamOnce /\ StreamApart /\ StreamHands

LEMMA LedgerIsKept == ASSUME StreamLedger PROVE Stream!EachInOnePlace
<1>1. /\ Stream!Places[1] = streamTexts /\ Stream!Places[2] = streamTaken["timer"]
      /\ Stream!Places[3] = streamTaken["turn"] /\ Stream!Places[4] = streamEvents
  BY DEF Stream!Places
<1>2. 1..4 = {1, 2, 3, 4}
  OBVIOUS
<1>3. (UNION {Stream!Held(Stream!Places[p]) : p \in 1..4}) \cup Stream!Range(streamTools)
          = {n \in 1..Stream!Count : streamHeard[n] # "usage"}
  <2>1. (UNION {Stream!Held(Stream!Places[p]) : p \in {1, 2, 3, 4}})
          = Stream!Held(Stream!Places[1]) \cup Stream!Held(Stream!Places[2])
              \cup Stream!Held(Stream!Places[3]) \cup Stream!Held(Stream!Places[4])
    OBVIOUS
  <2> QED  BY <1>1, <1>2, <2>1 DEF StreamLedger, StreamWhole, Told, Stream!Count
<1>4. ASSUME NEW p \in 1..4
      PROVE  /\ Stream!HeldOnce(Stream!Places[p])
             /\ Stream!Held(Stream!Places[p]) \cap Stream!Range(streamTools) = {}
             /\ \A q \in 1..4 : p # q =>
                    Stream!Held(Stream!Places[p]) \cap Stream!Held(Stream!Places[q]) = {}
  <2>1. Stream!HeldOnce(Stream!Places[p])
    BY <1>1, <1>2 DEF StreamLedger, StreamOnce
  <2>2. Stream!Held(Stream!Places[p]) \cap Stream!Range(streamTools) = {}
    BY <1>1, <1>2 DEF StreamLedger, StreamApart
  <2>3. ASSUME NEW q \in 1..4, p # q
        PROVE  Stream!Held(Stream!Places[p]) \cap Stream!Held(Stream!Places[q]) = {}
    <3>1. ASSUME NEW a, NEW b, a \cap b = {} PROVE b \cap a = {}
      BY <3>1
    <3>2. CASE p = 1
      BY <1>1, <1>2, <2>3, <3>2 DEF StreamLedger, StreamApart
    <3>3. CASE p = 2
      BY <1>1, <1>2, <2>3, <3>1, <3>3 DEF StreamLedger, StreamApart
    <3>4. CASE p = 3
      BY <1>1, <1>2, <2>3, <3>1, <3>4 DEF StreamLedger, StreamApart
    <3>5. CASE p = 4
      BY <1>1, <1>2, <2>3, <3>1, <3>5 DEF StreamLedger, StreamApart
    <3> QED  BY <1>2, <3>2, <3>3, <3>4, <3>5
  <2> QED  BY <2>1, <2>2, <2>3
<1>5. \A i, j \in DOMAIN streamTools : streamTools[i] = streamTools[j] => i = j
  BY DEF StreamLedger, StreamOnce, NoneTwice
<1> QED  BY <1>3, <1>4, <1>5 DEF Stream!EachInOnePlace

LEMMA LedgerBegins == ASSUME Stream!Init PROVE StreamLedger
<1>1. streamTaken["timer"] = <<>> /\ streamTaken["turn"] = <<>>
  BY DEF Stream!Init, Stream!Flushers
<1>2. Stream!Range(<<>>) = {} /\ NoneTwice(<<>>)
  BY DEF Stream!Range, NoneTwice
<1>3. Told = {}
  BY DEF Stream!Init, Told
<1> QED  BY <1>1, <1>2, <1>3, NothingHeld
         DEF Stream!Init, StreamLedger, StreamWhole, StreamOnce, StreamApart, StreamHands

LEMMA LedgerRests == ASSUME StreamLedger, UNCHANGED streamVars PROVE StreamLedger'
BY DEF streamVars, StreamLedger, StreamWhole, StreamOnce, StreamApart, StreamHands, Told

\* A chunk more is to be written, and it is nowhere yet.
LEMMA LedgerHears ==
    ASSUME StreamInv, StreamLedger, NEW k \in Stream!Kinds, Stream!Hear(k)
    PROVE  /\ Told' = Told \cup (IF k = "usage" THEN {} ELSE {Stream!Count'})
           /\ Stream!Count' \notin Told /\ streamTurn = "prompt"
<1>1. /\ streamHeard \in Seq(Stream!Kinds) /\ Len(streamHeard) \in Nat
      /\ streamHeard' = Append(streamHeard, k) /\ streamTurn = "prompt"
  BY DEF StreamInv, StreamHeard, Stream!Hear
<1>2. /\ Len(streamHeard') = Len(streamHeard) + 1
      /\ \A n \in 1..Len(streamHeard) : streamHeard'[n] = streamHeard[n]
      /\ streamHeard'[Len(streamHeard) + 1] = k
  BY <1>1
<1>3. 1..(Len(streamHeard) + 1) = 1..Len(streamHeard) \cup {Len(streamHeard) + 1}
      /\ Len(streamHeard) + 1 \notin 1..Len(streamHeard)
  BY <1>1
<1> QED  BY <1>1, <1>2, <1>3 DEF Told, Stream!Count

LEMMA LedgerStep ==
    ASSUME Stream!StreamsAssumption, StreamInv, StreamLedger, Stream!Next
    PROVE  StreamLedger'
<1>0. /\ StreamHeard /\ streamTexts \in Seq(Stream!Block) /\ streamEvents \in Seq(Stream!Block)
      /\ streamTaken \in [Stream!Flushers -> Seq(Stream!Block)]
      /\ streamTaken["timer"] \in Seq(Stream!Block) /\ streamTaken["turn"] \in Seq(Stream!Block)
      /\ streamHeard \in Seq(Stream!Kinds) /\ Len(streamHeard) <= StreamMaxChunks
      /\ streamTools \in Seq(1..Len(streamHeard))
  BY DEF StreamInv, StreamHeard, StreamHeld, Stream!Flushers
<1>k. /\ Stream!Texts \subseteq Stream!Kinds /\ Stream!Tools \subseteq Stream!Kinds
      /\ "usage" \notin Stream!Texts /\ "usage" \notin Stream!Tools
      /\ {"plan", "usage", "goal"} \subseteq Stream!Kinds
  BY DEF Stream!Kinds, Stream!Texts, Stream!Tools
<1>n. Stream!Range(<<>>) = {} /\ NoneTwice(<<>>)
  BY DEF Stream!Range, NoneTwice
<1>w. StreamWhole /\ StreamOnce /\ StreamApart /\ StreamHands
  BY DEF StreamLedger
<1>1. ASSUME NEW k \in Stream!Texts, Stream!HearText(k) PROVE StreamLedger'
  <2>1. Stream!Hear(k) /\ k \in Stream!Kinds /\ k # "usage"
    BY <1>1, <1>k DEF Stream!HearText
  <2>2. /\ Told' = Told \cup {Stream!Count'} /\ Stream!Count' \notin Told
        /\ Stream!Count' \in Stream!Chunks
    BY <1>0, <2>1, LedgerHears, StreamHears
  <2>3. streamTexts' = Stream!Joined(streamTexts, k, Stream!Count')
        /\ UNCHANGED <<streamTaken, streamTools, streamEvents, streamTurn>>
    BY <1>1 DEF Stream!HearText
  <2>4. /\ Stream!HeldOnce(streamTexts')
        /\ Stream!Held(streamTexts') = Stream!Held(streamTexts) \cup {Stream!Count'}
    <3>1. Stream!HeldOnce(streamTexts) /\ Stream!Count' \notin Stream!Held(streamTexts)
      BY <1>w, <2>2 DEF StreamWhole, StreamOnce
    <3> QED  BY <1>0, <2>1, <2>2, <2>3, <3>1, JoinedHolds
  <2>5. StreamWhole' /\ StreamOnce' /\ StreamHands'
    BY <1>w, <2>2, <2>3, <2>4 DEF StreamWhole, StreamOnce, StreamHands
  <2>6. StreamApart'
    BY <1>w, <2>2, <2>3, <2>4 DEF StreamWhole, StreamApart
  <2> QED  BY <2>5, <2>6 DEF StreamLedger
<1>2. ASSUME NEW k \in Stream!Tools, Stream!HearTool(k) PROVE StreamLedger'
  <2>1. Stream!Hear(k) /\ k \in Stream!Kinds /\ k # "usage"
    BY <1>2, <1>k DEF Stream!HearTool
  <2>2. /\ Told' = Told \cup {Stream!Count'} /\ Stream!Count' \notin Told
        /\ Stream!Count' \in Stream!Chunks
    BY <1>0, <2>1, LedgerHears, StreamHears
  <2>3. streamTools' = Append(streamTools, Stream!Count')
        /\ UNCHANGED <<streamTexts, streamTaken, streamEvents, streamTurn>>
    BY <1>2 DEF Stream!HearTool
  <2>4. /\ NoneTwice(streamTools')
        /\ Stream!Range(streamTools') = Stream!Range(streamTools) \cup {Stream!Count'}
    <3>1. streamTools \in Seq(Stream!Chunks)
      <4>1. 1..Len(streamHeard) \subseteq Stream!Chunks
        BY <1>0 DEF Stream!StreamsAssumption, Stream!Chunks
      <4> QED  BY <1>0, <4>1, WiderSequence
    <3>2. streamTools' = streamTools \o <<Stream!Count'>>
      BY <2>2, <2>3, <3>1, OneNumber
    <3>3. NoneTwice(streamTools) /\ Stream!Range(streamTools) \cap {Stream!Count'} = {}
      BY <1>w, <2>2 DEF StreamWhole, StreamOnce
    <3>4. /\ NoneTwice(<<Stream!Count'>>) /\ <<Stream!Count'>> \in Seq(Stream!Chunks)
          /\ Stream!Range(<<Stream!Count'>>) = {Stream!Count'}
      BY <2>2, OneNumber
    <3> QED  BY <3>1, <3>2, <3>3, <3>4, JoinedNumbers
  <2>5. StreamWhole' /\ StreamOnce' /\ StreamHands'
    BY <1>w, <2>2, <2>3, <2>4 DEF StreamWhole, StreamOnce, StreamHands
  <2>6. StreamApart'
    BY <1>w, <2>2, <2>3, <2>4 DEF StreamWhole, StreamApart
  <2> QED  BY <2>5, <2>6 DEF StreamLedger
<1>3. ASSUME NEW k \in {"plan", "goal"}, Stream!Hear(k),
             streamEvents' = Append(streamEvents, [kind |-> k, of |-> <<Stream!Count'>>]),
             UNCHANGED <<streamTexts, streamTaken, streamTools, streamTurn>>
      PROVE  StreamLedger'
  <2>1. k \in Stream!Kinds /\ k # "usage"
    BY <1>k
  <2>2. /\ Told' = Told \cup {Stream!Count'} /\ Stream!Count' \notin Told
        /\ Stream!Count' \in Stream!Chunks
    BY <1>0, <1>3, <2>1, LedgerHears, StreamHears
  <2> DEFINE block == [kind |-> k, of |-> <<Stream!Count'>>]
  <2>3. block \in Stream!Block /\ block.of = <<Stream!Count'>>
    BY <2>1, <2>2, OneNumber DEF Stream!Block
  <2>4. /\ Stream!HeldOnce(streamEvents')
        /\ Stream!Held(streamEvents') = Stream!Held(streamEvents) \cup {Stream!Count'}
    <3>1. Stream!HeldOnce(streamEvents) /\ {Stream!Count'} \cap Stream!Held(streamEvents) = {}
      BY <1>w, <2>2 DEF StreamWhole, StreamOnce
    <3>2. NoneTwice(block.of) /\ Stream!Range(block.of) = {Stream!Count'}
      BY <2>2, <2>3, OneNumber
    <3>3. streamEvents' = Append(streamEvents, block)
      BY <1>3
    <3> HIDE DEF block
    <3> QED  BY <1>0, <2>3, <3>1, <3>2, <3>3, AddedBlock
  <2>5. StreamWhole' /\ StreamOnce' /\ StreamHands'
    BY <1>3, <1>w, <2>2, <2>4 DEF StreamWhole, StreamOnce, StreamHands
  <2>6. StreamApart'
    BY <1>3, <1>w, <2>2, <2>4 DEF StreamWhole, StreamApart
  <2> QED  BY <2>5, <2>6 DEF StreamLedger
<1>4. CASE Stream!HearPlan \/ Stream!HearGoal
  BY <1>3, <1>4 DEF Stream!HearPlan, Stream!HearGoal
<1>5. CASE Stream!HearUsage
  <2>1. Told' = Told
    BY <1>5, <1>k, LedgerHears DEF Stream!HearUsage
  <2>2. UNCHANGED <<streamTexts, streamTaken, streamTools, streamEvents, streamTurn>>
    BY <1>5 DEF Stream!HearUsage
  <2> QED  BY <1>w, <2>1, <2>2
           DEF StreamLedger, StreamWhole, StreamOnce, StreamApart, StreamHands
<1>t. ASSUME NEW f \in Stream!Flushers, Stream!Take(f), streamTaken[f] = <<>>
      PROVE  /\ streamTexts' = <<>> /\ streamTaken'[f] = streamTexts
             /\ \A g \in Stream!Flushers : g # f => streamTaken'[g] = streamTaken[g]
             /\ Stream!Held(streamTexts') = {} /\ Stream!Held(streamTaken[f]) = {}
             /\ Stream!HeldOnce(streamTexts')
  BY <1>0, <1>t, NothingHeld DEF Stream!Take
<1>6. CASE Stream!TimerTakes
  <2>1. /\ streamTexts' = <<>> /\ streamTaken'["timer"] = streamTexts
        /\ streamTaken'["turn"] = streamTaken["turn"]
        /\ Stream!Held(streamTexts') = {} /\ Stream!Held(streamTaken["timer"]) = {}
        /\ Stream!HeldOnce(streamTexts')
    BY <1>6, <1>t DEF Stream!TimerTakes, Stream!Flushers
  <2>2. UNCHANGED <<streamHeard, streamTools, streamEvents, streamTurn>>
    BY <1>6 DEF Stream!TimerTakes
  <2>3. StreamWhole' /\ StreamOnce' /\ StreamHands'
    BY <1>w, <2>1, <2>2 DEF StreamWhole, StreamOnce, StreamHands, Told
  <2>4. StreamApart'
    BY <1>w, <2>1, <2>2 DEF StreamApart
  <2> QED  BY <2>3, <2>4 DEF StreamLedger
<1>7. CASE Stream!PromptReturns \/ Stream!Complete
  <2>0. /\ streamTaken["turn"] = <<>> /\ Stream!Take("turn")
        /\ streamTurn' \in {"look", "commit"}
        /\ UNCHANGED <<streamHeard, streamTools, streamEvents>>
    BY <1>7, <1>w DEF Stream!PromptReturns, Stream!Complete, Stream!FlushDelta, StreamHands
  <2>1. /\ streamTexts' = <<>> /\ streamTaken'["turn"] = streamTexts
        /\ streamTaken'["timer"] = streamTaken["timer"]
        /\ Stream!Held(streamTexts') = {} /\ Stream!Held(streamTaken["turn"]) = {}
        /\ Stream!HeldOnce(streamTexts')
    BY <1>t, <2>0 DEF Stream!Flushers
  <2>3. StreamWhole' /\ StreamOnce' /\ StreamHands'
    BY <1>w, <2>0, <2>1 DEF StreamWhole, StreamOnce, StreamHands, Told
  <2>4. StreamApart'
    BY <1>w, <2>0, <2>1 DEF StreamApart
  <2> QED  BY <2>3, <2>4 DEF StreamLedger
<1>8. CASE Stream!TimerPersists \/ Stream!Flushed
  <2>0. UNCHANGED <<streamHeard, streamTexts, streamTools, streamTurn>>
    BY <1>8 DEF Stream!TimerPersists, Stream!Flushed
  <2>1. ASSUME NEW f \in Stream!Flushers, NEW g \in Stream!Flushers, f # g, Stream!Persist(f),
               Stream!HeldOnce(streamTaken[f]),
               Stream!Held(streamTaken[f]) \cap Stream!Held(streamEvents) = {}
        PROVE  /\ streamTaken'[f] = <<>> /\ streamTaken'[g] = streamTaken[g]
               /\ Stream!Held(streamTaken'[f]) = {} /\ Stream!HeldOnce(streamTaken'[f])
               /\ Stream!HeldOnce(streamEvents')
               /\ Stream!Held(streamEvents')
                    = Stream!Held(streamEvents) \cup Stream!Held(streamTaken[f])
    <3>1. streamTaken'[f] = <<>> /\ streamTaken'[g] = streamTaken[g]
      BY <1>0, <2>1 DEF Stream!Persist
    <3>2. streamTaken[f] \in Seq(Stream!Block)
      BY <1>0
    <3>3. /\ Stream!HeldOnce(streamEvents)
          /\ streamEvents' = Stream!FoldLeft(Stream!Merged, streamEvents, streamTaken[f])
          /\ Stream!Held(streamEvents) \cap Stream!Held(streamTaken[f]) = {}
      BY <1>w, <2>1 DEF StreamOnce, Stream!Persist
    <3>4. /\ Stream!HeldOnce(streamEvents')
          /\ Stream!Held(streamEvents')
               = Stream!Held(streamEvents) \cup Stream!Held(streamTaken[f])
      BY <1>0, <2>1, <3>2, <3>3, MergedFoldHolds
    <3> QED  BY <3>1, <3>4, NothingHeld
  <2>2. CASE Stream!Persist("timer")
    <3>1. /\ streamTaken'["timer"] = <<>> /\ streamTaken'["turn"] = streamTaken["turn"]
          /\ Stream!Held(streamTaken'["timer"]) = {}
          /\ Stream!HeldOnce(streamTaken'["timer"]) /\ Stream!HeldOnce(streamEvents')
          /\ Stream!Held(streamEvents')
               = Stream!Held(streamEvents) \cup Stream!Held(streamTaken["timer"])
      BY <1>w, <2>1, <2>2 DEF StreamOnce, StreamApart, Stream!Flushers
    <3>2. StreamWhole' /\ StreamOnce' /\ StreamHands'
      BY <1>w, <2>0, <3>1 DEF StreamWhole, StreamOnce, StreamHands, Told
    <3>3. StreamApart'
      BY <1>w, <2>0, <3>1 DEF StreamApart
    <3> QED  BY <3>2, <3>3 DEF StreamLedger
  <2>3. CASE Stream!Persist("turn")
    <3>1. /\ streamTaken'["turn"] = <<>> /\ streamTaken'["timer"] = streamTaken["timer"]
          /\ Stream!Held(streamTaken'["turn"]) = {}
          /\ Stream!HeldOnce(streamTaken'["turn"]) /\ Stream!HeldOnce(streamEvents')
          /\ Stream!Held(streamEvents')
               = Stream!Held(streamEvents) \cup Stream!Held(streamTaken["turn"])
      BY <1>w, <2>1, <2>3 DEF StreamOnce, StreamApart, Stream!Flushers
    <3>2. StreamWhole' /\ StreamOnce' /\ StreamHands'
      BY <1>w, <2>0, <3>1 DEF StreamWhole, StreamOnce, StreamHands, Told
    <3>3. StreamApart'
      BY <1>w, <2>0, <3>1 DEF StreamApart
    <3> QED  BY <3>2, <3>3 DEF StreamLedger
  <2> QED  BY <1>8, <2>2, <2>3 DEF Stream!TimerPersists, Stream!Flushed
<1>f. ASSUME Stream!FlushTools
      PROVE  /\ streamTools' = <<>> /\ Stream!Range(streamTools') = {}
             /\ NoneTwice(streamTools') /\ Stream!HeldOnce(streamEvents')
             /\ Stream!Held(streamEvents')
                  = Stream!Held(streamEvents) \cup Stream!Range(streamTools)
  <2>1. streamTools' = <<>>
        /\ streamEvents' = Stream!FoldLeft(Stream!Applied, streamEvents, streamTools)
    BY <1>f DEF Stream!FlushTools
  <2>2. /\ Stream!HeldOnce(streamEvents) /\ NoneTwice(streamTools)
        /\ Stream!Held(streamEvents) \cap Stream!Range(streamTools) = {}
    BY <1>w DEF StreamOnce, StreamApart
  <2>3. /\ Stream!HeldOnce(streamEvents')
        /\ Stream!Held(streamEvents')
             = Stream!Held(streamEvents) \cup Stream!Range(streamTools)
    BY <1>0, <2>1, <2>2, AppliedFoldHolds
  <2> QED  BY <1>n, <2>1, <2>3
<1>9. CASE Stream!ToolTimer
  <2>1. UNCHANGED <<streamHeard, streamTexts, streamTaken, streamTurn>>
    BY <1>9 DEF Stream!ToolTimer
  <2>2. Stream!FlushTools
    BY <1>9 DEF Stream!ToolTimer
  <2>3. StreamWhole' /\ StreamOnce' /\ StreamHands'
    BY <1>f, <1>w, <2>1, <2>2 DEF StreamWhole, StreamOnce, StreamHands, Told
  <2>4. StreamApart'
    BY <1>f, <1>w, <2>1, <2>2 DEF StreamApart
  <2> QED  BY <2>3, <2>4 DEF StreamLedger
<1>10. CASE Stream!Close
  <2>0. /\ streamTaken["turn"] = <<>> /\ Stream!Take("turn") /\ Stream!FlushTools
        /\ streamTurn' = "closed" /\ UNCHANGED streamHeard
    BY <1>10, <1>w DEF Stream!Close, StreamHands
  <2>1. /\ streamTexts' = <<>> /\ streamTaken'["turn"] = streamTexts
        /\ streamTaken'["timer"] = streamTaken["timer"]
        /\ Stream!Held(streamTexts') = {} /\ Stream!Held(streamTaken["turn"]) = {}
        /\ Stream!HeldOnce(streamTexts')
    BY <1>t, <2>0 DEF Stream!Flushers
  <2>3. StreamWhole' /\ StreamOnce' /\ StreamHands'
    BY <1>f, <1>w, <2>0, <2>1 DEF StreamWhole, StreamOnce, StreamHands, Told
  <2>4. StreamApart'
    BY <1>f, <1>w, <2>0, <2>1 DEF StreamApart
  <2> QED  BY <2>3, <2>4 DEF StreamLedger
<1>11. CASE Stream!Look \/ Stream!Judge \/ Stream!Commit
  <2>1. UNCHANGED <<streamHeard, streamTexts, streamTaken, streamTools, streamEvents>>
    BY <1>11 DEF Stream!Look, Stream!Judge, Stream!Commit
  <2>2. StreamHands'
    BY <1>11, <1>w, <2>1 DEF Stream!Look, Stream!Judge, Stream!Commit, StreamHands
  <2> QED  BY <1>w, <2>1, <2>2 DEF StreamLedger, StreamWhole, StreamOnce, StreamApart, Told
<1> QED  BY <1>1, <1>2, <1>4, <1>5, <1>6, <1>7, <1>8, <1>9, <1>10, <1>11
         DEF Stream!Next, Stream!TimerStep, Stream!TurnStep

------------------------------------------------------------------------------
(* Lines of an agent, in the order of their writing.                            *)

\* A line of a kind in L is written once at most.
Once(s, L) == \A i, j \in DOMAIN s : (s[i] = s[j] /\ s[i] \in L) => i = j
Lines(s) == {s[i] : i \in DOMAIN s}

LEMMA LineWritten ==
    ASSUME NEW S, NEW s \in Seq(S), NEW x \in S, NEW L,
           Once(s, L), x \in L => x \notin Lines(s)
    PROVE  /\ Append(s, x) \in Seq(S) /\ Lines(Append(s, x)) = Lines(s) \cup {x}
           /\ Once(Append(s, x), L)
<1> DEFINE t == Append(s, x)
<1>1. /\ t \in Seq(S) /\ Len(s) \in Nat /\ DOMAIN s = 1..Len(s)
      /\ DOMAIN t = (DOMAIN s) \cup {Len(s) + 1} /\ Len(s) + 1 \notin DOMAIN s
      /\ \A i \in DOMAIN s : t[i] = s[i]
      /\ t[Len(s) + 1] = x
  OBVIOUS
<1> HIDE DEF t
<1>2. Lines(t) = Lines(s) \cup {x}
  BY <1>1 DEF Lines
<1>3. Once(t, L)
  BY <1>1 DEF Once, Lines
<1> QED  BY <1>1, <1>2, <1>3 DEF t

LEMMA LineRead ==
    ASSUME NEW S, NEW s \in Seq(S), s # <<>>, NEW L, Once(s, L)
    PROVE  /\ Tail(s) \in Seq(S) /\ Lines(Tail(s)) \subseteq Lines(s) /\ Head(s) \in Lines(s)
           /\ Once(Tail(s), L) /\ (Head(s) \in L => Head(s) \notin Lines(Tail(s)))
<1> DEFINE t == Tail(s)
<1>1. /\ t \in Seq(S) /\ Len(s) \in Nat \ {0} /\ DOMAIN s = 1..Len(s)
      /\ DOMAIN t = 1..(Len(s) - 1) /\ Head(s) = s[1]
      /\ \A i \in DOMAIN t : t[i] = s[i + 1]
  OBVIOUS
<1>2. /\ \A i \in DOMAIN t : i \in Nat /\ i # 0 /\ i + 1 \in DOMAIN s /\ i + 1 # 1
      /\ 1 \in DOMAIN s
      /\ \A i, j \in DOMAIN t : i + 1 = j + 1 => i = j
  BY <1>1
<1> HIDE DEF t
<1>3. Lines(t) \subseteq Lines(s) /\ Head(s) \in Lines(s)
  BY <1>1, <1>2 DEF Lines
<1>4. Once(t, L)
  BY <1>1, <1>2 DEF Once
<1>5. Head(s) \in L => Head(s) \notin Lines(t)
  BY <1>1, <1>2 DEF Once, Lines
<1> QED  BY <1>1, <1>3, <1>4, <1>5 DEF t

------------------------------------------------------------------------------
(* The plans. A plan is read once, so the card that goes up for it finds no      *)
(* switch of mode on its way, and an answer belongs to a mode that was asked.    *)

PlanRequests == {Plan!CreatePlan(k) : k \in Plan!Plans}

PlanTyped ==
    /\ planStdout \in Seq(Plan!Lines) /\ planHandled \in {0} \cup Plan!Plans
    /\ planCard \in {"none", "shown", "approve", "decline", "gone"} /\ planFromMode \in Plan!Modes
    /\ planPlan \in [Plan!Plans -> {"no", "sent", "accepted", "cancelled", "failed"}]
    /\ planSetter \in [Plan!Plans ->
           {"no", "queued", "started", "asked", "answered", "done", "failed"}]
    /\ planAsks \subseteq Plan!Plans /\ planGone \in BOOLEAN
    /\ planWant \in [Plan!Plans -> Plan!Modes \cup {Plan!NoMode}]
    /\ planAgentMode \in Plan!Modes /\ planCurrentID \in Plan!Modes
    /\ planSwitches \in 0..PlanMaxSwitches

PlanRead ==
    /\ planHandled = 0 <=> planCard = "none"
    /\ Once(planStdout, PlanRequests)
    /\ planHandled # 0 => Plan!CreatePlan(planHandled) \notin Lines(planStdout)
    /\ planCard = "shown" => planSetter[planHandled] = "no"

\* What is known of one plan.
PlanOf(k) ==
    /\ Plan!CreatePlan(k) \in Lines(planStdout) => planSetter[k] = "no" /\ planPlan[k] # "no"
    /\ Plan!Answer(k) \in Lines(planStdout) => planSetter[k] # "no"
    /\ k \in planAsks => planSetter[k] # "no"
    /\ planSetter[k] # "no" => planWant[k] \in Plan!Modes
    /\ planPlan[k] = "no" => planSetter[k] = "no" /\ planHandled # k

PlanKnown == \A k \in Plan!Plans : PlanOf(k)

PlanEntries == Plan!Ids \X Plan!Statuses
PlanDistinct(list) ==
    \A i, j \in DOMAIN list : Plan!IdOf(list[i]) = Plan!IdOf(list[j]) => i = j
PlanTodos ==
    /\ planTodos \in Seq(PlanEntries) /\ PlanDistinct(planTodos)
    /\ planLast \in [Plan!Ids -> Plan!Statuses \cup {"no"}]
    /\ \A t \in PlanEntries : t \in Lines(planTodos) <=> planLast[t[1]] = t[2]
    /\ planWrites \in 0..PlanMaxWrites

PlanInv == PlanTyped /\ PlanRead /\ PlanKnown /\ PlanTodos

LEMMA PlanIsTyped == ASSUME PlanInv PROVE Plan!TypeOK
<1>1. PlanTyped /\ PlanRead /\ PlanTodos
  BY DEF PlanInv
<1>2. \A i, j \in DOMAIN planTodos : planTodos[i][1] = planTodos[j][1] => i = j
  BY <1>1 DEF PlanTodos, PlanDistinct, Plan!IdOf
<1>3. Plan!ToSet(planTodos)
        = {<<i, planLast[i]>> : i \in {i \in Plan!Ids : planLast[i] # "no"}}
  <2>1. Plan!ToSet(planTodos) = Lines(planTodos)
    BY DEF Plan!ToSet, Lines
  <2>2. Lines(planTodos) \subseteq PlanEntries
    <3>1. \A i \in DOMAIN planTodos : planTodos[i] \in PlanEntries
      <4>1. planTodos \in Seq(PlanEntries)
        BY <1>1 DEF PlanTodos
      <4> QED  BY <4>1
    <3> QED  BY <3>1 DEF Lines
  <2>3. ASSUME NEW t \in Lines(planTodos)
        PROVE  t \in {<<i, planLast[i]>> : i \in {i \in Plan!Ids : planLast[i] # "no"}}
    <3>1. t \in PlanEntries /\ planLast[t[1]] = t[2]
      BY <1>1, <2>2 DEF PlanTodos
    <3>2. t[1] \in Plan!Ids /\ t[2] # "no" /\ t = <<t[1], t[2]>>
      BY <3>1 DEF PlanEntries, Plan!Statuses
    <3> QED  BY <3>1, <3>2
  <2>4. ASSUME NEW i \in Plan!Ids, planLast[i] # "no" PROVE <<i, planLast[i]>> \in Lines(planTodos)
    <3>1. <<i, planLast[i]>> \in PlanEntries
      BY <1>1, <2>4 DEF PlanTodos, PlanEntries
    <3> QED  BY <1>1, <3>1 DEF PlanTodos
  <2> QED  BY <2>1, <2>3, <2>4
<1>4. {planAgentMode, planCurrentID} \subseteq Plan!Modes
  BY <1>1 DEF PlanTyped
<1>5. planHandled = 0 <=> planCard = "none"
  BY <1>1 DEF PlanRead
<1>6. planWrites \in 0..PlanMaxWrites
  BY <1>1 DEF PlanTodos
<1> QED  BY <1>1, <1>2, <1>3, <1>4, <1>5, <1>6 DEF Plan!TypeOK, PlanTyped

LEMMA PlanBegins ==
    ASSUME Plan!PlanAssumption, Plan!Init
    PROVE  PlanInv
<1>0. PlanMaxPlans \in Nat /\ PlanMaxSwitches \in Nat /\ PlanMaxWrites \in Nat
  BY DEF Plan!PlanAssumption
<1>1. Lines(<<>>) = {} /\ \A L : Once(<<>>, L)
  BY DEF Lines, Once
<1>2. PlanTyped
  <2>1. planStdout \in Seq(Plan!Lines) /\ planSwitches \in 0..PlanMaxSwitches
    BY <1>0, EmptySequence DEF Plan!Init
  <2>2. planAsks \subseteq Plan!Plans /\ planGone \in BOOLEAN
    BY DEF Plan!Init
  <2> QED  BY <2>1, <2>2 DEF Plan!Init, PlanTyped, Plan!Modes, Plan!NoMode
<1>3. PlanRead
  BY <1>1 DEF Plan!Init, PlanRead
<1>4. PlanKnown
  BY <1>0, <1>1 DEF Plan!Init, PlanKnown, PlanOf, Plan!Plans
<1>5. PlanTodos
  <2>1. PlanDistinct(<<>>)
    BY DEF PlanDistinct
  <2>2. \A t \in PlanEntries : t[1] \in Plan!Ids /\ t[2] # "no"
    BY DEF PlanEntries, Plan!Statuses
  <2> QED  BY <1>0, <1>1, <2>1, <2>2, EmptySequence DEF Plan!Init, PlanTodos
<1> QED  BY <1>2, <1>3, <1>4, <1>5 DEF PlanInv

LEMMA PlanRests == ASSUME PlanInv, UNCHANGED planVars PROVE PlanInv'
BY DEF PlanInv, planVars, PlanTyped, PlanRead, PlanKnown, PlanOf, PlanTodos

LEMMA PlanLines ==
    /\ \A k \in Plan!Plans : /\ Plan!Answer(k) \in Plan!Lines /\ Plan!CreatePlan(k) \in Plan!Lines
                             /\ Plan!CreatePlan(k) \in PlanRequests
                             /\ Plan!Answer(k) \notin PlanRequests
    /\ \A m \in Plan!Modes : Plan!ModeUpdate(m) \in Plan!Lines /\ Plan!ModeUpdate(m) \notin PlanRequests
    /\ \A j, k \in Plan!Plans : /\ Plan!Answer(j) # Plan!CreatePlan(k)
                                /\ Plan!Answer(j) = Plan!Answer(k) => j = k
                                /\ Plan!CreatePlan(j) = Plan!CreatePlan(k) => j = k
    /\ \A m \in Plan!Modes, k \in Plan!Plans :
           Plan!ModeUpdate(m) # Plan!CreatePlan(k) /\ Plan!ModeUpdate(m) # Plan!Answer(k)
BY DEF Plan!Answer, Plan!CreatePlan, Plan!ModeUpdate, Plan!Lines, PlanRequests

\* The agent writes a line.
LEMMA PlanWritten ==
    ASSUME PlanTyped, PlanRead, NEW x \in Plan!Lines,
           x \in PlanRequests => x \notin Lines(planStdout),
           planStdout' = Append(planStdout, x)
    PROVE  /\ planStdout' \in Seq(Plan!Lines) /\ Once(planStdout', PlanRequests)
           /\ Lines(planStdout') = Lines(planStdout) \cup {x}
<1>1. planStdout \in Seq(Plan!Lines) /\ Once(planStdout, PlanRequests)
  BY DEF PlanTyped, PlanRead
<1> QED  BY <1>1, LineWritten

\* The program reads one.
LEMMA PlanReads ==
    ASSUME PlanTyped, PlanRead, NEW x, Plan!Read(x)
    PROVE  /\ planStdout' \in Seq(Plan!Lines) /\ Once(planStdout', PlanRequests)
           /\ Lines(planStdout') \subseteq Lines(planStdout) /\ x \in Lines(planStdout)
           /\ x \in PlanRequests => x \notin Lines(planStdout')
           /\ planHandled = 0 /\ planCard = "none"
<1>1. planStdout \in Seq(Plan!Lines) /\ Once(planStdout, PlanRequests)
  BY DEF PlanTyped, PlanRead
<1>2. planStdout # <<>> /\ Head(planStdout) = x /\ planStdout' = Tail(planStdout)
      /\ planHandled = 0
  BY DEF Plan!Read
<1>3. planCard = "none"
  BY <1>2 DEF PlanRead
<1> QED  BY <1>1, <1>2, <1>3, LineRead

\* An entry that is found is the one of its id.
LEMMA PlanFound ==
    ASSUME NEW list \in Seq(PlanEntries), PlanDistinct(list)
    PROVE  /\ \A id \in Plan!Named(list) :
                  Plan!At(list, id) \in DOMAIN list /\ Plan!IdOf(list[Plan!At(list, id)]) = id
           /\ \A t \in PlanEntries : Plan!IdOf(t) \in Plan!Named(list) =>
                  (t \in Lines(list) <=> t = list[Plan!At(list, Plan!IdOf(t))])
           /\ \A t \in Lines(list) : t \in PlanEntries /\ Plan!IdOf(t) \in Plan!Named(list)
           /\ \A i \in DOMAIN list : list[i] \in PlanEntries /\ Plan!IdOf(list[i]) \in Plan!Named(list)
<1>1. Plan!Named(list) = {Plan!IdOf(list[i]) : i \in DOMAIN list}
  BY DEF Plan!Named, Plan!ToSet
<1>2. \A id \in Plan!Named(list) :
          Plan!At(list, id) \in DOMAIN list /\ Plan!IdOf(list[Plan!At(list, id)]) = id
  <2> SUFFICES ASSUME NEW id \in Plan!Named(list)
               PROVE  Plan!At(list, id) \in DOMAIN list /\ Plan!IdOf(list[Plan!At(list, id)]) = id
    OBVIOUS
  <2>1. \E i \in DOMAIN list : Plan!IdOf(list[i]) = id
    BY <1>1
  <2> QED  BY <2>1 DEF Plan!At
<1>3. \A i \in DOMAIN list : list[i] \in PlanEntries
  OBVIOUS
<1>4. \A t \in PlanEntries : Plan!IdOf(t) \in Plan!Named(list) =>
          (t \in Lines(list) <=> t = list[Plan!At(list, Plan!IdOf(t))])
  <2> SUFFICES ASSUME NEW t \in PlanEntries, Plan!IdOf(t) \in Plan!Named(list)
               PROVE  t \in Lines(list) <=> t = list[Plan!At(list, Plan!IdOf(t))]
    OBVIOUS
  <2> QED  BY <1>2 DEF Lines, PlanDistinct
<1>5. \A t \in Lines(list) : t \in PlanEntries /\ Plan!IdOf(t) \in Plan!Named(list)
  BY <1>1, <1>3 DEF Lines
<1>6. \A i \in DOMAIN list : Plan!IdOf(list[i]) \in Plan!Named(list)
  BY <1>1
<1> QED  BY <1>2, <1>3, <1>4, <1>5, <1>6

LEMMA PlanLists ==
    ASSUME NEW list \in Plan!TodoLists
    PROVE  list \in Seq(PlanEntries) /\ PlanDistinct(list) /\ Len(list) \in 0..2
<1> USE DEF Plan!Ids, Plan!Statuses, Plan!IdOf
<1>1. CASE list = <<>>
  BY <1>1, EmptySequence DEF PlanDistinct
<1>2. ASSUME NEW t \in PlanEntries, list = <<t>>
      PROVE  list \in Seq(PlanEntries) /\ PlanDistinct(list) /\ Len(list) \in 0..2
  BY <1>2 DEF PlanDistinct
<1>3. ASSUME NEW s \in Plan!Statuses, list = <<<<"t2", s>>, <<"t1", "completed">>>>
      PROVE  list \in Seq(PlanEntries) /\ PlanDistinct(list) /\ Len(list) \in 0..2
  <2>1. <<"t2", s>> \in PlanEntries /\ <<"t1", "completed">> \in PlanEntries
    BY <1>3 DEF PlanEntries
  <2>2. /\ Len(list) = 2 /\ DOMAIN list = {1, 2}
        /\ list[1] = <<"t2", s>> /\ list[2] = <<"t1", "completed">>
    BY <1>3
  <2>3. list \in Seq(PlanEntries)
    BY <1>3, <2>1
  <2>4. PlanDistinct(list)
    BY <2>2 DEF PlanDistinct
  <2> QED  BY <2>2, <2>3, <2>4
<1> QED  BY <1>1, <1>2, <1>3 DEF Plan!TodoLists, PlanEntries

LEMMA TwoJoined ==
    ASSUME NEW S, NEW seqs \in Seq(Seq(S)), Len(seqs) \in 0..2
    PROVE  \/ Len(seqs) = 0 /\ Plan!FlattenSeq(seqs) = <<>>
           \/ Len(seqs) = 1 /\ Plan!FlattenSeq(seqs) = seqs[1]
           \/ Len(seqs) = 2 /\ Plan!FlattenSeq(seqs) = seqs[1] \o seqs[2]
<1>1. CASE Len(seqs) = 0
  <2>1. Plan!FlattenSeq(seqs) = seqs
    BY <1>1 DEF Plan!FlattenSeq
  <2>2. seqs = <<>>
    BY <1>1
  <2> QED  BY <1>1, <2>1, <2>2
<1>2. CASE Len(seqs) # 0
  <2> DEFINE Is(f) ==
          f = [i \in 1..Len(seqs) |-> IF i = 1 THEN seqs[i] ELSE f[i - 1] \o seqs[i]]
      f == CHOOSE f : Is(f)
  <2>1. Is(f)
    BY JoiningExists
  <2>2. Plan!FlattenSeq(seqs) = f[Len(seqs)]
    BY <1>2 DEF Plan!FlattenSeq
  <2> HIDE DEF f
  <2>3. \A i \in 1..Len(seqs) : f[i] = IF i = 1 THEN seqs[i] ELSE f[i - 1] \o seqs[i]
    BY <2>1
  <2>4. CASE Len(seqs) = 1
    BY <2>2, <2>3, <2>4
  <2>5. CASE Len(seqs) = 2
    <3>1. f[1] = seqs[1]
      BY <2>3, <2>5
    <3>2. f[2] = f[1] \o seqs[2]
      <4>1. 2 \in 1..Len(seqs) /\ \A i \in 1..Len(seqs) : i = 2 => i # 1 /\ i - 1 = 1
        BY <2>5
      <4> HIDE DEF Is
      <4>2. \A i \in 1..Len(seqs) : i = 2 => f[i] = f[1] \o seqs[i]
        BY <2>3, <4>1
      <4> QED  BY <4>1, <4>2
    <3> QED  BY <2>2, <2>5, <3>1, <3>2
  <2>6. Len(seqs) = 1 \/ Len(seqs) = 2
    BY <1>2
  <2> HIDE DEF Is
  <2> QED  BY <2>4, <2>5, <2>6
<1> QED  BY <1>1, <1>2

\* Two lists, one behind the other, that share no id.
LEMMA PlanJoined ==
    ASSUME NEW s \in Seq(PlanEntries), NEW t \in Seq(PlanEntries), PlanDistinct(s), PlanDistinct(t),
           \A x \in Lines(s), y \in Lines(t) : Plan!IdOf(x) # Plan!IdOf(y)
    PROVE  /\ s \o t \in Seq(PlanEntries) /\ PlanDistinct(s \o t)
           /\ Lines(s \o t) = Lines(s) \cup Lines(t)
<1> DEFINE u == s \o t
<1>1. /\ u \in Seq(PlanEntries) /\ Len(s) \in Nat /\ Len(t) \in Nat /\ Len(u) = Len(s) + Len(t)
      /\ DOMAIN s = 1..Len(s) /\ DOMAIN t = 1..Len(t) /\ DOMAIN u = 1..Len(u)
  OBVIOUS
<1>2. /\ \A i \in 1..Len(s) : u[i] = s[i]
      /\ \A i \in 1..Len(t) : u[Len(s) + i] = t[i]
  OBVIOUS
<1> HIDE DEF u
<1>3. \A i \in DOMAIN u :
          \/ i \in DOMAIN s /\ u[i] = s[i]
          \/ i \notin DOMAIN s /\ i - Len(s) \in DOMAIN t /\ u[i] = t[i - Len(s)] /\ i \in Int
  <2> SUFFICES ASSUME NEW i \in DOMAIN u, i \notin DOMAIN s
               PROVE  i - Len(s) \in DOMAIN t /\ u[i] = t[i - Len(s)] /\ i \in Int
    BY <1>1, <1>2
  <2>1. i - Len(s) \in 1..Len(t) /\ Len(s) + (i - Len(s)) = i /\ i \in Int
    BY <1>1
  <2> QED  BY <1>1, <1>2, <2>1
<1>4. PlanDistinct(u)
  <2> SUFFICES ASSUME NEW i \in DOMAIN u, NEW j \in DOMAIN u, Plan!IdOf(u[i]) = Plan!IdOf(u[j])
               PROVE  i = j
    BY DEF PlanDistinct
  <2>1. CASE i \in DOMAIN s /\ j \in DOMAIN s
    BY <1>3, <2>1 DEF PlanDistinct
  <2>2. CASE i \in DOMAIN s /\ j \notin DOMAIN s
    BY <1>3, <2>2 DEF Lines
  <2>3. CASE i \notin DOMAIN s /\ j \in DOMAIN s
    BY <1>3, <2>3 DEF Lines
  <2>4. CASE i \notin DOMAIN s /\ j \notin DOMAIN s
    <3>1. i - Len(s) = j - Len(s) /\ i \in Int /\ j \in Int
      BY <1>3, <2>4 DEF PlanDistinct
    <3> QED  BY <1>1, <3>1
  <2> QED  BY <2>1, <2>2, <2>3, <2>4
<1>5. Lines(u) = Lines(s) \cup Lines(t)
  <2>1. Lines(u) \subseteq Lines(s) \cup Lines(t)
    BY <1>3 DEF Lines
  <2>2. Lines(s) \subseteq Lines(u)
    <3>1. \A i \in DOMAIN s : i \in DOMAIN u
      BY <1>1
    <3> QED  BY <1>1, <1>2, <3>1 DEF Lines
  <2>3. Lines(t) \subseteq Lines(u)
    <3>1. \A i \in DOMAIN t : Len(s) + i \in DOMAIN u
      BY <1>1
    <3> QED  BY <1>1, <1>2, <3>1 DEF Lines
  <2> QED  BY <2>1, <2>2, <2>3
<1> QED  BY <1>1, <1>4, <1>5 DEF u

\* The entries of a patch that the list does not know.
LEMMA PlanNewEntries ==
    ASSUME NEW known, NEW patch \in Plan!TodoLists, NEW rest,
           rest = Plan!FlattenSeq([i \in DOMAIN patch |->
                      IF Plan!IdOf(patch[i]) \in known THEN <<>> ELSE <<patch[i]>>])
    PROVE  /\ rest \in Seq(PlanEntries) /\ PlanDistinct(rest)
           /\ Lines(rest) = {t \in Lines(patch) : Plan!IdOf(t) \notin known}
<1> DEFINE part(i) == IF Plan!IdOf(patch[i]) \in known THEN <<>> ELSE <<patch[i]>>
    parts == [i \in DOMAIN patch |-> part(i)]
<1>1. /\ patch \in Seq(PlanEntries) /\ PlanDistinct(patch) /\ Len(patch) \in 0..2
      /\ DOMAIN patch = 1..Len(patch)
  BY PlanLists
<1>2. ASSUME NEW i \in DOMAIN patch
      PROVE  /\ part(i) \in Seq(PlanEntries) /\ PlanDistinct(part(i))
             /\ Lines(part(i)) = IF Plan!IdOf(patch[i]) \in known THEN {} ELSE {patch[i]}
  <2>1. patch[i] \in PlanEntries
    BY <1>1
  <2>2. Lines(<<>>) = {} /\ PlanDistinct(<<>>)
    BY DEF Lines, PlanDistinct
  <2>3. /\ <<patch[i]>> \in Seq(PlanEntries) /\ Lines(<<patch[i]>>) = {patch[i]}
        /\ PlanDistinct(<<patch[i]>>)
    BY <2>1 DEF Lines, PlanDistinct
  <2> QED  BY <2>2, <2>3, EmptySequence
<1> HIDE DEF part
<1>3. parts \in Seq(Seq(PlanEntries)) /\ Len(parts) = Len(patch)
      /\ \A i \in DOMAIN patch : parts[i] = part(i)
  <2>1. parts \in [1..Len(patch) -> Seq(PlanEntries)] /\ Len(patch) \in Nat
    BY <1>1, <1>2
  <2> HIDE DEF parts
  <2>2. parts \in Seq(Seq(PlanEntries)) /\ Len(parts) = Len(patch)
    BY <2>1
  <2>3. \A i \in DOMAIN patch : parts[i] = part(i)
    BY DEF parts
  <2> QED  BY <2>2, <2>3
<1>4. rest = Plan!FlattenSeq(parts)
  BY DEF part
<1> HIDE DEF parts
<1>a. \/ Len(patch) = 0 /\ rest = <<>> /\ DOMAIN patch = {}
      \/ Len(patch) = 1 /\ rest = part(1) /\ DOMAIN patch = {1}
      \/ Len(patch) = 2 /\ rest = part(1) \o part(2) /\ DOMAIN patch = {1, 2}
  <2>1. \/ Len(parts) = 0 /\ Plan!FlattenSeq(parts) = <<>>
        \/ Len(parts) = 1 /\ Plan!FlattenSeq(parts) = parts[1]
        \/ Len(parts) = 2 /\ Plan!FlattenSeq(parts) = parts[1] \o parts[2]
    BY <1>1, <1>3, TwoJoined
  <2>2. 1..0 = {} /\ 1..1 = {1} /\ 1..2 = {1, 2}
    OBVIOUS
  <2>3. DOMAIN patch = 1..Len(patch) /\ Len(parts) = Len(patch) /\ rest = Plan!FlattenSeq(parts)
    BY <1>1, <1>3, <1>4
  <2>4. CASE Len(parts) = 0 /\ Plan!FlattenSeq(parts) = <<>>
    BY <2>2, <2>3, <2>4, Zenon
  <2>5. CASE Len(parts) = 1 /\ Plan!FlattenSeq(parts) = parts[1]
    <3>1. Len(patch) = 1 /\ DOMAIN patch = {1} /\ rest = parts[1]
      BY <2>2, <2>3, <2>5, Zenon
    <3>2. parts[1] = part(1)
      BY <1>3, <3>1
    <3> QED  BY <3>1, <3>2, Zenon
  <2>6. CASE Len(parts) = 2 /\ Plan!FlattenSeq(parts) = parts[1] \o parts[2]
    <3>1. Len(patch) = 2 /\ DOMAIN patch = {1, 2} /\ rest = parts[1] \o parts[2]
      BY <2>2, <2>3, <2>6, Zenon
    <3>2. parts[1] = part(1) /\ parts[2] = part(2)
      BY <1>3, <3>1
    <3> QED  BY <3>1, <3>2, Zenon
  <2> QED  BY <2>1, <2>4, <2>5, <2>6
<1>5. CASE Len(patch) = 0
  <2>1. rest = <<>> /\ DOMAIN patch = {}
    BY <1>a, <1>5
  <2>2. Lines(<<>>) = {} /\ Lines(patch) = {} /\ PlanDistinct(<<>>)
    BY <2>1 DEF Lines, PlanDistinct
  <2> QED  BY <2>1, <2>2, EmptySequence
<1>6. CASE Len(patch) = 1
  <2>1. rest = part(1) /\ DOMAIN patch = {1}
    BY <1>a, <1>6
  <2>2. Lines(patch) = {patch[1]}
    BY <2>1 DEF Lines
  <2> QED  BY <1>2, <2>1, <2>2
<1>7. CASE Len(patch) = 2
  <2>1. rest = part(1) \o part(2) /\ DOMAIN patch = {1, 2}
    BY <1>a, <1>7
  <2>2. Lines(patch) = {patch[1], patch[2]} /\ Plan!IdOf(patch[1]) # Plan!IdOf(patch[2])
    <3>1. Lines(patch) = {patch[1], patch[2]}
      BY <2>1 DEF Lines
    <3>2. \A i, j \in {1, 2} : Plan!IdOf(patch[i]) = Plan!IdOf(patch[j]) => i = j
      BY <1>1, <2>1, Zenon DEF PlanDistinct
    <3>3. Plan!IdOf(patch[1]) # Plan!IdOf(patch[2])
      BY <3>2, 1 # 2, Zenon
    <3> QED  BY <3>1, <3>3
  <2>3. /\ part(1) \in Seq(PlanEntries) /\ part(2) \in Seq(PlanEntries)
        /\ PlanDistinct(part(1)) /\ PlanDistinct(part(2))
        /\ Lines(part(1)) = IF Plan!IdOf(patch[1]) \in known THEN {} ELSE {patch[1]}
        /\ Lines(part(2)) = IF Plan!IdOf(patch[2]) \in known THEN {} ELSE {patch[2]}
    BY <1>2, <2>1
  <2>4. /\ rest \in Seq(PlanEntries) /\ PlanDistinct(rest)
        /\ Lines(rest) = Lines(part(1)) \cup Lines(part(2))
    <3>1. \A x \in Lines(part(1)), y \in Lines(part(2)) : Plan!IdOf(x) # Plan!IdOf(y)
      BY <2>2, <2>3
    <3>2. /\ part(1) \o part(2) \in Seq(PlanEntries) /\ PlanDistinct(part(1) \o part(2))
          /\ Lines(part(1) \o part(2)) = Lines(part(1)) \cup Lines(part(2))
      BY <2>3, <3>1, PlanJoined
    <3> QED  BY <2>1, <3>2, Zenon
  <2>5. Lines(rest) = {t \in Lines(patch) : Plan!IdOf(t) \notin known}
    BY <2>2, <2>3, <2>4
  <2> QED  BY <2>4, <2>5
<1> QED  BY <1>1, <1>5, <1>6, <1>7

\* A list with a patch: each id once, with the entry of the patch if it has one.
LEMMA PlanMerged ==
    ASSUME NEW base \in Seq(PlanEntries), PlanDistinct(base), NEW patch \in Plan!TodoLists,
           NEW merged, merged = Plan!MergeTodos(base, patch)
    PROVE  /\ merged \in Seq(PlanEntries) /\ PlanDistinct(merged)
           /\ \A t \in PlanEntries :
                  t \in Lines(merged) <=>
                      IF Plan!IdOf(t) \in Plan!Named(patch) THEN t \in Lines(patch)
                      ELSE t \in Lines(base)
<1> DEFINE old == [i \in DOMAIN base |->
                      IF Plan!IdOf(base[i]) \in Plan!Named(patch)
                      THEN patch[Plan!At(patch, Plan!IdOf(base[i]))] ELSE base[i]]
    new == Plan!FlattenSeq([i \in DOMAIN patch |->
               IF Plan!IdOf(patch[i]) \in Plan!Named(base) THEN <<>> ELSE <<patch[i]>>])
<1>1. merged = old \o new
  BY DEF Plan!MergeTodos
<1>2. patch \in Seq(PlanEntries) /\ PlanDistinct(patch)
  BY PlanLists
<1>3. ASSUME NEW i \in DOMAIN base
      PROVE  /\ old[i] \in PlanEntries /\ Plan!IdOf(old[i]) = Plan!IdOf(base[i])
             /\ old[i] = IF Plan!IdOf(base[i]) \in Plan!Named(patch)
                         THEN patch[Plan!At(patch, Plan!IdOf(base[i]))] ELSE base[i]
  <2>1. base[i] \in PlanEntries
    OBVIOUS
  <2>2. old[i] = IF Plan!IdOf(base[i]) \in Plan!Named(patch)
                 THEN patch[Plan!At(patch, Plan!IdOf(base[i]))] ELSE base[i]
    OBVIOUS
  <2> HIDE DEF old
  <2> QED  BY <1>2, <2>1, <2>2, PlanFound
<1>4. DOMAIN old = DOMAIN base /\ old \in Seq(PlanEntries)
  <2>1. Len(base) \in Nat /\ DOMAIN base = 1..Len(base)
    OBVIOUS
  <2>2. old \in [1..Len(base) -> PlanEntries] /\ DOMAIN old = DOMAIN base
    BY <1>3, <2>1
  <2> HIDE DEF old
  <2> QED  BY <2>1, <2>2
<1>5. /\ new \in Seq(PlanEntries) /\ PlanDistinct(new)
      /\ Lines(new) = {t \in Lines(patch) : Plan!IdOf(t) \notin Plan!Named(base)}
  BY PlanNewEntries
<1> HIDE DEF old, new
<1>6. PlanDistinct(old)
  BY <1>3, <1>4 DEF PlanDistinct
<1>7. \A x \in Lines(old) : Plan!IdOf(x) \in Plan!Named(base)
  <2>1. \A i \in DOMAIN base : Plan!IdOf(base[i]) \in Plan!Named(base)
    BY PlanFound
  <2> QED  BY <1>3, <1>4, <2>1 DEF Lines
<1>8. /\ merged \in Seq(PlanEntries) /\ PlanDistinct(merged)
      /\ Lines(merged) = Lines(old) \cup Lines(new)
  BY <1>1, <1>4, <1>5, <1>6, <1>7, PlanJoined
<1>9. ASSUME NEW t \in PlanEntries
      PROVE  t \in Lines(merged) <=>
                 IF Plan!IdOf(t) \in Plan!Named(patch) THEN t \in Lines(patch)
                 ELSE t \in Lines(base)
  <2>1. t \in Lines(old) <=> \E i \in DOMAIN base : old[i] = t
    BY <1>4 DEF Lines
  <2>2. CASE Plan!IdOf(t) \in Plan!Named(patch)
    <3>1. t \in Lines(patch) <=> t = patch[Plan!At(patch, Plan!IdOf(t))]
      BY <1>2, <2>2, PlanFound
    <3>2. t \in Lines(old) => t \in Lines(patch)
      BY <1>3, <2>1, <2>2, <3>1
    <3>3. ASSUME Plan!IdOf(t) \in Plan!Named(base), t \in Lines(patch) PROVE t \in Lines(old)
      <4>1. PICK i \in DOMAIN base : Plan!IdOf(base[i]) = Plan!IdOf(t)
        BY <3>3, PlanFound
      <4>2. old[i] = t
        BY <1>3, <2>2, <3>1, <3>3, <4>1
      <4> QED  BY <2>1, <4>2
    <3> QED  BY <1>5, <1>8, <2>2, <3>2, <3>3
  <2>3. CASE Plan!IdOf(t) \notin Plan!Named(patch)
    <3>1. t \notin Lines(patch)
      BY <1>2, <2>3, PlanFound
    <3>2. t \in Lines(old) <=> t \in Lines(base)
      BY <1>3, <2>1, <2>3 DEF Lines
    <3> QED  BY <1>5, <1>8, <2>3, <3>1, <3>2
  <2> QED  BY <2>2, <2>3
<1> QED  BY <1>8, <1>9

\* The list of the agent, taken as it is or as a patch of the one before.
LEMMA PlanListTaken ==
    ASSUME PlanTodos, NEW list \in Plan!TodoLists, NEW merge \in BOOLEAN,
           planTodos' = IF merge THEN Plan!MergeTodos(planTodos, list) ELSE list,
           planLast' = [i \in Plan!Ids |->
                           IF i \in Plan!Named(list) THEN list[Plan!At(list, i)][2]
                           ELSE IF merge THEN planLast[i] ELSE "no"],
           planWrites' \in 0..PlanMaxWrites
    PROVE  PlanTodos'
<1>0. PlanTodos
  OBVIOUS
<1>1. /\ planTodos' = IF merge THEN Plan!MergeTodos(planTodos, list) ELSE list
      /\ planLast' = [i \in Plan!Ids |->
                         IF i \in Plan!Named(list) THEN list[Plan!At(list, i)][2]
                         ELSE IF merge THEN planLast[i] ELSE "no"]
  OBVIOUS
<1>3. list \in Seq(PlanEntries) /\ PlanDistinct(list)
  BY PlanLists
<1>4. /\ planTodos' \in Seq(PlanEntries) /\ PlanDistinct(planTodos')
      /\ \A t \in PlanEntries :
             t \in Lines(planTodos') <=>
                 IF Plan!IdOf(t) \in Plan!Named(list) THEN t \in Lines(list)
                 ELSE merge /\ t \in Lines(planTodos)
  <2>1. CASE merge
    <3>1. planTodos \in Seq(PlanEntries) /\ PlanDistinct(planTodos)
      BY <1>0 DEF PlanTodos
    <3>2. planTodos' = Plan!MergeTodos(planTodos, list)
      BY <1>1, <2>1
    <3> QED  BY <2>1, <3>1, <3>2, PlanMerged
  <2>2. CASE ~merge
    <3>1. planTodos' = list
      BY <1>1, <2>2
    <3>2. \A t \in Lines(list) : Plan!IdOf(t) \in Plan!Named(list)
      BY <1>3, PlanFound
    <3> QED  BY <1>3, <2>2, <3>1, <3>2
  <2> QED  BY <2>1, <2>2
<1>5. \A id \in Plan!Named(list) :
          list[Plan!At(list, id)] \in PlanEntries /\ list[Plan!At(list, id)][1] = id
  <2>1. \A id \in Plan!Named(list) :
            Plan!At(list, id) \in DOMAIN list /\ Plan!IdOf(list[Plan!At(list, id)]) = id
    BY <1>3, PlanFound
  <2>2. \A i \in DOMAIN list : list[i] \in PlanEntries
    BY <1>3, PlanFound
  <2> QED  BY <2>1, <2>2 DEF Plan!IdOf
<1>6. planLast' \in [Plan!Ids -> Plan!Statuses \cup {"no"}]
  <2>1. \A id \in Plan!Ids : id \in Plan!Named(list) => list[Plan!At(list, id)][2] \in Plan!Statuses
    BY <1>5 DEF PlanEntries
  <2>2. planLast \in [Plan!Ids -> Plan!Statuses \cup {"no"}]
    BY <1>0 DEF PlanTodos
  <2> QED  BY <1>1, <2>1, <2>2
<1>7. ASSUME NEW t \in PlanEntries PROVE t \in Lines(planTodos') <=> planLast'[t[1]] = t[2]
  <2>1. t[1] \in Plan!Ids /\ t[2] \in Plan!Statuses /\ t = <<t[1], t[2]>> /\ t[2] # "no"
    BY DEF PlanEntries, Plan!Statuses
  <2>2. t \in Lines(planTodos) <=> planLast[t[1]] = t[2]
    BY <1>0 DEF PlanTodos
  <2>3. CASE t[1] \in Plan!Named(list)
    <3>1. planLast'[t[1]] = list[Plan!At(list, t[1])][2]
      BY <1>1, <2>1, <2>3
    <3>2. t \in Lines(list) <=> t = list[Plan!At(list, t[1])]
      BY <1>3, <2>3, PlanFound DEF Plan!IdOf
    <3>3. list[Plan!At(list, t[1])] = <<t[1], list[Plan!At(list, t[1])][2]>>
      BY <1>5, <2>3 DEF PlanEntries
    <3>4. t \in Lines(planTodos') <=> t \in Lines(list)
      BY <1>4, <2>3 DEF Plan!IdOf
    <3> QED  BY <2>1, <3>1, <3>2, <3>3, <3>4
  <2>4. CASE t[1] \notin Plan!Named(list)
    <3>1. planLast'[t[1]] = IF merge THEN planLast[t[1]] ELSE "no"
      BY <1>1, <2>1, <2>4
    <3>2. t \in Lines(planTodos') <=> (merge /\ t \in Lines(planTodos))
      BY <1>4, <2>4 DEF Plan!IdOf
    <3> QED  BY <2>1, <2>2, <3>1, <3>2
  <2> QED  BY <2>3, <2>4
<1> QED  BY <1>4, <1>6, <1>7 DEF PlanTodos

LEMMA PlanAgentWrites ==
    ASSUME Plan!PlanAssumption, PlanInv,
           \/ \E k \in Plan!Plans : Plan!AgentCreatesPlan(k) \/ Plan!AgentSetsMode(k)
           \/ \E m \in Plan!Modes : Plan!AgentSwitches(m)
           \/ Plan!AgentExits
    PROVE  PlanInv'
<1>0. PlanTyped /\ PlanRead /\ PlanKnown /\ PlanTodos /\ PlanMaxSwitches \in Nat
  BY DEF PlanInv, Plan!PlanAssumption
<1>t. ASSUME UNCHANGED <<planTodos, planLast, planWrites>> PROVE PlanTodos'
  BY <1>0, <1>t DEF PlanTodos
<1>1. ASSUME NEW k \in Plan!Plans, Plan!AgentCreatesPlan(k) PROVE PlanInv'
  <2>1. /\ planPlan[k] = "no" /\ planPlan' = [planPlan EXCEPT ![k] = "sent"]
        /\ planStdout' = Append(planStdout, Plan!CreatePlan(k))
        /\ UNCHANGED <<planAsks, planGone, planHandled, planCard, planFromMode, planSetter, planWant, planAgentMode,
                       planCurrentID, planSwitches, planTodos, planLast, planWrites>>
    BY <1>1 DEF Plan!AgentCreatesPlan, Plan!todoVars
  <2>2. /\ Plan!CreatePlan(k) \notin Lines(planStdout) /\ planSetter[k] = "no"
        /\ planHandled # k
    BY <1>0, <2>1 DEF PlanKnown, PlanOf
  <2>3. /\ planStdout' \in Seq(Plan!Lines) /\ Once(planStdout', PlanRequests)
        /\ Lines(planStdout') = Lines(planStdout) \cup {Plan!CreatePlan(k)}
    BY <1>0, <2>1, <2>2, PlanLines, PlanWritten
  <2>4. PlanTyped'
    BY <1>0, <2>1, <2>3 DEF PlanTyped
  <2>5. PlanRead'
    <3>1. planHandled # 0 => Plan!CreatePlan(planHandled) # Plan!CreatePlan(k)
      BY <1>0, <2>2, PlanLines DEF PlanTyped
    <3> QED  BY <1>0, <2>1, <2>3, <3>1 DEF PlanRead
  <2>6. PlanKnown'
    <3> SUFFICES ASSUME NEW j \in Plan!Plans PROVE PlanOf(j)'
      BY DEF PlanKnown
    <3>1. PlanOf(j) /\ PlanOf(k)
      BY <1>0 DEF PlanKnown
    <3>2. Plan!Answer(j) # Plan!CreatePlan(k) /\ (Plan!CreatePlan(j) = Plan!CreatePlan(k) => j = k)
      BY PlanLines
    <3>3. planPlan'[j] = IF j = k THEN "sent" ELSE planPlan[j]
      BY <1>0, <2>1 DEF PlanTyped
    <3> QED  BY <2>1, <2>2, <2>3, <3>1, <3>2, <3>3 DEF PlanOf
  <2> QED  BY <1>t, <2>1, <2>4, <2>5, <2>6 DEF PlanInv
<1>2. ASSUME NEW k \in Plan!Plans, Plan!AgentSetsMode(k) PROVE PlanInv'
  <2>1. /\ k \in planAsks /\ planAsks' = planAsks \ {k} /\ planAgentMode' = planWant[k]
        /\ planStdout' = Append(planStdout, Plan!Answer(k))
        /\ UNCHANGED <<planGone, planHandled, planCard, planFromMode, planPlan, planSetter, planWant,
                       planCurrentID, planSwitches, planTodos, planLast, planWrites>>
    BY <1>2 DEF Plan!AgentSetsMode, Plan!todoVars
  <2>2. planSetter[k] # "no" /\ planWant[k] \in Plan!Modes
    BY <1>0, <2>1 DEF PlanKnown, PlanOf
  <2>3. /\ planStdout' \in Seq(Plan!Lines) /\ Once(planStdout', PlanRequests)
        /\ Lines(planStdout') = Lines(planStdout) \cup {Plan!Answer(k)}
    BY <1>0, <2>1, PlanLines, PlanWritten
  <2>4. PlanTyped'
    BY <1>0, <2>1, <2>2, <2>3 DEF PlanTyped
  <2>5. PlanRead'
    <3>1. planHandled # 0 => Plan!CreatePlan(planHandled) # Plan!Answer(k)
      BY <1>0, PlanLines DEF PlanTyped
    <3> QED  BY <1>0, <2>1, <2>3, <3>1 DEF PlanRead
  <2>6. PlanKnown'
    <3> SUFFICES ASSUME NEW j \in Plan!Plans PROVE PlanOf(j)'
      BY DEF PlanKnown
    <3>1. PlanOf(j)
      BY <1>0 DEF PlanKnown
    <3>2. Plan!CreatePlan(j) # Plan!Answer(k) /\ (Plan!Answer(j) = Plan!Answer(k) => j = k)
      BY PlanLines
    <3> QED  BY <2>1, <2>2, <2>3, <3>1, <3>2 DEF PlanOf
  <2> QED  BY <1>t, <2>1, <2>4, <2>5, <2>6 DEF PlanInv
<1>3. ASSUME NEW m \in Plan!Modes, Plan!AgentSwitches(m) PROVE PlanInv'
  <2>1. /\ planSwitches < PlanMaxSwitches /\ planAgentMode' = m
        /\ planSwitches' = planSwitches + 1
        /\ planStdout' = Append(planStdout, Plan!ModeUpdate(m))
        /\ UNCHANGED <<planAsks, planGone, planHandled, planCard, planFromMode, planPlan, planSetter, planWant,
                       planCurrentID, planTodos, planLast, planWrites>>
    BY <1>3 DEF Plan!AgentSwitches, Plan!todoVars
  <2>3. /\ planStdout' \in Seq(Plan!Lines) /\ Once(planStdout', PlanRequests)
        /\ Lines(planStdout') = Lines(planStdout) \cup {Plan!ModeUpdate(m)}
    BY <1>0, <2>1, PlanLines, PlanWritten
  <2>4. PlanTyped'
    BY <1>0, <2>1, <2>3 DEF PlanTyped
  <2>5. PlanRead'
    <3>1. planHandled # 0 => Plan!CreatePlan(planHandled) # Plan!ModeUpdate(m)
      BY <1>0, PlanLines DEF PlanTyped
    <3> QED  BY <1>0, <2>1, <2>3, <3>1 DEF PlanRead
  <2>6. PlanKnown'
    <3> SUFFICES ASSUME NEW j \in Plan!Plans PROVE PlanOf(j)'
      BY DEF PlanKnown
    <3>1. PlanOf(j)
      BY <1>0 DEF PlanKnown
    <3>2. Plan!CreatePlan(j) # Plan!ModeUpdate(m) /\ Plan!Answer(j) # Plan!ModeUpdate(m)
      BY PlanLines
    <3> QED  BY <2>1, <2>3, <3>1, <3>2 DEF PlanOf
  <2> QED  BY <1>t, <2>1, <2>4, <2>5, <2>6 DEF PlanInv
<1>4. ASSUME Plan!AgentExits PROVE PlanInv'
  <2>1. /\ planGone' = TRUE
        /\ UNCHANGED <<planStdout, planHandled, planCard, planFromMode, planPlan, planSetter,
                       planWant, planAsks, planAgentMode, planCurrentID, planSwitches,
                       planTodos, planLast, planWrites>>
    BY <1>4 DEF Plan!AgentExits, Plan!todoVars
  <2> QED  BY <1>0, <1>t, <2>1 DEF PlanInv, PlanTyped, PlanRead, PlanKnown, PlanOf
<1> QED  BY <1>1, <1>2, <1>3, <1>4

LEMMA PlanProgramReads ==
    ASSUME PlanInv,
           \/ \E k \in Plan!Plans, list \in Plan!PlanLists : Plan!ReadPlan(k, list)
           \/ \E k \in Plan!Plans : Plan!ReadAnswer(k)
           \/ \E m \in Plan!Modes : Plan!ReadMode(m)
    PROVE  PlanInv'
<1>0. PlanTyped /\ PlanRead /\ PlanKnown /\ PlanTodos
  BY DEF PlanInv
<1>t. ASSUME UNCHANGED <<planTodos, planLast, planWrites>> PROVE PlanTodos'
  BY <1>0, <1>t DEF PlanTodos
<1>1. ASSUME NEW k \in Plan!Plans, NEW list \in Plan!PlanLists, Plan!ReadPlan(k, list)
      PROVE  PlanInv'
  <2>1. /\ Plan!Read(Plan!CreatePlan(k))
        /\ planHandled' = k /\ planCard' = "shown" /\ planFromMode' = planCurrentID
        /\ planTodos' = list
        /\ planLast' = [i \in Plan!Ids |->
                           IF i \in Plan!Named(list) THEN list[Plan!At(list, i)][2] ELSE "no"]
        /\ UNCHANGED <<planAsks, planGone, planPlan, planSetter, planWant, planAgentMode,
                       planCurrentID, planSwitches, planWrites>>
    BY <1>1 DEF Plan!ReadPlan
  <2>2. /\ planStdout' \in Seq(Plan!Lines) /\ Once(planStdout', PlanRequests)
        /\ Lines(planStdout') \subseteq Lines(planStdout)
        /\ Plan!CreatePlan(k) \in Lines(planStdout)
        /\ Plan!CreatePlan(k) \notin Lines(planStdout')
    BY <1>0, <2>1, PlanLines, PlanReads
  <2>3. k # 0 /\ planSetter[k] = "no" /\ planPlan[k] # "no"
    BY <1>0, <2>2 DEF PlanKnown, PlanOf, Plan!Plans
  <2>4. PlanTyped'
    BY <1>0, <2>1, <2>2 DEF PlanTyped
  <2>5. PlanRead'
    BY <2>1, <2>2, <2>3 DEF PlanRead
  <2>6. PlanKnown'
    <3> SUFFICES ASSUME NEW j \in Plan!Plans PROVE PlanOf(j)'
      BY DEF PlanKnown
    <3>1. PlanOf(j)
      BY <1>0 DEF PlanKnown
    <3> QED  BY <2>1, <2>2, <2>3, <3>1 DEF PlanOf
  <2>7. PlanTodos'
    <3>1. list \in Plan!TodoLists
      BY DEF Plan!PlanLists, Plan!TodoLists, Plan!Ids, Plan!Statuses
    <3>2. planWrites' \in 0..PlanMaxWrites
      BY <1>0, <2>1 DEF PlanTodos
    <3> QED  BY <1>0, <2>1, <3>1, <3>2, PlanListTaken
  <2> QED  BY <2>4, <2>5, <2>6, <2>7 DEF PlanInv
<1>2. ASSUME NEW k \in Plan!Plans, Plan!ReadAnswer(k) PROVE PlanInv'
  <2>1. /\ Plan!Read(Plan!Answer(k))
        /\ planSetter' = [planSetter EXCEPT ![k] = IF @ = "asked" THEN "answered" ELSE @]
        /\ UNCHANGED <<planAsks, planGone, planHandled, planCard, planFromMode, planPlan, planWant, planAgentMode,
                       planCurrentID, planSwitches, planTodos, planLast, planWrites>>
    BY <1>2 DEF Plan!ReadAnswer, Plan!todoVars
  <2>2. /\ planStdout' \in Seq(Plan!Lines) /\ Once(planStdout', PlanRequests)
        /\ Lines(planStdout') \subseteq Lines(planStdout) /\ Plan!Answer(k) \in Lines(planStdout)
        /\ planHandled = 0 /\ planCard = "none"
    BY <1>0, <2>1, PlanReads
  <2>3. planSetter[k] # "no"
    BY <1>0, <2>2 DEF PlanKnown, PlanOf
  <2>4. PlanTyped'
    BY <1>0, <2>1, <2>2 DEF PlanTyped
  <2>5. PlanRead'
    BY <2>1, <2>2 DEF PlanRead
  <2>6. PlanKnown'
    <3> SUFFICES ASSUME NEW j \in Plan!Plans PROVE PlanOf(j)'
      BY DEF PlanKnown
    <3>1. PlanOf(j)
      BY <1>0 DEF PlanKnown
    <3>2. planSetter'[j] = planSetter[j] \/ (j = k /\ planSetter'[j] = "answered")
      BY <1>0, <2>1 DEF PlanTyped
    <3> QED  BY <2>1, <2>2, <2>3, <3>1, <3>2 DEF PlanOf
  <2> QED  BY <1>t, <2>1, <2>4, <2>5, <2>6 DEF PlanInv
<1>3. ASSUME NEW m \in Plan!Modes, Plan!ReadMode(m) PROVE PlanInv'
  <2>1. /\ Plan!Read(Plan!ModeUpdate(m)) /\ planCurrentID' = m
        /\ UNCHANGED <<planAsks, planGone, planHandled, planCard, planFromMode, planPlan, planSetter, planWant,
                       planAgentMode, planSwitches, planTodos, planLast, planWrites>>
    BY <1>3 DEF Plan!ReadMode, Plan!todoVars
  <2>2. /\ planStdout' \in Seq(Plan!Lines) /\ Once(planStdout', PlanRequests)
        /\ Lines(planStdout') \subseteq Lines(planStdout)
        /\ planHandled = 0 /\ planCard = "none"
    BY <1>0, <2>1, PlanReads
  <2>4. PlanTyped'
    BY <1>0, <2>1, <2>2 DEF PlanTyped
  <2>5. PlanRead'
    BY <2>1, <2>2 DEF PlanRead
  <2>6. PlanKnown'
    BY <1>0, <2>1, <2>2 DEF PlanKnown, PlanOf
  <2> QED  BY <1>t, <2>1, <2>4, <2>5, <2>6 DEF PlanInv
<1> QED  BY <1>1, <1>2, <1>3

\* The decision of the user, and the reply to the agent.
LEMMA PlanDecided ==
    ASSUME PlanInv, \/ \E v \in {"approve", "decline"} : Plan!DecidePlan(v)
                    \/ Plan!AbandonPlan \/ Plan!Reply
    PROVE  PlanInv'
<1>0. PlanTyped /\ PlanRead /\ PlanKnown /\ PlanTodos
  BY DEF PlanInv
<1>t. ASSUME UNCHANGED <<planTodos, planLast, planWrites>> PROVE PlanTodos'
  BY <1>0, <1>t DEF PlanTodos
<1>1. ASSUME NEW v \in {"approve", "decline"}, Plan!DecidePlan(v) PROVE PlanInv'
  <2> DEFINE m == IF v = "approve" THEN "agent"
                  ELSE IF planFromMode # "plan" THEN "plan" ELSE Plan!NoMode
  <2>1. /\ planCard = "shown" /\ planCard' = v
        /\ planWant' = [planWant EXCEPT ![planHandled] = m]
        /\ planSetter' = [planSetter EXCEPT ![planHandled]
                            = IF m = Plan!NoMode THEN "no" ELSE "queued"]
        /\ UNCHANGED <<planAsks, planGone, planStdout, planHandled, planFromMode, planPlan, planAgentMode,
                       planCurrentID, planSwitches, planTodos, planLast, planWrites>>
    BY <1>1 DEF Plan!DecidePlan, Plan!todoVars
  <2>2. /\ m \in Plan!Modes \cup {Plan!NoMode} /\ (m # Plan!NoMode => m \in Plan!Modes)
        /\ v # "none" /\ v # "shown"
    BY <1>1 DEF Plan!Modes, Plan!NoMode
  <2> HIDE DEF m
  <2>3. /\ planHandled # 0 /\ planHandled \in Plan!Plans /\ planSetter[planHandled] = "no"
        /\ Plan!CreatePlan(planHandled) \notin Lines(planStdout)
    BY <1>0, <2>1 DEF PlanRead, PlanTyped
  <2>4. PlanTyped'
    BY <1>0, <2>1, <2>2 DEF PlanTyped
  <2>5. PlanRead'
    BY <1>0, <2>1, <2>2 DEF PlanRead
  <2>6. PlanKnown'
    <3> SUFFICES ASSUME NEW j \in Plan!Plans PROVE PlanOf(j)'
      BY DEF PlanKnown
    <3>1. PlanOf(j)
      BY <1>0 DEF PlanKnown
    <3>2. CASE j = planHandled
      <4>1. /\ planSetter'[j] = (IF m = Plan!NoMode THEN "no" ELSE "queued") /\ planWant'[j] = m
            /\ planPlan[j] # "no"
        BY <1>0, <2>1, <3>1, <3>2 DEF PlanTyped, PlanOf
      <4>2. Plan!Answer(j) \notin Lines(planStdout)
        BY <2>3, <3>1, <3>2 DEF PlanOf
      <4> QED  BY <2>1, <2>2, <2>3, <3>1, <3>2, <4>1, <4>2 DEF PlanOf
    <3>3. CASE j # planHandled
      <4>1. planSetter'[j] = planSetter[j] /\ planWant'[j] = planWant[j]
        BY <1>0, <2>1, <3>3 DEF PlanTyped
      <4> QED  BY <2>1, <3>1, <4>1 DEF PlanOf
    <3> QED  BY <3>2, <3>3
  <2> QED  BY <1>t, <2>1, <2>4, <2>5, <2>6 DEF PlanInv
<1>2. ASSUME Plan!Reply PROVE PlanInv'
  <2>1. /\ planCard \in {"approve", "decline", "gone"}
        /\ planPlan' = [planPlan EXCEPT ![planHandled] = Plan!Outcome]
        /\ planSetter' = [planSetter EXCEPT ![planHandled] = IF @ = "queued" THEN "started" ELSE @]
        /\ planHandled' = 0 /\ planCard' = "none"
        /\ UNCHANGED <<planAsks, planGone, planStdout, planFromMode, planWant, planAgentMode, planCurrentID,
                       planSwitches, planTodos, planLast, planWrites>>
    BY <1>2 DEF Plan!Reply, Plan!Decided, Plan!todoVars
  <2>2. Plan!Outcome \in {"accepted", "cancelled", "failed"}
    BY <2>1 DEF Plan!Outcome
  <2>3. planHandled \in Plan!Plans /\ Plan!CreatePlan(planHandled) \notin Lines(planStdout)
    BY <1>0, <2>1 DEF PlanRead, PlanTyped
  <2>4. PlanTyped'
    BY <1>0, <2>1, <2>2 DEF PlanTyped
  <2>5. PlanRead'
    BY <1>0, <2>1 DEF PlanRead
  <2>6. PlanKnown'
    <3> SUFFICES ASSUME NEW j \in Plan!Plans PROVE PlanOf(j)'
      BY DEF PlanKnown
    <3>1. PlanOf(j)
      BY <1>0 DEF PlanKnown
    <3>2. /\ planSetter'[j] \in {planSetter[j], "started"}
          /\ planSetter'[j] = "no" <=> planSetter[j] = "no"
          /\ planPlan'[j] = "no" => planPlan[j] = "no"
          /\ planPlan[j] = "no" => planPlan'[j] = "no"
      BY <1>0, <2>1, <2>2, <2>3, <3>1 DEF PlanTyped, PlanOf
    <3>3. j # 0
      BY DEF Plan!Plans
    <3> QED  BY <2>1, <3>1, <3>2, <3>3 DEF PlanOf
  <2> QED  BY <1>t, <2>1, <2>4, <2>5, <2>6 DEF PlanInv
<1>3. ASSUME Plan!AbandonPlan PROVE PlanInv'
  <2>1. /\ planCard = "shown" /\ planCard' = "gone"
        /\ UNCHANGED <<planStdout, planHandled, planFromMode, planPlan, planSetter, planWant,
                       planAsks, planGone, planAgentMode, planCurrentID, planSwitches,
                       planTodos, planLast, planWrites>>
    BY <1>3 DEF Plan!AbandonPlan, Plan!todoVars
  <2>2. PlanTyped' /\ PlanRead'
    BY <1>0, <2>1 DEF PlanTyped, PlanRead
  <2>3. PlanKnown'
    BY <1>0, <2>1 DEF PlanKnown, PlanOf
  <2> QED  BY <1>t, <2>1, <2>2, <2>3 DEF PlanInv
<1> QED  BY <1>1, <1>2, <1>3

\* A request for a mode goes out, and its answer is processed, or it fails.
LEMMA PlanModeSet ==
    ASSUME PlanInv,
           \E k \in Plan!Plans : Plan!AskMode(k) \/ Plan!WriteMode(k) \/ Plan!ModeFails(k)
    PROVE  PlanInv'
<1>0. PlanTyped /\ PlanRead /\ PlanKnown /\ PlanTodos
  BY DEF PlanInv
<1>1. PICK k \in Plan!Plans : Plan!AskMode(k) \/ Plan!WriteMode(k) \/ Plan!ModeFails(k)
  OBVIOUS
<1>2. /\ planSetter[k] # "no"
      /\ \E s \in {"asked", "done", "failed"} : planSetter' = [planSetter EXCEPT ![k] = s]
      /\ planCurrentID' \in {planCurrentID, planWant[k]}
      /\ planAsks' \in {planAsks, planAsks \cup {k}}
      /\ UNCHANGED <<planGone, planStdout, planHandled, planCard, planFromMode, planPlan,
                     planWant, planAgentMode, planSwitches, planTodos, planLast, planWrites>>
  <2>1. CASE Plan!AskMode(k)
    BY <2>1 DEF Plan!AskMode, Plan!todoVars
  <2>2. CASE Plan!WriteMode(k)
    BY <2>2 DEF Plan!WriteMode, Plan!todoVars
  <2>3. CASE Plan!ModeFails(k)
    BY <2>3 DEF Plan!ModeFails, Plan!todoVars
  <2> QED  BY <1>1, <2>1, <2>2, <2>3
<1>3. planWant[k] \in Plan!Modes
  BY <1>0, <1>2 DEF PlanKnown, PlanOf
<1>4. PICK s \in {"asked", "done", "failed"} : planSetter' = [planSetter EXCEPT ![k] = s]
  BY <1>2
<1>5. PlanTyped'
  BY <1>0, <1>2, <1>3, <1>4 DEF PlanTyped
<1>6. \A j \in Plan!Plans : planSetter'[j] = IF j = k THEN s ELSE planSetter[j]
  BY <1>0, <1>4 DEF PlanTyped
<1>7. PlanRead'
  <2>1. planCard = "shown" => planHandled \in Plan!Plans
    BY <1>0 DEF PlanRead, PlanTyped
  <2> QED  BY <1>0, <1>2, <1>6, <2>1 DEF PlanRead
<1>8. PlanKnown'
  <2> SUFFICES ASSUME NEW j \in Plan!Plans PROVE PlanOf(j)'
    BY DEF PlanKnown
  <2>1. PlanOf(j)
    BY <1>0 DEF PlanKnown
  <2> QED  BY <1>2, <1>3, <1>6, <2>1 DEF PlanOf
<1>9. PlanTodos'
  BY <1>0, <1>2 DEF PlanTodos
<1> QED  BY <1>5, <1>7, <1>8, <1>9 DEF PlanInv

LEMMA PlanTodosWritten ==
    ASSUME Plan!PlanAssumption, PlanInv, NEW list \in Plan!TodoLists, NEW merge \in BOOLEAN,
           Plan!UpdateTodos(list, merge)
    PROVE  PlanInv'
<1>0. /\ PlanTyped /\ PlanRead /\ PlanKnown /\ PlanTodos /\ PlanMaxWrites \in Nat
  BY DEF PlanInv, Plan!PlanAssumption
<1>1. /\ planWrites < PlanMaxWrites /\ planWrites' = planWrites + 1
      /\ planTodos' = IF merge THEN Plan!MergeTodos(planTodos, list) ELSE list
      /\ planLast' = [i \in Plan!Ids |->
                         IF i \in Plan!Named(list) THEN list[Plan!At(list, i)][2]
                         ELSE IF merge THEN planLast[i] ELSE "no"]
      /\ UNCHANGED <<planStdout, planHandled, planCard, planFromMode, planPlan, planSetter,
                     planWant, planAsks, planGone, planAgentMode, planCurrentID, planSwitches>>
  BY DEF Plan!UpdateTodos
<1>2. PlanTyped' /\ PlanRead' /\ PlanKnown'
  BY <1>0, <1>1 DEF PlanTyped, PlanRead, PlanKnown, PlanOf
<1>3. planWrites' \in 0..PlanMaxWrites
  BY <1>0, <1>1 DEF PlanTodos
<1>4. PlanTodos'
  BY <1>0, <1>1, <1>3, PlanListTaken
<1> QED  BY <1>2, <1>4 DEF PlanInv

LEMMA PlanStep ==
    ASSUME Plan!PlanAssumption, PlanInv, Plan!Next
    PROVE  PlanInv'
BY PlanAgentWrites, PlanProgramReads, PlanDecided, PlanModeSet, PlanTodosWritten DEF Plan!Next

------------------------------------------------------------------------------
(* A plan without a reply is on its way to be read or is being handled.         *)

PlanHeld ==
    \A k \in Plan!Plans :
        /\ planPlan[k] = "sent"
             <=> planHandled = k \/ Plan!CreatePlan(k) \in Lines(planStdout)
        /\ planSetter[k] = "queued" => planHandled = k /\ planCard \in {"approve", "decline"}

LEMMA PlanHeldIs == ASSUME PlanInv, PlanHeld PROVE Plan!PlansAreInHand
<1>1. DOMAIN planStdout = 1..Len(planStdout)
  BY DEF PlanInv, PlanTyped
<1> QED  BY <1>1 DEF PlanHeld, Plan!PlansAreInHand, Plan!Contains, Lines

LEMMA HandBegins == ASSUME Plan!Init PROVE PlanHeld
<1>1. Lines(<<>>) = {}
  BY DEF Lines
<1> QED  BY <1>1 DEF Plan!Init, PlanHeld, Plan!Plans

LEMMA HandRests == ASSUME PlanHeld, UNCHANGED planVars PROVE PlanHeld'
BY DEF PlanHeld, planVars

\* What is left when the first line was read.
LEMMA LineLeft ==
    ASSUME NEW S, NEW s \in Seq(S), s # <<>>
    PROVE  Lines(s) \subseteq Lines(Tail(s)) \cup {Head(s)}
<1>1. /\ Tail(s) \in Seq(S) /\ Len(s) \in Nat \ {0} /\ DOMAIN s = 1..Len(s)
      /\ DOMAIN Tail(s) = 1..(Len(s) - 1) /\ Head(s) = s[1]
      /\ \A i \in DOMAIN Tail(s) : Tail(s)[i] = s[i + 1]
  OBVIOUS
<1>2. ASSUME NEW i \in DOMAIN s, i # 1 PROVE s[i] \in Lines(Tail(s))
  <2>1. i - 1 \in DOMAIN Tail(s) /\ (i - 1) + 1 = i
    BY <1>1, <1>2
  <2> QED  BY <1>1, <2>1 DEF Lines
<1> QED  BY <1>1, <1>2 DEF Lines

LEMMA HandStep ==
    ASSUME Plan!PlanAssumption, PlanInv, PlanHeld, Plan!Next
    PROVE  PlanHeld'
<1> USE DEF Plan!todoVars
<1>0. /\ PlanTyped /\ PlanRead
      /\ planPlan \in [Plan!Plans -> {"no", "sent", "accepted", "cancelled", "failed"}]
      /\ planSetter \in [Plan!Plans ->
             {"no", "queued", "started", "asked", "answered", "done", "failed"}]
      /\ planHandled \in {0} \cup Plan!Plans /\ 0 \notin Plan!Plans
      /\ (planHandled = 0 <=> planCard = "none")
      /\ planHandled # 0 => Plan!CreatePlan(planHandled) \notin Lines(planStdout)
  BY DEF PlanInv, PlanTyped, PlanRead, Plan!Plans
<1>1. ASSUME UNCHANGED <<planStdout, planHandled, planCard, planPlan>>,
             NEW k \in Plan!Plans, NEW at, at # "queued",
             planSetter' = [planSetter EXCEPT ![k] = at] \/ planSetter' = planSetter
      PROVE  PlanHeld'
  <2>1. \A j \in Plan!Plans : planSetter'[j] = "queued" => planSetter[j] = "queued"
    BY <1>0, <1>1
  <2> QED  BY <1>1, <2>1 DEF PlanHeld
<1>2. ASSUME NEW k \in Plan!Plans, Plan!AgentCreatesPlan(k) PROVE PlanHeld'
  <2>1. Plan!CreatePlan(k) \notin Lines(planStdout)
    BY <1>2 DEF PlanInv, PlanKnown, PlanOf, Plan!AgentCreatesPlan
  <2>2. Lines(planStdout') = Lines(planStdout) \cup {Plan!CreatePlan(k)}
    BY <1>0, <1>2, <2>1, PlanLines, PlanWritten DEF Plan!AgentCreatesPlan
  <2>3. ASSUME NEW j \in Plan!Plans, j # k
        PROVE  /\ planPlan'[j] = planPlan[j]
               /\ Plan!CreatePlan(j) \in Lines(planStdout')
                    <=> Plan!CreatePlan(j) \in Lines(planStdout)
    BY <1>0, <1>2, <2>2, <2>3, PlanLines DEF Plan!AgentCreatesPlan
  <2>4. planPlan'[k] = "sent" /\ UNCHANGED <<planHandled, planCard, planSetter>>
    BY <1>0, <1>2 DEF Plan!AgentCreatesPlan
  <2> QED  BY <2>2, <2>3, <2>4 DEF PlanHeld
<1>3. ASSUME NEW x \in Plan!Lines, x \notin PlanRequests,
             planStdout' = Append(planStdout, x),
             UNCHANGED <<planHandled, planCard, planPlan, planSetter>>
      PROVE  PlanHeld'
  <2>1. Lines(planStdout') = Lines(planStdout) \cup {x}
    BY <1>0, <1>3, PlanWritten
  <2>2. \A k \in Plan!Plans : Plan!CreatePlan(k) # x
    BY <1>3, PlanLines
  <2> QED  BY <1>3, <2>1, <2>2 DEF PlanHeld
<1>4. ASSUME NEW k \in Plan!Plans, Plan!AgentSetsMode(k) PROVE PlanHeld'
  BY <1>3, <1>4, PlanLines DEF Plan!AgentSetsMode
<1>5. ASSUME NEW m \in Plan!Modes, Plan!AgentSwitches(m) PROVE PlanHeld'
  BY <1>3, <1>5, PlanLines DEF Plan!AgentSwitches
<1>6. ASSUME NEW x, Plan!Read(x)
      PROVE  /\ Lines(planStdout') \subseteq Lines(planStdout) /\ x \in Lines(planStdout)
             /\ Lines(planStdout) \subseteq Lines(planStdout') \cup {x}
             /\ x \in PlanRequests => x \notin Lines(planStdout')
             /\ planHandled = 0 /\ planCard = "none"
  <2>1. planStdout \in Seq(Plan!Lines) /\ planStdout # <<>>
        /\ planStdout' = Tail(planStdout) /\ x = Head(planStdout)
    BY <1>0, <1>6 DEF PlanTyped, Plan!Read
  <2> QED  BY <1>0, <1>6, <2>1, LineLeft, PlanReads
<1>7. ASSUME NEW k \in Plan!Plans, NEW list, Plan!ReadPlan(k, list) PROVE PlanHeld'
  <2>1. Plan!Read(Plan!CreatePlan(k)) /\ planHandled' = k
        /\ UNCHANGED <<planPlan, planSetter>>
    BY <1>7 DEF Plan!ReadPlan
  <2>2. /\ Lines(planStdout') \subseteq Lines(planStdout)
        /\ Plan!CreatePlan(k) \in Lines(planStdout)
        /\ Lines(planStdout) \subseteq Lines(planStdout') \cup {Plan!CreatePlan(k)}
        /\ Plan!CreatePlan(k) \notin Lines(planStdout') /\ planHandled = 0
        /\ planCard = "none"
    BY <1>6, <2>1, PlanLines
  <2>3. ASSUME NEW j \in Plan!Plans, j # k
        PROVE  Plan!CreatePlan(j) \in Lines(planStdout')
                 <=> Plan!CreatePlan(j) \in Lines(planStdout)
    BY <2>2, <2>3, PlanLines
  <2>4. \A j \in Plan!Plans : planSetter[j] # "queued" /\ planHandled # j
    BY <1>0, <2>2 DEF PlanHeld
  <2> QED  BY <2>1, <2>2, <2>3, <2>4 DEF PlanHeld
<1>8. ASSUME NEW x, x \notin PlanRequests, Plan!Read(x),
             UNCHANGED <<planHandled, planCard, planPlan>>,
             \A j \in Plan!Plans : planSetter'[j] = "queued" => planSetter[j] = "queued"
      PROVE  PlanHeld'
  <2>1. \A k \in Plan!Plans : Plan!CreatePlan(k) # x
    BY <1>8, PlanLines
  <2>2. /\ Lines(planStdout') \subseteq Lines(planStdout)
        /\ Lines(planStdout) \subseteq Lines(planStdout') \cup {x}
    BY <1>6, <1>8
  <2> QED  BY <1>8, <2>1, <2>2 DEF PlanHeld
<1>9. ASSUME NEW k \in Plan!Plans, Plan!ReadAnswer(k) PROVE PlanHeld'
  <2>1. /\ Plan!Read(Plan!Answer(k))
        /\ planSetter' = [planSetter EXCEPT ![k] = IF @ = "asked" THEN "answered" ELSE @]
        /\ UNCHANGED <<planHandled, planCard, planPlan>>
    BY <1>9 DEF Plan!ReadAnswer
  <2>2. \A j \in Plan!Plans : planSetter'[j] = "queued" => planSetter[j] = "queued"
    BY <1>0, <2>1
  <2> QED  BY <1>8, <2>1, <2>2, PlanLines
<1>10. ASSUME NEW m \in Plan!Modes, Plan!ReadMode(m) PROVE PlanHeld'
  <2>1. Plan!Read(Plan!ModeUpdate(m)) /\ UNCHANGED <<planHandled, planCard, planPlan, planSetter>>
    BY <1>10 DEF Plan!ReadMode
  <2> QED  BY <1>8, <2>1, PlanLines
<1>11. ASSUME NEW k \in Plan!Plans,
              Plan!AskMode(k) \/ Plan!WriteMode(k) \/ Plan!ModeFails(k)
       PROVE  PlanHeld'
  BY <1>1, <1>11 DEF Plan!AskMode, Plan!WriteMode, Plan!ModeFails
<1>12. ASSUME NEW v \in {"approve", "decline"}, Plan!DecidePlan(v) PROVE PlanHeld'
  <2>1. /\ planCard = "shown" /\ planCard' = v /\ UNCHANGED <<planStdout, planHandled, planPlan>>
        /\ \E s : planSetter' = [planSetter EXCEPT ![planHandled] = s]
    BY <1>12 DEF Plan!DecidePlan
  <2>2. planHandled \in Plan!Plans /\ \A j \in Plan!Plans : planSetter[j] # "queued"
    BY <1>0, <2>1 DEF PlanHeld
  <2>3. \A j \in Plan!Plans : planSetter'[j] = "queued" => j = planHandled
    BY <1>0, <2>1, <2>2
  <2> QED  BY <2>1, <2>3 DEF PlanHeld
<1>13. CASE Plan!Reply
  <2>1. /\ planCard # "none" /\ planHandled' = 0 /\ planCard' = "none"
        /\ planPlan' = [planPlan EXCEPT ![planHandled] = Plan!Outcome]
        /\ planSetter' = [planSetter EXCEPT ![planHandled] =
                              IF @ = "queued" THEN "started" ELSE @]
        /\ UNCHANGED planStdout /\ Plan!Outcome # "sent"
    BY <1>13 DEF Plan!Reply, Plan!Decided, Plan!Outcome
  <2>2. planHandled \in Plan!Plans /\ Plan!CreatePlan(planHandled) \notin Lines(planStdout)
    BY <1>0, <2>1
  <2>3. planPlan'[planHandled] # "sent" /\ planSetter'[planHandled] # "queued"
    BY <1>0, <2>1, <2>2
  <2>4. \A j \in Plan!Plans : j # planHandled =>
            /\ planPlan'[j] = planPlan[j] /\ planSetter'[j] = planSetter[j]
            /\ planSetter[j] # "queued"
    BY <1>0, <2>1 DEF PlanHeld
  <2> QED  BY <1>0, <2>1, <2>2, <2>3, <2>4 DEF PlanHeld
<1>14. ASSUME NEW list, NEW merge, Plan!UpdateTodos(list, merge) PROVE PlanHeld'
  BY <1>14 DEF Plan!UpdateTodos, PlanHeld
<1>15. CASE Plan!AgentExits
  BY <1>15 DEF Plan!AgentExits, PlanHeld
<1>16. CASE Plan!AbandonPlan
  <2>1. \A j \in Plan!Plans : planSetter[j] # "queued"
    BY <1>16 DEF Plan!AbandonPlan, PlanHeld
  <2> QED  BY <1>16, <2>1 DEF Plan!AbandonPlan, PlanHeld
<1> QED
  BY <1>2, <1>4, <1>5, <1>7, <1>9, <1>10, <1>11, <1>12, <1>13, <1>14, <1>15, <1>16 DEF Plan!Next

------------------------------------------------------------------------------
(* Tools. A name is looked up, so the tables are judged name by name; whatever    *)
(* options come, one is taken only if it is of a kind, or has a name, that means  *)
(* the answer.                                                                    *)

ToolIds == {o.id : o \in ToolOffers} \cup {Tool!NoOption}

ToolTyped ==
    /\ toolCall \in ToolCalls \cup {Tool!NoCall}
    /\ toolOptions \in Tool!SeqOf(ToolOffers, ToolMaxOffers)
    /\ toolAnswer.allow \in ToolIds /\ toolAnswer.reject \in ToolIds

ToolInv == ToolTyped /\ Tool!RequestsAreUnderstood /\ (toolCall # Tool!NoCall => toolKind = Tool!Fixed(toolCall))

LEMMA ToolIsTyped == ASSUME ToolInv PROVE Tool!TypeOK
BY DEF ToolInv, ToolTyped, ToolIds, Tool!TypeOK

\* A change by any name is no query.
LEMMA ToolsJudged ==
    ASSUME NEW t \in ToolCalls, t.changes, t.reported \notin Tool!Light
    PROVE  Tool!Fixed(t) \notin Tool!Light
<1>0. \/ \E tool \in {"lsp", "job_output"} : t \in QueriesOf(tool)
      \/ t \in {Request("dsh", "lsp_rename", "other", {"query"}, TRUE),
                Request("dsh", "job_kill", "other", {"query"}, TRUE),
                Request("dsh", "read", "other", {"query"}, FALSE),
                Request("dsh", "Read", "other", {"query"}, FALSE),
                Request("dsh", "pwsh", "other", {"unknown"}, TRUE),
                Request("qoder", "rm", "execute", {"unknown"}, TRUE),
                Request("qodercli", "Read", "execute", {"query"}, FALSE),
                Request("qoder", "lsp", "other", {"query"}, FALSE),
                Request("claude-code", "Delete", "delete", {"query"}, TRUE),
                Request("claude", "Write", "", {"query"}, TRUE),
                Request("cursor", "lsp", "other", {"verb"}, TRUE)}
  BY DEF ToolCalls
<1> USE DEF Request, Tool!Fixed, Tool!KindFor, Tool!ClaudeKinds, Tool!DshKinds, Tool!QoderKinds,
            Tool!IsQuery, Tool!Queries, Tool!NamesChange, Tool!Light
<1>1. ASSUME NEW tool \in {"lsp", "job_output"}, t \in QueriesOf(tool)
      PROVE  Tool!Fixed(t) \notin Tool!Light
  <2>0. PICK fields \in SUBSET {"query", "verb", "unknown", "asksChange", "nested"} :
            t = Request("dsh", tool, "other", fields, fields # {} /\ fields # {"query"})
    BY <1>1 DEF QueriesOf
  <2>1. t.agent = "dsh" /\ t.tool = tool /\ t.reported = "other" /\ t.fields = fields
        /\ ~(fields \subseteq {"query"})
    BY <2>0
  <2>2. Tool!KindFor(t.agent, t.tool) = ""
    BY <2>1
  <2>3. Tool!Fixed(t) = "other"
    BY <2>1, <2>2
  <2> QED  BY <2>3
<1>2. CASE t = Request("dsh", "lsp_rename", "other", {"query"}, TRUE)
  BY <1>2
<1>3. CASE t = Request("dsh", "job_kill", "other", {"query"}, TRUE)
  BY <1>3
<1>4. CASE t = Request("dsh", "read", "other", {"query"}, FALSE)
  BY <1>4
<1>5. CASE t = Request("dsh", "Read", "other", {"query"}, FALSE)
  BY <1>5
<1>6. CASE t = Request("dsh", "pwsh", "other", {"unknown"}, TRUE)
  BY <1>6
<1>7. CASE t = Request("qoder", "rm", "execute", {"unknown"}, TRUE)
  BY <1>7
<1>8. CASE t = Request("qodercli", "Read", "execute", {"query"}, FALSE)
  BY <1>8
<1>9. CASE t = Request("qoder", "lsp", "other", {"query"}, FALSE)
  BY <1>9
<1>10. CASE t = Request("claude-code", "Delete", "delete", {"query"}, TRUE)
  BY <1>10
<1>11. CASE t = Request("claude", "Write", "", {"query"}, TRUE)
  BY <1>11
<1>12. CASE t = Request("cursor", "lsp", "other", {"verb"}, TRUE)
  BY <1>12
<1> HIDE DEF Request, Tool!Fixed, Tool!Light
<1> QED  BY <1>0, <1>1, <1>2, <1>3, <1>4, <1>5, <1>6, <1>7, <1>8, <1>9, <1>10, <1>11, <1>12

\* The first of the positions where a test holds.
LEMMA FirstIsOne ==
    ASSUME NEW n \in Nat, NEW S \in SUBSET (1..n), S # {}
    PROVE  Tool!Min(S) \in S
<1>1. \E x \in S : \A y \in S : x <= y
  <2> DEFINE T == {n + 1 - x : x \in S}
  <2>1. T \in SUBSET (1..n) /\ T # {}
    <3>1. \A x \in S : n + 1 - x \in 1..n
      OBVIOUS
    <3>2. PICK x \in S : TRUE
      OBVIOUS
    <3>3. n + 1 - x \in T
      OBVIOUS
    <3> QED  BY <3>1, <3>3
  <2>2. PICK m \in T : \A y \in T : m >= y
    <3> HIDE DEF T
    <3> QED  BY <2>1, LargestExists
  <2>3. PICK x \in S : m = n + 1 - x
    BY <2>2
  <2>4. \A y \in S : n + 1 - y \in T
    OBVIOUS
  <2>5. \A y \in S : x <= y
    BY <2>2, <2>3, <2>4
  <2> QED  BY <2>5
<1> QED  BY <1>1 DEF Tool!Min

LEMMA ToolOffersMean ==
    /\ \A o \in ToolOffers :
           /\ o.id # Tool!NoOption
           /\ o.kind \in {"allow_once", "allow_always"} \/ Tool!SoundsLikeAllow(o) => o.means = "allow"
           /\ o.kind \in {"reject_once", "reject_always"} \/ Tool!SoundsLikeReject(o) => o.means = "reject"
    /\ \A o, p \in ToolOffers : o.id = p.id => o = p
BY DEF ToolOffers, Offer, Tool!NoOption, Tool!SoundsLikeAllow, Tool!SoundsLikeReject

LEMMA ToolPicks ==
    ASSUME NEW list \in Tool!SeqOf(ToolOffers, ToolMaxOffers), ToolMaxOffers \in Nat
    PROVE  /\ Tool!PickAllow(list) # Tool!NoOption =>
                  \E j \in DOMAIN list : list[j].id = Tool!PickAllow(list) /\ list[j].means = "allow"
           /\ Tool!PickReject(list) # Tool!NoOption =>
                  \E j \in DOMAIN list : list[j].id = Tool!PickReject(list) /\ list[j].means = "reject"
           /\ (\E i \in DOMAIN list : list[i].kind = "allow_once") =>
                  \E j \in DOMAIN list : list[j].id = Tool!PickAllow(list) /\ list[j].kind = "allow_once"
<1> DEFINE of(k) == {i \in DOMAIN list : list[i].kind = k}
    yes == {i \in DOMAIN list : Tool!SoundsLikeAllow(list[i])}
    no == {i \in DOMAIN list : Tool!SoundsLikeReject(list[i])}
    at(S) == list[Tool!Min(S)]
<1>1. \E n \in Nat : DOMAIN list = 1..n /\ \A i \in 1..n : list[i] \in ToolOffers
  BY DEF Tool!SeqOf
<1>2. \A S \in SUBSET (DOMAIN list) : S # {} => Tool!Min(S) \in S
  BY <1>1, FirstIsOne
<1>3. \A k : of(k) # {} =>
          /\ Tool!Min(of(k)) \in DOMAIN list /\ at(of(k)).kind = k
          /\ at(of(k)).id # Tool!NoOption
  <2> SUFFICES ASSUME NEW k, of(k) # {}
               PROVE  /\ Tool!Min(of(k)) \in DOMAIN list /\ at(of(k)).kind = k
                      /\ at(of(k)).id # Tool!NoOption
    OBVIOUS
  <2>1. Tool!Min(of(k)) \in of(k)
    BY <1>2
  <2> QED  BY <1>1, <2>1, ToolOffersMean
<1>4. yes # {} => Tool!Min(yes) \in DOMAIN list /\ at(yes).means = "allow"
  <2> SUFFICES ASSUME yes # {} PROVE Tool!Min(yes) \in DOMAIN list /\ at(yes).means = "allow"
    OBVIOUS
  <2>1. Tool!Min(yes) \in yes
    BY <1>2
  <2> QED  BY <1>1, <2>1, ToolOffersMean
<1>5. no # {} => Tool!Min(no) \in DOMAIN list /\ at(no).means = "reject"
  <2> SUFFICES ASSUME no # {} PROVE Tool!Min(no) \in DOMAIN list /\ at(no).means = "reject"
    OBVIOUS
  <2>1. Tool!Min(no) \in no
    BY <1>2
  <2> QED  BY <1>1, <2>1, ToolOffersMean
<1>6. \A k : Tool!OfKind(list, k) = IF of(k) = {} THEN Tool!NoOption ELSE at(of(k)).id
  BY DEF Tool!OfKind, Tool!First
<1>7. Tool!PickAllow(list)
        = IF of("allow_once") # {} THEN at(of("allow_once")).id
          ELSE IF of("allow_always") # {} THEN at(of("allow_always")).id
          ELSE IF Tool!NoKinds(list) /\ yes # {} THEN at(yes).id ELSE Tool!NoOption
  <2>1. Tool!PickAllow(list)
          = IF Tool!OfKind(list, "allow_once") # Tool!NoOption THEN Tool!OfKind(list, "allow_once")
            ELSE IF Tool!OfKind(list, "allow_always") # Tool!NoOption
            THEN Tool!OfKind(list, "allow_always")
            ELSE IF Tool!NoKinds(list) THEN IF yes = {} THEN Tool!NoOption ELSE at(yes).id
            ELSE Tool!NoOption
    BY DEF Tool!PickAllow, Tool!Pick, Tool!First
  <2> HIDE DEF of, yes, at
  <2> QED  BY <1>3, <1>6, <2>1
<1>8. Tool!PickReject(list)
        = IF of("reject_once") # {} THEN at(of("reject_once")).id
          ELSE IF of("reject_always") # {} THEN at(of("reject_always")).id
          ELSE IF Tool!NoKinds(list) /\ no # {} THEN at(no).id ELSE Tool!NoOption
  <2>1. Tool!PickReject(list)
          = IF Tool!OfKind(list, "reject_once") # Tool!NoOption THEN Tool!OfKind(list, "reject_once")
            ELSE IF Tool!OfKind(list, "reject_always") # Tool!NoOption
            THEN Tool!OfKind(list, "reject_always")
            ELSE IF Tool!NoKinds(list) THEN IF no = {} THEN Tool!NoOption ELSE at(no).id
            ELSE Tool!NoOption
    BY DEF Tool!PickReject, Tool!Pick, Tool!First
  <2> HIDE DEF of, no, at
  <2> QED  BY <1>3, <1>6, <2>1
<1>9. \A i \in DOMAIN list : list[i].kind = "allow_once" => of("allow_once") # {}
  OBVIOUS
<1>10. \A i \in DOMAIN list :
           /\ list[i].kind \in {"allow_once", "allow_always"} => list[i].means = "allow"
           /\ list[i].kind \in {"reject_once", "reject_always"} => list[i].means = "reject"
  BY <1>1, ToolOffersMean
<1>11. \A S : at(S) = list[Tool!Min(S)]
  OBVIOUS
<1> HIDE DEF of, yes, no, at
<1>12. Tool!PickAllow(list) # Tool!NoOption =>
           \E j \in DOMAIN list : list[j].id = Tool!PickAllow(list) /\ list[j].means = "allow"
  BY <1>3, <1>4, <1>7, <1>10, <1>11
<1>13. Tool!PickReject(list) # Tool!NoOption =>
           \E j \in DOMAIN list : list[j].id = Tool!PickReject(list) /\ list[j].means = "reject"
  BY <1>3, <1>5, <1>8, <1>10, <1>11
<1>14. of("allow_once") # {} =>
           \E j \in DOMAIN list : list[j].id = Tool!PickAllow(list) /\ list[j].kind = "allow_once"
  BY <1>3, <1>7, <1>11
<1> QED  BY <1>9, <1>12, <1>13, <1>14

LEMMA ToolBegins ==
    ASSUME Tool!ToolKindsAssumption, Tool!Init
    PROVE  ToolInv
<1>1. toolOptions \in Tool!SeqOf(ToolOffers, ToolMaxOffers) /\ DOMAIN toolOptions = {}
  BY DEF Tool!Init, Tool!ToolKindsAssumption, Tool!SeqOf
<1> QED  BY <1>1 DEF Tool!Init, ToolInv, ToolTyped, ToolIds, Tool!RequestsAreUnderstood,
                     Tool!ChangesAreNoQueries, Tool!AnswerMeansWhatItSays

LEMMA ToolRests == ASSUME ToolInv, UNCHANGED toolVars PROVE ToolInv'
BY DEF ToolInv, toolVars, ToolTyped, Tool!RequestsAreUnderstood, Tool!ChangesAreNoQueries,
       Tool!AnswerMeansWhatItSays

LEMMA ToolStep ==
    ASSUME Tool!ToolKindsAssumption, ToolInv, Tool!Next
    PROVE  ToolInv'
<1>1. ASSUME NEW t \in ToolCalls, Tool!Judge(t) PROVE ToolInv'
  <2>1. /\ toolCall' = t /\ toolKind' = Tool!Fixed(t) /\ toolOptions' = <<>>
        /\ toolAnswer' = [allow |-> Tool!NoOption, reject |-> Tool!NoOption]
    BY <1>1 DEF Tool!Judge
  <2>2. toolOptions' \in Tool!SeqOf(ToolOffers, ToolMaxOffers) /\ DOMAIN toolOptions' = {}
    BY <2>1 DEF Tool!ToolKindsAssumption, Tool!SeqOf
  <2>3. ToolTyped'
    BY <2>1, <2>2 DEF ToolTyped, ToolIds
  <2>4. Tool!ChangesAreNoQueries'
    BY <2>1, ToolsJudged DEF Tool!ChangesAreNoQueries
  <2>5. Tool!AnswerMeansWhatItSays'
    BY <2>2 DEF Tool!AnswerMeansWhatItSays
  <2> QED  BY <2>1, <2>3, <2>4, <2>5 DEF ToolInv, Tool!RequestsAreUnderstood
<1>2. ASSUME NEW list \in Tool!SeqOf(ToolOffers, ToolMaxOffers), Tool!Answer(list) PROVE ToolInv'
  <2>1. /\ toolCall' = Tool!NoCall /\ toolOptions' = list
        /\ toolAnswer' = [allow |-> Tool!PickAllow(list), reject |-> Tool!PickReject(list)]
    BY <1>2 DEF Tool!Answer
  <2>2. /\ Tool!PickAllow(list) # Tool!NoOption =>
               \E j \in DOMAIN list : list[j].id = Tool!PickAllow(list) /\ list[j].means = "allow"
        /\ Tool!PickReject(list) # Tool!NoOption =>
               \E j \in DOMAIN list : list[j].id = Tool!PickReject(list) /\ list[j].means = "reject"
        /\ (\E i \in DOMAIN list : list[i].kind = "allow_once") =>
               \E j \in DOMAIN list : list[j].id = Tool!PickAllow(list) /\ list[j].kind = "allow_once"
    BY ToolPicks DEF Tool!ToolKindsAssumption
  <2>3. \A i \in DOMAIN list : list[i] \in ToolOffers
    BY DEF Tool!SeqOf
  <2>4. ToolTyped'
    BY <2>1, <2>2, <2>3 DEF ToolTyped, ToolIds
  <2>5. \A i \in DOMAIN list :
            /\ list[i].id # Tool!NoOption
            /\ \A j \in DOMAIN list : list[i].id = list[j].id => list[i].means = list[j].means
    BY <2>3, ToolOffersMean
  <2>6. Tool!AnswerMeansWhatItSays'
    BY <2>1, <2>2, <2>5 DEF Tool!AnswerMeansWhatItSays
  <2>7. Tool!ChangesAreNoQueries'
    BY <2>1 DEF Tool!ChangesAreNoQueries
  <2> QED  BY <2>1, <2>4, <2>6, <2>7 DEF ToolInv, Tool!RequestsAreUnderstood
<1> QED  BY <1>1, <1>2 DEF Tool!Next

------------------------------------------------------------------------------
(* Commands. A table gives a segment one of four kinds, and the kind of a        *)
(* command is the worst of them, however many there are.                         *)

ShellVerdicts == [ok : BOOLEAN, kind : Shell!Kinds]
ShellWords == Seq(STRING)

LEMMA ShellVerdictsAre ==
    Shell!None \in ShellVerdicts /\ \A k \in Shell!Kinds : Shell!Some(k) \in ShellVerdicts
BY DEF ShellVerdicts, Shell!None, Shell!Some, Shell!Kinds

\* A name that a table knows has one of its kinds.
LEMMA ShellKnown ==
    ASSUME NEW table, NEW name, Shell!Known(table, name)
    PROVE  Shell!KindIn(table, name) \in DOMAIN table
BY DEF Shell!Known, Shell!KindIn

LEMMA ShellGit == \A args : Shell!GitKind(args) \in ShellVerdicts
<1> SUFFICES ASSUME NEW args PROVE Shell!GitKind(args) \in ShellVerdicts
  OBVIOUS
<1>1. \A sub, rest : Shell!ParamKind(sub, rest) \in ShellVerdicts
  BY ShellVerdictsAre DEF Shell!ParamKind, Shell!Kinds
<1>2. \A sub : Shell!Known(Shell!GitBase, sub) =>
          Shell!Some(Shell!KindIn(Shell!GitBase, sub)) \in ShellVerdicts
  <2>1. DOMAIN Shell!GitBase \subseteq Shell!Kinds
    BY DEF Shell!GitBase, Shell!Kinds
  <2> QED  BY <2>1, ShellKnown, ShellVerdictsAre
<1>3. Shell!Some("delete") \in ShellVerdicts
  BY ShellVerdictsAre DEF Shell!Kinds
<1> QED  BY <1>1, <1>2, <1>3, ShellVerdictsAre DEF Shell!GitKind

LEMMA ShellRunners ==
    \A args : /\ Shell!NpmKind(args) \in ShellVerdicts /\ Shell!NpxKind(args) \in ShellVerdicts
              /\ Shell!GoKind(args) \in ShellVerdicts
<1> SUFFICES ASSUME NEW args
             PROVE  /\ Shell!NpmKind(args) \in ShellVerdicts /\ Shell!NpxKind(args) \in ShellVerdicts
                    /\ Shell!GoKind(args) \in ShellVerdicts
  OBVIOUS
<1>1. /\ DOMAIN Shell!ScriptKinds \subseteq Shell!Kinds /\ DOMAIN Shell!NpxKinds \subseteq Shell!Kinds
      /\ Shell!Some("read") \in ShellVerdicts /\ Shell!Some("edit") \in ShellVerdicts
  BY ShellVerdictsAre DEF Shell!ScriptKinds, Shell!NpxKinds, Shell!Kinds
<1>2. \A name : /\ Shell!Known(Shell!ScriptKinds, name) =>
                       Shell!Some(Shell!KindIn(Shell!ScriptKinds, name)) \in ShellVerdicts
                /\ Shell!Known(Shell!NpxKinds, name) =>
                       Shell!Some(Shell!KindIn(Shell!NpxKinds, name)) \in ShellVerdicts
  BY <1>1, ShellKnown, ShellVerdictsAre
<1>3. Shell!NpmKind(args) \in ShellVerdicts
  BY <1>1, <1>2, ShellVerdictsAre DEF Shell!NpmKind
<1>4. Shell!NpxKind(args) \in ShellVerdicts
  BY <1>1, <1>2, ShellVerdictsAre DEF Shell!NpxKind
<1>5. Shell!GoKind(args) \in ShellVerdicts
  BY <1>1, ShellVerdictsAre DEF Shell!GoKind
<1> QED  BY <1>3, <1>4, <1>5

LEMMA ShellSegmentKinds == \A seg : Shell!SegmentKind(seg) \in Shell!Kinds
<1>1. \A v \in ShellVerdicts : (IF v.ok THEN v.kind ELSE "execute") \in Shell!Kinds
  BY DEF ShellVerdicts, Shell!Kinds
<1>2. {"read", "execute"} \subseteq Shell!Kinds
  BY DEF Shell!Kinds
<1> SUFFICES ASSUME NEW seg PROVE Shell!SegmentKind(seg) \in Shell!Kinds
  OBVIOUS
<1>3. /\ Shell!GitKind(Shell!Args(seg)) \in ShellVerdicts
      /\ Shell!NpmKind(Shell!Args(seg)) \in ShellVerdicts
      /\ Shell!NpxKind(Shell!Args(seg)) \in ShellVerdicts
      /\ Shell!GoKind(Shell!Args(seg)) \in ShellVerdicts
  BY ShellGit, ShellRunners
<1> QED  BY <1>1, <1>2, <1>3 DEF Shell!SegmentKind

LEMMA ShellSeverities ==
    /\ \A k \in Shell!Kinds : Shell!Severity[k] \in 0..3
    /\ Shell!Severity["read"] = 0 /\ Shell!Severity["edit"] = 1
    /\ Shell!Severity["execute"] = 2 /\ Shell!Severity["delete"] = 3
BY DEF Shell!Severity, Shell!Kinds

LEMMA ShellWorse ==
    \A seg : \A x \in Shell!Kinds :
        /\ Shell!WorseWith(x, seg) \in {x, Shell!SegmentKind(seg)}
        /\ Shell!WorseWith(x, seg) \in Shell!Kinds
        /\ Shell!Severity[Shell!WorseWith(x, seg)] >= Shell!Severity[x]
        /\ Shell!Severity[Shell!WorseWith(x, seg)] >= Shell!Severity[Shell!SegmentKind(seg)]
<1> SUFFICES ASSUME NEW seg, NEW x \in Shell!Kinds
             PROVE  /\ Shell!WorseWith(x, seg) \in {x, Shell!SegmentKind(seg)}
                    /\ Shell!WorseWith(x, seg) \in Shell!Kinds
                    /\ Shell!Severity[Shell!WorseWith(x, seg)] >= Shell!Severity[x]
                    /\ Shell!Severity[Shell!WorseWith(x, seg)]
                           >= Shell!Severity[Shell!SegmentKind(seg)]
  OBVIOUS
<1> DEFINE y == Shell!SegmentKind(seg)
<1>1. y \in Shell!Kinds /\ Shell!Severity[x] \in Int /\ Shell!Severity[y] \in Int
  BY ShellSegmentKinds, ShellSeverities
<1>2. Shell!WorseWith(x, seg) = IF Shell!Severity[y] > Shell!Severity[x] THEN y ELSE x
  BY DEF Shell!WorseWith, Shell!Worse
<1> HIDE DEF y
<1>3. CASE Shell!Severity[y] > Shell!Severity[x]
  BY <1>1, <1>2, <1>3 DEF y
<1>4. CASE ~(Shell!Severity[y] > Shell!Severity[x])
  BY <1>1, <1>2, <1>4 DEF y
<1> QED  BY <1>3, <1>4

\* The judgement goes through the segments from the first to the last.
LEMMA ShellFold ==
    ASSUME NEW c \in Seq(ShellSegments), "read" \in Shell!Kinds
    PROVE  \E r \in [0..Len(c) -> Shell!Kinds] :
               /\ r[0] = "read"
               /\ \A k \in 1..Len(c) : r[k] = Shell!WorseWith(r[k - 1], c[k])
               /\ Shell!FoldLeft(Shell!WorseWith, "read", c) = r[Len(c)]
<1> DEFINE n == Len(c)
    Tops == [s \in SUBSET (1..n) |-> Shell!Max(s)]
    Steps == [p \in (Shell!Kinds) \X (1..n) |-> Shell!WorseWith(p[1], c[p[2]])]
    Is(f) == f = [s \in SUBSET (DOMAIN c) |->
                     IF s = {} THEN "read" ELSE Shell!WorseWith(f[s \ {Shell!Max(s)}], c[Shell!Max(s)])]
<1>1. n \in Nat /\ DOMAIN c = 1..n
  OBVIOUS
<1>2. \A s \in SUBSET (1..n) : s # {} =>
          /\ Shell!Max(s) \in s /\ (\A y \in s : Shell!Max(s) >= y) /\ Shell!Max(s) \in 1..n
  <2> SUFFICES ASSUME NEW s \in SUBSET (1..n), s # {}
               PROVE  Shell!Max(s) \in s /\ \A y \in s : Shell!Max(s) >= y
    OBVIOUS
  <2>1. \E x \in s : \A y \in s : x >= y
    <3> HIDE DEF n
    <3> QED  BY <1>1, LargestExists
  <2> QED  BY <2>1 DEF Shell!Max
<1>3. \A x \in Shell!Kinds, i \in 1..n : Shell!WorseWith(x, c[i]) \in Shell!Kinds
  BY ShellWorse
<1>4. Steps \in [(Shell!Kinds) \X (1..n) -> Shell!Kinds]
  BY <1>3
<1>5. \A x \in Shell!Kinds, i \in 1..n : Steps[<<x, i>>] = Shell!WorseWith(x, c[i])
  OBVIOUS
<1>6. TakesLargest(Tops, n)
  BY <1>2 DEF TakesLargest
<1>7. \E f : Is(f)
  <2>1. PICK h \in [SUBSET (1..n) -> Shell!Kinds] : \A s \in SUBSET (1..n) :
            h[s] = IF s = {} THEN "read" ELSE Steps[<<h[s \ {Tops[s]}], Tops[s]>>]
    <3> DEFINE X == Shell!Kinds
    <3>1. "read" \in X /\ Steps \in [X \X (1..n) -> X]
      BY <1>4
    <3> HIDE DEF n, Steps, Tops, X
    <3>2. Folding(n, X, "read", Steps, Tops)
      BY <1>1, <1>6, <3>1, FoldingExists
    <3> QED  BY <3>2 DEF Folding, X
  <2>2. ASSUME NEW s \in SUBSET (1..n)
        PROVE  h[s] = IF s = {} THEN "read" ELSE Shell!WorseWith(h[s \ {Shell!Max(s)}], c[Shell!Max(s)])
    <3>1. CASE s = {}
      BY <2>1, <3>1
    <3>2. CASE s # {}
      <4>1. Tops[s] = Shell!Max(s) /\ Shell!Max(s) \in 1..n
        BY <1>2, <3>2
      <4>2. s \ {Shell!Max(s)} \in SUBSET (1..n)
        OBVIOUS
      <4>3. h[s \ {Shell!Max(s)}] \in Shell!Kinds
        BY <2>1, <4>2
      <4>4. h[s] = Steps[<<h[s \ {Shell!Max(s)}], Shell!Max(s)>>]
        BY <2>1, <3>2, <4>1
      <4> HIDE DEF Steps
      <4> QED  BY <1>5, <3>2, <4>1, <4>3, <4>4
    <3> QED  BY <3>1, <3>2
  <2>3. h = [s \in SUBSET (1..n) |-> h[s]]
    BY <2>1
  <2>4. h = [s \in SUBSET (1..n) |-> IF s = {} THEN "read" ELSE Shell!WorseWith(h[s \ {Shell!Max(s)}], c[Shell!Max(s)])]
    <3> HIDE DEF n
    <3> QED  BY <2>2, <2>3
  <2> QED  BY <1>1, <2>4
<1> DEFINE f == CHOOSE f : Is(f)
<1>8. Is(f)
  BY <1>7
<1>9. Shell!FoldLeft(Shell!WorseWith, "read", c) = f[DOMAIN c]
  BY DEF Shell!FoldLeft, Shell!MapThenFoldSet
<1>10. \A s \in SUBSET (1..n) : f[s] = IF s = {} THEN "read" ELSE Shell!WorseWith(f[s \ {Shell!Max(s)}], c[Shell!Max(s)])
  <2> HIDE DEF f, n
  <2> QED  BY <1>1, <1>8
<1> HIDE DEF f, Is
<1>11. ASSUME NEW k \in 1..n
       PROVE  f[1..k] = Shell!WorseWith(f[1..(k - 1)], c[k])
  <2>1. /\ 1..k \in SUBSET (1..n) /\ 1..k # {} /\ (1..k) \ {k} = 1..(k - 1)
        /\ \A x \in 1..k : (\A y \in 1..k : x >= y) => x = k
    <3> HIDE DEF n
    <3> QED  BY <1>1, Prefixes
  <2>2. Shell!Max(1..k) = k
    BY <1>2, <2>1
  <2> HIDE DEF n
  <2> QED  BY <1>10, <2>1, <2>2
<1>12. f[1..0] = "read"
  <2>1. 1..0 = {} /\ {} \in SUBSET (1..n)
    OBVIOUS
  <2> HIDE DEF n
  <2> QED  BY <1>10, <2>1
<1> DEFINE R == {k \in 0..n : f[1..k] \in Shell!Kinds}
<1>13. \A k \in 0..n : k \in R
  <2>1. 0 \in R
    BY <1>1, <1>12
  <2>2. ASSUME NEW k \in 0..(n - 1), k \in R PROVE k + 1 \in R
    <3>1. k + 1 \in 1..n /\ k + 1 - 1 = k /\ f[1..k] \in Shell!Kinds
      BY <1>1, <2>2
    <3>2. f[1..(k + 1)] = Shell!WorseWith(f[1..k], c[k + 1])
      <4> HIDE DEF n
      <4> QED  BY <1>11, <3>1
    <3>3. Shell!WorseWith(f[1..k], c[k + 1]) \in Shell!Kinds
      <4> HIDE DEF n
      <4> QED  BY <1>3, <3>1
    <3> QED  BY <1>1, <3>1, <3>2, <3>3
  <2> HIDE DEF R, n
  <2> QED  BY <1>1, <2>1, <2>2, Climbing
<1> DEFINE r == [k \in 0..n |-> f[1..k]]
<1>14. r \in [0..n -> Shell!Kinds]
  BY <1>13
<1>15. r[0] = "read"
  BY <1>1, <1>12
<1>16. \A k \in 1..n : r[k] = Shell!WorseWith(r[k - 1], c[k])
  <2> SUFFICES ASSUME NEW k \in 1..n PROVE r[k] = Shell!WorseWith(r[k - 1], c[k])
    OBVIOUS
  <2>1. k \in 0..n /\ k - 1 \in 0..n
    BY <1>1
  <2>2. r[k] = f[1..k] /\ r[k - 1] = f[1..(k - 1)]
    BY <2>1
  <2> HIDE DEF r, n
  <2> QED  BY <1>11, <2>2
<1>17. Shell!FoldLeft(Shell!WorseWith, "read", c) = r[n]
  <2>1. n \in 0..n
    BY <1>1
  <2> QED  BY <1>1, <1>9, <2>1
<1> HIDE DEF r
<1> QED  BY <1>14, <1>15, <1>16, <1>17

\* The kind of a command is that of one of its segments, and none is worse.
LEMMA ShellWorst ==
    ASSUME NEW c \in Seq(ShellSegments), NEW worst, worst = Shell!FoldLeft(Shell!WorseWith, "read", c)
    PROVE  /\ worst \in Shell!Kinds
           /\ \A i \in DOMAIN c :
                  Shell!Severity[worst] >= Shell!Severity[Shell!SegmentKind(c[i])]
           /\ worst = "read" \/ \E i \in DOMAIN c : Shell!SegmentKind(c[i]) = worst
<1> DEFINE n == Len(c)
<1>0. "read" \in Shell!Kinds /\ n \in Nat /\ DOMAIN c = 1..n
  BY DEF Shell!Kinds
<1>1. PICK r \in [0..n -> Shell!Kinds] :
          r[0] = "read" /\ (\A k \in 1..n : r[k] = Shell!WorseWith(r[k - 1], c[k])) /\ worst = r[n]
  BY <1>0, ShellFold
<1> HIDE DEF n
<1> DEFINE Holds(k) ==
        /\ \A i \in 1..k : Shell!Severity[r[k]] >= Shell!Severity[Shell!SegmentKind(c[i])]
        /\ r[k] = "read" \/ \E i \in 1..k : Shell!SegmentKind(c[i]) = r[k]
    R == {k \in 0..n : Holds(k)}
<1>2. 0 \in R
  <2>1. 0 \in 0..n /\ 1..0 = {}
    BY <1>0
  <2> QED  BY <1>1, <2>1
<1>3. ASSUME NEW k \in 0..(n - 1), k \in R PROVE k + 1 \in R
  <2>1. k + 1 \in 1..n /\ k + 1 \in 0..n /\ k \in 0..n /\ k + 1 - 1 = k /\ k + 1 \in 1..(k + 1)
    BY <1>0
  <2>2. r[k + 1] = Shell!WorseWith(r[k], c[k + 1]) /\ r[k] \in Shell!Kinds
    BY <1>1, <2>1
  <2>3. /\ r[k + 1] \in {r[k], Shell!SegmentKind(c[k + 1])} /\ r[k + 1] \in Shell!Kinds
        /\ Shell!Severity[r[k + 1]] >= Shell!Severity[r[k]]
        /\ Shell!Severity[r[k + 1]] >= Shell!Severity[Shell!SegmentKind(c[k + 1])]
    BY <2>2, ShellWorse
  <2>4. \A i \in 1..(k + 1) : i \in 1..k \/ i = k + 1
    BY <1>0
  <2>5. ASSUME NEW i \in 1..k
        PROVE  Shell!Severity[r[k + 1]] >= Shell!Severity[Shell!SegmentKind(c[i])]
    <3>1. Shell!Severity[r[k]] >= Shell!Severity[Shell!SegmentKind(c[i])]
      BY <1>3
    <3>2. /\ Shell!Severity[r[k]] \in Int /\ Shell!Severity[r[k + 1]] \in Int
          /\ Shell!Severity[Shell!SegmentKind(c[i])] \in Int
      BY <2>2, <2>3, ShellSegmentKinds, ShellSeverities
    <3> QED  BY <2>3, <3>1, <3>2
  <2>6. \A i \in 1..(k + 1) : Shell!Severity[r[k + 1]] >= Shell!Severity[Shell!SegmentKind(c[i])]
    BY <2>3, <2>4, <2>5
  <2>7. r[k + 1] = "read" \/ \E i \in 1..(k + 1) : Shell!SegmentKind(c[i]) = r[k + 1]
    <3>1. CASE r[k + 1] = r[k]
      <4>1. \A i \in 1..k : i \in 1..(k + 1)
        BY <1>0
      <4> QED  BY <1>3, <3>1, <4>1
    <3>2. CASE r[k + 1] = Shell!SegmentKind(c[k + 1])
      BY <2>1, <3>2
    <3> QED  BY <2>3, <3>1, <3>2
  <2> QED  BY <2>1, <2>6, <2>7
<1>4. n \in R
  <2> HIDE DEF R
  <2> QED  BY <1>0, <1>2, <1>3, Climbing
<1>5. n \in 0..n
  BY <1>0
<1> QED  BY <1>0, <1>1, <1>4, <1>5

\* What a command that is not refused, nor one script, is taken for.
LEMMA ShellClassified ==
    ASSUME NEW c \in Seq(ShellSegments), c # <<>>
    PROVE  /\ Shell!UnsafeText(c) => Shell!Downgrade(c) = "execute"
           /\ ~Shell!UnsafeText(c) /\ Shell!InlineOnly(c) => Shell!Downgrade(c) = "read"
           /\ ~Shell!UnsafeText(c) /\ ~Shell!InlineOnly(c) =>
                  /\ Shell!Downgrade(c) # "execute" => \A i \in DOMAIN c :
                         /\ Shell!SegmentKind(c[i]) \in {"read", "edit"}
                         /\ Shell!Downgrade(c) = "read" => Shell!SegmentKind(c[i]) = "read"
                  /\ Shell!Downgrade(c) = "execute" => \E i \in DOMAIN c :
                         Shell!SegmentKind(c[i]) \in {"execute", "delete"}
                  /\ (\A i \in DOMAIN c : Shell!SegmentKind(c[i]) = "read") =>
                         Shell!Downgrade(c) = "read"
<1> DEFINE worst == Shell!FoldLeft(Shell!WorseWith, "read", c)
<1>1. Shell!Classify(c) = IF Shell!UnsafeText(c) THEN Shell!None
                          ELSE IF Shell!InlineOnly(c) THEN Shell!Some("read") ELSE Shell!Some(worst)
  BY DEF Shell!Classify
<1>2. /\ worst \in Shell!Kinds
      /\ \A i \in DOMAIN c : Shell!Severity[worst] >= Shell!Severity[Shell!SegmentKind(c[i])]
      /\ worst = "read" \/ \E i \in DOMAIN c : Shell!SegmentKind(c[i]) = worst
  BY ShellWorst
<1> HIDE DEF worst
<1>3. \A k : Shell!Some(k).ok = TRUE /\ Shell!Some(k).kind = k
  BY DEF Shell!Some
<1>4. CASE Shell!UnsafeText(c)
  BY <1>4 DEF Shell!Downgrade
<1>5. CASE ~Shell!UnsafeText(c) /\ Shell!InlineOnly(c)
  <2>1. Shell!Classify(c) = Shell!Some("read")
    BY <1>1, <1>5
  <2>2. Shell!Downgrade(c) = "read"
    BY <1>3, <1>5, <2>1, ShellSeverities DEF Shell!Downgrade
  <2> QED  BY <1>5, <2>2
<1>6. CASE ~Shell!UnsafeText(c) /\ ~Shell!InlineOnly(c)
  <2>1. Shell!Classify(c) = Shell!Some(worst)
    BY <1>1, <1>6
  <2>2. Shell!Classify(c).ok = TRUE /\ Shell!Classify(c).kind = worst
    BY <1>3, <2>1
  <2>3. Shell!Downgrade(c)
          = IF Shell!Severity[worst] < Shell!Severity["execute"] THEN worst ELSE "execute"
    BY <1>6, <2>2 DEF Shell!Downgrade
  <2>4. \A i \in DOMAIN c : Shell!SegmentKind(c[i]) \in Shell!Kinds
    BY ShellSegmentKinds
  <2>5. worst \in {"read", "edit", "execute", "delete"}
    BY <1>2 DEF Shell!Kinds
  <2>6. CASE worst = "read"
    <3>1. \A i \in DOMAIN c : Shell!SegmentKind(c[i]) = "read"
      BY <1>2, <2>4, <2>6, ShellSeverities DEF Shell!Kinds
    <3>2. Shell!Downgrade(c) = "read"
      BY <2>3, <2>6, ShellSeverities
    <3> QED  BY <1>6, <3>1, <3>2
  <2>7. CASE worst = "edit"
    <3>1. \A i \in DOMAIN c : Shell!SegmentKind(c[i]) \in {"read", "edit"}
      BY <1>2, <2>4, <2>7, ShellSeverities DEF Shell!Kinds
    <3>2. Shell!Downgrade(c) = "edit"
      BY <2>3, <2>7, ShellSeverities
    <3>3. \E i \in DOMAIN c : Shell!SegmentKind(c[i]) # "read"
      BY <1>2, <2>7
    <3> QED  BY <1>6, <3>1, <3>2, <3>3
  <2>8. CASE worst \in {"execute", "delete"}
    <3>1. Shell!Downgrade(c) = "execute"
      BY <2>3, <2>8, ShellSeverities
    <3>2. \E i \in DOMAIN c : Shell!SegmentKind(c[i]) \in {"execute", "delete"}
      BY <1>2, <2>8
    <3> QED  BY <1>6, <3>1, <3>2
  <2> QED  BY <2>5, <2>6, <2>7, <2>8
<1> QED  BY <1>4, <1>5, <1>6

\* A command has an unsafe text if one of its segments has.
LEMMA ShellUnsafe ==
    ASSUME NEW c
    PROVE  Shell!UnsafeText(c) <=> \E i \in DOMAIN c : Shell!UnsafeText(<<c[i]>>)
<1>1. \A s : DOMAIN <<s>> = {1} /\ <<s>>[1] = s
  OBVIOUS
<1>2. \A s : Shell!UnsafeText(<<s>>) <=>
          \/ s.output = "file" \/ s.substitutes = "bare"
          \/ Head(s.words) \in Shell!UnsafeVerbs \/ s.quoted = "unsafe"
          \/ s.output = "discarded" \/ s.words = <<"rm", "-rf", "x">>
  BY <1>1 DEF Shell!UnsafeText, Shell!UnsafeRedirection
<1>3. Shell!UnsafeText(c) <=> \E i \in DOMAIN c :
          \/ c[i].output = "file" \/ c[i].substitutes = "bare"
          \/ Head(c[i].words) \in Shell!UnsafeVerbs \/ c[i].quoted = "unsafe"
          \/ c[i].output = "discarded" \/ c[i].words = <<"rm", "-rf", "x">>
  BY DEF Shell!UnsafeText, Shell!UnsafeRedirection
<1> QED  BY <1>2, <1>3

LEMMA ShellParts ==
    ASSUME shellCommand \in Seq(ShellSegments)
    PROVE  Shell!NoMilderThanItsParts
<1> SUFFICES ASSUME NEW i \in DOMAIN shellCommand, Shell!Downgrade(shellCommand) # "execute"
             PROVE  /\ Shell!Downgrade(<<shellCommand[i]>>) # "execute"
                    /\ Shell!Downgrade(shellCommand) = "read" =>
                           Shell!Downgrade(<<shellCommand[i]>>) = "read"
  BY DEF Shell!NoMilderThanItsParts
<1> DEFINE alone == <<shellCommand[i]>>
<1>1. /\ shellCommand # <<>> /\ alone \in Seq(ShellSegments) /\ alone # <<>>
      /\ DOMAIN alone = {1} /\ alone[1] = shellCommand[i]
  OBVIOUS
<1> HIDE DEF alone
<1>2. ~Shell!UnsafeText(shellCommand) /\ ~Shell!UnsafeText(alone)
  <2>1. ~Shell!UnsafeText(shellCommand)
    BY <1>1, ShellClassified
  <2> QED  BY <2>1, ShellUnsafe DEF alone
<1>3. CASE Shell!InlineOnly(alone)
  BY <1>1, <1>2, <1>3, ShellClassified DEF alone
<1>4. CASE ~Shell!InlineOnly(alone)
  <2>1. ~Shell!InlineOnly(shellCommand)
    <3> SUFFICES ASSUME Shell!InlineOnly(shellCommand) PROVE FALSE
      OBVIOUS
    <3>1. Len(shellCommand) = 1
      BY DEF Shell!InlineOnly
    <3>2. shellCommand = alone
      BY <3>1 DEF alone
    <3> QED  BY <1>4, <3>2
  <2>2. /\ Shell!SegmentKind(alone[1]) \in {"read", "edit"}
        /\ Shell!Downgrade(shellCommand) = "read" => Shell!SegmentKind(alone[1]) = "read"
    BY <1>1, <1>2, <2>1, ShellClassified
  <2>3. Shell!Downgrade(alone) # "execute"
    <3> SUFFICES ASSUME Shell!Downgrade(alone) = "execute" PROVE FALSE
      OBVIOUS
    <3>1. PICK j \in DOMAIN alone : Shell!SegmentKind(alone[j]) \in {"execute", "delete"}
      BY <1>1, <1>2, <1>4, ShellClassified
    <3> QED  BY <1>1, <2>2, <3>1
  <2>4. Shell!SegmentKind(alone[1]) = "read" => Shell!Downgrade(alone) = "read"
    BY <1>1, <1>2, <1>4, ShellClassified
  <2> QED  BY <2>2, <2>3, <2>4 DEF alone
<1> QED  BY <1>3, <1>4

LEMMA ShellJudged ==
    ASSUME shellCommand \in Seq(ShellSegments)
    PROVE  Shell!JudgedByItsWorst
<1> SUFFICES ASSUME NEW i \in DOMAIN shellCommand, ~shellCommand[i].hides
             PROVE  /\ Shell!Downgrade(shellCommand) = "read" => shellCommand[i].effect = "none"
                    /\ Shell!Downgrade(shellCommand) = "edit" =>
                           shellCommand[i].effect \in {"none", "local"}
  BY DEF Shell!JudgedByItsWorst
<1>1. shellCommand # <<>> /\ shellCommand[i] \in ShellSegments
  OBVIOUS
<1>2. CASE Shell!UnsafeText(shellCommand)
  BY <1>1, <1>2, ShellClassified
<1>3. CASE ~Shell!UnsafeText(shellCommand)
  <2>1. ~Shell!UnsafeText(<<shellCommand[i]>>)
    BY <1>3, ShellUnsafe
  <2>2. /\ (Shell!InlineOnly(<<shellCommand[i]>>) \/ Shell!SegmentKind(shellCommand[i]) = "read")
               => shellCommand[i].effect = "none"
        /\ Shell!SegmentKind(shellCommand[i]) = "edit" =>
               shellCommand[i].effect \in {"none", "local"}
    BY <1>1, <2>1, SegmentsAssumption DEF Shell!JudgedAlone
  <2>3. CASE Shell!InlineOnly(shellCommand)
    <3>1. Shell!InlineOnly(<<shellCommand[i]>>)
      <4>1. Len(shellCommand) = 1
        BY <2>3 DEF Shell!InlineOnly
      <4>2. shellCommand = <<shellCommand[i]>>
        BY <4>1
      <4> QED  BY <2>3, <4>2
    <3> QED  BY <1>1, <1>3, <2>2, <2>3, <3>1, ShellClassified
  <2>4. CASE ~Shell!InlineOnly(shellCommand)
    BY <1>1, <1>3, <2>2, <2>4, ShellClassified
  <2> QED  BY <2>3, <2>4
<1> QED  BY <1>2, <1>3

LEMMA ShellCard ==
    ASSUME shellCommand \in Seq(ShellSegments)
    PROVE  Shell!CardTellsWhy
<1> SUFFICES ASSUME shellCommand # <<>>, ~Shell!InlineOnly(shellCommand)
             PROVE  /\ Shell!Downgrade(shellCommand) = "execute" =>
                           Shell!Has(Shell!Displayed(shellCommand), {"execute", "delete"})
                    /\ (/\ Shell!Downgrade(shellCommand) # "execute"
                        /\ \A i \in DOMAIN shellCommand : shellCommand[i].quoted # "separator") =>
                           ~Shell!Has(Shell!Displayed(shellCommand), {"execute", "delete"})
  BY DEF Shell!CardTellsWhy
<1> DEFINE shown == [i \in DOMAIN shellCommand |-> Shell!DisplayKind(shellCommand[i])]
    rest == IF \E i \in DOMAIN shellCommand : shellCommand[i].quoted = "separator"
            THEN <<"execute">> ELSE <<>>
<1>0. Len(shellCommand) \in Nat /\ DOMAIN shellCommand = 1..Len(shellCommand)
  OBVIOUS
<1>1. shown \in Seq(Shell!Kinds) /\ DOMAIN shown = DOMAIN shellCommand
  <2>1. \A i \in DOMAIN shellCommand : Shell!DisplayKind(shellCommand[i]) \in Shell!Kinds
    BY ShellSegmentKinds DEF Shell!DisplayKind, Shell!Kinds
  <2>2. shown \in [1..Len(shellCommand) -> Shell!Kinds] /\ DOMAIN shown = DOMAIN shellCommand
    BY <1>0, <2>1
  <2> HIDE DEF shown
  <2> QED  BY <1>0, <2>2
<1>2. rest \in Seq(Shell!Kinds)
  <2>1. "execute" \in Shell!Kinds
    BY DEF Shell!Kinds
  <2>2. <<"execute">> \in Seq(Shell!Kinds) /\ <<>> \in Seq(Shell!Kinds)
    BY <2>1, OneElement, EmptySequence
  <2> QED  BY <2>2
<1>3. Shell!Displayed(shellCommand) = shown \o rest
  BY DEF Shell!Displayed
<1>4. \A i \in DOMAIN shellCommand : shown[i] = Shell!DisplayKind(shellCommand[i])
  OBVIOUS
<1>5. (\A i \in DOMAIN shellCommand : shellCommand[i].quoted # "separator") => rest = <<>>
  OBVIOUS
<1> HIDE DEF shown, rest
<1>6. \A i \in DOMAIN shellCommand : /\ i \in DOMAIN (shown \o rest)
                                     /\ (shown \o rest)[i] = shown[i]
  BY <1>0, <1>1, <1>2
<1>7. rest = <<>> => shown \o rest = shown
  BY <1>1
<1>8. \A s, set : Shell!Has(s, set) <=> \E i \in DOMAIN s : s[i] \in set
  BY DEF Shell!Has, Shell!ToSet
<1>9. CASE Shell!UnsafeText(shellCommand)
  <2>1. PICK i \in DOMAIN shellCommand : Shell!UnsafeText(<<shellCommand[i]>>)
    BY <1>9, ShellUnsafe
  <2>2. Shell!DisplayKind(shellCommand[i]) \in {"execute", "delete"}
    BY <2>1 DEF Shell!DisplayKind
  <2>3. Shell!Has(shown \o rest, {"execute", "delete"})
    BY <1>4, <1>6, <1>8, <2>2
  <2>4. Shell!Downgrade(shellCommand) = "execute"
    BY <1>9, ShellClassified
  <2> QED  BY <1>3, <2>3, <2>4
<1>10. CASE ~Shell!UnsafeText(shellCommand)
  <2>1. \A i \in DOMAIN shellCommand :
            Shell!DisplayKind(shellCommand[i]) = Shell!SegmentKind(shellCommand[i])
    BY <1>10, ShellUnsafe DEF Shell!DisplayKind
  <2>2. ASSUME Shell!Downgrade(shellCommand) = "execute"
        PROVE  Shell!Has(shown \o rest, {"execute", "delete"})
    <3>1. PICK i \in DOMAIN shellCommand :
              Shell!SegmentKind(shellCommand[i]) \in {"execute", "delete"}
      BY <1>10, <2>2, ShellClassified
    <3> QED  BY <1>4, <1>6, <1>8, <2>1, <3>1
  <2>3. ASSUME Shell!Downgrade(shellCommand) # "execute",
               \A i \in DOMAIN shellCommand : shellCommand[i].quoted # "separator"
        PROVE  ~Shell!Has(shown \o rest, {"execute", "delete"})
    <3>1. \A i \in DOMAIN shellCommand :
              Shell!SegmentKind(shellCommand[i]) \in {"read", "edit"}
      BY <1>10, <2>3, ShellClassified
    <3>2. shown \o rest = shown
      BY <1>5, <1>7, <2>3
    <3> QED  BY <1>1, <1>4, <1>8, <2>1, <3>1, <3>2
  <2> QED  BY <1>3, <2>2, <2>3
<1> QED  BY <1>9, <1>10

LEMMA ShellPlain == \A words \in ShellWords : Shell!Plain(words) \in ShellWords
<1> SUFFICES ASSUME NEW words \in ShellWords PROVE Shell!Plain(words) \in ShellWords
  OBVIOUS
<1> DEFINE parts == [i \in DOMAIN words |-> IF Shell!IsFlag(words[i]) THEN <<>> ELSE <<words[i]>>]
<1>1. \A i \in DOMAIN words : words[i] \in STRING
  BY DEF ShellWords
<1>2. \A i \in DOMAIN words : parts[i] \in ShellWords
  <2>1. \A i \in DOMAIN words : <<words[i]>> \in ShellWords
    BY <1>1, OneElement DEF ShellWords
  <2>2. <<>> \in ShellWords
    BY EmptySequence DEF ShellWords
  <2> QED  BY <2>1, <2>2
<1>3. parts \in Seq(ShellWords) /\ Len(parts) \in Nat
  <2>1. Len(words) \in Nat /\ DOMAIN words = 1..Len(words)
    BY DEF ShellWords
  <2>2. parts \in [1..Len(words) -> ShellWords]
    BY <1>2, <2>1
  <2> HIDE DEF parts
  <2> QED  BY <2>1, <2>2
<1>4. Shell!Plain(words) = Shell!FlattenSeq(parts)
  BY DEF Shell!Plain
<1> HIDE DEF parts
<1>5. CASE Len(parts) = 0
  <2>1. Shell!FlattenSeq(parts) = parts
    BY <1>5 DEF Shell!FlattenSeq
  <2>2. parts = <<>>
    BY <1>3, <1>5
  <2> QED  BY <1>4, <2>1, <2>2, EmptySequence DEF ShellWords
<1>6. CASE Len(parts) # 0
  <2> DEFINE Is(f) ==
          f = [i \in 1..Len(parts) |-> IF i = 1 THEN parts[i] ELSE f[i - 1] \o parts[i]]
      f == CHOOSE f : Is(f)
  <2>1. Is(f)
    BY <1>3, JoiningExists DEF ShellWords
  <2>2. Shell!FlattenSeq(parts) = f[Len(parts)]
    BY <1>6 DEF Shell!FlattenSeq
  <2> HIDE DEF f
  <2>3. \A i \in 1..Len(parts) : f[i] \in Seq(STRING)
    BY <1>3, <2>1, JoinedAre DEF ShellWords
  <2>4. f[Len(parts)] \in ShellWords
    BY <1>3, <1>6, <2>3 DEF ShellWords
  <2> QED  BY <1>4, <2>2, <2>4
<1> QED  BY <1>5, <1>6

\* A recipe has at least the name of its command.
LEMMA ShellRecipe ==
    ASSUME Shell!CommandsAssumption, NEW s \in ShellSegments
    PROVE  Shell!Recipe(s) # <<>>
<1> DEFINE args == Shell!Args(s)
<1>1. s.words \in ShellWords /\ s.words # <<>>
  BY DEF Shell!CommandsAssumption, ShellWords
<1>2. Head(s.words) \in STRING /\ args \in ShellWords
  BY <1>1, HeadAndTail DEF Shell!Args, ShellWords
<1>3. \A words \in ShellWords : Shell!Plain(words) \in ShellWords
  BY ShellPlain
<1> HIDE DEF args
<1>4. Shell!GitWords(args) \in ShellWords
  <2>1. args # <<>> => Tail(args) \in ShellWords
    BY <1>2, HeadAndTail DEF ShellWords
  <2>2. Len(args) > 1 => SubSeq(args, 3, Len(args)) \in ShellWords
    BY <1>2 DEF ShellWords
  <2> QED  BY <1>2, <2>1, <2>2 DEF Shell!GitWords
<1> DEFINE plain == Shell!Plain(IF Head(s.words) = "git" THEN Shell!GitWords(args) ELSE args)
    upTo(n) == SubSeq(plain, 1, IF Len(plain) < n THEN Len(plain) ELSE n)
<1>5. plain \in ShellWords
  BY <1>2, <1>3, <1>4
<1> HIDE DEF plain
<1>6. \A n \in {1, 2} : upTo(n) \in ShellWords
  <2> SUFFICES ASSUME NEW n \in {1, 2} PROVE upTo(n) \in ShellWords
    OBVIOUS
  <2>1. Len(plain) \in Nat
    BY <1>5 DEF ShellWords
  <2> DEFINE m == IF Len(plain) < n THEN Len(plain) ELSE n
  <2>2. m \in Nat /\ m <= Len(plain)
    BY <2>1
  <2> HIDE DEF m
  <2>3. SubSeq(plain, 1, m) \in ShellWords
    BY <1>5, <2>1, <2>2 DEF ShellWords
  <2> QED  BY <2>3 DEF m
<1>7. \A x \in STRING, t \in ShellWords : <<x>> \o t # <<>>
  BY DEF ShellWords
<1>8. \/ Shell!Recipe(s) \in {<<Head(s.words)>>, <<Head(s.words), "run", args[2]>>}
      \/ \E x \in {Head(s.words), "go"}, n \in {1, 2} : Shell!Recipe(s) = <<x>> \o upTo(n)
  <2>1. Shell!Recipe(s) =
          CASE Head(s.words) = "go" ->
                   <<"go">> \o upTo(IF plain # <<>> /\ plain[1] = "mod" THEN 2 ELSE 1)
            [] /\ Head(s.words) \in {"npm", "pnpm"} /\ Len(args) >= 2
               /\ args[1] \in {"run", "run-script"} -> <<Head(s.words), "run", args[2]>>
            [] Head(s.words) \in {"git", "npm", "pnpm", "npx"} -> <<Head(s.words)>> \o upTo(1)
            [] OTHER -> <<Head(s.words)>>
    BY DEF Shell!Recipe, args, plain
  <2> HIDE DEF upTo
  <2> QED  BY <2>1
<1> HIDE DEF upTo
<1> QED  BY <1>2, <1>6, <1>7, <1>8

ShellTyped == shellCommand \in Shell!SeqOf(ShellSegments, ShellMaxSegments)
ShellTrusts ==
    \A r \in shellTrusted : \E s \in ShellSegments : r = Shell!Recipe(s) /\ Shell!Rememberable(r)
ShellInv == ShellTyped /\ ShellTrusts

LEMMA ShellIsTyped == ASSUME Shell!CommandsAssumption, ShellInv PROVE Shell!TypeOK
BY ShellRecipe DEF ShellInv, ShellTyped, ShellTrusts, Shell!TypeOK

LEMMA ShellBegins ==
    ASSUME Shell!CommandsAssumption, Shell!Init
    PROVE  ShellInv
BY DEF Shell!Init, Shell!CommandsAssumption, Shell!SeqOf, ShellInv, ShellTyped, ShellTrusts

LEMMA ShellRests == ASSUME ShellInv, UNCHANGED shellVars PROVE ShellInv'
BY DEF ShellInv, shellVars, ShellTyped, ShellTrusts

LEMMA ShellStep ==
    ASSUME Shell!CommandsAssumption, ShellInv, Shell!Next
    PROVE  ShellInv'
<1>1. ASSUME NEW c \in Shell!SeqOf(ShellSegments, ShellMaxSegments), Shell!Ask(c) PROVE ShellInv'
  BY <1>1 DEF Shell!Ask, ShellInv, ShellTyped, ShellTrusts
<1>2. ASSUME NEW saved \in BOOLEAN, Shell!Decided(saved) PROVE ShellInv'
  <2>1. ShellTyped'
    BY <1>2 DEF Shell!Decided, Shell!SeqOf, Shell!CommandsAssumption, ShellTyped
  <2>2. \A i \in DOMAIN shellCommand : shellCommand[i] \in ShellSegments
    BY DEF ShellInv, ShellTyped, Shell!SeqOf
  <2>3. \A r \in Shell!Normalized(shellCommand) :
            Shell!Rememberable(r) /\ \E i \in DOMAIN shellCommand : r = Shell!Recipe(shellCommand[i])
    BY DEF Shell!Normalized, Shell!Recipes
  <2>4. ShellTrusts'
    BY <1>2, <2>2, <2>3 DEF Shell!Decided, ShellTrusts
  <2> QED  BY <2>1, <2>4 DEF ShellInv
<1> QED  BY <1>1, <1>2 DEF Shell!Next

LEMMA ShellIsJudged ==
    ASSUME Shell!CommandsAssumption, ShellInv
    PROVE  Shell!CommandsAreJudged
<1>1. shellCommand \in Seq(ShellSegments)
  BY DEF ShellInv, ShellTyped, Shell!SeqOf
<1>2. Shell!RecipesAreStable
  <2> SUFFICES ASSUME NEW r \in shellTrusted
               PROVE  Shell!Normalized(<<Shell!AsSegment(r)>>) = {r}
    BY DEF Shell!RecipesAreStable
  <2>1. Shell!Rememberable(r) /\ Shell!Recipe(Shell!AsSegment(r)) = r
    BY SegmentsAssumption DEF ShellInv, ShellTrusts, Shell!JudgedAlone
  <2>2. Shell!Recipes(<<Shell!AsSegment(r)>>) = {r}
    BY <2>1 DEF Shell!Recipes
  <2> QED  BY <2>1, <2>2 DEF Shell!Normalized
<1> QED  BY <1>1, <1>2, ShellParts, ShellJudged, ShellCard DEF Shell!CommandsAreJudged

------------------------------------------------------------------------------
(* All of them. A behaviour is of one service, and the others stay.            *)

Inv ==
    /\ focus \in Services
    /\ SessionInv /\ BridgeInv /\ PlanInv /\ CatalogInv /\ PrintInv /\ StreamInv
    /\ ToolInv /\ ShellInv /\ BusInv

LEMMA Assumed ==
    /\ Session!AcpAssumption /\ Resident!BridgeAssumption /\ Plan!PlanAssumption
    /\ Catalog!CatalogAssumption /\ OneShot!PrintAssumption /\ Stream!StreamsAssumption
    /\ Tool!ToolKindsAssumption /\ Shell!CommandsAssumption /\ Bus!EventBusAssumption
BY ServicesAssumption DEF ServicesAssumption

LEMMA Begins == Init => Inv
BY Assumed, SessionBegins, BridgeBegins, PlanBegins, CatalogBegins, PrintBegins, StreamBegins,
   ToolBegins, ShellBegins, BusBegins
   DEF Init, Inv

LEMMA Steps == Inv /\ [Next]_vars => Inv'
<1> SUFFICES ASSUME Inv, [Next]_vars PROVE Inv'
  OBVIOUS
<1> USE Assumed
<1>1. focus' = focus
  BY DEF Next, vars
<1>2. /\ Session!Next \/ UNCHANGED sessionVars
      /\ Resident!Next \/ UNCHANGED bridgeVars
      /\ Plan!Next \/ UNCHANGED planVars
      /\ Catalog!Next \/ UNCHANGED catalogVars
      /\ OneShot!Next \/ UNCHANGED printVars
  BY DEF Next, vars
<1>3. /\ Stream!Next \/ UNCHANGED streamVars
      /\ Tool!Next \/ UNCHANGED toolVars
      /\ Shell!Next \/ UNCHANGED shellVars
      /\ Bus!Next \/ UNCHANGED busVars
  BY DEF Next, vars
<1>4. SessionInv' /\ BridgeInv' /\ PlanInv'
  BY <1>2, SessionStep, SessionRests, BridgeStep, BridgeRests, PlanStep, PlanRests DEF Inv
<1>5. CatalogInv' /\ PrintInv' /\ StreamInv'
  BY <1>2, <1>3, CatalogStep, CatalogRests, PrintStep, PrintRests, StreamStep, StreamRests DEF Inv
<1>6. ToolInv' /\ ShellInv' /\ BusInv'
  BY <1>3, ToolStep, ToolRests, ShellStep, ShellRests, BusStep, BusRests DEF Inv
<1> QED  BY <1>1, <1>4, <1>5, <1>6 DEF Inv

\* The state of each service has its types in every reachable state, for any number of
\* prompts, plans, callers, turns, chunks, segments, publishers and links: in particular
\* one caller at most asks for the list of models, the list of todos holds each id once
\* with the status that the agent last gave it, an entry of the table of questions
\* belongs to a goroutine that will look at it, and no queue outgrows its bound
\* (acp.go, session.go, acp_cursor.go, model_catalog.go, print.go, agent_stream.go,
\* toolkind_map.go, readonly_kind.go, event_bus.go).
THEOREM TypeCorrect == Spec => []TypeOK
<1>1. Inv => TypeOK
  <2> SUFFICES ASSUME Inv PROVE TypeOK
    OBVIOUS
  <2> USE Assumed
  <2>1. Session!TypeOK /\ Resident!TypeOK /\ Plan!TypeOK
    BY BridgeIsTyped, PlanIsTyped DEF Inv, SessionInv
  <2>2. Catalog!TypeOK /\ OneShot!TypeOK /\ Stream!TypeOK
    BY CatalogIsTyped, PrintIsTyped, StreamIsTyped DEF Inv
  <2>3. Tool!TypeOK /\ Shell!TypeOK /\ Bus!TypeOK
    BY ToolIsTyped, ShellIsTyped, BusIsTyped DEF Inv
  <2> QED  BY <2>1, <2>2, <2>3 DEF Inv, TypeOK
<1> QED  BY Begins, Steps, <1>1, PTL DEF Spec

\* A command of any number of segments is taken for no milder than each of them would
\* be alone, whatever it hides, and for no milder than what each does that hides
\* nothing, if those are judged right alone; its card says why it needs the user. What
\* a segment hides is beyond this (NothingIsHidden of Commands). No request of a tool
\* that changes something passes as a query, and among any options an answer takes one
\* that means it (readonly_kind.go, git_kind.go, shell_segments.go, shell_recipe.go,
\* toolkind_map.go, perm_kind.go).
THEOREM CallsJudged == Spec => []CallsAreJudged
<1>1. Inv => CallsAreJudged
  BY Assumed, ShellIsJudged DEF Inv, ToolInv, CallsAreJudged
<1> QED  BY Begins, Steps, <1>1, PTL DEF Spec

------------------------------------------------------------------------------
(* What is on its way. Each of these invariants stands on the one above.       *)

Kept ==
    /\ SessionTells /\ PlanHeld /\ PrintHeld /\ Resident!WakeUpsReach
    /\ StreamLedger /\ Bus!NewestIsOnTheWay

LEMMA KeptBegins == Init => Kept
BY DeathBegins, HandBegins, DecisionBegins, WakeBegins, LedgerBegins, NewsBegins DEF Init, Kept

LEMMA KeptSteps == Inv /\ Kept /\ [Next]_vars => Kept'
<1> SUFFICES ASSUME Inv, Kept, [Next]_vars PROVE Kept'
  OBVIOUS
<1> USE Assumed
<1>1. /\ Session!Next \/ UNCHANGED sessionVars
      /\ Bus!Next \/ UNCHANGED busVars
      /\ OneShot!Next \/ UNCHANGED printVars
      /\ Stream!Next \/ UNCHANGED streamVars
      /\ Plan!Next \/ UNCHANGED planVars
      /\ Resident!Next \/ UNCHANGED bridgeVars
  BY DEF Next, vars
<1>2. SessionInv /\ BusInv /\ PrintInv /\ StreamInv /\ PlanInv /\ BridgeInv
  BY DEF Inv
<1>3. /\ SessionTells /\ Bus!NewestIsOnTheWay /\ PrintHeld /\ StreamLedger
      /\ PlanHeld /\ Resident!WakeUpsReach
  BY DEF Kept
<1>4. SessionTells'
  BY <1>1, <1>2, <1>3, DeathStep, DeathRests
<1>5. Bus!NewestIsOnTheWay'
  BY <1>1, <1>2, <1>3, NewsStep, NewsRests
<1>6. PrintHeld'
  BY <1>1, <1>2, <1>3, DecisionStep, DecisionRests
<1>7. StreamLedger'
  BY <1>1, <1>2, <1>3, LedgerStep, LedgerRests
<1>8. PlanHeld' /\ Resident!WakeUpsReach'
  BY <1>1, <1>2, <1>3, HandStep, HandRests, WakeStep, WakeRests
<1> QED  BY <1>4, <1>5, <1>6, <1>7, <1>8 DEF Kept

\* Whoever listens has heard of every death that the watcher has seen, whichever of
\* OnEvent and watchExit came first, and who has heard has closed its own done: the
\* part of AgentsEndCleanly that is an invariant of the session (session.go).
THEOREM DeathsTold == Spec => []Session!SeenDeathsAreTold
<1>1. Kept => Session!SeenDeathsAreTold
  BY DEF Kept, SessionTells
<1> QED  BY Begins, Steps, KeptBegins, KeptSteps, <1>1, PTL DEF Spec

\* A plan without a reply is still to be read or is being handled, and a queued switch
\* of mode belongs to the plan whose reply is next, for any number of plans and modes:
\* the part of AnswersArrive that is an invariant of the plans (acp_cursor.go,
\* acp_cursor_plan.go).
THEOREM PlansInHand == Spec => []Plan!PlansAreInHand
<1>1. Inv /\ Kept => Plan!PlansAreInHand
  BY PlanHeldIs DEF Inv, Kept
<1> QED  BY Begins, Steps, KeptBegins, KeptSteps, <1>1, PTL DEF Spec

\* A prompt that sleeps, or is about to, has nothing to wake up for but the end of its
\* context: whoever ends a turn, fails or closes changes the session and broadcasts
\* under the lock. This is the part of AnswersArrive that is an invariant of the
\* resident bridge's client (waitTurn, handleEvent, fail and Close in session.go).
THEOREM WakeUpsArrive == Spec => []Resident!WakeUpsReach
<1>1. Kept => Resident!WakeUpsReach
  BY DEF Kept
<1> QED  BY Begins, Steps, KeptBegins, KeptSteps, <1>1, PTL DEF Spec

\* A decision that is pending has a handler that has not returned, and no answer was
\* given before to the call it stands for, whatever overtakes or times out: the part
\* of AnswersArrive that is an invariant of the print agent (RegisterPending, Resolve
\* and the timeout in core/hook.go).
THEOREM DecisionsHeard == Spec => []OneShot!PendingHasAHandler
<1>1. Kept => OneShot!PendingHasAHandler
  BY DEF Kept, PrintHeld
<1> QED  BY Begins, Steps, KeptBegins, KeptSteps, <1>1, PTL DEF Spec

\* A client that is connected has the newest version of a task, or an event that
\* holds it is still to come, or the loop will yet read the store: a full queue, a
\* reconnection and any number of publishers lose it nowhere. This is the part of
\* NothingIsLost that is an invariant of the bus (core/event_bus.go, api/ws.go).
THEOREM NewsOnTheWay == Spec => []Bus!NewestIsOnTheWay
<1>1. Kept => Bus!NewestIsOnTheWay
  BY DEF Kept
<1> QED  BY Begins, Steps, KeptBegins, KeptSteps, <1>1, PTL DEF Spec

\* A chunk that an agent has sent is in exactly one place at any time, a buffer, the
\* hands of one flush or the events, and stands there once, for any number of chunks
\* and whichever of the timers, the end of the turn and the closing of the session
\* writes it: the part of NothingIsLost that is an invariant of the streams (Flush in
\* agent_stream.go and in agent_toolcall.go).
THEOREM ChunksInOnePlace == Spec => []Stream!EachInOnePlace
<1>1. Kept => Stream!EachInOnePlace
  BY LedgerIsKept DEF Kept
<1> QED  BY Begins, Steps, KeptBegins, KeptSteps, <1>1, PTL DEF Spec
==============================================================================
