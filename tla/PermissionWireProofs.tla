------------------------ MODULE PermissionWireProofs ------------------------
(***************************************************************************)
(* Theorems about PermissionWire for any requests of any kinds, whatever   *)
(* users decide, whatever goes wrong and for any number of turns: typing,  *)
(* that what is recorded as approved was told to the agent, that nothing   *)
(* settled is settled again, and that a card leads on.                     *)
(*                                                                         *)
(* Each request has a way to go: in line, in the hands of the goroutine    *)
(* that shows its card, shown, taken by its solver or by its timer, and    *)
(* settled.  The invariant says that nobody else meets it on that way.     *)
(***************************************************************************)
EXTENDS PermissionWire, TLAPS

Asking(r) == pc[<<"ask", r>>]
Solving(r) == pc[<<"solve", r>>]
Expiring(r) == pc[<<"expire", r>>]

\* p has a card in its hands, and has not shown it yet.
Due(p) == pc[p] \in {"show", "unshown"}

\* The labels of each kind of goroutine.
Stages ==
    \A r \in Reqs :
        /\ Asking(r) \in {"new", "show", "arm", "unshown", "done"}
        /\ Solving(r) \in {"idle", "drive", "record", "advance", "back", "show", "arm", "unshown"}
        /\ Expiring(r) \in {"idle", "deny", "advance", "back", "show", "arm", "unshown",
                            "clear", "done"}

\* A card is in the hands of one goroutine at most, which has it for its steps.
Carrying ==
    /\ \A p \in Procs : at[p] # NoReq <=> pc[p] \in {"show", "arm", "unshown"}
    /\ \A p, q \in Procs : at[p] # NoReq /\ at[p] = at[q] => p = q
    /\ \A r \in Reqs : at[<<"ask", r>>] \in {r, NoReq}

\* A request that is not in the tables yet is nowhere.
New ==
    \A r \in Reqs : Asking(r) = "new" =>
        /\ r \notin pending \cup shown /\ displayed # r
        /\ settled[r] = "no" /\ answer[r] = "none"
        /\ \A p \in Procs : at[p] # r

\* Before its card is shown nobody decides about a request, and no timer runs.
Unseen ==
    \A r \in Reqs \ shown : Solving(r) = "idle" /\ Expiring(r) = "idle" /\ timer[r] = "none"

\* What waits has no answer, and nobody is about to give one.
Waits ==
    \A r \in pending :
        /\ settled[r] = "no" /\ answer[r] = "none"
        /\ Solving(r) = "idle" /\ Expiring(r) = "idle"

\* What stands in line is behind the displayed request.
InLine ==
    \A r \in ToSet(queue) :
        r \notin shown /\ displayed # r /\ \A p \in Procs : at[p] # r

\* A card that is due is new to everybody; the timer is started after it was shown.
DueIsUnseen ==
    \A p \in Procs :
        /\ Due(p) => at[p] \notin shown /\ settled[at[p]] = "no"
        /\ pc[p] = "arm" => at[p] \in shown

\* The solver that took a request is the only one who answers and settles it.
Taken ==
    \A r \in Reqs : Solving(r) \in {"drive", "record"} =>
        /\ r \notin pending /\ settled[r] = "no" /\ Expiring(r) = "idle"
        /\ Solving(r) = "drive" => answer[r] = "none"
        /\ Solving(r) = "record" =>
              answer[r] = IF choice[r] = "deny" THEN "denied" ELSE "approved"

\* A goroutine that advances the display has settled its request.
Settled ==
    \A r \in Reqs :
        /\ Solving(r) \in {"advance", "back", "show", "arm", "unshown"} => settled[r] # "no"
        /\ Expiring(r) # "idle" => settled[r] # "no"

\* While the wire is there, the displayed request is the one whose card is due, or
\* whose card was shown and somebody still decides about.
DueIsDisplayed ==
    \A p \in Procs : Due(p) =>
        /\ displayed = at[p] /\ at[p] \in pending
        /\ pc[p] = "unshown" => status # "waiting_input"
ShownIsDisplayed ==
    \A r \in shown : r \in pending \/ Solving(r) = "drive" => displayed = r
DisplayedLives ==
    displayed # NoReq =>
        \/ \E p \in Procs : Due(p) /\ at[p] = displayed
        \/ /\ displayed \in shown
           /\ \/ displayed \in pending
              \/ settled[displayed] # "no"
              \/ Solving(displayed) \in {"drive", "record"}

\* The card of a waiting task is the displayed one, or is about to be replaced by
\* that, or to be taken away.
CardIsCurrent ==
    status = "waiting_input" =>
        /\ card \in shown
        /\ \/ displayed = card
           \/ \E p \in Procs : Due(p) /\ displayed = at[p]
           \/ \E p \in Procs : pc[p] = "back" /\ p[2] = card

OpenInv == DueIsDisplayed /\ ShownIsDisplayed /\ DisplayedLives /\ CardIsCurrent


-----------------------------------------------------------------------------
(* What the steps do to the goroutines, the answers and the records *)

Labels == {"new", "idle", "show", "arm", "unshown", "drive", "record",
           "deny", "advance", "back", "clear", "done"}
Records == {"no", "approved", "denied"}
Answers == {"none", "approved", "denied"}

LEMMA Pairs ==
  /\ \A r \in Reqs : <<"ask", r>> \in Procs /\ <<"solve", r>> \in Procs /\ <<"expire", r>> \in Procs
  /\ \A a, b \in Roles, r, s \in Reqs : <<a, r>> = <<b, s>> => a = b /\ r = s
  /\ \A p \in Procs : p[1] \in Roles /\ p[2] \in Reqs /\ p = <<p[1], p[2]>>
  BY DEF Procs, Roles

LEMMA GotoEffect ==
  ASSUME pc \in [Procs -> Labels], NEW p \in Procs, NEW l \in Labels, Goto(p, l)
  PROVE  /\ pc' \in [Procs -> Labels] /\ pc'[p] = l
         /\ \A q \in Procs \ {p} : pc'[q] = pc[q]
  BY DEF Goto

\* Goroutine p goes on to l, all others stay where they are.
Moves(p, l) ==
    /\ pc' \in [Procs -> Labels] /\ pc'[p] = l
    /\ \A q \in Procs \ {p} : pc'[q] = pc[q]
    /\ \A s \in Reqs :
          /\ Asking(s)' = IF p[1] = "ask" /\ p[2] = s THEN l ELSE Asking(s)
          /\ Solving(s)' = IF p[1] = "solve" /\ p[2] = s THEN l ELSE Solving(s)
          /\ Expiring(s)' = IF p[1] = "expire" /\ p[2] = s THEN l ELSE Expiring(s)

LEMMA GotoMoves ==
  ASSUME pc \in [Procs -> Labels], NEW p \in Procs, NEW l \in Labels, Goto(p, l)
  PROVE  Moves(p, l)
  <1>1. pc' \in [Procs -> Labels] /\ pc'[p] = l /\ \A q \in Procs \ {p} : pc'[q] = pc[q]
    BY DEF Goto
  <1>2. p[1] \in Roles /\ p[2] \in Reqs /\ p = <<p[1], p[2]>>
    BY Pairs
  <1>3. ASSUME NEW s \in Reqs, NEW role \in Roles
        PROVE  pc'[<<role, s>>] = IF p[1] = role /\ p[2] = s THEN l ELSE pc[<<role, s>>]
    <2>1. <<role, s>> \in Procs
      BY DEF Procs
    <2>2. p = <<role, s>> <=> p[1] = role /\ p[2] = s
      BY <1>2, Pairs
    <2> QED BY <1>1, <2>1, <2>2
  <1>4. \A s \in Reqs :
          /\ Asking(s)' = IF p[1] = "ask" /\ p[2] = s THEN l ELSE Asking(s)
          /\ Solving(s)' = IF p[1] = "solve" /\ p[2] = s THEN l ELSE Solving(s)
          /\ Expiring(s)' = IF p[1] = "expire" /\ p[2] = s THEN l ELSE Expiring(s)
    BY <1>3 DEF Asking, Solving, Expiring, Roles
  <1> QED BY <1>1, <1>4 DEF Moves

LEMMA TellEffect ==
  ASSUME answer \in [Reqs -> Answers], NEW rs, NEW what \in {"approved", "denied"}, Tell(rs, what)
  PROVE  /\ answer' \in [Reqs -> Answers]
         /\ \A s \in Reqs : answer'[s] = IF s \in rs /\ answer[s] = "none" THEN what ELSE answer[s]
  BY DEF Tell, Answers

LEMMA SettleEffect ==
  ASSUME settled \in [Reqs -> Records], NEW r \in Reqs, NEW how \in Records, Settle(r, how)
  PROVE  /\ settled' \in [Reqs -> Records] /\ settled'[r] = how
         /\ \A s \in Reqs \ {r} : settled'[s] = settled[s]
  BY DEF Settle

\* An answer once given stays, so that telling somebody takes no approval back.
LEMMA TellKeeps ==
  ASSUME answer \in [Reqs -> Answers], NEW rs, NEW what \in {"approved", "denied"}, Tell(rs, what),
         NEW r \in Reqs, answer[r] # "none"
  PROVE  answer'[r] = answer[r]
  BY TellEffect

Typed ==
    /\ pending \subseteq Reqs /\ queue \in Seq(Reqs) /\ displayed \in Reqs \cup {NoReq}
    /\ settled \in [Reqs -> Records] /\ timer \in [Reqs -> {"none", "armed", "stopped"}]
    /\ closed \in BOOLEAN
    /\ status \in {"running", "waiting_input", "terminal"} /\ card \in Reqs \cup {NoReq}
    /\ shown \subseteq Reqs /\ answer \in [Reqs -> Answers]
    /\ pc \in [Procs -> Labels] /\ at \in [Procs -> Reqs \cup {NoReq}]
    /\ choice \in [Reqs -> Offered \cup {"invalid", "none"}]
    /\ turns \in 1 .. MaxTurns
    /\ ToSet(queue) \subseteq pending
Once == \A i, j \in DOMAIN queue : queue[i] = queue[j] => i = j
Memory == remembered \in [session : SUBSET Kinds, turn : SUBSET Kinds, cooling : SUBSET Kinds]

LEMMA Parts == TypeOK <=> Typed /\ Once /\ Memory
  BY DEF TypeOK, Typed, Once, Memory, Records, Answers, Labels

WireParts ==
    /\ Typed /\ Once /\ Memory /\ ApprovedIsTold
    /\ Stages /\ Carrying /\ New /\ Unseen /\ Waits /\ InLine /\ DueIsUnseen
    /\ Taken /\ Settled

IInv == WireParts /\ (~closed => OpenInv)

Carries(l) == l \in {"show", "arm", "unshown"}

LEMMA CarryingKept ==
  ASSUME Carrying, UNCHANGED at, NEW p \in Procs, NEW l, Moves(p, l), Carries(pc[p]) <=> Carries(l)
  PROVE  Carrying'
  <1>1. \A q \in Procs : Carries(pc'[q]) <=> Carries(pc[q])
    BY DEF Moves
  <1> QED BY <1>1 DEF Carrying, Carries

LEMMA CarryingTaken ==
  ASSUME Typed, Carrying, NEW p \in Procs, NEW l, Moves(p, l), Carries(l),
         NEW r \in Reqs, at' = [at EXCEPT ![p] = r], \A q \in Procs : at[q] # r,
         p[1] = "ask" => p[2] = r
  PROVE  Carrying'
  <1>1. r # NoReq /\ at'[p] = r /\ \A q \in Procs \ {p} : at'[q] = at[q]
    BY NoReqAssumption DEF Typed
  <1>2. \A q \in Procs : at'[q] # NoReq <=> Carries(pc'[q])
    BY <1>1 DEF Moves, Carrying, Carries
  <1>3. \A q1, q2 \in Procs : at'[q1] # NoReq /\ at'[q1] = at'[q2] => q1 = q2
    BY <1>1 DEF Carrying
  <1>4. ASSUME NEW s \in Reqs PROVE at'[<<"ask", s>>] \in {s, NoReq}
    <2>1. <<"ask", s>> \in Procs /\ <<"ask", s>>[1] = "ask" /\ <<"ask", s>>[2] = s
      BY Pairs
    <2> QED BY <1>1, <2>1 DEF Carrying
  <1> QED BY <1>2, <1>3, <1>4 DEF Carrying, Carries

LEMMA CarryingDropped ==
  ASSUME Typed, Carrying, NEW p \in Procs, NEW l, Moves(p, l), ~Carries(l),
         at' = [at EXCEPT ![p] = NoReq]
  PROVE  Carrying'
  <1>1. at'[p] = NoReq /\ \A q \in Procs \ {p} : at'[q] = at[q]
    BY DEF Typed
  <1>2. \A q \in Procs : at'[q] # NoReq <=> Carries(pc'[q])
    BY <1>1 DEF Moves, Carrying, Carries
  <1>3. \A q1, q2 \in Procs : at'[q1] # NoReq /\ at'[q1] = at'[q2] => q1 = q2
    BY <1>1 DEF Carrying
  <1>4. ASSUME NEW s \in Reqs PROVE at'[<<"ask", s>>] \in {s, NoReq}
    BY <1>1, Pairs DEF Carrying
  <1> QED BY <1>2, <1>3, <1>4 DEF Carrying, Carries

StagesOf(role) ==
    CASE role = "ask" -> {"new", "show", "arm", "unshown", "done"}
      [] role = "solve" -> {"idle", "drive", "record", "advance", "back", "show", "arm", "unshown"}
      [] role = "expire" -> {"idle", "deny", "advance", "back", "show", "arm", "unshown",
                             "clear", "done"}

LEMMA StagesStep ==
  ASSUME Stages, NEW p \in Procs, NEW l \in StagesOf(p[1]), Moves(p, l)
  PROVE  Stages'
  <1>1. p[1] \in Roles
    BY Pairs
  <1>2. /\ p[1] = "ask" => l \in StagesOf("ask")
        /\ p[1] = "solve" => l \in StagesOf("solve")
        /\ p[1] = "expire" => l \in StagesOf("expire")
    OBVIOUS
  <1> QED BY <1>1, <1>2 DEF Moves, Stages, StagesOf, Roles

LEMMA DueRequest ==
  ASSUME Typed, Carrying
  PROVE  \A q \in Procs : Due(q) => at[q] \in Reqs
  BY DEF Typed, Carrying, Due

\* Steps of the agent's callback.
LEMMA AutoStep ==
  ASSUME WireParts, NEW r \in Reqs, AutoApprove(r) \/ CoolDown(r)
  PROVE  WireParts'
  <1> DEFINE p == <<"ask", r>>
  <1>0. p \in Procs /\ p[1] = "ask" /\ p[2] = r /\ Asking(r) = pc[p]
    BY Pairs DEF Asking
  <1>1. Moves(p, "done") /\ pc[p] = "new"
    BY <1>0, GotoMoves DEF AutoApprove, CoolDown, WireParts, Typed, Labels
  <1>2. /\ r \notin pending \cup shown /\ displayed # r /\ settled[r] = "no" /\ answer[r] = "none"
        /\ \A q \in Procs : at[q] # r
    BY <1>0, <1>1 DEF WireParts, New
  <1>3. PICK how \in {"approved", "denied"} : Tell({r}, how) /\ Settle(r, how)
    BY DEF AutoApprove, CoolDown
  <1>4. /\ answer' \in [Reqs -> Answers] /\ answer'[r] = how
        /\ \A s \in Reqs \ {r} : answer'[s] = answer[s]
    BY <1>2, <1>3, TellEffect DEF WireParts, Typed
  <1>5. /\ settled' \in [Reqs -> Records] /\ settled'[r] = how
        /\ \A s \in Reqs \ {r} : settled'[s] = settled[s]
    BY <1>3, SettleEffect DEF WireParts, Typed, Records
  <1>6. /\ UNCHANGED <<pending, queue, displayed, timer, remembered, closed, status, card, shown,
                       at, choice, turns>>
    BY DEF AutoApprove, CoolDown, store
  <1>7. Stages' /\ Carrying'
    BY <1>0, <1>1, <1>6, StagesStep, CarryingKept DEF WireParts, Carries, StagesOf
  <1>8. Typed' /\ Once' /\ Memory'
    BY <1>1, <1>4, <1>5, <1>6 DEF WireParts, Typed, Once, Memory, Moves
  <1>9. \A q \in Procs : (Due(q)' => Due(q)) /\ (pc'[q] = "arm" => pc[q] = "arm")
    BY <1>1 DEF Due, Moves
  <1> HIDE DEF p
  <1> USE <1>0, <1>1, <1>2, <1>4, <1>5, <1>6, <1>9 DEF WireParts, Moves
  <1>10. ApprovedIsTold'
    BY DEF ApprovedIsTold
  <1>11. New'
    BY DEF New
  <1>12. Unseen' /\ Waits' /\ InLine'
    BY DEF Unseen, Waits, InLine, Typed
  <1>14. DueIsUnseen'
    BY DueRequest DEF DueIsUnseen
  <1>13. Taken' /\ Settled'
    BY DEF Taken, Settled, Unseen
  <1> QED BY <1>7, <1>8, <1>10, <1>11, <1>12, <1>13, <1>14

LEMMA RegisterStep ==
  ASSUME WireParts, NEW r \in Reqs, Register(r)
  PROVE  WireParts'
  <1> DEFINE p == <<"ask", r>>
  <1>0. p \in Procs /\ p[1] = "ask" /\ p[2] = r /\ Asking(r) = pc[p]
    BY Pairs DEF Asking
  <1>1. pc[p] = "new" /\ IF displayed = NoReq THEN Moves(p, "show") ELSE Moves(p, "done")
    BY <1>0, GotoMoves DEF Register, WireParts, Typed, Labels
  <1>2. /\ r \notin pending \cup shown /\ displayed # r /\ settled[r] = "no" /\ answer[r] = "none"
        /\ \A q \in Procs : at[q] # r
    BY <1>0, <1>1 DEF WireParts, New
  <1>3. /\ pending' = pending \cup {r}
        /\ UNCHANGED <<settled, timer, remembered, closed, status, card, shown, answer, choice, turns>>
        /\ IF displayed = NoReq THEN displayed' = r /\ at' = [at EXCEPT ![p] = r] /\ UNCHANGED queue
                               ELSE queue' = Append(queue, r) /\ UNCHANGED <<displayed, at>>
    BY DEF Register, store
  <1>4. /\ queue' \in Seq(Reqs) /\ Once' /\ ToSet(queue') \subseteq ToSet(queue) \cup {r}
        /\ displayed = NoReq => ToSet(queue') = ToSet(queue)
    <2>1. queue \in Seq(Reqs) /\ Once /\ \A i \in DOMAIN queue : queue[i] # r
      BY <1>2 DEF WireParts, Typed, ToSet
    <2>2. CASE queue' = Append(queue, r)
      <3>1. queue' \in Seq(Reqs) /\ Len(queue') = Len(queue) + 1
        BY <2>1, <2>2
      <3>2. \A i \in DOMAIN queue' : queue'[i] = IF i \in DOMAIN queue THEN queue[i] ELSE r
        BY <2>1, <2>2
      <3>3. \A i \in DOMAIN queue' : i \notin DOMAIN queue => i = Len(queue) + 1
        BY <2>1, <2>2
      <3>4. Once'
        BY <2>1, <3>1, <3>2, <3>3 DEF Once
      <3> QED BY <1>3, <3>1, <3>2, <3>4 DEF ToSet
    <2> QED BY <1>3, <2>1, <2>2 DEF Once, ToSet
  <1>5. Carrying'
    BY <1>0, <1>1, <1>2, <1>3, CarryingTaken, CarryingKept DEF WireParts, Carries
  <1>6. Stages'
    BY <1>0, <1>1, StagesStep DEF WireParts, StagesOf
  <1>7. Typed' /\ Memory'
    <2>1. at' \in [Procs -> Reqs \cup {NoReq}] /\ pc' \in [Procs -> Labels]
      BY <1>0, <1>1, <1>3 DEF WireParts, Typed, Moves
    <2> QED BY <1>3, <1>4, <2>1 DEF WireParts, Typed, Memory
  <1>8. \A q \in Procs : Due(q)' => (at'[q] = at[q] /\ Due(q)) \/ (q = p /\ at'[q] = r /\ displayed = NoReq)
    BY <1>0, <1>1, <1>3 DEF WireParts, Typed, Due, Moves
  <1>c. \A q \in Procs : pc'[q] = "arm" => pc[q] = "arm" /\ at'[q] = at[q]
    BY <1>0, <1>1, <1>3 DEF WireParts, Typed, Moves
  <1>9. \A q \in Procs : at'[q] \in {at[q], r} /\ (displayed # NoReq => at'[q] = at[q])
    BY <1>0, <1>3 DEF WireParts, Typed
  <1>a. /\ Asking(r)' # "new" /\ \A s \in Reqs \ {r} : Asking(s)' = Asking(s)
        /\ \A s \in Reqs : Solving(s)' = Solving(s) /\ Expiring(s)' = Expiring(s)
    BY <1>0, <1>1 DEF Moves
  <1>b. r # NoReq
    BY NoReqAssumption
  <1> HIDE DEF p
  <1> USE <1>2, <1>3, <1>a DEF WireParts
  <1>10. ApprovedIsTold' /\ Taken' /\ Settled'
    BY DEF ApprovedIsTold, Taken, Settled, Unseen
  <1>11. New'
    BY <1>9, <1>b DEF New
  <1>12. Unseen' /\ Waits'
    BY DEF Unseen, Waits, Typed
  <1>13. InLine'
    <2>1. CASE displayed = NoReq
      <3>1. ToSet(queue') = ToSet(queue) /\ r \notin ToSet(queue) /\ displayed' = r
        BY <1>4, <2>1 DEF Typed
      <3> QED BY <1>9, <3>1 DEF InLine
    <2>2. CASE displayed # NoReq
      <3>1. UNCHANGED <<displayed, at>>
        BY <2>2
      <3> QED BY <1>4, <3>1 DEF InLine
    <2> QED BY <2>1, <2>2
  <1>14. DueIsUnseen'
    BY <1>8, <1>c, DueRequest DEF DueIsUnseen
  <1> QED BY <1>4, <1>5, <1>6, <1>7, <1>10, <1>11, <1>12, <1>13, <1>14

\* What show, advance and backToRunning do, for the callback, a solver or a timer.
\* Where a goroutine that may show a card, or has just done so, can be.
LEMMA OwnLabel ==
  ASSUME NEW p \in Procs
  PROVE  /\ p[2] \in Reqs /\ p[1] \in Roles
         /\ p[1] = "ask" => Asking(p[2]) = pc[p]
         /\ p[1] = "solve" => Solving(p[2]) = pc[p]
         /\ p[1] = "expire" => Expiring(p[2]) = pc[p]
  BY Pairs DEF Asking, Solving, Expiring

LEMMA ShowStep ==
  ASSUME WireParts, NEW p \in Procs, Show(p)
  PROVE  WireParts'
  <1>1. /\ pc[p] = "show" /\ IF status = "terminal" THEN Moves(p, "unshown") ELSE Moves(p, "arm")
    BY GotoMoves DEF Show, WireParts, Typed, Labels
  <1>2. at[p] \in Reqs /\ at[p] \notin shown /\ settled[at[p]] = "no"
    BY <1>1, DueRequest DEF WireParts, Due, DueIsUnseen
  <1>3. /\ UNCHANGED <<pending, queue, displayed, settled, timer, remembered, closed, answer, at,
                       choice, turns>>
        /\ status' \in {"terminal", "waiting_input"}
        /\ shown' = (IF status = "terminal" THEN shown ELSE shown \cup {at[p]})
        /\ card' \in {card, at[p]}
    BY DEF Show, wire, store
  <1>4. Carrying'
    BY <1>1, <1>3, CarryingKept DEF WireParts, Carries
  <1>5. Stages'
    <2>1. {"unshown", "arm"} \subseteq StagesOf(p[1])
      BY OwnLabel DEF StagesOf, Roles
    <2> QED BY <1>1, <2>1, StagesStep DEF WireParts
  <1>6. Typed' /\ Once' /\ Memory'
    BY <1>1, <1>2, <1>3 DEF WireParts, Typed, Once, Memory, Moves
  <1>7. \A q \in Procs : /\ Due(q)' => Due(q) /\ (q # p \/ shown' = shown)
                         /\ pc'[q] = "arm" => at[q] \in shown' \/ pc[q] = "arm"
    BY <1>1, <1>3 DEF Due, Moves
  <1>8. \A s \in Reqs : /\ Asking(s)' = "new" => Asking(s) = "new"
                        /\ Solving(s)' # Solving(s) => Solving(s) = "show" /\ Carries(Solving(s)')
                        /\ Expiring(s)' # Expiring(s) => Expiring(s) = "show"
    BY <1>1, OwnLabel DEF Moves, Carries
  <1> USE <1>2, <1>3, <1>8 DEF WireParts
  <1>10. ApprovedIsTold'
    BY DEF ApprovedIsTold
  <1>11. New'
    BY DEF New
  <1>12. Unseen'
    BY DEF Unseen
  <1>13. Waits' /\ Taken' /\ Settled'
    BY DEF Waits, Taken, Settled, Typed, Carries
  <1>14. InLine'
    BY DEF InLine
  <1>15. DueIsUnseen'
    <2>1. \A q \in Procs : q # p /\ Due(q) => at[q] # at[p]
      BY DueRequest, NoReqAssumption DEF Carrying
    <2> QED BY <1>7, <2>1, DueRequest DEF DueIsUnseen
  <1> QED BY <1>4, <1>5, <1>6, <1>10, <1>11, <1>12, <1>13, <1>14, <1>15

LEMMA ArmStep ==
  ASSUME WireParts, NEW p \in Procs, Arm(p)
  PROVE  WireParts'
  <1> DEFINE l == IF p[1] = "solve" THEN "idle" ELSE "done"
  <1>1. pc[p] = "arm" /\ Moves(p, l) /\ l \in {"idle", "done"}
    BY GotoMoves DEF Arm, WireParts, Typed, Labels
  <1>2. at[p] \in Reqs
    BY <1>1 DEF WireParts, Typed, Carrying
  <1>3. /\ UNCHANGED <<pending, queue, displayed, settled, remembered, closed, status, card, shown,
                       answer, choice, turns>>
        /\ timer' = timer \/ (at[p] \in pending /\ timer' = [timer EXCEPT ![at[p]] = "armed"])
        /\ at' = [at EXCEPT ![p] = NoReq]
    BY DEF Arm, Forget, store
  <1>4. Carrying'
    BY <1>1, <1>3, CarryingDropped DEF WireParts, Carries
  <1>5. Stages'
    <2>1. l \in StagesOf(p[1])
      BY OwnLabel DEF StagesOf, Roles
    <2> QED BY <1>1, <2>1, StagesStep DEF WireParts
  <1>6. Typed' /\ Once' /\ Memory'
    <2>1. timer' \in [Reqs -> {"none", "armed", "stopped"}] /\ at' \in [Procs -> Reqs \cup {NoReq}]
      BY <1>2, <1>3 DEF WireParts, Typed
    <2> QED BY <1>1, <1>3, <2>1 DEF WireParts, Typed, Once, Memory, Moves
  <1>7. \A q \in Procs : /\ at'[q] \in {at[q], NoReq}
                         /\ Due(q)' => Due(q) /\ at'[q] = at[q]
                         /\ pc'[q] = "arm" => pc[q] = "arm" /\ at'[q] = at[q]
    BY <1>1, <1>3 DEF WireParts, Typed, Due, Moves
  <1>8. \A s \in Reqs : /\ Asking(s)' = "new" => Asking(s) = "new"
                        /\ Solving(s)' # Solving(s) => Solving(s) = "arm" /\ Solving(s)' = "idle"
                        /\ Expiring(s)' # Expiring(s) => Expiring(s) = "arm"
    BY <1>1, OwnLabel DEF Moves
  <1>9. at[p] \in shown /\ \A s \in Reqs \ shown : timer'[s] = timer[s]
    BY <1>1, <1>3 DEF WireParts, DueIsUnseen, Typed
  <1> USE <1>2, <1>3, <1>8 DEF WireParts
  <1>10. ApprovedIsTold'
    BY DEF ApprovedIsTold
  <1>11. New'
    BY <1>7, NoReqAssumption DEF New
  <1>12. Unseen'
    BY <1>9 DEF Unseen
  <1>13. Waits' /\ Taken' /\ Settled'
    BY DEF Waits, Taken, Settled, Typed
  <1>14. InLine'
    BY <1>7, NoReqAssumption DEF InLine, Typed
  <1>15. DueIsUnseen'
    BY <1>7, DueRequest DEF DueIsUnseen
  <1> QED BY <1>4, <1>5, <1>6, <1>10, <1>11, <1>12, <1>13, <1>14, <1>15

\* onPermissionRequest and advance, when show has refused: what is lost is denied.
LEMMA DropStep ==
  ASSUME WireParts, NEW p \in Procs, NEW l \in {"done", "idle", "clear"}, l \in StagesOf(p[1]),
         pc[p] = "unshown", Goto(p, l), Forget(p), displayed' = NoReq,
         NEW lost, pending' = pending \ lost, Tell(lost, "denied"),
         \/ lost = {at[p]} /\ UNCHANGED queue
         \/ lost = {at[p]} \cup ToSet(queue) /\ queue' = <<>>,
         UNCHANGED <<settled, timer, remembered, closed, store, choice, turns>>
  PROVE  WireParts'
  <1>1. Moves(p, l)
    BY GotoMoves DEF WireParts, Typed, Labels
  <1>2. at[p] \in Reqs /\ at[p] \notin shown /\ at[p] \notin ToSet(queue)
    BY DueRequest DEF WireParts, Due, DueIsUnseen, InLine
  <1>3. /\ answer' \in [Reqs -> Answers]
        /\ \A s \in Reqs : answer'[s] = IF s \in lost /\ answer[s] = "none" THEN "denied" ELSE answer[s]
    BY TellEffect DEF WireParts, Typed
  <1>4. lost \cap shown = {} /\ \A s \in lost : Asking(s) # "new"
    <2>1. \A s \in lost : s \notin shown /\ (s \in pending \/ s = at[p])
      BY <1>2 DEF WireParts, InLine, Typed
    <2> QED BY <1>2, <2>1 DEF WireParts, New, Typed
  <1>5. ToSet(queue') \subseteq ToSet(queue) \cap pending' /\ queue' \in Seq(Reqs) /\ Once'
    <2>1. CASE UNCHANGED queue /\ lost = {at[p]}
      BY <1>2, <2>1 DEF WireParts, Typed, Once, ToSet
    <2>2. CASE queue' = <<>>
      <3>1. DOMAIN queue' = {} /\ queue' \in Seq(Reqs)
        BY <2>2
      <3> QED BY <3>1 DEF Once, ToSet
    <2> QED BY <2>1, <2>2
  <1>6. /\ UNCHANGED <<settled, timer, remembered, closed, status, card, shown, choice, turns>>
        /\ at' = [at EXCEPT ![p] = NoReq]
    BY DEF Forget, store
  <1>7. Carrying'
    BY <1>1, <1>6, CarryingDropped DEF WireParts, Carries
  <1>8. Stages'
    BY <1>1, StagesStep DEF WireParts
  <1>9. Typed' /\ Memory'
    <2>1. at' \in [Procs -> Reqs \cup {NoReq}] /\ pending' \subseteq Reqs
      BY <1>6 DEF WireParts, Typed
    <2> QED BY <1>1, <1>3, <1>5, <1>6, <2>1 DEF WireParts, Typed, Memory, Moves
  <1>10. \A q \in Procs : /\ at'[q] \in {at[q], NoReq}
                          /\ Due(q)' => Due(q) /\ at'[q] = at[q]
                          /\ pc'[q] = "arm" => pc[q] = "arm" /\ at'[q] = at[q]
    BY <1>1, <1>6 DEF WireParts, Typed, Due, Moves
  <1>11. \A s \in Reqs : /\ Asking(s)' = "new" => Asking(s) = "new"
                         /\ Solving(s)' # Solving(s) =>
                              Solving(s) = "unshown" /\ Solving(s)' \in {"done", "idle", "clear"}
                         /\ Expiring(s)' # Expiring(s) => Expiring(s) = "unshown"
    BY <1>1, OwnLabel DEF Moves
  <1>12. Solving(p[2])' # "done" /\ Solving(p[2])' # "clear"
    BY <1>8, OwnLabel DEF Stages
  <1> USE <1>3, <1>6, <1>11 DEF WireParts
  <1>13. ApprovedIsTold'
    BY DEF ApprovedIsTold
  <1>14. New'
    BY <1>4, <1>10, NoReqAssumption DEF New
  <1>15. Unseen'
    BY DEF Unseen
  <1>16. Waits' /\ Settled'
    BY <1>8 DEF Waits, Settled, Typed, Stages
  <1>17. Taken'
    <2>1. \A s \in Reqs : Solving(s)' \in {"drive", "record"} => Solving(s)' = Solving(s) /\ s \in shown
      BY DEF Unseen
    <2> QED BY <1>4, <2>1 DEF Taken
  <1>18. InLine'
    BY <1>5, <1>10, NoReqAssumption DEF InLine, Typed
  <1>19. DueIsUnseen'
    BY <1>10, DueRequest DEF DueIsUnseen
  <1> QED BY <1>5, <1>7, <1>8, <1>9, <1>13, <1>14, <1>15, <1>16, <1>17, <1>18, <1>19

LEMMA UnshownStep ==
  ASSUME WireParts, NEW p \in Procs, (p[1] = "ask" /\ Unshown(p[2])) \/ GiveUp(p)
  PROVE  WireParts'
  <1>1. CASE p[1] = "ask" /\ Unshown(p[2])
    <2>1. p = <<"ask", p[2]>> /\ at[p] = p[2]
      BY <1>1, Pairs DEF WireParts, Carrying, Unshown
    <2> QED BY <1>1, <2>1, DropStep DEF Unshown, StagesOf
  <1>2. CASE GiveUp(p)
    <2>1. NotAdvanced(p) \in {"idle", "clear"} /\ NotAdvanced(p) \in StagesOf(p[1])
      BY <1>2, OwnLabel DEF GiveUp, NotAdvanced, Advanced, StagesOf, Roles
    <2> QED BY <1>2, <2>1, DropStep DEF GiveUp
  <1> QED BY <1>1, <1>2

\* Advance takes the head of the line into the hands of p.
LEMMA HeadOfLine ==
  ASSUME WireParts, queue # <<>>
  PROVE  /\ Head(queue) \in Reqs /\ Head(queue) \in ToSet(queue) /\ Tail(queue) \in Seq(Reqs)
         /\ ToSet(Tail(queue)) = ToSet(queue) \ {Head(queue)}
         /\ \A i, j \in DOMAIN Tail(queue) : Tail(queue)[i] = Tail(queue)[j] => i = j
  <1>1. queue \in Seq(Reqs) /\ Once
    BY DEF WireParts, Typed
  <1>2. Head(queue) = queue[1] /\ 1 \in DOMAIN queue
    BY <1>1
  <1>3. /\ \A i \in DOMAIN Tail(queue) : i + 1 \in DOMAIN queue /\ Tail(queue)[i] = queue[i + 1] /\ i + 1 # 1
        /\ \A i \in DOMAIN queue : i # 1 => i - 1 \in DOMAIN Tail(queue) /\ Tail(queue)[i - 1] = queue[i]
    BY <1>1
  <1>4. ToSet(Tail(queue)) = ToSet(queue) \ {Head(queue)}
    <2>1. ASSUME NEW x \in ToSet(Tail(queue)) PROVE x \in ToSet(queue) \ {Head(queue)}
      BY <1>1, <1>2, <1>3, <2>1 DEF ToSet, Once
    <2>2. ASSUME NEW x \in ToSet(queue), x # Head(queue) PROVE x \in ToSet(Tail(queue))
      BY <1>2, <1>3, <2>2 DEF ToSet
    <2> QED BY <2>1, <2>2
  <1>5. \A i, j \in DOMAIN Tail(queue) : Tail(queue)[i] = Tail(queue)[j] => i = j
    <2> SUFFICES ASSUME NEW i \in DOMAIN Tail(queue), NEW j \in DOMAIN Tail(queue),
                        Tail(queue)[i] = Tail(queue)[j] PROVE i = j
      OBVIOUS
    <2>1. i + 1 = j + 1
      BY <1>1, <1>3 DEF Once
    <2> QED BY <1>1, <2>1
  <1>6. Head(queue) \in Reqs /\ Head(queue) \in ToSet(queue) /\ Tail(queue) \in Seq(Reqs)
    BY <1>1, <1>2 DEF ToSet
  <1> QED BY <1>4, <1>5, <1>6

\* Steps of advance, backToRunning and forceClearDecision on the display and the task.
LEMMA DisplayStep ==
  ASSUME WireParts, NEW p \in Procs, pc[p] \in {"advance", "back", "clear"},
         NEW l \in {"idle", "done", "clear", "back"}, l \in StagesOf(p[1]), Goto(p, l),
         displayed' \in {displayed, NoReq}, card' \in {card, NoReq},
         status' \in {"running", "waiting_input", "terminal"},
         UNCHANGED <<pending, queue, settled, timer, remembered, closed, shown, answer, at, choice,
                     turns>>
  PROVE  WireParts'
  <1>1. Moves(p, l)
    BY GotoMoves DEF WireParts, Typed, Labels
  <1>2. Carrying'
    BY <1>1, CarryingKept DEF WireParts, Carries
  <1>3. Stages'
    BY <1>1, StagesStep DEF WireParts
  <1>4. Typed' /\ Once' /\ Memory'
    BY <1>1 DEF WireParts, Typed, Once, Memory, Moves
  <1>5. \A q \in Procs : (Due(q)' => Due(q)) /\ (pc'[q] = "arm" => pc[q] = "arm")
    BY <1>1 DEF Due, Moves
  <1>6. \A s \in Reqs :
          /\ Asking(s)' = "new" => Asking(s) = "new"
          /\ Solving(s)' # Solving(s) => Solving(s) \in {"advance", "back"} /\ Solving(s)' \in {"idle", "back"}
          /\ Expiring(s)' # Expiring(s) => Expiring(s) \in {"advance", "back", "clear"}
    BY <1>1, <1>3, OwnLabel DEF Moves, WireParts, Stages
  <1> USE <1>6 DEF WireParts
  <1>7. ApprovedIsTold'
    BY DEF ApprovedIsTold
  <1>8. New'
    BY NoReqAssumption DEF New
  <1>9. Unseen'
    BY DEF Unseen
  <1>10. Waits' /\ Taken' /\ Settled'
    BY SMTT(30) DEF Waits, Taken, Settled, Typed
  <1>11. InLine'
    BY NoReqAssumption DEF InLine, Typed
  <1>12. DueIsUnseen'
    BY <1>5, DueRequest DEF DueIsUnseen
  <1> QED BY <1>2, <1>3, <1>4, <1>7, <1>8, <1>9, <1>10, <1>11, <1>12

LEMMA BackStep ==
  ASSUME WireParts, NEW p \in Procs, Back(p) \/ (p[1] = "expire" /\ ForceClear(p[2]))
  PROVE  WireParts'
  <1>0. /\ NotAdvanced(p) \in {"idle", "done", "clear"} /\ Advanced(p) \in {"idle", "done", "clear"}
        /\ p[1] # "ask" => NotAdvanced(p) \in StagesOf(p[1]) /\ Advanced(p) \in StagesOf(p[1])
    BY OwnLabel DEF NotAdvanced, Advanced, StagesOf, Roles
  <1>1. CASE Back(p)
    <2>1. p[1] # "ask"
      BY <1>1, OwnLabel DEF Back, WireParts, Stages
    <2>2. PICK l \in {Advanced(p), NotAdvanced(p)} : Goto(p, l)
      BY <1>1 DEF Back
    <2>3. card' \in {card, NoReq} /\ status' \in {"running", "waiting_input", "terminal"}
      BY <1>1 DEF Back, WireParts, Typed
    <2> QED BY <1>0, <1>1, <2>1, <2>2, <2>3, DisplayStep DEF Back, wire
  <1>2. CASE p[1] = "expire" /\ ForceClear(p[2])
    <2>1. p = <<"expire", p[2]>>
      BY <1>2, Pairs
    <2>2. card' \in {card, NoReq} /\ status' \in {"running", "waiting_input", "terminal"}
      BY <1>2 DEF ForceClear, WireParts, Typed
    <2> QED BY <1>2, <2>1, <2>2, DisplayStep DEF ForceClear, wire, StagesOf
  <1> QED BY <1>1, <1>2

LEMMA AdvanceStep ==
  ASSUME WireParts, NEW p \in Procs, Advance(p)
  PROVE  WireParts'
  <1>0. /\ pc[p] = "advance" /\ p[1] \in {"solve", "expire"}
        /\ NotAdvanced(p) \in {"idle", "clear"} /\ {NotAdvanced(p), "back", "show"} \subseteq StagesOf(p[1])
    <2>1. p[1] \in {"solve", "expire"} /\ pc[p] = "advance"
      BY OwnLabel DEF Advance, WireParts, Stages, Roles
    <2> QED BY <2>1 DEF NotAdvanced, Advanced, StagesOf
  <1>1. CASE Goto(p, NotAdvanced(p)) /\ UNCHANGED <<displayed, queue, at>>
    BY <1>0, <1>1, DisplayStep DEF Advance, store, WireParts, Typed
  <1>2. CASE Goto(p, "back") /\ displayed' = NoReq /\ UNCHANGED <<queue, at>>
    BY <1>0, <1>2, DisplayStep DEF Advance, store, WireParts, Typed
  <1>3. CASE /\ queue # <<>>
             /\ displayed' = Head(queue) /\ queue' = Tail(queue)
             /\ at' = [at EXCEPT ![p] = Head(queue)] /\ Goto(p, "show")
    <2> DEFINE h == Head(queue)
    <2>1. /\ h \in Reqs /\ h \in ToSet(queue) /\ h \in pending
          /\ ToSet(queue') = ToSet(queue) \ {h} /\ queue' \in Seq(Reqs) /\ Once'
      BY <1>3, HeadOfLine DEF WireParts, Typed, Once
    <2>2. h \notin shown /\ \A q \in Procs : at[q] # h
      BY <2>1 DEF WireParts, InLine
    <2>3. Moves(p, "show")
      BY <1>3, GotoMoves DEF WireParts, Typed, Labels
    <2>4. /\ UNCHANGED <<pending, settled, timer, remembered, closed, status, card, shown, answer,
                         choice, turns>>
          /\ displayed' = h /\ at' = [at EXCEPT ![p] = h]
      BY <1>3 DEF Advance, store
    <2> HIDE DEF h
    <2>5. Carrying'
      BY <1>0, <2>1, <2>2, <2>3, <2>4, CarryingTaken DEF WireParts, Carries
    <2>6. Stages'
      BY <1>0, <2>3, StagesStep DEF WireParts
    <2>7. Typed' /\ Memory'
      <3>1. at' \in [Procs -> Reqs \cup {NoReq}]
        BY <2>1, <2>4 DEF WireParts, Typed
      <3> QED BY <2>1, <2>3, <2>4, <3>1 DEF WireParts, Typed, Memory, Moves
    <2>8. \A q \in Procs :
             /\ Due(q)' => (Due(q) /\ at'[q] = at[q]) \/ at'[q] = h
             /\ pc'[q] = "arm" => pc[q] = "arm" /\ at'[q] = at[q]
             /\ at'[q] \in {at[q], h}
      BY <2>3, <2>4 DEF WireParts, Typed, Due, Moves
    <2>9. \A s \in Reqs :
             /\ Asking(s)' = Asking(s)
             /\ Solving(s)' # Solving(s) => Solving(s) = "advance" /\ Solving(s)' = "show"
             /\ Expiring(s)' # Expiring(s) => Expiring(s) = "advance"
      BY <1>0, <2>3, OwnLabel DEF Moves
    <2>10. Asking(h) # "new" /\ settled[h] = "no"
      BY <2>1 DEF WireParts, New, Waits
    <2> USE <2>1, <2>4, <2>9 DEF WireParts
    <2>11. ApprovedIsTold'
      BY DEF ApprovedIsTold
    <2>12. New'
      BY <2>8, <2>10 DEF New
    <2>13. Unseen'
      BY DEF Unseen
    <2>14. Waits' /\ Taken' /\ Settled'
      BY DEF Waits, Taken, Settled, Typed
    <2>15. InLine'
      BY <2>8 DEF InLine, Typed
    <2>16. DueIsUnseen'
      BY <2>2, <2>8, <2>10, DueRequest DEF DueIsUnseen
    <2> QED BY <2>5, <2>6, <2>7, <2>11, <2>12, <2>13, <2>14, <2>15, <2>16
  <1> QED BY <1>1, <1>2, <1>3 DEF Advance

\* Steps of a solver and of a timer with its own request: no card changes hands.
LEMMA CalmMove ==
  ASSUME WireParts, NEW p \in Procs, NEW l \in Labels, l \in StagesOf(p[1]), Goto(p, l),
         ~Carries(pc[p]), ~Carries(l), UNCHANGED at
  PROVE  /\ Moves(p, l) /\ Carrying' /\ Stages'
         /\ \A q \in Procs : (Due(q)' => Due(q)) /\ (pc'[q] = "arm" => pc[q] = "arm")
  <1>1. Moves(p, l)
    BY GotoMoves DEF WireParts, Typed
  <1>2. Carrying' /\ Stages'
    BY <1>1, CarryingKept, StagesStep DEF WireParts
  <1>3. \A q \in Procs : (Due(q)' => Due(q)) /\ (pc'[q] = "arm" => pc[q] = "arm")
    BY <1>1 DEF Due, Moves, Carries
  <1> QED BY <1>1, <1>2, <1>3

LEMMA ResolveStep ==
  ASSUME WireParts, NEW r \in Reqs, NEW ch \in Offered \cup {"invalid"}, Resolve(r, ch)
  PROVE  WireParts'
  <1> DEFINE p == <<"solve", r>>
  <1>0. p \in Procs /\ p[1] = "solve" /\ p[2] = r /\ pc[p] = "idle" /\ "drive" \in Labels
    BY Pairs DEF Resolve, Labels
  <1>1. /\ Moves(p, "drive") /\ Carrying' /\ Stages'
        /\ \A q \in Procs : (Due(q)' => Due(q)) /\ (pc'[q] = "arm" => pc[q] = "arm")
    BY <1>0, CalmMove DEF Resolve, Carries, StagesOf
  <1>2. r \in shown /\ r \in pending /\ r \notin ToSet(queue)
    BY DEF Resolve, WireParts, InLine
  <1>3. UNCHANGED queue
    BY <1>2 DEF Resolve, Take, RemoveFirst, WireParts, Typed, ToSet
  <1>4. /\ pending' = pending \ {r} /\ choice' = [choice EXCEPT ![r] = ch]
        /\ timer' = [timer EXCEPT ![r] = IF @ = "armed" THEN "stopped" ELSE @]
        /\ UNCHANGED <<displayed, settled, remembered, closed, status, card, shown, answer, at, turns>>
    BY DEF Resolve, Take, store
  <1>5. Typed' /\ Once' /\ Memory'
    <2>1. choice' \in [Reqs -> Offered \cup {"invalid", "none"}]
      BY <1>4 DEF WireParts, Typed
    <2>2. timer' \in [Reqs -> {"none", "armed", "stopped"}]
      BY <1>4 DEF WireParts, Typed
    <2>3. pending' \subseteq Reqs /\ ToSet(queue') \subseteq pending'
      BY <1>2, <1>3, <1>4 DEF WireParts, Typed, ToSet
    <2> QED BY <1>1, <1>3, <1>4, <2>1, <2>2, <2>3 DEF WireParts, Typed, Once, Memory, Moves
  <1>6. /\ \A s \in Reqs : Asking(s)' = Asking(s) /\ Expiring(s)' = Expiring(s)
        /\ \A s \in Reqs \ {r} : Solving(s)' = Solving(s) /\ choice'[s] = choice[s] /\ timer'[s] = timer[s]
        /\ Solving(r)' = "drive"
    BY <1>0, <1>1, <1>4 DEF Moves, WireParts, Typed
  <1> HIDE DEF p
  <1> USE <1>2, <1>3, <1>4, <1>6 DEF WireParts
  <1>10. ApprovedIsTold'
    BY DEF ApprovedIsTold
  <1>11. New'
    BY DEF New
  <1>12. Unseen'
    BY DEF Unseen
  <1>13. Waits' /\ Settled'
    BY DEF Waits, Settled, Typed
  <1>14. Taken'
    BY DEF Taken, Waits
  <1>15. InLine'
    BY DEF InLine, ToSet
  <1>16. DueIsUnseen'
    BY <1>1, DueRequest DEF DueIsUnseen
  <1> QED BY <1>1, <1>5, <1>10, <1>11, <1>12, <1>13, <1>14, <1>15, <1>16

LEMMA DriveStep ==
  ASSUME WireParts, NEW r \in Reqs, Drive(r)
  PROVE  WireParts'
  <1> DEFINE p == <<"solve", r>>
             what == IF choice[r] = "deny" THEN "denied" ELSE "approved"
  <1>0. p \in Procs /\ p[1] = "solve" /\ p[2] = r /\ pc[p] = "drive" /\ "record" \in Labels
    BY Pairs DEF Drive, Labels
  <1>1. /\ Moves(p, "record") /\ Carrying' /\ Stages'
        /\ \A q \in Procs : (Due(q)' => Due(q)) /\ (pc'[q] = "arm" => pc[q] = "arm")
    BY <1>0, CalmMove DEF Drive, Carries, StagesOf
  <1>2. Solving(r) = "drive" /\ r \in shown /\ r \notin pending /\ settled[r] = "no" /\ answer[r] = "none"
    BY <1>0 DEF WireParts, Taken, Unseen, Solving
  <1>3. /\ answer' \in [Reqs -> Answers] /\ answer'[r] = what
        /\ \A s \in Reqs \ {r} : answer'[s] = answer[s]
    BY <1>2, TellEffect DEF Drive, WireParts, Typed
  <1>4. UNCHANGED <<pending, queue, displayed, settled, timer, remembered, closed, status, card, shown,
                    at, choice, turns>>
    BY DEF Drive, wire, store
  <1>5. Typed' /\ Once' /\ Memory'
    BY <1>1, <1>3, <1>4 DEF WireParts, Typed, Once, Memory, Moves
  <1>6. /\ \A s \in Reqs : Asking(s)' = Asking(s) /\ Expiring(s)' = Expiring(s)
        /\ \A s \in Reqs \ {r} : Solving(s)' = Solving(s)
        /\ Solving(r)' = "record"
    BY <1>0, <1>1 DEF Moves
  <1> HIDE DEF p
  <1> USE <1>2, <1>3, <1>4, <1>6 DEF WireParts
  <1>10. ApprovedIsTold'
    BY DEF ApprovedIsTold
  <1>11. New'
    BY DEF New
  <1>12. Unseen'
    BY DEF Unseen
  <1>13. Waits' /\ Settled'
    BY DEF Waits, Settled, Typed
  <1>14. Taken'
    BY DEF Taken
  <1>15. InLine'
    BY DEF InLine
  <1>16. DueIsUnseen'
    BY <1>1, DueRequest DEF DueIsUnseen
  <1> QED BY <1>1, <1>5, <1>10, <1>11, <1>12, <1>13, <1>14, <1>15, <1>16

\* The decision is recorded, or the adapter failed: the request is settled.
LEMMA RecordStep ==
  ASSUME WireParts, NEW r \in Reqs, Record(r) \/ DriveFails(r)
  PROVE  WireParts'
  <1> DEFINE p == <<"solve", r>>
  <1>0. /\ p \in Procs /\ p[1] = "solve" /\ p[2] = r /\ pc[p] = Solving(r)
        /\ pc[p] \in {"record", "drive"} /\ {"advance", "idle"} \subseteq Labels
    BY Pairs DEF Record, DriveFails, Labels, Solving
  <1>1. PICK l \in {"advance", "idle"} :
          /\ Moves(p, l) /\ Carrying' /\ Stages'
          /\ \A q \in Procs : (Due(q)' => Due(q)) /\ (pc'[q] = "arm" => pc[q] = "arm")
    BY <1>0, CalmMove DEF Record, DriveFails, Carries, StagesOf
  <1>2. r \in shown /\ r \notin pending /\ settled[r] = "no"
    BY <1>0 DEF WireParts, Taken, Unseen
  <1>3. PICK how \in {"approved", "denied"} :
          Settle(r, how) /\ (how = "approved" => answer[r] = "approved")
    BY <1>0 DEF Record, DriveFails, WireParts, Taken
  <1>4. /\ settled' \in [Reqs -> Records] /\ settled'[r] = how
        /\ \A s \in Reqs \ {r} : settled'[s] = settled[s]
    BY <1>3, SettleEffect DEF WireParts, Typed, Records
  <1>5. /\ UNCHANGED <<pending, queue, displayed, timer, closed, status, card, shown, answer, at, turns>>
        /\ choice' = [choice EXCEPT ![r] = "none"]
    BY DEF Record, DriveFails, Decided, store
  <1>6. Memory'
    BY KindAssumption DEF Record, DriveFails, Remember, WireParts, Memory
  <1>7. Typed' /\ Once'
    <2>1. choice' \in [Reqs -> Offered \cup {"invalid", "none"}]
      BY <1>5 DEF WireParts, Typed
    <2> QED BY <1>1, <1>4, <1>5, <2>1 DEF WireParts, Typed, Once, Moves
  <1>8. /\ \A s \in Reqs : Asking(s)' = Asking(s) /\ Expiring(s)' = Expiring(s)
        /\ \A s \in Reqs \ {r} : Solving(s)' = Solving(s) /\ choice'[s] = choice[s]
        /\ Solving(r)' = l
    BY <1>0, <1>1, <1>5 DEF Moves, WireParts, Typed
  <1> HIDE DEF p
  <1> USE <1>2, <1>3, <1>4, <1>5, <1>8 DEF WireParts
  <1>10. ApprovedIsTold'
    BY DEF ApprovedIsTold
  <1>11. New'
    BY DEF New
  <1>12. Unseen'
    BY DEF Unseen
  <1>13. Waits' /\ Settled'
    BY DEF Waits, Settled, Typed
  <1>14. Taken'
    BY DEF Taken
  <1>15. InLine'
    BY DEF InLine
  <1>16. DueIsUnseen'
    BY <1>1, DueRequest DEF DueIsUnseen
  <1> QED BY <1>1, <1>6, <1>7, <1>10, <1>11, <1>12, <1>13, <1>14, <1>15, <1>16

\* The request is put back, as unanswered as it was.
LEMMA RefuseStep ==
  ASSUME WireParts, NEW r \in Reqs, DriveRefuses(r)
  PROVE  WireParts'
  <1> DEFINE p == <<"solve", r>>
  <1>0. p \in Procs /\ p[1] = "solve" /\ p[2] = r /\ pc[p] = "drive" /\ "idle" \in Labels
    BY Pairs DEF DriveRefuses, Labels
  <1>1. /\ Moves(p, "idle") /\ Carrying' /\ Stages'
        /\ \A q \in Procs : (Due(q)' => Due(q)) /\ (pc'[q] = "arm" => pc[q] = "arm")
    BY <1>0, CalmMove DEF DriveRefuses, Carries, StagesOf
  <1>2. Solving(r) = "drive" /\ r \in shown /\ Asking(r) # "new" /\ settled[r] = "no"
        /\ answer[r] = "none" /\ Expiring(r) = "idle"
    BY <1>0 DEF WireParts, Taken, Unseen, New, Solving
  <1>3. /\ UNCHANGED <<queue, settled, timer, remembered, closed, status, card, shown, answer, at, turns>>
        /\ pending' = pending \cup {r} /\ displayed' = r /\ choice' = [choice EXCEPT ![r] = "none"]
    BY DEF DriveRefuses, Decided, store
  <1>4. Typed' /\ Once' /\ Memory'
    <2>1. choice' \in [Reqs -> Offered \cup {"invalid", "none"}]
      BY <1>3 DEF WireParts, Typed
    <2> QED BY <1>1, <1>3, <2>1 DEF WireParts, Typed, Once, Memory, Moves
  <1>5. /\ \A s \in Reqs : Asking(s)' = Asking(s) /\ Expiring(s)' = Expiring(s)
        /\ \A s \in Reqs \ {r} : Solving(s)' = Solving(s) /\ choice'[s] = choice[s]
        /\ Solving(r)' = "idle"
    BY <1>0, <1>1, <1>3 DEF Moves, WireParts, Typed
  <1> HIDE DEF p
  <1> USE <1>2, <1>3, <1>5 DEF WireParts
  <1>10. ApprovedIsTold'
    BY DEF ApprovedIsTold
  <1>11. New'
    BY DEF New
  <1>12. Unseen'
    BY DEF Unseen
  <1>13. Waits' /\ Settled'
    BY DEF Waits, Settled, Typed
  <1>14. Taken'
    BY DEF Taken
  <1>15. InLine'
    BY DEF InLine
  <1>16. DueIsUnseen'
    BY <1>1, DueRequest DEF DueIsUnseen
  <1> QED BY <1>1, <1>4, <1>10, <1>11, <1>12, <1>13, <1>14, <1>15, <1>16

LEMMA RedeliverStep ==
  ASSUME WireParts, NEW r \in Reqs, NEW ch \in Offered, Redeliver(r, ch)
  PROVE  WireParts'
  <1> DEFINE p == <<"solve", r>>
  <1>0. p \in Procs /\ p[1] = "solve" /\ p[2] = r /\ pc[p] = "idle" /\ "advance" \in Labels
    BY Pairs DEF Redeliver, Labels
  <1>1. /\ Moves(p, "advance") /\ Carrying' /\ Stages'
        /\ \A q \in Procs : (Due(q)' => Due(q)) /\ (pc'[q] = "arm" => pc[q] = "arm")
    BY <1>0, CalmMove DEF Redeliver, Carries, StagesOf
  <1>2. r \in shown /\ r \notin pending /\ settled[r] # "no"
    BY DEF Redeliver
  <1>3. /\ UNCHANGED <<pending, queue, displayed, settled, timer, closed, status, card, shown, answer,
                       at, choice, turns>>
    BY DEF Redeliver, store
  <1>4. Memory'
    BY KindAssumption DEF Redeliver, Remember, WireParts, Memory
  <1>5. Typed' /\ Once'
    BY <1>1, <1>3 DEF WireParts, Typed, Once, Moves
  <1>6. /\ \A s \in Reqs : Asking(s)' = Asking(s) /\ Expiring(s)' = Expiring(s)
        /\ \A s \in Reqs \ {r} : Solving(s)' = Solving(s)
        /\ Solving(r)' = "advance"
    BY <1>0, <1>1 DEF Moves
  <1> HIDE DEF p
  <1> USE <1>2, <1>3, <1>6 DEF WireParts
  <1>10. ApprovedIsTold' /\ New'
    BY DEF ApprovedIsTold, New
  <1>11. Unseen'
    BY DEF Unseen
  <1>12. Waits' /\ Settled' /\ Taken'
    BY DEF Waits, Settled, Taken, Typed
  <1>13. InLine'
    BY DEF InLine
  <1>14. DueIsUnseen'
    BY <1>1, DueRequest DEF DueIsUnseen
  <1> QED BY <1>1, <1>4, <1>5, <1>10, <1>11, <1>12, <1>13, <1>14

\* The timer takes its request, or denies it later.
LEMMA ExpireStep ==
  ASSUME WireParts, NEW r \in Reqs, Expire(r)
  PROVE  WireParts'
  <1> DEFINE p == <<"expire", r>>
  <1>0. p \in Procs /\ p[1] = "expire" /\ p[2] = r /\ pc[p] = "idle" /\ "deny" \in Labels
    BY Pairs DEF Expire, Labels
  <1>1. /\ Moves(p, "deny") /\ Carrying' /\ Stages'
        /\ \A q \in Procs : (Due(q)' => Due(q)) /\ (pc'[q] = "arm" => pc[q] = "arm")
    BY <1>0, CalmMove DEF Expire, Carries, StagesOf
  <1>2. /\ timer[r] = "armed" /\ r \in pending /\ r \in shown /\ r \notin ToSet(queue)
        /\ settled[r] = "no" /\ Solving(r) = "idle" /\ Asking(r) # "new"
    BY DEF Expire, WireParts, Unseen, InLine, Waits, New
  <1>3. /\ settled' \in [Reqs -> Records] /\ settled'[r] = "denied"
        /\ \A s \in Reqs \ {r} : settled'[s] = settled[s]
    BY SettleEffect DEF Expire, WireParts, Typed, Records
  <1>4. /\ UNCHANGED <<queue, displayed, remembered, closed, status, card, shown, answer, at, choice,
                       turns>>
        /\ pending' = pending \ {r} /\ timer' = [timer EXCEPT ![r] = "stopped"]
    BY DEF Expire, store
  <1>5. Typed' /\ Once' /\ Memory'
    <2>1. timer' \in [Reqs -> {"none", "armed", "stopped"}] /\ ToSet(queue') \subseteq pending'
      BY <1>2, <1>4 DEF WireParts, Typed, ToSet
    <2> QED BY <1>1, <1>3, <1>4, <2>1 DEF WireParts, Typed, Once, Memory, Moves
  <1>6. /\ \A s \in Reqs : Asking(s)' = Asking(s) /\ Solving(s)' = Solving(s)
        /\ \A s \in Reqs \ {r} : Expiring(s)' = Expiring(s) /\ timer'[s] = timer[s]
    BY <1>0, <1>1, <1>4 DEF Moves, WireParts, Typed
  <1> HIDE DEF p
  <1> USE <1>2, <1>3, <1>4, <1>6 DEF WireParts
  <1>10. ApprovedIsTold' /\ New'
    BY DEF ApprovedIsTold, New
  <1>11. Unseen'
    BY DEF Unseen
  <1>12. Waits'
    BY DEF Waits, Typed
  <1>13. Settled' /\ Taken'
    BY DEF Settled, Taken
  <1>14. InLine'
    BY DEF InLine, ToSet
  <1>15. DueIsUnseen'
    BY <1>1, DueRequest DEF DueIsUnseen
  <1> QED BY <1>1, <1>5, <1>10, <1>11, <1>12, <1>13, <1>14, <1>15

LEMMA ExpireDeniesStep ==
  ASSUME WireParts, NEW r \in Reqs, ExpireDenies(r)
  PROVE  WireParts'
  <1> DEFINE p == <<"expire", r>>
  <1>0. /\ p \in Procs /\ p[1] = "expire" /\ p[2] = r /\ pc[p] = "deny" /\ Expiring(r) = "deny"
        /\ "advance" \in Labels
    BY Pairs DEF ExpireDenies, Labels, Expiring
  <1>1. /\ Moves(p, "advance") /\ Carrying' /\ Stages'
        /\ \A q \in Procs : (Due(q)' => Due(q)) /\ (pc'[q] = "arm" => pc[q] = "arm")
    BY <1>0, CalmMove DEF ExpireDenies, Carries, StagesOf
  <1>2. r \in shown /\ r \notin pending /\ Asking(r) # "new" /\ Solving(r) \notin {"drive", "record"}
    BY <1>0 DEF WireParts, Unseen, Waits, New, Taken
  <1>3. /\ answer' \in [Reqs -> Answers]
        /\ answer[r] # "none" => answer'[r] = answer[r]
        /\ \A s \in Reqs \ {r} : answer'[s] = answer[s]
    BY TellEffect DEF ExpireDenies, WireParts, Typed
  <1>4. UNCHANGED <<pending, queue, displayed, settled, timer, closed, status, card, shown, at, choice,
                    turns>>
    BY DEF ExpireDenies, store
  <1>5. Memory'
    BY KindAssumption DEF ExpireDenies, WireParts, Memory
  <1>6. Typed' /\ Once'
    BY <1>1, <1>3, <1>4 DEF WireParts, Typed, Once, Moves
  <1>7. /\ \A s \in Reqs : Asking(s)' = Asking(s) /\ Solving(s)' = Solving(s)
        /\ \A s \in Reqs \ {r} : Expiring(s)' = Expiring(s)
    BY <1>0, <1>1 DEF Moves
  <1> HIDE DEF p
  <1> USE <1>0, <1>2, <1>3, <1>4, <1>7 DEF WireParts
  <1>10. ApprovedIsTold' /\ New'
    BY DEF ApprovedIsTold, New
  <1>11. Unseen'
    BY DEF Unseen
  <1>12. Waits' /\ Settled' /\ Taken'
    BY DEF Waits, Settled, Taken, Typed
  <1>13. InLine'
    BY DEF InLine
  <1>14. DueIsUnseen'
    BY <1>1, DueRequest DEF DueIsUnseen
  <1> QED BY <1>1, <1>5, <1>6, <1>10, <1>11, <1>12, <1>13, <1>14

\* The turn ends or begins, the session is closed, a cooldown runs out.
LEMMA TaskStep ==
  ASSUME WireParts,
         \/ \E k \in Kinds : CoolDownEnds(k)
         \/ \E keepsCard \in BOOLEAN : TurnEnds(keepsCard)
         \/ TurnBegins \/ Unwire
  PROVE  WireParts'
  <1>0. Memory'
    BY DEF WireParts, Memory, CoolDownEnds, TurnEnds, TurnBegins, Unwire
  <1>1. UNCHANGED <<settled, shown, pc, at, choice>>
    BY DEF CoolDownEnds, TurnEnds, TurnBegins, Unwire, store
  <1>2. CASE Unwire
    <2>1. /\ pending' = {} /\ queue' = <<>> /\ displayed' = NoReq /\ closed' = TRUE
          /\ UNCHANGED <<status, card, turns>>
      BY <1>2 DEF Unwire, store
    <2>2. timer' \in [Reqs -> {"none", "armed", "stopped"}]
          /\ \A s \in Reqs : timer[s] = "none" => timer'[s] = "none"
      BY <1>2 DEF Unwire, WireParts, Typed
    <2>3. /\ answer' \in [Reqs -> Answers]
          /\ \A s \in Reqs : answer[s] # "none" \/ s \notin pending => answer'[s] = answer[s]
      BY <1>2, TellEffect DEF Unwire, WireParts, Typed
    <2>4. ToSet(queue') = {} /\ queue' \in Seq(Reqs) /\ Once'
      BY <2>1 DEF ToSet, Once
    <2>5. Typed'
      BY <1>1, <2>1, <2>2, <2>3, <2>4 DEF WireParts, Typed
    <2> QED BY <1>0, <1>1, <2>1, <2>2, <2>3, <2>4, <2>5, NoReqAssumption
         DEF WireParts, ApprovedIsTold, Stages, Carrying, New, Unseen, Waits, InLine, DueIsUnseen, Due,
             Taken, Settled, Asking, Solving, Expiring
  <1>3. CASE ~Unwire
    <2>1. /\ UNCHANGED <<pending, queue, displayed, timer, closed, answer>>
          /\ status' \in {"running", "waiting_input", "terminal"} /\ card' \in {card, NoReq}
          /\ turns' \in 1 .. MaxTurns
      BY <1>3, MaxTurnsAssumption
         DEF CoolDownEnds, TurnEnds, TurnBegins, store, WireParts, Typed
    <2>2. Typed' /\ Once'
      BY <1>1, <2>1 DEF WireParts, Typed, Once
    <2> QED BY <1>0, <1>1, <2>1, <2>2
         DEF WireParts, ApprovedIsTold, Stages, Carrying, New, Unseen, Waits, InLine, DueIsUnseen, Due,
             Taken, Settled, Asking, Solving, Expiring
  <1> QED BY <1>2, <1>3

LEMMA InitWire == Init => WireParts
  <1> SUFFICES ASSUME Init PROVE WireParts
    OBVIOUS
  <1>1. /\ pc \in [Procs -> Labels] /\ \A r \in Reqs : Asking(r) = "new" /\ Solving(r) = "idle" /\ Expiring(r) = "idle"
        /\ \A p \in Procs : pc[p] \in {"new", "idle"} /\ at[p] = NoReq
    BY Pairs DEF Init, Labels, Asking, Solving, Expiring
  <1>2. queue = <<>> /\ ToSet(queue) = {} /\ Once /\ queue \in Seq(Reqs)
    BY DEF Init, ToSet, Once
  <1>3. Typed /\ Memory
    <2>1. at \in [Procs -> Reqs \cup {NoReq}] /\ choice \in [Reqs -> Offered \cup {"invalid", "none"}]
      BY DEF Init
    <2>2. /\ settled \in [Reqs -> Records] /\ answer \in [Reqs -> Answers]
          /\ timer \in [Reqs -> {"none", "armed", "stopped"}]
      BY DEF Init, Records, Answers
    <2>3. turns \in 1 .. MaxTurns
      BY MaxTurnsAssumption DEF Init
    <2>4. Memory
      BY DEF Init, Memory
    <2> QED BY <1>1, <1>2, <2>1, <2>2, <2>3, <2>4 DEF Init, Typed
  <1>4. Carrying
    BY <1>1, Pairs DEF Carrying
  <1> QED BY <1>1, <1>2, <1>3, <1>4, NoReqAssumption
       DEF Init, WireParts, ApprovedIsTold, Stages, New, Unseen, Waits, InLine, DueIsUnseen, Due, Taken,
           Settled

LEMMA WireStep == WireParts /\ [Next]_vars => WireParts'
  <1> SUFFICES ASSUME WireParts, [Next]_vars PROVE WireParts'
    OBVIOUS
  <1>1. CASE UNCHANGED vars
    BY <1>1
       DEF vars, wire, store, WireParts, Typed, Once, Memory, ApprovedIsTold, Stages, Carrying, New,
           Unseen, Waits, InLine, DueIsUnseen, Due, Taken, Settled, Asking, Solving, Expiring
  <1>2. ASSUME NEW r \in Reqs,
               \/ AutoApprove(r) \/ CoolDown(r) \/ Register(r) \/ DriveFails(r)
               \/ \E ch \in Offered \cup {"invalid"} : Resolve(r, ch)
               \/ \E ch \in Offered : Redeliver(r, ch)
        PROVE  WireParts'
    BY <1>2, AutoStep, RegisterStep, RecordStep, ResolveStep, RedeliverStep
  <1>3. ASSUME NEW p \in Procs, Proceed(p) PROVE WireParts'
    <2>1. p[2] \in Reqs
      BY Pairs
    <2>2. CASE Show(p) \/ Arm(p) \/ Advance(p)
      BY <2>2, ShowStep, ArmStep, AdvanceStep
    <2>3. CASE Back(p) \/ (p[1] = "expire" /\ ForceClear(p[2]))
      BY <2>3, BackStep
    <2>4. CASE (p[1] = "ask" /\ Unshown(p[2])) \/ GiveUp(p)
      BY <2>4, UnshownStep
    <2>5. CASE Drive(p[2]) \/ Record(p[2]) \/ DriveRefuses(p[2])
      BY <2>1, <2>5, DriveStep, RecordStep, RefuseStep
    <2>6. CASE Expire(p[2]) \/ ExpireDenies(p[2])
      BY <2>1, <2>6, ExpireStep, ExpireDeniesStep
    <2>7. \/ Show(p) \/ Arm(p) \/ Advance(p)
          \/ Back(p) \/ (p[1] = "expire" /\ ForceClear(p[2]))
          \/ (p[1] = "ask" /\ Unshown(p[2])) \/ GiveUp(p)
          \/ Drive(p[2]) \/ Record(p[2]) \/ DriveRefuses(p[2])
          \/ Expire(p[2]) \/ ExpireDenies(p[2])
      BY <1>3 DEF Proceed
    <2> QED BY <2>2, <2>3, <2>4, <2>5, <2>6, <2>7
  <1>4. CASE \/ \E k \in Kinds : CoolDownEnds(k)
             \/ \E keepsCard \in BOOLEAN : TurnEnds(keepsCard)
             \/ TurnBegins \/ Unwire
    BY <1>4, TaskStep
  <1> QED BY <1>1, <1>2, <1>3, <1>4 DEF Next

LEMMA WireAlways == Spec => []WireParts
  BY InitWire, WireStep, PTL DEF Spec

\* Every variable keeps its range, and the line holds each waiting request once.
THEOREM TypeCorrect == Spec => []TypeOK
  BY WireAlways, Parts, PTL DEF WireParts

\* What the wire records as approved was told to the agent as approved: neither a
\* timeout, nor the end of the session, nor a second click crosses a decision.
THEOREM ApprovalsAreTold == Spec => []ApprovedIsTold
  BY WireAlways, PTL DEF WireParts

\* Every path that settles a request finds it unsettled, although none looks.
THEOREM SettlesOnce == Spec => SettledOnce
  <1> DEFINE A == \A r \in Reqs : settled[r] # "no" => settled'[r] = settled[r]
  <1>1. WireParts /\ [Next]_vars => [A]_vars
    <2> SUFFICES ASSUME WireParts, Next, NEW r \in Reqs, settled[r] # "no"
                 PROVE  settled'[r] = settled[r]
      OBVIOUS
    <2>a. ASSUME NEW s \in Reqs, settled[s] = "no", NEW how \in Records, Settle(s, how)
          PROVE  settled'[r] = settled[r]
      BY <2>a, SettleEffect DEF WireParts, Typed
    <2>b. {"approved", "denied"} \subseteq Records
      BY DEF Records
    <2>1. ASSUME NEW s \in Reqs, AutoApprove(s) \/ CoolDown(s) PROVE settled'[r] = settled[r]
      <3>1. settled[s] = "no"
        BY <2>1 DEF AutoApprove, CoolDown, WireParts, New, Asking
      <3> QED BY <2>1, <2>a, <2>b, <3>1 DEF AutoApprove, CoolDown
    <2>2. ASSUME NEW s \in Reqs, Record(s) \/ DriveFails(s) PROVE settled'[r] = settled[r]
      <3>1. settled[s] = "no"
        BY <2>2 DEF Record, DriveFails, WireParts, Taken, Solving
      <3> QED BY <2>2, <2>a, <2>b, <3>1 DEF Record, DriveFails
    <2>3. ASSUME NEW s \in Reqs, Expire(s) PROVE settled'[r] = settled[r]
      <3>1. settled[s] = "no"
        BY <2>3 DEF Expire, WireParts, Waits
      <3> QED BY <2>3, <2>a, <2>b, <3>1 DEF Expire
    <2>4. ASSUME NEW p \in Procs, Proceed(p) PROVE settled'[r] = settled[r]
      <3>1. p[2] \in Reqs
        BY Pairs
      <3> QED BY <2>2, <2>3, <2>4, <3>1
           DEF Proceed, Show, Arm, Advance, Back, GiveUp, Unshown, Drive, DriveRefuses, ExpireDenies,
               ForceClear, wire
    <2> QED BY <2>1, <2>2, <2>4
         DEF Next, Register, Resolve, Redeliver, CoolDownEnds, TurnEnds, TurnBegins, Unwire
  <1>2. Spec => [][A]_vars
    BY <1>1, WireAlways, PTL DEF Spec
  <1> QED BY <1>2 DEF SettledOnce

-----------------------------------------------------------------------------
(* A card leads on, while the wire is open *)

Undecided(s) == s \in pending \/ settled[s] # "no" \/ Solving(s) \in {"drive", "record"}

\* A step that shows and displays nothing new, and leaves the due cards alone.
Tame ==
    /\ displayed' = displayed /\ shown' = shown
    /\ status' = "waiting_input" => status = "waiting_input" /\ card' = card
    /\ \A q \in Procs :
          /\ Due(q)' <=> Due(q)
          /\ Due(q) => at'[q] = at[q] /\ pc'[q] = pc[q]
          /\ pc[q] = "back" => pc'[q] = "back" \/ status' # "waiting_input" \/ q[2] # card
    /\ \A s \in Reqs \ shown : s \in pending => s \in pending'
    /\ \A s \in shown :
          /\ s \in pending' \/ Solving(s)' = "drive" => s \in pending \/ Solving(s) = "drive"
          /\ Undecided(s) => Undecided(s)'

LEMMA TameStep ==
  ASSUME WireParts, OpenInv, Tame
  PROVE  OpenInv'
  <1> USE DEF WireParts, OpenInv
  <1>1. \A q \in Procs : Due(q) => at[q] \in Reqs \ shown
    BY DueRequest DEF DueIsUnseen
  <1>2. DueIsDisplayed'
    BY <1>1 DEF DueIsDisplayed, Tame
  <1>3. ShownIsDisplayed'
    BY DEF ShownIsDisplayed, Tame
  <1>4. DisplayedLives'
    <2>1. CASE \E q \in Procs : Due(q) /\ at[q] = displayed
      BY <2>1 DEF DisplayedLives, Tame
    <2>2. CASE displayed # NoReq /\ displayed \in shown /\ Undecided(displayed)
      <3>1. displayed' \in shown' /\ Undecided(displayed)'
        BY <2>2 DEF Tame, Undecided
      <3> QED BY <3>1 DEF DisplayedLives, Undecided
    <2>3. CASE displayed = NoReq
      BY <2>3 DEF DisplayedLives, Tame
    <2> QED BY <2>1, <2>2, <2>3 DEF DisplayedLives, Undecided
  <1>5. CardIsCurrent'
    <2> SUFFICES ASSUME status' = "waiting_input"
                 PROVE  /\ card' \in shown'
                        /\ \/ displayed' = card'
                           \/ \E q \in Procs : Due(q)' /\ displayed' = at'[q]
                           \/ \E q \in Procs : pc'[q] = "back" /\ q[2] = card'
      BY DEF CardIsCurrent
    <2>1. status = "waiting_input" /\ card' = card
      BY DEF Tame
    <2>2. card' \in shown'
      BY <2>1 DEF CardIsCurrent, Tame
    <2>3. CASE displayed = card
      BY <2>1, <2>2, <2>3 DEF Tame
    <2>4. CASE \E q \in Procs : Due(q) /\ displayed = at[q]
      BY <2>2, <2>4 DEF Tame
    <2>5. CASE \E q \in Procs : pc[q] = "back" /\ q[2] = card
      BY <2>1, <2>2, <2>5 DEF Tame
    <2> QED BY <2>1, <2>3, <2>4, <2>5 DEF CardIsCurrent
  <1> QED BY <1>2, <1>3, <1>4, <1>5

LEMMA TameMove ==
  ASSUME WireParts, NEW p \in Procs, NEW l \in Labels, Goto(p, l),
         pc[p] \notin {"show", "unshown", "back"}, l \notin {"show", "unshown"},
         \A q \in Procs : q # p => at'[q] = at[q]
  PROVE  /\ Moves(p, l)
         /\ \A q \in Procs :
               /\ Due(q)' <=> Due(q)
               /\ Due(q) => at'[q] = at[q] /\ pc'[q] = pc[q]
               /\ pc[q] = "back" => pc'[q] = "back"
  <1>1. Moves(p, l)
    BY GotoMoves DEF WireParts, Typed
  <1> QED BY <1>1 DEF Moves, Due

\* The callback of a request that is not displayed.
LEMMA AskIsTame ==
  ASSUME WireParts, OpenInv, NEW r \in Reqs,
         AutoApprove(r) \/ CoolDown(r) \/ (Register(r) /\ displayed # NoReq)
  PROVE  OpenInv'
  <1> DEFINE p == <<"ask", r>>
  <1>0. p \in Procs /\ p[1] = "ask" /\ p[2] = r /\ pc[p] = "new" /\ "done" \in Labels /\ Asking(r) = "new"
    BY Pairs DEF AutoApprove, CoolDown, Register, Labels, Asking
  <1>1. /\ UNCHANGED <<displayed, status, card, shown, at>>
        /\ Goto(p, "done")
    BY DEF AutoApprove, CoolDown, Register, store
  <1>2. /\ Moves(p, "done")
        /\ \A q \in Procs : /\ Due(q)' <=> Due(q)
                            /\ Due(q) => at'[q] = at[q] /\ pc'[q] = pc[q]
                            /\ pc[q] = "back" => pc'[q] = "back"
    BY <1>0, <1>1, TameMove
  <1>3. /\ \A s \in Reqs : Solving(s)' = Solving(s)
        /\ r \notin shown /\ pending \subseteq pending' /\ pending' \subseteq pending \cup {r}
    BY <1>0, <1>2 DEF Moves, WireParts, New, AutoApprove, CoolDown, Register
  <1>4. \A s \in Reqs \ {r} : settled'[s] = settled[s]
    BY DEF AutoApprove, CoolDown, Register, Settle, WireParts, Typed
  <1>5. shown \subseteq Reqs
    BY DEF WireParts, Typed
  <1> HIDE DEF p
  <1>6. Tame
    BY <1>1, <1>2, <1>3, <1>4, <1>5 DEF Tame, Undecided
  <1> QED BY <1>6, TameStep

LEMMA ArmIsTame ==
  ASSUME WireParts, OpenInv, NEW p \in Procs, Arm(p)
  PROVE  OpenInv'
  <1> DEFINE l == IF p[1] = "solve" THEN "idle" ELSE "done"
  <1>1. /\ UNCHANGED <<pending, displayed, settled, status, card, shown>>
        /\ pc[p] = "arm" /\ Goto(p, l) /\ l \in {"idle", "done"}
        /\ \A q \in Procs : q # p => at'[q] = at[q]
    BY DEF Arm, store, Forget, WireParts, Typed
  <1>2. /\ Moves(p, l)
        /\ \A q \in Procs : /\ Due(q)' <=> Due(q)
                            /\ Due(q) => at'[q] = at[q] /\ pc'[q] = pc[q]
                            /\ pc[q] = "back" => pc'[q] = "back"
    BY <1>1, TameMove DEF Labels
  <1>3. \A s \in Reqs : Solving(s)' # Solving(s) => Solving(s) = "arm" /\ Solving(s)' \in {"idle", "done"}
    BY <1>1, <1>2, OwnLabel DEF Moves
  <1>4. shown \subseteq Reqs
    BY DEF WireParts, Typed
  <1> HIDE DEF l
  <1>5. Tame
    BY <1>1, <1>2, <1>3, <1>4 DEF Tame, Undecided
  <1> QED BY <1>5, TameStep

\* A solver with its request, and a timer.
LEMMA SolveIsTame ==
  ASSUME WireParts, OpenInv, NEW r \in Reqs,
         \/ \E ch \in Offered \cup {"invalid"} : Resolve(r, ch)
         \/ \E ch \in Offered : Redeliver(r, ch)
         \/ Drive(r) \/ Record(r) \/ DriveFails(r) \/ DriveRefuses(r)
  PROVE  OpenInv'
  <1> DEFINE p == <<"solve", r>>
  <1>0. p \in Procs /\ p[1] = "solve" /\ p[2] = r /\ pc[p] \in {"idle", "drive", "record"} /\ Solving(r) = pc[p]
    BY Pairs DEF Resolve, Redeliver, Drive, Record, DriveFails, DriveRefuses, Solving
  <1>1. r \in shown
    BY <1>0 DEF Resolve, Redeliver, Drive, Record, DriveFails, DriveRefuses, WireParts, Unseen
  <1>2. displayed' = displayed
    BY <1>0, <1>1
       DEF Resolve, Redeliver, Drive, Record, DriveFails, DriveRefuses, OpenInv, ShownIsDisplayed, wire
  <1>3. UNCHANGED <<status, card, shown, at>>
    BY DEF Resolve, Redeliver, Drive, Record, DriveFails, DriveRefuses, store
  <1>4. PICK l \in {"idle", "drive", "record", "advance"} : Goto(p, l)
    BY DEF Resolve, Redeliver, Drive, Record, DriveFails, DriveRefuses
  <1>5. /\ Moves(p, l)
        /\ \A q \in Procs : /\ Due(q)' <=> Due(q)
                            /\ Due(q) => at'[q] = at[q] /\ pc'[q] = pc[q]
                            /\ pc[q] = "back" => pc'[q] = "back"
    BY <1>0, <1>3, <1>4, TameMove DEF Labels
  <1>6. /\ \A s \in Reqs \ {r} : Solving(s)' = Solving(s)
        /\ Solving(r)' = l
    BY <1>0, <1>5 DEF Moves
  <1>7. \A s \in Reqs \ {r} : settled'[s] = settled[s] /\ (s \in pending' <=> s \in pending)
    BY DEF Resolve, Redeliver, Drive, Record, DriveFails, DriveRefuses, Settle, Take, WireParts, Typed,
           wire
  <1>8. /\ r \in pending' \/ Solving(r)' = "drive" => r \in pending \/ Solving(r) = "drive"
        /\ Undecided(r)'
    <2>a. \A how : settled' = [settled EXCEPT ![r] = how] => settled'[r] = how
      BY DEF WireParts, Typed
    <2>1. ASSUME NEW ch \in Offered \cup {"invalid"}, Resolve(r, ch) PROVE l = "drive" /\ r \in pending
      BY <1>0, <1>4, <2>1 DEF Resolve, Goto, WireParts, Typed
    <2>2. ASSUME NEW ch \in Offered, Redeliver(r, ch)
          PROVE  l = "advance" /\ pending' = pending /\ settled'[r] # "no"
      BY <1>0, <1>4, <2>2 DEF Redeliver, Goto, WireParts, Typed
    <2>3. CASE Drive(r)
      <3>1. l = "record" /\ Solving(r) = "drive"
        BY <1>0, <1>4, <2>3 DEF Drive, Goto, WireParts, Typed
      <3> QED BY <1>6, <3>1 DEF Undecided
    <2>4. CASE Record(r) \/ DriveFails(r)
      <3>1. l \in {"advance", "idle"} /\ pending' = pending
        BY <1>0, <1>4, <2>4 DEF Record, DriveFails, Goto, WireParts, Typed
      <3>2. settled'[r] # "no"
        BY <2>a, <2>4 DEF Record, DriveFails, Settle
      <3> QED BY <1>6, <3>1, <3>2 DEF Undecided
    <2>5. CASE DriveRefuses(r)
      <3>1. r \in pending' /\ Solving(r) = "drive"
        BY <1>0, <2>5 DEF DriveRefuses
      <3> QED BY <3>1 DEF Undecided
    <2> QED BY <1>6, <2>1, <2>2, <2>3, <2>4, <2>5 DEF Undecided
  <1>9. shown \subseteq Reqs /\ pending \subseteq Reqs
    BY DEF WireParts, Typed
  <1> HIDE DEF p
  <1>10. Tame
    BY <1>1, <1>2, <1>3, <1>5, <1>6, <1>7, <1>8, <1>9 DEF Tame, Undecided
  <1> QED BY <1>10, TameStep

LEMMA ExpireIsTame ==
  ASSUME WireParts, OpenInv, NEW r \in Reqs, Expire(r) \/ ExpireDenies(r) \/ ForceClear(r)
  PROVE  OpenInv'
  <1> DEFINE p == <<"expire", r>>
  <1>0. p \in Procs /\ p[1] = "expire" /\ p[2] = r /\ pc[p] \in {"idle", "deny", "clear"}
    BY Pairs DEF Expire, ExpireDenies, ForceClear
  <1>1. UNCHANGED <<displayed, shown, at>>
    BY DEF Expire, ExpireDenies, ForceClear, store, wire
  <1>2. status' = "waiting_input" => status = "waiting_input" /\ card' = card
    BY DEF Expire, ExpireDenies, ForceClear, store
  <1>3. PICK l \in {"deny", "advance", "done"} : Goto(p, l)
    BY DEF Expire, ExpireDenies, ForceClear
  <1>4. /\ Moves(p, l)
        /\ \A q \in Procs : /\ Due(q)' <=> Due(q)
                            /\ Due(q) => at'[q] = at[q] /\ pc'[q] = pc[q]
                            /\ pc[q] = "back" => pc'[q] = "back"
    BY <1>0, <1>1, <1>3, TameMove DEF Labels
  <1>5. \A s \in Reqs : Solving(s)' = Solving(s)
    BY <1>0, <1>4 DEF Moves
  <1>6. /\ \A s \in Reqs \ {r} : settled'[s] = settled[s] /\ (s \in pending' <=> s \in pending)
        /\ UNCHANGED <<pending, settled>> \/ (r \in shown /\ r \notin pending' /\ settled'[r] = "denied")
    BY DEF Expire, ExpireDenies, ForceClear, Settle, WireParts, Typed, Unseen, wire
  <1>7. shown \subseteq Reqs /\ pending \subseteq Reqs
    BY DEF WireParts, Typed
  <1> HIDE DEF p
  <1>8. Tame
    BY <1>1, <1>2, <1>4, <1>5, <1>6, <1>7 DEF Tame, Undecided
  <1> QED BY <1>8, TameStep

LEMMA BackIsTame ==
  ASSUME WireParts, OpenInv, NEW p \in Procs, Back(p)
  PROVE  OpenInv'
  <1>1. /\ UNCHANGED <<pending, displayed, settled, at, shown>> /\ pc[p] = "back"
        /\ status' = "waiting_input" => status = "waiting_input" /\ card' = card /\ card # p[2]
    BY DEF Back, wire
  <1>2. PICK l \in {"idle", "clear", "done"} : Moves(p, l)
    BY GotoMoves DEF Back, Advanced, NotAdvanced, WireParts, Typed, Labels
  <1>3. \A q \in Procs : /\ Due(q)' <=> Due(q)
                         /\ Due(q) => at'[q] = at[q] /\ pc'[q] = pc[q]
                         /\ pc[q] = "back" => pc'[q] = "back" \/ q = p
    BY <1>1, <1>2 DEF Moves, Due
  <1>4. \A s \in Reqs : Solving(s)' # Solving(s) => Solving(s) = "back" /\ Solving(s)' \in {"idle", "clear", "done"}
    BY <1>1, <1>2, OwnLabel DEF Moves
  <1>5. shown \subseteq Reqs
    BY DEF WireParts, Typed
  <1>6. Tame
    BY <1>1, <1>3, <1>4, <1>5 DEF Tame, Undecided
  <1> QED BY <1>6, TameStep

LEMMA TaskIsTame ==
  ASSUME WireParts, OpenInv, UNCHANGED <<pending, displayed, settled, shown, pc, at>>,
         status' = "waiting_input" => status = "waiting_input" /\ card' = card
  PROVE  OpenInv'
  <1>1. Tame
    BY DEF Tame, Undecided, Due, Solving
  <1> QED BY <1>1, TameStep

\* A request is displayed when nothing is.
LEMMA RegisterOpens ==
  ASSUME WireParts, OpenInv, NEW r \in Reqs, Register(r), displayed = NoReq
  PROVE  OpenInv'
  <1> DEFINE p == <<"ask", r>>
  <1>0. p \in Procs /\ p[1] = "ask" /\ p[2] = r /\ pc[p] = "new" /\ Asking(r) = "new"
    BY Pairs DEF Register, Asking
  <1>1. /\ pending' = pending \cup {r} /\ displayed' = r /\ at' = [at EXCEPT ![p] = r]
        /\ UNCHANGED <<settled, status, card, shown>>
    BY DEF Register, store
  <1>2. Moves(p, "show")
    BY <1>0, GotoMoves DEF Register, WireParts, Typed, Labels
  <1>3. \A q \in Procs : ~Due(q)
    BY DueRequest, NoReqAssumption DEF WireParts, OpenInv, DueIsDisplayed
  <1>4. /\ pc'[p] = "show" /\ at'[p] = r /\ r \in pending' /\ r # NoReq /\ r \notin shown
        /\ \A q \in Procs \ {p} : ~Due(q)' /\ pc'[q] = pc[q]
        /\ \A s \in Reqs : Solving(s)' = Solving(s)
    BY <1>0, <1>1, <1>2, <1>3, NoReqAssumption DEF Moves, Due, WireParts, Typed, New
  <1>5. shown \subseteq Reqs /\ \A s \in shown : s \notin pending /\ Solving(s) # "drive"
    BY NoReqAssumption DEF WireParts, Typed, OpenInv, ShownIsDisplayed
  <1> HIDE DEF p
  <1>6. DueIsDisplayed'
    BY <1>1, <1>4 DEF DueIsDisplayed
  <1>7. ShownIsDisplayed'
    BY <1>1, <1>4, <1>5 DEF ShownIsDisplayed
  <1>8. Due(p)' /\ at'[p] = displayed'
    BY <1>1, <1>4 DEF Due
  <1>9. DisplayedLives' /\ CardIsCurrent'
    BY <1>0, <1>1, <1>8 DEF DisplayedLives, CardIsCurrent, OpenInv
  <1> QED BY <1>6, <1>7, <1>9 DEF OpenInv

\* The goroutine whose card is due is the only one, and shows the displayed request.
LEMMA OnlyDue ==
  ASSUME WireParts, OpenInv, NEW p \in Procs, Due(p)
  PROVE  /\ at[p] = displayed /\ displayed \in pending /\ displayed \in Reqs \ shown
         /\ \A q \in Procs \ {p} : ~Due(q)
         /\ pc[p] = "unshown" => status # "waiting_input"
         /\ \A s \in shown : s \notin pending /\ Solving(s) # "drive"
  <1>1. at[p] = displayed /\ displayed \in pending /\ (pc[p] = "unshown" => status # "waiting_input")
    BY DEF OpenInv, DueIsDisplayed
  <1>2. at[p] \in Reqs /\ at[p] \notin shown
    BY DueRequest DEF WireParts, DueIsUnseen
  <1>3. \A q \in Procs \ {p} : ~Due(q)
    BY <1>1, <1>2, NoReqAssumption DEF OpenInv, DueIsDisplayed, WireParts, Carrying
  <1> QED BY <1>1, <1>2, <1>3 DEF OpenInv, ShownIsDisplayed

LEMMA ShowOpens ==
  ASSUME WireParts, OpenInv, NEW p \in Procs, Show(p)
  PROVE  OpenInv'
  <1>1. /\ UNCHANGED <<pending, displayed, settled, at>> /\ pc[p] = "show" /\ Due(p)
        /\ \/ /\ status = "terminal" /\ UNCHANGED <<status, card, shown>> /\ Moves(p, "unshown")
           \/ /\ card' = at[p] /\ shown' = shown \cup {at[p]} /\ Moves(p, "arm")
    BY GotoMoves DEF Show, store, wire, WireParts, Typed, Labels, Due
  <1>2. /\ at[p] = displayed /\ displayed \in pending /\ displayed \in Reqs \ shown
        /\ \A q \in Procs \ {p} : ~Due(q)
        /\ \A s \in shown : s \notin pending /\ Solving(s) # "drive"
    BY <1>1, OnlyDue
  <1>3. /\ \A q \in Procs \ {p} : ~Due(q)'
        /\ \A s \in Reqs : Solving(s)' # Solving(s) => Solving(s)' # "drive"
    BY <1>1, <1>2 DEF Moves, Due
  <1>4. shown \subseteq Reqs
    BY DEF WireParts, Typed
  <1>5. CASE status = "terminal" /\ UNCHANGED <<status, card, shown>> /\ Moves(p, "unshown")
    <2>1. Due(p)' /\ pc'[p] = "unshown"
      BY <1>5 DEF Moves, Due
    <2> QED BY <1>1, <1>2, <1>3, <1>4, <1>5, <2>1
         DEF OpenInv, DueIsDisplayed, ShownIsDisplayed, DisplayedLives, CardIsCurrent
  <1>6. CASE card' = at[p] /\ shown' = shown \cup {at[p]} /\ Moves(p, "arm")
    <2>1. \A q \in Procs : ~Due(q)'
      BY <1>3, <1>6 DEF Moves, Due
    <2>2. DueIsDisplayed'
      BY <2>1 DEF DueIsDisplayed
    <2>3. ShownIsDisplayed'
      BY <1>1, <1>2, <1>3, <1>4, <1>6 DEF ShownIsDisplayed
    <2>4. DisplayedLives' /\ CardIsCurrent'
      BY <1>1, <1>2, <1>6 DEF DisplayedLives, CardIsCurrent
    <2> QED BY <2>2, <2>3, <2>4 DEF OpenInv
  <1> QED BY <1>1, <1>5, <1>6

LEMMA UnshownOpens ==
  ASSUME WireParts, OpenInv, NEW p \in Procs, (p[1] = "ask" /\ Unshown(p[2])) \/ GiveUp(p)
  PROVE  OpenInv'
  <1>1. /\ pc[p] = "unshown" /\ displayed' = NoReq /\ pending' \subseteq pending
        /\ UNCHANGED <<settled, status, card, shown>>
        /\ \E l \in {"done", "idle", "clear"} : Goto(p, l)
    BY Pairs DEF Unshown, GiveUp, NotAdvanced, Advanced, store
  <1>2. PICK l \in {"done", "idle", "clear"} : Moves(p, l)
    BY <1>1, GotoMoves DEF WireParts, Typed, Labels
  <1>3. /\ \A q \in Procs \ {p} : ~Due(q)
        /\ status # "waiting_input"
        /\ \A s \in shown : s \notin pending /\ Solving(s) # "drive"
    BY <1>1, OnlyDue DEF Due
  <1>4. \A q \in Procs : ~Due(q)'
    BY <1>2, <1>3 DEF Moves, Due
  <1>5. shown \subseteq Reqs /\ \A s \in Reqs : Solving(s)' = "drive" => Solving(s) = "drive"
    BY <1>2 DEF Moves, WireParts, Typed
  <1>6. ShownIsDisplayed'
    BY <1>1, <1>3, <1>5 DEF ShownIsDisplayed
  <1>7. DueIsDisplayed' /\ DisplayedLives' /\ CardIsCurrent'
    BY <1>1, <1>3, <1>4 DEF DueIsDisplayed, DisplayedLives, CardIsCurrent
  <1> QED BY <1>6, <1>7 DEF OpenInv

LEMMA AdvanceOpens ==
  ASSUME WireParts, OpenInv, ~closed, NEW p \in Procs, Advance(p)
  PROVE  OpenInv'
  <1> DEFINE r == p[2]
  <1>0. /\ pc[p] = "advance" /\ p[1] \in {"solve", "expire"} /\ r \in Reqs
        /\ UNCHANGED <<pending, settled, status, card, shown>>
    BY OwnLabel DEF Advance, WireParts, Stages, Roles, store
  <1>1. r \in shown /\ settled[r] # "no" /\ r \notin pending /\ Solving(r) # "drive"
    BY <1>0, OwnLabel DEF WireParts, Unseen, Settled, Waits, Taken
  <1>2. shown \subseteq Reqs
    BY DEF WireParts, Typed
  <1>3. CASE Goto(p, NotAdvanced(p)) /\ UNCHANGED <<displayed, queue, at>>
    <2>1. NotAdvanced(p) \in {"idle", "clear"}
      BY <1>0 DEF NotAdvanced, Advanced
    <2>2. /\ Moves(p, NotAdvanced(p))
          /\ \A q \in Procs : /\ Due(q)' <=> Due(q)
                              /\ Due(q) => at'[q] = at[q] /\ pc'[q] = pc[q]
                              /\ pc[q] = "back" => pc'[q] = "back"
      BY <1>0, <1>3, <2>1, TameMove DEF Labels
    <2>3. \A s \in Reqs : Solving(s)' # Solving(s) => Solving(s) = "advance" /\ Solving(s)' \in {"idle", "clear"}
      BY <1>0, <2>1, <2>2, OwnLabel DEF Moves
    <2>4. Tame
      BY <1>0, <1>2, <1>3, <2>2, <2>3 DEF Tame, Undecided
    <2> QED BY <2>4, TameStep
  \* The display was on the request of p, so that no card is due, and none waits.
  <1>4. ASSUME displayed = r
        PROVE  /\ \A q \in Procs : ~Due(q)
               /\ \A s \in shown : s \notin pending /\ Solving(s) # "drive"
    <2>1. \A q \in Procs : Due(q) => at[q] = r /\ settled[at[q]] = "no"
      BY <1>4 DEF OpenInv, DueIsDisplayed, WireParts, DueIsUnseen
    <2>2. \A s \in shown : s \in pending \/ Solving(s) = "drive" => s = r
      BY <1>4 DEF OpenInv, ShownIsDisplayed
    <2> QED BY <1>1, <2>1, <2>2
  <1>5. CASE displayed = r /\ displayed' = NoReq /\ Goto(p, "back") /\ UNCHANGED <<queue, at>>
    <2>1. Moves(p, "back")
      BY <1>5, GotoMoves DEF WireParts, Typed, Labels
    <2>2. /\ \A q \in Procs : ~Due(q)' /\ (pc[q] = "back" => pc'[q] = "back")
          /\ pc'[p] = "back"
          /\ \A s \in Reqs : Solving(s)' = "drive" => Solving(s) = "drive"
      BY <1>0, <1>4, <1>5, <2>1 DEF Moves, Due
    <2>3. DueIsDisplayed' /\ DisplayedLives'
      BY <1>5, <2>2 DEF DueIsDisplayed, DisplayedLives
    <2>4. ShownIsDisplayed'
      BY <1>0, <1>2, <1>4, <1>5, <2>2 DEF ShownIsDisplayed
    <2>5. CardIsCurrent'
      <3>1. ASSUME status = "waiting_input"
            PROVE  card \in shown /\ \E q \in Procs : pc'[q] = "back" /\ q[2] = card
        BY <1>4, <1>5, <2>2, <3>1 DEF OpenInv, CardIsCurrent
      <3> QED BY <1>0, <3>1 DEF CardIsCurrent
    <2> QED BY <2>3, <2>4, <2>5 DEF OpenInv
  <1>6. CASE /\ displayed = r /\ queue # <<>>
             /\ displayed' = Head(queue) /\ at' = [at EXCEPT ![p] = Head(queue)] /\ Goto(p, "show")
    <2> DEFINE h == Head(queue)
    <2>1. h \in Reqs /\ h \in pending /\ h # NoReq /\ h \notin shown
      BY <1>6, HeadOfLine, NoReqAssumption DEF WireParts, Typed, InLine
    <2>2. Moves(p, "show")
      BY <1>6, GotoMoves DEF WireParts, Typed, Labels
    <2>3. displayed' = h /\ at' = [at EXCEPT ![p] = h]
      BY <1>6
    <2> HIDE DEF h
    <2>4. /\ \A q \in Procs \ {p} : ~Due(q)'
          /\ Due(p)' /\ pc'[p] = "show" /\ at'[p] = h
          /\ \A s \in Reqs : Solving(s)' = "drive" => Solving(s) = "drive"
      BY <1>4, <1>6, <2>2, <2>3 DEF Moves, Due, WireParts, Typed
    <2>5. DueIsDisplayed'
      BY <1>0, <2>1, <2>3, <2>4 DEF DueIsDisplayed
    <2>6. ShownIsDisplayed'
      BY <1>0, <1>2, <1>4, <1>6, <2>4 DEF ShownIsDisplayed
    <2>7. DisplayedLives' /\ CardIsCurrent'
      BY <1>0, <2>3, <2>4 DEF DisplayedLives, CardIsCurrent, OpenInv
    <2> QED BY <2>5, <2>6, <2>7 DEF OpenInv
  <1> QED BY <1>3, <1>5, <1>6 DEF Advance

LEMMA OpenStep ==
  ASSUME WireParts, OpenInv, ~closed, ~closed', [Next]_vars
  PROVE  OpenInv'
  <1>1. CASE UNCHANGED vars
    BY <1>1, TaskIsTame DEF vars, wire, store
  <1>2. ASSUME NEW r \in Reqs,
               \/ AutoApprove(r) \/ CoolDown(r) \/ Register(r) \/ DriveFails(r)
               \/ \E ch \in Offered \cup {"invalid"} : Resolve(r, ch)
               \/ \E ch \in Offered : Redeliver(r, ch)
        PROVE  OpenInv'
    BY <1>2, AskIsTame, RegisterOpens, SolveIsTame
  <1>3. ASSUME NEW p \in Procs, Proceed(p) PROVE OpenInv'
    <2>1. p[2] \in Reqs
      BY Pairs
    <2>2. CASE Show(p) \/ Arm(p) \/ Advance(p) \/ Back(p)
      BY <2>2, ShowOpens, ArmIsTame, AdvanceOpens, BackIsTame
    <2>3. CASE (p[1] = "ask" /\ Unshown(p[2])) \/ GiveUp(p)
      BY <2>3, UnshownOpens
    <2>4. CASE Drive(p[2]) \/ Record(p[2]) \/ DriveRefuses(p[2])
      BY <2>1, <2>4, SolveIsTame
    <2>5. CASE Expire(p[2]) \/ ExpireDenies(p[2]) \/ ForceClear(p[2])
      BY <2>1, <2>5, ExpireIsTame
    <2> QED BY <1>3, <2>2, <2>3, <2>4, <2>5 DEF Proceed
  <1>4. CASE \/ \E k \in Kinds : CoolDownEnds(k)
             \/ \E keepsCard \in BOOLEAN : TurnEnds(keepsCard)
             \/ TurnBegins
    BY <1>4, TaskIsTame DEF CoolDownEnds, TurnEnds, TurnBegins, store
  <1>5. CASE Unwire
    BY <1>5 DEF Unwire
  <1> QED BY <1>1, <1>2, <1>3, <1>4, <1>5 DEF Next

\* A wire that was closed stays closed.
LEMMA ClosedForGood ==
  ASSUME closed, [Next]_vars
  PROVE  closed'
  <1> USE DEF wire
  <1>1. ASSUME NEW p \in Procs, Proceed(p) PROVE closed'
    BY <1>1 DEF Proceed, Show, Arm, Advance, Back, GiveUp, Unshown, Drive, Record, DriveRefuses,
                Expire, ExpireDenies, ForceClear
  <1> QED BY <1>1
       DEF Next, vars, AutoApprove, CoolDown, Register, Resolve, Redeliver, DriveFails, CoolDownEnds,
           TurnEnds, TurnBegins, Unwire

LEMMA InvStep == IInv /\ [Next]_vars => IInv'
  <1> SUFFICES ASSUME IInv, [Next]_vars PROVE IInv'
    OBVIOUS
  <1>1. WireParts'
    BY WireStep DEF IInv
  <1>2. ASSUME ~closed' PROVE OpenInv'
    BY <1>2, ClosedForGood, OpenStep DEF IInv
  <1> QED BY <1>1, <1>2 DEF IInv

LEMMA InvInit == Init => IInv
  <1> SUFFICES ASSUME Init PROVE OpenInv
    BY InitWire DEF IInv
  <1>1. \A p \in Procs : pc[p] \in {"new", "idle"}
    BY DEF Init
  <1>2. shown = {} /\ displayed = NoReq /\ status = "running"
    BY DEF Init
  <1> QED BY <1>1, <1>2
       DEF OpenInv, DueIsDisplayed, ShownIsDisplayed, DisplayedLives, CardIsCurrent, Due

\* What is on the card leads on: whoever has to go on with it is at work.
LEMMA LeadsOn == IInv => CardLeadsOn
  <1> SUFFICES ASSUME WireParts, OpenInv, status = "waiting_input", ~closed,
                      ~\E r \in Reqs : Busy(r)
               PROVE  card \in pending \/ (displayed = card /\ settled[card] # "no")
    BY DEF IInv, CardLeadsOn
  <1>1. \A p \in Procs : pc[p] \in {"new", "idle", "done"}
    BY Pairs DEF Busy
  <1>2. \A p \in Procs : ~Due(p) /\ pc[p] # "back"
    BY <1>1 DEF Due
  <1>3. \A r \in Reqs : Solving(r) \notin {"drive", "record"}
    BY <1>1, Pairs DEF Solving
  <1>4. card \in shown /\ displayed = card /\ card \in Reqs /\ card # NoReq
    BY <1>2, NoReqAssumption DEF OpenInv, CardIsCurrent, WireParts, Typed
  <1> QED BY <1>2, <1>3, <1>4 DEF OpenInv, DisplayedLives

\* While the session lives, a task that waits for a decision shows a card that leads
\* on: its request waits for the decision, or a second click advances past it, or an
\* answer is under way.
THEOREM CardsLeadOn == Spec => []CardLeadsOn
  BY InvInit, InvStep, LeadsOn, PTL DEF Spec

=============================================================================
