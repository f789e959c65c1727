--------------------------- MODULE ApprovalsProofs ---------------------------
(***************************************************************************)
(* Proofs about Approvals, for any accounts, workflows, numbers of         *)
(* handlers and of approvals.                                              *)
(*                                                                         *)
(* The properties are not inductive as they stand: what a handler is about *)
(* to write depends on the copy it read long ago.  The inductive invariant *)
(* says what such a copy is still worth.  As long as the row has the       *)
(* status of the copy, the row is the copy; a row never returns to a       *)
(* status it has left; and at most one handler executes an approval, which *)
(* it has seen the row through.                                            *)
(***************************************************************************)
EXTENDS Approvals, TLAPS

Executed == {"executing", "approved", "failed"}
Final == {"approved", "failed", "rejected"}

Separate(row) ==
  /\ row.requester # Nobody =>
       row.requester \notin {row.reviewer, row.approver, row.rejecter}
  /\ row.approver # Nobody => row.approver # row.reviewer

(* A row that has been submitted: who has acted, by its status. *)
Standing(row) ==
  /\ row \in Row
  /\ row.status # "none"
  /\ row.requester \in Users
  /\ row.status = "pending_review" => row.review /\ row.reviewer = Nobody
  /\ row.status \in Open => row.approver = Nobody /\ row.rejecter = Nobody
  /\ row.status \in Executed => row.approver \in Users
  /\ row.review /\ row.status \notin {"pending_review", "rejected"} => row.reviewer \in Users
  /\ Separate(row)

Fresh(row) ==
  /\ Standing(row)
  /\ row.status = IF row.review THEN "pending_review" ELSE "pending"
  /\ row.reviewer = Nobody /\ row.approver = Nobody /\ row.rejecter = Nobody

RowInv(a) ==
  /\ a > seq => approval[a] = NoRow
  /\ a <= seq => Standing(approval[a])
  /\ calls[a] <= 1
  /\ approval[a].status \notin Executed => calls[a] = 0
  /\ told[a] \cap Final \subseteq {approval[a].status}
  /\ "approve" \in told[a] => approval[a].status # "pending_review"
  /\ a > seq => told[a] = {}

(* What handler x, about to write, knows: its copy is the row, or the row   *)
(* has moved on for good.                                                   *)
WriteInv(x) ==
  /\ x.id \in 1 .. seq
  /\ x.actor \in Users
  /\ Standing(x.copy)
  /\ approval[x.id].status = x.copy.status => approval[x.id] = x.copy
  /\ approval[x.id].status = "pending_review" => x.copy.status = "pending_review"
  /\ \E stage \in Decisions :
       /\ MayDecide(x.copy, stage)
       /\ ~ActorConflict(x.copy, x.actor, stage)
       /\ x.next = Decided(x.copy, x.actor, stage)
       /\ x.notice = IF stage = "review" THEN "approve" ELSE "rejected"

HandlerInv(x) ==
  /\ x.pc = "submit" => Fresh(x.next)
  /\ x.pc = "write" => WriteInv(x)
  /\ x.pc \in {"execute", "settle"} =>
       x.id \in 1 .. seq /\ approval[x.id] = x.next /\ x.next.status = "executing"
  /\ x.pc = "execute" => calls[x.id] = 0
  /\ x.pc = "settle" => x.notice \in {"approved", "failed"}
  /\ x.pc = "settle" /\ x.notice = "approved" => calls[x.id] = 1
  /\ x.pc = "notify" =>
       /\ x.id \in 1 .. seq
       /\ x.notice \in Final => approval[x.id].status = x.notice
       /\ x.notice = "approve" => approval[x.id].status # "pending_review"

Executing(h) == handler[h].pc \in {"execute", "settle"}

Inv ==
  /\ TypeOK
  /\ \A a \in Ids : RowInv(a)
  /\ \A h \in Handlers : HandlerInv(handler[h])
  /\ \A g, h \in Handlers : Executing(g) /\ Executing(h) /\ handler[g].id = handler[h].id => g = h

-----------------------------------------------------------------------------
(* Facts about rows *)

(* What a decision makes of a row that stands: it stands, with the status    *)
(* moved forward.                                                            *)
LEMMA DecidedStands ==
  ASSUME NEW row, Standing(row), NEW u \in Users, NEW stage \in Decisions,
         MayDecide(row, stage), ~ActorConflict(row, u, stage)
  PROVE  /\ Standing(Decided(row, u, stage))
         /\ row.status \in Open
         /\ Decided(row, u, stage).status \in {"pending", "executing", "rejected"}
         /\ Decided(row, u, stage).status = "pending" =>
              stage = "review" /\ row.status = "pending_review"
         /\ Decided(row, u, stage).status = "rejected" <=> stage = "reject"
<1>1. u # Nobody
  BY UserAssumption
<1>2. CASE stage = "review"
  <2>1. Decided(row, u, stage) = [row EXCEPT !.status = "pending", !.reviewer = u]
    BY <1>2 DEF Decided
  <2>2. row.status = "pending_review" /\ u # row.requester
    BY <1>2 DEF MayDecide, ActorConflict
  <2> DEFINE next == [row EXCEPT !.status = "pending", !.reviewer = u]
  <2>3. /\ row.review \in BOOLEAN /\ row.approver = Nobody /\ row.rejecter = Nobody
        /\ row.requester \in Users /\ row \in Row
    BY <2>2 DEF Standing, Row, Open
  <2>4. /\ next \in Row /\ next.status = "pending" /\ next.reviewer = u
        /\ next.requester = row.requester /\ next.review = row.review
        /\ next.approver = Nobody /\ next.rejecter = Nobody
    BY <2>3 DEF Row, RowStatuses, Open
  <2>5. Standing(next)
    BY <1>1, <2>2, <2>3, <2>4 DEF Standing, Separate, Open, Executed
  <2> QED BY <1>2, <2>1, <2>2, <2>4, <2>5 DEF Open
<1>3. CASE stage = "approve"
  <2>1. Decided(row, u, stage) = [row EXCEPT !.status = "executing", !.approver = u]
    BY <1>3 DEF Decided
  <2>2. row.status = "pending" /\ u # row.requester /\ u # row.reviewer
    BY <1>3 DEF MayDecide, ActorConflict
  <2> QED BY <1>1, <1>3, <2>1, <2>2 DEF Standing, Separate, Row, RowStatuses, Open, Executed
<1>4. CASE stage = "reject"
  <2>1. Decided(row, u, stage) = [row EXCEPT !.status = "rejected", !.rejecter = u]
    BY <1>4 DEF Decided
  <2>2. row.status \in Open /\ u # row.requester
    BY <1>4 DEF MayDecide, ActorConflict
  <2> QED BY <1>1, <1>4, <2>1, <2>2 DEF Standing, Separate, Row, RowStatuses, Open, Executed
<1> QED BY <1>2, <1>3, <1>4 DEF Decisions

(* Recording the outcome of an execution keeps the row standing. *)
LEMMA SettledStands ==
  ASSUME NEW row, Standing(row), row.status = "executing",
         NEW outcome \in {"approved", "failed"}
  PROVE  Standing([row EXCEPT !.status = outcome])
BY DEF Standing, Separate, Row, RowStatuses, Open, Executed

(* An idle handler claims nothing. *)
LEMMA IdleClaimsNothing ==
  /\ IdleHandler \in Handler
  /\ IdleHandler.pc = "idle"
  /\ HandlerInv(IdleHandler)
<1>1. NoRow \in Row
  BY DEF NoRow, Row, RowStatuses, Open
<1>2. IdleHandler \in Handler /\ IdleHandler.pc = "idle"
  BY <1>1, ApprovalBoundAssumption DEF IdleHandler, Handler, Phases, Notices
<1> QED BY <1>2 DEF HandlerInv

LEMMA InitInv == Init => Inv
<1> SUFFICES ASSUME Init PROVE Inv
  OBVIOUS
<1>1. NoRow \in Row
  BY DEF NoRow, Row, RowStatuses, Open
<1>2. TypeOK
  BY <1>1, IdleClaimsNothing, WorkflowAssumption, ApprovalBoundAssumption DEF Init, TypeOK
<1>3. \A a \in Ids : RowInv(a)
  BY ApprovalBoundAssumption DEF Init, RowInv, Ids, Executed, NoRow
<1>4. \A h \in Handlers : HandlerInv(handler[h]) /\ ~Executing(h)
  BY IdleClaimsNothing DEF Init, Executing
<1> QED BY <1>2, <1>3, <1>4 DEF Inv

-----------------------------------------------------------------------------
(* Steps *)

(* A step that changes no row, calls nothing and tells nobody only has to    *)
(* establish what the handlers it moved claim.                               *)
LEMMA QuietStep ==
  ASSUME Inv, TypeOK', UNCHANGED <<approval, seq, calls, told>>,
         \A g \in Handlers : \/ handler'[g] = handler[g]
                             \/ HandlerInv(handler'[g]) /\ ~Executing(g)'
  PROVE  Inv'
<1>1. \A a \in Ids : RowInv(a)'
  BY DEF Inv, RowInv
<1>2. ASSUME NEW g \in Handlers PROVE HandlerInv(handler[g])'
  BY DEF Inv, HandlerInv, WriteInv
<1>3. \A g, h \in Handlers : Executing(g)' /\ Executing(h)' /\ handler'[g].id = handler'[h].id => g = h
  BY DEF Inv, Executing
<1> QED BY <1>1, <1>2, <1>3 DEF Inv

(* Only handler h moves, to the state x. *)
LEMMA HandlerMoves ==
  ASSUME TypeOK, NEW h \in Handlers, NEW x \in Handler, handler' = [handler EXCEPT ![h] = x]
  PROVE  /\ handler' \in [Handlers -> Handler]
         /\ handler'[h] = x
         /\ \A g \in Handlers \ {h} : handler'[g] = handler[g]
BY DEF TypeOK

LEMMA FinishInv ==
  ASSUME Inv, NEW h \in Handlers, Finish(h), workflow' \in Workflow,
         UNCHANGED <<approval, seq, calls, told>>
  PROVE  Inv'
<1>1. /\ handler' \in [Handlers -> Handler] /\ handler'[h] = IdleHandler
      /\ \A g \in Handlers \ {h} : handler'[g] = handler[g]
  BY IdleClaimsNothing, HandlerMoves DEF Finish, Inv
<1>2. TypeOK'
  BY <1>1 DEF Inv, TypeOK
<1>3. HandlerInv(handler'[h]) /\ ~Executing(h)'
  BY <1>1, IdleClaimsNothing DEF Executing
<1> QED BY <1>1, <1>2, <1>3, QuietStep

LEMMA SetWorkflowInv ==
  ASSUME Inv, NEW w \in Workflows, SetWorkflow(w)
  PROVE  Inv'
<1>1. TypeOK'
  BY WorkflowAssumption DEF Inv, TypeOK, SetWorkflow
<1> QED BY <1>1, QuietStep DEF SetWorkflow

LEMMA RestartInv ==
  ASSUME Inv, Restart
  PROVE  Inv'
<1>1. TypeOK'
  BY IdleClaimsNothing DEF Inv, TypeOK, Restart
<1>2. \A g \in Handlers : handler'[g] = IdleHandler
  BY DEF Restart
<1>3. \A g \in Handlers : HandlerInv(handler'[g]) /\ ~Executing(g)'
  BY <1>2, IdleClaimsNothing DEF Executing
<1> QED BY <1>1, <1>3, QuietStep DEF Restart

(* A new request starts out standing. *)
LEMMA AskActionInv ==
  ASSUME Inv, NEW h \in Handlers, NEW u \in Users, AskAction(h, u)
  PROVE  Inv'
<1>0. workflow \in Workflow /\ TypeOK /\ u # Nobody
  BY UserAssumption DEF Inv, TypeOK
<1> DEFINE row == Requested(u)
           x == [pc |-> IF workflow.approval THEN "submit" ELSE "direct", actor |-> u, id |-> 0,
                 copy |-> NoRow, next |-> IF workflow.approval THEN row ELSE NoRow,
                 notice |-> "review"]
<1>1. row \in Row /\ NoRow \in Row
  BY <1>0 DEF Requested, Row, NoRow, RowStatuses, Open, Workflow
<1>2. Fresh(row)
  BY <1>0, <1>1 DEF Requested, Fresh, Standing, Separate, Open, Executed, Workflow
<1>3. handler' = [handler EXCEPT ![h] = x] /\ UNCHANGED <<workflow, approval, seq, calls, told>>
  BY DEF AskAction
<1> HIDE DEF row
<1>4. x \in Handler
  BY <1>1, ApprovalBoundAssumption DEF Handler, Phases, Notices
<1>5. HandlerInv(x) /\ x.pc \notin {"execute", "settle"}
  BY <1>2 DEF HandlerInv
<1> HIDE DEF x
<1>6. /\ handler' \in [Handlers -> Handler] /\ handler'[h] = x
      /\ \A g \in Handlers \ {h} : handler'[g] = handler[g]
  BY <1>0, <1>3, <1>4, HandlerMoves
<1>7. TypeOK'
  BY <1>3, <1>6 DEF Inv, TypeOK
<1>8. HandlerInv(handler'[h]) /\ ~Executing(h)'
  BY <1>5, <1>6 DEF Executing
<1> QED BY <1>3, <1>6, <1>7, <1>8, QuietStep

(* A decision is taken on the row as it is at that moment. *)
LEMMA DecideInv ==
  ASSUME Inv, NEW h \in Handlers, NEW stage \in Decisions, NEW u \in Users, NEW a \in Ids,
         NEW reasoned \in BOOLEAN, Decide(h, stage, u, a, reasoned)
  PROVE  Inv'
<1> DEFINE row == approval[a]
           x == [pc |-> "write", actor |-> u, id |-> a, copy |-> row,
                 next |-> Decided(row, u, stage),
                 notice |-> IF stage = "review" THEN "approve" ELSE "rejected"]
<1>0. TypeOK /\ seq \in Nat /\ a \in Nat /\ a >= 1 /\ a \in 0 .. MaxApprovals
  BY ApprovalBoundAssumption DEF Inv, TypeOK, Ids
<1>1. /\ MayDecide(row, stage) /\ ~ActorConflict(row, u, stage)
      /\ handler' = [handler EXCEPT ![h] = x]
      /\ UNCHANGED <<workflow, approval, seq, calls, told>>
  BY DEF Decide
<1>2. row.status \in Open
  BY <1>1 DEF MayDecide, Decisions, Open
<1>3. a <= seq
  BY <1>0, <1>2 DEF Inv, RowInv, NoRow, Open
<1>4. Standing(row)
  BY <1>3 DEF Inv, RowInv
<1>5. Standing(Decided(row, u, stage))
  BY <1>1, <1>4, DecidedStands
<1>6. x \in Handler
  BY <1>0, <1>4, <1>5 DEF Standing, Handler, Phases, Notices
<1>7. HandlerInv(x) /\ x.pc = "write"
  <2>1. WriteInv(x)
    BY <1>0, <1>1, <1>3, <1>4 DEF WriteInv
  <2> QED BY <2>1 DEF HandlerInv
<1> HIDE DEF x
<1>8. /\ handler' \in [Handlers -> Handler] /\ handler'[h] = x
      /\ \A g \in Handlers \ {h} : handler'[g] = handler[g]
  BY <1>0, <1>1, <1>6, HandlerMoves
<1>9. TypeOK'
  BY <1>1, <1>8 DEF TypeOK, Inv
<1>10. HandlerInv(handler'[h]) /\ ~Executing(h)'
  BY <1>7, <1>8 DEF Executing
<1> QED BY <1>1, <1>8, <1>9, <1>10, QuietStep

(* The row gets the next id, which no handler has heard of. *)
LEMMA SubmitApprovalInv ==
  ASSUME Inv, NEW h \in Handlers, SubmitApproval(h)
  PROVE  Inv'
<1> DEFINE row == handler[h].next
           a == seq + 1
           x == [handler[h] EXCEPT !.pc = "notify", !.id = a,
                                   !.notice = IF row.review THEN "review" ELSE "approve"]
<1>0. /\ TypeOK /\ seq \in Nat /\ seq < MaxApprovals /\ seq' = a /\ a \in Ids
      /\ a \in 0 .. MaxApprovals /\ handler[h] \in Handler /\ Ids \subseteq Nat
  BY ApprovalBoundAssumption DEF Inv, TypeOK, Ids, SubmitApproval
<1>1. Fresh(row) /\ row \in Row
  BY DEF SubmitApproval, Inv, HandlerInv, Fresh, Standing
<1>2. /\ approval' = [approval EXCEPT ![a] = row]
      /\ handler' = [handler EXCEPT ![h] = x]
      /\ UNCHANGED <<workflow, calls, told>>
  BY <1>0 DEF SubmitApproval
<1>3. /\ x \in Handler /\ x.pc = "notify" /\ x.id = a
      /\ x.notice = IF row.review THEN "review" ELSE "approve"
  BY <1>0 DEF Handler, Phases, Notices
<1> HIDE DEF x
<1>4. /\ handler' \in [Handlers -> Handler] /\ handler'[h] = x
      /\ \A g \in Handlers \ {h} : handler'[g] = handler[g]
  BY <1>0, <1>2, <1>3, HandlerMoves
<1>5. /\ approval' \in [Ids -> Row] /\ approval'[a] = row
      /\ \A b \in Ids \ {a} : approval'[b] = approval[b]
  BY <1>0, <1>1, <1>2 DEF TypeOK
<1>6. TypeOK'
  BY <1>0, <1>2, <1>4, <1>5 DEF TypeOK
<1>7. ASSUME NEW b \in Ids PROVE RowInv(b)'
  <2>1. CASE b = a
    <3>1. a > seq /\ RowInv(a)
      BY <1>0 DEF Inv
    <3>2. calls[a] = 0 /\ told[a] = {}
      BY <3>1 DEF RowInv, NoRow, Executed
    <3>3. Standing(approval'[a]) /\ a <= seq'
      BY <1>0, <1>1, <1>5 DEF Fresh
    <3> QED BY <1>0, <1>2, <2>1, <3>2, <3>3 DEF RowInv
  <2>2. CASE b # a
    <3>1. approval'[b] = approval[b] /\ (b > seq' => b > seq) /\ (b <= seq' => b <= seq)
      BY <1>0, <1>5, <2>2
    <3> QED BY <1>2, <3>1 DEF Inv, RowInv
  <2> QED BY <2>1, <2>2
<1>8. ASSUME NEW g \in Handlers PROVE HandlerInv(handler[g])'
  <2>1. CASE g = h
    <3>1. row.status = IF row.review THEN "pending_review" ELSE "pending"
      BY <1>1 DEF Fresh
    <3>2. x.id \in 1 .. seq'
      BY <1>0, <1>3
    <3> QED BY <1>3, <1>4, <1>5, <2>1, <3>1, <3>2 DEF HandlerInv, Final
  <2>2. CASE g # h
    <3>1. handler'[g] = handler[g] /\ HandlerInv(handler[g])
      BY <1>4, <2>2 DEF Inv
    <3>2. handler[g].id \in 1 .. seq =>
            handler[g].id \in 1 .. seq' /\ approval'[handler[g].id] = approval[handler[g].id]
      BY <1>0, <1>5, ApprovalBoundAssumption DEF Ids
    <3>3. handler[g].pc = "write" => WriteInv(handler[g])'
      BY <3>1, <3>2 DEF HandlerInv, WriteInv
    <3> QED BY <1>2, <3>1, <3>2, <3>3 DEF HandlerInv
  <2> QED BY <2>1, <2>2
<1>9. \A f, g \in Handlers : Executing(f)' /\ Executing(g)' /\ handler'[f].id = handler'[g].id => f = g
  BY <1>3, <1>4 DEF Inv, Executing
<1> QED BY <1>6, <1>7, <1>8, <1>9 DEF Inv

(* The guarded write: a handler whose copy is out of date changes nothing;   *)
(* otherwise the row is its copy, and no other copy of it is current any     *)
(* longer.                                                                   *)
LEMMA WriteDecisionInv ==
  ASSUME Inv, NEW h \in Handlers, WriteDecision(h)
  PROVE  Inv'
<1> DEFINE a == handler[h].id
           copy == handler[h].copy
           row == handler[h].next
<1>0. /\ TypeOK /\ seq \in Nat /\ handler[h] \in Handler /\ Ids \subseteq Nat /\ seq <= MaxApprovals
      /\ handler[h].pc = "write" /\ WriteInv(handler[h])
      /\ UNCHANGED <<workflow, seq, calls, told>>
  BY ApprovalBoundAssumption DEF Inv, TypeOK, Ids, WriteDecision, HandlerInv
<1>1. a \in Ids /\ a <= seq /\ a \in 1 .. seq
  BY <1>0, ApprovalBoundAssumption DEF WriteInv, Ids
<1>2. CASE ~StatusIs(a, copy.status)
  <2>1. Finish(h) /\ UNCHANGED <<approval, seq, calls, told>> /\ workflow' \in Workflow
    BY <1>0, <1>2 DEF WriteDecision, Finish, TypeOK
  <2> QED BY <2>1, FinishInv
<1>3. CASE StatusIs(a, copy.status)
  <2> DEFINE x == [handler[h] EXCEPT !.pc = IF row.status = "executing" THEN "execute" ELSE "notify"]
  <2>1. approval' = [approval EXCEPT ![a] = row] /\ handler' = [handler EXCEPT ![h] = x]
    BY <1>3 DEF WriteDecision
  <2>2. PICK stage \in Decisions :
          /\ MayDecide(copy, stage) /\ ~ActorConflict(copy, handler[h].actor, stage)
          /\ row = Decided(copy, handler[h].actor, stage)
          /\ handler[h].notice = IF stage = "review" THEN "approve" ELSE "rejected"
    BY <1>0 DEF WriteInv
  <2>3. Standing(copy) /\ handler[h].actor \in Users /\ approval[a] = copy
    BY <1>0, <1>3 DEF WriteInv, StatusIs
  <2>4. /\ Standing(row) /\ copy.status \in Open
        /\ row.status \in {"pending", "executing", "rejected"}
        /\ row.status = "pending" => stage = "review" /\ copy.status = "pending_review"
        /\ row.status = "rejected" <=> stage = "reject"
    BY <2>2, <2>3, DecidedStands
  <2>5. /\ x \in Handler /\ x.id = a /\ x.next = row /\ x.notice = handler[h].notice
        /\ x.pc = IF row.status = "executing" THEN "execute" ELSE "notify"
    BY <1>0 DEF Handler, Phases
  <2> HIDE DEF x
  <2>6. /\ handler' \in [Handlers -> Handler] /\ handler'[h] = x
        /\ \A g \in Handlers \ {h} : handler'[g] = handler[g]
    BY <1>0, <2>1, <2>5, HandlerMoves
  <2>7. row \in Row
    BY <2>4 DEF Standing
  <2>8. /\ approval' \in [Ids -> Row] /\ approval'[a] = row
        /\ \A b \in Ids \ {a} : approval'[b] = approval[b]
    BY <1>0, <1>1, <2>1, <2>7 DEF TypeOK
  <2>9. TypeOK'
    BY <1>0, <2>6, <2>8 DEF TypeOK
  <2>10. calls[a] = 0 /\ told[a] \cap Final = {}
    BY <1>1, <2>3, <2>4 DEF Inv, RowInv, Open, Executed, Final
  <2>11. ASSUME NEW b \in Ids PROVE RowInv(b)'
    <3>1. CASE b = a
      BY <1>0, <1>1, <2>4, <2>8, <2>10, <3>1 DEF RowInv
    <3>2. CASE b # a
      BY <1>0, <2>8, <3>2 DEF Inv, RowInv
    <3> QED BY <3>1, <3>2
  <2>12. ASSUME NEW g \in Handlers \ {h}, handler[g].id = a, handler[g].pc \in {"execute", "settle"}
         PROVE  FALSE
    BY <2>3, <2>4, <2>12 DEF Inv, HandlerInv, Open
  <2>13. ASSUME NEW g \in Handlers PROVE HandlerInv(handler[g])'
    <3>1. CASE g = h
      <4>1. CASE row.status = "executing"
        BY <1>0, <1>1, <2>5, <2>6, <2>8, <2>10, <3>1, <4>1 DEF HandlerInv
      <4>2. CASE row.status # "executing"
        BY <1>0, <1>1, <2>2, <2>4, <2>5, <2>6, <2>8, <3>1, <4>2 DEF HandlerInv, Final, Decisions
      <4> QED BY <4>1, <4>2
    <3>2. CASE g # h
      <4> DEFINE y == handler[g]
      <4>1. handler'[g] = y /\ HandlerInv(y)
        BY <2>6, <3>2 DEF Inv
      <4>2. CASE y.id # a
        <5>1. y.id \in 1 .. seq => approval'[y.id] = approval[y.id]
          BY <1>0, <2>8, <4>2, ApprovalBoundAssumption DEF Ids
        <5>2. y.pc = "write" => WriteInv(y)'
          BY <1>0, <4>1, <5>1 DEF HandlerInv, WriteInv
        <5> QED BY <1>0, <4>1, <5>1, <5>2 DEF HandlerInv
      <4>3. CASE y.id = a
        <5>1. y.pc = "write" => WriteInv(y)'
          <6> SUFFICES ASSUME y.pc = "write" PROVE WriteInv(y)'
            OBVIOUS
          <6>1. WriteInv(y)
            BY <4>1 DEF HandlerInv
          <6>2. PICK st \in Decisions : MayDecide(y.copy, st) /\ ~ActorConflict(y.copy, y.actor, st)
            BY <6>1 DEF WriteInv
          <6>3. y.copy.status \in Open
            BY <6>1, <6>2, DecidedStands DEF WriteInv
          <6>4. row.status # y.copy.status /\ row.status # "pending_review"
            BY <2>3, <2>4, <4>3, <6>1, <6>3 DEF WriteInv, Open
          <6> QED BY <1>0, <2>8, <4>1, <4>3, <6>1, <6>4 DEF WriteInv
        <5>2. y.pc \notin {"execute", "settle"}
          BY <2>12, <3>2, <4>3
        <5>3. y.pc = "notify" => y.notice \notin Final
          BY <2>3, <2>4, <4>1, <4>3 DEF HandlerInv, Open, Final
        <5> QED BY <1>0, <2>4, <2>8, <4>1, <4>3, <5>1, <5>2, <5>3 DEF HandlerInv
      <4> QED BY <4>2, <4>3
    <3> QED BY <3>1, <3>2
  <2>14. \A f, g \in Handlers : Executing(f)' /\ Executing(g)' /\ handler'[f].id = handler'[g].id => f = g
    BY <2>5, <2>6, <2>12 DEF Inv, Executing
  <2> QED BY <2>9, <2>11, <2>13, <2>14 DEF Inv
<1> QED BY <1>2, <1>3

(* The one handler that executes an approval sends its operation once. *)
LEMMA ExecuteInv ==
  ASSUME Inv, NEW h \in Handlers, Execute(h)
  PROVE  Inv'
<1> DEFINE a == handler[h].id
<1>0. /\ TypeOK /\ seq \in Nat /\ handler[h] \in Handler /\ seq <= MaxApprovals
      /\ handler[h].pc = "execute" /\ HandlerInv(handler[h])
      /\ UNCHANGED <<workflow, approval, seq, told>>
  BY ApprovalBoundAssumption DEF Inv, TypeOK, Ids, Execute
<1>1. /\ a \in Ids /\ a \in 1 .. seq /\ approval[a] = handler[h].next
      /\ handler[h].next.status = "executing" /\ calls[a] = 0
  BY <1>0, ApprovalBoundAssumption DEF HandlerInv, Ids
<1>2. PICK sent, ok \in BOOLEAN :
        /\ ok => sent
        /\ calls' = IF sent THEN [calls EXCEPT ![a] = @ + 1] ELSE calls
        /\ handler' = [handler EXCEPT ![h].pc = "settle",
                         ![h].notice = IF ok THEN "approved" ELSE "failed"]
  BY DEF Execute
<1> DEFINE x == [handler[h] EXCEPT !.pc = "settle", !.notice = IF ok THEN "approved" ELSE "failed"]
<1>3. handler' = [handler EXCEPT ![h] = x]
  BY <1>2
<1>4. /\ x \in Handler /\ x.pc = "settle" /\ x.id = a /\ x.next = handler[h].next
      /\ x.notice = IF ok THEN "approved" ELSE "failed"
  BY <1>0 DEF Handler, Phases, Notices
<1> HIDE DEF x
<1>5. /\ handler' \in [Handlers -> Handler] /\ handler'[h] = x
      /\ \A g \in Handlers \ {h} : handler'[g] = handler[g]
  BY <1>0, <1>3, <1>4, HandlerMoves
<1>6. /\ calls' \in [Ids -> Nat] /\ (ok => calls'[a] = 1) /\ calls'[a] \in {0, 1}
      /\ \A b \in Ids \ {a} : calls'[b] = calls[b]
  BY <1>0, <1>1, <1>2 DEF TypeOK
<1>7. TypeOK'
  BY <1>0, <1>5, <1>6 DEF TypeOK
<1>8. ASSUME NEW b \in Ids PROVE RowInv(b)'
  <2>1. CASE b = a
    BY <1>0, <1>1, <1>6, <2>1 DEF Inv, RowInv, Executed
  <2>2. CASE b # a
    BY <1>0, <1>6, <2>2 DEF Inv, RowInv
  <2> QED BY <2>1, <2>2
<1>9. ASSUME NEW g \in Handlers PROVE HandlerInv(handler[g])'
  <2>1. CASE g = h
    BY <1>0, <1>1, <1>4, <1>5, <1>6, <2>1 DEF HandlerInv
  <2>2. CASE g # h
    <3>1. handler'[g] = handler[g] /\ HandlerInv(handler[g])
      BY <1>5, <2>2 DEF Inv
    <3>2. Executing(g) => handler[g].id # a /\ calls'[handler[g].id] = calls[handler[g].id]
      <4> SUFFICES ASSUME Executing(g)
                   PROVE  handler[g].id # a /\ calls'[handler[g].id] = calls[handler[g].id]
        OBVIOUS
      <4>1. handler[g].id \in Ids
        BY <1>0, <3>1, ApprovalBoundAssumption DEF Executing, HandlerInv, Ids
      <4>2. handler[g].id # a
        BY <1>0, <2>2 DEF Inv, Executing
      <4> QED BY <1>6, <4>1, <4>2
    <3>3. handler[g].pc = "write" => WriteInv(handler[g])'
      BY <1>0, <3>1 DEF HandlerInv, WriteInv
    <3> QED BY <1>0, <3>1, <3>2, <3>3 DEF HandlerInv, Executing
  <2> QED BY <2>1, <2>2
<1>10. \A g \in Handlers : (Executing(g)' <=> Executing(g)) /\ handler'[g].id = handler[g].id
  BY <1>0, <1>4, <1>5 DEF Executing
<1>11. \A f, g \in Handlers : Executing(f)' /\ Executing(g)' /\ handler'[f].id = handler'[g].id => f = g
  BY <1>10 DEF Inv
<1> QED BY <1>7, <1>8, <1>9, <1>11 DEF Inv

(* The outcome goes to a row that nobody else could have touched. *)
LEMMA SettleApprovalInv ==
  ASSUME Inv, NEW h \in Handlers, SettleApproval(h)
  PROVE  Inv'
<1> DEFINE a == handler[h].id
           outcome == handler[h].notice
           row == [handler[h].next EXCEPT !.status = outcome]
           x == [handler[h] EXCEPT !.pc = "notify"]
<1>0. /\ TypeOK /\ seq \in Nat /\ handler[h] \in Handler /\ seq <= MaxApprovals
      /\ handler[h].pc = "settle" /\ HandlerInv(handler[h])
      /\ UNCHANGED <<workflow, seq, calls, told>>
  BY ApprovalBoundAssumption DEF Inv, TypeOK, Ids, SettleApproval
<1>1. /\ a \in Ids /\ a \in 1 .. seq /\ approval[a] = handler[h].next
      /\ handler[h].next.status = "executing" /\ outcome \in {"approved", "failed"}
  BY <1>0, ApprovalBoundAssumption DEF HandlerInv, Ids
<1>2. Standing(approval[a])
  BY <1>0, <1>1 DEF Inv, RowInv
<1>3. approval' = [approval EXCEPT ![a] = row] /\ handler' = [handler EXCEPT ![h] = x]
  BY <1>1 DEF SettleApproval, StatusIs
<1>4. Standing(row) /\ row \in Row /\ row.status = outcome
  <2>1. Standing(row)
    BY <1>1, <1>2, SettledStands
  <2>2. row.status = outcome
    BY <1>1, <1>2 DEF Standing, Row
  <2> QED BY <2>1, <2>2 DEF Standing
<1> HIDE DEF row
<1>5. x \in Handler /\ x.pc = "notify" /\ x.id = a /\ x.notice = outcome
  BY <1>0 DEF Handler, Phases
<1> HIDE DEF x
<1>6. /\ handler' \in [Handlers -> Handler] /\ handler'[h] = x
      /\ \A g \in Handlers \ {h} : handler'[g] = handler[g]
  BY <1>0, <1>3, <1>5, HandlerMoves
<1>7. /\ approval' \in [Ids -> Row] /\ approval'[a] = row
      /\ \A b \in Ids \ {a} : approval'[b] = approval[b]
  BY <1>0, <1>1, <1>3, <1>4 DEF TypeOK
<1>8. TypeOK'
  BY <1>0, <1>6, <1>7 DEF TypeOK
<1>9. ASSUME NEW b \in Ids PROVE RowInv(b)'
  <2>1. CASE b = a
    <3>1. told[a] \cap Final = {} /\ calls[a] <= 1
      BY <1>1 DEF Inv, RowInv, Final
    <3> QED BY <1>0, <1>1, <1>4, <1>7, <2>1, <3>1 DEF RowInv, Executed
  <2>2. CASE b # a
    BY <1>0, <1>7, <2>2 DEF Inv, RowInv
  <2> QED BY <2>1, <2>2
<1>10. ASSUME NEW g \in Handlers PROVE HandlerInv(handler[g])'
  <2>1. CASE g = h
    BY <1>0, <1>1, <1>4, <1>5, <1>6, <1>7, <2>1 DEF HandlerInv
  <2>2. CASE g # h
    <3> DEFINE y == handler[g]
    <3>1. handler'[g] = y /\ HandlerInv(y)
      BY <1>6, <2>2 DEF Inv
    <3>2. CASE y.id # a
      <4>1. y.id \in 1 .. seq => approval'[y.id] = approval[y.id]
        BY <1>0, <1>7, <3>2, ApprovalBoundAssumption DEF Ids
      <4>2. y.pc = "write" => WriteInv(y)'
        BY <1>0, <3>1, <4>1 DEF HandlerInv, WriteInv
      <4> QED BY <1>0, <3>1, <4>1, <4>2 DEF HandlerInv
    <3>3. CASE y.id = a
      <4>1. y.pc = "write" => WriteInv(y)'
        <5> SUFFICES ASSUME y.pc = "write" PROVE WriteInv(y)'
          OBVIOUS
        <5>1. WriteInv(y)
          BY <3>1 DEF HandlerInv
        <5>2. PICK st \in Decisions : MayDecide(y.copy, st) /\ ~ActorConflict(y.copy, y.actor, st)
          BY <5>1 DEF WriteInv
        <5>3. y.copy.status \in Open
          BY <5>1, <5>2, DecidedStands DEF WriteInv
        <5>4. row.status # y.copy.status /\ row.status # "pending_review"
          BY <1>1, <1>4, <5>3 DEF Open
        <5> QED BY <1>0, <1>7, <3>1, <3>3, <5>1, <5>4 DEF WriteInv
      <4>2. y.pc \notin {"execute", "settle"}
        BY <1>0, <2>2, <3>3 DEF Inv, Executing
      <4>3. y.pc = "notify" => y.notice \notin Final
        BY <1>1, <3>1, <3>3 DEF HandlerInv, Final
      <4> QED BY <1>0, <1>1, <1>4, <1>7, <3>1, <3>3, <4>1, <4>2, <4>3 DEF HandlerInv
    <3> QED BY <3>2, <3>3
  <2> QED BY <2>1, <2>2
<1>11. \A f, g \in Handlers : Executing(f)' /\ Executing(g)' /\ handler'[f].id = handler'[g].id => f = g
  BY <1>5, <1>6 DEF Inv, Executing
<1> QED BY <1>8, <1>9, <1>10, <1>11 DEF Inv

(* A mail repeats what the handler knows of the row. *)
LEMMA NotifyInv ==
  ASSUME Inv, NEW h \in Handlers, Notify(h)
  PROVE  Inv'
<1> DEFINE a == handler[h].id
           notice == handler[h].notice
<1>0. /\ TypeOK /\ seq \in Nat /\ handler[h] \in Handler /\ seq <= MaxApprovals
      /\ handler[h].pc = "notify" /\ HandlerInv(handler[h])
      /\ UNCHANGED <<workflow, approval, seq, calls>>
  BY ApprovalBoundAssumption DEF Inv, TypeOK, Ids, Notify
<1>1. /\ a \in Ids /\ a \in 1 .. seq /\ notice \in Notices
      /\ notice \in Final => approval[a].status = notice
      /\ notice = "approve" => approval[a].status # "pending_review"
  BY <1>0, ApprovalBoundAssumption DEF HandlerInv, Ids, Handler
<1>2. /\ handler' \in [Handlers -> Handler] /\ handler'[h] = IdleHandler
      /\ \A g \in Handlers \ {h} : handler'[g] = handler[g]
  BY <1>0, IdleClaimsNothing, HandlerMoves DEF Notify, Finish
<1>3. /\ told' \in [Ids -> SUBSET Notices] /\ told'[a] = told[a] \cup {notice}
      /\ \A b \in Ids \ {a} : told'[b] = told[b]
  BY <1>0, <1>1 DEF Notify, TypeOK
<1>4. TypeOK'
  BY <1>0, <1>2, <1>3 DEF TypeOK
<1>5. ASSUME NEW b \in Ids PROVE RowInv(b)'
  <2>1. CASE b = a
    BY <1>0, <1>1, <1>3, <2>1 DEF Inv, RowInv
  <2>2. CASE b # a
    BY <1>0, <1>3, <2>2 DEF Inv, RowInv
  <2> QED BY <2>1, <2>2
<1>6. ASSUME NEW g \in Handlers PROVE HandlerInv(handler[g])'
  <2>1. HandlerInv(handler'[g])
    BY <1>2, IdleClaimsNothing DEF Inv
  <2> QED BY <1>0, <2>1 DEF HandlerInv, WriteInv
<1>7. \A f, g \in Handlers : Executing(f)' /\ Executing(g)' /\ handler'[f].id = handler'[g].id => f = g
  BY <1>2, IdleClaimsNothing DEF Inv, Executing
<1> QED BY <1>4, <1>5, <1>6, <1>7 DEF Inv

LEMMA NextInv == Inv /\ [Next]_vars => Inv'
<1> SUFFICES ASSUME Inv, [Next]_vars PROVE Inv'
  OBVIOUS
<1>1. CASE UNCHANGED vars
  <2>1. TypeOK'
    BY <1>1 DEF Inv, TypeOK, vars
  <2> QED BY <1>1, <2>1, QuietStep DEF vars
<1>2. ASSUME NEW w \in Workflows, SetWorkflow(w) PROVE Inv'
  BY <1>2, SetWorkflowInv
<1>3. ASSUME NEW h \in Handlers, NEW u \in Users, AskAction(h, u) PROVE Inv'
  BY <1>3, AskActionInv
<1>4. ASSUME NEW h \in Handlers, NEW stage \in Decisions, NEW u \in Users, NEW a \in Ids,
             NEW reasoned \in BOOLEAN, Decide(h, stage, u, a, reasoned)
      PROVE  Inv'
  BY <1>4, DecideInv
<1>5. ASSUME NEW h \in Handlers, Proceed(h) PROVE Inv'
  <2>1. CASE RunDirectly(h)
    <3>1. Finish(h) /\ workflow' \in Workflow /\ UNCHANGED <<approval, seq, calls, told>>
      BY <2>1 DEF RunDirectly, Inv, TypeOK
    <3> QED BY <3>1, FinishInv
  <2> QED BY <1>5, <2>1, SubmitApprovalInv, WriteDecisionInv, ExecuteInv, SettleApprovalInv,
             NotifyInv DEF Proceed
<1>6. ASSUME NEW h \in Handlers, Abandon(h) PROVE Inv'
  <2>1. Finish(h) /\ workflow' \in Workflow /\ UNCHANGED <<approval, seq, calls, told>>
    BY <1>6 DEF Abandon, Inv, TypeOK
  <2> QED BY <2>1, FinishInv
<1>7. CASE Restart
  BY <1>7, RestartInv
<1> QED BY <1>1, <1>2, <1>3, <1>4, <1>5, <1>6, <1>7 DEF Next, Serve, Interrupt

LEMMA InvHolds == Spec => []Inv
BY InitInv, NextInv, PTL DEF Spec

-----------------------------------------------------------------------------
(* Theorems *)

(* Every row and every handler is well formed in every reachable state: the  *)
(* statuses the handlers of resource_handlers.go write are the ones the      *)
(* workflow knows.                                                           *)
THEOREM TypeCorrect == Spec => []TypeOK
<1>1. Inv => TypeOK
  BY DEF Inv
<1> QED BY <1>1, InvHolds, PTL

(* approvalActorConflict is enough, although it judges a copy that others    *)
(* may be rewriting: no row ever has one account in two of the roles that    *)
(* must be separate.                                                         *)
THEOREM DutiesStaySeparate == Spec => []SeparationOfDuties
<1>1. Inv => SeparationOfDuties
  <2> SUFFICES ASSUME Inv, NEW a \in Ids
               PROVE  Separate(approval[a])
    BY DEF SeparationOfDuties, Separate
  <2>1. a \in Nat /\ seq \in Nat /\ RowInv(a)
    BY ApprovalBoundAssumption DEF Inv, TypeOK, Ids
  <2>2. CASE a <= seq
    BY <2>1, <2>2 DEF RowInv, Standing
  <2>3. CASE a > seq
    BY <2>1, <2>3 DEF RowInv, NoRow, Separate
  <2> QED BY <2>1, <2>2, <2>3
<1> QED BY <1>1, InvHolds, PTL

(* TransitionResource compares the status only, and that is enough for the   *)
(* operation to be sent at most once, under an approval and its review.      *)
THEOREM SentOnce == Spec => []SentOnceAfterApproval
<1>1. Inv => SentOnceAfterApproval
  <2> SUFFICES ASSUME Inv, NEW a \in Ids
               PROVE  /\ calls[a] <= 1
                      /\ calls[a] > 0 =>
                           /\ approval[a].status \in Executed
                           /\ approval[a].approver \in Users
                           /\ approval[a].review => approval[a].reviewer \in Users
    BY DEF SentOnceAfterApproval, Executed
  <2>1. a \in Nat /\ seq \in Nat /\ RowInv(a) /\ calls[a] \in Nat
    BY ApprovalBoundAssumption DEF Inv, TypeOK, Ids
  <2>2. CASE a <= seq
    BY <2>1, <2>2 DEF RowInv, Standing, Executed
  <2>3. CASE a > seq
    BY <2>1, <2>3 DEF RowInv, NoRow, Executed
  <2> QED BY <2>1, <2>2, <2>3
<1> QED BY <1>1, InvHolds, PTL

(* The mails of notifyMail about a request never contradict its row.         *)
THEOREM NoticesStayTrue == Spec => []NoticesTrue
<1>1. Inv => NoticesTrue
  BY DEF Inv, RowInv, NoticesTrue, Final
<1> QED BY <1>1, InvHolds, PTL

-----------------------------------------------------------------------------
(* The workflow implements ApprovalLedger *)

Entries == [a \in Ids |-> Entry(approval[a])]

(* The ledger follows the write of one row. *)
LEMMA EntryWritten ==
  ASSUME TypeOK, NEW a \in Ids, NEW row, approval' = [approval EXCEPT ![a] = row]
  PROVE  Entries' = [Entries EXCEPT ![a] = Entry(row)] /\ Entries[a] = Entry(approval[a])
<1>1. approval'[a] = row /\ \A b \in Ids \ {a} : approval'[b] = approval[b]
  BY DEF TypeOK
<1>2. Entries' = [b \in Ids |-> Entry(approval'[b])]
  BY DEF Entries, Entry
<1>3. [Entries EXCEPT ![a] = Entry(row)]
        = [b \in Ids |-> IF b = a THEN Entry(row) ELSE Entry(approval[b])]
  BY DEF Entries
<1>4. \A b \in Ids : Entry(approval'[b]) = IF b = a THEN Entry(row) ELSE Entry(approval[b])
  <2> SUFFICES ASSUME NEW b \in Ids
               PROVE  Entry(approval'[b]) = IF b = a THEN Entry(row) ELSE Entry(approval[b])
    OBVIOUS
  <2>1. CASE b = a
    BY <1>1, <2>1
  <2>2. CASE b # a
    <3>1. approval'[b] = approval[b]
      BY <1>1, <2>2
    <3> QED BY <2>2, <3>1
  <2> QED BY <2>1, <2>2
<1>5. Entries[a] = Entry(approval[a])
  BY DEF Entries
<1>6. Entries' = [b \in Ids |-> IF b = a THEN Entry(row) ELSE Entry(approval[b])]
  BY <1>2, <1>4
<1> QED BY <1>3, <1>5, <1>6

LEMMA EntryDecided ==
  ASSUME NEW row \in Row, NEW u, NEW status \in RowStatuses
  PROVE  /\ Entry([row EXCEPT !.status = status, !.reviewer = u])
              = [Entry(row) EXCEPT !.status = status, !.reviewer = u]
         /\ Entry([row EXCEPT !.status = status, !.approver = u])
              = [Entry(row) EXCEPT !.status = status, !.approver = u]
         /\ Entry([row EXCEPT !.status = status, !.rejecter = u])
              = [Entry(row) EXCEPT !.status = status, !.rejecter = u]
<1> DEFINE moved == [row EXCEPT !.status = status]
<1>1. moved \in Row /\ Entry(moved) = [Entry(row) EXCEPT !.status = status]
  BY DEF Entry, Row
<1>2. /\ [row EXCEPT !.status = status, !.reviewer = u] = [moved EXCEPT !.reviewer = u]
      /\ [row EXCEPT !.status = status, !.approver = u] = [moved EXCEPT !.approver = u]
      /\ [row EXCEPT !.status = status, !.rejecter = u] = [moved EXCEPT !.rejecter = u]
  OBVIOUS
<1> HIDE DEF moved
<1>3. /\ Entry([moved EXCEPT !.reviewer = u]) = [Entry(moved) EXCEPT !.reviewer = u]
      /\ Entry([moved EXCEPT !.approver = u]) = [Entry(moved) EXCEPT !.approver = u]
      /\ Entry([moved EXCEPT !.rejecter = u]) = [Entry(moved) EXCEPT !.rejecter = u]
  BY <1>1 DEF Entry, Row
<1> QED BY <1>1, <1>2, <1>3

LEMMA EntrySettled ==
  ASSUME NEW row \in Row, NEW outcome
  PROVE  Entry([row EXCEPT !.status = outcome]) = [Entry(row) EXCEPT !.status = outcome]
BY DEF Entry, Row

LEMMA EntryFields ==
  ASSUME NEW row
  PROVE  /\ Entry(row).status = row.status /\ Entry(row).requester = row.requester
         /\ Entry(row).review = row.review /\ Entry(row).reviewer = row.reviewer
BY DEF Entry

LEMMA SubmitImplements ==
  ASSUME Inv, NEW h \in Handlers, SubmitApproval(h)
  PROVE  Ledger!LedgerNext
<1> DEFINE row == handler[h].next
           a == seq + 1
<1>1. a \in Ids /\ a > seq /\ TypeOK
  BY ApprovalBoundAssumption DEF Inv, TypeOK, Ids, SubmitApproval
<1>2. Fresh(row) /\ row \in Row /\ approval[a] = NoRow
  BY <1>1 DEF SubmitApproval, Inv, HandlerInv, RowInv, Fresh, Standing
<1>3. row.requester \in Users /\ row.review \in BOOLEAN
  BY <1>2 DEF Fresh, Standing, Row
<1>4. Entry(row) = [status |-> IF row.review THEN "pending_review" ELSE "pending",
                    requester |-> row.requester, review |-> row.review, reviewer |-> Nobody,
                    approver |-> Nobody, rejecter |-> Nobody]
  BY <1>2 DEF Fresh, Entry
<1>5. Entries' = [Entries EXCEPT ![a] = Entry(row)] /\ Entries[a] = Entry(approval[a])
  BY <1>1, EntryWritten DEF SubmitApproval
<1>6. Entries[a].status = "none"
  BY <1>2, <1>5 DEF NoRow, Entry
<1>7. UNCHANGED calls
  BY DEF SubmitApproval
<1> HIDE DEF a, row
<1>8. Ledger!Submit(a, row.requester, row.review)
  BY <1>4, <1>5, <1>6, <1>7 DEF Ledger!Submit, Entries
<1> QED BY <1>1, <1>3, <1>8 DEF Ledger!LedgerNext

LEMMA WriteImplements ==
  ASSUME Inv, NEW h \in Handlers, WriteDecision(h)
  PROVE  Ledger!LedgerNext \/ UNCHANGED <<approval, calls>>
<1> DEFINE a == handler[h].id
           copy == handler[h].copy
           row == handler[h].next
           u == handler[h].actor
<1>0. TypeOK /\ seq \in 0 .. MaxApprovals /\ WriteInv(handler[h]) /\ UNCHANGED calls
  BY DEF Inv, TypeOK, WriteDecision, HandlerInv
<1>1. a \in Ids /\ u \in Users /\ Standing(copy) /\ copy \in Row
  BY <1>0, ApprovalBoundAssumption DEF WriteInv, Ids, Standing
<1>2. CASE ~StatusIs(a, copy.status)
  BY <1>0, <1>2 DEF WriteDecision
<1>3. CASE StatusIs(a, copy.status)
  <2>1. approval[a] = copy /\ approval' = [approval EXCEPT ![a] = row]
    BY <1>0, <1>3 DEF WriteInv, StatusIs, WriteDecision
  <2>2. PICK stage \in Decisions : /\ MayDecide(copy, stage) /\ ~ActorConflict(copy, u, stage)
                                   /\ row = Decided(copy, u, stage)
    BY <1>0 DEF WriteInv
  <2>3. Entries' = [Entries EXCEPT ![a] = Entry(row)] /\ Entries[a] = Entry(copy)
    BY <1>0, <1>1, <2>1, EntryWritten
  <2>4. /\ Entries[a].status = copy.status /\ Entries[a].requester = copy.requester
        /\ Entries[a].reviewer = copy.reviewer
    BY <2>3, EntryFields
  <2>5. "pending" \in RowStatuses /\ "executing" \in RowStatuses /\ "rejected" \in RowStatuses
    BY DEF RowStatuses, Open
  <2>6. CASE stage = "review"
    <3>1. Entry(row) = [Entries[a] EXCEPT !.status = "pending", !.reviewer = u]
      <4>1. Decided(copy, u, stage) = [copy EXCEPT !.status = "pending", !.reviewer = u]
        BY <2>6 DEF Decided
      <4> HIDE DEF a, u, row, copy
      <4>2. Entry([copy EXCEPT !.status = "pending", !.reviewer = u])
              = [Entry(copy) EXCEPT !.status = "pending", !.reviewer = u]
        BY <1>1, <2>5, EntryDecided
      <4> QED BY <2>2, <2>3, <4>1, <4>2
    <3>2. Entries[a].status = "pending_review" /\ u # Entries[a].requester
      BY <2>2, <2>4, <2>6 DEF MayDecide, ActorConflict
    <3> HIDE DEF a, u, row, copy
    <3>3. Entries' = [Entries EXCEPT ![a] = [Entries[a] EXCEPT !.status = "pending", !.reviewer = u]]
      BY <2>3, <3>1
    <3>4. Ledger!Review(a, u)
      BY <1>0, <3>2, <3>3 DEF Ledger!Review, Entries
    <3> QED BY <1>1, <3>4 DEF Ledger!LedgerNext
  <2>7. CASE stage = "approve"
    <3>1. Entry(row) = [Entries[a] EXCEPT !.status = "executing", !.approver = u]
      <4>1. Decided(copy, u, stage) = [copy EXCEPT !.status = "executing", !.approver = u]
        BY <2>7 DEF Decided
      <4> HIDE DEF a, u, row, copy
      <4>2. Entry([copy EXCEPT !.status = "executing", !.approver = u])
              = [Entry(copy) EXCEPT !.status = "executing", !.approver = u]
        BY <1>1, <2>5, EntryDecided
      <4> QED BY <2>2, <2>3, <4>1, <4>2
    <3>2. Entries[a].status = "pending" /\ u \notin {Entries[a].requester, Entries[a].reviewer}
      BY <2>2, <2>4, <2>7 DEF MayDecide, ActorConflict
    <3> HIDE DEF a, u, row, copy
    <3>3. Entries' = [Entries EXCEPT ![a] = [Entries[a] EXCEPT !.status = "executing", !.approver = u]]
      BY <2>3, <3>1
    <3>4. Ledger!Approve(a, u)
      BY <1>0, <3>2, <3>3 DEF Ledger!Approve, Entries
    <3> QED BY <1>1, <3>4 DEF Ledger!LedgerNext
  <2>8. CASE stage = "reject"
    <3>1. Entry(row) = [Entries[a] EXCEPT !.status = "rejected", !.rejecter = u]
      <4>1. Decided(copy, u, stage) = [copy EXCEPT !.status = "rejected", !.rejecter = u]
        BY <2>8 DEF Decided
      <4> HIDE DEF a, u, row, copy
      <4>2. Entry([copy EXCEPT !.status = "rejected", !.rejecter = u])
              = [Entry(copy) EXCEPT !.status = "rejected", !.rejecter = u]
        BY <1>1, <2>5, EntryDecided
      <4> QED BY <2>2, <2>3, <4>1, <4>2
    <3>2. Entries[a].status \in {"pending_review", "pending"} /\ u # Entries[a].requester
      BY <2>2, <2>4, <2>8 DEF MayDecide, ActorConflict, Open
    <3> HIDE DEF a, u, row, copy
    <3>3. Entries' = [Entries EXCEPT ![a] = [Entries[a] EXCEPT !.status = "rejected", !.rejecter = u]]
      BY <2>3, <3>1
    <3>4. Ledger!Reject(a, u)
      BY <1>0, <3>2, <3>3 DEF Ledger!Reject, Entries
    <3> QED BY <1>1, <3>4 DEF Ledger!LedgerNext
  <2> QED BY <2>6, <2>7, <2>8 DEF Decisions
<1> QED BY <1>2, <1>3

LEMMA ExecuteImplements ==
  ASSUME Inv, NEW h \in Handlers, Execute(h)
  PROVE  Ledger!LedgerNext \/ UNCHANGED <<approval, calls>>
<1> DEFINE a == handler[h].id
<1>0. TypeOK /\ seq \in 0 .. MaxApprovals /\ HandlerInv(handler[h]) /\ UNCHANGED approval
      /\ handler[h].pc = "execute"
  BY DEF Inv, TypeOK, Execute
<1>1. a \in Ids /\ approval[a].status = "executing" /\ calls[a] = 0
  BY <1>0, ApprovalBoundAssumption DEF HandlerInv, Ids
<1>2. calls' = [calls EXCEPT ![a] = 1] \/ calls' = calls
  BY <1>1 DEF Execute
<1>3. CASE calls' = calls
  BY <1>0, <1>3
<1>4. CASE calls' = [calls EXCEPT ![a] = 1]
  <2>1. Entries[a] = Entry(approval[a]) /\ Entries' = Entries
    BY <1>0, <1>1 DEF Entries
  <2>2. Entries[a].status = "executing"
    BY <1>1, <2>1, EntryFields
  <2> HIDE DEF a
  <2>3. Ledger!Perform(a)
    BY <1>1, <1>4, <2>1, <2>2 DEF Ledger!Perform, Entries
  <2> QED BY <1>1, <2>3 DEF Ledger!LedgerNext
<1> QED BY <1>2, <1>3, <1>4

LEMMA SettleImplements ==
  ASSUME Inv, NEW h \in Handlers, SettleApproval(h)
  PROVE  Ledger!LedgerNext
<1> DEFINE a == handler[h].id
           outcome == handler[h].notice
           row == [handler[h].next EXCEPT !.status = outcome]
<1>0. /\ TypeOK /\ seq \in 0 .. MaxApprovals /\ HandlerInv(handler[h]) /\ UNCHANGED calls
      /\ handler[h].pc = "settle"
  BY DEF Inv, TypeOK, SettleApproval
<1>1. /\ a \in Ids /\ approval[a] = handler[h].next /\ approval[a].status = "executing"
      /\ outcome \in {"approved", "failed"} /\ (outcome = "approved" => calls[a] = 1)
  BY <1>0, ApprovalBoundAssumption DEF HandlerInv, Ids
<1>2. approval[a] \in Row /\ approval' = [approval EXCEPT ![a] = row]
  BY <1>0, <1>1 DEF TypeOK, SettleApproval, StatusIs
<1>3. Entries' = [Entries EXCEPT ![a] = Entry(row)] /\ Entries[a] = Entry(approval[a])
  BY <1>0, <1>1, <1>2, EntryWritten
<1>4. Entry(row) = [Entries[a] EXCEPT !.status = outcome]
  BY <1>1, <1>2, <1>3, EntrySettled
<1>5. Entries[a].status = "executing"
  BY <1>1, <1>3, EntryFields
<1> HIDE DEF a, outcome, row
<1>6. Ledger!Settle(a, outcome)
  BY <1>0, <1>1, <1>3, <1>4, <1>5 DEF Ledger!Settle, Entries
<1> QED BY <1>1, <1>6 DEF Ledger!LedgerNext

(* The handlers, which read a row, think, and write the whole of their copy  *)
(* back, amount to decisions taken in one step each (TransitionResource and  *)
(* the handlers around it implement ApprovalLedger).                         *)
THEOREM ImplementsTheLedger == Spec => ImplementsLedger
<1>1. Init => Ledger!LedgerInit
  <2> SUFFICES ASSUME Init PROVE Ledger!LedgerInit
    OBVIOUS
  <2>1. \A a \in Ids : Entry(approval[a]) = Ledger!Blank
    BY DEF Init, Entry, NoRow, Ledger!Blank
  <2>2. [a \in Ids |-> Entry(approval[a])] = [a \in Ids |-> Ledger!Blank]
    BY <2>1
  <2> QED BY <2>2 DEF Init, Ledger!LedgerInit
<1>2. Inv /\ [Next]_vars => [Ledger!LedgerNext]_<<Entries, calls>>
  <2> SUFFICES ASSUME Inv, [Next]_vars
               PROVE  Ledger!LedgerNext \/ UNCHANGED <<Entries, calls>>
    OBVIOUS
  <2>1. UNCHANGED <<approval, calls>> => UNCHANGED <<Entries, calls>>
    BY DEF Entries
  <2>2. ASSUME NEW h \in Handlers, Proceed(h)
        PROVE  Ledger!LedgerNext \/ UNCHANGED <<approval, calls>>
    <3>1. CASE RunDirectly(h)
      BY <3>1 DEF RunDirectly
    <3>2. CASE Notify(h)
      BY <3>2 DEF Notify
    <3> QED BY <2>2, <3>1, <3>2, SubmitImplements, WriteImplements, ExecuteImplements,
               SettleImplements DEF Proceed
  <2>3. CASE UNCHANGED vars
    BY <2>1, <2>3 DEF vars
  <2>4. CASE \E w \in Workflows : SetWorkflow(w)
    BY <2>1, <2>4 DEF SetWorkflow
  <2>5. CASE \E h \in Handlers, u \in Users : AskAction(h, u)
    BY <2>1, <2>5 DEF AskAction
  <2>6. CASE \E h \in Handlers, stage \in Decisions, u \in Users, a \in Ids, reasoned \in BOOLEAN :
               Decide(h, stage, u, a, reasoned)
    BY <2>1, <2>6 DEF Decide
  <2>7. CASE Restart \/ \E h \in Handlers : Abandon(h)
    BY <2>1, <2>7 DEF Restart, Abandon
  <2> QED BY <2>1, <2>2, <2>3, <2>4, <2>5, <2>6, <2>7 DEF Next, Serve, Interrupt
<1>3. Inv /\ [Next]_vars => [Ledger!LedgerNext]_<<[a \in Ids |-> Entry(approval[a])], calls>>
  BY <1>2 DEF Entries
<1> QED BY <1>1, <1>3, InvHolds, PTL DEF Spec, ImplementsLedger, Ledger!LedgerSpec
=============================================================================
