------------------------------ MODULE Approvals ------------------------------
(***************************************************************************)
(* The review and approval workflow for server operations: the rows of     *)
(* kind approval in resources and the HTTP handlers serverAction,          *)
(* approvalReview, approvalApprove and approvalReject.                     *)
(*                                                                         *)
(* A handler reads the row, decides on the copy it holds, and writes the   *)
(* whole copy back with TransitionResource, a single UPDATE guarded by the *)
(* status alone.  Any number of handlers may hold copies of one row.  The  *)
(* approval handler then runs the remote action and records its outcome    *)
(* with a second transition.  A handler may end anywhere: its client goes  *)
(* away and the request context with it, a statement fails, or the process *)
(* stops.                                                                  *)
(*                                                                         *)
(* Rows are created by serverAction only (the generic resource API refuses *)
(* the kind), which always records the requester's id and the workflow in  *)
(* force, so the fallbacks for rows without them are not reachable.        *)
(***************************************************************************)
EXTENDS Integers

CONSTANTS
  Users,        \* accounts; each may hold every permission involved
  Nobody,       \* no account
  Handlers,     \* HTTP requests that can be in flight at once
  MaxApprovals, \* bound: values of the id sequence
  Workflows     \* workflow settings administrators use

Workflow == [approval: BOOLEAN, review: BOOLEAN, reason: BOOLEAN]

ASSUME UserAssumption == Nobody \notin Users
ASSUME ApprovalBoundAssumption == MaxApprovals \in Nat
ASSUME WorkflowAssumption == Workflows \subseteq Workflow

VARIABLES
  workflow, \* the workflow section of settings
  approval, \* approval[a]: the row with id a
  seq,      \* last value of the id sequence
  handler,  \* requests in flight
  calls,    \* history: remote actions sent for each approval
  told      \* told[a]: the mails handed over about a

vars == <<workflow, approval, seq, handler, calls, told>>

Ids == 1 .. MaxApprovals
Open == {"pending_review", "pending"}
RowStatuses == Open \cup {"none", "executing", "approved", "failed", "rejected"}
Decisions == {"review", "approve", "reject"}
Notices == {"review", "approve", "approved", "failed", "rejected"}

(* status and data of a row: who acted, and the workflow it was made under. *)
Row == [status: RowStatuses, requester: Users \cup {Nobody}, review: BOOLEAN,
        reason: BOOLEAN, reviewer: Users \cup {Nobody}, approver: Users \cup {Nobody},
        rejecter: Users \cup {Nobody}]
NoRow == [status |-> "none", requester |-> Nobody, review |-> FALSE, reason |-> FALSE,
          reviewer |-> Nobody, approver |-> Nobody, rejecter |-> Nobody]

(***************************************************************************)
(* A handler holds the row it read (copy) and writes it back as next.      *)
(***************************************************************************)
Phases == {"idle", "submit", "direct", "write", "execute", "settle", "notify"}
Handler == [pc: Phases, actor: Users \cup {Nobody}, id: 0 .. MaxApprovals, copy: Row,
            next: Row, notice: Notices]
IdleHandler == [pc |-> "idle", actor |-> Nobody, id |-> 0, copy |-> NoRow, next |-> NoRow,
                notice |-> "review"]

TypeOK ==
  /\ workflow \in Workflow
  /\ approval \in [Ids -> Row]
  /\ seq \in 0 .. MaxApprovals
  /\ handler \in [Handlers -> Handler]
  /\ calls \in [Ids -> Nat]
  /\ told \in [Ids -> SUBSET Notices]

Init ==
  /\ workflow \in Workflows
  /\ approval = [a \in Ids |-> NoRow]
  /\ seq = 0
  /\ handler = [h \in Handlers |-> IdleHandler]
  /\ calls = [a \in Ids |-> 0]
  /\ told = [a \in Ids |-> {}]

Finish(h) == handler' = [handler EXCEPT ![h] = IdleHandler]

SetWorkflow(w) ==
  /\ workflow' = w
  /\ UNCHANGED <<approval, seq, handler, calls, told>>

-----------------------------------------------------------------------------
(* serverAction *)

(* The row of a new request, under the workflow in force. *)
Requested(u) ==
  [status |-> IF workflow.review THEN "pending_review" ELSE "pending", requester |-> u,
   review |-> workflow.review, reason |-> workflow.reason,
   reviewer |-> Nobody, approver |-> Nobody, rejecter |-> Nobody]

(* The workflow in force is read; without approval the action runs at once. *)
AskAction(h, u) ==
  /\ handler[h].pc = "idle"
  /\ handler' = [handler EXCEPT ![h] =
       [pc |-> IF workflow.approval THEN "submit" ELSE "direct", actor |-> u, id |-> 0,
        copy |-> NoRow, next |-> IF workflow.approval THEN Requested(u) ELSE NoRow,
        notice |-> "review"]]
  /\ UNCHANGED <<workflow, approval, seq, calls, told>>

SubmitApproval(h) ==
  /\ handler[h].pc = "submit"
  /\ seq < MaxApprovals
  /\ seq' = seq + 1
  /\ approval' = [approval EXCEPT ![seq + 1] = handler[h].next]
  /\ handler' = [handler EXCEPT ![h].pc = "notify", ![h].id = seq + 1,
                   ![h].notice = IF handler[h].next.review THEN "review" ELSE "approve"]
  /\ UNCHANGED <<workflow, calls, told>>

(* executeServerAction without an approval: no row is involved. *)
RunDirectly(h) ==
  /\ handler[h].pc = "direct"
  /\ Finish(h)
  /\ UNCHANGED <<workflow, approval, seq, calls, told>>

-----------------------------------------------------------------------------
(* Decisions *)

RequesterOnly(row, u, stage) == u = row.requester
ActorConflict(row, u, stage) ==
  \/ u = row.requester
  \/ stage = "approve" /\ u = row.reviewer

MayDecide(row, stage) ==
  CASE stage = "review"  -> row.status = "pending_review" /\ row.review
    [] stage = "approve" -> row.status = "pending"
    [] stage = "reject"  -> row.status \in Open

DecidedByStageName(row, u, stage) ==
  CASE stage = "review"  -> [row EXCEPT !.status = "pending", !.reviewer = u]
    [] stage = "approve" -> [row EXCEPT !.status = "executing", !.approver = u]
    [] stage = "reject"  -> [row EXCEPT !.status = stage, !.rejecter = u]

Decided(row, u, stage) ==
  CASE stage = "review"  -> [row EXCEPT !.status = "pending", !.reviewer = u]
    [] stage = "approve" -> [row EXCEPT !.status = "executing", !.approver = u]
    [] stage = "reject"  -> [row EXCEPT !.status = "rejected", !.rejecter = u]

(* GetResource and every check made on the copy; refusals end the request. *)
Decide(h, stage, u, a, reasoned) ==
  LET row == approval[a]
  IN  /\ handler[h].pc = "idle"
      /\ MayDecide(row, stage)
      /\ row.reason => reasoned
      /\ ~ActorConflict(row, u, stage)
      /\ handler' = [handler EXCEPT ![h] =
           [pc |-> "write", actor |-> u, id |-> a, copy |-> row, next |-> Decided(row, u, stage),
            notice |-> IF stage = "review" THEN "approve" ELSE "rejected"]]
      /\ UNCHANGED <<workflow, approval, seq, calls, told>>

(* TransitionResource: UPDATE ... WHERE status = the status of the copy. *)
AnyStatus(a, expected) == approval[a].status # "none"
StatusIs(a, expected) == approval[a].status = expected

WriteDecision(h) ==
  LET a == handler[h].id
      won == StatusIs(a, handler[h].copy.status)
      next == handler[h].next
  IN  /\ handler[h].pc = "write"
      /\ approval' = IF won THEN [approval EXCEPT ![a] = next] ELSE approval
      /\ handler' = [handler EXCEPT ![h] =
           IF ~won THEN IdleHandler
           ELSE [handler[h] EXCEPT !.pc = IF next.status = "executing" THEN "execute" ELSE "notify"]]
      /\ UNCHANGED <<workflow, seq, calls, told>>

(* executeServerAction: the credential is not there (no call), or the call  *)
(* is sent and succeeds, or fails, perhaps only for this side.              *)
ExecuteDropsFailure(h) ==
  /\ handler[h].pc = "execute"
  /\ \/ /\ calls' = [calls EXCEPT ![handler[h].id] = @ + 1]
        /\ handler' = [handler EXCEPT ![h].pc = "settle", ![h].notice = "approved"]
     \/ /\ Finish(h)
        /\ UNCHANGED calls
  /\ UNCHANGED <<workflow, approval, seq, told>>

Execute(h) ==
  LET a == handler[h].id
  IN  /\ handler[h].pc = "execute"
      /\ \E sent, ok \in BOOLEAN :
           /\ ok => sent
           /\ calls' = IF sent THEN [calls EXCEPT ![a] = @ + 1] ELSE calls
           /\ handler' = [handler EXCEPT ![h].pc = "settle",
                            ![h].notice = IF ok THEN "approved" ELSE "failed"]
      /\ UNCHANGED <<workflow, approval, seq, told>>

(* The outcome is recorded; a failure is reported even if the row moved on. *)
SettleApproval(h) ==
  LET a == handler[h].id
      outcome == handler[h].notice
      won == StatusIs(a, "executing")
  IN  /\ handler[h].pc = "settle"
      /\ approval' = IF won
                     THEN [approval EXCEPT ![a] = [handler[h].next EXCEPT !.status = outcome]]
                     ELSE approval
      /\ handler' = [handler EXCEPT ![h] =
           IF won \/ outcome = "failed" THEN [handler[h] EXCEPT !.pc = "notify"] ELSE IdleHandler]
      /\ UNCHANGED <<workflow, seq, calls, told>>

Notify(h) ==
  /\ handler[h].pc = "notify"
  /\ told' = [told EXCEPT ![handler[h].id] = @ \cup {handler[h].notice}]
  /\ Finish(h)
  /\ UNCHANGED <<workflow, approval, seq, calls>>

(* The client disconnects or a statement fails: nothing more is written. *)
Abandon(h) ==
  /\ handler[h].pc # "idle"
  /\ Finish(h)
  /\ UNCHANGED <<workflow, approval, seq, calls, told>>

Restart ==
  /\ handler' = [h \in Handlers |-> IdleHandler]
  /\ UNCHANGED <<workflow, approval, seq, calls, told>>

Proceed(h) ==
  \/ SubmitApproval(h)
  \/ RunDirectly(h)
  \/ WriteDecision(h)
  \/ Execute(h)
  \/ SettleApproval(h)
  \/ Notify(h)

Serve ==
  \/ \E w \in Workflows : SetWorkflow(w)
  \/ \E h \in Handlers, u \in Users : AskAction(h, u)
  \/ \E h \in Handlers, stage \in Decisions, u \in Users, a \in Ids, reasoned \in BOOLEAN :
       Decide(h, stage, u, a, reasoned)
  \/ \E h \in Handlers : Proceed(h)

Interrupt ==
  \/ \E h \in Handlers : Abandon(h)
  \/ Restart

Next == Serve \/ Interrupt

Spec == Init /\ [][Next]_vars

(***************************************************************************)
(* Fairness: a handler that is not abandoned runs to its end, because      *)
(* every call it makes has a timeout.                                      *)
(***************************************************************************)
Fairness == \A h \in Handlers : WF_vars(Proceed(h))

-----------------------------------------------------------------------------
(* Properties *)

(* Nobody decides on a request of their own, and the reviewer is never the   *)
(* approver: approvalActorConflict, checked on a copy of the row that other  *)
(* handlers may be rewriting.                                                *)
SeparationOfDuties ==
  \A a \in Ids : LET row == approval[a] IN
    /\ row.requester # Nobody =>
         row.requester \notin {row.reviewer, row.approver, row.rejecter}
    /\ row.approver # Nobody => row.approver # row.reviewer

(* The operation is sent at most once, and only under an approval given      *)
(* after the review its workflow demanded, by whoever is recorded: two       *)
(* approvers, or a rejection in between, cannot send it twice or unapproved. *)
SentOnceAfterApproval ==
  \A a \in Ids :
    /\ calls[a] <= 1
    /\ calls[a] > 0 =>
         /\ approval[a].status \in {"executing", "approved", "failed"}
         /\ approval[a].approver \in Users
         /\ approval[a].review => approval[a].reviewer \in Users

(* A mail about a request reports something that did happen to it and is     *)
(* final once it reports a decision, however late the handler sends it.      *)
NoticesTrue ==
  \A a \in Ids :
    /\ told[a] \cap {"approved", "failed", "rejected"} \subseteq {approval[a].status}
    /\ "approve" \in told[a] => approval[a].status # "pending_review"

(* The workflow keeps the promises of ApprovalLedger: the reads and the      *)
(* guarded writes of concurrent handlers amount to decisions in one step.    *)
Entry(row) == [status |-> row.status, requester |-> row.requester, review |-> row.review,
               reviewer |-> row.reviewer, approver |-> row.approver,
               rejecter |-> row.rejecter]
Ledger == INSTANCE ApprovalLedger
            WITH entry <- [a \in Ids |-> Entry(approval[a])]
ImplementsLedger == Ledger!LedgerSpec
=============================================================================
