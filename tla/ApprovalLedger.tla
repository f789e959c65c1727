--------------------------- MODULE ApprovalLedger ---------------------------
(***************************************************************************)
(* What the approval workflow promises, with every decision in one step:   *)
(* each request is reviewed when its workflow asks for it, decided once by *)
(* somebody entitled to, and its operation is sent to the remote Hub at    *)
(* most once, after the approval.  Approvals implements this with handlers *)
(* that read a row, think, and write it back.                              *)
(***************************************************************************)
EXTENDS Integers

CONSTANTS
  Users,    \* those who request, review and decide
  Nobody,   \* no user
  Ids       \* ids of approval requests

VARIABLES
  entry,    \* entry[a]: the standing of request a and who acted on it
  calls     \* calls[a]: how often the operation of a went to the remote Hub

Blank == [status |-> "none", requester |-> Nobody, review |-> FALSE,
          reviewer |-> Nobody, approver |-> Nobody, rejecter |-> Nobody]

LedgerInit ==
  /\ entry = [a \in Ids |-> Blank]
  /\ calls = [a \in Ids |-> 0]

Submit(a, u, review) ==
  /\ entry[a].status = "none"
  /\ entry' = [entry EXCEPT ![a] =
       [status |-> IF review THEN "pending_review" ELSE "pending", requester |-> u,
        review |-> review, reviewer |-> Nobody, approver |-> Nobody, rejecter |-> Nobody]]
  /\ UNCHANGED calls

Review(a, u) ==
  /\ entry[a].status = "pending_review"
  /\ u # entry[a].requester
  /\ entry' = [entry EXCEPT ![a] = [entry[a] EXCEPT !.status = "pending", !.reviewer = u]]
  /\ UNCHANGED calls

Reject(a, u) ==
  /\ entry[a].status \in {"pending_review", "pending"}
  /\ u # entry[a].requester
  /\ entry' = [entry EXCEPT ![a] = [entry[a] EXCEPT !.status = "rejected", !.rejecter = u]]
  /\ UNCHANGED calls

Approve(a, u) ==
  /\ entry[a].status = "pending"
  /\ u \notin {entry[a].requester, entry[a].reviewer}
  /\ entry' = [entry EXCEPT ![a] = [entry[a] EXCEPT !.status = "executing", !.approver = u]]
  /\ UNCHANGED calls

Perform(a) ==
  /\ entry[a].status = "executing"
  /\ calls[a] = 0
  /\ calls' = [calls EXCEPT ![a] = 1]
  /\ UNCHANGED entry

(* Only an operation that was sent can be recorded as approved. *)
Settle(a, outcome) ==
  /\ entry[a].status = "executing"
  /\ outcome = "approved" => calls[a] = 1
  /\ entry' = [entry EXCEPT ![a] = [entry[a] EXCEPT !.status = outcome]]
  /\ UNCHANGED calls

LedgerNext ==
  \E a \in Ids :
    \/ \E u \in Users, review \in BOOLEAN : Submit(a, u, review)
    \/ \E u \in Users : Review(a, u) \/ Reject(a, u) \/ Approve(a, u)
    \/ Perform(a)
    \/ \E outcome \in {"approved", "failed"} : Settle(a, outcome)

LedgerSpec == LedgerInit /\ [][LedgerNext]_<<entry, calls>>
=============================================================================
