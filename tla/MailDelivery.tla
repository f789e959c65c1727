---------------------------- MODULE MailDelivery ----------------------------
(***************************************************************************)
(* Notification mail in the background, and the end of the process that    *)
(* has to let it finish: mail.Service, the rows of mail_deliveries, the    *)
(* hourly scan for expiring API keys, and the order in which main waits    *)
(* for requests, probes and deliveries before the database is closed.      *)
(*                                                                         *)
(* Requests and Hub probes call Notify, which records a row and hands each *)
(* mail to a goroutine of its own; a goroutine takes one of a few slots,   *)
(* tries at most twice and writes the outcome.  SendNow, the test mail of  *)
(* the settings page, sends within its request.  The collector marks the   *)
(* keys that are about to expire and then calls Notify for their owners.   *)
(* Every wait of the shutdown is bounded, and the process may be killed.   *)
(* Mail may be switched on and off at any time and each of these reads the *)
(* settings for itself, so what it reads is arbitrary.                     *)
(***************************************************************************)
EXTENDS Integers, FiniteSets

CONSTANTS
  Requests,   \* HTTP requests that can be in flight at once
  HubProbes,  \* probes of the collector that can be in flight at once
  Keys,       \* API keys that expire within the window, one owner each
  NoKey,      \* a mail that is not about a key
  MaxMails,   \* bound: mails handed over
  Slots,      \* maxConcurrentDeliveries
  Attempts,   \* deliveryAttempts
  MaxStops,   \* bound: how often the process ends
  WritesFail  \* whether statements may fail

ASSUME MailAssumption ==
  /\ NoKey \notin Keys
  /\ MaxMails \in Nat /\ Slots \in Nat \ {0} /\ Attempts \in Nat \ {0} /\ MaxStops \in Nat
  /\ WritesFail \in BOOLEAN

VARIABLES
  phase,    \* how far main has come
  caller,   \* caller[c]: a request or a probe and the mails it still hands over
  scan,     \* the key scan and the keys whose owners it still notifies
  marked,   \* keys with expiry_notified_at
  mail,     \* mail[m]: the delivery of mail m in this process
  row,      \* row[m]: its row in mail_deliveries
  copies,   \* copies[m]: how often the relay accepted it
  issued,   \* mails handed over
  stops,    \* how often the process has ended
  rough,    \* history: a wait of this shutdown was given up
  excused   \* history: mails cut off by such an end, or whose write failed

vars == <<phase, caller, scan, marked, mail, row, copies, issued, stops, rough, excused>>

Callers == Requests \cup HubProbes
Mails == 1 .. MaxMails
NoMail == [pc |-> "none", key |-> NoKey, test |-> FALSE, tries |-> 0, ok |-> FALSE]
Ended(d) == [pc |-> "done", key |-> d.key, test |-> d.test, tries |-> 0, ok |-> FALSE]
NoRow == [status |-> "absent", attempts |-> 0]

Caller == [pc: {"idle", "busy", "notify", "test"}, todo: 0 .. MaxMails]
Scan == [pc: {"idle", "scan", "notify"}, todo: SUBSET Keys]
Delivery == [pc: {"none", "waiting", "sending", "finish", "expired", "done"}, key: Keys \cup {NoKey},
             test: BOOLEAN, tries: 0 .. Attempts, ok: BOOLEAN]
Row == [status: {"absent", "queued", "sent", "failed"}, attempts: 0 .. Attempts]

TypeOK ==
  /\ phase \in {"up", "http", "collector", "mail", "closing", "down"}
  /\ caller \in [Callers -> Caller]
  /\ scan \in Scan
  /\ marked \subseteq Keys
  /\ mail \in [Mails -> Delivery]
  /\ row \in [Mails -> Row]
  /\ copies \in [Mails -> Nat]
  /\ issued \in 0 .. MaxMails
  /\ stops \in 0 .. MaxStops
  /\ rough \in BOOLEAN
  /\ excused \subseteq Mails

IdleCallers == [c \in Callers |-> [pc |-> "idle", todo |-> 0]]
IdleScan == [pc |-> "idle", todo |-> {}]

Init ==
  /\ phase = "up"
  /\ caller = IdleCallers
  /\ scan = IdleScan
  /\ marked = {}
  /\ mail = [m \in Mails |-> NoMail]
  /\ row = [m \in Mails |-> NoRow]
  /\ copies = [m \in Mails |-> 0]
  /\ issued = 0
  /\ stops = 0
  /\ rough = FALSE
  /\ excused = {}

-----------------------------------------------------------------------------
(* Handing mails over *)

(* record and the start of the goroutine; without a row the mail goes out   *)
(* all the same.                                                            *)
HandOver(k, test) ==
  /\ issued < MaxMails
  /\ issued' = issued + 1
  /\ mail' = [mail EXCEPT ![issued + 1] =
       [pc |-> IF test THEN "sending" ELSE "waiting", key |-> k, test |-> test, tries |-> 0, ok |-> FALSE]]
  /\ \E recorded \in BOOLEAN :
       /\ ~recorded => WritesFail
       /\ row' = IF recorded THEN [row EXCEPT ![issued + 1] = [status |-> "queued", attempts |-> 0]] ELSE row
  /\ UNCHANGED <<phase, marked, copies, stops, rough, excused>>

(* A request arrives or a probe begins while the process is up. *)
Begin(c) ==
  /\ phase = "up"
  /\ caller[c].pc = "idle"
  /\ caller' = [caller EXCEPT ![c].pc = "busy"]
  /\ UNCHANGED <<phase, scan, marked, mail, row, copies, issued, stops, rough, excused>>

(* It ends without a mail: nothing to tell, or mail is off or unreadable.   *)
End(c) ==
  /\ caller[c].pc = "busy"
  /\ caller' = [caller EXCEPT ![c].pc = "idle"]
  /\ UNCHANGED <<phase, scan, marked, mail, row, copies, issued, stops, rough, excused>>

(* Notify reads the settings, finds mail on and resolves n addresses. *)
Notify(c, n) ==
  /\ caller[c].pc = "busy"
  /\ caller' = [caller EXCEPT ![c] = [pc |-> "notify", todo |-> n]]
  /\ UNCHANGED <<phase, scan, marked, mail, row, copies, issued, stops, rough, excused>>

NotifyOne(c) ==
  /\ caller[c].pc = "notify"
  /\ HandOver(NoKey, FALSE)
  /\ caller' = [caller EXCEPT ![c] = IF caller[c].todo > 1 THEN [caller[c] EXCEPT !.todo = @ - 1]
                                     ELSE [pc |-> "idle", todo |-> 0]]
  /\ UNCHANGED scan

(* SendNow: the request stays until its one attempt is written. *)
SendNow(c) ==
  /\ c \in Requests
  /\ caller[c].pc = "busy"
  /\ HandOver(NoKey, TRUE)
  /\ caller' = [caller EXCEPT ![c] = [pc |-> "test", todo |-> issued + 1]]
  /\ UNCHANGED scan

-----------------------------------------------------------------------------
(* The scan for expiring keys *)

StartScan ==
  /\ phase = "up"
  /\ scan.pc = "idle"
  /\ scan' = [scan EXCEPT !.pc = "scan"]
  /\ UNCHANGED <<phase, caller, marked, mail, row, copies, issued, stops, rough, excused>>

(* ExpiringAPIKeys: one UPDATE marks and returns the keys not yet marked. *)
MarkNothing(due) == marked
MarkKeys(due) == marked \cup due
ExpiringAPIKeys ==
  /\ phase = "up"
  /\ scan.pc = "scan"
  /\ marked' = MarkKeys(Keys \ marked)
  /\ scan' = IF Keys \subseteq marked THEN IdleScan ELSE [pc |-> "notify", todo |-> Keys \ marked]
  /\ UNCHANGED <<phase, caller, mail, row, copies, issued, stops, rough, excused>>

(* Notify for the owner of k, which reads the settings again. *)
NotifyOwner(k) ==
  /\ scan.pc = "notify"
  /\ k \in scan.todo
  /\ phase = "up"
  /\ HandOver(k, FALSE)
  /\ scan' = IF scan.todo = {k} THEN IdleScan ELSE [scan EXCEPT !.todo = @ \ {k}]
  /\ UNCHANGED caller

(* Mail was switched off meanwhile, the settings cannot be read, or the     *)
(* context of the collector is cancelled.                                   *)
SkipOwner(k) ==
  /\ scan.pc = "notify"
  /\ k \in scan.todo
  /\ scan' = IF scan.todo = {k} THEN IdleScan ELSE [scan EXCEPT !.todo = @ \ {k}]
  /\ UNCHANGED <<phase, caller, marked, mail, row, copies, issued, stops, rough, excused>>

AbortScan ==
  /\ scan.pc = "scan"
  /\ phase # "up" \/ WritesFail
  /\ scan' = IdleScan
  /\ UNCHANGED <<phase, caller, marked, mail, row, copies, issued, stops, rough, excused>>

-----------------------------------------------------------------------------
(* Deliveries *)

Concluded(m) == mail[m].pc \in {"finish", "expired"}
InSlotForEver(m) == ~mail[m].test /\ mail[m].pc \in {"sending", "finish", "expired", "done"}
InSlot(m) == ~mail[m].test /\ (mail[m].pc = "sending" \/ Concluded(m))
TakeSlot(m) ==
  /\ mail[m].pc = "waiting"
  /\ Cardinality({n \in Mails : InSlot(n)}) < Slots
  /\ mail' = [mail EXCEPT ![m].pc = "sending"]
  /\ UNCHANGED <<phase, caller, scan, marked, row, copies, issued, stops, rough, excused>>

LastTry(m) == mail[m].test \/ mail[m].tries + 1 = Attempts

(* Deliver: the relay accepts the mail or not, and an answer that is lost   *)
(* after it accepted counts as an error.                                    *)
Attempt(m) ==
  /\ mail[m].pc = "sending"
  /\ \E accepted, ok \in BOOLEAN :
       /\ ok => accepted
       /\ copies' = IF accepted THEN [copies EXCEPT ![m] = @ + 1] ELSE copies
       /\ mail' = [mail EXCEPT ![m] =
            [pc |-> IF ok \/ LastTry(m) THEN "finish" ELSE "sending", key |-> @.key, test |-> @.test,
             tries |-> @.tries + 1, ok |-> ok]]
  /\ UNCHANGED <<phase, caller, scan, marked, row, issued, stops, rough, excused>>

(* deliveryBudget is used up in an attempt: those that are left fail at     *)
(* once.                                                                    *)
OutOfTime(m) ==
  /\ mail[m].pc = "sending"
  /\ \E accepted \in BOOLEAN :
       copies' = IF accepted THEN [copies EXCEPT ![m] = @ + 1] ELSE copies
  /\ mail' = [mail EXCEPT ![m].pc = "expired", ![m].ok = FALSE,
                        ![m].tries = IF mail[m].test THEN 1 ELSE Attempts]
  /\ UNCHANGED <<phase, caller, scan, marked, row, issued, stops, rough, excused>>

AlwaysSent(m) == "sent"
Outcome(m) == IF mail[m].ok THEN "sent" ELSE "failed"

Return(m) ==
  /\ mail' = [mail EXCEPT ![m] = Ended(mail[m])]
  /\ caller' = [c \in Callers |-> IF caller[c].pc = "test" /\ caller[c].todo = m
                                  THEN [pc |-> "idle", todo |-> 0] ELSE caller[c]]

Write(m) ==
  \/ /\ row' = IF row[m].status = "absent" THEN row
                ELSE [row EXCEPT ![m] = [status |-> Outcome(m), attempts |-> mail[m].tries]]
     /\ UNCHANGED excused
  \/ /\ WritesFail
     /\ excused' = excused \cup {m}
     /\ UNCHANGED row

(* Mutant: the outcome is written on the context of the sending. *)
CompleteOnSendContext(m) ==
  /\ Concluded(m)
  /\ Return(m)
  /\ IF mail[m].pc = "expired" THEN UNCHANGED <<row, excused>> ELSE Write(m)
  /\ UNCHANGED <<phase, scan, marked, copies, issued, stops, rough>>

(* complete writes the outcome on a context of its own. *)
CompleteDelivery(m) ==
  /\ Concluded(m)
  /\ Return(m)
  /\ Write(m)
  /\ UNCHANGED <<phase, scan, marked, copies, issued, stops, rough>>

Deliver(m) == TakeSlot(m) \/ Attempt(m) \/ OutOfTime(m) \/ CompleteDelivery(m)

-----------------------------------------------------------------------------
(* The end of the process *)

Alive(m) == mail[m].pc \in {"waiting", "sending"} \/ Concluded(m)
Inflight == {m \in Mails : Alive(m) /\ ~mail[m].test}

(* SIGTERM cancels the root context; main then waits for one after another. *)
StopSignal ==
  /\ phase = "up"
  /\ stops < MaxStops
  /\ phase' = "http"
  /\ UNCHANGED <<caller, scan, marked, mail, row, copies, issued, stops, rough, excused>>

(* httpServer.Shutdown returns once no request is left, or after 15 s. *)
Shutdown ==
  /\ phase = "http"
  /\ phase' = "collector"
  /\ rough' = (rough \/ \E c \in Requests : caller[c].pc # "idle")
  /\ UNCHANGED <<caller, scan, marked, mail, row, copies, issued, stops, excused>>

(* Run has returned and waitForHubs is done, or has given up after 10 s. *)
CollectorNotAwaited ==
  /\ phase = "collector"
  /\ phase' = "mail"
  /\ UNCHANGED <<caller, scan, marked, mail, row, copies, issued, stops, rough, excused>>

CollectorDone ==
  /\ phase = "collector"
  /\ scan.pc = "idle"
  /\ phase' = "mail"
  /\ rough' = (rough \/ \E c \in HubProbes : caller[c].pc # "idle")
  /\ UNCHANGED <<caller, scan, marked, mail, row, copies, issued, stops, excused>>

(* mailer.Wait ends with the last delivery, or after 5 s. *)
Wait ==
  /\ phase = "mail"
  /\ phase' = "closing"
  /\ rough' = (rough \/ Inflight # {})
  /\ UNCHANGED <<caller, scan, marked, mail, row, copies, issued, stops, excused>>

(* The process is gone and with it everything that was in flight. *)
Gone ==
  /\ phase' = "down"
  /\ stops' = stops + 1
  /\ caller' = IdleCallers
  /\ scan' = IdleScan
  /\ mail' = [m \in Mails |-> IF Alive(m) THEN Ended(mail[m]) ELSE mail[m]]
  /\ rough' = FALSE
  /\ UNCHANGED <<marked, row, copies, issued>>

(* main closes the pool and returns. *)
Exit ==
  /\ phase = "closing"
  /\ Gone
  /\ excused' = IF rough THEN excused \cup {m \in Mails : Alive(m)} ELSE excused

Kill ==
  /\ phase # "down"
  /\ stops < MaxStops
  /\ Gone
  /\ excused' = excused \cup {m \in Mails : Alive(m)}

Boot ==
  /\ phase = "down"
  /\ phase' = "up"
  /\ UNCHANGED <<caller, scan, marked, mail, row, copies, issued, stops, rough, excused>>

Serve ==
  \/ \E c \in Callers :
       \/ Begin(c)
       \/ End(c)
       \/ \E n \in 1 .. MaxMails : Notify(c, n)
       \/ NotifyOne(c)
       \/ SendNow(c)
  \/ StartScan
  \/ ExpiringAPIKeys
  \/ \E k \in Keys : NotifyOwner(k)
  \/ \E k \in Keys : SkipOwner(k)
  \/ AbortScan
  \/ \E m \in Mails : Deliver(m)

Stop == StopSignal \/ Shutdown \/ CollectorDone \/ Wait \/ Exit \/ Kill \/ Boot

Next == Serve \/ Stop
Spec == Init /\ [][Next]_vars

(***************************************************************************)
(* Fairness: dialling and the session have deadlines, so an attempt ends,  *)
(* and the channel of slots serves its waiters in turn.                    *)
(***************************************************************************)
Fairness == \A m \in Mails : WF_vars(Deliver(m))

LiveSpec == Spec /\ Fairness

-----------------------------------------------------------------------------
(* Properties *)

(* The record of a delivery is true: a row says sent only if the relay has   *)
(* the mail, says failed only after the last try, and the relay never has    *)
(* more copies than the row has attempts, lost answers and retries included. *)
RecordsTrue ==
  \A m \in Mails :
    /\ row[m].status = "sent" => copies[m] >= 1
    /\ row[m].status = "failed" => row[m].attempts = IF mail[m].test THEN 1 ELSE Attempts
    /\ row[m].status \in {"sent", "failed"} => copies[m] <= row[m].attempts

(* A row is queued only while somebody is still going to settle it, unless   *)
(* its delivery was cut off by a kill or a wait that was given up, or its    *)
(* write failed: requests, probes and mails are awaited in an order in which *)
(* no late caller hands over a mail that nobody waits for.                   *)
QueuedIsOwned ==
  \A m \in Mails : row[m].status = "queued" => Alive(m) \/ m \in excused

(* The owner of a key is told at most once about its expiry, whatever scans, *)
(* restarts and failures there were.                                         *)
KeyMailedOnce ==
  \A m, n \in Mails : mail[m].key # NoKey /\ mail[m].key = mail[n].key => m = n

(* A mail that finds the slots taken is not lost, nor one whose tries use up *)
(* the time allowed for sending, nor one that is under way when the process  *)
(* is stopped: every queued row is settled in the end, unless its delivery   *)
(* is cut off as above.                                                      *)
QueuedIsSettled ==
  \A m \in Mails : row[m].status = "queued" ~> row[m].status \in {"sent", "failed"} \/ m \in excused
=============================================================================
