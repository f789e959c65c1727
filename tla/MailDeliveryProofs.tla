------------------------- MODULE MailDeliveryProofs -------------------------
(***************************************************************************)
(* Proofs about MailDelivery, for any number of requests, probes, keys,    *)
(* mails, slots, attempts and stops, with or without failing statements.   *)
(***************************************************************************)
EXTENDS MailDelivery, TLAPS

(* A mail that was not handed over has left no trace. *)
Unissued == \A m \in Mails : m > issued => mail[m] = NoMail /\ row[m] = NoRow /\ copies[m] = 0

(* A key whose owner was told is marked, and no scan is about to tell them. *)
KeysMarked ==
  /\ scan.todo \subseteq marked
  /\ \A m \in Mails : mail[m].key # NoKey => mail[m].key \in marked \ scan.todo

(* What the tries of a delivery say about the relay, until it is recorded.  *)
TriesCounted ==
  \A m \in Mails :
    /\ Alive(m) => copies[m] <= mail[m].tries /\ (mail[m].ok => copies[m] >= 1)
    /\ mail[m].pc = "waiting" => mail[m].tries = 0
    /\ mail[m].pc = "sending" => mail[m].tries < Attempts /\ (mail[m].test => mail[m].tries = 0)
    /\ Concluded(m) /\ ~mail[m].ok => mail[m].tries = IF mail[m].test THEN 1 ELSE Attempts
    /\ row[m].status \in {"sent", "failed"} => mail[m].pc = "done"

(* What main has waited for, unless it gave up waiting. *)
Awaited ==
  /\ \A m \in Mails : Alive(m) /\ mail[m].test =>
       \E c \in Requests : caller[c].pc = "test" /\ caller[c].todo = m
  /\ ~rough =>
       /\ phase \in {"collector", "mail", "closing"} => \A c \in Requests : caller[c].pc = "idle"
       /\ phase \in {"mail", "closing"} => \A c \in HubProbes : caller[c].pc = "idle"
       /\ phase = "closing" => Inflight = {}
  /\ phase \in {"mail", "closing"} => scan.pc = "idle"

(* A stop that has begun may still be completed. *)
Typed ==
  /\ TypeOK
  /\ Unissued
  /\ phase \in {"http", "collector", "mail", "closing"} => stops < MaxStops

-----------------------------------------------------------------------------
LEMMA Forms ==
  /\ NoMail \in Delivery /\ NoMail.pc = "none" /\ NoMail.key = NoKey /\ NoMail.test = FALSE
  /\ NoRow \in Row /\ NoRow.status = "absent"
  /\ IdleScan \in Scan /\ IdleScan.pc = "idle" /\ IdleScan.todo = {}
  /\ IdleCallers \in [Callers -> Caller] /\ \A c \in Callers : IdleCallers[c].pc = "idle"
BY MailAssumption DEF NoMail, NoRow, IdleScan, IdleCallers, Delivery, Row, Scan, Caller

(* Fields of records that are changed in one place. *)
LEMMA CallerForms ==
  ASSUME NEW x \in Caller
  PROVE  /\ x.pc \in {"idle", "busy", "notify", "test"} /\ x.todo \in 0 .. MaxMails
         /\ \A pc \in {"idle", "busy", "notify", "test"} :
              [x EXCEPT !.pc = pc] \in Caller /\ [x EXCEPT !.pc = pc].pc = pc
                /\ [x EXCEPT !.pc = pc].todo = x.todo
         /\ x.todo > 1 => /\ [x EXCEPT !.todo = @ - 1] \in Caller
                           /\ [x EXCEPT !.todo = @ - 1].pc = x.pc
BY MailAssumption DEF Caller

LEMMA ScanForms ==
  ASSUME NEW x \in Scan, NEW k
  PROVE  /\ x.todo \subseteq Keys
         /\ [x EXCEPT !.pc = "scan"] \in Scan /\ [x EXCEPT !.pc = "scan"].todo = x.todo
         /\ [x EXCEPT !.pc = "scan"].pc = "scan"
         /\ [x EXCEPT !.todo = @ \ {k}] \in Scan /\ [x EXCEPT !.todo = @ \ {k}].todo = x.todo \ {k}
         /\ [x EXCEPT !.todo = @ \ {k}].pc = x.pc
BY DEF Scan

LEMMA DeliveryForms ==
  ASSUME NEW x \in Delivery
  PROVE  /\ x.pc \in {"none", "waiting", "sending", "finish", "expired", "done"} /\ x.key \in Keys \cup {NoKey}
         /\ x.test \in BOOLEAN /\ x.tries \in 0 .. Attempts /\ x.ok \in BOOLEAN
         /\ Ended(x) \in Delivery /\ Ended(x).pc = "done" /\ Ended(x).key = x.key /\ Ended(x).test = x.test
         /\ [x EXCEPT !.pc = "sending"] \in Delivery
         /\ [x EXCEPT !.pc = "sending"]
              = [pc |-> "sending", key |-> x.key, test |-> x.test, tries |-> x.tries, ok |-> x.ok]
BY MailAssumption DEF Delivery, Ended

(* A mail that is handed over: the next one, and no other. *)
Handed(k, test) ==
  /\ issued + 1 \in Mails /\ issued' = issued + 1
  /\ mail'[issued + 1] = [pc |-> IF test THEN "sending" ELSE "waiting", key |-> k,
                          test |-> test, tries |-> 0, ok |-> FALSE]
  /\ row'[issued + 1] \in {NoRow, [status |-> "queued", attempts |-> 0]}
  /\ copies[issued + 1] = 0 /\ mail[issued + 1] = NoMail
  /\ \A m \in Mails \ {issued + 1} : mail'[m] = mail[m] /\ row'[m] = row[m]
  /\ mail' \in [Mails -> Delivery]
  /\ row' \in [Mails -> Row]
  /\ UNCHANGED <<phase, marked, copies, stops, rough, excused>>

LEMMA HandedOver ==
  ASSUME Typed, NEW k \in Keys \cup {NoKey}, NEW test \in BOOLEAN, HandOver(k, test)
  PROVE  Handed(k, test)
<1> USE MailAssumption
<1>1. issued + 1 \in Mails /\ issued' = issued + 1 /\ issued \in Nat
      BY DEF HandOver, Typed, TypeOK, Mails
<1>2. mail[issued + 1] = NoMail /\ row[issued + 1] = NoRow /\ copies[issued + 1] = 0
      BY <1>1 DEF Typed, Unissued, Mails
<1> DEFINE new == [pc |-> IF test THEN "sending" ELSE "waiting", key |-> k,
                   test |-> test, tries |-> 0, ok |-> FALSE]
           queued == [status |-> "queued", attempts |-> 0]
<1>3. mail' = [mail EXCEPT ![issued + 1] = new]
      BY DEF HandOver
<1>4. PICK recorded \in BOOLEAN : row' = IF recorded THEN [row EXCEPT ![issued + 1] = queued] ELSE row
      BY DEF HandOver
<1>5. new \in Delivery
      BY DEF Delivery
<1>6. queued \in Row
      BY DEF Row
<1> HIDE DEF new, queued
<1>7. /\ mail'[issued + 1] = new
      /\ \A m \in Mails \ {issued + 1} : mail'[m] = mail[m]
      /\ mail' \in [Mails -> Delivery]
      BY <1>1, <1>3, <1>5 DEF Typed, TypeOK
<1>8. /\ row'[issued + 1] \in {NoRow, queued}
      /\ \A m \in Mails \ {issued + 1} : row'[m] = row[m]
      /\ row' \in [Mails -> Row]
      BY <1>1, <1>2, <1>4, <1>6 DEF Typed, TypeOK
<1> QED
    BY <1>1, <1>2, <1>7, <1>8 DEF HandOver, Handed, new, queued

LEMMA HandOverTyped ==
  ASSUME Typed, NEW k \in Keys \cup {NoKey}, NEW test \in BOOLEAN, HandOver(k, test),
         caller' \in [Callers -> Caller], scan' \in Scan
  PROVE  Typed'
<1>0. Handed(k, test)
      BY HandedOver
<1>1. TypeOK'
      BY <1>0, MailAssumption DEF Handed, Typed, TypeOK, Mails
<1>2. Unissued'
  <2>1. ASSUME NEW m \in Mails, m > issued'
        PROVE  m # issued + 1 /\ m > issued
        BY <1>0, <2>1, MailAssumption DEF Handed, Typed, TypeOK, Mails
  <2> QED
      BY <1>0, <2>1 DEF Handed, Typed, Unissued
<1> QED
    BY <1>0, <1>1, <1>2 DEF Handed, Typed

(***************************************************************************)
(* Types, one lemma per group of actions.                                  *)
(***************************************************************************)
LEMMA InitTyped == Init => Typed
<1> SUFFICES ASSUME Init PROVE Typed
    OBVIOUS
<1>1. mail \in [Mails -> Delivery] /\ row \in [Mails -> Row] /\ copies \in [Mails -> Nat]
      BY Forms DEF Init
<1>2. Unissued
      BY DEF Init, Unissued
<1>3. caller \in [Callers -> Caller] /\ scan \in Scan
      BY Forms DEF Init
<1>4. issued \in 0 .. MaxMails /\ stops \in 0 .. MaxStops
      BY MailAssumption DEF Init
<1>5. /\ phase = "up" /\ rough \in BOOLEAN
      /\ marked \subseteq Keys /\ excused \subseteq Mails
      BY DEF Init
<1> QED
    BY <1>1, <1>2, <1>3, <1>4, <1>5 DEF Typed, TypeOK

LEMMA CallersTyped ==
  ASSUME Typed, NEW c \in Callers,
         Begin(c) \/ End(c) \/ (\E n \in 1 .. MaxMails : Notify(c, n))
  PROVE  Typed'
<1>1. caller[c] \in Caller
      BY DEF Typed, TypeOK
<1>2. PICK x \in Caller : caller' = [caller EXCEPT ![c] = x]
  <2>1. CASE Begin(c)
        BY <1>1, <2>1, CallerForms DEF Begin
  <2>2. CASE End(c)
        BY <1>1, <2>2, CallerForms DEF End
  <2>3. ASSUME NEW n \in 1 .. MaxMails, Notify(c, n)
        PROVE  \E x \in Caller : caller' = [caller EXCEPT ![c] = x]
    <3>1. [pc |-> "notify", todo |-> n] \in Caller
          BY MailAssumption DEF Caller
    <3> QED
        BY <2>3, <3>1 DEF Notify
  <2> QED
      BY <2>1, <2>2, <2>3
<1>3. UNCHANGED <<phase, scan, marked, mail, row, copies, issued, stops, rough, excused>>
      BY DEF Begin, End, Notify
<1> QED
    BY <1>2, <1>3 DEF Typed, TypeOK, Unissued

LEMMA NotifyOneTyped ==
  ASSUME Typed, NEW c \in Callers, NotifyOne(c) PROVE Typed'
<1>1. caller[c] \in Caller
      BY DEF Typed, TypeOK
<1>2. [pc |-> "idle", todo |-> 0] \in Caller
      BY MailAssumption DEF Caller
<1>3. PICK x \in Caller : caller' = [caller EXCEPT ![c] = x]
      BY <1>1, <1>2, CallerForms DEF NotifyOne
<1>4. caller' \in [Callers -> Caller] /\ scan' \in Scan
      BY <1>3 DEF NotifyOne, Typed, TypeOK
<1> QED
    BY <1>4, HandOverTyped DEF NotifyOne

LEMMA SendNowTyped ==
  ASSUME Typed, NEW c \in Callers, SendNow(c) PROVE Typed'
<1>1. issued + 1 \in Mails
      BY HandedOver DEF SendNow, Handed
<1>2. [pc |-> "test", todo |-> issued + 1] \in Caller
      BY <1>1, MailAssumption DEF Caller, Mails
<1>3. caller' \in [Callers -> Caller] /\ scan' \in Scan
      BY <1>2 DEF SendNow, Typed, TypeOK
<1> QED
    BY <1>3, HandOverTyped DEF SendNow

LEMMA ScanTyped ==
  ASSUME Typed, StartScan \/ ExpiringAPIKeys \/ AbortScan \/ (\E k \in Keys : SkipOwner(k))
  PROVE  Typed'
<1>1. scan' \in Scan /\ marked' \subseteq Keys
  <2>1. scan \in Scan /\ marked \subseteq Keys
        BY DEF Typed, TypeOK
  <2>2. [pc |-> "notify", todo |-> Keys \ marked] \in Scan
        BY DEF Scan
  <2>3. CASE StartScan
        BY <2>1, <2>3, ScanForms DEF StartScan
  <2>4. CASE ExpiringAPIKeys
        BY <2>1, <2>2, <2>4, Forms DEF ExpiringAPIKeys, MarkKeys
  <2>5. CASE AbortScan
        BY <2>1, <2>5, Forms DEF AbortScan
  <2>6. CASE \E k \in Keys : SkipOwner(k)
    <3>1. PICK k \in Keys : SkipOwner(k)
          BY <2>6
    <3>2. [scan EXCEPT !.todo = @ \ {k}] \in Scan
          BY <2>1, ScanForms
    <3> QED
        BY <2>1, <3>1, <3>2, Forms DEF SkipOwner
  <2> QED
      BY <2>3, <2>4, <2>5, <2>6
<1>2. UNCHANGED <<phase, caller, mail, row, copies, issued, stops, rough, excused>>
      BY DEF StartScan, ExpiringAPIKeys, AbortScan, SkipOwner
<1> QED
    BY <1>1, <1>2 DEF Typed, TypeOK, Unissued

LEMMA NotifyOwnerTyped ==
  ASSUME Typed, NEW k \in Keys, NotifyOwner(k) PROVE Typed'
<1>1. scan \in Scan /\ caller \in [Callers -> Caller]
      BY DEF Typed, TypeOK
<1>2. scan' \in Scan /\ caller' \in [Callers -> Caller]
      BY <1>1, Forms, ScanForms DEF NotifyOwner
<1> QED
    BY <1>2, HandOverTyped DEF NotifyOwner

(* What an attempt that makes r of a mail leaves, be it one that uses up    *)
(* the time allowed.                                                        *)
Tried(m, accepted, r) ==
  /\ r.key = mail[m].key /\ r.test = mail[m].test
  /\ r.pc \in {"sending", "finish", "expired"} /\ (r.ok => accepted) /\ mail[m].tries < r.tries
  /\ r.pc = "sending" => r.tries < Attempts /\ ~r.test
  /\ r.pc # "sending" /\ ~r.ok => r.tries = IF r.test THEN 1 ELSE Attempts
  /\ mail'[m] = r /\ copies'[m] = copies[m] + (IF accepted THEN 1 ELSE 0)
  /\ mail' \in [Mails -> Delivery] /\ copies' \in [Mails -> Nat]
  /\ \A n \in Mails \ {m} : mail'[n] = mail[n] /\ copies'[n] = copies[n]

LEMMA Attempted ==
  ASSUME Typed, TriesCounted, NEW m \in Mails, Attempt(m) \/ OutOfTime(m)
  PROVE  \E accepted \in BOOLEAN, r \in Delivery : Tried(m, accepted, r)
<1>1. mail \in [Mails -> Delivery] /\ mail[m] \in Delivery /\ copies \in [Mails -> Nat]
      BY DEF Typed, TypeOK
<1>2. /\ mail[m].tries \in Nat /\ mail[m].tries < Attempts /\ (mail[m].test => mail[m].tries = 0)
      /\ mail[m].test \in BOOLEAN /\ mail[m].key \in Keys \cup {NoKey}
  <2>1. mail[m].tries < Attempts /\ (mail[m].test => mail[m].tries = 0)
        BY DEF Attempt, OutOfTime, TriesCounted
  <2>2. /\ mail[m].tries \in 0 .. Attempts /\ mail[m].test \in BOOLEAN
        /\ mail[m].key \in Keys \cup {NoKey}
        BY <1>1, DeliveryForms
  <2> QED
      BY <2>1, <2>2, MailAssumption
<1>3. ASSUME NEW accepted \in BOOLEAN, NEW r \in Delivery, mail' = [mail EXCEPT ![m] = r],
             copies' = IF accepted THEN [copies EXCEPT ![m] = @ + 1] ELSE copies
      PROVE  /\ mail'[m] = r /\ copies'[m] = copies[m] + (IF accepted THEN 1 ELSE 0)
             /\ mail' \in [Mails -> Delivery] /\ copies' \in [Mails -> Nat]
             /\ \A n \in Mails \ {m} : mail'[n] = mail[n] /\ copies'[n] = copies[n]
      BY <1>1, <1>3
<1>4. CASE Attempt(m)
  <2>1. PICK accepted \in BOOLEAN, ok \in BOOLEAN :
          /\ ok => accepted
          /\ copies' = IF accepted THEN [copies EXCEPT ![m] = @ + 1] ELSE copies
          /\ mail' = [mail EXCEPT ![m] =
              [pc |-> IF ok \/ LastTry(m) THEN "finish" ELSE "sending", key |-> @.key, test |-> @.test,
               tries |-> @.tries + 1, ok |-> ok]]
        BY <1>4 DEF Attempt
  <2> DEFINE r == [pc |-> IF ok \/ LastTry(m) THEN "finish" ELSE "sending", key |-> mail[m].key,
                   test |-> mail[m].test, tries |-> mail[m].tries + 1, ok |-> ok]
  <2>2. mail[m].tries + 1 \in 0 .. Attempts
        BY <1>2, MailAssumption
  <2>3. r \in Delivery
        BY <1>2, <2>2 DEF Delivery
  <2>4. mail' = [mail EXCEPT ![m] = r]
        BY <2>1
  <2>5. /\ r.key = mail[m].key /\ r.test = mail[m].test /\ r.tries = mail[m].tries + 1 /\ r.ok = ok
        /\ r.pc = IF ok \/ LastTry(m) THEN "finish" ELSE "sending"
        OBVIOUS
  <2> HIDE DEF r
  <2>6. LastTry(m) <=> mail[m].test \/ mail[m].tries + 1 = Attempts
        BY DEF LastTry
  <2>7. r.pc = "sending" => r.tries < Attempts /\ ~r.test
        BY <1>2, <2>5, <2>6, MailAssumption
  <2>8. r.pc # "sending" /\ ~r.ok => r.tries = IF r.test THEN 1 ELSE Attempts
        BY <1>2, <2>5, <2>6, MailAssumption
  <2>9. r.pc \in {"sending", "finish", "expired"} /\ (r.ok => accepted) /\ mail[m].tries < r.tries
        BY <1>2, <2>1, <2>5
  <2>10. Tried(m, accepted, r)
        BY <1>3, <2>1, <2>3, <2>4, <2>5, <2>7, <2>8, <2>9 DEF Tried
  <2> QED
      BY <2>3, <2>10
<1>5. CASE OutOfTime(m)
  <2>1. PICK accepted \in BOOLEAN :
          copies' = IF accepted THEN [copies EXCEPT ![m] = @ + 1] ELSE copies
        BY <1>5 DEF OutOfTime
  <2> DEFINE r == [mail[m] EXCEPT !.pc = "expired", !.ok = FALSE,
                                  !.tries = IF mail[m].test THEN 1 ELSE Attempts]
  <2>2. mail' = [mail EXCEPT ![m] = r]
        BY <1>5 DEF OutOfTime
  <2>3. (IF mail[m].test THEN 1 ELSE Attempts) \in 0 .. Attempts
        BY MailAssumption
  <2>4. /\ r \in Delivery /\ r.key = mail[m].key /\ r.test = mail[m].test
        /\ r.tries = (IF mail[m].test THEN 1 ELSE Attempts) /\ r.ok = FALSE /\ r.pc = "expired"
        BY <1>1, <2>3 DEF Delivery
  <2> HIDE DEF r
  <2>5. mail[m].tries < r.tries
        BY <1>2, <2>4
  <2>6. Tried(m, accepted, r)
        BY <1>3, <2>1, <2>2, <2>4, <2>5 DEF Tried
  <2> QED
      BY <2>4, <2>6
<1> QED
    BY <1>4, <1>5

Settled(m) ==
  /\ mail'[m] = Ended(mail[m]) /\ mail' \in [Mails -> Delivery]
  /\ row'[m] \in {row[m], [status |-> Outcome(m), attempts |-> mail[m].tries]}
  /\ row' \in [Mails -> Row]
  /\ row'[m].status = "queued" => m \in excused'
  /\ \A n \in Mails \ {m} : mail'[n] = mail[n] /\ row'[n] = row[n]
  /\ row[m].status = "absent" => row'[m] = row[m]
  /\ excused \subseteq excused' /\ excused' \subseteq Mails
  /\ caller' \in [Callers -> Caller]
  /\ \A c \in Callers : caller'[c] # caller[c] => caller'[c].pc = "idle" /\ caller[c].todo = m

LEMMA Completed ==
  ASSUME Typed, NEW m \in Mails, CompleteDelivery(m)
  PROVE  Settled(m)
<1>1. mail \in [Mails -> Delivery] /\ mail[m] \in Delivery /\ row \in [Mails -> Row]
      BY DEF Typed, TypeOK
<1> DEFINE settled == [status |-> Outcome(m), attempts |-> mail[m].tries]
<1>2. settled \in Row
      BY <1>1, DeliveryForms DEF Row, Outcome
<1>3. mail'[m] = Ended(mail[m]) /\ mail' \in [Mails -> Delivery] /\ \A n \in Mails \ {m} : mail'[n] = mail[n]
      BY <1>1, DeliveryForms DEF CompleteDelivery, Return, Write
<1>4. [pc |-> "idle", todo |-> 0] \in Caller
      BY MailAssumption DEF Caller
<1>5. caller' \in [Callers -> Caller]
      BY <1>4 DEF CompleteDelivery, Return, Write, Typed, TypeOK
<1>6. \A c \in Callers : caller'[c] # caller[c] => caller'[c].pc = "idle" /\ caller[c].todo = m
      BY DEF CompleteDelivery, Return, Write
<1>7. \/ row' = (IF row[m].status = "absent" THEN row ELSE [row EXCEPT ![m] = settled]) /\ excused' = excused
      \/ row' = row /\ excused' = excused \cup {m}
      BY DEF CompleteDelivery, Return, Write
<1>8. excused \subseteq excused' /\ excused' \subseteq Mails
      BY <1>7 DEF Typed, TypeOK
<1>s. settled.status # "queued"
      BY DEF Outcome
<1> HIDE DEF settled
<1>9. /\ row'[m] \in {row[m], settled} /\ row' \in [Mails -> Row]
      /\ row[m].status = "absent" => row'[m] = row[m]
      /\ \A n \in Mails \ {m} : row'[n] = row[n]
      BY <1>1, <1>2, <1>7
<1>10. row'[m].status = "queued" => m \in excused'
      BY <1>1, <1>7, <1>s
<1> QED
    BY <1>3, <1>5, <1>6, <1>8, <1>9, <1>10 DEF Settled, settled

(* A delivery changes one mail, which was handed over. *)
LEMMA DeliverTyped ==
  ASSUME Typed, TriesCounted, NEW m \in Mails, Deliver(m) PROVE Typed'
<1>0. mail \in [Mails -> Delivery] /\ mail[m] \in Delivery /\ issued \in Nat /\ m \in Nat
      BY MailAssumption DEF Typed, TypeOK, Mails
<1>1. m <= issued
  <2>1. mail[m].pc # "none"
        BY DEF Deliver, TakeSlot, Attempt, OutOfTime, CompleteDelivery, Concluded
  <2> QED
      BY <1>0, <2>1, Forms DEF Typed, Unissued
<1>2. CASE TakeSlot(m)
  <2>1. /\ mail' \in [Mails -> Delivery] /\ \A n \in Mails \ {m} : mail'[n] = mail[n]
        BY <1>0, <1>2, DeliveryForms DEF TakeSlot
  <2> QED
      BY <1>0, <1>1, <1>2, <2>1 DEF TakeSlot, Typed, TypeOK, Unissued
<1>3. CASE Attempt(m) \/ OutOfTime(m)
  <2>1. PICK accepted \in BOOLEAN, r \in Delivery : Tried(m, accepted, r)
        BY <1>3, Attempted
  <2> QED
      BY <1>0, <1>1, <1>3, <2>1 DEF Attempt, OutOfTime, Tried, Typed, TypeOK, Unissued
<1>4. CASE CompleteDelivery(m)
  <2>1. Settled(m)
        BY <1>4, Completed
  <2> QED
      BY <1>0, <1>1, <1>4, <2>1 DEF CompleteDelivery, Settled, Typed, TypeOK, Unissued
<1> QED
    BY <1>2, <1>3, <1>4 DEF Deliver

(* What is in flight ends with the process. *)
Over ==
  /\ mail' \in [Mails -> Delivery]
  /\ \A m \in Mails : mail'[m] = IF Alive(m) THEN Ended(mail[m]) ELSE mail[m]
  /\ \A m \in Mails : mail'[m].key = mail[m].key /\ mail'[m].test = mail[m].test
  /\ \A m \in Mails : mail'[m].pc \notin {"waiting", "sending", "finish", "expired"}
  /\ phase' = "down" /\ caller' = IdleCallers /\ scan' = IdleScan /\ rough' = FALSE
  /\ UNCHANGED <<marked, row, copies, issued>>

LEMMA GoneOver ==
  ASSUME Typed, Gone PROVE Over
<1>1. ASSUME NEW m \in Mails
      PROVE  LET x == IF Alive(m) THEN Ended(mail[m]) ELSE mail[m]
             IN  /\ x \in Delivery /\ x.key = mail[m].key /\ x.test = mail[m].test
                 /\ x.pc \notin {"waiting", "sending", "finish", "expired"}
  <2>1. mail[m] \in Delivery
        BY DEF Typed, TypeOK
  <2> QED
      BY <2>1, DeliveryForms DEF Alive, Concluded
<1> QED
    BY <1>1 DEF Gone, Over

LEMMA StopTyped ==
  ASSUME Typed, Stop PROVE Typed'
<1>1. CASE StopSignal \/ Shutdown \/ CollectorDone \/ Wait \/ Boot
      BY <1>1 DEF StopSignal, Shutdown, CollectorDone, Wait, Boot, Typed, TypeOK, Unissued
<1>2. CASE Exit \/ Kill
  <2>1. Gone /\ excused' \subseteq Mails
        BY <1>2 DEF Exit, Kill, Typed, TypeOK
  <2>2. Over
        BY <2>1, GoneOver
  <2>3. Unissued'
    <3>1. ASSUME NEW m \in Mails, m > issued' PROVE mail'[m] = NoMail /\ row'[m] = NoRow /\ copies'[m] = 0
      <4>1. mail[m] = NoMail /\ row'[m] = NoRow /\ copies'[m] = 0
            BY <2>2, <3>1 DEF Over, Typed, Unissued
      <4> QED
          BY <2>2, <4>1, Forms DEF Over, Alive, Concluded
    <3> QED
        BY <3>1 DEF Unissued
  <2>4. stops' \in 0 .. MaxStops
        BY <1>2, MailAssumption DEF Exit, Kill, Gone, Typed, TypeOK
  <2> QED
      BY <2>1, <2>2, <2>3, <2>4, Forms DEF Over, Typed, TypeOK
<1> QED
    BY <1>1, <1>2 DEF Stop
(***************************************************************************)
(* The owner of a key is told once: a key that a scan takes up was not     *)
(* marked, and every key that somebody was told about is.                  *)
(***************************************************************************)
KeyInv == KeysMarked /\ KeyMailedOnce

LEMMA KeySteps ==
  ASSUME Typed, KeyInv, Serve \/ Stop, TriesCounted PROVE KeyInv'
<1>a. mail \in [Mails -> Delivery] /\ scan \in Scan
      BY DEF Typed, TypeOK
<1>b. ASSUME UNCHANGED <<scan, marked>>, \A m \in Mails : mail'[m].key = mail[m].key
      PROVE  KeyInv'
      BY <1>b DEF KeyInv, KeysMarked, KeyMailedOnce
<1>c. ASSUME scan' = IdleScan, UNCHANGED marked, \A m \in Mails : mail'[m].key = mail[m].key
      PROVE  KeyInv'
      BY <1>c, Forms DEF KeyInv, KeysMarked, KeyMailedOnce
<1>d. ASSUME NEW k \in Keys, scan'.todo = scan.todo \ {k}, UNCHANGED <<marked, mail>>
      PROVE  KeyInv'
      BY <1>d DEF KeyInv, KeysMarked, KeyMailedOnce
<1>e. ASSUME NEW k \in Keys, k \in scan.todo,
             scan' = IF scan.todo = {k} THEN IdleScan ELSE [scan EXCEPT !.todo = @ \ {k}]
      PROVE  scan'.todo = scan.todo \ {k}
      BY <1>a, <1>e, Forms, ScanForms
<1>f. ASSUME NEW test \in BOOLEAN, Handed(NoKey, test), UNCHANGED scan PROVE KeyInv'
  <2>1. \A m \in Mails : mail'[m].key = mail[m].key
        BY <1>f, Forms DEF Handed
  <2> QED
      BY <1>b, <1>f, <2>1 DEF Handed
<1>1. ASSUME NEW c \in Callers, Begin(c) \/ End(c) \/ \E n \in 1 .. MaxMails : Notify(c, n)
      PROVE  KeyInv'
      BY <1>1, <1>b DEF Begin, End, Notify
<1>2. ASSUME NEW c \in Callers, NotifyOne(c) \/ SendNow(c) PROVE KeyInv'
      BY <1>2, <1>f, HandedOver DEF NotifyOne, SendNow
<1>3. CASE StartScan
      BY <1>3, <1>a, ScanForms DEF StartScan, KeyInv, KeysMarked, KeyMailedOnce
<1>4. CASE ExpiringAPIKeys
  <2>1. scan'.todo \subseteq Keys \ marked /\ marked' = marked \cup (Keys \ marked) /\ mail' = mail
        BY <1>4, Forms DEF ExpiringAPIKeys, MarkKeys
  <2> QED
      BY <2>1 DEF KeyInv, KeysMarked, KeyMailedOnce
<1>5. ASSUME NEW k \in Keys, NotifyOwner(k) PROVE KeyInv'
  <2>1. Handed(k, FALSE)
        BY <1>5, HandedOver DEF NotifyOwner
  <2>2. scan'.todo = scan.todo \ {k} /\ k \in scan.todo
        BY <1>5, <1>e DEF NotifyOwner
  <2>3. mail'[issued + 1].key = k /\ marked' = marked /\ issued + 1 \in Mails
        BY <2>1 DEF Handed
  <2>4. \A m \in Mails \ {issued + 1} : mail'[m].key = mail[m].key
        BY <2>1 DEF Handed
  <2>5. \A m \in Mails : mail[m].key # k
        BY <2>2, MailAssumption DEF KeyInv, KeysMarked
  <2>6. KeysMarked'
        BY <2>2, <2>3, <2>4, <2>5 DEF KeyInv, KeysMarked
  <2>7. KeyMailedOnce'
        BY <2>3, <2>4, <2>5 DEF KeyInv, KeyMailedOnce
  <2> QED
      BY <2>6, <2>7 DEF KeyInv
<1>6. ASSUME NEW k \in Keys, SkipOwner(k) PROVE KeyInv'
      BY <1>6, <1>d, <1>e DEF SkipOwner
<1>7. CASE AbortScan
      BY <1>7, <1>c DEF AbortScan
<1>8. ASSUME NEW m \in Mails, Deliver(m) PROVE KeyInv'
  <2>1. mail[m] \in Delivery
        BY <1>a
  <2>2. \A n \in Mails : mail'[n].key = mail[n].key
    <3>1. CASE TakeSlot(m)
          BY <1>a, <2>1, <3>1, DeliveryForms DEF TakeSlot
    <3>2. CASE Attempt(m) \/ OutOfTime(m)
      <4>1. PICK accepted \in BOOLEAN, r \in Delivery : Tried(m, accepted, r)
            BY <3>2, Attempted
      <4> QED
          BY <4>1 DEF Tried
    <3>3. CASE CompleteDelivery(m)
      <4>1. Settled(m)
            BY <3>3, Completed
      <4>2. Ended(mail[m]).key = mail[m].key
            BY <2>1, DeliveryForms
      <4> QED
          BY <4>1, <4>2 DEF Settled
    <3> QED
        BY <1>8, <3>1, <3>2, <3>3 DEF Deliver
  <2> QED
      BY <1>8, <1>b, <2>2 DEF Deliver, TakeSlot, Attempt, OutOfTime, CompleteDelivery
<1>9. CASE StopSignal \/ Shutdown \/ CollectorDone \/ Wait \/ Boot
      BY <1>9, <1>b DEF StopSignal, Shutdown, CollectorDone, Wait, Boot
<1>10. CASE Exit \/ Kill
  <2>1. Over
        BY <1>10, GoneOver DEF Exit, Kill
  <2> QED
      BY <1>c, <2>1 DEF Over
<1> QED
    BY <1>1, <1>2, <1>3, <1>4, <1>5, <1>6, <1>7, <1>8, <1>9, <1>10 DEF Serve, Stop

(***************************************************************************)
(* Records are true: copies never outrun tries, and a mail that is over    *)
(* without success has used up its tries.                                  *)
(***************************************************************************)
RecordInv == TriesCounted /\ RecordsTrue

(* The part of it that is about one mail. *)
CountedOne(m) ==
  /\ Alive(m) => copies[m] <= mail[m].tries /\ (mail[m].ok => copies[m] >= 1)
  /\ mail[m].pc = "waiting" => mail[m].tries = 0
  /\ mail[m].pc = "sending" => mail[m].tries < Attempts /\ (mail[m].test => mail[m].tries = 0)
  /\ Concluded(m) /\ ~mail[m].ok => mail[m].tries = IF mail[m].test THEN 1 ELSE Attempts
  /\ row[m].status \in {"sent", "failed"} => mail[m].pc = "done"

TrueOne(m) ==
  /\ row[m].status = "sent" => copies[m] >= 1
  /\ row[m].status = "failed" => row[m].attempts = IF mail[m].test THEN 1 ELSE Attempts
  /\ row[m].status \in {"sent", "failed"} => copies[m] <= row[m].attempts

LEMMA RecordInvOne == RecordInv <=> \A m \in Mails : CountedOne(m) /\ TrueOne(m)
BY DEF RecordInv, TriesCounted, RecordsTrue, CountedOne, TrueOne

LEMMA KeepsOne ==
  ASSUME NEW m \in Mails, CountedOne(m), TrueOne(m),
         mail'[m] = mail[m], row'[m] = row[m], copies'[m] = copies[m]
  PROVE  CountedOne(m)' /\ TrueOne(m)'
BY DEF CountedOne, TrueOne, Alive, Concluded

LEMMA HandOverRecords ==
  ASSUME Typed, RecordInv, NEW k, NEW test \in BOOLEAN, Handed(k, test) PROVE RecordInv'
<1>0. PICK n \in Mails : n = issued + 1
      BY DEF Handed
<1>1. copies'[n] = 0
      BY <1>0 DEF Handed
<1>2. /\ mail'[n].pc = IF test THEN "sending" ELSE "waiting"
      /\ mail'[n].tries = 0 /\ mail'[n].ok = FALSE /\ mail'[n].test = test
      BY <1>0 DEF Handed
<1>3. row'[n].status \in {"absent", "queued"}
      BY <1>0, Forms DEF Handed
<1>4. CountedOne(n)' /\ TrueOne(n)'
      BY <1>1, <1>2, <1>3, MailAssumption DEF CountedOne, TrueOne, Alive, Concluded
<1>5. ASSUME NEW m \in Mails \ {n} PROVE CountedOne(m)' /\ TrueOne(m)'
  <2>1. CountedOne(m) /\ TrueOne(m)
        BY RecordInvOne
  <2>2. mail'[m] = mail[m] /\ row'[m] = row[m] /\ copies'[m] = copies[m]
        BY <1>0 DEF Handed
  <2> QED
      BY <2>1, <2>2, KeepsOne
<1>6. \A m \in Mails : CountedOne(m)' /\ TrueOne(m)'
      BY <1>4, <1>5
<1> QED
    BY <1>6 DEF RecordInv, TriesCounted, RecordsTrue, CountedOne, TrueOne

LEMMA DeliverRecords ==
  ASSUME Typed, RecordInv, NEW m \in Mails, Deliver(m) PROVE RecordInv'
<1>1. /\ mail[m] \in Delivery /\ row[m] \in Row /\ copies[m] \in Nat
      /\ mail \in [Mails -> Delivery] /\ copies \in [Mails -> Nat]
      BY DEF Typed, TypeOK
<1>2. CountedOne(m) /\ TrueOne(m)
      BY RecordInvOne
<1>3. mail[m].tries \in Nat /\ mail[m].ok \in BOOLEAN /\ mail[m].test \in BOOLEAN
  <2>1. mail[m].tries \in 0 .. Attempts /\ mail[m].ok \in BOOLEAN /\ mail[m].test \in BOOLEAN
        BY <1>1, DeliveryForms
  <2> QED
      BY <2>1, MailAssumption
<1>4. CountedOne(m)' /\ TrueOne(m)'
  <2>1. CASE TakeSlot(m)
    <3>1. mail'[m] = [pc |-> "sending", key |-> mail[m].key, test |-> mail[m].test,
                      tries |-> mail[m].tries, ok |-> mail[m].ok]
          BY <1>1, <2>1, DeliveryForms DEF TakeSlot
    <3>2. /\ mail'[m].pc = "sending" /\ mail'[m].test = mail[m].test
          /\ mail'[m].tries = mail[m].tries /\ mail'[m].ok = mail[m].ok
          BY <3>1
    <3> QED
        BY <1>2, <2>1, <3>2, MailAssumption DEF TakeSlot, CountedOne, TrueOne, Alive, Concluded
  <2>2. CASE Attempt(m) \/ OutOfTime(m)
    <3>1. PICK accepted \in BOOLEAN, r \in Delivery : Tried(m, accepted, r)
          BY <2>2, Attempted DEF RecordInv
    <3>2. /\ mail'[m].pc \in {"sending", "finish", "expired"} /\ mail'[m].test = mail[m].test
          /\ mail[m].tries < mail'[m].tries /\ (mail'[m].ok => accepted)
          /\ copies'[m] = copies[m] + (IF accepted THEN 1 ELSE 0)
          /\ mail'[m].pc = "sending" => mail'[m].tries < Attempts /\ ~mail'[m].test
          /\ mail'[m].pc # "sending" /\ ~mail'[m].ok =>
               mail'[m].tries = IF mail'[m].test THEN 1 ELSE Attempts
          BY <3>1 DEF Tried
    <3>3. /\ copies[m] <= mail[m].tries
          /\ row[m].status \notin {"sent", "failed"} /\ row'[m] = row[m]
          BY <1>2, <2>2 DEF Attempt, OutOfTime, CountedOne, Alive, Concluded
    <3>4. mail'[m].tries \in Nat
      <4>1. mail'[m].tries \in 0 .. Attempts
            BY <3>1, DeliveryForms DEF Tried
      <4> QED
          BY <4>1, MailAssumption
    <3>5. copies'[m] <= mail'[m].tries /\ (mail'[m].ok => copies'[m] >= 1)
          BY <1>1, <1>3, <3>2, <3>3, <3>4
    <3> QED
        BY <3>2, <3>3, <3>5 DEF CountedOne, TrueOne, Alive, Concluded
  <2>3. CASE CompleteDelivery(m)
    <3>1. Settled(m) /\ Concluded(m) /\ copies' = copies
          BY <2>3, Completed DEF CompleteDelivery
    <3>2. mail'[m].pc = "done" /\ mail'[m].test = mail[m].test
      <4>1. mail'[m] = Ended(mail[m])
            BY <3>1 DEF Settled
      <4>2. Ended(mail[m]).pc = "done" /\ Ended(mail[m]).test = mail[m].test
            BY <1>1, DeliveryForms
      <4> QED
          BY <4>1, <4>2
    <3>3. row[m].status \notin {"sent", "failed"}
          BY <1>2, <3>1 DEF CountedOne, Concluded
    <3>4. \/ row'[m] = row[m]
          \/ row'[m].status = Outcome(m) /\ row'[m].attempts = mail[m].tries
          BY <3>1 DEF Settled
    <3>5. copies[m] <= mail[m].tries /\ (mail[m].ok => copies[m] >= 1)
          BY <1>2, <3>1 DEF CountedOne, Alive, Concluded
    <3>6. ~mail[m].ok => mail[m].tries = IF mail[m].test THEN 1 ELSE Attempts
          BY <1>2, <3>1 DEF CountedOne, Concluded
    <3>7. Outcome(m) = IF mail[m].ok THEN "sent" ELSE "failed"
          BY DEF Outcome
    <3> QED
        BY <3>1, <3>2, <3>3, <3>4, <3>5, <3>6, <3>7 DEF CountedOne, TrueOne, Alive, Concluded
  <2> QED
      BY <2>1, <2>2, <2>3 DEF Deliver
<1>5. ASSUME NEW n \in Mails \ {m} PROVE CountedOne(n)' /\ TrueOne(n)'
  <2>1. mail'[n] = mail[n] /\ row'[n] = row[n] /\ copies'[n] = copies[n]
    <3>1. CASE TakeSlot(m)
          BY <1>1, <3>1 DEF TakeSlot
    <3>2. CASE Attempt(m) \/ OutOfTime(m)
      <4>1. PICK accepted \in BOOLEAN, r \in Delivery : Tried(m, accepted, r)
            BY <3>2, Attempted DEF RecordInv
      <4> QED
          BY <3>2, <4>1 DEF Tried, Attempt, OutOfTime
    <3>3. CASE CompleteDelivery(m)
      <4>1. Settled(m)
            BY <3>3, Completed
      <4> QED
          BY <3>3, <4>1 DEF Settled, CompleteDelivery
    <3> QED
        BY <3>1, <3>2, <3>3 DEF Deliver
  <2> QED
      BY <2>1, RecordInvOne, KeepsOne
<1>6. \A n \in Mails : CountedOne(n)' /\ TrueOne(n)'
      BY <1>4, <1>5
<1> QED
    BY <1>6 DEF RecordInv, TriesCounted, RecordsTrue, CountedOne, TrueOne

LEMMA OverRecords ==
  ASSUME Typed, RecordInv, Over PROVE RecordInv'
<1>1. ASSUME NEW m \in Mails PROVE CountedOne(m)' /\ TrueOne(m)'
  <2>1. CountedOne(m) /\ TrueOne(m) /\ mail[m] \in Delivery
        BY RecordInvOne DEF Typed, TypeOK
  <2>2. CASE Alive(m)
    <3>1. mail'[m].pc = "done" /\ mail'[m].test = mail[m].test
          BY <2>1, <2>2, DeliveryForms DEF Over
    <3>2. row[m].status \notin {"sent", "failed"} /\ row'[m] = row[m]
          BY <2>1, <2>2 DEF Over, CountedOne, Alive, Concluded
    <3> QED
        BY <3>1, <3>2 DEF CountedOne, TrueOne, Alive, Concluded
  <2>3. CASE ~Alive(m)
        BY <2>1, <2>3, KeepsOne DEF Over
  <2> QED
      BY <2>2, <2>3
<1> QED
    BY <1>1 DEF RecordInv, TriesCounted, RecordsTrue, CountedOne, TrueOne

LEMMA RecordSteps ==
  ASSUME Typed, RecordInv, Serve \/ Stop PROVE RecordInv'
<1>b. ASSUME UNCHANGED <<mail, row, copies>> PROVE RecordInv'
      BY <1>b DEF RecordInv, TriesCounted, RecordsTrue, Alive, Concluded
<1>1. ASSUME NEW c \in Callers, Begin(c) \/ End(c) \/ \E n \in 1 .. MaxMails : Notify(c, n)
      PROVE  RecordInv'
      BY <1>1, <1>b DEF Begin, End, Notify
<1>2. ASSUME NEW c \in Callers, NotifyOne(c) \/ SendNow(c) PROVE RecordInv'
  <2>1. \E test \in BOOLEAN : Handed(NoKey, test)
        BY <1>2, HandedOver DEF NotifyOne, SendNow
  <2> QED
      BY <2>1, HandOverRecords
<1>3. CASE StartScan \/ ExpiringAPIKeys \/ AbortScan \/ \E k \in Keys : SkipOwner(k)
      BY <1>3, <1>b DEF StartScan, ExpiringAPIKeys, AbortScan, SkipOwner
<1>4. ASSUME NEW k \in Keys, NotifyOwner(k) PROVE RecordInv'
      BY <1>4, HandedOver, HandOverRecords DEF NotifyOwner
<1>5. ASSUME NEW m \in Mails, Deliver(m) PROVE RecordInv'
      BY <1>5, DeliverRecords
<1>6. CASE StopSignal \/ Shutdown \/ CollectorDone \/ Wait \/ Boot
      BY <1>6, <1>b DEF StopSignal, Shutdown, CollectorDone, Wait, Boot
<1>7. CASE Exit \/ Kill
      BY <1>7, GoneOver, OverRecords DEF Exit, Kill
<1> QED
    BY <1>1, <1>2, <1>3, <1>4, <1>5, <1>6, <1>7 DEF Serve, Stop

(***************************************************************************)
(* The order of the waits: a process that ends in order leaves nothing in  *)
(* flight, and so no row that nobody is going to settle.                   *)
(***************************************************************************)
OwnedInv == Awaited /\ QueuedIsOwned

TestAwaited(m) == \E c \in Requests : caller[c].pc = "test" /\ caller[c].todo = m

(* Only somebody who is not idle hands a mail over. *)
LEMMA BusyHandOver ==
  ASSUME Awaited, ~rough, NEW c \in Callers, caller[c].pc # "idle"
  PROVE  phase # "closing" /\ phase # "mail" /\ (c \in Requests => phase # "collector")
BY DEF Awaited, Callers

LEMMA HandOverOwned ==
  ASSUME Typed, OwnedInv, NEW k, NEW test \in BOOLEAN, Handed(k, test),
         \A c \in Callers : caller'[c].pc # "idle" => caller[c].pc # "idle",
         \A c \in Requests : caller[c].pc = "test" => caller'[c] = caller[c],
         test => \E c \in Requests : caller'[c].pc = "test" /\ caller'[c].todo = issued + 1,
         rough \/ phase # "closing",
         phase \in {"mail", "closing"} => scan'.pc = "idle"
  PROVE  OwnedInv'
<1>0. PICK n \in Mails : n = issued + 1
      BY DEF Handed
<1>1. /\ mail'[n].pc \in {"sending", "waiting"} /\ mail'[n].test = test
      BY <1>0 DEF Handed
<1>2. \A m \in Mails \ {n} : mail'[m] = mail[m] /\ row'[m] = row[m]
      BY <1>0 DEF Handed
<1>3. UNCHANGED <<phase, rough, excused>>
      BY DEF Handed
<1>4. QueuedIsOwned'
      BY <1>1, <1>2, <1>3 DEF OwnedInv, QueuedIsOwned, Alive, Concluded
<1>5. \A m \in Mails : Alive(m)' /\ mail'[m].test => TestAwaited(m)'
  <2>1. ASSUME NEW m \in Mails \ {n}, Alive(m)', mail'[m].test PROVE TestAwaited(m)'
    <3>1. TestAwaited(m)
          BY <1>2, <2>1 DEF OwnedInv, Awaited, TestAwaited, Alive, Concluded
    <3> QED
        BY <3>1 DEF TestAwaited
  <2>2. mail'[n].test => TestAwaited(n)'
        BY <1>0, <1>1 DEF TestAwaited
  <2> QED
      BY <2>1, <2>2
<1>6. Awaited'
      BY <1>3, <1>5 DEF OwnedInv, Awaited, TestAwaited, Callers
<1> QED
    BY <1>4, <1>6 DEF OwnedInv

LEMMA CallerOwned ==
  ASSUME Typed, OwnedInv, NEW c \in Callers,
         Begin(c) \/ End(c) \/ (\E n \in 1 .. MaxMails : Notify(c, n))
  PROVE  OwnedInv'
<1>1. /\ UNCHANGED <<phase, scan, mail, row, rough, excused>>
      /\ caller[c].pc \in {"idle", "busy"}
      /\ caller[c].pc = "idle" => phase = "up"
      /\ \A d \in Callers \ {c} : caller'[d] = caller[d]
      BY DEF Begin, End, Notify, Typed, TypeOK
<1>2. QueuedIsOwned'
      BY <1>1 DEF OwnedInv, QueuedIsOwned, Alive, Concluded
<1>3. ASSUME NEW m \in Mails, Alive(m)', mail'[m].test PROVE TestAwaited(m)'
  <2>1. PICK d \in Requests : caller[d].pc = "test" /\ caller[d].todo = m
        BY <1>1, <1>3 DEF OwnedInv, Awaited, Alive, Concluded
  <2>2. caller'[d] = caller[d]
        BY <1>1, <2>1 DEF Callers
  <2> QED
      BY <2>1, <2>2 DEF TestAwaited
<1>4. ASSUME ~rough', phase' # "up", NEW d \in Callers, caller[d].pc = "idle" PROVE caller'[d].pc = "idle"
      BY <1>1, <1>4
<1>5. Inflight' = Inflight
      BY <1>1 DEF Inflight, Alive, Concluded
<1>6. Awaited'
      BY <1>1, <1>3, <1>4, <1>5 DEF OwnedInv, Awaited, TestAwaited, Callers
<1> QED
    BY <1>2, <1>6 DEF OwnedInv

LEMMA NotifyOneOwned ==
  ASSUME Typed, OwnedInv, NEW c \in Callers, NotifyOne(c) PROVE OwnedInv'
<1>1. Handed(NoKey, FALSE)
      BY HandedOver DEF NotifyOne
<1>2. caller[c].pc = "notify" /\ UNCHANGED scan
      BY DEF NotifyOne
<1>3. \A d \in Callers \ {c} : caller'[d] = caller[d]
      BY DEF NotifyOne, Typed, TypeOK
<1>4. rough \/ phase # "closing"
      BY <1>2, BusyHandOver DEF OwnedInv, Typed, TypeOK
<1>5. phase \in {"mail", "closing"} => scan'.pc = "idle"
      BY <1>2 DEF OwnedInv, Awaited
<1> QED
    BY <1>1, <1>2, <1>3, <1>4, <1>5, HandOverOwned DEF Callers

LEMMA SendNowOwned ==
  ASSUME Typed, OwnedInv, NEW c \in Callers, SendNow(c) PROVE OwnedInv'
<1>1. Handed(NoKey, TRUE)
      BY HandedOver DEF SendNow
<1>2. caller[c].pc = "busy" /\ c \in Requests /\ UNCHANGED scan
      BY DEF SendNow
<1>3. /\ \A d \in Callers \ {c} : caller'[d] = caller[d]
      /\ caller'[c].pc = "test" /\ caller'[c].todo = issued + 1
      BY DEF SendNow, Typed, TypeOK
<1>4. rough \/ phase # "closing"
      BY <1>2, BusyHandOver DEF OwnedInv, Typed, TypeOK
<1>5. phase \in {"mail", "closing"} => scan'.pc = "idle"
      BY <1>2 DEF OwnedInv, Awaited
<1> QED
    BY <1>1, <1>2, <1>3, <1>4, <1>5, HandOverOwned DEF Callers

LEMMA ScanOwned ==
  ASSUME Typed, OwnedInv,
         StartScan \/ ExpiringAPIKeys \/ AbortScan \/ (\E k \in Keys : SkipOwner(k))
  PROVE  OwnedInv'
<1>1. UNCHANGED <<phase, caller, mail, row, rough, excused>>
      BY DEF StartScan, ExpiringAPIKeys, AbortScan, SkipOwner
<1>2. phase = "up" \/ scan.pc # "idle"
      BY DEF StartScan, ExpiringAPIKeys, AbortScan, SkipOwner
<1>3. phase \notin {"mail", "closing"}
      BY <1>2 DEF OwnedInv, Awaited
<1>4. QueuedIsOwned' /\ Inflight' = Inflight
      BY <1>1 DEF OwnedInv, QueuedIsOwned, Alive, Concluded, Inflight
<1>5. Awaited'
      BY <1>1, <1>3, <1>4 DEF OwnedInv, Awaited, Alive, Concluded
<1> QED
    BY <1>4, <1>5 DEF OwnedInv

LEMMA NotifyOwnerOwned ==
  ASSUME Typed, OwnedInv, NEW k \in Keys, NotifyOwner(k) PROVE OwnedInv'
<1>1. Handed(k, FALSE)
      BY HandedOver DEF NotifyOwner
<1>2. phase = "up" /\ UNCHANGED caller
      BY DEF NotifyOwner
<1> QED
    BY <1>1, <1>2, HandOverOwned

LEMMA DeliverOwned ==
  ASSUME Typed, TriesCounted, OwnedInv, NEW m \in Mails, Deliver(m) PROVE OwnedInv'
<1>1. mail \in [Mails -> Delivery] /\ mail[m] \in Delivery
      BY DEF Typed, TypeOK
<1>2. CASE TakeSlot(m) \/ Attempt(m) \/ OutOfTime(m)
  <2>1. /\ UNCHANGED <<phase, caller, scan, row, rough, excused>>
        /\ Alive(m)
        BY <1>2 DEF TakeSlot, Attempt, OutOfTime, Alive, Concluded
  <2>2. /\ mail'[m].pc \in {"sending", "finish", "expired"} /\ mail'[m].test = mail[m].test
        /\ \A n \in Mails \ {m} : mail'[n] = mail[n]
    <3>1. CASE TakeSlot(m)
          BY <1>1, <3>1, DeliveryForms DEF TakeSlot
    <3>2. CASE Attempt(m) \/ OutOfTime(m)
      <4>1. PICK accepted \in BOOLEAN, r \in Delivery : Tried(m, accepted, r)
            BY <3>2, Attempted
      <4> QED
          BY <4>1 DEF Tried
    <3> QED
        BY <1>2, <3>1, <3>2
  <2>3. \A n \in Mails : Alive(n)' <=> Alive(n)
        BY <2>1, <2>2 DEF Alive, Concluded
  <2>4. \A n \in Mails : mail'[n].test = mail[n].test
        BY <2>2
  <2>5. Inflight' = Inflight
        BY <2>3, <2>4 DEF Inflight
  <2>6. QueuedIsOwned' /\ Awaited'
        BY <2>1, <2>3, <2>4, <2>5 DEF OwnedInv, QueuedIsOwned, Awaited
  <2> QED
      BY <2>6 DEF OwnedInv
<1>3. CASE CompleteDelivery(m)
  <2>1. Settled(m) /\ UNCHANGED <<phase, scan, rough>>
        BY <1>3, Completed DEF CompleteDelivery
  <2>2. mail'[m].pc = "done"
    <3>1. mail'[m] = Ended(mail[m])
          BY <2>1 DEF Settled
    <3>2. Ended(mail[m]).pc = "done"
          BY <1>1, DeliveryForms
    <3> QED
        BY <3>1, <3>2
  <2>3. \A n \in Mails : Alive(n)' => n # m /\ Alive(n) /\ mail'[n] = mail[n]
        BY <2>1, <2>2 DEF Settled, Alive, Concluded
  <2>4. QueuedIsOwned'
        BY <2>1 DEF Settled, OwnedInv, QueuedIsOwned, Alive, Concluded
  <2>5. Inflight' \subseteq Inflight
        BY <2>3 DEF Inflight
  <2>6. ASSUME NEW n \in Mails, Alive(n)', mail'[n].test PROVE TestAwaited(n)'
    <3>1. PICK c \in Requests : caller[c].pc = "test" /\ caller[c].todo = n
          BY <2>3, <2>6 DEF OwnedInv, Awaited
    <3>2. caller'[c] = caller[c]
          BY <2>1, <2>3, <2>6, <3>1 DEF Settled, Callers
    <3> QED
        BY <3>1, <3>2 DEF TestAwaited
  <2>7. \A c \in Callers : caller[c].pc = "idle" => caller'[c].pc = "idle"
        BY <2>1 DEF Settled
  <2>8. Awaited'
        BY <2>1, <2>5, <2>6, <2>7 DEF OwnedInv, Awaited, TestAwaited, Callers
  <2> QED
      BY <2>4, <2>8 DEF OwnedInv
<1> QED
    BY <1>2, <1>3 DEF Deliver

(* Each wait of main establishes what the next one relies on; the last one, *)
(* that a mail still in flight was given up on.                             *)
LEMMA StopOwned ==
  ASSUME Typed, OwnedInv, Stop PROVE OwnedInv'
<1>1. CASE StopSignal \/ Shutdown \/ CollectorDone \/ Wait \/ Boot
  <2>1. UNCHANGED <<caller, scan, mail, row, excused>>
        BY <1>1 DEF StopSignal, Shutdown, CollectorDone, Wait, Boot
  <2>2. QueuedIsOwned' /\ Inflight' = Inflight
        BY <2>1 DEF OwnedInv, QueuedIsOwned, Alive, Concluded, Inflight
  <2>3. \A m \in Mails : Alive(m)' /\ mail'[m].test =>
          \E c \in Requests : caller'[c].pc = "test" /\ caller'[c].todo = m
        BY <2>1 DEF OwnedInv, Awaited, Alive, Concluded
  <2>4. CASE StopSignal \/ Boot
        BY <2>1, <2>2, <2>3, <2>4 DEF StopSignal, Boot, Awaited, OwnedInv
  <2>5. CASE Shutdown
        BY <2>1, <2>2, <2>3, <2>5 DEF Shutdown, Awaited, OwnedInv
  <2>6. CASE CollectorDone
        BY <2>1, <2>2, <2>3, <2>6 DEF CollectorDone, Awaited, OwnedInv
  <2>7. CASE Wait
        BY <2>1, <2>2, <2>3, <2>7 DEF Wait, Awaited, OwnedInv
  <2> QED
      BY <1>1, <2>2, <2>4, <2>5, <2>6, <2>7 DEF OwnedInv
<1>2. CASE Exit \/ Kill
  <2>1. Over
        BY <1>2, GoneOver DEF Exit, Kill
  <2>2. \A m \in Mails : ~Alive(m)'
        BY <2>1 DEF Over, Alive, Concluded
  <2>3. ASSUME NEW m \in Mails, Alive(m) PROVE m \in excused'
    <3>1. CASE Kill
          BY <2>3, <3>1 DEF Kill
    <3>2. CASE Exit
      <4>1. CASE rough
            BY <2>3, <3>2, <4>1 DEF Exit
      <4>2. CASE ~rough
        <5>1. ~mail[m].test
              BY <2>3, <3>2, <4>2 DEF Exit, OwnedInv, Awaited
        <5>2. Inflight = {}
              BY <3>2, <4>2 DEF Exit, OwnedInv, Awaited
        <5> QED
            BY <2>3, <5>1, <5>2 DEF Inflight
      <4> QED
          BY <4>1, <4>2
    <3> QED
        BY <1>2, <3>1, <3>2
  <2>4. excused \subseteq excused'
        BY <1>2 DEF Exit, Kill
  <2>5. QueuedIsOwned'
        BY <2>1, <2>2, <2>3, <2>4 DEF Over, OwnedInv, QueuedIsOwned
  <2>6. Awaited'
        BY <2>1, <2>2 DEF Over, Awaited
  <2> QED
      BY <2>5, <2>6 DEF OwnedInv
<1> QED
    BY <1>1, <1>2 DEF Stop

-----------------------------------------------------------------------------
Inv == Typed /\ KeyInv /\ RecordInv /\ OwnedInv

LEMMA InitInv == Init => Inv
<1> SUFFICES ASSUME Init PROVE Inv
    OBVIOUS
<1>1. Typed
      BY InitTyped
<1>2. \A m \in Mails : mail[m] = NoMail /\ row[m] = NoRow
      BY DEF Init
<1>3. KeyInv
      BY <1>2, Forms DEF Init, KeyInv, KeysMarked, KeyMailedOnce
<1>4. RecordInv
      BY <1>2, Forms DEF RecordInv, TriesCounted, RecordsTrue, Alive, Concluded
<1>5. OwnedInv
      BY <1>2, Forms DEF Init, OwnedInv, Awaited, QueuedIsOwned, Alive, Concluded
<1> QED
    BY <1>1, <1>3, <1>4, <1>5 DEF Inv

LEMMA NextInv == Inv /\ [Next]_vars => Inv'
<1> SUFFICES ASSUME Inv, [Next]_vars PROVE Inv'
    OBVIOUS
<1>0. Typed /\ KeyInv /\ RecordInv /\ OwnedInv /\ TriesCounted
      BY DEF Inv, RecordInv
<1>1. CASE UNCHANGED vars
  <2>1. UNCHANGED <<phase, caller, scan, marked, mail, row, copies, issued, stops, rough, excused>>
        BY <1>1 DEF vars
  <2>2. Typed'
        BY <1>0, <2>1 DEF Typed, TypeOK, Unissued
  <2>3. KeyInv'
        BY <1>0, <2>1 DEF KeyInv, KeysMarked, KeyMailedOnce
  <2>4. RecordInv'
        BY <1>0, <2>1 DEF RecordInv, TriesCounted, RecordsTrue, Alive, Concluded
  <2>5. OwnedInv'
        BY <1>0, <2>1 DEF OwnedInv, Awaited, QueuedIsOwned, Alive, Concluded, Inflight
  <2> QED
      BY <2>2, <2>3, <2>4, <2>5 DEF Inv
<1>2. CASE Next
  <2>1. Serve \/ Stop
        BY <1>2 DEF Next
  <2>2. KeyInv' /\ RecordInv'
        BY <1>0, <2>1, KeySteps, RecordSteps
  <2>3. Typed'
    <3>1. CASE Serve
          BY <1>0, <3>1, CallersTyped, NotifyOneTyped, SendNowTyped, ScanTyped, NotifyOwnerTyped,
             DeliverTyped DEF Serve
    <3> QED
        BY <1>0, <2>1, <3>1, StopTyped
  <2>4. OwnedInv'
    <3>1. CASE Serve
          BY <1>0, <3>1, CallerOwned, NotifyOneOwned, SendNowOwned, ScanOwned, NotifyOwnerOwned,
             DeliverOwned DEF Serve
    <3> QED
        BY <1>0, <2>1, <3>1, StopOwned
  <2> QED
      BY <2>2, <2>3, <2>4 DEF Inv
<1> QED
    BY <1>1, <1>2

(* Callers, the scan, deliveries and rows are well formed in every           *)
(* reachable state, for any number of each; tries never exceed the limit.    *)
THEOREM TypeCorrect == Spec => []TypeOK
<1>1. Inv => TypeOK
      BY DEF Inv, Typed
<1> QED
    BY <1>1, InitInv, NextInv, PTL DEF Spec

(* What mail_deliveries says of a mail is true, whatever answers are lost    *)
(* and however often the process is killed.                                  *)
THEOREM RecordsStayTrue == Spec => []RecordsTrue
<1>1. Inv => RecordsTrue
      BY DEF Inv, RecordInv
<1> QED
    BY <1>1, InitInv, NextInv, PTL DEF Spec

(* The order of the waits in main leaves no queued row without somebody to   *)
(* settle it, unless a wait was given up, the process was killed or the      *)
(* write of the outcome failed.                                              *)
THEOREM QueuedStaysOwned == Spec => []QueuedIsOwned
<1>1. Inv => QueuedIsOwned
      BY DEF Inv, OwnedInv
<1> QED
    BY <1>1, InitInv, NextInv, PTL DEF Spec

(* No owner is told twice about one key, whatever scans, restarts and        *)
(* failures there are.                                                       *)
THEOREM OwnersToldOnce == Spec => []KeyMailedOnce
<1>1. Inv => KeyMailedOnce
      BY DEF Inv, KeyInv
<1> QED
    BY <1>1, InitInv, NextInv, PTL DEF Spec
=============================================================================
