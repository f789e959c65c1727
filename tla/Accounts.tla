------------------------------ MODULE Accounts ------------------------------
(***************************************************************************)
(* Local accounts: login, logout, the change of a password, and the        *)
(* sessions in the database that make a signed token valid (auth/auth.go,  *)
(* api/auth_handlers.go, store/users.go).                                  *)
(*                                                                         *)
(* A password is named by the number of the change that set it.  Every     *)
(* statement of a handler is a transaction of its own, so handlers         *)
(* interleave between them.                                                *)
(***************************************************************************)
EXTENDS LoginLimiter

CONSTANTS
  Handlers,       \* requests being handled
  MaxSessions,    \* bound: sessions ever opened
  MaxPasswords    \* bound: passwords an account ever has

ASSUME AccountsAssumption ==
  /\ IsFiniteSet(Handlers) /\ Nobody \notin Handlers
  /\ MaxSessions \in Nat /\ MaxPasswords \in Nat

VARIABLES
  password,   \* the password of each account
  session,    \* sessions by the order in which they were opened
  sign,       \* each handler's login or change of password
  settled     \* history: the last password whose change was answered

accountVars == <<password, session, sign, settled>>

Jtis == 1 .. MaxSessions

(* "opened" is the password a session was opened with, "held" the account's *)
(* password at that moment; "vouched" the newest one its holder has set.    *)
NoSession == [user |-> Nobody, status |-> "none", opened |-> 0, held |-> 0, vouched |-> 0]
Idle == [step |-> "idle", user |-> Nobody, ip |-> Nobody, typed |-> 0, hash |-> 0, jti |-> 0]

SessionActive(j) == session[j].status = "open"

-----------------------------------------------------------------------------
(* Login                                                                    *)

(* The limiter is asked, then the stored hash is read. *)
login(h, ip, user, typed) ==
  /\ sign[h].step = "idle"
  /\ allow(ip, user)
  /\ attempts' = AfterAllow(ip, user)
  /\ sign' = [sign EXCEPT ![h] = [step |-> "login", user |-> user, ip |-> ip, typed |-> typed,
                                  hash |-> password[user], jti |-> 0]]
  /\ UNCHANGED <<password, session, settled, clock>>

(* 429 *)
RefuseLogin(h, ip, user) ==
  /\ sign[h].step = "idle"
  /\ ~allow(ip, user)
  /\ attempts' = AfterAllow(ip, user)
  /\ UNCHANGED <<accountVars, clock>>

CreateSession(h, j) ==
  /\ sign[h].step = "login"
  /\ sign[h].typed = sign[h].hash
  /\ session[j].status = "none"
  /\ \A i \in 1..(j - 1) : session[i].status # "none"
  /\ session' = [session EXCEPT ![j] =
       [user |-> sign[h].user, status |-> "open", opened |-> sign[h].hash,
        held |-> password[sign[h].user], vouched |-> sign[h].hash]]
  /\ succeeded(sign[h].ip, sign[h].user)
  /\ sign' = [sign EXCEPT ![h] = Idle]
  /\ UNCHANGED <<password, settled, clock>>

(* A wrong password, and any other error, counts as a failure. *)
LoginFails(h) ==
  /\ sign[h].step = "login"
  /\ failed(sign[h].ip, sign[h].user)
  /\ sign' = [sign EXCEPT ![h] = Idle]
  /\ UNCHANGED <<password, session, settled, clock>>

-----------------------------------------------------------------------------
(* Sessions end by logout or by time; tokens outlive neither. *)
logout(j) ==
  /\ SessionActive(j)
  /\ session' = [session EXCEPT ![j].status = "revoked"]
  /\ UNCHANGED <<password, sign, settled, limiterVars>>

ExpireSession(j) ==
  /\ SessionActive(j)
  /\ session' = [session EXCEPT ![j].status = "expired"]
  /\ UNCHANGED <<password, sign, settled, limiterVars>>

-----------------------------------------------------------------------------
(* changePassword: authenticated by a session, it reads the hash, writes    *)
(* the new one and then revokes the account's other sessions.               *)
changePassword(h, j, typed) ==
  /\ sign[h].step = "idle"
  /\ SessionActive(j)
  /\ typed = password[session[j].user]
  /\ sign' = [sign EXCEPT ![h] = [step |-> "write", user |-> session[j].user, ip |-> Nobody,
                                  typed |-> 0, hash |-> 0, jti |-> j]]
  /\ UNCHANGED <<password, session, settled, limiterVars>>

(* The new password is any but the one that was read. *)
ChangeLocalPassword(h) ==
  LET j == sign[h].jti
      new == password[sign[h].user] + 1
  IN
  /\ sign[h].step = "write"
  /\ new <= MaxPasswords
  /\ password' = [password EXCEPT ![sign[h].user] = new]
  /\ session' = [session EXCEPT ![j].vouched = new]
  /\ sign' = [sign EXCEPT ![h] = [step |-> "revoke", user |-> @.user, ip |-> Nobody,
                                  typed |-> 0, hash |-> new, jti |-> j]]
  /\ UNCHANGED <<settled, limiterVars>>

(* Mutant: the sessions opened before this one. *)
EarlierSessions(user, keep) == {j \in Jtis : session[j].user = user /\ SessionActive(j) /\ j < keep}

OtherSessions(user, keep) == {j \in Jtis : session[j].user = user /\ SessionActive(j) /\ j # keep}

RevokeOtherSessions(h) ==
  LET user == sign[h].user
      others == OtherSessions(user, sign[h].jti)
  IN
  /\ sign[h].step = "revoke"
  /\ session' = [j \in Jtis |-> IF j \in others THEN [session[j] EXCEPT !.status = "revoked"]
                                ELSE session[j]]
  /\ settled' = [settled EXCEPT ![user] = IF sign[h].hash > @ THEN sign[h].hash ELSE @]
  /\ sign' = [sign EXCEPT ![h] = Idle]
  /\ UNCHANGED <<password, limiterVars>>

(* A database error, a request that is given up, or the end of the process: *)
(* what was written stays written.                                          *)
ChangeFails(h) ==
  /\ sign[h].step \in {"write", "revoke"}
  /\ sign' = [sign EXCEPT ![h] = Idle]
  /\ UNCHANGED <<password, session, settled, limiterVars>>

-----------------------------------------------------------------------------
AccountsInit ==
  /\ LimiterInit
  /\ password = [u \in Accounts |-> 1]
  /\ session = [j \in Jtis |-> NoSession]
  /\ sign = [h \in Handlers |-> Idle]
  /\ settled = [u \in Accounts |-> 1]

LoginNext(h, ips) ==
  \/ \E ip \in ips, user \in Accounts : \E typed \in 0..password[user] : login(h, ip, user, typed)
  \/ \E ip \in ips, user \in Accounts : RefuseLogin(h, ip, user)
  \/ \E j \in Jtis : CreateSession(h, j)
  \/ LoginFails(h)

PasswordNext(h) ==
  \/ \E j \in Jtis, typed \in 1..MaxPasswords : changePassword(h, j, typed)
  \/ ChangeLocalPassword(h)
  \/ RevokeOtherSessions(h)
  \/ ChangeFails(h)

AccountsNext ==
  \/ \E h \in Handlers : LoginNext(h, Addresses) \/ PasswordNext(h)
  \/ \E j \in Jtis : logout(j) \/ ExpireSession(j)
  \/ Tick /\ UNCHANGED accountVars
=============================================================================
