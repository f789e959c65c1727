----------------------------- MODULE OidcLogin -----------------------------
(***************************************************************************)
(* Signing in with OIDC (auth/oidc.go, api/auth_handlers.go): a login that *)
(* is started in a browser, the callback it returns with, and the account  *)
(* that UpsertOIDCUser (store/users.go) finds or creates for it.           *)
(*                                                                         *)
(* A login stands for its state, nonce and verifier; the state cookie of a *)
(* browser holds the login it started last.  The identity provider is      *)
(* external: it lets somebody sign in to a login it was asked for and      *)
(* exchanges the code of that login once.  The configuration is read again *)
(* for the callback and may have changed since the start.                  *)
(***************************************************************************)
EXTENDS OidcProviders

CONSTANTS
  Browsers, NoBrowser,
  Subjects, NoSubject,  \* subjects; every issuer may use the same ones
  Names,        \* usernames in the tokens; the local account has one of them
  LocalName,
  MaxLogins,    \* bound: logins ever started
  MaxAccounts   \* bound: accounts

ASSUME LoginAssumption ==
  /\ NoBrowser \notin Browsers /\ NoSubject \notin Subjects
  /\ LocalName \in Names
  /\ MaxLogins \in Nat /\ MaxAccounts \in Nat \ {0}

VARIABLES
  issuer,    \* the issuer that is configured
  cookie,    \* the login in each browser's state cookie, 0 if none
  login,     \* logins started
  call,      \* each caller's request
  account    \* rows of users; the first one is the local account

loginVars == <<issuer, cookie, login, call, account>>

Logins == 1 .. MaxLogins
AccountIds == 1 .. MaxAccounts

NoLogin == [state |-> "none", browser |-> NoBrowser, issuer |-> "none", subject |-> NoSubject, name |-> "none"]
NoCall == [step |-> "idle", browser |-> NoBrowser, login |-> 0, issuer |-> "none", account |-> 0]

(* "identity" is external_subject; "born" the issuer and the subject of the *)
(* token that the account was created for.                                  *)
NoAccount == [identity |-> <<>>, name |-> "none", role |-> FALSE, born |-> <<>>]
Local == [identity |-> <<>>, name |-> LocalName, role |-> TRUE, born |-> <<>>]

(* Mutant: the subject alone. *)
SubjectIdentity(iss, subject) == <<"oidc", subject>>
oidcExternalIdentity(iss, subject) == <<iss, subject>>

Exists(a) == account[a] # NoAccount
FreeAccount(a) == ~Exists(a) /\ \A i \in 1..(a - 1) : Exists(i)
WithIdentity(identity) == {a \in AccountIds : Exists(a) /\ identity # <<>> /\ account[a].identity = identity}
WithName(name) == {a \in AccountIds : Exists(a) /\ account[a].name = name}

Finish(c) == call' = [call EXCEPT ![c] = NoCall]

-----------------------------------------------------------------------------
(* The configured issuer is changed; the secret is entered with it. *)
SaveIssuer(i) ==
  /\ issuer' = i
  /\ UNCHANGED <<cookie, login, call, account, providerVars>>

(* Logins that may still be started. *)
Room == Cardinality({l \in Logins : login[l] = NoLogin}) > Cardinality({c \in Callers : call[c].step = "start"})

(* oidcLogin: the configuration is read and the provider asked for. *)
OIDCLogin(c, b) ==
  /\ call[c] = NoCall
  /\ Room
  /\ get(c, issuer)
  /\ call' = [call EXCEPT ![c] = [NoCall EXCEPT !.step = "start", !.browser = b, !.issuer = issuer]]
  /\ UNCHANGED <<issuer, cookie, login, account>>

(* The browser is redirected with a fresh state, which replaces the one it  *)
(* has.                                                                     *)
Redirect(c, l) ==
  /\ call[c].step = "start" /\ Served(c)
  /\ login[l] = NoLogin /\ \A i \in 1..(l - 1) : login[i] # NoLogin
  /\ login' = [login EXCEPT ![l] = [NoLogin EXCEPT !.state = "asked", !.issuer = call[c].issuer,
                                                    !.browser = call[c].browser]]
  /\ cookie' = [cookie EXCEPT ![call[c].browser] = l]
  /\ Leave(c)
  /\ Finish(c)
  /\ UNCHANGED <<issuer, account>>

(* External: somebody signs in at the provider; it names them as it does    *)
(* at the time.                                                             *)
Authorize(l, subject, name) ==
  /\ login[l].state = "asked"
  /\ login' = [login EXCEPT ![l].state = "code", ![l].subject = subject, ![l].name = name]
  /\ UNCHANGED <<issuer, cookie, call, account, providerVars>>

(* The browser returns with a code, perhaps for a second time; its cookie   *)
(* has to be that of this login and not of a later one.                     *)
OIDCCallback(c, l) ==
  LET b == login[l].browser
  IN
  /\ call[c] = NoCall
  /\ login[l].state \in {"code", "spent"}
  /\ cookie[b] = l
  /\ get(c, issuer)
  /\ call' = [call EXCEPT ![c] = [NoCall EXCEPT !.step = "exchange", !.browser = b,
                                                !.login = l, !.issuer = issuer]]
  /\ UNCHANGED <<issuer, cookie, login, account>>

(* The provider refuses to sign the visitor in: the cookie goes, be it of   *)
(* this login or of a later one, and the browser lands on the login page.   *)
oidcRefused(l) ==
  /\ login[l].state = "asked"
  /\ login' = [login EXCEPT ![l].state = "spent"]
  /\ cookie' = [cookie EXCEPT ![login[l].browser] = 0]
  /\ UNCHANGED <<issuer, call, account, providerVars>>

(* The code is exchanged where the configuration says now; only the issuer  *)
(* that gave it knows it, and only once.  The ID token is verified against  *)
(* the provider and the nonce of the login.                                 *)
Exchange(c) ==
  LET l == call[c].login
  IN
  /\ call[c].step = "exchange" /\ Served(c)
  /\ login[l].state = "code" /\ login[l].issuer = call[c].issuer
  /\ login' = [login EXCEPT ![l].state = "spent"]
  /\ call' = [call EXCEPT ![c].step = "select"]
  /\ Leave(c)
  /\ UNCHANGED <<issuer, cookie, account>>

(* A failed exchange drops the cached provider. *)
ExchangeFails(c) ==
  /\ call[c].step = "exchange" /\ Served(c)
  /\ forget(call[c].issuer)
  /\ waiting' = [waiting EXCEPT ![c] = 0]
  /\ Finish(c)
  /\ UNCHANGED <<issuer, cookie, login, account>>

(* Discovery failed, or the request is given up while it waits. *)
ProviderFails(c) ==
  /\ Refused(c)
  /\ Leave(c)
  /\ Finish(c)
  /\ UNCHANGED <<issuer, cookie, login, account>>

Cancel(c) ==
  /\ waiting[c] # 0
  /\ Leave(c)
  /\ Finish(c)
  /\ UNCHANGED <<issuer, cookie, login, account>>

-----------------------------------------------------------------------------
(* UpsertOIDCUser, a statement at a time.                                   *)
IdentityOf(c) == oidcExternalIdentity(call[c].issuer, login[call[c].login].subject)

SelectSubject(c) ==
  /\ call[c].step = "select"
  /\ call' = [call EXCEPT ![c] =
       IF WithIdentity(IdentityOf(c)) = {} THEN [@ EXCEPT !.step = "owner"]
       ELSE [@ EXCEPT !.step = "update", !.account = CHOOSE a \in WithIdentity(IdentityOf(c)) : TRUE]]
  /\ UNCHANGED <<issuer, cookie, login, account, providerVars>>

(* Mutant: an account of that name is taken over. *)
oidcLinkByName(c) ==
  LET owners == WithName(login[call[c].login].name)
  IN IF owners = {} THEN [call[c] EXCEPT !.step = "insert"]
     ELSE [call[c] EXCEPT !.step = "session", !.account = CHOOSE a \in owners : TRUE]

(* A name that is taken, by whatever account, is a conflict. *)
oidcLinkDecision(c) ==
  IF WithName(login[call[c].login].name) = {} THEN [call[c] EXCEPT !.step = "insert"] ELSE NoCall

SelectUsername(c) ==
  /\ call[c].step = "owner"
  /\ call' = [call EXCEPT ![c] = oidcLinkDecision(c)]
  /\ UNCHANGED <<issuer, cookie, login, account, providerVars>>

(* The unique indexes on the identity and on the name decide between        *)
(* concurrent inserts.                                                      *)
InsertAccount(c, a) ==
  LET l == login[call[c].login]
  IN
  /\ call[c].step = "insert"
  /\ FreeAccount(a)
  /\ WithIdentity(IdentityOf(c)) = {} /\ WithName(l.name) = {}
  /\ account' = [account EXCEPT ![a] =
       [identity |-> IdentityOf(c), name |-> l.name, role |-> FALSE, born |-> <<l.issuer, l.subject>>]]
  /\ call' = [call EXCEPT ![c].step = "role", ![c].account = a]
  /\ UNCHANGED <<issuer, cookie, login, providerVars>>

(* The default role is a statement of its own, whose error is ignored. *)
GrantRole(c, done) ==
  /\ call[c].step = "role"
  /\ account' = [account EXCEPT ![call[c].account].role = @ \/ done]
  /\ call' = [call EXCEPT ![c].step = "session"]
  /\ UNCHANGED <<issuer, cookie, login, providerVars>>

UpdateAccount(c) ==
  LET name == login[call[c].login].name
  IN
  /\ call[c].step = "update"
  /\ WithName(name) \subseteq {call[c].account}
  /\ account' = [account EXCEPT ![call[c].account].name = name]
  /\ call' = [call EXCEPT ![c].step = "session"]
  /\ UNCHANGED <<issuer, cookie, login, providerVars>>

(* The session is made, and the state cookie cleared. *)
CreateSession(c) ==
  /\ call[c].step = "session"
  /\ cookie' = [cookie EXCEPT ![call[c].browser] = 0]
  /\ Finish(c)
  /\ UNCHANGED <<issuer, login, account, providerVars>>

(* A unique index, a database error, a request given up, the process ends:  *)
(* what is written stays.                                                   *)
Fail(c) ==
  /\ call[c].step \in {"select", "owner", "insert", "role", "update", "session"}
  /\ Finish(c)
  /\ UNCHANGED <<issuer, cookie, login, account, providerVars>>

-----------------------------------------------------------------------------
vars == <<providerVars, loginVars>>

Init ==
  /\ ProvidersInit
  /\ issuer \in Issuers
  /\ cookie = [b \in Browsers |-> 0]
  /\ login = [l \in Logins |-> NoLogin]
  /\ call = [c \in Callers |-> NoCall]
  /\ account = [a \in AccountIds |-> IF a = 1 THEN Local ELSE NoAccount]

(* What a caller that has its answer does next. *)
Proceed(c) ==
  \/ \E l \in Logins : Redirect(c, l)
  \/ Exchange(c)
  \/ ExchangeFails(c)
  \/ ProviderFails(c)

Upsert(c) ==
  \/ SelectSubject(c)
  \/ SelectUsername(c)
  \/ \E a \in AccountIds : InsertAccount(c, a)
  \/ \E done \in BOOLEAN : GrantRole(c, done)
  \/ UpdateAccount(c)
  \/ CreateSession(c)
  \/ Fail(c)

CallerNext(c) ==
  \/ \E b \in Browsers : OIDCLogin(c, b)
  \/ \E l \in Logins : OIDCCallback(c, l)
  \/ Proceed(c)
  \/ Cancel(c)
  \/ Upsert(c)

Next ==
  \/ \E c \in Callers : CallerNext(c)
  \/ \E e \in EntryIds : (Discovery(e) \/ Expire(e)) /\ UNCHANGED loginVars
  \/ \E i \in Issuers : SaveIssuer(i)
  \/ \E l \in Logins, s \in Subjects, n \in Names : Authorize(l, s, n)
  \/ \E l \in Logins : oidcRefused(l)

(* A discovery ends, if only by its deadline, and is announced by the       *)
(* goroutine that ran it; a caller that can go on does.                     *)
Fairness ==
  /\ \A e \in EntryIds : WF_vars(Discovery(e) /\ UNCHANGED loginVars)
  /\ \A c \in Callers : WF_vars(Proceed(c))

Spec == Init /\ [][Next]_vars
FairSpec == Spec /\ Fairness

-----------------------------------------------------------------------------
(* Properties                                                               *)

EntryRow == [key : Issuers \cup {"none"}, ok : BOOLEAN, expired : BOOLEAN,
             state : {"none", "discovering", "resolved", "ready"}]

Identities == {<<>>} \cup ((Issuers \cup {"none"}) \X (Subjects \cup {NoSubject}))
LoginRow == [state : {"none", "asked", "code", "spent"}, browser : Browsers \cup {NoBrowser},
             issuer : Issuers \cup {"none"}, subject : Subjects \cup {NoSubject}, name : Names \cup {"none"}]
Upserting == {"select", "owner", "insert", "role", "update", "session"}
CallRow == [step : {"idle", "start", "exchange"} \cup Upserting, browser : Browsers \cup {NoBrowser},
            login : 0..MaxLogins, issuer : Issuers \cup {"none"}, account : 0..MaxAccounts]
AccountRow == [identity : Identities, name : Names \cup {"none"}, role : BOOLEAN, born : Identities]

(* Every variable keeps its type, a cached provider is the one of its       *)
(* issuer, and a caller waits for the issuer that it read.                  *)
TypeOK ==
  /\ cached \in [Issuers -> 0..MaxEntries] /\ entry \in [EntryIds -> EntryRow]
  /\ waiting \in [Callers -> 0..MaxEntries]
  /\ floor \in [Issuers -> 0..MaxEntries] /\ since \in [Callers -> 0..MaxEntries]
  /\ issuer \in Issuers /\ cookie \in [Browsers -> 0..MaxLogins]
  /\ login \in [Logins -> LoginRow]
  /\ call \in [Callers -> CallRow]
  /\ account \in [AccountIds -> AccountRow]
  /\ \A k \in Issuers : cached[k] # 0 => entry[cached[k]].key = k
  /\ \A c \in Callers : waiting[c] # 0 => entry[waiting[c]].key = call[c].issuer

(* Callers of one issuer join one discovery: of those in flight at most one *)
(* was not forgotten, and new callers find it, however an older one ends    *)
(* (resolve, forget).                                                       *)
SingleDiscovery ==
  \A e \in InFlight : e > floor[entry[e].key] /\ entry[e].state = "discovering" =>
    cached[entry[e].key] = e

(* After a failed exchange nobody who asks later is given a provider that   *)
(* was discovered before it, not even one whose discovery was still in      *)
(* flight (forget: the next caller discovers it again).                     *)
ForgottenNotServed ==
  \A c \in Callers : Served(c) => waiting[c] > since[c]

(* A visitor only ever becomes the account that was created for the issuer  *)
(* and the subject of their token: never a local one, never one of the same *)
(* name or the same subject at another issuer, whatever logins and changes  *)
(* of the configuration interleave (oidcExternalIdentity, oidcLinkDecision).*)
SignsInAsItself ==
  \A c \in Callers : call[c].step = "session" =>
    account[call[c].account].born = <<login[call[c].login].issuer, login[call[c].login].subject>>

(* Whoever waits for a provider is answered, even if the discovery fails or *)
(* is forgotten, and though the caller that began it may be gone            *)
(* (resolve: detached, with a deadline).                                    *)
WaitersAnswered == \A c \in Callers : waiting[c] # 0 ~> waiting[c] = 0
=============================================================================
