------------------------------ MODULE MCSignIn ------------------------------
(***************************************************************************)
(* SignIn for TLC.  A behaviour is about one of five things: logins and    *)
(* their limiter, anonymous requests and theirs, passwords and sessions,   *)
(* managing keys, or using a key while it is managed and its owner's roles *)
(* change; it starts with the sessions it needs.                           *)
(***************************************************************************)
EXTENDS SignIn, TLC

CONSTANT Home   \* the address the logins of the second kind come from

VARIABLE about

MCvars == <<vars, about>>

Opened(u) == [user |-> u, status |-> "open", opened |-> 1, held |-> 1, vouched |-> 1]

MCInit ==
  /\ Init
  /\ about \in {"limiter", "starts", "passwords"}

\* Keys are managed from sessions that are open already.
MCKeysInit ==
  /\ about \in {"keys", "uses"}
  /\ LimiterInit
  /\ KeysInit /\ RequestsInit
  /\ password = [u \in Accounts |-> 1]
  /\ settled = [u \in Accounts |-> 1]
  /\ sign = [h \in Handlers |-> Idle]
  /\ session \in {[j \in Jtis |-> IF j = 1 THEN Opened(u) ELSE NoSession] : u \in Accounts}

MCStart == MCInit \/ MCKeysInit

LoginsOnly ==
  \/ \E h \in Handlers : LoginNext(h, Addresses)
  \/ Tick /\ UNCHANGED accountVars

PasswordsOnly ==
  \/ \E h \in Handlers : LoginNext(h, {Home}) \/ PasswordNext(h)
  \/ \E j \in Jtis : logout(j) \/ ExpireSession(j)

StartsOnly ==
  \/ \E a \in Addresses : allowRequest(a)
  \/ Tick /\ UNCHANGED requestVars

KeysOnly ==
  \/ \E h \in Handlers :
       \/ \E j \in Jtis : AuthenticateRequest(h, j)
       \/ GetUser(h) \/ ManageNext(h) \/ EndRequest(h)
  \/ \E u \in Accounts, granted \in SUBSET Permissions : ChangeRoles(u, granted)
  \/ \E allowed \in SUBSET Permissions : ChangePolicy(allowed)

\* One request at a time is made with a key, and one manages keys; the last
\* id is left unused.
WithKey(h) == op[h].step \in {"touch", "use"} \/ Reading(h)

UsesOnly ==
  \/ \E h \in Handlers :
       \/ \E k \in KeyIds : AuthenticateAPIKey(h, k) /\ \A g \in Handlers : ~WithKey(g)
       \/ \E j \in Jtis : AuthenticateRequest(h, j) /\ \A g \in Handlers : op[g] = Quiet \/ WithKey(g)
       \/ TouchKey(h) \/ GetUser(h) \/ ManageNext(h) \/ EndRequest(h)
  \/ \E u \in Accounts, granted \in SUBSET Permissions : ChangeRoles(u, granted)

MCNext ==
  /\ UNCHANGED about
  /\ \/ about = "limiter" /\ LoginsOnly /\ UNCHANGED <<requestVars, keyVars>>
     \/ about = "starts" /\ StartsOnly /\ UNCHANGED <<accountVars, keyVars>>
     \/ about = "passwords" /\ PasswordsOnly /\ UNCHANGED <<requestVars, keyVars>>
     \/ about = "keys" /\ KeysOnly /\ UNCHANGED <<limiterVars, requestVars, accountVars>>
     \/ about = "uses" /\ UsesOnly /\ ~Exists(MaxKeys)' /\ UNCHANGED <<limiterVars, requestVars, accountVars>>

MCSpec == MCStart /\ [][MCNext]_MCvars

Symmetry == Permutations(Handlers) \cup Permutations(Permissions) \cup Permutations(Addresses \ {Home})
=============================================================================
