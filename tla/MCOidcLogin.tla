---------------------------- MODULE MCOidcLogin ----------------------------
(***************************************************************************)
(* OidcLogin for TLC.  A behaviour is about the cache, with one issuer and *)
(* visitors who get no further than their token, or about accounts, with   *)
(* the providers of both issuers discovered at the start.                  *)
(***************************************************************************)
EXTENDS OidcLogin

VARIABLE about

MCvars == <<vars, about>>

\* Nothing tells the issuers apart but their order.
First == CHOOSE k \in Issuers : TRUE
Number == CHOOSE f \in [Issuers -> 1..Cardinality(Issuers)] : \A k, l \in Issuers : f[k] = f[l] => k = l

MCCacheInit == Init /\ issuer = First /\ about = "cache"

MCAccountsInit ==
  /\ about = "accounts"
  /\ cached = Number
  /\ entry = [e \in EntryIds |->
       IF e > Cardinality(Issuers) THEN NoEntry
       ELSE [key |-> CHOOSE k \in Issuers : Number[k] = e, state |-> "ready", ok |-> TRUE, expired |-> FALSE]]
  /\ waiting = [c \in Callers |-> 0]
  /\ floor = [k \in Issuers |-> 0]
  /\ since = [c \in Callers |-> 0]
  /\ issuer = First
  /\ cookie = [b \in Browsers |-> 0]
  /\ login = [l \in Logins |-> NoLogin]
  /\ call = [c \in Callers |-> NoCall]
  /\ account = [a \in AccountIds |-> IF a = 1 THEN Local ELSE NoAccount]

MCInit == MCCacheInit \/ MCAccountsInit

CacheNext ==
  \/ \E c \in Callers :
       \/ \E b \in Browsers : OIDCLogin(c, b)
       \/ \E l \in Logins : OIDCCallback(c, l)
       \/ Proceed(c)
       \/ Cancel(c)
       \/ Fail(c)
  \/ \E e \in EntryIds : (Discovery(e) \/ Expire(e)) /\ UNCHANGED loginVars
  \/ \E l \in Logins, s \in Subjects : Authorize(l, s, LocalName)
  \/ SaveIssuer(issuer)

AccountsNext ==
  \/ \E c \in Callers :
       \/ \E b \in Browsers : OIDCLogin(c, b)
       \/ \E l \in Logins : OIDCCallback(c, l)
       \/ Proceed(c)
       \/ Upsert(c)
  \/ \E e \in EntryIds : Discovery(e) /\ UNCHANGED loginVars
  \/ \E i \in Issuers : SaveIssuer(i)
  \/ \E l \in Logins, s \in Subjects, n \in Names : Authorize(l, s, n)
  \/ \E l \in Logins : oidcRefused(l)

MCNext ==
  /\ UNCHANGED about
  /\ \/ about = "cache" /\ CacheNext
     \/ about = "accounts" /\ AccountsNext

MCSpec == MCInit /\ [][MCNext]_MCvars /\ Fairness
=============================================================================
