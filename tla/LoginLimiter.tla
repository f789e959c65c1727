---------------------------- MODULE LoginLimiter ----------------------------
(***************************************************************************)
(* The windows in which failed logins are counted (api/login_limiter.go):  *)
(* one for the pair of an address and an account, one for the address and  *)
(* one for the account.  The handler asks before it checks a password and  *)
(* counts afterwards, so several logins can be under way on one permit.    *)
(***************************************************************************)
EXTENDS Integers, FiniteSets

CONSTANTS
  Addresses, Accounts, Nobody,
  loginAttemptLimit, loginIPLimit, loginAccountLimit,
  loginAttemptWindow,
  loginLimiterMax,
  MaxClock            \* bound on the clock

ASSUME LimiterAssumption ==
  /\ Nobody \notin Addresses \cup Accounts
  /\ loginAttemptLimit \in Nat \ {0}
  /\ loginIPLimit \in Nat \ {0}
  /\ loginAccountLimit \in Nat \ {0}
  /\ loginAttemptWindow \in Nat \ {0}
  /\ loginLimiterMax \in Nat \ {0}
  /\ MaxClock \in Nat

VARIABLES
  attempts,   \* the window of each key; NoWindow for a key not in the map
  clock

limiterVars == <<attempts, clock>>

Keys == ({"pair"} \X Addresses \X Accounts) \cup ({"ip"} \X Addresses \X {Nobody})
          \cup ({"account"} \X {Nobody} \X Accounts)

loginAttemptKeys(ip, user) == <<<<"pair", ip, user>>, <<"ip", ip, Nobody>>, <<"account", Nobody, user>>>>
KeysOf(ip, user) == {<<"pair", ip, user>>, <<"ip", ip, Nobody>>, <<"account", Nobody, user>>}

loginLimit(key) == CASE key[1] = "ip" -> loginIPLimit
                     [] key[1] = "account" -> loginAccountLimit
                     [] OTHER -> loginAttemptLimit

NoWindow == [windowStarted |-> 0, failures |-> 0]
Tracked == {key \in Keys : attempts[key].failures > 0}
Expired(key) == clock - attempts[key].windowStarted >= loginAttemptWindow
Live == {key \in Tracked : ~Expired(key)}

(* Mutant: one failure too many. *)
BlockedAbove(key) == key \in Live /\ attempts[key].failures > loginLimit(key)

Blocked(key) == key \in Live /\ attempts[key].failures >= loginLimit(key)

(* allow looks at the three windows in turn, drops those that have expired  *)
(* and stops at the first that is used up.                                  *)
allow(ip, user) == \A key \in KeysOf(ip, user) : ~Blocked(key)

AfterAllow(ip, user) ==
  LET keys == loginAttemptKeys(ip, user)
      dropped == {keys[i] : i \in {j \in 1..3 : /\ keys[j] \in Tracked \ Live
                                                /\ \A e \in 1..(j - 1) : ~Blocked(keys[e])}}
  IN [key \in Keys |-> IF key \in dropped THEN NoWindow ELSE attempts[key]]

(* The keys that pruning may leave: at the limit the expired windows go,    *)
(* and then the oldest ones until there is room again.                      *)
prune ==
  IF Cardinality(Tracked) < loginLimiterMax THEN {Tracked}
  ELSE {kept \in SUBSET Live :
          /\ Cardinality(kept) < loginLimiterMax
          /\ kept = Live \/ Cardinality(kept) = loginLimiterMax - 1
          /\ \A k \in kept, d \in Live \ kept :
               attempts[d].windowStarted <= attempts[k].windowStarted}

(* failed counts in each of the three windows, begun anew where need be. *)
failed(ip, user) ==
  \E kept \in prune :
    attempts' = [key \in Keys |->
      CASE key \in KeysOf(ip, user) ->
             IF key \in kept \cap Live
             THEN [attempts[key] EXCEPT !.failures = @ + 1]
             ELSE [windowStarted |-> clock, failures |-> 1]
        [] key \in kept \ KeysOf(ip, user) -> attempts[key]
        [] OTHER -> NoWindow]

(* A login that worked clears what is held against the account and against  *)
(* the pair, never what is held against the address.                        *)
succeeded(ip, user) ==
  attempts' = [key \in Keys |-> IF key \in {<<"pair", ip, user>>, <<"account", Nobody, user>>}
                                THEN NoWindow ELSE attempts[key]]

LimiterInit ==
  /\ attempts = [key \in Keys |-> NoWindow]
  /\ clock = 0

Tick ==
  /\ clock < MaxClock
  /\ clock' = clock + 1
  /\ UNCHANGED attempts
=============================================================================
