SPECIFICATION MCSpec
CONSTANTS
  Issuers = {"a", "b"}
  Callers = {c1, c2}
  MaxEntries = 3
  Browsers = {b1}
  NoBrowser = NoBrowser
  Subjects = {s1}
  NoSubject = NoSubject
  Names = {"admin", "alice"}
  LocalName = "admin"
  MaxLogins = 2
  MaxAccounts = 3
INVARIANTS
  SingleDiscovery
  ForgottenNotServed
  SignsInAsItself
PROPERTY
  WaitersAnswered
