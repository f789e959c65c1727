SPECIFICATION Spec
CONSTANTS
  Urls = {urlA, urlB}
  NoUrl = NoUrl
  TlsModes = {TRUE, FALSE}
  Names = {alice}
  Requests = {r1}
  Operations = {o1}
  MaxHubs = 1
  MaxSecrets = 3
SYMMETRY Symmetry
INVARIANTS
  TypeOK
  MaterialisedFromCurrentAuthority
  HealthFromCurrentAuthority
  TokenBinding
  OperationReachesItsAuthority
PROPERTY WritesAreCurrent
