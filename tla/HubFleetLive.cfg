SPECIFICATION LiveSpec
CONSTANTS
  Urls = {urlA}
  NoUrl = NoUrl
  TlsModes = {TRUE}
  Names = {alice}
  Requests = {r1, r2}
  Operations = {}
  MaxHubs = 1
  MaxSecrets = 1
PROPERTY BrokenHubReported
