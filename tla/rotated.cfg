\* One deletion, one expired access token.
CONSTANTS
  None = None
  Worker = Worker
  Deleters = {d1}
  MaxToken = 6
  MaxPassword = 2
  MaxCode = 1
  MaxEvent = 1
  MaxDelete = 1

SPECIFICATION Spec

PROPERTIES
  NoTokenReuse
