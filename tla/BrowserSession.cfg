SPECIFICATION FairSpec
CONSTANTS
  Owners = {anna, ben}
  Stored = {anna}
  Requests = {save, studio}
  Replayable = {save}
  Changes = 1
  Troubles = 2
  Null = Null
  anna = anna
  ben = ben
  save = save
  studio = studio
CHECK_DEADLOCK FALSE
INVARIANTS CredentialsInForce StatusHonest AtMostOnce
PROPERTIES RenewedOnceForCause AccountsApart RequestsEnd
