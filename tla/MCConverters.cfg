SPECIFICATION Spec
CONSTANTS
  Machines <- MCMachines
  Fixture <- MCFixture
  Mails <- MCMails
  Chunk = 2
  Faults = {"call", "short", "prop", "addresses", "body", "list"}
INVARIANTS
  ConvertersTypeOK
  OnlyVerifiedEngine
  FirstThatConverts
  ImportIsWhole
CHECK_DEADLOCK FALSE
