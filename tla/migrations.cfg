SPECIFICATION FairSpec
CONSTANTS
  Processes = {serve, cli, sync}
  Service = {serve}
  Last = 2
  Repeatable = {1}
INVARIANTS TypeOK AppliedInOrder AppliedOnce DoneIsMigrated
PROPERTIES ServiceComesUp KeepsUpgrade
