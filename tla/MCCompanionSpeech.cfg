SPECIFICATION Spec
CONSTANTS
  Roles = {control, audio, info}
  Info = info
  MaxFaults = 2
  MaxRequest = 4
  MaxTasks = 3
  MaxBridges = 1
  Objects = {s1, s2}
INVARIANTS TypeOK TalkRecordsAgree RequestsAreNew
PROPERTIES FreshLink ImplementsCompanionTalk EndIsOver LinkComesUp
CHECK_DEADLOCK FALSE
