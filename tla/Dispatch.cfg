CONSTANTS
  Events = {e1, e2}
  Cycles = {c1, c2}
  Targets = {t1}
  MaxFaults = 1
SPECIFICATION FairSpec
INVARIANTS
  TypeOK
  ToldOnce
  LostOnlyByFault
PROPERTY EventIsAlerted
