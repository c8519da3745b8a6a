SPECIFICATION IoFairSpec
CONSTANTS
  NRelays = 2
  SeqMod = 1
  Contention = TRUE
INVARIANTS
  IoTypeOK
  ShownWhenArmed
  ShownWhenNeverArmed
PROPERTIES
  DisarmIsFinal
  ArmedOncePublished
  CommandShown
  DefaultShown
