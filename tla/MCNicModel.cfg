SPECIFICATION FairSpec
CONSTANTS
  Capacity = 2
  MaxFrames = 3
  MaxInject = 1
  MaxResets = 1
INVARIANTS NoRace NoLostInterrupt
PROPERTIES OwnershipCycle ImplementsLink TxComesBack
