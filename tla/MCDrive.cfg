CONSTANTS
  Proc = {p, q}
  hda = hda
  hdb = hdb
  hdc = hdc
  Disk = {hda, hdb, hdc}
  primary = primary
  secondary = secondary
  Channel = {primary, secondary}
  ChannelOf <- Wiring
  Base = 2
  SectorSize = 2
  Requests <- Mixed
  Junk = Junk
  MaxCalls = 2
  MaxErrors = 1
  MaxSwitches = 2
SPECIFICATION FairSpec
INVARIANTS KeepsTheRest DoneAsAsked
PROPERTIES EveryRequestEnds
CHECK_DEADLOCK FALSE
