\* One device of the script and one beside it; a node the script finds, with a page that
\* is free, in a file or held.
CONSTANTS
  Devices <- MCDevices
  Drivers <- MCDrivers
  DpdkDrivers <- MCDpdk
  Vfio = "vfio-pci"
  Hosts <- MCHosts
  None = "none"
  PCI_PATHS <- OnePath
  DRV = "igb"
  Nodes = {"node0"}
  Globbed = {"node0"}
  PAGES = 1
  MaxCommands = 2
SPECIFICATION FairSpec
INVARIANTS TypeOK CleanAtRest OverrideExcludes BoundAsAsked HugepagesDone
PROPERTIES OthersUntouched Terminates
CHECK_DEADLOCK FALSE
