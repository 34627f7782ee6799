\* What destroy binds, and what the interface had before.
CONSTANTS
  Devices <- MCDevices
  Drivers <- MCDrivers
  DpdkDrivers <- MCDpdk
  Vfio = "vfio-pci"
  Hosts <- MCHosts
  None = "none"
  PCI_PATHS <- OnePath
  DRV = "igb"
  Nodes = {}
  Globbed = {}
  PAGES = 1
  MaxCommands = 2
SPECIFICATION Spec
INVARIANTS OriginalDriverRestored
CHECK_DEADLOCK FALSE
