\* What a rollback leaves.
CONSTANTS
  Devices <- MCDevices
  Drivers <- MCDrivers
  DpdkDrivers <- MCDpdk
  Vfio = "vfio-pci"
  Hosts <- MCHosts
  None = "none"
  PCI_PATHS <- OnePath
  DRV = "igb"
  Nodes = {}
  Globbed = {}
  PAGES = 1
  MaxCommands = 1
SPECIFICATION Spec
INVARIANTS RolledBack
CHECK_DEADLOCK FALSE
