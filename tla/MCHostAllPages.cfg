\* Two nodes the script finds and one, with two digits, it does not.
CONSTANTS
  Devices <- MCDevices
  Drivers <- MCDrivers
  DpdkDrivers <- MCDpdk
  Vfio = "vfio-pci"
  Hosts <- PlainHost
  None = "none"
  PCI_PATHS <- NoPath
  DRV = "igb"
  Nodes = {"node0", "node1", "node10"}
  Globbed = {"node0", "node1"}
  PAGES = 1
  MaxCommands = 1
SPECIFICATION Spec
INVARIANTS AllPagesRemoved
CHECK_DEADLOCK FALSE
