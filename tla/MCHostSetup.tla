---------------------------- MODULE MCHostSetup -----------------------------
(***************************************************************************)
(* Two devices of which the script names one, or both; a driver of the     *)
(* kernel that is DRV, another that is not, and vfio-pci.                  *)
(***************************************************************************)
EXTENDS HostSetup

MCDevices == {"d1", "d2"}
OnePath   == <<"d1">>
NoPath    == <<>>
MCDrivers == {"igb", "ixgbe", "vfio-pci"}
MCDpdk    == {"vfio-pci"}

(* d1 is a device of igb or of ixgbe, d2 one of igb.                       *)
MCHosts ==
  [loaded  : {MCDrivers, {"igb", "ixgbe"}, {"igb", "vfio-pci"}},
   iommu   : {FALSE},
   routes  : {{}, {"d1"}},
   matches : {[d \in MCDevices |-> IF d = "d1" THEN {k} ELSE {"igb"}] : k \in {"igb", "ixgbe"}}]
    \cup
  [loaded : {{"ixgbe", "vfio-pci"}}, iommu : {TRUE}, routes : {{}, {"d2"}},
   matches : {[d \in MCDevices |-> {"ixgbe"}]}]

PlainHost ==
  [loaded : {MCDrivers}, iommu : {TRUE}, routes : {{}},
   matches : {[d \in MCDevices |-> {"igb"}]}]

=============================================================================
