------------------------------ MODULE DevBind -------------------------------
(***************************************************************************)
(* tools/dpdk-devbind.py as dpdk-setup.sh calls it, with -b, a driver and  *)
(* one device.  It works on the files under /sys/bus/pci, one system call  *)
(* after the other; each can fail, and the process can be interrupted      *)
(* between any two.  The kernel is one that has driver_override, as the    *)
(* README requires (4.14).                                                 *)
(***************************************************************************)
EXTENDS Naturals

CONSTANTS
  Devices,      \* PCI addresses
  Drivers,      \* kernel drivers
  DpdkDrivers,  \* the drivers in dpdk_drivers
  Vfio,         \* the one that needs an IOMMU, or leave to do without
  Hosts,        \* the machines considered: what is loaded, ...
  None          \* no driver; an absent Driver_str; an empty driver_override

ASSUME DevBindAssumption ==
  /\ Vfio \in DpdkDrivers /\ DpdkDrivers \subseteq Drivers
  /\ None \notin Drivers /\ "cleared" \notin Drivers \cup {None}

(* The drivers in dpdk_drivers know no device by its ID; an override gives *)
(* them theirs.                                                            *)
ASSUME HostsAssumption ==
  Hosts \subseteq [loaded : SUBSET Drivers, iommu : BOOLEAN, routes : SUBSET Devices,
                   matches : [Devices -> SUBSET (Drivers \ DpdkDrivers)]]

VARIABLES
  \* the kernel
  driver,       \* the driver a device is bound to
  override,     \* what its driver_override says
  loaded,       \* the modules that are loaded
  matches,      \* the drivers that know the device by its ID
  iommu,        \* there is an IOMMU, or vfio may do without
  routes,       \* the devices with a route
  \* the process
  ssh,          \* those of them when it read its table, "Ssh_if"
  dev,          \* bind_one's dev_id,
  drv,          \* its driver,
  Driver_str,   \* the entry of the table it keeps, "cleared" once it is "",
  saved,        \* and its saved_driver
  at,           \* the system call that comes next; "idle" without a process
  \* history
  failed,       \* devices for which a call went wrong that need not have,
  refused,      \* devices that were asked to take a driver they could not,
  wrong,        \* both, in this command,
  skipped,      \* devices that had a route, in this command
  undone        \* the process has begun to roll a device back

kernel  == <<driver, override>>
machine == <<loaded, matches, iommu, routes>>
blame   == <<failed, refused, wrong, skipped>>
table   == <<dev, ssh>>
process == <<table, drv, Driver_str, saved, at, blame, undone>>

\* The process ends, with or without having done what it was asked for.
End == at' = "idle" /\ UNCHANGED <<table, drv, Driver_str, saved, undone>>

Blame(fault, d) ==
  /\ failed'  = IF fault THEN failed \cup {d} ELSE failed
  /\ refused' = IF fault THEN refused ELSE refused \cup {d}
  /\ wrong'   = wrong \cup {d}
  /\ skipped' = skipped

Success == End /\ UNCHANGED blame

Failure == End /\ Blame(TRUE, dev)

Continue(label) == at' = label /\ UNCHANGED <<table, drv, saved, blame, undone>>

(* The table of the devices is read, the routes first; bind_all goes on    *)
(* with a driver that is loaded.                                           *)
Call(d, dr) ==
  /\ at = "idle"
  /\ dev' = d /\ ssh' = routes
  /\ drv' = dr /\ saved' = None /\ undone' = FALSE
  /\ Driver_str' = driver[d]
  /\ IF dr \in loaded THEN at' = "guard" /\ UNCHANGED blame
                      ELSE at' = "idle" /\ Blame(FALSE, d)
  /\ UNCHANGED <<kernel, machine>>

\* bind_one, its early returns, and the name of the driver to unbind from.
InUseUnchecked == FALSE                                            \* mutant

InUse == dev \in ssh

Guard ==
  /\ at = "guard"
  /\ CASE InUse -> End /\ skipped' = skipped \cup {dev} /\ UNCHANGED <<failed, refused, wrong>>
       [] ~ InUse /\ Driver_str = drv -> Success
       [] OTHER -> /\ Continue(IF Driver_str = None THEN "override" ELSE "unbind")
                   /\ UNCHANGED Driver_str
  /\ UNCHANGED <<kernel, machine>>

(* unbind_one.  The process exits when the file cannot be opened, and when *)
(* the write fails, which nobody catches.  With the driver string cleared  *)
(* there is no such file.  With its driver a device loses its interface,   *)
(* and that its routes.                                                    *)
UnbindOrGoOn ==                                                    \* mutant
  /\ at = "unbind" /\ Driver_str # "cleared"
  /\ driver' \in {driver, [driver EXCEPT ![dev] = None]}
  /\ saved' = Driver_str /\ Driver_str' = "cleared" /\ at' = "override"
  /\ UNCHANGED <<table, drv, blame, undone, override, machine>>

Unbind ==
  /\ at = "unbind"
  /\ \/ /\ Driver_str # "cleared"
        /\ driver' = [driver EXCEPT ![dev] = None]
        /\ saved' = Driver_str /\ Driver_str' = "cleared"
        /\ at' = "override"
        /\ routes' = routes \ {dev}
        /\ UNCHANGED <<table, drv, blame, undone, override>>
     \/ Driver_str # "cleared" /\ Failure /\ UNCHANGED <<kernel, routes>>
     \/ Driver_str = "cleared" /\ Success /\ UNCHANGED <<kernel, routes>>
  /\ UNCHANGED <<loaded, matches, iommu>>

(* The override is written for a DPDK driver only; where that fails, the   *)
(* function returns.                                                       *)
AnyOverridden == TRUE                                              \* mutant

Overridden == drv \in DpdkDrivers

KernelDriverEnds == IF Overridden THEN Continue("open") ELSE Success  \* mutant

OverrideEnds == Continue("open")

Override ==
  /\ at = "override"
  /\ \/ /\ override' = IF Overridden THEN [override EXCEPT ![dev] = drv] ELSE override
        /\ OverrideEnds
     \/ Overridden /\ Failure /\ UNCHANGED override
  /\ UNCHANGED <<driver, Driver_str, machine>>

(* The driver that was unbound is restored: bind_one calls itself, with    *)
(* the same entry of the table.                                            *)
TryAgain(fault) == Continue("open") /\ UNCHANGED Driver_str        \* mutant

Rollback(fault) ==
  /\ Blame(fault, dev)
  /\ UNCHANGED <<table, Driver_str>>
  /\ IF saved = None THEN at' = "idle" /\ UNCHANGED <<drv, saved, undone>>
     ELSE at' = "guard" /\ drv' = saved /\ saved' = None /\ undone' = TRUE

OpenBind ==
  /\ at = "open"
  /\ \/ Continue("write") /\ UNCHANGED Driver_str
     \/ Rollback(TRUE)
  /\ UNCHANGED <<kernel, machine>>

(* The kernel binds a device to the driver its override names, and without *)
(* an override to one that knows it.  The driver may still refuse it, and  *)
(* the write may fail although the device was bound.                       *)
Accepts ==
  /\ IF override[dev] = None THEN drv \in matches[dev] ELSE override[dev] = drv
  /\ drv = Vfio => iommu

WriteBind ==
  /\ at = "write"
  /\ \/ /\ Accepts
        /\ driver' = [driver EXCEPT ![dev] = drv]
        /\ \/ Continue("clear") /\ UNCHANGED Driver_str
           \/ Failure
     \/ Rollback(Accepts) /\ UNCHANGED driver
  /\ UNCHANGED <<override, machine>>

NotCleared == override                                             \* mutant

Cleared == [override EXCEPT ![dev] = None]

ClearOverride ==
  /\ at = "clear"
  /\ \/ override' = Cleared /\ Success
     \/ override' = override /\ Failure
  /\ UNCHANGED <<driver, machine>>

Interrupt ==
  /\ at # "idle"
  /\ at' = "idle" /\ Blame(TRUE, dev) /\ undone' = FALSE
  /\ UNCHANGED <<table, drv, Driver_str, saved, kernel, machine>>

(* The interface of a device with a driver of the kernel is given an       *)
(* address and a route, or loses them, at any time.                        *)
Reroute(d) ==
  /\ driver[d] \in Drivers \ DpdkDrivers
  /\ routes' = IF d \in routes THEN routes \ {d} ELSE routes \cup {d}
  /\ UNCHANGED <<kernel, process, loaded, matches, iommu>>

BindStep ==
  Guard \/ Unbind \/ Override \/ OpenBind \/ WriteBind \/ ClearOverride

BindInit ==
  /\ \E h \in Hosts :
       loaded = h.loaded /\ matches = h.matches /\ iommu = h.iommu /\ routes = h.routes
  /\ driver \in [Devices -> loaded \cup {None}]
  /\ \A d \in Devices : driver[d] \in matches[d] \cup DpdkDrivers \cup {None}
  /\ \A d \in routes : driver[d] \in Drivers \ DpdkDrivers
  /\ override = [d \in Devices |-> None]
  /\ at = "idle" /\ ssh = {} /\ skipped = {} /\ failed = {} /\ refused = {} /\ wrong = {} /\ undone = FALSE
  /\ dev = None /\ drv = None /\ Driver_str = None /\ saved = None

-----------------------------------------------------------------------------

(* What bind_one says of saved_driver (line 381): that it is "used to      *)
(* rollback any unbind in case of failure".  A process that has rolled a   *)
(* device back, and was not interrupted, leaves it with its old driver.    *)
RolledBack == undone /\ at = "idle" => driver[dev] = drv

=============================================================================
