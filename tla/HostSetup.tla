----------------------------- MODULE HostSetup ------------------------------
(***************************************************************************)
(* tools/dpdk-setup.sh: "setup" reserves hugepages, mounts hugetlbfs and   *)
(* gives the devices of PCI_PATHS to vfio-pci; "destroy" gives them to     *)
(* DRV and clears the memory.  A shell script without "set -e": whatever a *)
(* command returns, the next one runs.  Commands come in any order, from   *)
(* any state of the host, and can be interrupted everywhere; meanwhile     *)
(* programs use the pages, and leave them in files when they end.          *)
(***************************************************************************)
EXTENDS DevBind, Sequences, SequencesExt

CONSTANTS
  PCI_PATHS,    \* the sequence of devices the script is about
  DRV,          \* the driver "destroy" binds
  Nodes,        \* NUMA nodes,
  Globbed,      \* those that "node?" finds
  PAGES,        \* 2 MB pages asked of a node
  MaxCommands   \* bound on the commands given

ASSUME HostAssumption ==
  /\ PCI_PATHS \in Seq(Devices) /\ DRV \in Drivers
  /\ Globbed \subseteq Nodes /\ PAGES \in Nat \ {0} /\ MaxCommands \in Nat

VARIABLES
  pages,        \* hugepages of a node: in use, or free,
  filed,        \* those of them in files of /mnt/huge that no program has open,
  held,         \* those in use otherwise: by programs, or in files elsewhere
  zeroed,       \* nodes that were told to have 0: a page in use goes when it is freed
  dir,          \* there is a directory /mnt/huge,
  mounted,      \* with hugetlbfs on it
  similar,      \* /proc/mounts has another line that contains "/mnt/huge"
  cmd,          \* the command, "none" before the first
  pc,           \* the line of the script, "idle" without one
  todo,         \* the devices the loop has not reached
  commands,     \* how many commands were given
  \* history
  home,         \* the drivers before the first command
  hitch         \* something else of this command failed

pool   == <<pages, filed, held, zeroed>>
memory == <<pool, dir, mounted>>
script == <<cmd, pc, todo, commands, home>>
vars   == <<kernel, machine, process, memory, similar, script, hitch>>

Paths == ToSet(PCI_PATHS)

Goto(label) ==
  /\ pc' = label
  /\ todo' = IF label = "bind" THEN PCI_PATHS ELSE <<>>
  /\ UNCHANGED <<cmd, commands, home>>

-----------------------------------------------------------------------------

Command(c) ==
  /\ pc = "idle" /\ commands < MaxCommands
  /\ commands' = commands + 1
  /\ cmd' = c
  /\ pc' = IF c = "setup" THEN "zero" ELSE "bind"
  /\ todo' = IF c = "setup" THEN <<>> ELSE PCI_PATHS
  /\ hitch' = FALSE
  /\ wrong' = {} /\ skipped' = {}
  /\ UNCHANGED <<table, drv, Driver_str, saved, at, failed, refused, undone, kernel,
                 machine, memory, similar, home>>

(* The kernel, when the files or the programs that use pages are others:   *)
(* what is freed stays in the pool, but on a node that was told to have 0. *)
Use(f, h) ==
  /\ filed' = f /\ held' = h
  /\ pages' = [n \in Nodes |-> IF n \in zeroed THEN f[n] + h[n] ELSE pages[n]]
  /\ UNCHANGED zeroed

NoFiles == [n \in Nodes |-> 0]

(* clear_huge_pages: the nodes that are found are told to have no pages.   *)
(* The kernel takes back those that are free and says nothing of those in  *)
(* use.  A write may fail, and the next one is tried.                      *)
ZeroPages ==
  /\ pc = "zero" /\ Goto("umount")
  /\ \E told \in SUBSET Globbed :
       /\ pages' = [n \in Nodes |-> IF n \in told THEN filed[n] + held[n] ELSE pages[n]]
       /\ zeroed' = zeroed \cup told
       /\ hitch' = (hitch \/ told # Globbed)
  /\ UNCHANGED <<kernel, machine, process, filed, held, dir, mounted, similar>>

\* grep '/mnt/huge' /proc/mounts
LooksMounted == mounted \/ similar

(* remove_mnt_huge, its umount, with which the files go; it fails when a   *)
(* program has one open                                                    *)
Unmounts == LooksMounted

UnmountHuge ==
  /\ pc = "umount" /\ Goto("rm")
  /\ \/ Unmounts /\ mounted /\ mounted' = FALSE /\ Use(NoFiles, held) /\ UNCHANGED hitch
     \/ Unmounts /\ hitch' = TRUE /\ UNCHANGED <<pool, mounted>>
     \/ ~ Unmounts /\ UNCHANGED <<pool, mounted, hitch>>
  /\ UNCHANGED <<kernel, machine, process, dir, similar>>

(* and its rm -R, which cannot remove a mount point, but what is in it.    *)
AfterClear == IF cmd = "setup" THEN "reserve" ELSE "idle"

RemoveDir ==
  /\ pc = "rm" /\ Goto(AfterClear)
  /\ \/ ~ mounted /\ dir' = FALSE /\ UNCHANGED <<pool, hitch>>
     \/ dir /\ hitch' = TRUE /\ UNCHANGED dir /\ \E f \in {filed, NoFiles} : Use(f, held)
  /\ UNCHANGED <<kernel, machine, process, mounted, similar>>

(* set_numa_pages: the kernel reserves what it can, and does not say that  *)
(* it is less; the pages in use count.  A write may fail here too.         *)
ReservePages ==
  /\ pc = "reserve" /\ Goto("mkdir")
  /\ \E told \in SUBSET Globbed :
       /\ pages' \in [Nodes -> 0 .. PAGES]
       /\ \A n \in Nodes : IF n \in told THEN pages'[n] >= filed[n] + held[n]
                                           ELSE pages'[n] = pages[n]
       /\ zeroed' = zeroed \ told
       /\ hitch' = (hitch \/ told # Globbed)
  /\ UNCHANGED <<kernel, machine, process, filed, held, dir, mounted, similar>>

\* create_mnt_huge
MakeDir ==
  /\ pc = "mkdir" /\ Goto("mount")
  /\ \/ dir' = TRUE /\ UNCHANGED hitch
     \/ ~ dir /\ hitch' = TRUE /\ UNCHANGED dir
  /\ UNCHANGED <<kernel, machine, process, pool, mounted, similar>>

MountsAgain == LooksMounted                                        \* mutant

Mounts == ~ LooksMounted

MountHuge ==
  /\ pc = "mount" /\ Goto("noiommu")
  /\ \/ ~ Mounts /\ UNCHANGED <<mounted, hitch>>
     \/ Mounts /\ dir /\ mounted' = TRUE /\ UNCHANGED hitch
     \/ Mounts /\ hitch' = TRUE /\ UNCHANGED mounted
  /\ UNCHANGED <<kernel, machine, process, pool, dir, similar>>

(* bind_devices_to_vfio_pci: the parameter of vfio is written without      *)
(* sudo, and only if the module is loaded there is one.                    *)
SetNoiommu ==
  /\ pc = "noiommu" /\ Goto("bind")
  /\ \/ Vfio \in loaded /\ iommu' = TRUE /\ UNCHANGED hitch
     \/ hitch' = TRUE /\ UNCHANGED iommu
  /\ UNCHANGED <<kernel, loaded, matches, routes, process, memory, similar>>

\* The loop over PCI_PATHS, there and in unbind_devices.
Wanted == IF cmd = "setup" THEN Vfio ELSE DRV

BindNext ==
  /\ pc = "bind" /\ todo # <<>>
  /\ Call(Head(todo), Wanted)
  /\ todo' = Tail(todo)
  /\ UNCHANGED <<cmd, pc, commands, home, memory, similar, hitch>>

BindDone ==
  /\ pc = "bind" /\ todo = <<>> /\ at = "idle"
  /\ Goto(IF cmd = "setup" THEN "idle" ELSE "zero")
  /\ UNCHANGED <<kernel, machine, process, memory, similar, hitch>>

Script ==
  \/ ZeroPages \/ UnmountHuge \/ RemoveDir \/ ReservePages \/ MakeDir \/ MountHuge
  \/ SetNoiommu \/ BindNext \/ BindDone
  \/ BindStep /\ UNCHANGED <<memory, similar, script, hitch>>

\* Only the child dies, or the script with it.
InterruptBind ==
  /\ Interrupt
  /\ \/ UNCHANGED <<script, hitch>>
     \/ Goto("idle") /\ hitch' = TRUE
  /\ UNCHANGED <<memory, similar>>

InterruptScript ==
  /\ pc # "idle" /\ at = "idle"
  /\ Goto("idle") /\ hitch' = TRUE
  /\ UNCHANGED <<kernel, machine, process, memory, similar>>

(* The generator, or another program.  rte_eal_init removes the files that *)
(* earlier ones left, if it is the same directory; main never calls        *)
(* rte_eal_cleanup, so its own stay, as those of a program that is killed. *)
TakePage(n) ==
  /\ n \notin zeroed
  /\ \E f \in {filed, NoFiles} :
       f[n] + held[n] < pages[n] /\ Use(f, [held EXCEPT ![n] = @ + 1])

DropPage(n) ==
  /\ held[n] > 0
  /\ \E f \in {filed} \cup IF mounted THEN {[filed EXCEPT ![n] = @ + 1]} ELSE {} :
       Use(f, [held EXCEPT ![n] = @ - 1])

Programs ==
  /\ \E n \in Nodes : TakePage(n) \/ DropPage(n)
  /\ UNCHANGED <<kernel, machine, process, dir, mounted, similar, script, hitch>>

Init ==
  /\ BindInit
  /\ filed \in [Nodes -> 0 .. PAGES] /\ held \in [Nodes -> 0 .. PAGES]
  /\ pages \in [Nodes -> 0 .. PAGES]
  /\ \A n \in Nodes : filed[n] + held[n] <= pages[n]
  /\ zeroed = {}
  /\ dir \in BOOLEAN /\ mounted \in BOOLEAN /\ (mounted => dir)
  /\ mounted \/ filed = NoFiles
  /\ similar \in BOOLEAN
  /\ cmd = "none" /\ pc = "idle" /\ todo = <<>> /\ commands = 0
  /\ home = driver /\ hitch = FALSE

Next ==
  \/ \E c \in {"setup", "destroy"} : Command(c)
  \/ Script
  \/ InterruptBind
  \/ InterruptScript
  \/ Programs
  \/ \E d \in Paths : Reroute(d) /\ UNCHANGED <<memory, similar, script, hitch>>

Spec == Init /\ [][Next]_vars

\* Every command of the script, and every system call, comes back.
FairSpec == Spec /\ WF_vars(Script)

-----------------------------------------------------------------------------

AtRest == pc = "idle"

TypeOK ==
  /\ driver \in [Devices -> Drivers \cup {None}]
  /\ override \in [Devices -> DpdkDrivers \cup {None}]
  /\ wrong \subseteq failed \cup refused /\ saved \in Drivers \cup {None}
  /\ routes \subseteq {d \in Devices : driver[d] \in Drivers \ DpdkDrivers}
  /\ at \in {"idle", "guard", "unbind", "override", "open", "write", "clear"}
  /\ pc = "idle" => at = "idle"
  /\ pages \in [Nodes -> 0 .. PAGES] /\ (mounted => dir)
  /\ \A n \in Nodes : filed[n] + held[n] <= pages[n]

(* Whatever fails, a device is not touched that is not one of PCI_PATHS,   *)
(* nor one that had a route when the process read the routing table:       *)
(* neither its driver nor its override.                                    *)
OthersUntouched ==
  [][\A d \in Devices :
       d \notin Paths \/ d \in ssh
         => driver'[d] = driver[d] /\ override'[d] = override[d]]_vars

(* A device that is left without the driver it once had, or with a         *)
(* driver_override, is one for which a system call has failed, or was      *)
(* interrupted, or which was asked to take a driver that it cannot have.   *)
CleanAtRest ==
  AtRest => \A d \in Devices \ (failed \cup refused) :
              /\ override[d] = None
              /\ driver[d] = None => home[d] = None

(* Whatever failed, and however often: a driver_override that is left      *)
(* behind never stays on a device that has another driver than the one it  *)
(* names.  The device has this one, or none, and will take no other until  *)
(* a process that binds this one has cleared the override.                 *)
OverrideExcludes ==
  \A d \in Devices : override[d] # None => driver[d] \in {None, override[d]}

(* A command that ran to its end binds each of PCI_PATHS for which no call *)
(* failed to the driver asked for: whatever earlier commands, which may    *)
(* have failed anywhere, left behind.                                      *)
BoundAsAsked ==
  AtRest /\ ~ hitch /\ cmd # "none" =>
    \A d \in Paths \ (wrong \cup skipped) : driver[d] = Wanted

(* After a "setup" without a hitch hugetlbfs is mounted, or something that *)
(* looks like it to grep; after such a "destroy" the mount and the         *)
(* directory are gone, and of the pages of the nodes the script finds      *)
(* every one that no program, and no file of another mount, still holds:   *)
(* those in files of /mnt/huge too, although they are freed after the 0    *)
(* was written.                                                            *)
HugepagesDone ==
  /\ AtRest /\ ~ hitch /\ cmd = "setup" => mounted \/ similar
  /\ AtRest /\ ~ hitch /\ cmd = "destroy" =>
       ~ mounted /\ ~ dir /\ \A n \in Globbed : pages[n] = held[n]

(* A command comes to an end, bind_one's recursion included.               *)
Terminates == (pc # "idle") ~> AtRest

-----------------------------------------------------------------------------

(* The README on "destroy" (line 183): it "gives the original driver back  *)
(* to the interface".  Here for a device that had a driver of the kernel,  *)
(* and for which no system call has failed.                                *)
OriginalDriverRestored ==
  AtRest /\ ~ hitch /\ cmd = "destroy" =>
    \A d \in Paths \ (failed \cup skipped) :
      home[d] \in Drivers \ DpdkDrivers => driver[d] = home[d]

(* The comment on clear_huge_pages (line 85): it "removes all reserved     *)
(* hugepages".  Here those that nothing uses.                              *)
AllPagesRemoved ==
  AtRest /\ ~ hitch /\ cmd = "destroy" => \A n \in Nodes : pages[n] = held[n]

=============================================================================
