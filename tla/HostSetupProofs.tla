--------------------------- MODULE HostSetupProofs ---------------------------
(***************************************************************************)
(* Proofs about the host's setup, for every set of devices and drivers,    *)
(* every PCI_PATHS, every machine and any number of commands, failures and *)
(* interruptions.                                                          *)
(***************************************************************************)
EXTENDS HostSetup, SequenceTheorems, TLAPS

Steps == {"guard", "unbind", "override", "open", "write", "clear"}

Lines == {"idle", "zero", "umount", "rm", "reserve", "mkdir", "mount", "noiommu", "bind"}

TypeInv ==
  /\ driver \in [Devices -> Drivers \cup {None}]
  /\ override \in [Devices -> DpdkDrivers \cup {None}]
  /\ home \in [Devices -> Drivers \cup {None}]
  /\ dev \in Devices \cup {None} /\ drv \in Drivers \cup {None}
  /\ saved \in Drivers \cup {None} /\ Driver_str \in Drivers \cup {None, "cleared"}
  /\ at \in Steps \cup {"idle"} /\ undone \in BOOLEAN
  /\ wrong \subseteq failed \cup refused
  /\ dir \in BOOLEAN /\ mounted \in BOOLEAN /\ similar \in BOOLEAN /\ (mounted => dir)
  /\ cmd \in {"none", "setup", "destroy"} /\ pc \in Lines /\ hitch \in BOOLEAN
  /\ todo \in Seq(Paths)
  /\ pc # "bind" => at = "idle" /\ todo = <<>>
  /\ cmd = "none" => pc = "idle"

(* Of the pages of a node that was told to have none, none is free.        *)
PoolInv ==
  /\ pages \in [Nodes -> 0 .. PAGES]
  /\ filed \in [Nodes -> 0 .. PAGES] /\ held \in [Nodes -> 0 .. PAGES]
  /\ zeroed \subseteq Nodes
  /\ \A n \in Nodes : filed[n] + held[n] <= pages[n]
  /\ \A n \in zeroed : filed[n] + held[n] = pages[n]
  /\ mounted \/ filed = NoFiles

(* Only a driver of the kernel gives a device an interface.                *)
RoutesInv == \A d \in routes : d \in Devices /\ driver[d] \in Drivers \ DpdkDrivers

(* What a process that binds has established, at each of its calls.        *)
ProcessInv ==
  /\ at # "idle" => dev \in Paths /\ drv \in Drivers
  /\ at \in Steps \ {"guard"} => dev \notin ssh
  /\ at \in {"override", "open", "write"} => driver[dev] = None
  /\ at = "unbind" => Driver_str # None
  /\ at \in {"guard", "unbind"} =>
       /\ saved = None
       /\ IF Driver_str = "cleared" THEN undone ELSE Driver_str = driver[dev]
  /\ at \in {"override", "open", "write"} /\ saved # None => Driver_str = "cleared"
  /\ at = "clear" => driver[dev] = drv
  /\ at # "idle" => IF undone THEN dev \in wrong ELSE drv = Wanted

(* A device is as it should be, or has been blamed.                        *)
Clean(d) ==
  \/ d \in failed \cup refused
  \/ override[d] = None /\ (driver[d] = None => home[d] = None)

InHand(d) == d = dev /\ at \in {"override", "open", "write", "clear"}

CleanInv == \A d \in Devices : Clean(d) \/ InHand(d)

(* The loop over PCI_PATHS has dealt with a device, or will.               *)
Settled(d) ==
  \/ d \in wrong \cup skipped
  \/ driver[d] = Wanted
  \/ d \in ToSet(todo)
  \/ at # "idle" /\ d = dev

LoopBegun ==
  \/ pc = "bind"
  \/ pc = "idle" /\ cmd # "none" /\ ~ hitch
  \/ pc \in {"zero", "umount", "rm"} /\ cmd = "destroy"

LoopInv == LoopBegun => \A d \in Paths : Settled(d)

(* The memory, line by line; unless a command failed.                      *)
MemoryInv ==
  ~ hitch =>
    /\ cmd = "setup" /\ pc \in {"noiommu", "bind", "idle"} => mounted \/ similar
    /\ cmd = "destroy" =>
         /\ pc \in {"umount", "rm", "idle"} => Globbed \subseteq zeroed
         /\ pc \in {"rm", "idle"} => ~ mounted
         /\ pc = "idle" => ~ dir

IInv == TypeInv /\ PoolInv /\ RoutesInv /\ ProcessInv /\ CleanInv /\ LoopInv /\ MemoryInv

-----------------------------------------------------------------------------

(* The elements of a sequence.                                             *)
LEMMA Elements ==
  ASSUME NEW S, NEW q \in Seq(S)
  PROVE  ToSet(q) = {q[n] : n \in 1 .. Len(q)}
  BY DEF ToSet

LEMMA Constants ==
  /\ Vfio \in DpdkDrivers /\ DpdkDrivers \subseteq Drivers
  /\ None \notin Drivers /\ "cleared" \notin Drivers \cup {None}
  /\ DRV \in Drivers /\ Wanted \in Drivers
  /\ Paths \subseteq Devices /\ PCI_PATHS \in Seq(Paths)
  /\ PAGES \in Nat \ {0} /\ Globbed \subseteq Nodes
  <1>1. /\ PCI_PATHS \in Seq(Devices) /\ DRV \in Drivers /\ PAGES \in Nat \ {0}
        /\ Globbed \subseteq Nodes
    BY HostAssumption DEF HostAssumption
  <1>2. Paths = {PCI_PATHS[n] : n \in 1 .. Len(PCI_PATHS)}
    BY <1>1, Elements DEF Paths
  <1>3. Paths \subseteq Devices
    BY <1>1, <1>2
  <1>4. PCI_PATHS \in Seq(Paths)
    BY <1>1, <1>2
  <1> QED
    BY <1>1, <1>3, <1>4, DevBindAssumption DEF DevBindAssumption, Wanted

(* The head and the tail of what is still to be done.                      *)
LEMMA HeadAndTail ==
  ASSUME NEW s \in Seq(Paths), s # <<>>
  PROVE  /\ Head(s) \in Paths /\ Tail(s) \in Seq(Paths)
         /\ ToSet(s) = {Head(s)} \cup ToSet(Tail(s))
  <1>1. /\ Len(s) \in Nat /\ Len(s) > 0 /\ Len(Tail(s)) = Len(s) - 1
        /\ Head(s) = s[1] /\ Tail(s) \in Seq(Paths) /\ s[1] \in Paths
        /\ \A n \in 1 .. Len(s) - 1 : Tail(s)[n] = s[n + 1]
    OBVIOUS
  <1>2. /\ ToSet(s) = {s[n] : n \in 1 .. Len(s)}
        /\ ToSet(Tail(s)) = {Tail(s)[n] : n \in 1 .. Len(s) - 1}
    <2> DEFINE t == Tail(s)
    <2>1. t \in Seq(Paths) /\ Len(t) = Len(s) - 1
      BY <1>1
    <2> HIDE DEF t
    <2>2. ToSet(t) = {t[n] : n \in 1 .. Len(s) - 1}
      BY <2>1, Elements
    <2> QED
      BY <2>2, Elements DEF t
  <1>3. ASSUME NEW x \in ToSet(s) PROVE x = Head(s) \/ x \in ToSet(Tail(s))
    <2>1. PICK n \in 1 .. Len(s) : x = s[n]
      BY <1>2
    <2>2. n # 1 => n - 1 \in 1 .. Len(s) - 1 /\ Tail(s)[n - 1] = x
      BY <1>1, <2>1
    <2> QED
      BY <1>1, <1>2, <2>1, <2>2
  <1>4. ASSUME NEW x \in ToSet(Tail(s)) PROVE x \in ToSet(s)
    <2>1. PICK n \in 1 .. Len(s) - 1 : x = Tail(s)[n]
      BY <1>2
    <2>2. n + 1 \in 1 .. Len(s) /\ x = s[n + 1]
      BY <1>1, <2>1
    <2> QED
      BY <1>2, <2>2
  <1>5. Head(s) \in ToSet(s)
    BY <1>1, <1>2
  <1> QED
    BY <1>1, <1>3, <1>4, <1>5

-----------------------------------------------------------------------------

(* The actions that do not go into bind_one: no process runs.              *)
Quiet ==
  \/ \E c \in {"setup", "destroy"} : Command(c)
  \/ ZeroPages \/ UnmountHuge \/ RemoveDir \/ ReservePages \/ MakeDir \/ MountHuge
  \/ SetNoiommu \/ BindDone \/ InterruptScript

LEMMA QuietStep ==
  ASSUME TypeInv, Quiet
  PROVE  /\ at = "idle" /\ pc' # pc
         /\ UNCHANGED <<driver, override, home, dev, ssh, drv, saved, Driver_str, at, undone,
                        failed, refused, routes, similar, matches>>
         /\ wrong' \in {wrong, {}}
  <1> USE DEF TypeInv, kernel, machine, process, table, blame, memory, script, Goto
  <1>1. CASE \E c \in {"setup", "destroy"} : Command(c)
    BY <1>1 DEF Command
  <1>2. CASE ZeroPages
    BY <1>2 DEF ZeroPages
  <1>3. CASE UnmountHuge
    BY <1>3 DEF UnmountHuge
  <1>4. CASE RemoveDir
    BY <1>4 DEF RemoveDir, AfterClear
  <1>5. CASE ReservePages
    BY <1>5 DEF ReservePages
  <1>6. CASE MakeDir
    BY <1>6 DEF MakeDir
  <1>7. CASE MountHuge
    BY <1>7 DEF MountHuge
  <1>8. CASE SetNoiommu
    BY <1>8 DEF SetNoiommu
  <1>9. CASE BindDone
    BY <1>9 DEF BindDone
  <1>10. CASE InterruptScript
    BY <1>10 DEF InterruptScript
  <1> QED
    BY <1>1, <1>2, <1>3, <1>4, <1>5, <1>6, <1>7, <1>8, <1>9, <1>10 DEF Quiet

-----------------------------------------------------------------------------

(* Reading what a step of bind_one can do off its actions: where it goes,  *)
(* what it does to the device in hand, and whom it blames.                 *)
Unblamed == UNCHANGED <<failed, refused, wrong, skipped>>

Blamed == /\ failed \subseteq failed' /\ refused \subseteq refused'
          /\ dev \in failed' \cup refused' /\ wrong' = wrong \cup {dev}
          /\ failed' \cup refused' = failed \cup refused \cup {dev}
          /\ skipped' = skipped

LEMMA BlameStep ==
  ASSUME NEW fault, Blame(fault, dev) PROVE Blamed
  BY DEF Blame, Blamed

(* The process starts over, to bind the driver it has unbound.             *)
RolledBackTo ==
  /\ at' = "guard" /\ saved # None /\ drv' = saved /\ saved' = None /\ undone' = TRUE
  /\ dev \in wrong' /\ UNCHANGED <<driver, dev, ssh, Driver_str>>

(* A process that is running has a device of PCI_PATHS in hand; nothing    *)
(* else of the host changes while it does.                                 *)
LEMMA BindStepType ==
  ASSUME TypeInv, ProcessInv, BindStep
  PROVE  /\ at \in Steps /\ at' \in Steps \cup {"idle"}
         /\ dev' = dev /\ ssh' = ssh /\ dev \in Paths /\ dev \in Devices
         /\ drv' \in Drivers /\ saved' \in Drivers \cup {None}
         /\ Driver_str' \in Drivers \cup {None, "cleared"} /\ undone' \in BOOLEAN
         /\ driver' \in [Devices -> Drivers \cup {None}]
         /\ override' \in [Devices -> DpdkDrivers \cup {None}]
         /\ \A d \in Devices \ {dev} : driver'[d] = driver[d] /\ override'[d] = override[d]
         /\ \/ Unblamed
            \/ Blamed
            \/ /\ at = "guard" /\ at' = "idle" /\ skipped' = skipped \cup {dev}
               /\ UNCHANGED <<failed, refused, wrong>>
  <1>1. dev \in Paths /\ dev \in Devices /\ drv \in Drivers
    BY Constants DEF BindStep, Guard, Unbind, Override, OpenBind, WriteBind, ClearOverride,
      ProcessInv
  <1> USE Constants, BlameStep, <1>1
      DEF TypeInv, kernel, machine, table, blame, Steps, End, Success, Failure, Continue,
          Rollback, Unblamed
  <1>2. CASE Guard
    BY <1>2 DEF Guard
  <1>3. CASE Unbind
    BY <1>3 DEF Unbind, ProcessInv
  <1>4. CASE Override
    BY <1>4 DEF Override, OverrideEnds, Overridden
  <1>5. CASE OpenBind
    BY <1>5 DEF OpenBind
  <1>6. CASE WriteBind
    BY <1>6 DEF WriteBind
  <1>7. CASE ClearOverride
    BY <1>7 DEF ClearOverride, Cleared
  <1> QED
    BY <1>2, <1>3, <1>4, <1>5, <1>6, <1>7 DEF BindStep

(* What a process has established it keeps, until it ends.                 *)
LEMMA BindStepProcess ==
  ASSUME TypeInv, ProcessInv, BindStep, cmd' = cmd
  PROVE  ProcessInv'
  <1>1. dev \in Paths /\ dev \in Devices /\ drv \in Drivers /\ at \in Steps
    BY BindStepType, Constants DEF BindStep, Guard, Unbind, Override, OpenBind, WriteBind,
      ClearOverride, ProcessInv
  <1>2. Wanted' = Wanted
    BY DEF Wanted
  <1>3. at' = "idle" => ProcessInv'
    BY DEF ProcessInv, Steps
  <1> USE Constants, BlameStep, <1>1, <1>2, <1>3
      DEF kernel, machine, table, blame, End, Success, Failure, Continue, Rollback
  <1>4. CASE Guard
    BY <1>4 DEF Guard, InUse, ProcessInv, Steps, TypeInv
  <1>5. CASE Unbind
    <2>1. \/ at' = "idle"
          \/ /\ at = "unbind" /\ at' = "override" /\ driver' = [driver EXCEPT ![dev] = None]
             /\ Driver_str' = "cleared" /\ UNCHANGED <<dev, ssh, drv, undone, wrong>>
      BY <1>5 DEF Unbind
    <2> QED
      BY <2>1 DEF ProcessInv, Steps, TypeInv
  <1>6. CASE Override
    <2>1. \/ at' = "idle"
          \/ /\ at = "override" /\ at' = "open"
             /\ UNCHANGED <<driver, dev, ssh, drv, Driver_str, saved, undone, wrong>>
      BY <1>6 DEF Override, OverrideEnds
    <2> QED
      BY <2>1 DEF ProcessInv, Steps
  <1>7. CASE OpenBind
    <2>1. \/ at' = "idle"
          \/ /\ at = "open" /\ at' = "write"
             /\ UNCHANGED <<driver, dev, ssh, drv, Driver_str, saved, undone, wrong>>
          \/ at = "open" /\ RolledBackTo
      BY <1>7 DEF OpenBind, Blamed, RolledBackTo
    <2> QED
      BY <2>1 DEF ProcessInv, Steps, RolledBackTo, TypeInv
  <1>8. CASE WriteBind
    <2>1. \/ at' = "idle"
          \/ /\ at = "write" /\ at' = "clear" /\ driver' = [driver EXCEPT ![dev] = drv]
             /\ UNCHANGED <<dev, ssh, drv, Driver_str, saved, undone, wrong>>
          \/ at = "write" /\ RolledBackTo
      BY <1>8 DEF WriteBind, Blamed, RolledBackTo
    <2> QED
      BY <2>1 DEF ProcessInv, Steps, RolledBackTo, TypeInv
  <1>9. CASE ClearOverride
    BY <1>9 DEF ClearOverride
  <1> QED
    BY <1>4, <1>5, <1>6, <1>7, <1>8, <1>9 DEF BindStep

(* A device in hand has lost its routes when its driver changes.           *)
LEMMA BindStepRoutes ==
  ASSUME TypeInv, ProcessInv, RoutesInv, BindStep
  PROVE  RoutesInv'
  <1>1. /\ dev \in Devices
        /\ \A d \in Devices \ {dev} : driver'[d] = driver[d]
    BY BindStepType
  <1>2. routes' \subseteq routes
    BY DEF BindStep, Guard, Unbind, Override, OpenBind, WriteBind, ClearOverride, machine
  <1>3. dev \in routes' => driver'[dev] = driver[dev]
    <2>1. CASE Unbind
      BY <2>1 DEF Unbind, kernel
    <2>2. CASE WriteBind
      BY <1>2, <2>2, Constants DEF WriteBind, ProcessInv, RoutesInv
    <2>3. CASE Guard \/ Override \/ OpenBind \/ ClearOverride
      BY <2>3 DEF Guard, Override, OpenBind, ClearOverride, kernel
    <2> QED
      BY <2>1, <2>2, <2>3 DEF BindStep
  <1> QED
    BY <1>1, <1>2, <1>3 DEF RoutesInv

(* A process that ends leaves its device clean, or blamed.                 *)
LEMMA BindStepClean ==
  ASSUME TypeInv, ProcessInv, CleanInv, BindStep, home' = home
  PROVE  CleanInv'
  <1> SUFFICES ASSUME NEW d \in Devices PROVE Clean(d)' \/ InHand(d)'
    BY DEF CleanInv
  <1>1. Clean(d) \/ InHand(d)
    BY DEF CleanInv
  <1>2. /\ dev' = dev /\ dev \in Devices /\ drv \in Drivers
        /\ failed \cup refused \subseteq failed' \cup refused'
    BY BindStepType DEF ProcessInv, Blamed, Unblamed, Steps
  <1>3. CASE d # dev
    BY <1>1, <1>2, <1>3, BindStepType DEF Clean, InHand
  <1>4. CASE d = dev
    <2>1. ASSUME Clean(d), UNCHANGED <<driver, override>> PROVE Clean(d)'
      BY <1>2, <2>1 DEF Clean
    <2>2. ASSUME Blamed PROVE Clean(d)'
      BY <1>4, <2>2 DEF Blamed, Clean
    <2> USE <1>2, <1>4, <2>1, <2>2, BlameStep, Constants
        DEF TypeInv, ProcessInv, kernel, machine, table, blame, End, Success, Failure,
            Continue, Rollback, Steps
    <2>3. CASE Guard
      BY <1>1, <2>3 DEF Guard, InHand
    <2>4. CASE Unbind
      <3>1. CASE Driver_str = "cleared" /\ Success
        BY <1>1, <2>4, <3>1 DEF Unbind, Clean, InHand
      <3>2. CASE Failure
        BY <3>2
      <3>3. CASE at' = "override"
        BY <2>4, <3>3 DEF Unbind, InHand
      <3> QED
        BY <2>4, <3>1, <3>2, <3>3 DEF Unbind
    <2>5. CASE Override
      BY <2>5 DEF Override, OverrideEnds, InHand
    <2>6. CASE OpenBind
      BY <2>6 DEF OpenBind, InHand
    <2>7. CASE WriteBind
      BY <2>7 DEF WriteBind, InHand
    <2>8. CASE ClearOverride
      BY <2>8 DEF ClearOverride, Cleared, Clean
    <2> QED
      BY <2>3, <2>4, <2>5, <2>6, <2>7, <2>8 DEF BindStep
  <1> QED
    BY <1>3, <1>4

(* and bound as the command asks, or blamed, or in use.                    *)
LEMMA BindStepLoop ==
  ASSUME TypeInv, ProcessInv, BindStep, UNCHANGED <<cmd, pc, todo>>,
         NEW d \in Paths, Settled(d)
  PROVE  Settled(d)'
  <1>1. Wanted' = Wanted
    BY DEF Wanted
  <1>2. /\ dev' = dev /\ dev \in Devices /\ d \in Devices /\ at # "idle"
        /\ wrong \cup skipped \subseteq wrong' \cup skipped'
    BY BindStepType, Constants DEF Steps, Blamed, Unblamed
  <1>3. CASE d # dev
    BY <1>1, <1>2, <1>3, BindStepType DEF Settled
  <1>4. CASE d = dev /\ at' # "idle"
    BY <1>2, <1>4 DEF Settled
  <1>5. CASE d = dev /\ at' = "idle"
    <2>1. ASSUME Blamed PROVE Settled(d)'
      BY <1>5, <2>1 DEF Blamed, Settled
    <2> USE <1>1, <1>2, <1>5, <2>1, BlameStep, Constants
        DEF TypeInv, ProcessInv, kernel, machine, table, blame, End, Success, Failure,
            Continue, Rollback, Steps
    <2>2. CASE Guard
      BY <2>2 DEF Guard, Settled
    <2>3. CASE Unbind
      BY <2>3 DEF Unbind, Settled
    <2>4. CASE Override
      BY <2>4 DEF Override, OverrideEnds
    <2>5. CASE OpenBind
      BY <2>5 DEF OpenBind
    <2>6. CASE WriteBind
      BY <2>6 DEF WriteBind
    <2>7. CASE ClearOverride
      BY <2>7 DEF ClearOverride, Settled
    <2> QED
      BY <2>2, <2>3, <2>4, <2>5, <2>6, <2>7 DEF BindStep
  <1> QED
    BY <1>3, <1>4, <1>5

-----------------------------------------------------------------------------

(* The next device of the loop.                                            *)
LEMMA BindNextStep ==
  ASSUME TypeInv, BindNext
  PROVE  /\ at = "idle" /\ at' \in {"idle", "guard"} /\ pc = "bind"
         /\ UNCHANGED <<driver, override, routes, memory, similar, cmd, pc, commands, home, hitch>>
         /\ dev' \in Paths /\ dev' \in Devices /\ dev' = Head(todo) /\ ssh' = routes
         /\ todo' \in Seq(Paths) /\ ToSet(todo) = {dev'} \cup ToSet(todo')
         /\ drv' = Wanted /\ saved' = None /\ Driver_str' = driver[dev']
         /\ undone' \in BOOLEAN /\ ~ undone'
         /\ failed \subseteq failed' /\ refused \subseteq refused' /\ wrong \subseteq wrong'
         /\ wrong' \subseteq failed' \cup refused' /\ skipped' = skipped
         /\ at' = "idle" => dev' \in wrong'
  <1>1. /\ todo \in Seq(Paths) /\ todo # <<>> /\ todo' = Tail(todo) /\ dev' = Head(todo)
    BY DEF BindNext, Call, TypeInv
  <1>2. /\ dev' \in Paths /\ dev' \in Devices
        /\ todo' \in Seq(Paths) /\ ToSet(todo) = {dev'} \cup ToSet(todo')
    BY <1>1, HeadAndTail, Constants
  <1>3. Driver_str' = driver[dev']
    BY <1>1 DEF BindNext, Call
  <1>4. undone' \in BOOLEAN /\ ~ undone'
    <2>1. undone' = FALSE
      BY DEF BindNext, Call
    <2> QED
      BY <2>1, Zenon
  <1> QED
    BY <1>1, <1>2, <1>3, <1>4
    DEF BindNext, Call, TypeInv, kernel, machine, memory, blame, Blame

(* An interruption blames the device in hand, and may end the script.      *)
LEMMA InterruptStep ==
  ASSUME TypeInv, ProcessInv, InterruptBind
  PROVE  /\ at # "idle" /\ at' = "idle" /\ undone' \in BOOLEAN /\ Blamed
         /\ UNCHANGED <<driver, override, routes, memory, similar, cmd, home, dev, drv,
                        Driver_str, saved>>
         /\ \/ UNCHANGED <<pc, todo, hitch>>
            \/ pc' = "idle" /\ todo' = <<>> /\ hitch' /\ hitch' \in BOOLEAN
  <1>1. Blamed
    BY BlameStep DEF InterruptBind, Interrupt
  <1>2. undone' \in BOOLEAN
    BY Zenon DEF InterruptBind, Interrupt
  <1>3. UNCHANGED <<script, hitch>> \/ (Goto("idle") /\ hitch' /\ hitch' \in BOOLEAN)
    BY Zenon DEF InterruptBind
  <1> QED
    BY <1>1, <1>2, <1>3 DEF InterruptBind, Interrupt, Goto, script, kernel, machine, memory, table

BindOnly == BindStep /\ UNCHANGED <<memory, similar, script, hitch>>

RerouteOnly == \E d \in Paths : Reroute(d) /\ UNCHANGED <<memory, similar, script, hitch>>

LEMMA NextSplits ==
  ASSUME [Next]_vars
  PROVE  Quiet \/ BindNext \/ BindOnly \/ InterruptBind \/ Programs \/ RerouteOnly
         \/ UNCHANGED vars
  BY DEF Next, Script, Quiet, BindOnly, RerouteOnly

-----------------------------------------------------------------------------

(* A flag that is kept, or given a value.                                  *)
LEMMA Unmounted ==
  ASSUME NEW a \in BOOLEAN, NEW b, b = a \/ b = FALSE
  PROVE  b \in BOOLEAN /\ (b => a)
  <1>1. CASE b = a
    BY <1>1, Zenon
  <1>2. CASE b = FALSE
    <2>1. b \in BOOLEAN
      BY <1>2, Zenon
    <2>2. ~ b
      BY ONLY <1>2, Zenon
    <2> QED
      BY <2>1, <2>2, Zenon
  <1> QED
    BY <1>1, <1>2, Zenon

LEMMA Mounted ==
  ASSUME NEW a \in BOOLEAN, NEW b, NEW c \in BOOLEAN, b = a \/ (c /\ b = TRUE), a => c
  PROVE  b \in BOOLEAN /\ (b => c)
  <1>1. CASE b = a
    BY <1>1, Zenon
  <1>2. CASE c /\ b = TRUE
    <2>1. b \in BOOLEAN
      BY <1>2, Zenon
    <2> QED
      BY <1>2, <2>1, Zenon
  <1> QED
    BY <1>1, <1>2, Zenon

LEMMA Raised ==
  ASSUME NEW a \in BOOLEAN, NEW b, b = a \/ b = TRUE
  PROVE  b \in BOOLEAN
  BY Zenon

LEMMA QuietType ==
  ASSUME TypeInv, Quiet
  PROVE  TypeInv'
  <1>1. /\ UNCHANGED <<driver, override, home, dev, drv, saved, Driver_str, at, undone,
                       failed, refused, similar>>
        /\ wrong' \in {wrong, {}} /\ at = "idle"
    BY QuietStep
  <1>2. /\ dir' \in BOOLEAN /\ mounted' \in BOOLEAN /\ (mounted' => dir')
        /\ cmd' \in {"none", "setup", "destroy"} /\ pc' \in Lines /\ hitch' \in BOOLEAN
        /\ todo' \in Seq(Paths) /\ (pc' # "bind" => todo' = <<>>)
        /\ (cmd' = "none" => pc' = "idle")
    <2>0. /\ dir \in BOOLEAN /\ mounted \in BOOLEAN /\ hitch \in BOOLEAN
          /\ mounted => dir
      BY DEF TypeInv
    <2> USE Constants
        DEF TypeInv, kernel, machine, process, table, blame, memory, script, Goto, Lines
    <2>1. CASE \E c \in {"setup", "destroy"} : Command(c)
      <3>1. PICK c \in {"setup", "destroy"} : Command(c)
        BY <2>1
      <3>2. /\ UNCHANGED <<dir, mounted>> /\ cmd' \in {"setup", "destroy"}
            /\ pc' \in {"zero", "bind"} /\ (pc' # "bind" => todo' = <<>>)
            /\ todo' \in Seq(Paths)
        BY <3>1 DEF Command
      <3>3. hitch' \in BOOLEAN
        BY <3>1, Zenon DEF Command
      <3> QED
        BY <3>2, <3>3
    <2>2. CASE ZeroPages
      <3>1. hitch' \in BOOLEAN
        <4>1. PICK told \in SUBSET Globbed : hitch' = (hitch \/ told # Globbed)
          BY <2>2 DEF ZeroPages
        <4> QED
          BY <4>1, Zenon
      <3> QED
        BY <2>2, <3>1 DEF ZeroPages
    <2>3. CASE UnmountHuge
      <3>1. mounted' = mounted \/ mounted' = FALSE
        BY <2>3 DEF UnmountHuge
      <3>2. hitch' = hitch \/ hitch' = TRUE
        BY <2>3 DEF UnmountHuge
      <3>3. mounted' \in BOOLEAN /\ hitch' \in BOOLEAN /\ (mounted' => mounted)
        <4> HIDE DEF TypeInv
        <4>1. mounted' \in BOOLEAN /\ (mounted' => mounted)
          BY ONLY <2>0, <3>1, Unmounted, Zenon
        <4>2. hitch' \in BOOLEAN
          BY ONLY <2>0, <3>2, Raised, Zenon
        <4> QED
          BY <4>1, <4>2
      <3> QED
        BY <2>3, <3>3 DEF UnmountHuge
    <2>4. CASE RemoveDir
      <3>1. dir' = dir \/ (dir' = FALSE /\ ~ mounted)
        BY <2>4 DEF RemoveDir
      <3>2. hitch' = hitch \/ hitch' = TRUE
        BY <2>4 DEF RemoveDir
      <3>3. dir' \in BOOLEAN /\ hitch' \in BOOLEAN /\ (mounted => dir')
        <4> HIDE DEF TypeInv
        <4> QED
          BY <2>0, <3>1, <3>2, Zenon
      <3> QED
        BY <2>4, <3>3 DEF RemoveDir, AfterClear
    <2>5. CASE ReservePages
      <3>1. hitch' \in BOOLEAN
        <4>1. PICK told \in SUBSET Globbed : hitch' = (hitch \/ told # Globbed)
          BY <2>5 DEF ReservePages
        <4> QED
          BY <4>1, Zenon
      <3> QED
        BY <2>5, <3>1 DEF ReservePages
    <2>6. CASE MakeDir
      BY <2>6 DEF MakeDir
    <2>7. CASE MountHuge
      <3>1. \/ mounted' = mounted /\ hitch' = hitch
            \/ dir /\ mounted' = TRUE /\ hitch' = hitch
            \/ hitch' = TRUE /\ mounted' = mounted
        BY <2>7 DEF MountHuge
      <3>2. hitch' \in BOOLEAN
        BY <2>0, <3>1, Zenon
      <3>3. mounted' \in BOOLEAN /\ (mounted' => dir)
        <4> HIDE DEF TypeInv
        <4>1. mounted' = mounted \/ (dir /\ mounted' = TRUE)
          BY ONLY <3>1, Zenon
        <4> QED
          BY ONLY <2>0, <4>1, Mounted, Zenon
      <3> QED
        BY <2>7, <3>2, <3>3 DEF MountHuge
    <2>8. CASE SetNoiommu
      BY <2>8 DEF SetNoiommu
    <2>9. CASE BindDone
      BY <2>9 DEF BindDone
    <2>10. CASE InterruptScript
      BY <2>10 DEF InterruptScript
    <2> QED
      BY <2>1, <2>2, <2>3, <2>4, <2>5, <2>6, <2>7, <2>8, <2>9, <2>10 DEF Quiet
  <1> QED
    BY <1>1, <1>2 DEF TypeInv

LEMMA TypeStep ==
  ASSUME IInv, [Next]_vars
  PROVE  TypeInv'
  <1> USE DEF IInv
  <1>1. CASE Quiet
    BY <1>1, QuietType
  <1>2. CASE BindNext
    <2>1. /\ driver' = driver /\ override' = override /\ home' = home
          /\ UNCHANGED <<dir, mounted, similar, cmd, pc, hitch>>
      BY <1>2, BindNextStep DEF memory
    <2>2. /\ dev' \in Devices /\ drv' \in Drivers /\ saved' = None
          /\ Driver_str' \in Drivers \cup {None}
      BY <1>2, BindNextStep, Constants DEF TypeInv
    <2> QED
      BY <1>2, <2>1, <2>2, BindNextStep DEF TypeInv, Steps
  <1>3. CASE BindOnly
    <2>1. wrong' \subseteq failed' \cup refused'
      BY <1>3, BindStepType DEF BindOnly, TypeInv, Blamed, Unblamed
    <2>2. pc = "bind"
      BY <1>3, BindStepType DEF BindOnly, TypeInv, Steps
    <2> QED
      BY <1>3, <2>1, <2>2, BindStepType DEF BindOnly, TypeInv, memory, script
  <1>4. CASE InterruptBind
    <2>1. UNCHANGED <<driver, override, home, dev, drv, saved, Driver_str, dir, mounted,
                      similar, cmd>>
      BY <1>4, InterruptStep DEF memory
    <2>2. /\ at' = "idle" /\ undone' \in BOOLEAN /\ pc' \in Lines
          /\ todo' \in Seq(Paths) /\ (pc' # "bind" => todo' = <<>>)
          /\ (cmd = "none" => pc' = "idle")
      <3>1. UNCHANGED <<pc, todo>> \/ (pc' = "idle" /\ todo' = <<>>)
        BY <1>4, InterruptStep
      <3>2. at' = "idle" /\ undone' \in BOOLEAN
        BY <1>4, InterruptStep
      <3>3. /\ pc' \in Lines /\ todo' \in Seq(Paths) /\ (pc' # "bind" => todo' = <<>>)
            /\ (cmd = "none" => pc' = "idle")
        <4>1. /\ pc \in Lines /\ todo \in Seq(Paths) /\ (pc # "bind" => todo = <<>>)
              /\ (cmd = "none" => pc = "idle")
          BY DEF TypeInv
        <4>2. CASE UNCHANGED <<pc, todo>>
          BY ONLY <4>1, <4>2
        <4>3. CASE pc' = "idle" /\ todo' = <<>>
          BY ONLY <4>3 DEF Lines
        <4> QED
          BY ONLY <3>1, <4>2, <4>3
      <3> QED
        BY ONLY <3>2, <3>3, Zenon
    <2>4. hitch' \in BOOLEAN
      <3>1. hitch \in BOOLEAN
        BY DEF TypeInv
      <3>2. hitch' = hitch \/ hitch' \in BOOLEAN
        BY <1>4, InterruptStep
      <3> QED
        BY ONLY <3>1, <3>2, Zenon
    <2>3. wrong' \subseteq failed' \cup refused'
      BY <1>4, InterruptStep DEF TypeInv, Blamed
    <2> QED
      BY <2>1, <2>2, <2>3, <2>4 DEF TypeInv
  <1>5. CASE RerouteOnly
    BY <1>5 DEF RerouteOnly, Reroute, TypeInv, kernel, process, table, blame, memory, script
  <1>7. CASE Programs
    BY <1>7 DEF Programs, TypeInv, kernel, process, table, blame, script
  <1>6. CASE UNCHANGED vars
    BY <1>6 DEF TypeInv, vars, kernel, process, table, blame, memory, script
  <1> QED
    BY <1>1, <1>2, <1>3, <1>4, <1>5, <1>6, <1>7, NextSplits

-----------------------------------------------------------------------------

(* Others use the pages: no more than there are.                           *)
LEMMA UseStep ==
  ASSUME PoolInv, NEW f \in [Nodes -> 0 .. PAGES], NEW h \in [Nodes -> 0 .. PAGES],
         \A n \in Nodes : f[n] + h[n] <= pages[n],
         mounted' \/ f = NoFiles, Use(f, h)
  PROVE  PoolInv'
  <1>1. /\ filed' = f /\ held' = h /\ zeroed' = zeroed
        /\ pages' = [n \in Nodes |-> IF n \in zeroed THEN f[n] + h[n] ELSE pages[n]]
    BY DEF Use
  <1>2. ASSUME NEW n \in Nodes
        PROVE  /\ f[n] \in Nat /\ h[n] \in Nat /\ pages[n] \in 0 .. PAGES
               /\ f[n] + h[n] \in 0 .. PAGES
    BY Constants DEF PoolInv
  <1>3. pages' \in [Nodes -> 0 .. PAGES]
    BY <1>1, <1>2 DEF PoolInv
  <1>4. /\ \A n \in Nodes : f[n] + h[n] <= pages'[n]
        /\ \A n \in zeroed : f[n] + h[n] = pages'[n]
    BY <1>1, <1>2 DEF PoolInv
  <1> QED
    BY <1>1, <1>3, <1>4 DEF PoolInv, NoFiles

(* The pages that are freed, or used, by each of the steps that do it.     *)
LEMMA PoolStep ==
  ASSUME TypeInv, PoolInv, ProcessInv, [Next]_vars
  PROVE  PoolInv'
  <1>1. ASSUME UNCHANGED pool, mounted => mounted' PROVE PoolInv'
    BY <1>1 DEF PoolInv, pool, NoFiles
  <1>2. NoFiles \in [Nodes -> 0 .. PAGES] /\ \A n \in Nodes : NoFiles[n] = 0
    BY Constants DEF NoFiles
  <1>3. \A n \in Nodes : held[n] \in Nat /\ NoFiles[n] + held[n] <= pages[n]
    BY <1>2, Constants DEF PoolInv
  <1>4. CASE ZeroPages
    <2>1. PICK told \in SUBSET Globbed :
            /\ pages' = [n \in Nodes |-> IF n \in told THEN filed[n] + held[n] ELSE pages[n]]
            /\ zeroed' = zeroed \cup told
      BY <1>4 DEF ZeroPages
    <2>2. UNCHANGED <<filed, held, mounted>> /\ told \subseteq Nodes
      BY <1>4, Constants DEF ZeroPages
    <2>3. ASSUME NEW n \in Nodes
          PROVE  /\ filed[n] \in Nat /\ held[n] \in Nat /\ pages[n] \in 0 .. PAGES
                 /\ filed[n] + held[n] \in 0 .. PAGES
      BY Constants DEF PoolInv
    <2>4. pages' \in [Nodes -> 0 .. PAGES]
      BY <2>1, <2>3
    <2>5. /\ \A n \in Nodes : filed[n] + held[n] <= pages'[n]
          /\ \A n \in zeroed \cup told : filed[n] + held[n] = pages'[n]
      BY <2>1, <2>2, <2>3 DEF PoolInv
    <2> QED
      BY <2>1, <2>2, <2>4, <2>5 DEF PoolInv, NoFiles
  <1>5. CASE UnmountHuge
    <2>1. CASE Use(NoFiles, held)
      BY <1>2, <1>3, <2>1, UseStep DEF PoolInv
    <2>2. CASE UNCHANGED <<pool, mounted>>
      BY <1>1, <2>2
    <2> QED
      BY <1>5, <2>1, <2>2 DEF UnmountHuge
  <1>6. CASE RemoveDir
    <2>1. mounted' = mounted
      BY <1>6 DEF RemoveDir
    <2>2. ASSUME NEW f \in {filed, NoFiles}, Use(f, held) PROVE PoolInv'
      <3>1. f \in [Nodes -> 0 .. PAGES] /\ \A n \in Nodes : f[n] + held[n] <= pages[n]
        BY <1>2, <1>3 DEF PoolInv
      <3>2. mounted' \/ f = NoFiles
        BY <2>1 DEF PoolInv
      <3> QED
        BY <2>2, <3>1, <3>2, UseStep DEF PoolInv
    <2> QED
      BY <1>1, <1>6, <2>1, <2>2 DEF RemoveDir
  <1>7. CASE ReservePages
    <2>1. PICK told \in SUBSET Globbed :
            /\ pages' \in [Nodes -> 0 .. PAGES]
            /\ \A n \in Nodes : IF n \in told THEN pages'[n] >= filed[n] + held[n]
                                               ELSE pages'[n] = pages[n]
            /\ zeroed' = zeroed \ told
      BY <1>7 DEF ReservePages
    <2>2. UNCHANGED <<filed, held, mounted>>
      BY <1>7 DEF ReservePages
    <2>3. /\ \A n \in Nodes : filed[n] + held[n] <= pages'[n]
          /\ \A n \in zeroed' : filed[n] + held[n] = pages'[n]
      BY <2>1, Constants DEF PoolInv
    <2> QED
      BY <2>1, <2>2, <2>3 DEF PoolInv, NoFiles
  <1>8. CASE Programs
    <2>1. mounted' = mounted
      BY <1>8 DEF Programs
    <2>2. PICK n \in Nodes : TakePage(n) \/ DropPage(n)
      BY <1>8 DEF Programs
    <2>3. \A m \in Nodes : /\ filed[m] \in 0 .. PAGES /\ held[m] \in 0 .. PAGES
                           /\ pages[m] \in 0 .. PAGES /\ filed[m] + held[m] <= pages[m]
      BY DEF PoolInv
    <2>4. CASE TakePage(n)
      <3>1. PICK f \in {filed, NoFiles} :
              f[n] + held[n] < pages[n] /\ Use(f, [held EXCEPT ![n] = @ + 1])
        BY <2>4 DEF TakePage
      <3> DEFINE h == [held EXCEPT ![n] = @ + 1]
      <3>2. /\ f \in [Nodes -> 0 .. PAGES]
            /\ \A m \in Nodes : f[m] + held[m] <= pages[m]
        BY <1>2, <1>3 DEF PoolInv
      <3>3. \A m \in Nodes : f[m] \in Nat /\ f[m] \in 0 .. PAGES
        BY <3>2
      <3>4. held[n] + 1 \in 0 .. PAGES
        BY <2>3, <3>1, <3>3, Constants
      <3>5. h \in [Nodes -> 0 .. PAGES]
        BY <3>4 DEF PoolInv
      <3>6. \A m \in Nodes : h[m] = IF m = n THEN held[m] + 1 ELSE held[m]
        BY DEF PoolInv
      <3>7. \A m \in Nodes : f[m] + h[m] <= pages[m]
        BY <2>3, <3>1, <3>2, <3>3, <3>6
      <3>8. mounted' \/ f = NoFiles
        BY <2>1 DEF PoolInv
      <3> HIDE DEF h
      <3>9. Use(f, h)
        BY <3>1 DEF h
      <3> QED
        BY <3>2, <3>5, <3>7, <3>8, <3>9, UseStep
    <2>5. CASE DropPage(n)
      <3>1. PICK f \in {filed} \cup IF mounted THEN {[filed EXCEPT ![n] = @ + 1]} ELSE {} :
              Use(f, [held EXCEPT ![n] = @ - 1])
        BY <2>5 DEF DropPage
      <3> DEFINE h == [held EXCEPT ![n] = @ - 1]
      <3>2. held[n] > 0
        BY <2>5 DEF DropPage
      <3>3. filed[n] + 1 \in 0 .. PAGES /\ held[n] - 1 \in 0 .. PAGES
        BY <2>3, <3>2, Constants
      <3>4. h \in [Nodes -> 0 .. PAGES]
        BY <3>3 DEF PoolInv
      <3>5. \A m \in Nodes : h[m] = IF m = n THEN held[m] - 1 ELSE held[m]
        BY DEF PoolInv
      <3>6. /\ f \in [Nodes -> 0 .. PAGES]
            /\ \A m \in Nodes : f[m] = filed[m] \/ (m = n /\ f[m] = filed[m] + 1)
            /\ mounted \/ f = NoFiles
        BY <3>1, <3>3 DEF PoolInv
      <3>7. \A m \in Nodes : f[m] + h[m] <= pages[m]
        BY <2>3, <3>5, <3>6
      <3> HIDE DEF h
      <3>8. Use(f, h)
        BY <3>1 DEF h
      <3> QED
        BY <2>1, <3>4, <3>6, <3>7, <3>8, UseStep
    <2> QED
      BY <2>2, <2>4, <2>5
  <1>9. CASE Quiet
    <2>1. CASE \E c \in {"setup", "destroy"} : Command(c)
      BY <1>1, <2>1 DEF Command, memory
    <2>2. CASE MakeDir
      BY <1>1, <2>2 DEF MakeDir
    <2>3. CASE MountHuge
      <3>1. mounted' = mounted \/ mounted' = TRUE
        BY <2>3 DEF MountHuge
      <3> QED
        BY <1>1, <2>3, <3>1 DEF MountHuge
    <2>4. CASE SetNoiommu
      BY <1>1, <2>4 DEF SetNoiommu, memory
    <2>5. CASE BindDone
      BY <1>1, <2>5 DEF BindDone, memory
    <2>6. CASE InterruptScript
      BY <1>1, <2>6 DEF InterruptScript, memory
    <2> QED
      BY <1>4, <1>5, <1>6, <1>7, <1>9, <2>1, <2>2, <2>3, <2>4, <2>5, <2>6 DEF Quiet
  <1>10. CASE UNCHANGED memory
    BY <1>1, <1>10 DEF memory
  <1>11. CASE BindNext \/ BindOnly \/ InterruptBind \/ RerouteOnly \/ UNCHANGED vars
    BY <1>10, <1>11, BindNextStep, InterruptStep DEF BindOnly, RerouteOnly, vars
  <1> QED
    BY <1>8, <1>9, <1>11, NextSplits

-----------------------------------------------------------------------------

LEMMA ProcessStep ==
  ASSUME TypeInv, ProcessInv, [Next]_vars
  PROVE  ProcessInv'
  <1>1. CASE Quiet
    BY <1>1, QuietStep DEF ProcessInv, Steps
  <1>2. CASE BindNext
    <2>1. /\ at' \in {"idle", "guard"} /\ dev' \in Paths /\ dev' \in Devices
          /\ drv' = Wanted' /\ drv' \in Drivers /\ saved' = None /\ ~ undone'
          /\ Driver_str' = driver'[dev']
      BY <1>2, BindNextStep, Constants DEF Wanted
    <2>2. Driver_str' # "cleared"
      BY <1>2, <2>1, BindNextStep, Constants DEF TypeInv
    <2> QED
      BY <2>1, <2>2 DEF ProcessInv, Steps
  <1>3. CASE BindOnly
    BY <1>3, BindStepProcess DEF BindOnly, script
  <1>4. CASE InterruptBind
    BY <1>4, InterruptStep DEF ProcessInv, Steps
  <1>5. CASE RerouteOnly
    BY <1>5 DEF RerouteOnly, Reroute, ProcessInv, Wanted, kernel, process, table, blame, script
  <1>7. CASE Programs
    BY <1>7 DEF Programs, ProcessInv, Wanted, kernel, process, table, blame, script
  <1>6. CASE UNCHANGED vars
    BY <1>6 DEF ProcessInv, Wanted, vars, kernel, process, table, blame, script
  <1> QED
    BY <1>1, <1>2, <1>3, <1>4, <1>5, <1>6, <1>7, NextSplits

LEMMA RoutesStep ==
  ASSUME TypeInv, ProcessInv, RoutesInv, [Next]_vars
  PROVE  RoutesInv'
  <1>1. CASE Quiet
    BY <1>1, QuietStep DEF RoutesInv
  <1>2. CASE BindNext
    BY <1>2, BindNextStep DEF RoutesInv
  <1>3. CASE BindOnly
    BY <1>3, BindStepRoutes DEF BindOnly
  <1>4. CASE InterruptBind
    BY <1>4, InterruptStep DEF RoutesInv
  <1>5. CASE RerouteOnly
    BY <1>5, Constants DEF RerouteOnly, Reroute, RoutesInv, kernel
  <1>7. CASE Programs
    BY <1>7 DEF Programs, RoutesInv, kernel, machine
  <1>6. CASE UNCHANGED vars
    BY <1>6 DEF RoutesInv, vars, kernel, machine
  <1> QED
    BY <1>1, <1>2, <1>3, <1>4, <1>5, <1>6, <1>7, NextSplits

LEMMA CleanStep ==
  ASSUME TypeInv, ProcessInv, CleanInv, [Next]_vars
  PROVE  CleanInv'
  <1>1. CASE Quiet
    BY <1>1, QuietStep DEF CleanInv, Clean, InHand
  <1>2. CASE BindNext
    BY <1>2, BindNextStep DEF CleanInv, Clean, InHand
  <1>3. CASE BindOnly
    BY <1>3, BindStepClean DEF BindOnly, script
  <1>4. CASE InterruptBind
    BY <1>4, InterruptStep DEF CleanInv, Clean, InHand, Blamed
  <1>5. CASE RerouteOnly
    BY <1>5
    DEF RerouteOnly, Reroute, CleanInv, Clean, InHand, kernel, process, table, blame, script
  <1>7. CASE Programs
    BY <1>7 DEF Programs, CleanInv, Clean, InHand, kernel, process, table, blame, script
  <1>6. CASE UNCHANGED vars
    BY <1>6 DEF CleanInv, Clean, InHand, vars, kernel, process, table, blame, script
  <1> QED
    BY <1>1, <1>2, <1>3, <1>4, <1>5, <1>6, <1>7, NextSplits

LEMMA LoopQuiet ==
  ASSUME TypeInv, LoopInv, Quiet
  PROVE  LoopInv'
  <1>1. /\ UNCHANGED <<driver, dev, at>> /\ at = "idle"
    BY QuietStep
  <1>2. ASSUME todo' = PCI_PATHS PROVE LoopInv'
    BY <1>2 DEF LoopInv, Settled, Paths
  <1>3. ASSUME LoopBegun' => LoopBegun, UNCHANGED <<cmd, todo, wrong, skipped>>
        PROVE  LoopInv'
    BY <1>1, <1>3 DEF LoopInv, Settled, Wanted
  <1>4. ASSUME ~ LoopBegun' PROVE LoopInv'
    BY <1>4 DEF LoopInv
  <1> USE <1>2, <1>3, <1>4 DEF Goto, LoopBegun, TypeInv, process, blame
  <1>5. CASE \E c \in {"setup", "destroy"} : Command(c)
    BY <1>5 DEF Command
  <1>6. CASE ZeroPages
    BY <1>6 DEF ZeroPages
  <1>7. CASE UnmountHuge
    BY <1>7 DEF UnmountHuge
  <1>8. CASE RemoveDir
    BY <1>8 DEF RemoveDir, AfterClear
  <1>9. CASE ReservePages
    BY <1>9 DEF ReservePages
  <1>10. CASE MakeDir
    BY <1>10 DEF MakeDir
  <1>11. CASE MountHuge
    BY <1>11 DEF MountHuge
  <1>12. CASE SetNoiommu
    BY <1>12 DEF SetNoiommu
  <1>13. CASE BindDone
    BY <1>13 DEF BindDone
  <1>14. CASE InterruptScript
    <2>1. pc' = "idle" /\ hitch' = TRUE
      BY <1>14 DEF InterruptScript
    <2> QED
      BY <2>1
  <1> QED
    BY <1>5, <1>6, <1>7, <1>8, <1>9, <1>10, <1>11, <1>12, <1>13, <1>14 DEF Quiet

LEMMA LoopStep ==
  ASSUME TypeInv, ProcessInv, LoopInv, [Next]_vars
  PROVE  LoopInv'
  <1>1. CASE Quiet
    BY <1>1, LoopQuiet
  <1>2. CASE BindNext
    BY <1>2, BindNextStep DEF LoopInv, LoopBegun, Settled, Wanted
  <1>3. CASE BindOnly
    <2>1. UNCHANGED <<cmd, pc, todo, hitch>> /\ BindStep
      BY <1>3 DEF BindOnly, script
    <2>2. LoopBegun' => LoopBegun
      BY <2>1 DEF LoopBegun
    <2> QED
      BY <2>1, <2>2, BindStepLoop DEF LoopInv
  <1>4. CASE InterruptBind
    <2>1. CASE UNCHANGED <<pc, todo, hitch>>
      BY <1>4, <2>1, InterruptStep DEF LoopInv, LoopBegun, Settled, Wanted, Blamed
    <2>2. CASE pc' = "idle" /\ hitch'
      BY <2>2 DEF LoopInv, LoopBegun
    <2> QED
      BY <1>4, <2>1, <2>2, InterruptStep
  <1>5. CASE RerouteOnly
    BY <1>5
    DEF RerouteOnly, Reroute, LoopInv, LoopBegun, Settled, Wanted, kernel, process, table,
        blame, script
  <1>7. CASE Programs
    BY <1>7
    DEF Programs, LoopInv, LoopBegun, Settled, Wanted, kernel, process, table, blame, script
  <1>6. CASE UNCHANGED vars
    BY <1>6 DEF LoopInv, LoopBegun, Settled, Wanted, vars, kernel, process, table, blame, script
  <1> QED
    BY <1>1, <1>2, <1>3, <1>4, <1>5, <1>6, <1>7, NextSplits

LEMMA MemoryQuiet ==
  ASSUME TypeInv, MemoryInv, Quiet
  PROVE  MemoryInv'
  <1> SUFFICES ASSUME ~ hitch' PROVE MemoryInv'
    BY DEF MemoryInv
  <1>1. similar' = similar
    BY QuietStep
  <1> USE <1>1, Constants DEF Goto, MemoryInv
  <1>2. CASE \E c \in {"setup", "destroy"} : Command(c)
    BY <1>2 DEF Command
  <1>3. CASE ZeroPages
    BY <1>3 DEF ZeroPages, TypeInv
  <1>4. CASE UnmountHuge
    BY <1>4 DEF UnmountHuge, Unmounts, LooksMounted, Use, pool
  <1>5. CASE RemoveDir
    BY <1>5 DEF RemoveDir, AfterClear, Use, pool
  <1>6. CASE ReservePages
    BY <1>6, QuietStep DEF ReservePages, TypeInv
  <1>7. CASE MakeDir
    BY <1>7 DEF MakeDir, pool
  <1>8. CASE MountHuge
    BY <1>8 DEF MountHuge, Mounts, LooksMounted, pool
  <1>9. CASE SetNoiommu
    BY <1>9 DEF SetNoiommu, memory, pool
  <1>10. CASE BindDone
    BY <1>10 DEF BindDone, memory, pool
  <1>11. CASE InterruptScript
    BY <1>11 DEF InterruptScript
  <1> QED
    BY <1>2, <1>3, <1>4, <1>5, <1>6, <1>7, <1>8, <1>9, <1>10, <1>11 DEF Quiet

LEMMA MemoryStep ==
  ASSUME TypeInv, ProcessInv, MemoryInv, [Next]_vars
  PROVE  MemoryInv'
  <1>1. CASE Quiet
    BY <1>1, MemoryQuiet
  <1>2. CASE BindNext
    BY <1>2, BindNextStep DEF MemoryInv, memory, pool
  <1>3. CASE BindOnly
    BY <1>3 DEF BindOnly, MemoryInv, memory, pool, script
  <1>4. CASE InterruptBind
    BY <1>4, InterruptStep DEF MemoryInv, memory, pool
  <1>5. CASE RerouteOnly
    BY <1>5 DEF RerouteOnly, MemoryInv, memory, pool, script
  <1>6. CASE UNCHANGED vars
    BY <1>6 DEF MemoryInv, vars, memory, pool, script
  <1>7. CASE Programs
    BY <1>7 DEF Programs, TakePage, DropPage, Use, MemoryInv, script
  <1> QED
    BY <1>1, <1>2, <1>3, <1>4, <1>5, <1>6, <1>7, NextSplits

LEMMA InitIInv ==
  ASSUME Init
  PROVE  IInv
  <1> USE Constants, HostsAssumption DEF Init, BindInit, HostsAssumption
  <1>1. driver \in [Devices -> Drivers \cup {None}]
    OBVIOUS
  <1>2. TypeInv
    <2>1. undone = FALSE /\ hitch = FALSE
      OBVIOUS
    <2>2. undone \in BOOLEAN /\ hitch \in BOOLEAN
      BY ONLY <2>1, Zenon
    <2>3. /\ override \in [Devices -> DpdkDrivers \cup {None}]
          /\ home \in [Devices -> Drivers \cup {None}]
      BY <1>1
    <2>4. /\ dev \in Devices \cup {None} /\ drv \in Drivers \cup {None}
          /\ saved \in Drivers \cup {None} /\ Driver_str \in Drivers \cup {None, "cleared"}
          /\ at = "idle" /\ wrong \subseteq failed \cup refused
          /\ cmd = "none" /\ pc = "idle" /\ todo = <<>> /\ todo \in Seq(Paths)
      OBVIOUS
    <2>5. dir \in BOOLEAN /\ mounted \in BOOLEAN /\ similar \in BOOLEAN /\ (mounted => dir)
      BY Zenon
    <2> QED
      BY ONLY <1>1, <2>2, <2>3, <2>4, <2>5 DEF TypeInv, Lines, Steps
  <1>3. RoutesInv
    BY DEF RoutesInv
  <1>4. ProcessInv
    BY DEF ProcessInv, Steps
  <1>5. CleanInv
    BY DEF CleanInv, Clean
  <1>6. LoopInv
    BY DEF LoopInv, LoopBegun
  <1>7. MemoryInv
    BY DEF MemoryInv
  <1>8. PoolInv
    BY DEF PoolInv
  <1> QED
    BY <1>2, <1>3, <1>4, <1>5, <1>6, <1>7, <1>8 DEF IInv

(* The inductive invariant holds throughout.                               *)
THEOREM Inductive == Spec => []IInv
  <1>1. ASSUME IInv, [Next]_vars PROVE IInv'
    BY <1>1, TypeStep, PoolStep, ProcessStep, RoutesStep, CleanStep, LoopStep, MemoryStep
    DEF IInv
  <1> QED
    BY <1>1, InitIInv, PTL DEF Spec

-----------------------------------------------------------------------------

(* Every variable has its type; nothing binds while the script is idle,    *)
(* and a device with a route is bound to a driver of the kernel.           *)
THEOREM HostTypeOK == Spec => []TypeOK
  <1>1. IInv => TypeOK
    BY DEF IInv, TypeInv, PoolInv, RoutesInv, TypeOK, Steps
  <1> QED
    BY <1>1, Inductive, PTL

(* A device that is left without its driver, or overridden, was blamed.    *)
THEOREM HostClean == Spec => []CleanAtRest
  <1>1. IInv => CleanAtRest
    BY DEF IInv, TypeInv, CleanInv, Clean, InHand, CleanAtRest, AtRest
  <1> QED
    BY <1>1, Inductive, PTL

(* An override is never left on a device that has another driver.          *)
THEOREM HostOverrides == Spec => []OverrideExcludes
  <1>1. Init => OverrideExcludes
    BY DEF Init, BindInit, OverrideExcludes
  <1>2. IInv /\ OverrideExcludes /\ [Next]_vars => OverrideExcludes'
    <2> SUFFICES ASSUME IInv, OverrideExcludes, [Next]_vars PROVE OverrideExcludes'
      OBVIOUS
    <2>1. CASE UNCHANGED <<driver, override>>
      BY <2>1 DEF OverrideExcludes
    <2>2. CASE BindStep
      <3>1. /\ dev \in Devices
            /\ \A d \in Devices \ {dev} : driver'[d] = driver[d] /\ override'[d] = override[d]
        BY <2>2, BindStepType DEF IInv
      <3>2. override'[dev] # None => driver'[dev] \in {None, override'[dev]}
        <4>1. override[dev] # None => driver[dev] \in {None, override[dev]}
          BY <3>1 DEF OverrideExcludes
        <4> USE <3>1, <4>1 DEF IInv, TypeInv, ProcessInv, kernel, machine
        <4>2. CASE Guard
          BY <4>2 DEF Guard
        <4>3. CASE Unbind
          BY <4>3 DEF Unbind
        <4>4. CASE Override
          BY <4>4 DEF Override
        <4>5. CASE OpenBind
          BY <4>5 DEF OpenBind
        <4>6. CASE WriteBind
          BY <4>6 DEF WriteBind, Accepts
        <4>7. CASE ClearOverride
          BY <4>7 DEF ClearOverride, Cleared
        <4> QED
          BY <2>2, <4>2, <4>3, <4>4, <4>5, <4>6, <4>7 DEF BindStep
      <3> QED
        BY <3>1, <3>2 DEF OverrideExcludes
    <2>3. CASE Quiet \/ BindNext \/ InterruptBind
      BY <2>1, <2>3, QuietStep, BindNextStep, InterruptStep DEF IInv
    <2>4. CASE Programs \/ RerouteOnly \/ UNCHANGED vars
      BY <2>1, <2>4 DEF Programs, RerouteOnly, Reroute, vars, kernel
    <2> QED
      BY <2>2, <2>3, <2>4, NextSplits DEF BindOnly
  <1> QED
    BY <1>1, <1>2, Inductive, PTL DEF Spec

(* A command without a hitch has bound each device of PCI_PATHS that was   *)
(* neither blamed nor in use.                                              *)
THEOREM HostBound == Spec => []BoundAsAsked
  <1>1. ASSUME IInv, AtRest, ~ hitch, cmd # "none",
               NEW d \in Paths \ (wrong \cup skipped)
        PROVE  driver[d] = Wanted
    <2>1. Settled(d) /\ at = "idle" /\ todo = <<>>
      BY <1>1 DEF IInv, TypeInv, LoopInv, LoopBegun, AtRest
    <2>2. ToSet(<<>>) = {}
      BY DEF ToSet
    <2> QED
      BY <1>1, <2>1, <2>2 DEF Settled
  <1>2. IInv => BoundAsAsked
    BY <1>1 DEF BoundAsAsked
  <1> QED
    BY <1>2, Inductive, PTL

(* A setup without a hitch has hugetlbfs mounted, or something similar;    *)
(* after such a destroy the mount and the directory are gone, and the      *)
(* pages but those in use elsewhere, whatever used them before and what    *)
(* programs do meanwhile.                                                  *)
THEOREM HostPages == Spec => []HugepagesDone
  <1>1. IInv => HugepagesDone
    <2> SUFFICES ASSUME IInv, AtRest, ~ hitch
                 PROVE  /\ cmd = "setup" => mounted \/ similar
                        /\ cmd = "destroy" =>
                             ~ mounted /\ ~ dir /\ \A n \in Globbed : pages[n] = held[n]
      BY DEF HugepagesDone
    <2>1. CASE cmd = "setup"
      BY <2>1 DEF IInv, MemoryInv, AtRest
    <2>2. CASE cmd = "destroy"
      <3>1. ~ mounted /\ ~ dir /\ Globbed \subseteq zeroed
        BY <2>2 DEF IInv, MemoryInv, AtRest
      <3>2. filed = NoFiles /\ \A n \in Globbed : filed[n] + held[n] = pages[n]
        BY <3>1 DEF IInv, PoolInv
      <3>3. ASSUME NEW n \in Globbed PROVE pages[n] = held[n]
        BY <3>2, Constants DEF IInv, PoolInv, NoFiles
      <3> QED
        BY <2>2, <3>1, <3>3
    <2> QED
      BY <2>1, <2>2
  <1> QED
    BY <1>1, Inductive, PTL

(* Neither the driver nor the override changes of a device that is not one *)
(* of PCI_PATHS, or that had a route when the process read the table.      *)
THEOREM HostOthers == Spec => OthersUntouched
  <1> DEFINE Untouched == \A d \in Devices :
               d \notin Paths \/ d \in ssh
                 => driver'[d] = driver[d] /\ override'[d] = override[d]
  <1>1. ASSUME IInv, [Next]_vars PROVE [Untouched]_vars
    <2>1. CASE UNCHANGED <<driver, override>>
      BY <2>1
    <2>2. CASE BindStep
      <3>1. /\ dev \in Paths
            /\ \A d \in Devices \ {dev} : driver'[d] = driver[d] /\ override'[d] = override[d]
        BY <1>1, <2>2, BindStepType DEF IInv
      <3>2. CASE at # "guard"
        BY <1>1, <2>2, <3>1, <3>2, BindStepType DEF IInv, ProcessInv
      <3>3. CASE at = "guard"
        BY <2>2, <3>3
        DEF BindStep, Guard, Unbind, Override, OpenBind, WriteBind, ClearOverride, kernel
      <3> QED
        BY <3>2, <3>3
    <2>3. CASE Quiet \/ BindNext \/ InterruptBind
      BY <1>1, <2>1, <2>3, QuietStep, BindNextStep, InterruptStep DEF IInv
    <2>4. CASE Programs \/ RerouteOnly \/ UNCHANGED vars
      BY <2>1, <2>4 DEF Programs, RerouteOnly, Reroute, vars, kernel
    <2> QED
      BY <1>1, <2>2, <2>3, <2>4, NextSplits DEF BindOnly
  <1> QED
    BY <1>1, Inductive, PTL DEF Spec, OthersUntouched

=============================================================================
