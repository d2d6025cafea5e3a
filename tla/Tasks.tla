-------------------------------- MODULE Tasks --------------------------------
(***************************************************************************)
(* Which tasks an exporter puts into its pool: NewExporter                 *)
(* (src/exporter/exporter.go) for a full scrape and NewPartialExporter     *)
(* (src/exporter/partial_exporter.go) for some components, one after the   *)
(* other for the same BMC, from the answered chassis call to the pool.     *)
(*                                                                         *)
(* The stages are the exporters' groups of calls; any call of a stage may  *)
(* fail.  What a stage finds is a number of resources, counted after the   *)
(* exclude patterns where these are asked.                                 *)
(***************************************************************************)
EXTENDS Naturals, Sequences, FiniteSets

CONSTANTS
  Devices,         \* external: what a BMC has to offer
  Requests,        \* the words partial scrapes name as components
  InventoryLimit   \* firmware inventories of this size or more are left out

Components == {"thermal", "power", "memory", "processor", "drives",
               "storage_controller", "firmware", "system"}

\* Words that are no component are dropped; without any left it is an error.
ParseComponents(words) == words \cap Components

ASSUME RequestsAssumption == \A words \in Requests : words \subseteq STRING
ASSUME LimitAssumption == InventoryLimit \in Nat \ {0}

\* What a task asks the BMC for.
Sources == {"system", "firmwareInventory", "inventory", "arrayController",
            "logicalDrive", "physicalDrive", "drive", "storageController",
            "virtualDrive", "power", "thermal", "dimm", "manager", "processor"}

\* Lists of getAllDriveEndpoints, behind a link that may not be there.
NoDrives == [there |-> FALSE, array |-> 0, logical |-> 0, physical |-> 0]
DriveLists == [there : BOOLEAN, array : Nat, logical : Nat, physical : Nat]

\* Of the firmware inventory the pattern matches no member.
DeviceType ==
  [managers : Seq({"CIMC", "plain"}), systems : Nat, memory : BOOLEAN, dimm : Nat,
   processor : Nat, controllers : Nat, volumes : Nat, drives : Nat, power : Nat,
   thermal : Nat, smart : DriveLists, storage : DriveLists,
   fml : BOOLEAN, update : BOOLEAN, inventory : Nat]

ASSUME DevicesAssumption == Devices \subseteq DeviceType

VARIABLES
  dev,       \* external: the BMC
  excludes,  \* the exclude patterns that are configured: drive, firmware
  turn,      \* "full", "partial" or "over"
  want,      \* the components that are collected
  stage,     \* the group of calls whose turn it is
  sys,       \* sysResp was read: its links are known
  virtual,   \* virtual drives found
  found,     \* DriveEndpoints
  manager,   \* mgrEndpointFinal, "" for none
  tasks,     \* the tasks so far, as the sources they ask for
  gaps,      \* sources whose discovery failed
  made       \* the task lists of the exporters with a pool, and their gaps

vars == <<dev, excludes, turn, want, stage, sys, virtual, found, manager, tasks, gaps, made>>

\* The local variables at the beginning of either function.
Fresh ==
  /\ stage' = "managers"
  /\ sys' = FALSE
  /\ virtual' = 0
  /\ found' = NoDrives
  /\ manager' = ""
  /\ tasks' = <<>>
  /\ gaps' = {}

NotMade == [pool |-> FALSE, tasks |-> <<>>, gaps |-> {}]

Init ==
  /\ dev \in Devices
  /\ excludes \in SUBSET {"drive", "firmware"}
  /\ turn = "full"
  /\ want = Components
  /\ stage = "managers"
  /\ sys = FALSE
  /\ virtual = 0
  /\ found = NoDrives
  /\ manager = ""
  /\ tasks = <<>>
  /\ gaps = {}
  /\ made = [t \in {"full", "partial"} |-> NotMade]

Full == turn = "full"

Wants(cs) == want \cap cs # {}

Times(n, source) == [i \in 1..n |-> source]

Goto(next) == stage' = next

Keep == UNCHANGED <<dev, excludes, turn, want, made>>

-----------------------------------------------------------------------------
(* The stages.                                                             *)

\* A call fails and the function returns its error.
StageFails ==
  /\ Goto("error")
  /\ UNCHANGED <<sys, virtual, found, manager, tasks, gaps>>

\* The first manager that is not a CIMC, if there is a choice.
ManagerOf(ms) ==
  IF Len(ms) > 1
  THEN IF \E n \in DOMAIN ms : ms[n] = "plain" THEN "plain" ELSE ""
  ELSE IF Len(ms) = 1 THEN ms[1] ELSE ""

GetManagers ==
  /\ stage = "managers"
  /\ \/ Wants({"firmware", "system"}) /\ StageFails
     \/ Full /\ dev.managers = <<>> /\ StageFails
     \/ /\ Full => dev.managers # <<>>
        /\ manager' = IF Wants({"firmware", "system"}) THEN ManagerOf(dev.managers) ELSE ""
        /\ Goto("endpoints")
        /\ UNCHANGED <<sys, virtual, found, tasks, gaps>>
  /\ Keep

\* getSystemEndpoints (module SystemEndpoints).
NeedSystem == Wants(Components \ {"firmware"})

GetEndpoints ==
  /\ stage = "endpoints"
  /\ \/ NeedSystem /\ StageFails
     \/ /\ Goto(IF Full THEN "volumes" ELSE "system")
        /\ UNCHANGED <<sys, virtual, found, manager, tasks, gaps>>
  /\ Keep

\* Only a full scrape asks the storage controllers for volumes, and they enter
\* the list only where a pattern is configured that they do not match.
GetVolumes ==
  /\ stage = "volumes"
  /\ \/ dev.controllers > 0 /\ StageFails
     \/ /\ virtual' = IF dev.controllers > 0 /\ "drive" \in excludes THEN dev.volumes ELSE 0
        /\ Goto("system")
        /\ UNCHANGED <<sys, found, manager, tasks, gaps>>
  /\ Keep

\* The system: a full exporter needs one.
GetSystem ==
  /\ stage = "system"
  /\ \/ NeedSystem /\ dev.systems > 0 /\ StageFails
     \/ Full /\ dev.systems = 0 /\ StageFails
     \/ /\ Full => dev.systems > 0
        /\ sys' = (NeedSystem /\ dev.systems > 0)
        /\ tasks' = tasks
             \o Times(IF sys' /\ Wants({"system"}) THEN 1 ELSE 0, "system")
             \o (IF Full THEN <<>>
                 ELSE Times(IF Wants({"power"}) THEN dev.power ELSE 0, "power")
                      \o Times(IF Wants({"thermal"}) THEN dev.thermal ELSE 0, "thermal"))
        /\ Goto("dimm")
        /\ UNCHANGED <<virtual, found, manager, gaps>>
  /\ Keep

\* Mutant: a full scrape goes on as well.
CollectionSkipped(source) ==
  /\ gaps' = gaps \cup {source}
  /\ Goto(IF source = "dimm" THEN "processor" ELSE "smart")
  /\ UNCHANGED <<sys, virtual, found, manager, tasks>>

\* The collections of DIMMs and of processors.  A partial scrape goes on without
\* one that cannot be read; a full scrape adds the tasks later.
CollectionFails(source) ==
  \/ Full /\ StageFails
  \/ /\ ~Full
     /\ gaps' = gaps \cup {source}
     /\ Goto(IF source = "dimm" THEN "processor" ELSE "smart")
     /\ UNCHANGED <<sys, virtual, found, manager, tasks>>

GetDIMMs ==
  /\ stage = "dimm"
  /\ LET asked == Wants({"memory"}) /\ sys /\ dev.memory
     IN  \/ asked /\ CollectionFails("dimm")
         \/ /\ tasks' = tasks \o Times(IF asked /\ ~Full THEN dev.dimm ELSE 0, "dimm")
            /\ Goto("processor")
            /\ UNCHANGED <<sys, virtual, found, manager, gaps>>
  /\ Keep

GetProcessors ==
  /\ stage = "processor"
  /\ LET asked == Wants({"processor"}) /\ sys
     IN  \/ asked /\ CollectionFails("processor")
         \/ /\ tasks' = tasks \o Times(IF asked /\ ~Full THEN dev.processor ELSE 0, "processor")
            /\ Goto("smart")
            /\ UNCHANGED <<sys, virtual, found, manager, gaps>>
  /\ Keep

WantsDrives == Wants({"storage_controller", "drives"})

\* getAllDriveEndpoints (module DriveEndpoints) from the SmartStorage link.
GetSmartStorage ==
  /\ stage = "smart"
  /\ LET asked == WantsDrives /\ sys /\ dev.smart.there
     IN  \/ asked /\ StageFails
         \/ /\ found' = IF asked THEN dev.smart ELSE NoDrives
            /\ Goto("storage")
            /\ UNCHANGED <<sys, virtual, manager, tasks, gaps>>
  /\ Keep

\* Mutant: SmartStorage's drives are forgotten.
FallbackHasty ==
  /\ WantsDrives /\ sys /\ dev.storage.there
  /\ \/ dev.controllers = 0 /\ ~dev.smart.there
     \/ dev.drives = 0

\* The Storage link is tried when there is no controller at all or no drive was
\* found, and what it gives replaces what SmartStorage gave.
Fallback ==
  /\ WantsDrives /\ sys /\ dev.storage.there
  /\ \/ dev.controllers = 0 /\ ~dev.smart.there
     \/ dev.drives = 0 /\ found.physical = 0

GetStorage ==
  /\ stage = "storage"
  /\ \/ Fallback /\ StageFails
     \/ LET lists == IF Fallback THEN dev.storage ELSE found
        IN  /\ found' = lists
            /\ tasks' = tasks \o
                 (IF Full THEN <<>>
                  ELSE (IF Wants({"storage_controller"})
                        THEN Times(dev.controllers, "storageController")
                             \o Times(lists.array, "arrayController")
                        ELSE <<>>)
                       \o (IF Wants({"drives"})
                           THEN Times(lists.logical, "logicalDrive")
                                \o Times(dev.drives, "drive")
                                \o Times(lists.physical, "physicalDrive")
                           ELSE <<>>))
            /\ Goto("firmware")
            /\ UNCHANGED <<sys, virtual, manager, gaps>>
  /\ Keep

\* Mutant: only a full scrape is spared a long inventory.
InventoryAny ==
  IF dev.update /\ (Full => "firmware" \in excludes /\ dev.inventory < InventoryLimit)
  THEN dev.inventory ELSE 0

\* Firmware: a link in the system, else the inventory of the update service.
\* Without a pattern only a partial scrape takes the inventory's members.
Inventory ==
  IF /\ dev.update
     /\ dev.inventory < InventoryLimit
     /\ Full => "firmware" \in excludes
  THEN dev.inventory ELSE 0

ManagerTask == Times(IF manager # "" THEN 1 ELSE 0, "manager")

GetFirmware ==
  /\ stage = "firmware"
  /\ LET linked == sys /\ dev.fml
         first == IF Full THEN <<>> ELSE ManagerTask
     IN  \/ ~Wants({"firmware"}) /\ UNCHANGED <<tasks, gaps>> /\ Goto("assemble")
         \/ Wants({"firmware"}) /\ ~linked /\ (Full \/ dev.update) /\ Goto("error")
              /\ UNCHANGED <<tasks, gaps>>
         \/ /\ Wants({"firmware"}) /\ ~linked /\ ~Full
            /\ gaps' = gaps \cup {"inventory"}
            /\ tasks' = tasks \o first
            /\ Goto("assemble")
         \/ /\ Wants({"firmware"})
            /\ tasks' = tasks \o first
                 \o (IF linked THEN <<"firmwareInventory">> ELSE Times(Inventory, "inventory"))
            /\ Goto("assemble")
            /\ UNCHANGED gaps
  /\ UNCHANGED <<sys, virtual, found, manager>>
  /\ Keep

\* What a full exporter adds at the end, from the lists it has read; its manager
\* task is made even if no manager was chosen.
Rest ==
  Times(found.array, "arrayController") \o Times(found.logical, "logicalDrive")
  \o Times(found.physical, "physicalDrive") \o Times(dev.drives, "drive")
  \o Times(dev.controllers, "storageController") \o Times(virtual, "virtualDrive")
  \o Times(dev.power, "power") \o Times(dev.thermal, "thermal")
  \o Times(IF dev.memory /\ "dimm" \notin gaps THEN dev.dimm ELSE 0, "dimm")
  \o <<"manager">> \o Times(IF "processor" \in gaps THEN 0 ELSE dev.processor, "processor")

\* The pool, and the plugins, which may fail the request.
Assemble ==
  /\ stage = "assemble"
  /\ tasks' = tasks \o (IF Full THEN Rest ELSE <<>>)
  /\ \/ Goto("pool") /\ made' = [made EXCEPT ![turn] =
                                  [pool |-> TRUE, tasks |-> tasks', gaps |-> gaps]]
     \/ Goto("error") /\ UNCHANGED made
  /\ UNCHANGED <<dev, excludes, turn, want, sys, virtual, found, manager, gaps>>

\* The next request for the same BMC is a partial one.
NextRequest ==
  /\ stage \in {"pool", "error"}
  /\ turn = "full"
  /\ \E words \in Requests :
       \/ /\ ParseComponents(words) = {}
          /\ turn' = "over"
          /\ UNCHANGED <<want, stage, sys, virtual, found, manager, tasks, gaps>>
       \/ /\ ParseComponents(words) # {}
          /\ turn' = "partial"
          /\ want' = ParseComponents(words)
          /\ Fresh
  /\ UNCHANGED <<dev, excludes, made>>

Next ==
  \/ GetManagers \/ GetEndpoints \/ GetVolumes \/ GetSystem \/ GetDIMMs
  \/ GetProcessors \/ GetSmartStorage \/ GetStorage \/ GetFirmware
  \/ Assemble \/ NextRequest

Spec == Init /\ [][Next]_vars

-----------------------------------------------------------------------------
(* Properties.                                                             *)

TypeOK ==
  /\ dev \in Devices
  /\ excludes \subseteq {"drive", "firmware"}
  /\ turn \in {"full", "partial", "over"}
  /\ want \in (SUBSET Components) \ {{}}
  /\ stage \in {"managers", "endpoints", "volumes", "system", "dimm", "processor",
                "smart", "storage", "firmware", "assemble", "pool", "error"}
  /\ sys \in BOOLEAN
  /\ virtual \in Nat
  /\ found \in DriveLists
  /\ manager \in {"", "CIMC", "plain"}
  /\ tasks \in Seq(Sources)
  /\ gaps \subseteq Sources
  /\ made \in [{"full", "partial"} ->
                [pool : BOOLEAN, tasks : Seq(Sources), gaps : SUBSET Sources]]

Count(ts, source) == Cardinality({n \in DOMAIN ts : ts[n] = source})

ComponentOf(source) ==
  CASE source = "system" -> "system"
    [] source \in {"firmwareInventory", "inventory", "manager"} -> "firmware"
    [] source \in {"arrayController", "storageController"} -> "storage_controller"
    [] source \in {"logicalDrive", "physicalDrive", "drive", "virtualDrive"} -> "drives"
    [] source = "dimm" -> "memory"
    [] OTHER -> source

\* How many tasks the parts of a BMC are worth that no pattern thins out.
Whole(source) ==
  CASE source = "power" -> dev.power
    [] source = "thermal" -> dev.thermal
    [] source = "drive" -> dev.drives
    [] source = "storageController" -> dev.controllers
    [] source = "dimm" -> IF dev.memory THEN dev.dimm ELSE 0
    [] source = "processor" -> dev.processor

\* An exporter with a pool has a task for each power supply, fan tray, drive,
\* storage controller, DIMM and processor of the BMC it was asked for, and none
\* twice, whichever calls have failed.  Only a partial one may do without all
\* DIMMs or all processors, when they could not be read, although its metric
\* up will say 1.  (exporter.go:299-311, 391-443, partial_exporter.go:225-274)
WholeOrNothing ==
  \A t \in {"full", "partial"} : made[t].pool =>
    \A source \in {"power", "thermal", "drive", "storageController", "dimm", "processor"} :
      t = "full" \/ ComponentOf(source) \in want =>
        \/ Count(made[t].tasks, source) = Whole(source)
        \/ /\ t = "partial"
           /\ source \in {"dimm", "processor"}
           /\ source \in made[t].gaps \/ dev.systems = 0
           /\ Count(made[t].tasks, source) = 0

\* Where the two kinds of scrape may differ for a component both collect.
MayDiffer(source) ==
  \/ source \in made["partial"].gaps
  \/ source = "virtualDrive"
  \/ source = "inventory" /\ ("firmware" \notin excludes \/ ~NeedSystem)
  \/ source = "firmwareInventory" /\ ~NeedSystem
  \/ source = "manager" /\ \A n \in DOMAIN dev.managers : dev.managers[n] = "CIMC"

\* A partial scrape makes the tasks of a full scrape of the same BMC for the
\* components it was asked for, each as often, and no others.  It has no
\* virtual drives, takes a firmware inventory without an exclude pattern, and
\* for firmware alone does not see the inventory that the system links.
\* (exporter.go:223-444, partial_exporter.go:158-395)
PartialAsFull ==
  made["full"].pool /\ made["partial"].pool =>
    \A source \in Sources :
      IF ComponentOf(source) \in want
      THEN MayDiffer(source) \/ Count(made["partial"].tasks, source)
                                  = Count(made["full"].tasks, source)
      ELSE Count(made["partial"].tasks, source) = 0

\* When a BMC shows drives in its chassis, behind SmartStorage or behind
\* Storage, a scrape of its drives has tasks for some: the one list of drives
\* does not replace the other unless that had none.  (exporter.go:317-338,
\* partial_exporter.go:277-299)
DrivesNotMissed ==
  stage = "pool" /\ sys /\ "drives" \in want
  /\ (dev.drives > 0 \/ (dev.smart.there /\ dev.smart.physical > 0)
                     \/ (dev.storage.there /\ dev.storage.physical > 0)) =>
    Count(tasks, "drive") + Count(tasks, "physicalDrive") > 0
=============================================================================
