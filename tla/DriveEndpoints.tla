--------------------------- MODULE DriveEndpoints ---------------------------
(***************************************************************************)
(* getAllDriveEndpoints of src/exporter/helpers.go: from the collection of *)
(* a server's array or storage controllers to the lists of physical        *)
(* drives, logical drives and array controllers.  Every collection is a    *)
(* call to the BMC, and the first call that fails ends the walk.           *)
(***************************************************************************)
EXTENDS Endpoints

CONSTANT Servers   \* external: the controllers a server may have, one sequence each

\* A link to a collection: there is none, or it has these members.
NoLink == [there |-> FALSE, members |-> <<>>]
Links == {NoLink} \cup [there : {TRUE}, members : Seq(Urls)]

\* What is read of a GenericDrive: its own URL in the collection, the drives
\* of iLO 6, the collections behind Volumes, Controllers and Links or links.
ControllerBodies ==
  [url : Urls, drives : Seq(Urls), volumes : Seq(Seq(Urls)), controllers : Links,
   upperLogical : Links, upperPhysical : Links,
   lowerLogical : Links, lowerPhysical : Links]

Lists == {"arrayController", "logicalDrive", "physicalDrive"}

ASSUME ServersAssumption == Servers \subseteq Seq(ControllerBodies)

\* A collection to be called, and how its members enter a list: checked
\* members are compared with the list and with the exclude pattern.
Calls == [dest : Lists, checked : BOOLEAN, members : Seq(Urls)]

VARIABLES
  ctrls,    \* external: the controllers of this server
  ctrl,     \* the controller whose turn it is
  calls,    \* the collections of it that are still to be called
  taking,   \* the collection whose members are walked
  drives,   \* DriveEndpoints
  dpc       \* "off", "initial", "ctrl", "call", "take", "done", "failed"

dvars == <<ctrls, ctrl, calls, taking, drives, dpc>>

Nothing == [dest |-> "physicalDrive", checked |-> FALSE, members |-> <<>>]

DInit ==
  /\ ctrls \in Servers
  /\ ctrl = 1
  /\ calls = <<>>
  /\ taking = Nothing
  /\ drives = [l \in Lists |-> <<>>]
  /\ dpc = "initial"

\* A call fails, or its body cannot be read: the lists are thrown away with it.
Fail ==
  /\ dpc \in {"initial", "ctrl", "call"}
  /\ dpc = "ctrl" => ctrl <= Len(ctrls)
  /\ dpc' = "failed"
  /\ UNCHANGED <<ctrls, ctrl, calls, taking, drives>>

\* The collection of the controllers.
GetInitial ==
  /\ dpc = "initial"
  /\ dpc' = "ctrl"
  /\ UNCHANGED <<ctrls, ctrl, calls, taking, drives>>

\* Volumes and Controllers are called only for a controller that shows drives.
VolumeCalls(body) ==
  [n \in DOMAIN body.volumes |->
     [dest |-> "logicalDrive", checked |-> TRUE, members |-> body.volumes[n]]]

Call(dest, link) ==
  IF link.there
  THEN <<[dest |-> dest, checked |-> FALSE, members |-> link.members]>>
  ELSE <<>>

ModernCalls(body) ==
  IF body.drives # <<>>
  THEN VolumeCalls(body) \o Call("arrayController", body.controllers)
  ELSE <<>>

LinkCalls(body) ==
  Call("logicalDrive", body.upperLogical) \o Call("physicalDrive", body.upperPhysical)
  \o Call("logicalDrive", body.lowerLogical) \o Call("physicalDrive", body.lowerPhysical)

\* A controller without drives of its own that links physical ones is a task.
IsArrayController(body) ==
  body.drives = <<>> /\ (body.upperPhysical.there \/ body.lowerPhysical.there)

\* Mutant: Links and links are left out when the controller shows drives.
GetControllerEither ==
  /\ dpc = "ctrl"
  /\ ctrl <= Len(ctrls)
  /\ LET body == ctrls[ctrl]
     IN  /\ calls' = IF body.drives # <<>> THEN ModernCalls(body) ELSE LinkCalls(body)
         /\ taking' = [dest |-> "physicalDrive", checked |-> TRUE, members |-> body.drives]
         /\ drives' = IF IsArrayController(body)
                      THEN [drives EXCEPT !["arrayController"] =
                                            Append(@, appendSlash(body.url))]
                      ELSE drives
  /\ dpc' = "take"
  /\ UNCHANGED <<ctrls, ctrl>>

GetController ==
  /\ dpc = "ctrl"
  /\ ctrl <= Len(ctrls)
  /\ LET body == ctrls[ctrl]
     IN  /\ calls' = ModernCalls(body) \o LinkCalls(body)
         /\ taking' = [dest |-> "physicalDrive", checked |-> TRUE, members |-> body.drives]
         /\ drives' = IF IsArrayController(body)
                      THEN [drives EXCEPT !["arrayController"] =
                                            Append(@, appendSlash(body.url))]
                      ELSE drives
  /\ dpc' = "take"
  /\ UNCHANGED <<ctrls, ctrl>>

GetCollection ==
  /\ dpc = "call"
  /\ calls # <<>>
  /\ taking' = Head(calls)
  /\ calls' = Tail(calls)
  /\ dpc' = "take"
  /\ UNCHANGED <<ctrls, ctrl, drives>>

\* Mutant: no comparison with the list.
EntersUnchecked(url) == taking.checked => url[1] \notin Excluded

\* The URL as the BMC spells it is compared with the list, which has it with a
\* slash.
Enters(url) ==
  taking.checked => url[1] \notin Excluded /\ checkUnique(drives[taking.dest], url)

\* One turn of one of the loops over drives or members.
TakeMember ==
  /\ dpc = "take"
  /\ taking.members # <<>>
  /\ LET url == Head(taking.members)
     IN  drives' = IF Enters(url)
                   THEN [drives EXCEPT ![taking.dest] = Append(@, appendSlash(url))]
                   ELSE drives
  /\ taking' = [taking EXCEPT !.members = Tail(@)]
  /\ UNCHANGED <<ctrls, ctrl, calls, dpc>>

\* All members are taken: the next collection, or the next controller.
Taken ==
  /\ dpc = "take"
  /\ taking.members = <<>>
  /\ IF calls # <<>>
     THEN dpc' = "call" /\ UNCHANGED ctrl
     ELSE dpc' = "ctrl" /\ ctrl' = ctrl + 1
  /\ UNCHANGED <<ctrls, calls, taking, drives>>

AllWalked ==
  /\ dpc = "ctrl"
  /\ ctrl > Len(ctrls)
  /\ dpc' = "done"
  /\ UNCHANGED <<ctrls, ctrl, calls, taking, drives>>

DNext ==
  Fail \/ GetInitial \/ GetController \/ GetCollection \/ TakeMember \/ Taken \/ AllWalked

DSpec == DInit /\ [][DNext]_dvars

-----------------------------------------------------------------------------
(* Properties.                                                             *)

DTypeOK ==
  /\ ctrls \in Seq(ControllerBodies)
  /\ ctrl \in Nat \ {0}
  /\ calls \in Seq(Calls)
  /\ taking \in Calls
  /\ drives \in [Lists -> Seq(Urls)]
  /\ dpc \in {"off", "initial", "ctrl", "call", "take", "done", "failed"}

\* What a controller shows or links for a list, with the spelling it uses.
ShownBy(body, l) ==
  CASE l = "physicalDrive" -> {body.drives}
    [] l = "logicalDrive" ->
         IF body.drives # <<>> THEN {body.volumes[n] : n \in DOMAIN body.volumes} ELSE {}
    [] l = "arrayController" -> {}
LinkedBy(body, l) ==
  CASE l = "physicalDrive" -> {body.upperPhysical.members, body.lowerPhysical.members}
    [] l = "logicalDrive" -> {body.upperLogical.members, body.lowerLogical.members}
    [] l = "arrayController" ->
         IF body.drives # <<>> THEN {body.controllers.members}
         ELSE IF IsArrayController(body) THEN {<<body.url>>} ELSE {}

In(urls, seqs) == \E s \in seqs : \E n \in DOMAIN s : s[n] \in urls

\* When the walk has not failed, no drive, volume or controller is missing: all
\* that is linked is listed, and all that is shown but for the excluded.
\* (helpers.go:281-385)
AllListed ==
  dpc = "done" =>
    \A l \in Lists, c \in DOMAIN ctrls, p \in Paths :
      \/ Has(drives[l], <<p, TRUE>>)
      \/ /\ ~In({p} \X BOOLEAN, LinkedBy(ctrls[c], l))
         /\ p \notin Excluded => ~In({p} \X BOOLEAN, ShownBy(ctrls[c], l))

\* No drive that matches the exclude pattern is scraped.  The code does not keep
\* this up: for the drives a controller links through PhysicalDrives it does not
\* ask the pattern.  (README.md:50, helpers.go:283-285, 344-384)
ExcludedLeftOut ==
  \A n \in DOMAIN drives["physicalDrive"] :
    drives["physicalDrive"][n][1] \notin Excluded

\* A resource is listed twice only if it is linked, which is not checked, or
\* shown without the last slash that the comparison needs.
\* (helpers.go:286-287, 304-305)
TwiceOnlyIfUnslashed ==
  \A l \in Lists : \A m, n \in DOMAIN drives[l] :
    m # n /\ drives[l][m] = drives[l][n] =>
      \E c \in DOMAIN ctrls :
        \/ In({drives[l][m][1]} \X BOOLEAN, LinkedBy(ctrls[c], l))
        \/ In({<<drives[l][m][1], FALSE>>}, ShownBy(ctrls[c], l))
=============================================================================
