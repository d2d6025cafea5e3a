------------------------------ MODULE Handlers ------------------------------
(***************************************************************************)
(* The metric handlers of src/exporter/handlers.go, and those of the       *)
(* moonshot exporter and the nuova plugin: from the bodies of one          *)
(* scrape's tasks to the status series.  A handler walks the members of    *)
(* its body; one variable "state" serves all of its loops, and a series is *)
(* set per label, so that a later member with the same label overwrites an *)
(* earlier one.                                                            *)
(*                                                                         *)
(* A member is a record: its kind (the metric), its label, the Status it   *)
(* carries (state, health) and a second one (other: the OEM's drive status *)
(* or, for health only, HealthRollup), the form in which it is given where *)
(* vendors differ, and whether the reading and its threshold are zero.     *)
(* Readings themselves are copied and not modelled.                        *)
(***************************************************************************)
EXTENDS Naturals, Sequences

CONSTANT Scrapes  \* external: sequences of bodies a scrape may receive

Kinds == {"voltage", "supply", "summary", "fan", "sensor", "controller", "battery",
          "selftest", "firmware", "drive", "logical", "memory", "dimm", "processor",
          "moonshot", "switchsensor"}

BatteryForms == <<"Hp", "Hpe", "HpeAlt", "HpAlt">>

\* The forms a member of a kind may have.
Forms(kind) ==
  CASE kind = "controller" -> {"member", "self"}
    [] kind \in {"battery", "selftest"} -> {BatteryForms[n] : n \in DOMAIN BatteryForms}
    [] kind = "drive" -> {"disk", "NVMe", "xml"}
    [] kind = "dimm" -> {"DIMMStatus", "text", "none", "object"}
    [] kind = "firmware" -> {"component", "wrong", "self"}
    [] OTHER -> STRING

\* A firmware component's version or label, or none.
Versions == {""} \cup STRING

\* No handler reads the Status of a firmware component: it is left empty.
MemberType ==
  {m \in [kind : Kinds, label : STRING, form : STRING, state : STRING, health : STRING,
          ostate : STRING, ohealth : STRING, zero : BOOLEAN, version : Versions] :
     /\ m.form \in Forms(m.kind)
     /\ m.kind = "firmware" => m.state = "" /\ m.health = ""}

\* A body is one BMC answer; text that is not what the handler expects, any
\* member of a wrong type included unless it is firmware, is not parsed.  A DIMM
\* is all of its body.
BodyType ==
  {b \in [parsed : BOOLEAN, members : Seq(MemberType)] :
     \A n \in DOMAIN b.members : b.members[n].kind = "dimm" => n = 1}

ASSUME ScrapesAssumption == Scrapes \subseteq Seq(BodyType)

VARIABLES
  bodies,   \* the bodies of this scrape
  body,     \* the one whose handler runs
  member,   \* the member the handler is at
  state,    \* the handler's variable of that name
  fw,       \* the variable fw of FirmwareWrapper.UnmarshalJSON
  series,   \* the series set so far, and their values
  errs      \* the handlers that returned an error

vars == <<bodies, body, member, state, fw, series, errs>>

NoFirmware == [label |-> "", version |-> ""]

Init ==
  /\ bodies \in Scrapes
  /\ body = 1
  /\ member = 1
  /\ state = "BAD"
  /\ fw = NoFirmware
  /\ series = <<>>
  /\ errs = {}

Members == bodies[body].members

-----------------------------------------------------------------------------
(* What becomes of one member.                                             *)

FirmwareKey(f) == <<"firmware", f.version, f.label>>

\* Disks and NVMe drives have a metric each, and so have a moonshot's supplies,
\* fans, sensors and switches.  The sensors of a switch, which is their form
\* here, have its name only.
Key(m) ==
  IF m.kind \in {"drive", "moonshot"} THEN <<m.kind, m.form, m.label>>
  ELSE IF m.kind = "switchsensor" THEN <<m.kind, m.form, "">>
  ELSE IF m.kind = "firmware" THEN FirmwareKey(m)
  ELSE <<m.kind, "", m.label>>

\* A series has one value, the last that was set.
WithSeries(key, value) ==
  [k \in DOMAIN series \cup {key} |-> IF k = key THEN value ELSE series[k]]

Set(m, value) ==
  /\ state' = value
  /\ series' = WithSeries(Key(m), value)
  /\ UNCHANGED fw

Skip == UNCHANGED <<state, series, fw>>

\* The value of OK or BAD that most handlers derive.
FromHealth(m) == IF m.health = "OK" THEN "OK" ELSE "BAD"

\* Of the lists different firmware generations have, the first that is there.
Preferred(forms) ==
  LET present == {n \in DOMAIN forms : \E k \in DOMAIN Members : Members[k].form = forms[n]}
  IN  {forms[n] : n \in {k \in present : \A j \in present : k <= j}}

\* An enabled voltage without reading and threshold is left out; one that is
\* not enabled, even absent, is BAD.
Voltage(m) ==
  /\ m.kind = "voltage"
  /\ \/ m.state = "Enabled" /\ m.zero /\ Skip
     \/ m.state = "Enabled" /\ ~m.zero /\ Set(m, FromHealth(m))
     \/ m.state # "Enabled" /\ Set(m, "BAD")

\* A supply without health is OK.
Supply(m) ==
  /\ m.kind = "supply"
  /\ \/ m.state = "Enabled" /\ Set(m, IF m.health \in {"OK", ""} THEN "OK" ELSE "BAD")
     \/ m.state \notin {"Enabled", "Absent"} /\ Set(m, "BAD")
     \/ m.state = "Absent" /\ state' = "BAD" /\ UNCHANGED <<series, fw>>

\* The summary, the fans and the sensors.
Thermal(m) ==
  /\ m.kind \in {"summary", "fan", "sensor"}
  /\ IF m.state = "Enabled" THEN Set(m, FromHealth(m)) ELSE Skip

\* Mutant: a controller without health gets the state of the one before.
ControllerKept(m) ==
  /\ m.kind = "controller"
  /\ m.form \in Preferred(<<"member", "self">>)
  /\ IF m.state # "Enabled" THEN Skip
     ELSE Set(m, IF m.health = "OK" THEN "OK"
                 ELSE IF m.health = "" /\ m.ohealth = "" THEN state ELSE "BAD")

\* The controllers in the body or, without any, the body itself as one.
Controller(m) ==
  /\ m.kind = "controller"
  /\ LET silent == m.health = "" /\ (m.form = "self" \/ m.ohealth = "")
     IN  IF m.form \in Preferred(<<"member", "self">>) /\ m.state = "Enabled" /\ ~silent
         THEN Set(m, FromHealth(m)) ELSE Skip

\* Batteries have a State in the newer forms, "Present" in the older ones, and
\* self tests a Status that may be informational: state "" stands for that.
Battery(m) ==
  /\ m.kind \in {"battery", "selftest"}
  /\ IF m.form \in Preferred(BatteryForms) /\ m.state = "Enabled"
     THEN Set(m, FromHealth(m)) ELSE Skip

\* Mutant: a drive's label does not tell it from the others.
PhysicalMasked(m) ==
  /\ m.kind = "drive" /\ m.form = "disk"
  /\ IF m.state = "Absent" THEN Skip ELSE Set([m EXCEPT !.label = "drive"], FromHealth(m))

\* The label of a drive has its location and serial number besides its Id.
Physical(m) ==
  /\ m.kind = "drive" /\ m.form = "disk"
  /\ IF m.state = "Absent" THEN Skip ELSE Set(m, FromHealth(m))

Logical(m) ==
  /\ m.kind = "logical"
  /\ Set(m, IF m.state = "Enabled" THEN FromHealth(m) ELSE "DISABLED")

\* A drive's protocol chooses between disk and NVMe.  Of Status and the OEM's
\* drive status either may be enabled, and either may be OK.
NVMe(m) ==
  /\ m.kind = "drive" /\ m.form = "NVMe"
  /\ Set(m, IF "Enabled" \notin {m.state, m.ostate} THEN "DISABLED"
            ELSE IF "OK" \in {m.health, m.ohealth} THEN "OK" ELSE "BAD")

\* No rollup and not OK: as if there were no summary.
MemorySummary(m) ==
  /\ m.kind = "memory"
  /\ IF "OK" \in {m.health, m.ohealth} THEN Set(m, "OK")
     ELSE IF m.ohealth = "" THEN Skip ELSE Set(m, "BAD")

\* The nuova plugin's drives: the state says whether the slot is equipped.
XMLDrive(m) ==
  /\ m.kind = "drive" /\ m.form = "xml"
  /\ IF m.state = "Enabled" THEN Set(m, FromHealth(m)) ELSE Skip

\* A moonshot's parts have one word, here the health.
Moonshot(m) ==
  /\ m.kind \in {"moonshot", "switchsensor"}
  /\ Set(m, FromHealth(m))

\* DIMMStatus and a Status that is text are one word, here the health; empty
\* text leaves the DIMM out.  A Status that is missing is not "" either: the
\* DIMM is BAD.  In an object an absent DIMM is left out and one without health
\* is OK.
DIMM(m) ==
  /\ m.kind = "dimm"
  /\ CASE m.form \in {"DIMMStatus", "text"} ->
            IF m.health = "" THEN Skip ELSE Set(m, FromHealth(m))
       [] m.form = "none" -> Set(m, state)
       [] m.form = "object" ->
            IF m.state = "Absent" THEN Skip
            ELSE Set(m, IF m.state = "" THEN state
                        ELSE IF m.state # "Enabled" THEN "BAD"
                        ELSE IF m.health \in {"OK", ""} THEN "OK" ELSE "BAD")

Processor(m) ==
  /\ m.kind = "processor"
  /\ IF m.state = "Absent" THEN Skip ELSE Set(m, FromHealth(m))

\* Components of an inventory are unmarshalled into one variable, which keeps
\* what a component does not name.
Unmarshalled(m) ==
  [label |-> IF m.label = "" THEN fw.label ELSE m.label,
   version |-> IF m.version = "" THEN fw.version ELSE m.version]

\* No component of the body could be read.
Alone(b) ==
  \A n \in DOMAIN bodies[b].members :
    ~(bodies[b].members[n].kind = "firmware" /\ bodies[b].members[n].form = "component")

\* Mutant: the component is appended before it is unmarshalled.
FirmwareLate(m) ==
  /\ m.kind = "firmware"
  /\ fw' = IF m.form = "self" THEN fw ELSE Unmarshalled(m)
  /\ series' = IF m.form = "component" THEN WithSeries(FirmwareKey(fw), "OK")
               ELSE IF m.form = "self" /\ Alone(body) THEN WithSeries(Key(m), "OK") ELSE series
  /\ UNCHANGED state

\* A component of iLO 4's inventory of which something is of the wrong type is
\* left out, but what else it names stays in fw.  A body of which no component
\* is left is a component itself, as all are from iLO 5 on.
Firmware(m) ==
  /\ m.kind = "firmware"
  /\ fw' = IF m.form = "self" THEN fw ELSE Unmarshalled(m)
  /\ series' = IF m.form = "component" THEN WithSeries(FirmwareKey(fw'), "OK")
               ELSE IF m.form = "self" /\ Alone(body) THEN WithSeries(Key(m), "OK") ELSE series
  /\ UNCHANGED state

Member ==
  /\ body <= Len(bodies)
  /\ bodies[body].parsed
  /\ member <= Len(Members)
  /\ LET m == Members[member]
     IN  \/ Voltage(m) \/ Supply(m) \/ Thermal(m) \/ Controller(m) \/ Battery(m)
         \/ Physical(m) \/ Logical(m) \/ NVMe(m) \/ MemorySummary(m) \/ DIMM(m)
         \/ Processor(m) \/ Firmware(m) \/ XMLDrive(m) \/ Moonshot(m)
  /\ member' = member + 1
  /\ UNCHANGED <<bodies, body, errs>>

\* The handler returns, and the next task's handler begins anew.
NextBody ==
  /\ body <= Len(bodies)
  /\ bodies[body].parsed => member > Len(Members)
  /\ errs' = errs \cup (IF bodies[body].parsed THEN {} ELSE {body})
  /\ body' = body + 1
  /\ member' = 1
  /\ state' = "BAD"
  /\ fw' = NoFirmware
  /\ UNCHANGED <<bodies, series>>

Next == Member \/ NextBody

Spec == Init /\ [][Next]_vars

-----------------------------------------------------------------------------
(* Properties.                                                             *)

TypeOK ==
  /\ bodies \in Seq(BodyType)
  /\ body \in Nat \ {0}
  /\ member \in Nat \ {0}
  /\ state \in {"OK", "BAD", "DISABLED"}
  /\ fw \in [label : Versions, version : Versions]
  /\ series \in [DOMAIN series -> {"OK", "BAD", "DISABLED"}]
  /\ errs \subseteq DOMAIN bodies

Over == body > Len(bodies)

\* The members of the bodies that could be parsed, by position.
Positions ==
  UNION {{b} \X DOMAIN bodies[b].members : b \in {c \in DOMAIN bodies : bodies[c].parsed}}
At(p) == bodies[p[1]].members[p[2]]
Later(p, q) == p[1] < q[1] \/ (p[1] = q[1] /\ p[2] < q[2])

\* Lists that newer or older firmware fills are read only if the ones before
\* them are empty.
Shadowed(p) ==
  LET order == IF At(p).kind = "controller" THEN <<"member", "self">> ELSE BatteryForms
  IN  /\ At(p).kind \in {"controller", "battery", "selftest"}
      /\ \E q \in Positions, i, j \in DOMAIN order :
           q[1] = p[1] /\ i < j /\ order[i] = At(q).form /\ order[j] = At(p).form

\* What is broken and says so is shown as BAD: no member before it lends it its
\* state, no list hides it, and only a later member with the very same labels
\* overwrites it.  Not shown are a voltage that reads zero without a threshold,
\* and a memory summary without a rollup.  (handlers.go:117-148, 167-193, 343-355,
\* 505-527, 545-551, moonshot/exporter.go:341-433)
AlarmsShown ==
  Over => \A p \in Positions :
    LET m == At(p)
    IN  m.state = "Enabled" /\ m.health = "Critical" /\ m.ohealth # "OK" /\ ~Shadowed(p) =>
          \/ Key(m) \in DOMAIN series /\ series[Key(m)] = "BAD"
          \/ \E q \in Positions : Later(p, q) /\ Key(At(q)) = Key(m)
          \/ m.kind = "voltage" /\ m.zero
          \/ m.kind = "memory" /\ m.ohealth = ""

\* A series is OK only because some member with its labels reported OK, or, for
\* a supply and a DIMM, is enabled and reports no health: it never inherits the
\* OK of another member.  (handlers.go:82-804)
OkHasReason ==
  \A key \in DOMAIN series : series[key] = "OK" /\ key[1] # "firmware" =>
    \E p \in Positions :
      /\ Key(At(p)) = key
      /\ \/ "OK" \in {At(p).health, At(p).ohealth}
         \/ At(p).kind \in {"supply", "dimm"} /\ At(p).state = "Enabled" /\ At(p).health = ""

\* A component that can be read and lacks nothing.
Complete(p) ==
  /\ At(p).kind = "firmware" /\ At(p).version # "" /\ At(p).label # ""
  /\ \/ At(p).form = "component"
     \/ At(p).form = "self" /\ Alone(p[1])

\* A component c is shown with the label of p and the version of q: its own, or
\* where it has none those of a component of its inventory before it.
ShownAs(c, p, q, key) ==
  /\ At(c).kind = "firmware" /\ At(c).form # "wrong"
  /\ At(p).label = key[3] /\ At(q).version = key[2]
  /\ p[1] = c[1] /\ q[1] = c[1] /\ p[2] <= c[2] /\ q[2] <= c[2]
  /\ At(c).label # "" => p = c
  /\ At(c).version # "" => q = c

\* Each component of a firmware inventory that could be read and has a name and
\* a version is shown with these, whatever the ones around it lack or garble;
\* and no component is shown with a name or a version from a later one, from
\* another body or, if it has its own, from any.  (handlers.go:742-766,
\* firmware.go:46-66)
FirmwareOwnVersion ==
  Over =>
    /\ \A p \in Positions : Complete(p) => Key(At(p)) \in DOMAIN series
    /\ \A key \in DOMAIN series : key[1] = "firmware" =>
         \E c, p, q \in Positions : ShownAs(c, p, q, key)
=============================================================================
