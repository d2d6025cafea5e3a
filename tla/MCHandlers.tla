----------------------------- MODULE MCHandlers -----------------------------
EXTENDS Handlers

\* A healthy member of a kind; the sets below change what the kind looks at.
Plain(kind, label) ==
  [kind |-> kind, label |-> label, form |-> "", state |-> "Enabled", health |-> "OK",
   ostate |-> "", ohealth |-> "", zero |-> FALSE, version |-> ""]

Labels == {"a", "b"}
States == {"Enabled", "Absent", "Disabled"}
Healths == {"OK", "Critical", ""}

Statuses(kind, label) ==
  {[Plain(kind, label) EXCEPT !.state = s, !.health = h] : s \in States, h \in Healths}

Voltages == UNION {{[m EXCEPT !.zero = z] : z \in BOOLEAN, m \in Statuses("voltage", l)} : l \in Labels}
Supplies == UNION {Statuses("supply", l) : l \in Labels}
Fans == UNION {Statuses("fan", l) : l \in Labels}
Controllers ==
  {[Plain("controller", l) EXCEPT !.form = f, !.state = s, !.health = h, !.ohealth = o] :
     l \in Labels, f \in {"member", "self"}, s \in {"Enabled", "Disabled"},
     h \in Healths, o \in {"", "Critical"}}
Batteries(kind, forms) ==
  {[Plain(kind, l) EXCEPT !.form = f, !.state = s, !.health = h] :
     l \in Labels, f \in forms, s \in {"Enabled", "Disabled"}, h \in {"OK", "Critical"}}
Firmwares(forms) ==
  {[Plain("firmware", l) EXCEPT !.form = f, !.state = "", !.health = "", !.version = v] :
     l \in Labels \cup {""}, v \in {"", "1", "2"}, f \in forms}

XMLDrives == UNION {{[m EXCEPT !.form = "xml"] : m \in Statuses("drive", l)} : l \in Labels}

\* A moonshot's thermal body, and that of one of its switches.
Moonshots(kind, forms) ==
  {[Plain(kind, l) EXCEPT !.form = f, !.health = h] :
     l \in Labels, f \in forms, h \in {"OK", "Critical"}}

Body(members) == [parsed |-> TRUE, members |-> members]
Garbled == [parsed |-> FALSE, members |-> <<>>]

\* Bodies with lists.  The variable state is shared by the lists of a body.
Power == {Body(<<v, w>>) : v, w \in Voltages}
         \cup {Body(<<v, s>>) : v \in Voltages, s \in Supplies}
         \cup {Body(<<s, t>>) : s, t \in Supplies}
Thermal2 == {Body(<<x, y, z>>) : x \in Statuses("summary", "a"), y \in Statuses("fan", "a"),
                                 z \in Statuses("sensor", "a") \cup Statuses("fan", "b")}
Storage == {Body(<<c, d>>) : c, d \in Controllers}
Manager == {Body(<<c, d>>) : c, d \in Batteries("battery", {"Hp", "Hpe", "HpeAlt", "HpAlt"})}
           \cup {Body(<<c, d>>) : c, d \in Batteries("selftest", {"Hp", "Hpe"})}
Moon == {Body(<<c, d>>) : c, d \in Moonshots("moonshot", {"fan", "sensor"})}
        \cup {Body(<<c, d>>) : c, d \in Moonshots("switchsensor", {"switch-a"})}
XML == {Body(<<c, d>>) : c, d \in XMLDrives}
Inventory ==
  {Body(<<c, d, e>>) : c, d \in Firmwares({"component", "wrong"}),
                       e \in Firmwares({"component", "wrong", "self"})}

\* Bodies with one member, one per task; the drives of two controllers may have
\* the same Id.
Drives ==
  UNION {{[m EXCEPT !.form = "disk"] : m \in Statuses("drive", l)} : l \in Labels}
  \cup {[Plain("drive", l) EXCEPT !.form = "NVMe", !.state = s, !.health = h,
                                  !.ostate = os, !.ohealth = oh] :
           l \in Labels, s \in {"Enabled", "Absent"}, h \in {"OK", "Critical"},
           os \in {"", "Enabled"}, oh \in {"", "OK", "Critical"}}
DIMMs ==
  UNION {{[m EXCEPT !.form = "object"] : m \in Statuses("dimm", l)} : l \in Labels}
  \cup {[Plain("dimm", l) EXCEPT !.form = f, !.health = h] :
           l \in Labels, f \in {"DIMMStatus", "text"}, h \in {"OK", "Critical"}}
  \cup {[Plain("dimm", l) EXCEPT !.form = f, !.state = "", !.health = ""] :
           l \in Labels, f \in {"none", "object"}}
Summaries ==
  {[Plain("memory", "a") EXCEPT !.health = h, !.ohealth = o] : h, o \in Healths}
Others(kind) == UNION {Statuses(kind, l) : l \in Labels}

Pairs(members) == {<<Body(<<m>>), Body(<<n>>)>> : m, n \in members}

MCScrapes ==
  {<<b>> : b \in Power \cup Thermal2 \cup Storage \cup Manager \cup Inventory
                    \cup Moon \cup XML}
  \cup Pairs(Drives) \cup Pairs(DIMMs) \cup Pairs(Summaries)
  \cup Pairs(Others("logical")) \cup Pairs(Others("processor"))
  \cup {<<Body(<<c>>), Body(<<d>>)>> :
           c, d \in Moonshots("switchsensor", {"switch-a", "switch-b"})}
  \cup {<<Body(<<d, e>>), Garbled, Body(<<f>>)>> :
           d \in Firmwares({"component"}), e \in Firmwares({"wrong", "self"}),
           f \in Firmwares({"component", "self"})}
=============================================================================
