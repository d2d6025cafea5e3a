--------------------------- MODULE HandlersProofs ---------------------------
(***************************************************************************)
(* Proofs about the metric handlers, for every sequence of bodies of any   *)
(* length.  What the properties say at the end of a scrape is shown of the *)
(* members that have been passed, at every step.                           *)
(***************************************************************************)
EXTENDS Handlers, TLAPS

Values == {"OK", "BAD", "DISABLED"}

\* The members whose turn is over.
Passed(p) == p[1] < body \/ (p[1] = body /\ p[2] < member)

\* The handler's variable is BAD when its body begins.
BeginsBad == member = 1 => state = "BAD"

\* What is broken, says so and is in the list that is read.
Alarm(p) ==
  /\ At(p).state = "Enabled" /\ At(p).health = "Critical" /\ At(p).ohealth # "OK"
  /\ ~Shadowed(p)

LeftOut(m) == (m.kind = "voltage" /\ m.zero) \/ (m.kind = "memory" /\ m.ohealth = "")

AlarmsSoFar ==
  \A p \in Positions : Passed(p) /\ Alarm(p) =>
    \/ Key(At(p)) \in DOMAIN series /\ series[Key(At(p))] = "BAD"
    \/ \E q \in Positions : Passed(q) /\ Later(p, q) /\ Key(At(q)) = Key(At(p))
    \/ LeftOut(At(p))

VersionsShown ==
  \A p \in Positions : Passed(p) /\ Complete(p) => Key(At(p)) \in DOMAIN series

\* What fw holds is of members of this body that have been passed.
FwKnown ==
  /\ fw.label # "" =>
       \E p \in Positions : p[1] = body /\ p[2] < member /\ At(p).label = fw.label
  /\ fw.version # "" =>
       \E p \in Positions : p[1] = body /\ p[2] < member /\ At(p).version = fw.version

VersionsOwned ==
  \A key \in DOMAIN series : key[1] = "firmware" =>
    \E c, p, q \in Positions : ShownAs(c, p, q, key)

HInv ==
  /\ TypeOK
  /\ BeginsBad
  /\ AlarmsSoFar
  /\ OkHasReason
  /\ VersionsShown /\ FwKnown /\ VersionsOwned

-----------------------------------------------------------------------------
(* Members and series.                                                     *)

\* A position is one of a member.
LEMMA PositionFacts ==
  ASSUME TypeOK, NEW p \in Positions
  PROVE  /\ p[1] \in DOMAIN bodies /\ bodies[p[1]].parsed
         /\ p[2] \in DOMAIN bodies[p[1]].members
         /\ p[1] \in Nat /\ p[2] \in Nat
         /\ At(p) \in MemberType
         /\ At(p).kind = "dimm" => p[2] = 1
<1>1. PICK b \in DOMAIN bodies : bodies[b].parsed /\ p \in {b} \X DOMAIN bodies[b].members
  BY DEF Positions
<1>2. p[1] = b /\ p[2] \in DOMAIN bodies[b].members
  BY <1>1
<1>3. bodies[b] \in BodyType /\ b \in Nat
  BY DEF TypeOK
<1>4. bodies[b].members \in Seq(MemberType)
  BY <1>3 DEF BodyType
<1>5. At(p) \in MemberType /\ p[2] \in Nat
  BY <1>2, <1>4 DEF At
<1>6. At(p).kind = "dimm" => p[2] = 1
  BY <1>2, <1>3 DEF At, BodyType
<1> QED BY <1>1, <1>2, <1>3, <1>5, <1>6

\* The member at hand has a position, the one after all that have been passed.
LEMMA Current ==
  ASSUME TypeOK, Member
  PROVE  /\ <<body, member>> \in Positions /\ At(<<body, member>>) = Members[member]
         /\ Members[member] \in MemberType
         /\ Members[member].kind = "dimm" => member = 1
         /\ body' = body /\ member' = member + 1 /\ bodies' = bodies
         /\ \A p \in Positions : Passed(p)' <=> Passed(p) \/ p = <<body, member>>
         /\ \A p \in Positions : Passed(p) => Later(p, <<body, member>>)
<1> DEFINE c == <<body, member>>
<1>1. /\ body \in Nat \ {0} /\ member \in Nat \ {0} /\ body <= Len(bodies) /\ bodies[body].parsed
      /\ member <= Len(Members)
      /\ body' = body /\ member' = member + 1 /\ bodies' = bodies
  BY DEF TypeOK, Member
<1>2. bodies \in Seq(BodyType)
  BY DEF TypeOK
<1>3. body \in DOMAIN bodies
  BY <1>1, <1>2
<1>4. bodies[body].members \in Seq(MemberType)
  BY <1>2, <1>3 DEF BodyType
<1>5. member \in DOMAIN bodies[body].members
  BY <1>1, <1>4 DEF Members
<1>6. c \in Positions
  BY <1>1, <1>3, <1>5 DEF Positions
<1>7. At(c) = Members[member]
  BY DEF At, Members
<1>8. At(c) \in MemberType /\ (At(c).kind = "dimm" => member = 1)
  BY <1>6, PositionFacts
<1>9. ASSUME NEW p \in Positions
      PROVE  /\ Passed(p)' <=> Passed(p) \/ p = c
             /\ Passed(p) => Later(p, c)
  <2>1. p[1] \in Nat /\ p[2] \in Nat
    BY PositionFacts
  <2>2. p = <<p[1], p[2]>>
    BY DEF Positions
  <2> QED BY <1>1, <2>1, <2>2 DEF Passed, Later
<1> QED BY <1>1, <1>6, <1>7, <1>8, <1>9

\* Setting a series leaves the others.
LEMMA WithSeriesFacts ==
  ASSUME NEW key, NEW value
  PROVE  LET new == WithSeries(key, value)
         IN  /\ DOMAIN new = DOMAIN series \cup {key}
             /\ new[key] = value
             /\ \A k \in DOMAIN series : k # key => new[k] = series[k]
BY DEF WithSeries

LEMMA WithSeriesType ==
  ASSUME NEW key, NEW value \in Values, series \in [DOMAIN series -> Values]
  PROVE  WithSeries(key, value) \in [DOMAIN WithSeries(key, value) -> Values]
BY DEF WithSeries

\* The kind of a member is the first part of its key.
LEMMA KeyKind ==
  ASSUME NEW m \in MemberType
  PROVE  /\ Key(m)[1] = m.kind
         /\ m.kind = "firmware" => Key(m) = <<"firmware", m.version, m.label>>
BY DEF Key, FirmwareKey, MemberType

-----------------------------------------------------------------------------
(* What a handler does with one member.                                    *)

\* A member that is no firmware component sets its own series, or none.
Shows(m, value) == state' = value /\ series' = WithSeries(Key(m), value) /\ fw' = fw
Hides == series' = series /\ fw' = fw /\ state' \in {state, "BAD"}

\* The reason a series of this member may be OK.
Reason(m) ==
  \/ "OK" \in {m.health, m.ohealth}
  \/ m.kind \in {"supply", "dimm"} /\ m.state = "Enabled" /\ m.health = ""

LEMMA FromHealthFacts ==
  ASSUME NEW m
  PROVE  /\ FromHealth(m) \in {"OK", "BAD"}
         /\ FromHealth(m) = "OK" <=> m.health = "OK"
BY DEF FromHealth

\* A member that is not in the list that is read is shadowed by one that is.
LEMMA ShadowedOrPreferred ==
  ASSUME TypeOK, Member, NEW forms \in {<<"member", "self">>, BatteryForms},
         IF Members[member].kind = "controller" THEN forms = <<"member", "self">>
         ELSE /\ Members[member].kind \in {"battery", "selftest"}
              /\ forms = BatteryForms,
         ~Shadowed(<<body, member>>)
  PROVE  Members[member].form \in Preferred(forms)
<1> DEFINE m == Members[member]
           present == {n \in DOMAIN forms : \E k \in DOMAIN Members : Members[k].form = forms[n]}
<1>1. /\ <<body, member>> \in Positions /\ At(<<body, member>>) = m /\ m \in MemberType
      /\ member \in DOMAIN Members /\ bodies[body].parsed /\ body \in DOMAIN bodies
  BY Current, PositionFacts DEF Members
<1>2. \E j \in DOMAIN forms : forms[j] = m.form
  <2>1. m.form \in Forms(m.kind)
    BY <1>1 DEF MemberType
  <2>2. CASE m.kind = "controller"
    <3>1. m.form \in {"member", "self"} /\ forms = <<"member", "self">>
      BY <2>1, <2>2 DEF Forms
    <3>2. DOMAIN forms = 1..2 /\ forms[1] = "member" /\ forms[2] = "self"
      BY <3>1
    <3> QED BY <3>1, <3>2
  <2>3. CASE m.kind # "controller"
    <3>1. m.kind \in {"battery", "selftest"} /\ forms = BatteryForms
      BY <2>3
    <3>2. Forms(m.kind) = {BatteryForms[n] : n \in DOMAIN BatteryForms}
      BY <3>1 DEF Forms
    <3>3. PICK n \in DOMAIN BatteryForms : m.form = BatteryForms[n]
      BY <2>1, <3>2
    <3> QED BY <3>1, <3>3
  <2> QED BY <2>2, <2>3
<1>2a. PICK j \in DOMAIN forms : forms[j] = m.form
  BY <1>2
<1>3. j \in present
  BY <1>1, <1>2a
<1>4. ASSUME NEW i \in present PROVE j <= i
  <2>1. PICK k \in DOMAIN Members : Members[k].form = forms[i]
    OBVIOUS
  <2>2. <<body, k>> \in Positions /\ At(<<body, k>>) = Members[k]
    BY <1>1, <2>1 DEF Positions, At, Members
  <2>3. ~(i < j)
    BY <1>1, <1>2a, <2>1, <2>2 DEF Shadowed
  <2>4. i \in Nat /\ j \in Nat
    BY <1>2a DEF BatteryForms
  <2> QED BY <2>3, <2>4
<1> QED BY <1>2a, <1>3, <1>4 DEF Preferred

Outcome(m, p) ==
  \/ Hides /\ (Alarm(p) => LeftOut(m))
  \/ \E value \in Values :
       /\ Shows(m, value)
       /\ value = "OK" => Reason(m)
       /\ Alarm(p) /\ ~LeftOut(m) => value = "BAD"

\* Every handler: what is set is a value, OK only for a reason, and BAD for a
\* member whose alarm is to be shown.
LEMMA Handled ==
  ASSUME HInv, Member, Members[member].kind # "firmware"
  PROVE  Outcome(Members[member], <<body, member>>)
<1> DEFINE m == Members[member]
           p == <<body, member>>
<1>1. m \in MemberType /\ At(p) = m /\ (m.kind = "dimm" => state = "BAD")
  BY Current DEF HInv, BeginsBad
<1>2. Alarm(p) <=> m.state = "Enabled" /\ m.health = "Critical" /\ m.ohealth # "OK" /\ ~Shadowed(p)
  BY <1>1 DEF Alarm
<1>3. FromHealth(m) \in {"OK", "BAD"} /\ (FromHealth(m) = "OK" <=> m.health = "OK")
  BY FromHealthFacts
<1>4. m.kind = "controller" /\ ~Shadowed(p) => m.form \in Preferred(<<"member", "self">>)
  BY ShadowedOrPreferred DEF HInv
<1>5. m.kind \in {"battery", "selftest"} /\ ~Shadowed(p) => m.form \in Preferred(BatteryForms)
  BY ShadowedOrPreferred DEF HInv
<1>6. \/ Voltage(m) \/ Supply(m) \/ Thermal(m) \/ Controller(m) \/ Battery(m)
      \/ Physical(m) \/ Logical(m) \/ NVMe(m) \/ MemorySummary(m) \/ DIMM(m)
      \/ Processor(m) \/ XMLDrive(m) \/ Moonshot(m)
  BY DEF Member, Firmware
<1> SUFFICES Outcome(m, p)
  OBVIOUS
<1> HIDE DEF m, p
<1> USE DEF Outcome, Set, Skip, Shows, Hides, Values, Reason, LeftOut
<1>10. CASE Voltage(m)
  BY <1>2, <1>3, <1>10 DEF Voltage
<1>11. CASE Supply(m)
  BY <1>2, <1>3, <1>11 DEF Supply
<1>12. CASE Thermal(m)
  BY <1>2, <1>3, <1>12 DEF Thermal
<1>13. CASE Controller(m)
  BY <1>2, <1>3, <1>4, <1>13 DEF Controller
<1>14. CASE Battery(m)
  BY <1>2, <1>3, <1>5, <1>14 DEF Battery
<1>15. CASE Physical(m)
  BY <1>2, <1>3, <1>15 DEF Physical
<1>16. CASE Logical(m)
  BY <1>2, <1>3, <1>16 DEF Logical
<1>17. CASE NVMe(m)
  BY <1>2, <1>3, <1>17 DEF NVMe
<1>18. CASE MemorySummary(m)
  BY <1>2, <1>3, <1>18 DEF MemorySummary
<1>19. CASE DIMM(m)
  BY <1>1, <1>2, <1>3, <1>19 DEF DIMM, MemberType, Forms
<1>20. CASE Processor(m)
  BY <1>2, <1>3, <1>20 DEF Processor
<1>21. CASE XMLDrive(m)
  BY <1>2, <1>3, <1>21 DEF XMLDrive
<1>22. CASE Moonshot(m)
  BY <1>2, <1>3, <1>22 DEF Moonshot
<1> QED BY <1>6, <1>10, <1>11, <1>12, <1>13, <1>14, <1>15, <1>16, <1>17, <1>18, <1>19, <1>20,
           <1>21, <1>22
-----------------------------------------------------------------------------
(* One member.                                                             *)

\* The bodies of a scrape do not change, nor what is said of their members.
LEMMA Steady ==
  ASSUME bodies' = bodies
  PROVE  /\ Positions' = Positions
         /\ \A p : At(p)' = At(p)
         /\ \A p : Shadowed(p)' <=> Shadowed(p)
         /\ \A p : Alarm(p)' <=> Alarm(p)
         /\ \A p : Complete(p)' <=> Complete(p)
         /\ \A c, p, q, key : ShownAs(c, p, q, key)' <=> ShownAs(c, p, q, key)
<1>1. Positions' = Positions /\ \A p : At(p)' = At(p)
  BY DEF Positions, At
<1>2. \A p : Shadowed(p)' <=> Shadowed(p)
  BY <1>1 DEF Shadowed
<1>3. \A p : Complete(p)' <=> Complete(p)
  <2>1. \A n : Alone(n)' <=> Alone(n)
    BY DEF Alone
  <2> QED BY <1>1, <2>1 DEF Complete
<1>4. ASSUME NEW c, NEW p, NEW q, NEW key
      PROVE  ShownAs(c, p, q, key)' <=> ShownAs(c, p, q, key)
  BY DEF ShownAs, At
<1> QED BY <1>1, <1>2, <1>3, <1>4 DEF Alarm

\* A component of a firmware inventory raises no alarm.
LEMMA FirmwareQuiet ==
  ASSUME TypeOK, NEW p \in Positions, At(p).kind = "firmware"
  PROVE  ~Alarm(p)
<1>1. At(p) \in MemberType
  BY PositionFacts
<1> QED BY <1>1 DEF Alarm, MemberType

\* A member that sets a series hides the alarm of another only by its own key.
LEMMA AlarmsKept ==
  ASSUME HInv, Member, NEW key, NEW value,
         series' = WithSeries(key, value),
         Members[member].kind # "firmware" => key = Key(Members[member]),
         Members[member].kind = "firmware" => key[1] = "firmware",
         Alarm(<<body, member>>) /\ ~LeftOut(Members[member]) => value = "BAD"
  PROVE  AlarmsSoFar'
<1> DEFINE m == Members[member]
           c == <<body, member>>
<1>1. /\ c \in Positions /\ At(c) = m /\ bodies' = bodies
      /\ \A p \in Positions : Passed(p)' <=> Passed(p) \/ p = c
      /\ \A p \in Positions : Passed(p) => Later(p, c)
  BY Current DEF HInv
<1>2. /\ Positions' = Positions /\ \A p : At(p)' = At(p) /\ (Alarm(p)' <=> Alarm(p))
  BY <1>1, Steady
<1>3. /\ DOMAIN series' = DOMAIN series \cup {key} /\ series'[key] = value
      /\ \A k \in DOMAIN series : k # key => series'[k] = series[k]
  BY DEF WithSeries
<1>4. SUFFICES ASSUME NEW p \in Positions, Passed(p) \/ p = c, Alarm(p)
               PROVE  \/ Key(At(p)) \in DOMAIN series' /\ series'[Key(At(p))] = "BAD"
                      \/ \E q \in Positions :
                           (Passed(q) \/ q = c) /\ Later(p, q) /\ Key(At(q)) = Key(At(p))
                      \/ LeftOut(At(p))
  BY <1>1, <1>2 DEF AlarmsSoFar, Later
<1>5. At(p).kind # "firmware" /\ At(p) \in MemberType
  BY <1>4, FirmwareQuiet, PositionFacts DEF HInv
<1>6. Key(At(p))[1] # "firmware"
  BY <1>5, KeyKind
<1>7. CASE p = c
  BY <1>1, <1>3, <1>4, <1>5, <1>7
<1>8. CASE Passed(p)
  <2>1. \/ Key(At(p)) \in DOMAIN series /\ series[Key(At(p))] = "BAD"
        \/ \E q \in Positions : Passed(q) /\ Later(p, q) /\ Key(At(q)) = Key(At(p))
        \/ LeftOut(At(p))
    BY <1>4, <1>8 DEF HInv, AlarmsSoFar
  <2>2. CASE Key(At(p)) \in DOMAIN series /\ series[Key(At(p))] = "BAD"
    <3>1. CASE Key(At(p)) # key
      BY <1>3, <2>2, <3>1
    <3>2. CASE Key(At(p)) = key
      <4>1. m.kind # "firmware"
        BY <1>6, <3>2
      <4>2. Key(At(c)) = Key(At(p)) /\ Later(p, c)
        BY <1>1, <1>8, <3>2, <4>1
      <4> QED BY <1>1, <4>2
    <3> QED BY <3>1, <3>2
  <2>3. CASE \E q \in Positions : Passed(q) /\ Later(p, q) /\ Key(At(q)) = Key(At(p))
    BY <2>3
  <2> QED BY <2>1, <2>2, <2>3
<1> QED BY <1>4, <1>7, <1>8

\* A member of any other kind than firmware.
LEMMA OtherStep ==
  ASSUME HInv, Member, Members[member].kind # "firmware"
  PROVE  HInv'
<1> DEFINE m == Members[member]
           c == <<body, member>>
<1>1. /\ c \in Positions /\ At(c) = m /\ m \in MemberType
      /\ body' = body /\ member' = member + 1 /\ bodies' = bodies
      /\ \A p \in Positions : Passed(p)' <=> Passed(p) \/ p = c
      /\ \A p \in Positions : Passed(p) => Later(p, c)
  BY Current DEF HInv
<1>2. /\ Positions' = Positions /\ \A p : At(p)' = At(p) /\ (Alarm(p)' <=> Alarm(p))
  BY <1>1, Steady
<1>2a. /\ \A p : Complete(p)' <=> Complete(p)
       /\ \A x, p, q, key : ShownAs(x, p, q, key)' <=> ShownAs(x, p, q, key)
  BY <1>1, Steady
<1>3. TypeOK /\ errs' = errs
  BY DEF HInv, Member
<1>4. Outcome(m, c)
  BY Handled
<1>5. body' \in Nat \ {0} /\ member' \in Nat \ {0} /\ bodies' \in Seq(BodyType)
      /\ errs' \subseteq DOMAIN bodies' /\ member' # 1
  BY <1>1, <1>3 DEF TypeOK
<1>6. BeginsBad'
  BY <1>5 DEF BeginsBad
<1>7. fw' = fw
  BY <1>4 DEF Outcome, Hides, Shows
<1>8. FwKnown'
  <2>1. ASSUME NEW q \in Positions, q[1] = body, q[2] < member
        PROVE  q[1] = body' /\ q[2] < member'
    <3>1. q[2] \in Nat /\ member \in Nat
      BY <1>3, PositionFacts DEF TypeOK
    <3> QED BY <1>1, <2>1, <3>1
  <2> QED BY <1>2, <1>7, <2>1 DEF HInv, FwKnown
<1>9. CASE Hides /\ (Alarm(c) => LeftOut(m))
  <2>1. series' = series /\ state' \in Values
    BY <1>3, <1>9 DEF Hides, TypeOK, Values
  <2>2. TypeOK'
    BY <1>3, <1>5, <1>7, <2>1 DEF TypeOK, Values
  <2>3. AlarmsSoFar'
    BY <1>1, <1>2, <1>9, <2>1 DEF HInv, AlarmsSoFar, Later
  <2>4. OkHasReason'
    BY <1>2, <2>1 DEF HInv, OkHasReason
  <2>5. VersionsShown'
    <3>1. ~Complete(c)
      BY <1>1 DEF Complete
    <3> QED BY <1>1, <1>2, <1>2a, <2>1, <3>1 DEF HInv, VersionsShown
  <2>6. VersionsOwned'
    BY <1>2, <1>2a, <2>1 DEF HInv, VersionsOwned
  <2> QED BY <1>6, <1>8, <2>2, <2>3, <2>4, <2>5, <2>6 DEF HInv
<1>10. ASSUME NEW value \in Values, Shows(m, value), value = "OK" => Reason(m),
              Alarm(c) /\ ~LeftOut(m) => value = "BAD"
       PROVE  HInv'
  <2>1. series' = WithSeries(Key(m), value) /\ state' = value
    BY <1>10 DEF Shows
  <2>2. /\ DOMAIN series' = DOMAIN series \cup {Key(m)} /\ series'[Key(m)] = value
        /\ \A k \in DOMAIN series : k # Key(m) => series'[k] = series[k]
    BY <2>1, WithSeriesFacts
  <2>3. Key(m)[1] # "firmware"
    BY <1>1, KeyKind
  <2>4. TypeOK'
    <3>1. series \in [DOMAIN series -> Values]
      BY <1>3 DEF TypeOK, Values
    <3>2. series' \in [DOMAIN series' -> Values]
      BY <2>1, <3>1, WithSeriesType
    <3> QED BY <1>3, <1>5, <1>7, <2>1, <3>2 DEF TypeOK, Values
  <2>5. AlarmsSoFar'
    BY <1>10, <2>1, AlarmsKept
  <2>6. OkHasReason'
    <3>1. SUFFICES ASSUME NEW key \in DOMAIN series', series'[key] = "OK", key[1] # "firmware"
                   PROVE  \E p \in Positions : Key(At(p)) = key /\ Reason(At(p))
      BY <1>2 DEF OkHasReason, Reason
    <3>2. CASE key = Key(m)
      BY <1>1, <1>10, <2>2, <3>1, <3>2
    <3>3. CASE key # Key(m)
      BY <2>2, <3>1, <3>3 DEF HInv, OkHasReason, Reason
    <3> QED BY <3>2, <3>3
  <2>7. VersionsShown'
    <3>1. ~Complete(c)
      BY <1>1 DEF Complete
    <3> QED BY <1>1, <1>2, <1>2a, <2>2, <3>1 DEF HInv, VersionsShown
  <2>8. VersionsOwned'
    <3>1. \A key \in DOMAIN series' : key[1] = "firmware" => key \in DOMAIN series
      BY <2>2, <2>3
    <3> QED BY <1>2, <1>2a, <3>1 DEF HInv, VersionsOwned
  <2> QED BY <1>6, <1>8, <2>4, <2>5, <2>6, <2>7, <2>8 DEF HInv
<1> QED BY <1>4, <1>9, <1>10 DEF Outcome

\* A component of a firmware inventory.
LEMMA FirmwareStep ==
  ASSUME HInv, Member, Members[member].kind = "firmware"
  PROVE  HInv'
<1> DEFINE m == Members[member]
           c == <<body, member>>
           new == Unmarshalled(m)
<1>1. /\ c \in Positions /\ At(c) = m /\ m \in MemberType
      /\ body' = body /\ member' = member + 1 /\ bodies' = bodies
      /\ \A p \in Positions : Passed(p)' <=> Passed(p) \/ p = c
  BY Current DEF HInv
<1>2. /\ Positions' = Positions /\ \A p : At(p)' = At(p) /\ (Complete(p)' <=> Complete(p))
      /\ \A x, p, q, key : ShownAs(x, p, q, key)' <=> ShownAs(x, p, q, key)
  BY <1>1, Steady
<1>3. TypeOK /\ errs' = errs
  BY DEF HInv, Member
<1>4. Firmware(m)
  BY DEF Member, Voltage, Supply, Thermal, Controller, Battery, Physical, Logical, NVMe,
         MemorySummary, DIMM, Processor, XMLDrive, Moonshot
<1>5. m.form \in {"component", "wrong", "self"} /\ m.label \in Versions /\ m.version \in Versions
  <2>1. m.form \in Forms(m.kind) /\ m.label \in STRING /\ m.version \in Versions
    BY <1>1 DEF MemberType
  <2> QED BY <2>1 DEF Forms, Versions
<1>6. /\ new.label = IF m.label = "" THEN fw.label ELSE m.label
      /\ new.version = IF m.version = "" THEN fw.version ELSE m.version
      /\ new = [label |-> new.label, version |-> new.version]
  BY DEF Unmarshalled
<1>7. /\ fw.label \in Versions /\ fw.version \in Versions
      /\ new \in [label : Versions, version : Versions]
  <2>1. fw \in [label : Versions, version : Versions]
    BY <1>3 DEF TypeOK
  <2> QED BY <1>5, <1>6, <2>1
<1>8. /\ fw' = IF m.form = "self" THEN fw ELSE new
      /\ state' = state
      /\ m.form = "component" => series' = WithSeries(FirmwareKey(new), "OK")
      /\ m.form = "self" /\ Alone(body) => series' = WithSeries(Key(m), "OK")
      /\ m.form # "component" /\ ~(m.form = "self" /\ Alone(body)) => series' = series
  BY <1>4 DEF Firmware
<1>9. /\ Key(m) = <<"firmware", m.version, m.label>>
      /\ FirmwareKey(new) = <<"firmware", new.version, new.label>>
  BY <1>1, KeyKind DEF FirmwareKey
<1> HIDE DEF new
\* The name and the version in the variable are the member's or of one before it.
<1>10. \E p \in Positions : /\ p[1] = body /\ p[2] <= member /\ At(p).label = new.label
                            /\ m.label # "" => p = c
  <2>1. c[1] = body /\ c[2] <= member
    BY <1>3 DEF TypeOK
  <2>2. CASE new.label = m.label
    BY <1>1, <2>1, <2>2
  <2>3. CASE new.label # m.label
    <3>1. m.label = "" /\ new.label = fw.label /\ fw.label # ""
      BY <1>6, <2>3
    <3>2. PICK p \in Positions : p[1] = body /\ p[2] < member /\ At(p).label = fw.label
      BY <3>1 DEF HInv, FwKnown
    <3>3. p[2] \in Nat /\ member \in Nat
      BY <1>3, PositionFacts DEF TypeOK
    <3>4. p[2] <= member
      BY <3>2, <3>3
    <3>5. At(p).label = new.label /\ p[1] = body
      BY <3>1, <3>2
    <3> HIDE DEF m, c
    <3> QED BY <3>1, <3>4, <3>5
  <2> QED BY <2>2, <2>3
<1>11. \E p \in Positions : /\ p[1] = body /\ p[2] <= member /\ At(p).version = new.version
                            /\ m.version # "" => p = c
  <2>1. c[1] = body /\ c[2] <= member
    BY <1>3 DEF TypeOK
  <2>2. CASE new.version = m.version
    BY <1>1, <2>1, <2>2
  <2>3. CASE new.version # m.version
    <3>1. m.version = "" /\ new.version = fw.version /\ fw.version # ""
      BY <1>6, <2>3
    <3>2. PICK p \in Positions : p[1] = body /\ p[2] < member /\ At(p).version = fw.version
      BY <3>1 DEF HInv, FwKnown
    <3>3. p[2] \in Nat /\ member \in Nat
      BY <1>3, PositionFacts DEF TypeOK
    <3>4. p[2] <= member
      BY <3>2, <3>3
    <3>5. At(p).version = new.version /\ p[1] = body
      BY <3>1, <3>2
    <3> HIDE DEF m, c
    <3> QED BY <3>1, <3>4, <3>5
  <2> QED BY <2>2, <2>3
<1>12. \/ series' = series
       \/ \E key : series' = WithSeries(key, "OK") /\ key[1] = "firmware"
  BY <1>5, <1>8, <1>9
<1>13. TypeOK'
  <2>1. body' \in Nat \ {0} /\ bodies' \in Seq(BodyType) /\ errs' \subseteq DOMAIN bodies'
    BY <1>1, <1>3 DEF TypeOK
  <2>2. member' \in Nat \ {0}
    BY <1>1, <1>3 DEF TypeOK
  <2>3. state' \in Values
    BY <1>3, <1>8 DEF TypeOK, Values
  <2>4. fw' \in [label : Versions, version : Versions]
    BY <1>3, <1>7, <1>8 DEF TypeOK
  <2>5. series \in [DOMAIN series -> Values]
    BY <1>3 DEF TypeOK, Values
  <2>6. series' \in [DOMAIN series' -> Values]
    BY <1>12, <2>5, WithSeriesType DEF Values
  <2> QED BY <2>1, <2>2, <2>3, <2>4, <2>6 DEF TypeOK, Values
<1>14. BeginsBad'
  BY <1>1, <1>3 DEF BeginsBad, TypeOK
<1>15. ~Alarm(c)
  BY <1>1, <1>3, FirmwareQuiet
<1>16. AlarmsSoFar'
  <2>1. CASE series' = series
    <3>1. \A p \in Positions : Passed(p) => Passed(p)'
      BY <1>1
    <3>2. \A p : Alarm(p)' <=> Alarm(p)
      BY <1>1, Steady
    <3> QED BY <1>1, <1>2, <1>15, <2>1, <3>1, <3>2 DEF HInv, AlarmsSoFar, Later
  <2>2. CASE \E key : series' = WithSeries(key, "OK") /\ key[1] = "firmware"
    BY <1>15, <2>2, AlarmsKept
  <2> QED BY <1>12, <2>1, <2>2
<1>17. OkHasReason'
  <2>1. \A k \in DOMAIN series' : k[1] # "firmware" => k \in DOMAIN series /\ series'[k] = series[k]
    BY <1>12 DEF WithSeries
  <2> QED BY <1>2, <2>1 DEF HInv, OkHasReason
<1>18. VersionsShown'
  <2>1. DOMAIN series \subseteq DOMAIN series'
    BY <1>12 DEF WithSeries
  <2>2. ASSUME Complete(c) PROVE Key(m) \in DOMAIN series'
    <3>1. m.label # "" /\ m.version # "" /\ (m.form = "component" \/ (m.form = "self" /\ Alone(body)))
      BY <1>1, <2>2 DEF Complete
    <3>2. Key(m) = FirmwareKey(new)
      BY <1>6, <1>9, <3>1
    <3>3. series' = WithSeries(Key(m), "OK")
      BY <1>8, <3>1, <3>2
    <3> QED BY <3>3, WithSeriesFacts
  <2>3. Key(At(c)) = Key(m)
    BY <1>1
  <2> QED BY <1>1, <1>2, <2>1, <2>2, <2>3 DEF HInv, VersionsShown
<1>19. FwKnown'
  <2>1. \A p \in Positions : p[2] <= member => p[2] < member'
    <3>1. member \in Nat /\ \A p \in Positions : p[2] \in Nat
      BY <1>3, PositionFacts DEF TypeOK
    <3> QED BY <1>1, <3>1
  <2>2. CASE m.form = "self"
    <3>1. member \in Nat /\ \A p \in Positions : p[2] \in Nat
      BY <1>3, PositionFacts DEF TypeOK
    <3>2. \A p \in Positions : p[2] < member => p[2] < member'
      BY <1>1, <3>1
    <3>3. fw' = fw
      BY <1>8, <2>2
    <3> QED BY <1>1, <1>2, <3>2, <3>3 DEF HInv, FwKnown
  <2>3. CASE m.form # "self"
    <3>1. fw' = new
      BY <1>8, <2>3
    <3> QED BY <1>1, <1>2, <1>10, <1>11, <2>1, <3>1 DEF FwKnown
  <2> QED BY <2>2, <2>3
<1>20. VersionsOwned'
  <2>1. SUFFICES ASSUME NEW k \in DOMAIN series', k[1] = "firmware"
                 PROVE  \E x, p, q \in Positions : ShownAs(x, p, q, k)
    BY <1>2 DEF VersionsOwned
  <2>2. CASE k \in DOMAIN series
    BY <2>1, <2>2 DEF HInv, VersionsOwned
  <2>3. CASE k \notin DOMAIN series
    <3>1. CASE m.form = "component"
      <4> DEFINE shown == FirmwareKey(new)
      <4>0. series' = WithSeries(shown, "OK") /\ shown = <<"firmware", new.version, new.label>>
        BY <1>8, <1>9, <3>1
      <4> HIDE DEF shown
      <4>1. k = shown
        BY <2>1, <2>3, <4>0 DEF WithSeries
      <4>2. PICK p \in Positions : /\ p[1] = body /\ p[2] <= member /\ At(p).label = new.label
                                   /\ m.label # "" => p = c
        BY <1>10
      <4>3. PICK q \in Positions : /\ q[1] = body /\ q[2] <= member /\ At(q).version = new.version
                                   /\ m.version # "" => q = c
        BY <1>11
      <4>4. k[2] = new.version /\ k[3] = new.label
        BY <4>0, <4>1
      <4>4a. c[1] = body /\ c[2] = member
        OBVIOUS
      <4>5. At(c).kind = "firmware" /\ At(c).form # "wrong"
        BY <1>1, <3>1
      <4>5a. At(c) = m
        BY <1>1
      <4> HIDE DEF m, c
      <4>5b. (At(c).label # "" => p = c) /\ (At(c).version # "" => q = c)
        BY <4>2, <4>3, <4>5a
      <4>5c. p[1] = c[1] /\ q[1] = c[1] /\ p[2] <= c[2] /\ q[2] <= c[2]
        BY <4>2, <4>3, <4>4a
      <4>5d. At(p).label = k[3] /\ At(q).version = k[2]
        BY <4>2, <4>3, <4>4
      <4>6. ShownAs(c, p, q, k)
        BY <4>5, <4>5b, <4>5c, <4>5d DEF ShownAs
      <4> QED BY <1>1, <4>6
    <3>2. CASE m.form # "component"
      <4> DEFINE shown == Key(m)
      <4>0. m.form = "self" /\ series' = WithSeries(shown, "OK")
        <5>1. CASE m.form = "self" /\ Alone(body)
          BY <1>8, <5>1
        <5>2. CASE ~(m.form = "self" /\ Alone(body))
          BY <1>8, <2>1, <2>3, <3>2, <5>2
        <5> QED BY <5>1, <5>2
      <4>0a. shown = Key(m)
        OBVIOUS
      <4> HIDE DEF shown
      <4>0b. k = shown
        BY <2>1, <2>3, <4>0 DEF WithSeries
      <4>1. m.form = "self" /\ k = Key(m)
        BY <4>0, <4>0a, <4>0b
      <4>2. k[2] = m.version /\ k[3] = m.label
        BY <1>9, <4>1
      <4>3. At(c).kind = "firmware" /\ At(c).form # "wrong" /\ c[2] <= c[2]
        BY <1>1, <1>3, <4>1 DEF TypeOK
      <4>4. ShownAs(c, c, c, k)
        BY <1>1, <4>2, <4>3 DEF ShownAs
      <4> QED BY <1>1, <4>4
    <3> QED BY <3>1, <3>2
  <2> QED BY <2>2, <2>3
<1> QED BY <1>13, <1>14, <1>16, <1>17, <1>18, <1>19, <1>20 DEF HInv

-----------------------------------------------------------------------------
(* The next body.                                                          *)

LEMMA NextBodyStep ==
  ASSUME HInv, NextBody
  PROVE  HInv'
<1>1. /\ body <= Len(bodies) /\ (bodies[body].parsed => member > Len(Members))
      /\ body' = body + 1 /\ member' = 1 /\ state' = "BAD" /\ fw' = NoFirmware
      /\ bodies' = bodies /\ series' = series
      /\ errs' = errs \cup (IF bodies[body].parsed THEN {} ELSE {body})
  BY DEF NextBody
<1>1a. body <= Len(bodies) /\ body' = body + 1 /\ member' = 1
  BY <1>1
<1>2. TypeOK
  BY DEF HInv
<1>3. /\ Positions' = Positions /\ \A p : At(p)' = At(p) /\ (Alarm(p)' <=> Alarm(p))
  BY <1>1, Steady
<1>4. ASSUME NEW p \in Positions PROVE Passed(p)' <=> Passed(p)
  <2>1. /\ p[1] \in DOMAIN bodies /\ bodies[p[1]].parsed
        /\ p[2] \in DOMAIN bodies[p[1]].members /\ p[1] \in Nat /\ p[2] \in Nat
    BY <1>2, PositionFacts
  <2>2. body \in Nat /\ member \in Nat /\ bodies \in Seq(BodyType)
    BY <1>2 DEF TypeOK
  <2>3. ASSUME p[1] = body PROVE p[2] < member
    <3>1. bodies[body].members \in Seq(MemberType)
      BY <2>1, <2>2, <2>3 DEF BodyType
    <3>2. p[2] <= Len(Members) /\ Len(Members) \in Nat
      BY <2>1, <2>3, <3>1 DEF Members
    <3>3. member > Len(Members)
      BY <1>1, <2>1, <2>3
    <3> QED BY <2>1, <2>2, <3>2, <3>3
  <2>4. p[2] >= 1
    <3>1. bodies[p[1]].members \in Seq(MemberType)
      BY <2>1, <2>2 DEF BodyType
    <3> QED BY <2>1, <3>1
  <2>5. Passed(p)' <=> p[1] < body + 1 \/ (p[1] = body + 1 /\ p[2] < 1)
    BY <1>1a DEF Passed
  <2>6. p[1] \in Nat /\ p[2] \in Nat
    BY <2>1
  <2> QED BY <2>2, <2>3, <2>4, <2>5, <2>6 DEF Passed
<1>5. TypeOK'
  <2>1. body \in DOMAIN bodies /\ body' \in Nat \ {0}
    BY <1>1a, <1>2 DEF TypeOK
  <2>2. errs' \subseteq DOMAIN bodies'
    BY <1>1, <1>2, <2>1 DEF TypeOK
  <2>3. /\ bodies' = bodies /\ series' = series /\ member' = 1 /\ state' = "BAD"
        /\ fw' \in [label : Versions, version : Versions]
    BY <1>1 DEF Versions, NoFirmware
  <2>4. member' \in Nat \ {0}
    BY <1>1a
  <2> QED BY <1>2, <2>1, <2>2, <2>3, <2>4 DEF TypeOK
<1>6. BeginsBad' /\ FwKnown'
  BY <1>1 DEF BeginsBad, FwKnown, NoFirmware
<1>7. AlarmsSoFar'
  BY <1>1, <1>3, <1>4 DEF HInv, AlarmsSoFar, Later
<1>8a. /\ \A p : Complete(p)' <=> Complete(p)
       /\ \A x, p, q, key : ShownAs(x, p, q, key)' <=> ShownAs(x, p, q, key)
  BY <1>1, Steady
<1>8. OkHasReason' /\ VersionsOwned'
  BY <1>1, <1>3, <1>8a DEF HInv, OkHasReason, VersionsOwned
<1>9. VersionsShown'
  BY <1>1, <1>3, <1>4, <1>8a DEF HInv, VersionsShown
<1> QED BY <1>5, <1>6, <1>7, <1>8, <1>9 DEF HInv

-----------------------------------------------------------------------------
(* The theorems.                                                           *)

LEMMA HandlersInit == Init => HInv
<1>1. SUFFICES ASSUME Init PROVE HInv
  OBVIOUS
<1>1a. bodies \in Seq(BodyType) /\ body = 1 /\ member = 1
  BY <1>1, ScrapesAssumption DEF Init
<1>1b. series \in Seq(Values) /\ Len(series) = 0
  <2>1. series = <<>>
    BY <1>1 DEF Init
  <2> QED BY <2>1
<1>1c. series \in [DOMAIN series -> Values] /\ DOMAIN series = {}
  BY <1>1b
<1>2. TypeOK
  <2>1. state = "BAD" /\ errs = {} /\ fw \in [label : Versions, version : Versions]
    BY <1>1 DEF Init, Versions, NoFirmware
  <2> QED BY <1>1a, <1>1c, <2>1 DEF TypeOK, Values
<1>3. ASSUME NEW p \in Positions PROVE ~Passed(p)
  <2>1. /\ p[1] \in DOMAIN bodies /\ p[2] \in DOMAIN bodies[p[1]].members
    BY <1>2, PositionFacts
  <2>2. bodies \in Seq(BodyType) /\ bodies[p[1]].members \in Seq(MemberType)
    BY <1>2, <2>1 DEF TypeOK, BodyType
  <2>3. p[1] >= 1 /\ p[2] >= 1 /\ p[1] \in Nat /\ p[2] \in Nat
    BY <2>1, <2>2
  <2> QED BY <1>1a, <2>3 DEF Passed
<1>4. DOMAIN series = {}
  BY <1>1c
<1>5. AlarmsSoFar /\ VersionsShown
  BY <1>3 DEF AlarmsSoFar, VersionsShown
<1>6. OkHasReason /\ VersionsOwned
  BY <1>4 DEF OkHasReason, VersionsOwned
<1>7. BeginsBad /\ FwKnown
  BY <1>1 DEF Init, BeginsBad, FwKnown, NoFirmware
<1> QED BY <1>2, <1>5, <1>6, <1>7 DEF HInv

LEMMA HandlersStep == HInv /\ [Next]_vars => HInv'
<1>1. SUFFICES ASSUME HInv, [Next]_vars PROVE HInv'
  OBVIOUS
<1>2. CASE Member
  BY <1>1, <1>2, OtherStep, FirmwareStep
<1>3. CASE NextBody
  BY <1>1, <1>3, NextBodyStep
<1>4. CASE UNCHANGED vars
  <2>1. /\ bodies' = bodies /\ body' = body /\ member' = member /\ state' = state
        /\ fw' = fw /\ series' = series /\ errs' = errs
    BY <1>4 DEF vars
  <2>2. /\ Positions' = Positions /\ \A p : At(p)' = At(p) /\ (Alarm(p)' <=> Alarm(p))
    BY <2>1, Steady
  <2>2a. /\ \A p : Complete(p)' <=> Complete(p)
         /\ \A x, p, q, key : ShownAs(x, p, q, key)' <=> ShownAs(x, p, q, key)
    BY <2>1, Steady
  <2>3. \A p : Passed(p)' <=> Passed(p)
    BY <2>1 DEF Passed
  <2>4. TypeOK' /\ BeginsBad' /\ FwKnown'
    BY <1>1, <2>1, <2>2 DEF HInv, TypeOK, BeginsBad, FwKnown
  <2>5. AlarmsSoFar'
    BY <1>1, <2>1, <2>2, <2>3 DEF HInv, AlarmsSoFar, Later
  <2>6. OkHasReason' /\ VersionsOwned'
    BY <1>1, <2>1, <2>2, <2>2a DEF HInv, OkHasReason, VersionsOwned
  <2>7. VersionsShown'
    BY <1>1, <2>1, <2>2, <2>2a, <2>3 DEF HInv, VersionsShown
  <2> QED BY <2>4, <2>5, <2>6, <2>7 DEF HInv
<1> QED BY <1>1, <1>2, <1>3, <1>4 DEF Next

LEMMA HandlersInvariant == Spec => []HInv
BY HandlersInit, HandlersStep, PTL DEF Spec

\* At the end of a scrape every member of a parsed body has been passed.
LEMMA AllPassed ==
  ASSUME TypeOK, Over, NEW p \in Positions
  PROVE  Passed(p)
<1>1. p[1] \in DOMAIN bodies /\ p[1] \in Nat
  BY PositionFacts
<1>2. bodies \in Seq(BodyType) /\ body \in Nat
  BY DEF TypeOK
<1> QED BY <1>1, <1>2 DEF Over, Passed

\* The handlers keep their types: the variable state, read where a DIMM has no
\* Status, is always one of the three values.  (handlers.go:82-804)
THEOREM HandlersTypeOK == Spec => []TypeOK
<1>1. HInv => TypeOK
  BY DEF HInv
<1> QED BY <1>1, HandlersInvariant, PTL

\* A series is OK only because some member with its labels reported OK, or is a
\* supply or DIMM that is enabled and reports no health.  (handlers.go:82-804)
THEOREM HandlersOkHasReason == Spec => []OkHasReason
<1>1. HInv => OkHasReason
  BY DEF HInv
<1> QED BY <1>1, HandlersInvariant, PTL

\* What is broken and says so is shown as BAD unless a later member has the very
\* same labels, for bodies and lists of any length.  (handlers.go:117-148)
THEOREM HandlersAlarmsShown == Spec => []AlarmsShown
<1>1. HInv => AlarmsShown
  <2>1. SUFFICES ASSUME HInv, Over PROVE AlarmsShown
    BY DEF AlarmsShown
  <2>2. \A p \in Positions : Passed(p)
    BY <2>1, AllPassed DEF HInv
  <2> QED BY <2>1, <2>2 DEF HInv, AlarmsSoFar, AlarmsShown, Alarm, LeftOut
<1> QED BY <1>1, HandlersInvariant, PTL

\* A component of a firmware inventory that lacks nothing is shown as it is, and
\* one that lacks its name or version takes it from a component before it in the
\* same inventory, for inventories of any length.  (firmware.go:46-66)
THEOREM HandlersFirmwareOwnVersion == Spec => []FirmwareOwnVersion
<1>1. HInv => FirmwareOwnVersion
  <2>1. SUFFICES ASSUME HInv, Over PROVE FirmwareOwnVersion
    BY DEF FirmwareOwnVersion
  <2>2. \A p \in Positions : Passed(p)
    BY <2>1, AllPassed DEF HInv
  <2> QED BY <2>2, <2>1 DEF HInv, VersionsShown, VersionsOwned, FirmwareOwnVersion
<1> QED BY <1>1, HandlersInvariant, PTL
=============================================================================
