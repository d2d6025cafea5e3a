----------------------------- MODULE TasksProofs -----------------------------
(***************************************************************************)
(* Proofs about the making of a pool, for every set of devices, requests   *)
(* and every limit.                                                        *)
(***************************************************************************)
EXTENDS Tasks, TLAPS, FiniteSetTheorems

\* Which gaps an exporter may have before its pool is made.
Tolerable == {"dimm", "processor", "inventory"}

\* A full scrape has no gap so far, and comes first.
GapsSoFar ==
  /\ Full => gaps = {}
  /\ gaps \subseteq Tolerable
  /\ made["full"].gaps = {}
  /\ made["partial"].gaps \subseteq Tolerable

TInv == TypeOK /\ GapsSoFar

-----------------------------------------------------------------------------

\* A number of tasks for one source.
LEMMA TimesType ==
  ASSUME NEW n \in Nat, NEW source \in Sources
  PROVE  Times(n, source) \in Seq(Sources)
BY DEF Times

LEMMA ConcatType ==
  ASSUME NEW s \in Seq(Sources), NEW t \in Seq(Sources)
  PROVE  s \o t \in Seq(Sources)
OBVIOUS

\* What the lists of a device are.
LEMMA DeviceFacts ==
  ASSUME TypeOK
  PROVE  /\ dev.managers \in Seq({"CIMC", "plain"})
         /\ dev.dimm \in Nat /\ dev.processor \in Nat /\ dev.controllers \in Nat
         /\ dev.volumes \in Nat /\ dev.drives \in Nat /\ dev.power \in Nat
         /\ dev.thermal \in Nat /\ dev.inventory \in Nat
         /\ dev.smart \in DriveLists /\ dev.storage \in DriveLists
BY DevicesAssumption DEF TypeOK, DeviceType

-----------------------------------------------------------------------------
(* Counting.                                                               *)

\* Where a list of tasks asks for x.
At(s, x) == {n \in DOMAIN s : s[n] = x}

\* Count is the size of that set, a number.
LEMMA AtFinite ==
  ASSUME NEW s \in Seq(Sources), NEW x
  PROVE  IsFiniteSet(At(s, x)) /\ Count(s, x) \in Nat /\ Count(s, x) = Cardinality(At(s, x))
<1>1. IsFiniteSet(1..Len(s)) /\ At(s, x) \in SUBSET (1..Len(s))
  BY FS_Interval DEF At
<1>2. IsFiniteSet(At(s, x)) /\ Cardinality(At(s, x)) \in Nat
  BY <1>1, FS_Subset, FS_CardinalityType
<1> QED BY <1>2 DEF Count, At

\* The counts of two lists add up.
LEMMA CountConcat ==
  ASSUME NEW s \in Seq(Sources), NEW t \in Seq(Sources), NEW x
  PROVE  Count(s \o t, x) = Count(s, x) + Count(t, x)
<1> DEFINE moved == {Len(s) + n : n \in At(t, x)}
           shift == [n \in At(t, x) |-> Len(s) + n]
<1>1. At(s \o t, x) = At(s, x) \cup moved
  <2>1. DOMAIN (s \o t) = 1..(Len(s) + Len(t)) /\ DOMAIN s = 1..Len(s) /\ DOMAIN t = 1..Len(t)
    OBVIOUS
  <2>2. ASSUME NEW n \in At(s \o t, x) PROVE n \in At(s, x) \cup moved
    <3>1. n \in 1..(Len(s) + Len(t)) /\ (s \o t)[n] = x
      BY <2>1, <2>2 DEF At
    <3>2. CASE n <= Len(s)
      <4>1. n \in DOMAIN s /\ s[n] = x
        BY <3>1, <3>2
      <4> QED BY <4>1 DEF At
    <3>3. CASE n > Len(s)
      <4>1. n - Len(s) \in DOMAIN t /\ t[n - Len(s)] = x /\ n = Len(s) + (n - Len(s))
        BY <3>1, <3>3
      <4> QED BY <4>1 DEF At
    <3> QED BY <3>1, <3>2, <3>3
  <2>3. ASSUME NEW n \in At(s, x) PROVE n \in At(s \o t, x)
    <3>1. n \in DOMAIN s /\ s[n] = x
      BY <2>3 DEF At
    <3>2. n \in DOMAIN (s \o t) /\ (s \o t)[n] = s[n]
      BY <3>1
    <3> QED BY <3>1, <3>2 DEF At
  <2>4. ASSUME NEW n \in At(t, x) PROVE Len(s) + n \in At(s \o t, x)
    <3>1. n \in DOMAIN t /\ t[n] = x
      BY <2>4 DEF At
    <3>2. Len(s) + n \in DOMAIN (s \o t) /\ (s \o t)[Len(s) + n] = t[n]
      BY <3>1
    <3> QED BY <3>1, <3>2 DEF At
  <2> QED BY <2>2, <2>3, <2>4
<1>2. At(s, x) \cap moved = {}
  BY DEF At
<1>3. IsFiniteSet(moved) /\ Cardinality(moved) = Cardinality(At(t, x))
  <2>1. shift \in Bijection(At(t, x), moved)
    <3>1. \A n \in At(t, x) : n \in Nat
      BY DEF At
    <3>2. shift \in [At(t, x) -> moved]
      OBVIOUS
    <3>3. \A m, n \in At(t, x) : shift[m] = shift[n] => m = n
      BY <3>1
    <3>4. \A m \in moved : \E n \in At(t, x) : shift[n] = m
      OBVIOUS
    <3> DEFINE S == At(t, x)
               M == moved
    <3>5. shift \in [S -> M] /\ DOMAIN shift = S
      BY <3>2
    <3>6. \A n, m \in S : shift[n] = shift[m] => n = m
      BY <3>3
    <3>7. \A m \in M : \E n \in S : shift[n] = m
      BY <3>4
    <3> HIDE DEF S, M, shift
    <3>8. shift \in Bijection(S, M)
      BY <3>5, <3>6, <3>7 DEF Bijection, Injection, Surjection, IsInjective
    <3> QED BY <3>8 DEF S, M
  <2>2. ExistsBijection(At(t, x), moved)
    BY <2>1 DEF ExistsBijection
  <2> HIDE DEF moved
  <2> QED BY <2>2, AtFinite, FS_Bijection
<1> HIDE DEF moved
<1>4. Cardinality(At(s, x) \cup moved) = Cardinality(At(s, x)) + Cardinality(moved)
  <2>1. IsFiniteSet(At(s, x)) /\ Cardinality(At(s, x)) \in Nat
    BY AtFinite
  <2>2. Cardinality(moved) \in Nat
    BY <1>3, AtFinite
  <2> DEFINE A == At(s, x)
  <2>3. /\ IsFiniteSet(A) /\ IsFiniteSet(moved) /\ A \cap moved = {}
        /\ Cardinality(A) \in Nat
    BY <1>2, <1>3, <2>1, AtFinite
  <2> HIDE DEF A
  <2>4. Cardinality(A \cup moved) = Cardinality(A) + Cardinality(moved) - Cardinality(A \cap moved)
    BY <2>3, FS_Union
  <2>5. Cardinality(A \cap moved) = 0
    BY <2>3, FS_EmptySet
  <2>6. Cardinality(A \cup moved) = Cardinality(A) + Cardinality(moved)
    BY <2>2, <2>3, <2>4, <2>5
  <2> QED BY <2>6 DEF A
<1>5. s \o t \in Seq(Sources)
  BY ConcatType
<1> QED BY <1>1, <1>3, <1>4, <1>5, AtFinite

\* No tasks, none of x.
LEMMA CountEmpty == \A x : Count(<<>>, x) = 0
<1> SUFFICES ASSUME NEW x PROVE Count(<<>>, x) = 0
  OBVIOUS
<1>1. {n \in DOMAIN <<>> : <<>>[n] = x} = {}
  OBVIOUS
<1> QED BY <1>1, FS_EmptySet DEF Count

\* A number of tasks of one source.
LEMMA CountTimes ==
  ASSUME NEW k \in Nat, NEW source \in Sources, NEW x
  PROVE  Count(Times(k, source), x) = IF x = source THEN k ELSE 0
<1>1. DOMAIN Times(k, source) = 1..k /\ \A n \in 1..k : Times(k, source)[n] = source
  BY DEF Times
<1>2. At(Times(k, source), x) = IF x = source THEN 1..k ELSE {}
  BY <1>1 DEF At
<1>3. Cardinality(1..k) = k
  BY FS_Interval
<1> QED BY <1>2, <1>3, FS_EmptySet DEF Count, At

\* Some tasks of one source follow others.
LEMMA CountMore ==
  ASSUME NEW s \in Seq(Sources), NEW k \in Nat, NEW source \in Sources, NEW x
  PROVE  /\ s \o Times(k, source) \in Seq(Sources)
         /\ x = source => Count(s \o Times(k, source), x) = Count(s, x) + k
         /\ x # source => Count(s \o Times(k, source), x) = Count(s, x)
<1>1. Times(k, source) \in Seq(Sources)
  BY TimesType
<1>2. Count(s \o Times(k, source), x) = Count(s, x) + Count(Times(k, source), x)
  BY <1>1, CountConcat
<1>3. Count(Times(k, source), x) = IF x = source THEN k ELSE 0
  BY CountTimes
<1>4. Count(s, x) \in Nat
  BY AtFinite
<1>5. s \o Times(k, source) \in Seq(Sources)
  BY <1>1, ConcatType
<1> QED BY <1>2, <1>3, <1>4, <1>5

\* A single task.
LEMMA CountOne ==
  ASSUME NEW source \in Sources, NEW x
  PROVE  Count(<<source>>, x) = IF x = source THEN 1 ELSE 0
<1>1. <<source>> = Times(1, source)
  BY DEF Times
<1> QED BY <1>1, CountTimes

\* A number of tasks of one source, as in CountTimes, and their type.
LEMMA TimesFacts ==
  ASSUME NEW k \in Nat, NEW source \in Sources, NEW x
  PROVE  /\ Times(k, source) \in Seq(Sources)
         /\ Count(Times(k, source), x) = IF x = source THEN k ELSE 0
BY TimesType, CountTimes

\* How often a full exporter's last tasks ask for a source.
LEMMA RestCounts ==
  ASSUME TInv, NEW x \in Sources
  PROVE  /\ Rest \in Seq(Sources)
         /\ Count(Rest, x) =
              CASE x = "arrayController" -> found.array
                [] x = "logicalDrive" -> found.logical
                [] x = "physicalDrive" -> found.physical
                [] x = "drive" -> dev.drives
                [] x = "storageController" -> dev.controllers
                [] x = "virtualDrive" -> virtual
                [] x = "power" -> dev.power
                [] x = "thermal" -> dev.thermal
                [] x = "dimm" -> IF dev.memory /\ "dimm" \notin gaps THEN dev.dimm ELSE 0
                [] x = "manager" -> 1
                [] x = "processor" -> IF "processor" \in gaps THEN 0 ELSE dev.processor
                [] OTHER -> 0
<1>1. found.array \in Nat /\ found.logical \in Nat /\ found.physical \in Nat /\ virtual \in Nat
  BY DEF TInv, TypeOK, DriveLists
<1>2. /\ dev.drives \in Nat /\ dev.controllers \in Nat /\ dev.power \in Nat
      /\ dev.thermal \in Nat /\ dev.dimm \in Nat /\ dev.processor \in Nat
  BY DeviceFacts DEF TInv
<1>3. /\ "arrayController" \in Sources /\ "logicalDrive" \in Sources
      /\ "physicalDrive" \in Sources /\ "drive" \in Sources
      /\ "storageController" \in Sources /\ "virtualDrive" \in Sources
      /\ "power" \in Sources /\ "thermal" \in Sources /\ "dimm" \in Sources
      /\ "manager" \in Sources /\ "processor" \in Sources
  BY DEF Sources
<1> DEFINE dimms == IF dev.memory /\ "dimm" \notin gaps THEN dev.dimm ELSE 0
           cpus == IF "processor" \in gaps THEN 0 ELSE dev.processor
           d1 == Times(found.array, "arrayController")
           d2 == Times(found.logical, "logicalDrive")
           d3 == Times(found.physical, "physicalDrive")
           d4 == Times(dev.drives, "drive")
           d5 == Times(dev.controllers, "storageController")
           d6 == Times(virtual, "virtualDrive")
           d7 == Times(dev.power, "power")
           d8 == Times(dev.thermal, "thermal")
           d9 == Times(dimms, "dimm")
           d10 == <<"manager">>
           d11 == Times(cpus, "processor")
           r2 == d1 \o d2
           r3 == r2 \o d3
           r4 == r3 \o d4
           r5 == r4 \o d5
           r6 == r5 \o d6
           r7 == r6 \o d7
           r8 == r7 \o d8
           r9 == r8 \o d9
           r10 == r9 \o d10
           r11 == r10 \o d11
<1>4. d1 \in Seq(Sources) /\ Count(d1, x) = IF x = "arrayController" THEN found.array ELSE 0
  BY <1>1, <1>2, <1>3, TimesFacts
<1>5. d2 \in Seq(Sources) /\ Count(d2, x) = IF x = "logicalDrive" THEN found.logical ELSE 0
  BY <1>1, <1>2, <1>3, TimesFacts
<1>6. d3 \in Seq(Sources) /\ Count(d3, x) = IF x = "physicalDrive" THEN found.physical ELSE 0
  BY <1>1, <1>2, <1>3, TimesFacts
<1>7. d4 \in Seq(Sources) /\ Count(d4, x) = IF x = "drive" THEN dev.drives ELSE 0
  BY <1>1, <1>2, <1>3, TimesFacts
<1>8. d5 \in Seq(Sources) /\ Count(d5, x) = IF x = "storageController" THEN dev.controllers ELSE 0
  BY <1>1, <1>2, <1>3, TimesFacts
<1>9. d6 \in Seq(Sources) /\ Count(d6, x) = IF x = "virtualDrive" THEN virtual ELSE 0
  BY <1>1, <1>2, <1>3, TimesFacts
<1>10. d7 \in Seq(Sources) /\ Count(d7, x) = IF x = "power" THEN dev.power ELSE 0
  BY <1>1, <1>2, <1>3, TimesFacts
<1>11. d8 \in Seq(Sources) /\ Count(d8, x) = IF x = "thermal" THEN dev.thermal ELSE 0
  BY <1>1, <1>2, <1>3, TimesFacts
<1>12. d9 \in Seq(Sources) /\ Count(d9, x) = IF x = "dimm" THEN dimms ELSE 0
  <2>1. dimms \in Nat
    BY <1>2
  <2> HIDE DEF dimms
  <2> QED BY <2>1, <1>3, TimesFacts
<1>13. d10 \in Seq(Sources) /\ Count(d10, x) = IF x = "manager" THEN 1 ELSE 0
  BY <1>3, CountOne
<1>14. d11 \in Seq(Sources) /\ Count(d11, x) = IF x = "processor" THEN cpus ELSE 0
  <2>1. cpus \in Nat
    BY <1>2
  <2> HIDE DEF cpus
  <2> QED BY <2>1, <1>3, TimesFacts
<1>15. Rest = r11
  BY DEF Rest
<1> HIDE DEF dimms, cpus, d1, d2, d3, d4, d5, d6, d7, d8, d9, d10, d11
<1>16. r2 \in Seq(Sources) /\ Count(r2, x) = Count(d1, x) + Count(d2, x)
  BY <1>4, <1>5, ConcatType, CountConcat
<1> HIDE DEF r2
<1>17. r3 \in Seq(Sources) /\ Count(r3, x) = Count(r2, x) + Count(d3, x)
  BY <1>16, <1>6, ConcatType, CountConcat
<1> HIDE DEF r3
<1>18. r4 \in Seq(Sources) /\ Count(r4, x) = Count(r3, x) + Count(d4, x)
  BY <1>17, <1>7, ConcatType, CountConcat
<1> HIDE DEF r4
<1>19. r5 \in Seq(Sources) /\ Count(r5, x) = Count(r4, x) + Count(d5, x)
  BY <1>18, <1>8, ConcatType, CountConcat
<1> HIDE DEF r5
<1>20. r6 \in Seq(Sources) /\ Count(r6, x) = Count(r5, x) + Count(d6, x)
  BY <1>19, <1>9, ConcatType, CountConcat
<1> HIDE DEF r6
<1>21. r7 \in Seq(Sources) /\ Count(r7, x) = Count(r6, x) + Count(d7, x)
  BY <1>20, <1>10, ConcatType, CountConcat
<1> HIDE DEF r7
<1>22. r8 \in Seq(Sources) /\ Count(r8, x) = Count(r7, x) + Count(d8, x)
  BY <1>21, <1>11, ConcatType, CountConcat
<1> HIDE DEF r8
<1>23. r9 \in Seq(Sources) /\ Count(r9, x) = Count(r8, x) + Count(d9, x)
  BY <1>22, <1>12, ConcatType, CountConcat
<1> HIDE DEF r9
<1>24. r10 \in Seq(Sources) /\ Count(r10, x) = Count(r9, x) + Count(d10, x)
  BY <1>23, <1>13, ConcatType, CountConcat
<1> HIDE DEF r10
<1>25. r11 \in Seq(Sources) /\ Count(r11, x) = Count(r10, x) + Count(d11, x)
  BY <1>24, <1>14, ConcatType, CountConcat
<1>30. /\ r11 \in Seq(Sources)
       /\ Count(r11, x) = Count(d1, x) + Count(d2, x) + Count(d3, x) + Count(d4, x) + Count(d5, x)
                          + Count(d6, x) + Count(d7, x) + Count(d8, x) + Count(d9, x)
                          + Count(d10, x) + Count(d11, x)
  BY <1>16, <1>17, <1>18, <1>19, <1>20, <1>21, <1>22, <1>23, <1>24, <1>25
<1>31. Count(Rest, x) = Count(r11, x) /\ Rest \in Seq(Sources)
  BY <1>15, <1>30
<1>32. /\ dimms \in Nat /\ dimms = IF dev.memory /\ "dimm" \notin gaps THEN dev.dimm ELSE 0
       /\ cpus \in Nat /\ cpus = IF "processor" \in gaps THEN 0 ELSE dev.processor
  BY <1>2 DEF dimms, cpus
<1> HIDE DEF Rest
<1>40. Count(r11, x) = (IF x = "arrayController" THEN found.array ELSE 0)
          + (IF x = "logicalDrive" THEN found.logical ELSE 0)
          + (IF x = "physicalDrive" THEN found.physical ELSE 0)
          + (IF x = "drive" THEN dev.drives ELSE 0)
          + (IF x = "storageController" THEN dev.controllers ELSE 0)
          + (IF x = "virtualDrive" THEN virtual ELSE 0)
          + (IF x = "power" THEN dev.power ELSE 0)
          + (IF x = "thermal" THEN dev.thermal ELSE 0)
          + (IF x = "dimm" THEN dimms ELSE 0)
          + (IF x = "manager" THEN 1 ELSE 0)
          + (IF x = "processor" THEN cpus ELSE 0)
  BY <1>30, <1>4, <1>5, <1>6, <1>7, <1>8, <1>9, <1>10, <1>11, <1>12, <1>13, <1>14
<1> QED BY <1>1, <1>2, <1>31, <1>32, <1>40 DEF Sources

-----------------------------------------------------------------------------
(* Types and gaps.                                                         *)

LEMMA TInvInit == Init => TInv
<1> SUFFICES ASSUME Init PROVE TInv
  OBVIOUS
<1>1. <<>> \in Seq(Sources)
  OBVIOUS
<1>2. NoDrives \in DriveLists
  BY DEF NoDrives, DriveLists
<1>3. Components # {}
  BY DEF Components
<1>4. TypeOK
  BY <1>1, <1>2, <1>3 DEF Init, TypeOK, NotMade
<1>5. GapsSoFar
  BY DEF Init, GapsSoFar, NotMade, Full
<1> QED BY <1>4, <1>5 DEF TInv

-----------------------------------------------------------------------------
(* One lemma for each group of stages.                                     *)

\* The stages before the first tasks.
LEMMA EarlyStages ==
  ASSUME TInv, GetManagers \/ GetEndpoints \/ GetVolumes
  PROVE  TInv'
<1> USE DEF Keep, Goto, StageFails
<1>1. CASE GetManagers
  <2>1. ManagerOf(dev.managers) \in {"", "CIMC", "plain"}
    <3>1. dev.managers \in Seq({"CIMC", "plain"})
      BY DeviceFacts DEF TInv
    <3>2. Len(dev.managers) = 1 => dev.managers[1] \in {"CIMC", "plain"}
      BY <3>1
    <3> QED BY <3>2 DEF ManagerOf
  <2>2. manager' \in {"", "CIMC", "plain"}
    BY <1>1, <2>1 DEF GetManagers, TInv, TypeOK
  <2>3. TypeOK'
    BY <1>1, <2>2 DEF GetManagers, TInv, TypeOK
  <2>4. GapsSoFar'
    BY <1>1 DEF GetManagers, TInv, GapsSoFar, Full
  <2> QED BY <2>3, <2>4 DEF TInv
<1>2. CASE GetEndpoints
  BY <1>2 DEF GetEndpoints, TInv, TypeOK, GapsSoFar, Full
<1>3. CASE GetVolumes
  <2>1. virtual' \in Nat
    <3>1. dev.volumes \in Nat /\ virtual \in Nat
      BY DeviceFacts DEF TInv, TypeOK
    <3>2. virtual' \in {virtual, dev.volumes, 0}
      BY <1>3 DEF GetVolumes
    <3> QED BY <3>1, <3>2
  <2>2. TypeOK'
    BY <1>3, <2>1 DEF GetVolumes, TInv, TypeOK
  <2>3. GapsSoFar'
    BY <1>3 DEF GetVolumes, TInv, GapsSoFar, Full
  <2> QED BY <2>2, <2>3 DEF TInv
<1> QED BY <1>1, <1>2, <1>3

\* The system.
LEMMA SystemStage ==
  ASSUME TInv, GetSystem
  PROVE  TInv'
<1> USE DEF Keep, Goto, StageFails
<1>1. tasks' \in Seq(Sources)
  <2>1. tasks \in Seq(Sources)
    BY DEF TInv, TypeOK
  <2>2. CASE tasks' = tasks
    BY <2>1, <2>2
  <2>3. CASE tasks' # tasks
    <3> DEFINE own == Times(IF sys' /\ Wants({"system"}) THEN 1 ELSE 0, "system")
               power == Times(IF Wants({"power"}) THEN dev.power ELSE 0, "power")
               thermal == Times(IF Wants({"thermal"}) THEN dev.thermal ELSE 0, "thermal")
    <3>1. own \in Seq(Sources)
      BY TimesType DEF Sources
    <3>2. power \in Seq(Sources) /\ thermal \in Seq(Sources)
      BY TimesType, DeviceFacts DEF Sources, TInv
    <3>3. power \o thermal \in Seq(Sources) /\ <<>> \in Seq(Sources)
      BY <3>2, ConcatType
    <3>4. tasks' = tasks \o own \o (IF Full THEN <<>> ELSE power \o thermal)
      BY <2>3 DEF GetSystem
    <3> HIDE DEF own, power, thermal
    <3>5. tasks \o own \in Seq(Sources)
      BY <2>1, <3>1, ConcatType
    <3> QED BY <3>3, <3>4, <3>5, ConcatType
  <2> QED BY <2>2, <2>3
<1>2. TypeOK'
  BY <1>1 DEF GetSystem, TInv, TypeOK
<1>3. GapsSoFar'
  BY DEF GetSystem, TInv, GapsSoFar, Full
<1> QED BY <1>2, <1>3 DEF TInv

\* DIMMs and processors: here a partial scrape gets its gaps.
LEMMA CollectionStages ==
  ASSUME TInv, GetDIMMs \/ GetProcessors
  PROVE  TInv'
<1> USE DEF Keep, Goto, StageFails
<1>1. CASE GetDIMMs
  <2>1. tasks' \in Seq(Sources)
    <3>1. tasks \in Seq(Sources)
      BY DEF TInv, TypeOK
    <3>2. \A n \in Nat : Times(n, "dimm") \in Seq(Sources)
      BY TimesType DEF Sources
    <3>3. \A n \in Nat : tasks \o Times(n, "dimm") \in Seq(Sources)
      BY <3>1, <3>2, ConcatType
    <3>4. dev.dimm \in Nat /\ 0 \in Nat
      BY DeviceFacts DEF TInv
    <3> QED BY <1>1, <3>1, <3>3, <3>4 DEF GetDIMMs, CollectionFails
  <2>2. TypeOK'
    BY <1>1, <2>1 DEF GetDIMMs, CollectionFails, TInv, TypeOK, Sources
  <2>3. GapsSoFar'
    BY <1>1 DEF GetDIMMs, CollectionFails, TInv, GapsSoFar, Full, Tolerable
  <2> QED BY <2>2, <2>3 DEF TInv
<1>2. CASE GetProcessors
  <2>1. tasks' \in Seq(Sources)
    <3>1. tasks \in Seq(Sources)
      BY DEF TInv, TypeOK
    <3>2. \A n \in Nat : Times(n, "processor") \in Seq(Sources)
      BY TimesType DEF Sources
    <3>3. \A n \in Nat : tasks \o Times(n, "processor") \in Seq(Sources)
      BY <3>1, <3>2, ConcatType
    <3>4. dev.processor \in Nat /\ 0 \in Nat
      BY DeviceFacts DEF TInv
    <3> QED BY <1>2, <3>1, <3>3, <3>4 DEF GetProcessors, CollectionFails
  <2>2. TypeOK'
    BY <1>2, <2>1 DEF GetProcessors, CollectionFails, TInv, TypeOK, Sources
  <2>3. GapsSoFar'
    BY <1>2 DEF GetProcessors, CollectionFails, TInv, GapsSoFar, Full, Tolerable
  <2> QED BY <2>2, <2>3 DEF TInv
<1> QED BY <1>1, <1>2

\* The drives behind the links of the system.
LEMMA StorageStages ==
  ASSUME TInv, GetSmartStorage \/ GetStorage
  PROVE  TInv'
<1> USE DEF Keep, Goto, StageFails
<1>1. NoDrives \in DriveLists
  BY DEF NoDrives, DriveLists
<1>2. CASE GetSmartStorage
  <2>1. found' \in DriveLists
    BY <1>1, <1>2, DeviceFacts DEF GetSmartStorage, TInv, TypeOK
  <2>2. TypeOK'
    BY <1>2, <2>1 DEF GetSmartStorage, TInv, TypeOK
  <2>3. GapsSoFar'
    BY <1>2 DEF GetSmartStorage, TInv, GapsSoFar, Full
  <2> QED BY <2>2, <2>3 DEF TInv
<1>3. CASE GetStorage
  <2> DEFINE lists == IF Fallback THEN dev.storage ELSE found
  <2>1. lists \in DriveLists
    BY DeviceFacts DEF TInv, TypeOK
  <2>2. lists.array \in Nat /\ lists.logical \in Nat /\ lists.physical \in Nat
    BY <2>1 DEF DriveLists
  <2>3. dev.controllers \in Nat /\ dev.drives \in Nat
    BY DeviceFacts DEF TInv
  <2> DEFINE controllers == Times(dev.controllers, "storageController")
                            \o Times(lists.array, "arrayController")
             drives == Times(lists.logical, "logicalDrive")
                       \o Times(dev.drives, "drive")
                       \o Times(lists.physical, "physicalDrive")
  <2>4. found' \in DriveLists
    BY <1>3, <2>1 DEF GetStorage, TInv, TypeOK
  <2>5. tasks' \in Seq(Sources)
    <3>1. tasks \in Seq(Sources) /\ <<>> \in Seq(Sources)
      <4>1. tasks \in Seq(Sources)
        BY DEF TInv, TypeOK
      <4>2. <<>> \in Seq(Sources)
        OBVIOUS
      <4> QED BY <4>1, <4>2
    <3>2. controllers \in Seq(Sources)
      <4>1. Times(dev.controllers, "storageController") \in Seq(Sources)
        BY <2>3, TimesType DEF Sources
      <4>2. Times(lists.array, "arrayController") \in Seq(Sources)
        BY <2>2, TimesType DEF Sources
      <4> QED BY <4>1, <4>2, ConcatType
    <3>3. drives \in Seq(Sources)
      <4>1. Times(lists.logical, "logicalDrive") \in Seq(Sources)
        BY <2>2, TimesType DEF Sources
      <4>2. Times(dev.drives, "drive") \in Seq(Sources)
        BY <2>3, TimesType DEF Sources
      <4>3. Times(lists.physical, "physicalDrive") \in Seq(Sources)
        BY <2>2, TimesType DEF Sources
      <4>4. Times(lists.logical, "logicalDrive") \o Times(dev.drives, "drive")
              \in Seq(Sources)
        BY <4>1, <4>2, ConcatType
      <4> QED BY <4>3, <4>4, ConcatType
    <3>4. \/ tasks' = tasks
          \/ tasks' = tasks \o (IF Full THEN <<>>
               ELSE (IF Wants({"storage_controller"}) THEN controllers ELSE <<>>)
                    \o (IF Wants({"drives"}) THEN drives ELSE <<>>))
      BY <1>3 DEF GetStorage
    <3> HIDE DEF controllers, drives
    <3>5. (IF Wants({"storage_controller"}) THEN controllers ELSE <<>>)
            \o (IF Wants({"drives"}) THEN drives ELSE <<>>) \in Seq(Sources)
      <4>1. (IF Wants({"storage_controller"}) THEN controllers ELSE <<>>) \in Seq(Sources)
        BY <3>1, <3>2
      <4>2. (IF Wants({"drives"}) THEN drives ELSE <<>>) \in Seq(Sources)
        BY <3>1, <3>3
      <4> QED BY <4>1, <4>2, ConcatType
    <3> QED BY <3>1, <3>4, <3>5, ConcatType
  <2>6. TypeOK'
    BY <1>3, <2>4, <2>5 DEF GetStorage, TInv, TypeOK
  <2>7. GapsSoFar'
    BY <1>3 DEF GetStorage, TInv, GapsSoFar, Full
  <2> QED BY <2>6, <2>7 DEF TInv
<1> QED BY <1>2, <1>3

\* The firmware inventory: the last gap there may be.
LEMMA FirmwareStage ==
  ASSUME TInv, GetFirmware
  PROVE  TInv'
<1> USE DEF Keep, Goto
<1> DEFINE first == IF Full THEN <<>> ELSE ManagerTask
           linked == sys /\ dev.fml
           inv == IF linked THEN <<"firmwareInventory">> ELSE Times(Inventory, "inventory")
<1>1. tasks \in Seq(Sources) /\ <<>> \in Seq(Sources)
  <2>1. tasks \in Seq(Sources)
    BY DEF TInv, TypeOK
  <2>2. <<>> \in Seq(Sources)
    OBVIOUS
  <2> QED BY <2>1, <2>2
<1>2. first \in Seq(Sources)
  <2>1. ManagerTask \in Seq(Sources)
    BY TimesType DEF ManagerTask, Sources
  <2> QED BY <1>1, <2>1
<1>3. inv \in Seq(Sources)
  <2>1. <<"firmwareInventory">> \in Seq(Sources)
    BY DEF Sources
  <2>2. Inventory \in Nat
    BY DeviceFacts DEF TInv, Inventory
  <2>3. Times(Inventory, "inventory") \in Seq(Sources)
    BY <2>2, TimesType DEF Sources
  <2> QED BY <2>1, <2>3
<1>4. \/ tasks' = tasks
      \/ tasks' = tasks \o first
      \/ tasks' = tasks \o first \o inv
  BY DEF GetFirmware
<1>5. tasks' \in Seq(Sources)
  <2> HIDE DEF first, inv
  <2>1. tasks \o first \in Seq(Sources)
    BY <1>1, <1>2, ConcatType
  <2>2. tasks \o first \o inv \in Seq(Sources)
    BY <2>1, <1>3, ConcatType
  <2> QED BY <1>1, <1>4, <2>1, <2>2
<1>6. gaps' = gaps \/ (~Full /\ gaps' = gaps \cup {"inventory"})
  BY DEF GetFirmware
<1>7. stage' \in {"assemble", "error"}
  BY DEF GetFirmware
<1>8. UNCHANGED <<dev, excludes, turn, want, sys, virtual, found, manager, made>>
  BY DEF GetFirmware
<1>9. TypeOK'
  BY <1>5, <1>6, <1>7, <1>8 DEF TInv, TypeOK, Sources
<1>10. GapsSoFar'
  BY <1>6, <1>8 DEF TInv, GapsSoFar, Full, Tolerable
<1> QED BY <1>9, <1>10 DEF TInv

\* What a full exporter adds at the end.
LEMMA RestType ==
  ASSUME TInv
  PROVE  Rest \in Seq(Sources)
BY RestCounts DEF Sources

\* The pool, and the request that follows.
LEMMA LastStages ==
  ASSUME TInv, Assemble \/ NextRequest
  PROVE  TInv'
<1> USE DEF Goto
<1>1. CASE Assemble
  <2>1. tasks' \in Seq(Sources)
    <3>1. tasks \in Seq(Sources) /\ <<>> \in Seq(Sources)
      <4>1. tasks \in Seq(Sources)
        BY DEF TInv, TypeOK
      <4>2. <<>> \in Seq(Sources)
        OBVIOUS
      <4> QED BY <4>1, <4>2
    <3>2. (IF Full THEN Rest ELSE <<>>) \in Seq(Sources)
      BY <3>1, RestType
    <3>3. tasks' = tasks \o (IF Full THEN Rest ELSE <<>>)
      BY <1>1 DEF Assemble
    <3> QED BY <3>1, <3>2, <3>3, ConcatType
  <2>2. \/ made' = made
        \/ made' = [made EXCEPT ![turn] = [pool |-> TRUE, tasks |-> tasks', gaps |-> gaps]]
    BY <1>1 DEF Assemble
  <2>3. UNCHANGED <<dev, excludes, turn, want, sys, virtual, found, manager, gaps>>
    BY <1>1 DEF Assemble
  <2>4. stage' \in {"pool", "error"}
    BY <1>1 DEF Assemble
  <2>5. made' \in [{"full", "partial"} ->
                     [pool : BOOLEAN, tasks : Seq(Sources), gaps : SUBSET Sources]]
    <3> DEFINE Made == [pool : BOOLEAN, tasks : Seq(Sources), gaps : SUBSET Sources]
               now == [pool |-> TRUE, tasks |-> tasks', gaps |-> gaps]
    <3>1. now \in Made
      BY <2>1 DEF TInv, TypeOK
    <3>2. made \in [{"full", "partial"} -> Made]
      BY DEF TInv, TypeOK
    <3>3. made' = made \/ made' = [made EXCEPT ![turn] = now]
      BY <2>2
    <3> HIDE DEF Made, now
    <3>4. made' \in [{"full", "partial"} -> Made]
      BY <3>1, <3>2, <3>3
    <3> QED BY <3>4 DEF Made
  <2>6. TypeOK'
    BY <2>1, <2>3, <2>4, <2>5 DEF TInv, TypeOK
  <2>7. /\ made'["full"].gaps = {}
        /\ made'["partial"].gaps \subseteq Tolerable
    <3>1. CASE made' = made
      BY <3>1 DEF TInv, GapsSoFar
    <3>2. CASE made' = [made EXCEPT ![turn] = [pool |-> TRUE, tasks |-> tasks', gaps |-> gaps]]
      <4>1. DOMAIN made = {"full", "partial"}
        BY DEF TInv, TypeOK
      <4>2. made'["full"] = made["full"] \/ (Full /\ made'["full"].gaps = gaps)
        BY <3>2, <4>1 DEF Full
      <4>3. made'["partial"] = made["partial"] \/ made'["partial"].gaps = gaps
        BY <3>2, <4>1
      <4> QED BY <4>2, <4>3 DEF TInv, GapsSoFar
    <3> QED BY <2>2, <3>1, <3>2
  <2>8. GapsSoFar'
    BY <2>3, <2>7 DEF TInv, GapsSoFar, Full
  <2> QED BY <2>6, <2>8 DEF TInv
<1>2. CASE NextRequest
  <2>1. NoDrives \in DriveLists /\ <<>> \in Seq(Sources)
    BY DEF NoDrives, DriveLists
  <2>2. \A words : ParseComponents(words) \subseteq Components
    BY DEF ParseComponents
  <2>3. PICK words \in Requests :
          \/ /\ turn' = "over"
             /\ UNCHANGED <<want, stage, sys, virtual, found, manager, tasks, gaps>>
          \/ /\ ParseComponents(words) # {}
             /\ turn' = "partial"
             /\ want' = ParseComponents(words)
             /\ Fresh
    BY <1>2 DEF NextRequest
  <2>4. UNCHANGED <<dev, excludes, made>>
    BY <1>2 DEF NextRequest
  <2>5. TypeOK'
    <3>1. CASE /\ turn' = "over"
               /\ UNCHANGED <<want, stage, sys, virtual, found, manager, tasks, gaps>>
      BY <2>4, <3>1 DEF TInv, TypeOK
    <3>2. CASE /\ ParseComponents(words) # {}
               /\ turn' = "partial"
               /\ want' = ParseComponents(words)
               /\ Fresh
      <4>1. want' \in (SUBSET Components) \ {{}}
        BY <2>2, <3>2
      <4> QED BY <2>1, <2>4, <3>2, <4>1 DEF Fresh, TInv, TypeOK
    <3> QED BY <2>3, <3>1, <3>2
  <2>6. GapsSoFar'
    BY <2>3, <2>4 DEF Fresh, TInv, GapsSoFar, Full
  <2> QED BY <2>5, <2>6 DEF TInv
<1> QED BY <1>1, <1>2

LEMMA TInvStep ==
  ASSUME TInv, [Next]_vars
  PROVE  TInv'
<1>1. CASE UNCHANGED vars
  BY <1>1 DEF TInv, TypeOK, GapsSoFar, Full, vars
<1>2. CASE Next
  BY <1>2, EarlyStages, SystemStage, CollectionStages, StorageStages, FirmwareStage,
     LastStages DEF Next
<1> QED BY <1>1, <1>2

-----------------------------------------------------------------------------
(* How many tasks an exporter has made for each source, stage by stage.     *)

\* The stages that come after one.
PastFirmware == {"assemble", "pool"}
PastStorage == {"firmware"} \cup PastFirmware
PastProcessors == {"smart", "storage"} \cup PastStorage
PastDIMMs == {"processor"} \cup PastProcessors
PastSystem == {"dimm"} \cup PastDIMMs
PastManagers == {"endpoints", "volumes", "system"} \cup PastSystem

Partial == turn = "partial"

\* The drives an exporter ends up with: what SmartStorage gives, and what replaces it.
Smart == IF WantsDrives /\ sys /\ dev.smart.there THEN dev.smart ELSE NoDrives
Final ==
  IF /\ WantsDrives /\ sys /\ dev.storage.there
     /\ \/ dev.controllers = 0 /\ ~dev.smart.there
        \/ dev.drives = 0 /\ Smart.physical = 0
  THEN dev.storage ELSE Smart

\* What the local variables hold once their stage is over.
Known ==
  /\ ~Partial => want = Components
  /\ turn = "over" => stage \in {"pool", "error"}
  /\ stage \in PastManagers =>
       /\ manager = IF Wants({"firmware", "system"}) THEN ManagerOf(dev.managers) ELSE ""
       /\ ~Partial => dev.managers # <<>>
  /\ stage \in PastSystem =>
       /\ sys <=> NeedSystem /\ dev.systems > 0
       /\ ~Partial => sys
  /\ stage \in {"managers", "endpoints", "volumes", "system", "dimm"} => gaps = {}
  /\ stage = "processor" => gaps \subseteq {"dimm"}
  /\ stage \in {"smart", "storage", "firmware"} => gaps \subseteq {"dimm", "processor"}
  /\ stage = "storage" => found = Smart
  /\ stage \in PastStorage => found = Final

Linked == sys /\ dev.fml

\* How many tasks of a source an exporter makes in all.
Due(source) ==
  CASE source = "system" -> IF sys /\ "system" \in want THEN 1 ELSE 0
    [] source = "power" -> IF "power" \in want THEN dev.power ELSE 0
    [] source = "thermal" -> IF "thermal" \in want THEN dev.thermal ELSE 0
    [] source = "dimm" -> IF /\ "memory" \in want /\ sys /\ dev.memory
                             /\ "dimm" \notin gaps THEN dev.dimm ELSE 0
    [] source = "processor" -> IF /\ "processor" \in want /\ sys
                                  /\ "processor" \notin gaps THEN dev.processor ELSE 0
    [] source = "storageController" -> IF "storage_controller" \in want THEN dev.controllers ELSE 0
    [] source = "arrayController" -> IF "storage_controller" \in want THEN found.array ELSE 0
    [] source = "logicalDrive" -> IF "drives" \in want THEN found.logical ELSE 0
    [] source = "drive" -> IF "drives" \in want THEN dev.drives ELSE 0
    [] source = "physicalDrive" -> IF "drives" \in want THEN found.physical ELSE 0
    [] source = "virtualDrive" -> IF Partial THEN 0 ELSE virtual
    [] source = "firmwareInventory" -> IF "firmware" \in want /\ Linked THEN 1 ELSE 0
    [] source = "inventory" -> IF /\ "firmware" \in want /\ ~Linked
                                  /\ "inventory" \notin gaps
                                  /\ dev.update /\ dev.inventory < InventoryLimit
                                  /\ ~Partial => "firmware" \in excludes
                               THEN dev.inventory ELSE 0
    [] source = "manager" -> IF ~Partial \/ ("firmware" \in want /\ manager # "") THEN 1 ELSE 0

\* The stages that come after the one in which it makes them.
After(source) ==
  IF source = "system" THEN PastSystem
  ELSE IF source \in {"firmwareInventory", "inventory"} THEN PastFirmware
  ELSE IF ~Partial \/ source = "virtualDrive" THEN {"pool"}
  ELSE CASE source \in {"power", "thermal"} -> PastSystem
         [] source = "dimm" -> PastDIMMs
         [] source = "processor" -> PastProcessors
         [] source = "manager" -> PastFirmware
         [] OTHER -> PastStorage

\* The tasks so far.
Tally == stage # "error" =>
  \A source \in Sources :
    Count(tasks, source) = IF stage \in After(source) THEN Due(source) ELSE 0

\* What a full exporter with a pool found, as the BMC has it.
SmartDrives == IF dev.smart.there THEN dev.smart ELSE NoDrives
Drives ==
  IF /\ dev.storage.there
     /\ \/ dev.controllers = 0 /\ ~dev.smart.there
        \/ dev.drives = 0 /\ SmartDrives.physical = 0
  THEN dev.storage ELSE SmartDrives

\* How many tasks of a source a full exporter has, from the BMC alone.
InFull(source) ==
  CASE source = "system" -> 1
    [] source = "power" -> dev.power
    [] source = "thermal" -> dev.thermal
    [] source = "dimm" -> IF dev.memory THEN dev.dimm ELSE 0
    [] source = "processor" -> dev.processor
    [] source = "storageController" -> dev.controllers
    [] source = "arrayController" -> Drives.array
    [] source = "logicalDrive" -> Drives.logical
    [] source = "drive" -> dev.drives
    [] source = "physicalDrive" -> Drives.physical
    [] source = "firmwareInventory" -> IF dev.fml THEN 1 ELSE 0
    [] source = "inventory" -> IF /\ ~dev.fml /\ dev.update /\ dev.inventory < InventoryLimit
                                  /\ "firmware" \in excludes
                               THEN dev.inventory ELSE 0
    [] source = "manager" -> 1

\* What is kept of the two exporters.
MadeOK ==
  /\ made["full"].pool =>
       /\ dev.managers # <<>> /\ dev.systems > 0
       /\ \A source \in Sources \ {"virtualDrive"} :
            Count(made["full"].tasks, source) = InFull(source)
  /\ made["partial"].pool =>
       /\ Partial /\ stage = "pool"
       /\ made["partial"].tasks = tasks /\ made["partial"].gaps = gaps

CInv == TInv /\ Known /\ Tally /\ MadeOK

\* The tally of one source.
LEMMA TallyOf ==
  ASSUME CInv, stage # "error", NEW x \in Sources
  PROVE  Count(tasks, x) = IF stage \in After(x) THEN Due(x) ELSE 0
BY DEF CInv, Tally

\* Until the pool is made, what is kept of earlier pools stays right.
LEMMA MadeKept ==
  ASSUME CInv, Keep, stage # "pool"
  PROVE  MadeOK'
<1>1. \A source : InFull(source)' = InFull(source)
  BY DEF Keep, InFull, Drives, SmartDrives
<1> QED BY <1>1 DEF CInv, MadeOK, Keep

\* An exporter that is being made is a full or a partial one.
LEMMA Underway ==
  ASSUME CInv, stage \notin {"pool", "error"}
  PROVE  turn \in {"full", "partial"} /\ (Full <=> ~Partial)
BY DEF CInv, TInv, TypeOK, Known, Full, Partial

\* Wants of one component.
LEMMA WantsOne == \A c : Wants({c}) <=> c \in want
BY DEF Wants

\* The stages before the first tasks.
LEMMA EarlyCounts ==
  ASSUME CInv, GetManagers \/ GetEndpoints \/ GetVolumes
  PROVE  Known' /\ Tally'
<1> USE DEF Keep, Goto, StageFails
<1>1. CASE GetManagers
  <2>1. Known'
    BY <1>1, Underway DEF GetManagers, CInv, Known, Full, Partial, Wants, PastManagers, PastSystem,
                PastDIMMs, PastProcessors, PastStorage, PastFirmware
  <2>2. Tally'
    <3> SUFFICES ASSUME stage' # "error", NEW x \in Sources
                 PROVE  Count(tasks', x) = IF stage' \in After(x)' THEN Due(x)' ELSE 0
      BY DEF Tally
    <3>1. stage = "managers" /\ stage' = "endpoints" /\ tasks' = tasks
      BY <1>1 DEF GetManagers
    <3>2. stage \notin After(x) /\ stage' \notin After(x)'
      BY <3>1 DEF After, PastSystem, PastDIMMs, PastProcessors, PastStorage, PastFirmware
    <3> QED BY <3>1, <3>2, TallyOf
  <2> QED BY <2>1, <2>2
<1>2. CASE GetEndpoints
  <2>1. Known'
    BY <1>2, Underway DEF GetEndpoints, CInv, Known, Full, Partial, Wants, PastManagers, PastSystem,
                PastDIMMs, PastProcessors, PastStorage, PastFirmware
  <2>2. Tally'
    <3> SUFFICES ASSUME stage' # "error", NEW x \in Sources
                 PROVE  Count(tasks', x) = IF stage' \in After(x)' THEN Due(x)' ELSE 0
      BY DEF Tally
    <3>1. stage = "endpoints" /\ stage' \in {"volumes", "system"} /\ tasks' = tasks
      BY <1>2 DEF GetEndpoints
    <3>2. stage \notin After(x) /\ stage' \notin After(x)'
      BY <3>1 DEF After, PastSystem, PastDIMMs, PastProcessors, PastStorage, PastFirmware
    <3> QED BY <3>1, <3>2, TallyOf
  <2> QED BY <2>1, <2>2
<1>3. CASE GetVolumes
  <2>1. Known'
    BY <1>3, Underway DEF GetVolumes, CInv, Known, Full, Partial, Wants, PastManagers, PastSystem,
                PastDIMMs, PastProcessors, PastStorage, PastFirmware
  <2>2. Tally'
    <3> SUFFICES ASSUME stage' # "error", NEW x \in Sources
                 PROVE  Count(tasks', x) = IF stage' \in After(x)' THEN Due(x)' ELSE 0
      BY DEF Tally
    <3>1. stage = "volumes" /\ stage' = "system" /\ tasks' = tasks
      BY <1>3 DEF GetVolumes
    <3>2. stage \notin After(x) /\ stage' \notin After(x)'
      BY <3>1 DEF After, PastSystem, PastDIMMs, PastProcessors, PastStorage, PastFirmware
    <3> QED BY <3>1, <3>2, TallyOf
  <2> QED BY <2>1, <2>2
<1> QED BY <1>1, <1>2, <1>3

\* The system's task, and of a partial scrape those of the chassis.
LEMMA SystemCounts ==
  ASSUME CInv, GetSystem
  PROVE  Known' /\ Tally'
<1> USE DEF Keep, Goto, StageFails
<1>1. Known'
  <2>1. CASE stage' = "error"
    BY <2>1, Underway DEF GetSystem, CInv, Known, Partial, PastManagers, PastSystem, PastDIMMs,
       PastProcessors, PastStorage, PastFirmware
  <2>2. CASE stage' # "error"
    <3>1. /\ stage = "system" /\ stage' = "dimm"
          /\ UNCHANGED <<dev, turn, want, manager, gaps>>
          /\ sys' = (NeedSystem /\ dev.systems > 0)
          /\ Full => dev.systems > 0
      BY <2>2 DEF GetSystem
    <3>2. ~Partial => NeedSystem
      BY DEF CInv, Known, NeedSystem, Wants, Components
    <3>3. NeedSystem' = NeedSystem /\ \A cs : Wants(cs)' = Wants(cs)
      BY <3>1 DEF NeedSystem, Wants
    <3> HIDE DEF Goto, Keep, StageFails
    <3> QED BY <3>1, <3>2, <3>3, Underway DEF CInv, Known, Partial, PastManagers, PastSystem,
            PastDIMMs, PastProcessors, PastStorage, PastFirmware
  <2> QED BY <2>1, <2>2
<1>2. Tally'
  <2> SUFFICES ASSUME stage' # "error", NEW x \in Sources
               PROVE  Count(tasks', x) = IF stage' \in After(x)' THEN Due(x)' ELSE 0
    BY DEF Tally
  <2> DEFINE own == Times(IF sys' /\ Wants({"system"}) THEN 1 ELSE 0, "system")
             power == Times(IF Wants({"power"}) THEN dev.power ELSE 0, "power")
             thermal == Times(IF Wants({"thermal"}) THEN dev.thermal ELSE 0, "thermal")
             more == IF Full THEN <<>> ELSE power \o thermal
  <2>1. /\ stage = "system" /\ stage' = "dimm" /\ tasks' = tasks \o own \o more
        /\ UNCHANGED <<dev, excludes, turn, want, virtual, found, manager, gaps>>
    BY DEF GetSystem
  <2>2. dev.power \in Nat /\ dev.thermal \in Nat /\ tasks \in Seq(Sources) /\ Count(tasks, x) = 0
    <3>1. stage \notin After(x)
      BY <2>1 DEF After, PastSystem, PastDIMMs, PastProcessors, PastStorage, PastFirmware
    <3> QED BY <2>1, <3>1, TallyOf, DeviceFacts DEF CInv, TInv, TypeOK
  <2>3. /\ own \in Seq(Sources) /\ power \in Seq(Sources) /\ thermal \in Seq(Sources)
        /\ Count(own, x) = IF x = "system" /\ sys' /\ "system" \in want THEN 1 ELSE 0
        /\ Count(power, x) = IF x = "power" /\ "power" \in want THEN dev.power ELSE 0
        /\ Count(thermal, x) = IF x = "thermal" /\ "thermal" \in want THEN dev.thermal ELSE 0
    <3>1. /\ "system" \in Sources /\ "power" \in Sources /\ "thermal" \in Sources
      BY DEF Sources
    <3> DEFINE a == IF sys' /\ Wants({"system"}) THEN 1 ELSE 0
               b == IF Wants({"power"}) THEN dev.power ELSE 0
               c == IF Wants({"thermal"}) THEN dev.thermal ELSE 0
    <3>2. a \in Nat /\ b \in Nat /\ c \in Nat
      BY <2>2
    <3>3. /\ a = IF sys' /\ "system" \in want THEN 1 ELSE 0
          /\ b = IF "power" \in want THEN dev.power ELSE 0
          /\ c = IF "thermal" \in want THEN dev.thermal ELSE 0
      BY WantsOne
    <3> HIDE DEF a, b, c
    <3>4. /\ Times(a, "system") \in Seq(Sources)
          /\ Times(b, "power") \in Seq(Sources)
          /\ Times(c, "thermal") \in Seq(Sources)
      BY <3>1, <3>2, TimesType
    <3>6. Count(Times(a, "system"), x) = IF x = "system" THEN a ELSE 0
      BY <3>1, <3>2, CountTimes
    <3>7. Count(Times(b, "power"), x) = IF x = "power" THEN b ELSE 0
      BY <3>1, <3>2, CountTimes
    <3>8. Count(Times(c, "thermal"), x) = IF x = "thermal" THEN c ELSE 0
      BY <3>1, <3>2, CountTimes
    <3>5. own = Times(a, "system") /\ power = Times(b, "power") /\ thermal = Times(c, "thermal")
      BY DEF a, b, c
    <3> QED BY <3>3, <3>4, <3>5, <3>6, <3>7, <3>8
  <2> HIDE DEF own, power, thermal
  <2>4. power \o thermal \in Seq(Sources) /\ <<>> \in Seq(Sources)
    BY <2>3, ConcatType
  <2>5. /\ more \in Seq(Sources)
        /\ Count(more, x) = IF Full THEN 0 ELSE Count(power, x) + Count(thermal, x)
    BY <2>3, <2>4, CountConcat, CountEmpty
  <2> HIDE DEF more
  <2>6. Count(tasks', x) = Count(tasks, x) + Count(own, x) + Count(more, x)
    <3>1. tasks \o own \in Seq(Sources) /\ Count(tasks \o own, x) = Count(tasks, x) + Count(own, x)
      BY <2>2, <2>3, ConcatType, CountConcat
    <3> QED BY <2>1, <2>5, <3>1, CountConcat
  <2>7. turn \in {"full", "partial"}
    BY <2>1 DEF CInv, TInv, TypeOK, Known
  <2> HIDE DEF Goto, Keep, StageFails
  <2>8. stage' \in After(x)' <=> x = "system" \/ (~Full /\ x \in {"power", "thermal"})
    BY <2>1, <2>7 DEF Sources, After, Full, Partial, PastSystem, PastDIMMs,
                        PastProcessors, PastStorage, PastFirmware
  <2>9. /\ x = "system" => Due(x)' = IF sys' /\ "system" \in want THEN 1 ELSE 0
        /\ x = "power" => Due(x)' = IF "power" \in want THEN dev.power ELSE 0
        /\ x = "thermal" => Due(x)' = IF "thermal" \in want THEN dev.thermal ELSE 0
    BY <2>1 DEF Due
  <2> QED BY <2>2, <2>3, <2>5, <2>6, <2>8, <2>9
<1> QED BY <1>1, <1>2

\* A partial scrape has its DIMMs and processors, or a gap.
LEMMA CollectionCounts ==
  ASSUME CInv, GetDIMMs \/ GetProcessors
  PROVE  Known' /\ Tally'
<1> USE DEF Keep, Goto, StageFails
<1> USE DEF PastManagers, PastSystem, PastDIMMs, PastProcessors, PastStorage, PastFirmware
<1>1. /\ tasks \in Seq(Sources) /\ dev.dimm \in Nat /\ dev.processor \in Nat
      /\ turn \in {"full", "partial", "over"}
  BY DeviceFacts DEF CInv, TInv, TypeOK
<1>2. CASE GetDIMMs
  <2>1. Known'
    <3>1. \/ stage' = "error"
          \/ stage = "dimm" /\ stage' = "processor" /\ gaps' \in {gaps, gaps \cup {"dimm"}}
      BY <1>2 DEF GetDIMMs, CollectionFails
    <3>2. stage = "dimm" /\ UNCHANGED <<dev, turn, want, sys, found, manager>>
      BY <1>2 DEF GetDIMMs, CollectionFails
    <3>3. NeedSystem' = NeedSystem /\ \A cs : Wants(cs)' = Wants(cs)
      BY <3>2 DEF NeedSystem, Wants
    <3> HIDE DEF Goto, Keep, StageFails
    <3> QED BY <3>1, <3>2, <3>3, Underway DEF CInv, Known, Partial
  <2>2. Tally'
    <3> SUFFICES ASSUME stage' # "error", NEW x \in Sources
                 PROVE  Count(tasks', x) = IF stage' \in After(x)' THEN Due(x)' ELSE 0
      BY DEF Tally
    <3> DEFINE asked == Wants({"memory"}) /\ sys /\ dev.memory
               k == IF asked /\ ~Full THEN dev.dimm ELSE 0
               more == tasks \o Times(k, "dimm")
    <3>1. /\ stage = "dimm" /\ stage' = "processor"
          /\ UNCHANGED <<dev, excludes, turn, want, sys, virtual, found, manager>>
          /\ \/ tasks' = tasks /\ gaps' = gaps \cup {"dimm"} /\ ~Full
             \/ tasks' = more /\ gaps' = gaps
      BY <1>2 DEF GetDIMMs, CollectionFails
    <3>2. turn \in {"full", "partial"}
      BY <1>1, <3>1 DEF CInv, Known
    <3>3. /\ k \in Nat
          /\ x = "dimm" => Count(more, x) = Count(tasks, x) + k
          /\ x # "dimm" => Count(more, x) = Count(tasks, x)
      <4>1. k \in Nat /\ "dimm" \in Sources
        BY <1>1 DEF Sources
      <4> HIDE DEF k
      <4> QED BY <4>1, <1>1, CountMore
    <3>4. Count(tasks, x) = IF stage \in After(x) THEN Due(x) ELSE 0
      BY <3>1, TallyOf
    <3>7. k = IF "memory" \in want /\ sys /\ dev.memory /\ ~Full THEN dev.dimm ELSE 0
      BY WantsOne
    <3> HIDE DEF k, more
    <3>5. CASE x = "dimm"
      <4>1. Count(tasks, x) = 0
        BY <3>1, <3>4, <3>5 DEF After
      <4>2. "dimm" \notin gaps
        BY <3>1 DEF CInv, Known
      <4>3. stage' \in After(x)' <=> ~Full
        BY <3>1, <3>2, <3>5 DEF After, Partial, Full
      <4>4. Due(x)' = IF "memory" \in want /\ sys /\ dev.memory /\ "dimm" \notin gaps'
                      THEN dev.dimm ELSE 0
        BY <3>1, <3>5 DEF Due
      <4> HIDE DEF Goto, Keep, StageFails
      <4>6. CASE tasks' = tasks /\ gaps' = gaps \cup {"dimm"} /\ ~Full
        BY <4>1, <4>3, <4>4, <4>6
      <4>7. CASE tasks' = more /\ gaps' = gaps
        <5>1. Count(tasks', x) = k
          BY <3>3, <3>5, <4>1, <4>7
        <5> QED BY <3>7, <4>2, <4>3, <4>4, <4>7, <5>1
      <4> QED BY <3>1, <4>6, <4>7
    <3>6. CASE x # "dimm"
      <4>1. stage' \in After(x)' <=> stage \in After(x)
        BY <3>1, <3>6 DEF After, Partial, Sources
      <4>2. stage \in After(x) => Due(x)' = Due(x)
        BY <3>1, <3>6 DEF After, Due, Partial, Linked, Sources
      <4>3. Count(tasks', x) = Count(tasks, x)
        BY <3>1, <3>3, <3>6
      <4> QED BY <3>4, <4>1, <4>2, <4>3
    <3> QED BY <3>5, <3>6
  <2> QED BY <2>1, <2>2
<1>3. CASE GetProcessors
  <2>1. Known'
    <3>1. \/ stage' = "error"
          \/ stage = "processor" /\ stage' = "smart" /\ gaps' \in {gaps, gaps \cup {"processor"}}
      BY <1>3 DEF GetProcessors, CollectionFails
    <3>2. stage = "processor" /\ UNCHANGED <<dev, turn, want, sys, found, manager>>
      BY <1>3 DEF GetProcessors, CollectionFails
    <3>3. NeedSystem' = NeedSystem /\ \A cs : Wants(cs)' = Wants(cs)
      BY <3>2 DEF NeedSystem, Wants
    <3> HIDE DEF Goto, Keep, StageFails
    <3> QED BY <3>1, <3>2, <3>3, Underway DEF CInv, Known, Partial
  <2>2. Tally'
    <3> SUFFICES ASSUME stage' # "error", NEW x \in Sources
                 PROVE  Count(tasks', x) = IF stage' \in After(x)' THEN Due(x)' ELSE 0
      BY DEF Tally
    <3> DEFINE asked == Wants({"processor"}) /\ sys
               k == IF asked /\ ~Full THEN dev.processor ELSE 0
               more == tasks \o Times(k, "processor")
    <3>1. /\ stage = "processor" /\ stage' = "smart"
          /\ UNCHANGED <<dev, excludes, turn, want, sys, virtual, found, manager>>
          /\ \/ tasks' = tasks /\ gaps' = gaps \cup {"processor"} /\ ~Full
             \/ tasks' = more /\ gaps' = gaps
      BY <1>3 DEF GetProcessors, CollectionFails
    <3>2. turn \in {"full", "partial"}
      BY <1>1, <3>1 DEF CInv, Known
    <3>3. /\ k \in Nat
          /\ x = "processor" => Count(more, x) = Count(tasks, x) + k
          /\ x # "processor" => Count(more, x) = Count(tasks, x)
      <4>1. k \in Nat /\ "processor" \in Sources
        BY <1>1 DEF Sources
      <4> HIDE DEF k
      <4> QED BY <4>1, <1>1, CountMore
    <3>4. Count(tasks, x) = IF stage \in After(x) THEN Due(x) ELSE 0
      BY <3>1, TallyOf
    <3>7. k = IF "processor" \in want /\ sys /\ ~Full THEN dev.processor ELSE 0
      BY WantsOne
    <3> HIDE DEF k, more
    <3>5. CASE x = "processor"
      <4>1. Count(tasks, x) = 0
        BY <3>1, <3>4, <3>5 DEF After
      <4>2. "processor" \notin gaps
        BY <3>1 DEF CInv, Known
      <4>3. stage' \in After(x)' <=> ~Full
        BY <3>1, <3>2, <3>5 DEF After, Partial, Full
      <4>4. Due(x)' = IF "processor" \in want /\ sys /\ "processor" \notin gaps'
                      THEN dev.processor ELSE 0
        BY <3>1, <3>5 DEF Due
      <4> HIDE DEF Goto, Keep, StageFails
      <4>6. CASE tasks' = tasks /\ gaps' = gaps \cup {"processor"} /\ ~Full
        BY <4>1, <4>3, <4>4, <4>6
      <4>7. CASE tasks' = more /\ gaps' = gaps
        <5>1. Count(tasks', x) = k
          BY <3>3, <3>5, <4>1, <4>7
        <5> QED BY <3>7, <4>2, <4>3, <4>4, <4>7, <5>1
      <4> QED BY <3>1, <4>6, <4>7
    <3>6. CASE x # "processor"
      <4>1. stage' \in After(x)' <=> stage \in After(x)
        BY <3>1, <3>6 DEF After, Partial, Sources
      <4>2. stage \in After(x) => Due(x)' = Due(x)
        BY <3>1, <3>6 DEF After, Due, Partial, Linked, Sources
      <4>3. Count(tasks', x) = Count(tasks, x)
        BY <3>1, <3>3, <3>6
      <4> QED BY <3>4, <4>1, <4>2, <4>3
    <3> QED BY <3>5, <3>6
  <2> QED BY <2>1, <2>2
<1> QED BY <1>2, <1>3

\* What depends on the request only.
LEMMA WantsUnchanged ==
  ASSUME UNCHANGED <<turn, want>>
  PROVE  /\ \A cs : Wants(cs)' = Wants(cs)
         /\ NeedSystem' = NeedSystem /\ WantsDrives' = WantsDrives
         /\ Partial' = Partial
BY DEF Wants, NeedSystem, WantsDrives, Partial

\* The lists of drives are lists.
LEMMA FinalType ==
  ASSUME CInv
  PROVE  Smart \in DriveLists /\ Final \in DriveLists
<1>1. NoDrives \in DriveLists
  BY DEF NoDrives, DriveLists
<1> QED BY <1>1, DeviceFacts DEF CInv, TInv, Smart, Final

\* SmartStorage brings no task yet.
LEMMA SmartCounts ==
  ASSUME CInv, GetSmartStorage
  PROVE  Known' /\ Tally'
<1> USE DEF PastManagers, PastSystem, PastDIMMs, PastProcessors, PastStorage, PastFirmware
<1>1. /\ stage = "smart" /\ stage' \in {"error", "storage"}
      /\ UNCHANGED <<dev, excludes, turn, want, sys, virtual, manager, tasks, gaps>>
      /\ stage' = "storage" => found' = Smart
  BY DEF GetSmartStorage, Goto, Keep, StageFails, Smart
<1>2. Smart' = Smart
  BY <1>1, WantsUnchanged DEF Smart
<1>3. Known'
  <2>1. CASE stage' = "error"
    BY <1>1, <2>1, WantsUnchanged DEF CInv, Known
  <2>2. CASE stage' = "storage"
    <3>1. /\ NeedSystem' = NeedSystem /\ (Partial' <=> Partial)
          /\ Wants({"firmware", "system"})' = Wants({"firmware", "system"})
      BY <1>1, WantsUnchanged
    <3>2. stage = "smart" /\ stage' = "storage" /\ found' = Smart'
      BY <1>1, <1>2, <2>2
    <3> HIDE DEF Smart
    <3> QED BY <1>1, <3>1, <3>2 DEF CInv, Known
  <2> QED BY <1>1, <2>1, <2>2
<1>4. Tally'
  <2> SUFFICES ASSUME stage' # "error", NEW x \in Sources
               PROVE  Count(tasks', x) = IF stage' \in After(x)' THEN Due(x)' ELSE 0
    BY DEF Tally
  <2>1. stage' \in After(x)' <=> stage \in After(x)
    BY <1>1 DEF After, Partial, Sources
  <2>2. stage \in After(x) => Due(x)' = Due(x)
    BY <1>1 DEF After, Due, Partial, Linked, Sources
  <2> QED BY <1>1, <2>1, <2>2, TallyOf
<1> QED BY <1>3, <1>4

\* The tasks of a partial scrape for controllers and drives.
StorageTasks ==
  (IF Wants({"storage_controller"})
   THEN Times(dev.controllers, "storageController") \o Times(found'.array, "arrayController")
   ELSE <<>>)
  \o (IF Wants({"drives"})
      THEN Times(found'.logical, "logicalDrive") \o Times(dev.drives, "drive")
           \o Times(found'.physical, "physicalDrive")
      ELSE <<>>)

\* How often they ask for a source.
LEMMA StorageTasksCount ==
  ASSUME CInv, found' \in DriveLists, NEW x \in Sources
  PROVE  /\ StorageTasks \in Seq(Sources)
         /\ Count(StorageTasks, x) =
              CASE x = "storageController" ->
                    IF "storage_controller" \in want THEN dev.controllers ELSE 0
                [] x = "arrayController" ->
                    IF "storage_controller" \in want THEN found'.array ELSE 0
                [] x = "logicalDrive" -> IF "drives" \in want THEN found'.logical ELSE 0
                [] x = "drive" -> IF "drives" \in want THEN dev.drives ELSE 0
                [] x = "physicalDrive" -> IF "drives" \in want THEN found'.physical ELSE 0
                [] OTHER -> 0
<1> DEFINE c == Times(dev.controllers, "storageController")
           a == Times(found'.array, "arrayController")
           l == Times(found'.logical, "logicalDrive")
           d == Times(dev.drives, "drive")
           p == Times(found'.physical, "physicalDrive")
           ca == c \o a
           ld == l \o d
           ldp == ld \o p
           first == IF Wants({"storage_controller"}) THEN ca ELSE <<>>
           second == IF Wants({"drives"}) THEN ldp ELSE <<>>
<1>1. /\ dev.controllers \in Nat /\ dev.drives \in Nat
      /\ found'.array \in Nat /\ found'.logical \in Nat /\ found'.physical \in Nat
  BY DeviceFacts DEF CInv, TInv, DriveLists
<1>2. /\ "storageController" \in Sources /\ "arrayController" \in Sources
      /\ "logicalDrive" \in Sources /\ "drive" \in Sources /\ "physicalDrive" \in Sources
  BY DEF Sources
<1>3. c \in Seq(Sources) /\ Count(c, x) = IF x = "storageController" THEN dev.controllers ELSE 0
  BY <1>1, <1>2, TimesFacts
<1>4. a \in Seq(Sources) /\ Count(a, x) = IF x = "arrayController" THEN found'.array ELSE 0
  BY <1>1, <1>2, TimesFacts
<1>5. l \in Seq(Sources) /\ Count(l, x) = IF x = "logicalDrive" THEN found'.logical ELSE 0
  BY <1>1, <1>2, TimesFacts
<1>6. d \in Seq(Sources) /\ Count(d, x) = IF x = "drive" THEN dev.drives ELSE 0
  BY <1>1, <1>2, TimesFacts
<1>7. p \in Seq(Sources) /\ Count(p, x) = IF x = "physicalDrive" THEN found'.physical ELSE 0
  BY <1>1, <1>2, TimesFacts
<1>8. StorageTasks = first \o second
  BY DEF StorageTasks
<1> HIDE DEF c, a, l, d, p
<1>9. ca \in Seq(Sources) /\ Count(ca, x) = Count(c, x) + Count(a, x)
  BY <1>3, <1>4, ConcatType, CountConcat
<1>10. ld \in Seq(Sources) /\ Count(ld, x) = Count(l, x) + Count(d, x)
  BY <1>5, <1>6, ConcatType, CountConcat
<1> HIDE DEF ca, ld
<1>11. ldp \in Seq(Sources) /\ Count(ldp, x) = Count(ld, x) + Count(p, x)
  BY <1>10, <1>7, ConcatType, CountConcat
<1> HIDE DEF ldp
<1>12. <<>> \in Seq(Sources) /\ Count(<<>>, x) = 0
  BY CountEmpty
<1>13. /\ first \in Seq(Sources)
       /\ Count(first, x) = IF "storage_controller" \in want THEN Count(c, x) + Count(a, x) ELSE 0
  BY <1>9, <1>12, WantsOne
<1>14. /\ second \in Seq(Sources)
       /\ Count(second, x) =
            IF "drives" \in want THEN Count(l, x) + Count(d, x) + Count(p, x) ELSE 0
  BY <1>10, <1>11, <1>12, WantsOne
<1> HIDE DEF first, second
<1>15. /\ first \o second \in Seq(Sources)
       /\ Count(first \o second, x) = Count(first, x) + Count(second, x)
  BY <1>13, <1>14, ConcatType, CountConcat
<1>16. Count(StorageTasks, x) = Count(first, x) + Count(second, x)
  BY <1>8, <1>15
<1>17. StorageTasks \in Seq(Sources)
  BY <1>8, <1>15
<1> HIDE DEF StorageTasks
<1> QED BY <1>1, <1>3, <1>4, <1>5, <1>6, <1>7, <1>13, <1>14, <1>16, <1>17

\* Controllers and drives: what is found is final.
LEMMA StorageCounts ==
  ASSUME CInv, GetStorage
  PROVE  Known' /\ Tally'
<1> USE DEF PastManagers, PastSystem, PastDIMMs, PastProcessors, PastStorage, PastFirmware
<1>1. /\ stage = "storage" /\ stage' \in {"error", "firmware"}
      /\ UNCHANGED <<dev, excludes, turn, want, sys, virtual, manager, gaps>>
  BY DEF GetStorage, Goto, Keep, StageFails
<1>2. stage' = "firmware" => found' = Final
  <2>1. found = Smart
    BY <1>1 DEF CInv, Known
  <2>2. stage' = "firmware" => found' = IF Fallback THEN dev.storage ELSE found
    BY DEF GetStorage, Goto, StageFails
  <2> QED BY <2>1, <2>2 DEF Fallback, Final
<1>3. Smart' = Smart /\ Final' = Final
  BY <1>1, WantsUnchanged DEF Smart, Final
<1>4. Known'
  <2>1. CASE stage' = "error"
    BY <1>1, <2>1, WantsUnchanged DEF CInv, Known
  <2>2. CASE stage' = "firmware"
    <3>1. /\ NeedSystem' = NeedSystem /\ (Partial' <=> Partial)
          /\ Wants({"firmware", "system"})' = Wants({"firmware", "system"})
      BY <1>1, WantsUnchanged
    <3>2. stage = "storage" /\ stage' = "firmware" /\ found' = Final'
      BY <1>1, <1>2, <1>3, <2>2
    <3> QED BY <1>1, <3>1, <3>2 DEF CInv, Known
  <2> QED BY <1>1, <2>1, <2>2
<1>5. Tally'
  <2> SUFFICES ASSUME stage' # "error", NEW x \in Sources
               PROVE  Count(tasks', x) = IF stage' \in After(x)' THEN Due(x)' ELSE 0
    BY DEF Tally
  <2>1. stage' = "firmware" /\ found' \in DriveLists
    BY <1>1, <1>2, FinalType
  <2>2. tasks' = tasks \o (IF Full THEN <<>> ELSE StorageTasks)
    BY <2>1 DEF GetStorage, Goto, StageFails, StorageTasks
  <2>3. tasks \in Seq(Sources) /\ <<>> \in Seq(Sources) /\ Count(<<>>, x) = 0
    <3>1. tasks \in Seq(Sources)
      BY DEF CInv, TInv, TypeOK
    <3>2. <<>> \in Seq(Sources)
      OBVIOUS
    <3> QED BY <3>1, <3>2, CountEmpty
  <2>4. StorageTasks \in Seq(Sources)
    BY <2>1, StorageTasksCount
  <2> DEFINE n == IF Full THEN 0 ELSE Count(StorageTasks, x)
             more == IF Full THEN <<>> ELSE StorageTasks
  <2>5. more \in Seq(Sources) /\ Count(more, x) = n
    BY <2>3, <2>4
  <2> HIDE DEF more
  <2>6. Count(tasks \o more, x) = Count(tasks, x) + Count(more, x)
    BY <2>3, <2>5, CountConcat
  <2>7. Count(tasks', x) = Count(tasks, x) + n
    BY <2>2, <2>5, <2>6 DEF more
  <2>8. Count(tasks, x) = IF stage \in After(x) THEN Due(x) ELSE 0
    BY <1>1, TallyOf
  <2>9. turn \in {"full", "partial"} /\ (Full <=> ~Partial) /\ Partial' = Partial
    BY <1>1, Underway, WantsUnchanged
  <2>10. Count(tasks, x) \in Nat
    BY <2>3, AtFinite
  <2> DEFINE storage == {"storageController", "arrayController", "logicalDrive", "drive",
                         "physicalDrive"}
  <2>11. CASE x \notin storage
    <3>1. stage' \in After(x)' <=> stage \in After(x)
      BY <1>1, <2>1, <2>9, <2>11 DEF After, Sources
    <3>2. stage \in After(x) => Due(x)' = Due(x)
      BY <1>1, <2>9, <2>11 DEF After, Due, Linked, Sources
    <3>3. n = 0
      BY <2>1, <2>11, StorageTasksCount
    <3> HIDE DEF n
    <3> QED BY <2>7, <2>8, <2>10, <3>1, <3>2, <3>3
  <2>12. CASE x \in storage
    <3>1. stage \notin After(x) /\ (stage' \in After(x)' <=> ~Full)
      BY <1>1, <2>1, <2>9, <2>12 DEF After
    <3>2. Count(StorageTasks, x) = Due(x)'
      <4> DEFINE total == Count(StorageTasks, x)
      <4>1. total =
              CASE x = "storageController" ->
                    IF "storage_controller" \in want THEN dev.controllers ELSE 0
                [] x = "arrayController" ->
                    IF "storage_controller" \in want THEN found'.array ELSE 0
                [] x = "logicalDrive" -> IF "drives" \in want THEN found'.logical ELSE 0
                [] x = "drive" -> IF "drives" \in want THEN dev.drives ELSE 0
                [] x = "physicalDrive" -> IF "drives" \in want THEN found'.physical ELSE 0
                [] OTHER -> 0
        BY <2>1, StorageTasksCount
      <4> HIDE DEF total
      <4>2. total = Due(x)'
        BY <1>1, <2>12, <4>1 DEF Due
      <4> QED BY <4>2 DEF total
    <3> DEFINE k == Count(StorageTasks, x)
    <3>3. k \in Nat /\ n = (IF Full THEN 0 ELSE k) /\ k = Due(x)'
      BY <2>4, <3>2, AtFinite
    <3> HIDE DEF n, k
    <3> QED BY <2>7, <2>8, <3>1, <3>3
  <2> HIDE DEF storage
  <2> QED BY <2>11, <2>12
<1> QED BY <1>4, <1>5

\* Firmware: one inventory or the other, or a gap.
LEMMA FirmwareCounts ==
  ASSUME CInv, GetFirmware
  PROVE  Known' /\ Tally'
<1> USE DEF PastManagers, PastSystem, PastDIMMs, PastProcessors, PastStorage, PastFirmware
<1> DEFINE first == IF Full THEN <<>> ELSE ManagerTask
           inv == IF Linked THEN <<"firmwareInventory">> ELSE Times(Inventory, "inventory")
           upto == tasks \o first
           all == upto \o inv
<1>1. /\ stage = "firmware" /\ stage' \in {"error", "assemble"}
      /\ UNCHANGED <<dev, excludes, turn, want, sys, virtual, found, manager>>
  BY DEF GetFirmware, Goto, Keep
<1>2. stage' = "assemble" =>
        \/ "firmware" \notin want /\ tasks' = tasks /\ gaps' = gaps
        \/ /\ "firmware" \in want /\ ~Linked /\ ~Full
           /\ gaps' = gaps \cup {"inventory"} /\ tasks' = upto
        \/ "firmware" \in want /\ tasks' = all /\ gaps' = gaps
  BY WantsOne DEF GetFirmware, Goto, Linked
<1>3. turn \in {"full", "partial"} /\ (Full <=> ~Partial)
  BY <1>1, Underway
<1>4. Known'
  <2>1. NeedSystem' = NeedSystem /\ (Partial' <=> Partial)
        /\ Wants({"firmware", "system"})' = Wants({"firmware", "system"})
    BY <1>1, WantsUnchanged
  <2>2. Final' = Final
    BY <1>1, WantsUnchanged DEF Smart, Final
  <2> HIDE DEF first, inv, upto, all
  <2>3. CASE stage' = "error"
    BY <1>1, <2>1, <2>3 DEF CInv, Known
  <2>4. CASE stage' = "assemble"
    BY <1>1, <2>1, <2>2, <2>4 DEF CInv, Known
  <2> QED BY <1>1, <2>3, <2>4
<1>5. Tally'
  <2> SUFFICES ASSUME stage' # "error", NEW x \in Sources
               PROVE  Count(tasks', x) = IF stage' \in After(x)' THEN Due(x)' ELSE 0
    BY DEF Tally
  <2>1. /\ stage' = "assemble" /\ tasks \in Seq(Sources)
        /\ gaps \subseteq {"dimm", "processor"}
        /\ dev.inventory \in Nat
    BY <1>1, DeviceFacts DEF CInv, TInv, TypeOK, Known
  <2>2. Count(tasks, x) = IF stage \in After(x) THEN Due(x) ELSE 0
    BY <1>1, TallyOf
  <2>3. <<>> \in Seq(Sources) /\ Count(<<>>, x) = 0
    BY CountEmpty
  <2>4. /\ first \in Seq(Sources)
        /\ Count(first, x) = IF x = "manager" /\ ~Full /\ manager # "" THEN 1 ELSE 0
    <3> DEFINE k == IF manager # "" THEN 1 ELSE 0
    <3>1. ManagerTask = Times(k, "manager")
      BY DEF ManagerTask
    <3>2. k \in Nat /\ "manager" \in Sources
      BY DEF Sources
    <3>3. /\ ManagerTask \in Seq(Sources)
          /\ Count(ManagerTask, x) = IF x = "manager" THEN k ELSE 0
      <4> HIDE DEF k
      <4> QED BY <3>1, <3>2, TimesFacts
    <3> QED BY <2>3, <3>3
  <2>5. /\ inv \in Seq(Sources)
        /\ Count(inv, x) = IF Linked THEN IF x = "firmwareInventory" THEN 1 ELSE 0
                           ELSE IF x = "inventory" THEN Inventory ELSE 0
    <3>1. Inventory \in Nat /\ "inventory" \in Sources /\ "firmwareInventory" \in Sources
      BY <2>1 DEF Inventory, Sources
    <3>2. /\ Times(Inventory, "inventory") \in Seq(Sources)
          /\ Count(Times(Inventory, "inventory"), x) = IF x = "inventory" THEN Inventory ELSE 0
      BY <3>1, TimesFacts
    <3>3. /\ <<"firmwareInventory">> \in Seq(Sources)
          /\ Count(<<"firmwareInventory">>, x) = IF x = "firmwareInventory" THEN 1 ELSE 0
      BY <3>1, CountOne
    <3> QED BY <3>2, <3>3
  <2> HIDE DEF first, inv
  <2>6. upto \in Seq(Sources) /\ Count(upto, x) = Count(tasks, x) + Count(first, x)
    <3>1. tasks \in Seq(Sources) /\ first \in Seq(Sources)
      BY <2>1, <2>4
    <3>2. tasks \o first \in Seq(Sources)
      BY <3>1, ConcatType
    <3>3. Count(tasks \o first, x) = Count(tasks, x) + Count(first, x)
      BY <3>1, CountConcat
    <3> QED BY <3>2, <3>3
  <2> HIDE DEF upto
  <2>7. Count(all, x) = Count(upto, x) + Count(inv, x)
    BY <2>5, <2>6, CountConcat
  <2> HIDE DEF all
  <2> DEFINE before == Count(tasks, x)
             after == Count(tasks', x)
  <2>8. before \in Nat /\ Inventory \in Nat
    BY <2>1, AtFinite DEF Inventory
  <2>9. \/ "firmware" \notin want /\ after = before /\ gaps' = gaps
        \/ /\ "firmware" \in want /\ ~Linked /\ ~Full
           /\ gaps' = gaps \cup {"inventory"} /\ after = before + Count(first, x)
        \/ "firmware" \in want /\ after = before + Count(first, x) + Count(inv, x) /\ gaps' = gaps
    BY <1>2, <2>1, <2>6, <2>7
  <2>10. CASE x \notin {"firmwareInventory", "inventory", "manager"}
    <3>1. stage' \in After(x)' <=> stage \in After(x)
      BY <1>1, <2>1, <2>10 DEF After, Sources, Partial
    <3>2. stage \in After(x) => Due(x)' = Due(x)
      <4>1. "dimm" \in gaps' <=> "dimm" \in gaps
        BY <2>9
      <4>2. "processor" \in gaps' <=> "processor" \in gaps
        BY <2>9
      <4> QED BY <1>1, <2>10, <4>1, <4>2 DEF After, Due, Partial, Sources
    <3>3. after = before
      <4>1. Count(first, x) = 0 /\ Count(inv, x) = 0
        BY <2>4, <2>5, <2>10
      <4> HIDE DEF before, after
      <4> QED BY <2>8, <2>9, <4>1
    <3> QED BY <2>2, <3>1, <3>2, <3>3
  <2>11. CASE x \in {"firmwareInventory", "inventory"}
    <3>1. stage \notin After(x) /\ stage' \in After(x)' /\ before = 0
      BY <1>1, <2>1, <2>2, <2>11 DEF After
    <3>2. Count(first, x) = 0
      BY <2>4, <2>11
    <3>3. CASE x = "firmwareInventory"
      <4>1. Due(x)' = IF "firmware" \in want /\ Linked THEN 1 ELSE 0
        BY <1>1, <3>3 DEF Due, Linked
      <4>2. Count(inv, x) = IF Linked THEN 1 ELSE 0
        BY <2>5, <3>3
      <4> HIDE DEF before, after
      <4>3. after = Due(x)'
        BY <2>9, <3>1, <3>2, <4>1, <4>2
      <4> QED BY <3>1, <4>3 DEF after
    <3>4. CASE x = "inventory"
      <4>1. Due(x)' = IF "firmware" \in want /\ ~Linked /\ "inventory" \notin gaps'
                      THEN Inventory ELSE 0
        BY <1>1, <1>3, <3>4 DEF Due, Linked, Inventory, Full, Partial
      <4>2. Count(inv, x) = IF Linked THEN 0 ELSE Inventory
        BY <2>5, <3>4
      <4>3. "inventory" \notin gaps
        BY <2>1
      <4> HIDE DEF before, after
      <4>4. after = Due(x)'
        BY <2>8, <2>9, <3>1, <3>2, <4>1, <4>2, <4>3
      <4> QED BY <3>1, <4>4 DEF after
    <3> QED BY <2>11, <3>3, <3>4
  <2>12. CASE x = "manager"
    <3>1. stage \notin After(x) /\ (stage' \in After(x)' <=> ~Full) /\ before = 0
      BY <1>1, <1>3, <2>1, <2>2, <2>12 DEF After, Partial, Full
    <3>2. ~Full => Due(x)' = IF "firmware" \in want /\ manager # "" THEN 1 ELSE 0
      BY <1>1, <1>3, <2>12 DEF Due, Partial, Full
    <3>3. Count(inv, x) = 0
      BY <2>5, <2>12
    <3>4. Count(first, x) = IF ~Full /\ manager # "" THEN 1 ELSE 0
      BY <2>4, <2>12
    <3> HIDE DEF before, after
    <3>5. after = IF ~Full THEN Due(x)' ELSE 0
      <4>1. CASE Full
        <5>1. Count(first, x) = 0
          BY <3>4, <4>1
        <5>2. after = 0
          BY <2>9, <3>1, <3>3, <5>1
        <5> QED BY <4>1, <5>2
      <4>2. CASE ~Full
        <5>1. CASE "firmware" \notin want
          <6>1. after = 0
            BY <2>9, <3>1, <5>1
          <6> QED BY <3>2, <4>2, <5>1, <6>1
        <5>2. CASE "firmware" \in want
          <6>1. after = Count(first, x)
            <7>1. Count(first, x) \in Nat
              BY <2>4, AtFinite
            <7> QED BY <2>9, <3>1, <3>3, <5>2, <7>1
          <6> QED BY <3>2, <3>4, <4>2, <5>2, <6>1
        <5> QED BY <5>1, <5>2
      <4> QED BY <4>1, <4>2
    <3> QED BY <3>1, <3>5 DEF after
  <2> QED BY <2>10, <2>11, <2>12
<1> QED BY <1>4, <1>5

\* With the pool every source has its tasks, and they are kept.
LEMMA AssembleCounts ==
  ASSUME CInv, Assemble
  PROVE  Known' /\ Tally' /\ MadeOK'
<1> USE DEF PastManagers, PastSystem, PastDIMMs, PastProcessors, PastStorage, PastFirmware
<1>1. /\ stage = "assemble" /\ stage' \in {"error", "pool"}
      /\ UNCHANGED <<dev, excludes, turn, want, sys, virtual, found, manager, gaps>>
      /\ tasks' = tasks \o (IF Full THEN Rest ELSE <<>>)
      /\ \/ stage' = "pool" /\ made' = [made EXCEPT ![turn] =
                                          [pool |-> TRUE, tasks |-> tasks', gaps |-> gaps]]
         \/ stage' = "error" /\ made' = made
  BY DEF Assemble, Goto
<1>2. turn \in {"full", "partial"} /\ (Full <=> ~Partial)
  BY <1>1, Underway
<1>3. Known'
  <2>1. /\ NeedSystem' = NeedSystem /\ (Partial' <=> Partial)
        /\ Wants({"firmware", "system"})' = Wants({"firmware", "system"})
    BY <1>1, WantsUnchanged
  <2>2. Final' = Final
    BY <1>1, WantsUnchanged DEF Smart, Final
  <2> QED BY <1>1, <1>2, <2>1, <2>2 DEF CInv, Known
<1>4. ASSUME NEW x \in Sources PROVE Count(tasks', x) = Due(x)'
  <2>1. tasks \in Seq(Sources)
    BY DEF CInv, TInv, TypeOK
  <2>2. Count(tasks, x) = IF stage \in After(x) THEN Due(x) ELSE 0
    BY <1>1, TallyOf
  <2>3. Due(x)' = Due(x)
    BY <1>1 DEF Due, Linked, Partial
  <2>4. CASE Partial
    <3>1. <<>> \in Seq(Sources) /\ Count(<<>>, x) = 0 /\ Count(tasks, x) \in Nat
      BY <2>1, CountEmpty, AtFinite
    <3>2. Count(tasks \o <<>>, x) = Count(tasks, x) + Count(<<>>, x)
      BY <2>1, <3>1, CountConcat
    <3>3. tasks' = tasks \o <<>>
      BY <1>1, <1>2, <2>4
    <3>4. Count(tasks', x) = Count(tasks, x)
      <4> DEFINE after == tasks \o <<>>
      <4>1. Count(after, x) = Count(tasks, x)
        BY <3>1, <3>2
      <4>2. tasks' = after
        BY <3>3
      <4> HIDE DEF after
      <4> QED BY <4>1, <4>2
    <3>5. x # "virtualDrive" => stage \in After(x)
      BY <1>1, <2>4 DEF After, Sources
    <3>6. x = "virtualDrive" => stage \notin After(x) /\ Due(x) = 0
      BY <1>1, <2>4 DEF After, Due
    <3> QED BY <2>2, <2>3, <3>4, <3>5, <3>6
  <2>5. CASE ~Partial
    <3>1. Rest \in Seq(Sources)
      BY RestCounts DEF CInv
    <3>2. Count(tasks', x) = Count(tasks, x) + Count(Rest, x)
      <4> DEFINE after == tasks \o Rest
      <4>1. Count(after, x) = Count(tasks, x) + Count(Rest, x)
        BY <2>1, <3>1, CountConcat
      <4>2. tasks' = after
        BY <1>1, <1>2, <2>5
      <4> HIDE DEF after
      <4> QED BY <4>1, <4>2
    <3>3. Count(tasks, x) \in Nat /\ Count(Rest, x) \in Nat
      BY <2>1, <3>1, AtFinite
    <3>4. want = Components /\ sys = TRUE /\ gaps = {}
      BY <1>1, <1>2, <2>5 DEF CInv, TInv, TypeOK, Known, GapsSoFar
    <3> DEFINE b == Count(tasks, x)
               r == Count(Rest, x)
    <3>5. CASE x \in {"system", "firmwareInventory", "inventory"}
      <4>1. stage \in After(x)
        BY <1>1, <3>5 DEF After
      <4>2. r = 0
        BY <3>5, RestCounts DEF CInv
      <4>3. b = Due(x)
        BY <2>2, <4>1
      <4> HIDE DEF b, r
      <4>4. b + r = b
        BY <3>3, <4>2 DEF b, r
      <4> QED BY <2>3, <3>2, <4>3, <4>4 DEF b, r
    <3>6. CASE x \notin {"system", "firmwareInventory", "inventory"}
      <4>1. stage \notin After(x)
        BY <1>1, <2>5, <3>6 DEF After
      <4>2. b = 0
        BY <2>2, <4>1
      <4>3. r = Due(x)
        <5>1. r = CASE x = "arrayController" -> found.array
                    [] x = "logicalDrive" -> found.logical
                    [] x = "physicalDrive" -> found.physical
                    [] x = "drive" -> dev.drives
                    [] x = "storageController" -> dev.controllers
                    [] x = "virtualDrive" -> virtual
                    [] x = "power" -> dev.power
                    [] x = "thermal" -> dev.thermal
                    [] x = "dimm" -> IF dev.memory /\ "dimm" \notin gaps THEN dev.dimm ELSE 0
                    [] x = "manager" -> 1
                    [] x = "processor" -> IF "processor" \in gaps THEN 0 ELSE dev.processor
                    [] OTHER -> 0
          BY RestCounts DEF CInv
        <5> HIDE DEF r
        <5> QED BY <2>5, <3>4, <3>6, <5>1 DEF Due, Sources, Components
      <4> HIDE DEF b, r
      <4>4. b + r = r
        BY <3>3, <4>2 DEF b, r
      <4> QED BY <2>3, <3>2, <4>3, <4>4 DEF b, r
    <3> QED BY <3>5, <3>6
  <2> QED BY <2>4, <2>5
<1>5. Tally'
  <2> SUFFICES ASSUME stage' # "error", NEW x \in Sources
               PROVE  Count(tasks', x) = IF stage' \in After(x)' THEN Due(x)' ELSE 0
    BY DEF Tally
  <2>1. stage' = "pool"
    BY <1>1
  <2>2. stage' \in After(x)'
    BY <2>1 DEF After, Sources
  <2> QED BY <1>4, <2>2
<1>6. MadeOK'
  <2>1. DOMAIN made = {"full", "partial"} /\ ~made["partial"].pool
    BY <1>1 DEF CInv, TInv, TypeOK, MadeOK
  <2>2. \A x : InFull(x)' = InFull(x)
    BY <1>1 DEF InFull, Drives, SmartDrives
  <2>3. CASE made' = made
    BY <1>1, <2>1, <2>2, <2>3 DEF CInv, MadeOK
  <2>4. CASE /\ stage' = "pool"
             /\ made' = [made EXCEPT ![turn] = [pool |-> TRUE, tasks |-> tasks', gaps |-> gaps]]
    <3>1. CASE Partial
      <4>1. made'["full"] = made["full"]
        BY <2>1, <2>4, <3>1 DEF Partial
      <4>2. made'["partial"].tasks = tasks' /\ made'["partial"].gaps = gaps /\ Partial'
        BY <1>1, <2>1, <2>4, <3>1 DEF Partial
      <4> QED BY <1>1, <2>2, <2>4, <4>1, <4>2 DEF CInv, MadeOK
    <3>2. CASE ~Partial
      <4>1. made'["full"].tasks = tasks' /\ made'["partial"] = made["partial"]
        BY <1>2, <2>1, <2>4, <3>2 DEF Full
      <4>2. want = Components /\ sys = TRUE /\ gaps = {}
        BY <1>1, <1>2, <3>2 DEF CInv, TInv, TypeOK, Known, GapsSoFar
      <4>3. dev.managers # <<>> /\ dev.systems > 0 /\ found = Final
        BY <1>1, <3>2, <4>2 DEF CInv, Known
      <4>4. WantsDrives /\ NeedSystem
        BY <4>2 DEF WantsDrives, NeedSystem, Wants, Components
      <4>5. Final = Drives
        BY <4>2, <4>4 DEF Final, Smart, Drives, SmartDrives
      <4>6. ASSUME NEW x \in Sources, x # "virtualDrive" PROVE Due(x) = InFull(x)
        BY <3>2, <4>2, <4>3, <4>5, <4>6 DEF Due, InFull, Linked, Sources, Components
      <4>7. \A x : Due(x)' = Due(x)
        BY <1>1 DEF Due, Linked, Partial
      <4> QED BY <1>1, <1>4, <2>1, <2>2, <4>1, <4>3, <4>6, <4>7 DEF MadeOK
    <3> QED BY <3>1, <3>2
  <2> QED BY <1>1, <2>3, <2>4
<1> QED BY <1>3, <1>5, <1>6

-----------------------------------------------------------------------------

\* The partial request begins with none, the full exporter's stay.
LEMMA NextRequestCounts ==
  ASSUME CInv, NextRequest
  PROVE  Known' /\ Tally' /\ MadeOK'
<1> USE DEF PastManagers, PastSystem, PastDIMMs, PastProcessors, PastStorage, PastFirmware
<1>1. stage \in {"pool", "error"} /\ turn = "full" /\ UNCHANGED <<dev, excludes, made>>
  BY DEF NextRequest
<1>2. ~made["partial"].pool
  BY <1>1 DEF CInv, MadeOK, Partial
<1>3. MadeOK'
  <2>1. \A x : InFull(x)' = InFull(x)
    BY <1>1 DEF InFull, Drives, SmartDrives
  <2> QED BY <1>1, <1>2, <2>1 DEF CInv, MadeOK
<1>4. \/ /\ turn' = "over"
         /\ UNCHANGED <<want, stage, sys, virtual, found, manager, tasks, gaps>>
      \/ turn' = "partial" /\ Fresh
  BY DEF NextRequest
<1>5. CASE /\ turn' = "over"
           /\ UNCHANGED <<want, stage, sys, virtual, found, manager, tasks, gaps>>
  <2>1. ~Partial /\ ~Partial'
    BY <1>1, <1>5 DEF Partial
  <2>2. /\ NeedSystem' = NeedSystem /\ WantsDrives' = WantsDrives
        /\ Wants({"firmware", "system"})' = Wants({"firmware", "system"})
    BY <1>5 DEF NeedSystem, WantsDrives, Wants
  <2>3. Final' = Final
    BY <1>1, <1>5, <2>2 DEF Smart, Final
  <2>4. Known'
    BY <1>1, <1>5, <2>1, <2>2, <2>3 DEF CInv, Known
  <2>5. Tally'
    <3> SUFFICES ASSUME stage' # "error", NEW x \in Sources
                 PROVE  Count(tasks', x) = IF stage' \in After(x)' THEN Due(x)' ELSE 0
      BY DEF Tally
    <3>1. Due(x)' = Due(x)
      BY <1>1, <1>5, <2>1 DEF Due, Linked
    <3>2. After(x)' = After(x)
      BY <2>1 DEF After
    <3> QED BY <1>5, <3>1, <3>2, TallyOf
  <2> QED BY <1>3, <2>4, <2>5
<1>6. CASE turn' = "partial" /\ Fresh
  <2>1. stage' = "managers" /\ tasks' = <<>> /\ gaps' = {} /\ Partial'
    BY <1>6 DEF Fresh, Partial
  <2>2. Known'
    BY <1>6, <2>1 DEF Known, Partial
  <2>3. Tally'
    <3> SUFFICES ASSUME NEW x \in Sources
                 PROVE  Count(tasks', x) = IF stage' \in After(x)' THEN Due(x)' ELSE 0
      BY DEF Tally
    <3>1. stage' \notin After(x)'
      BY <2>1 DEF After
    <3> QED BY <2>1, <3>1, CountEmpty
  <2> QED BY <1>3, <2>2, <2>3
<1> QED BY <1>4, <1>5, <1>6

LEMMA CInvInit == Init => CInv
<1> SUFFICES ASSUME Init PROVE CInv
  OBVIOUS
<1>1. stage = "managers" /\ turn = "full" /\ tasks = <<>> /\ gaps = {} /\ want = Components
      /\ made = [t \in {"full", "partial"} |-> NotMade]
  BY DEF Init
<1>2. Known
  BY <1>1 DEF Known, Partial, PastManagers, PastSystem, PastDIMMs, PastProcessors, PastStorage,
              PastFirmware
<1>3. Tally
  <2> SUFFICES ASSUME NEW x \in Sources
               PROVE  Count(tasks, x) = IF stage \in After(x) THEN Due(x) ELSE 0
    BY DEF Tally
  <2>1. stage \notin After(x)
    BY <1>1 DEF After, PastSystem, PastDIMMs, PastProcessors, PastStorage, PastFirmware
  <2> QED BY <1>1, <2>1, CountEmpty
<1>4. MadeOK
  BY <1>1 DEF MadeOK, NotMade
<1> QED BY <1>2, <1>3, <1>4, TInvInit DEF CInv

LEMMA CInvStep ==
  ASSUME CInv, [Next]_vars
  PROVE  CInv'
<1>1. TInv'
  BY TInvStep DEF CInv
<1>2. CASE UNCHANGED vars
  <2>1. Partial' = Partial /\ \A cs : Wants(cs)' = Wants(cs)
    BY <1>2 DEF vars, Partial, Wants
  <2>2. NeedSystem' = NeedSystem /\ WantsDrives' = WantsDrives
    BY <1>2 DEF vars, NeedSystem, WantsDrives, Wants
  <2>3. Smart' = Smart /\ Final' = Final
    BY <1>2, <2>2 DEF vars, Smart, Final
  <2>4. Known'
    BY <1>2, <2>1, <2>2, <2>3 DEF vars, CInv, Known
  <2>5. \A x : After(x)' = After(x) /\ Due(x)' = Due(x) /\ InFull(x)' = InFull(x)
    BY <1>2, <2>1 DEF vars, After, Due, Linked, InFull, Drives, SmartDrives
  <2>6. Tally'
    BY <1>2, <2>5 DEF vars, CInv, Tally
  <2>7. MadeOK'
    BY <1>2, <2>1, <2>5 DEF vars, CInv, MadeOK
  <2> QED BY <1>1, <2>4, <2>6, <2>7 DEF CInv
<1>3. CASE Assemble \/ NextRequest
  BY <1>1, <1>3, AssembleCounts, NextRequestCounts DEF CInv
<1>4. CASE \/ GetManagers \/ GetEndpoints \/ GetVolumes \/ GetSystem \/ GetDIMMs
           \/ GetProcessors \/ GetSmartStorage \/ GetStorage \/ GetFirmware
  <2>1. Known' /\ Tally'
    BY <1>4, EarlyCounts, SystemCounts, CollectionCounts, SmartCounts, StorageCounts,
       FirmwareCounts
  <2>2. Keep /\ stage # "pool"
    BY <1>4 DEF GetManagers, GetEndpoints, GetVolumes, GetSystem, GetDIMMs, GetProcessors,
                GetSmartStorage, GetStorage, GetFirmware
  <2> QED BY <1>1, <2>1, <2>2, MadeKept DEF CInv
<1> QED BY <1>2, <1>3, <1>4 DEF Next

LEMMA CInvAlways == Spec => []CInv
BY CInvInit, CInvStep, PTL DEF Spec

-----------------------------------------------------------------------------

\* A BMC of which some manager is no CIMC has a manager that is chosen.
LEMMA ManagerChosen ==
  ASSUME NEW ms \in Seq({"CIMC", "plain"}), ms # <<>>, NEW n \in DOMAIN ms, ms[n] # "CIMC"
  PROVE  ManagerOf(ms) # ""
<1>1. ms[n] = "plain" /\ n \in 1..Len(ms) /\ Len(ms) \in Nat
  OBVIOUS
<1>2. CASE Len(ms) > 1
  <2>1. ManagerOf(ms) = "plain"
    BY <1>1, <1>2 DEF ManagerOf
  <2> QED BY <2>1
<1>3. CASE Len(ms) = 1
  <2>1. n = 1
    BY <1>1, <1>3
  <2>2. ManagerOf(ms) = "plain"
    BY <1>1, <1>3, <2>1 DEF ManagerOf
  <2> QED BY <2>2
<1>4. Len(ms) > 1 \/ Len(ms) = 1
  <2> DEFINE k == Len(ms)
  <2>1. n \in 1..k /\ k \in Nat
    BY <1>1
  <2> HIDE DEF k
  <2>2. k > 1 \/ k = 1
    BY <2>1
  <2> QED BY <2>2 DEF k
<1> QED BY <1>2, <1>3, <1>4

-----------------------------------------------------------------------------

\* Every variable keeps its type, whatever the BMC offers and whichever calls
\* fail.  (exporter.go:120-456, partial_exporter.go:95-409)
THEOREM TasksTypeOK == Spec => []TypeOK
<1>1. TInv => TypeOK
  BY DEF TInv
<1> QED BY <1>1, TInvInit, TInvStep, PTL DEF Spec

\* For any BMC and whichever calls fail, an exporter with a pool has a task for
\* every part of the BMC it was asked for, except that a partial one may have
\* none for the DIMMs or processors.  (exporter.go:299-311, 391-443,
\* partial_exporter.go:225-274)
THEOREM TasksWholeOrNothing == Spec => []WholeOrNothing
<1> DEFINE parts == {"power", "thermal", "drive", "storageController", "dimm", "processor"}
<1>1. CInv => WholeOrNothing
  <2> SUFFICES ASSUME CInv, NEW t \in {"full", "partial"}, made[t].pool, NEW x \in parts,
                      t = "full" \/ ComponentOf(x) \in want
               PROVE  \/ Count(made[t].tasks, x) = Whole(x)
                      \/ /\ t = "partial"
                         /\ x \in {"dimm", "processor"}
                         /\ x \in made[t].gaps \/ dev.systems = 0
                         /\ Count(made[t].tasks, x) = 0
    BY DEF WholeOrNothing
  <2>1. x \in Sources /\ x # "virtualDrive"
    BY DEF Sources
  <2>2. CASE t = "full"
    <3>1. Count(made[t].tasks, x) = InFull(x)
      BY <2>1, <2>2 DEF CInv, MadeOK
    <3>2. InFull(x) = Whole(x)
      BY DEF InFull, Whole
    <3> QED BY <3>1, <3>2
  <2>3. CASE t = "partial"
    <3>1. Partial /\ stage = "pool" /\ made[t].tasks = tasks /\ made[t].gaps = gaps
      BY <2>3 DEF CInv, MadeOK
    <3>2. stage \in After(x)
      BY <2>1, <3>1 DEF After, Sources, PastSystem, PastDIMMs, PastProcessors, PastStorage,
                        PastFirmware
    <3>3. Count(made[t].tasks, x) = Due(x)
      BY <2>1, <3>1, <3>2, TallyOf
    <3>4. ComponentOf(x) \in want
      BY <2>3
    <3>5. CASE x \in {"power", "thermal", "drive", "storageController"}
      <4>1. Due(x) = Whole(x)
        BY <3>4, <3>5 DEF Due, Whole, ComponentOf
      <4> QED BY <3>3, <4>1
    <3>6. CASE x \in {"dimm", "processor"}
      <4>1. NeedSystem
        BY <3>4, <3>6 DEF NeedSystem, Wants, ComponentOf, Components
      <4>2. sys <=> dev.systems > 0
        BY <3>1, <4>1 DEF CInv, Known, PastSystem, PastDIMMs, PastProcessors, PastStorage,
                          PastFirmware
      <4>3. dev.systems \in Nat
        BY DevicesAssumption DEF CInv, TInv, TypeOK, DeviceType
      <4>4. CASE sys /\ x \notin gaps
        <5>1. Due(x) = Whole(x)
          BY <3>4, <3>6, <4>4 DEF Due, Whole, ComponentOf
        <5> QED BY <3>3, <5>1
      <4>5. CASE ~sys \/ x \in gaps
        <5>1. Due(x) = 0
          BY <3>6, <4>5 DEF Due
        <5>2. x \in made[t].gaps \/ dev.systems = 0
          BY <3>1, <4>2, <4>3, <4>5
        <5> QED BY <2>3, <3>3, <3>6, <5>1, <5>2
      <4> QED BY <4>4, <4>5
    <3> QED BY <3>5, <3>6
  <2> QED BY <2>2, <2>3
<1> QED BY <1>1, CInvAlways, PTL

\* For any BMC, any patterns and any components that are asked for, a partial
\* scrape makes the tasks of a full scrape, each as often, except for those the
\* property names.  (exporter.go:223-444, partial_exporter.go:158-395)
THEOREM TasksPartialAsFull == Spec => []PartialAsFull
<1>1. CInv => PartialAsFull
  <2> SUFFICES ASSUME CInv, made["full"].pool, made["partial"].pool, NEW x \in Sources
               PROVE  IF ComponentOf(x) \in want
                      THEN MayDiffer(x) \/ Count(made["partial"].tasks, x)
                                             = Count(made["full"].tasks, x)
                      ELSE Count(made["partial"].tasks, x) = 0
    BY DEF PartialAsFull
  <2>1. /\ Partial /\ stage = "pool"
        /\ made["partial"].tasks = tasks /\ made["partial"].gaps = gaps
        /\ dev.managers # <<>> /\ dev.systems > 0
        /\ x # "virtualDrive" => Count(made["full"].tasks, x) = InFull(x)
    BY DEF CInv, MadeOK
  <2>2. Count(tasks, x) = Due(x)
    <3>1. stage \in After(x)
      BY <2>1 DEF After, Sources, PastSystem, PastDIMMs, PastProcessors, PastStorage, PastFirmware
    <3> QED BY <2>1, <3>1, TallyOf
  <2>3. /\ sys <=> NeedSystem
        /\ found = Final
        /\ manager = IF Wants({"firmware", "system"}) THEN ManagerOf(dev.managers) ELSE ""
    BY <2>1 DEF CInv, Known, PastManagers, PastSystem, PastDIMMs, PastProcessors, PastStorage,
                PastFirmware
  <2>4. want \subseteq Components
    BY DEF CInv, TInv, TypeOK
  <2>5. CASE ComponentOf(x) \notin want
    <3>1. Due(x) = 0
      BY <2>1, <2>5 DEF Due, ComponentOf, Sources
    <3> QED BY <2>1, <2>2, <2>5, <3>1
  <2>6. CASE ComponentOf(x) \in want /\ ~MayDiffer(x)
    <3>1. x # "virtualDrive" /\ x \notin gaps
      BY <2>1, <2>6 DEF MayDiffer
    <3>2. Due(x) = InFull(x)
      <4>1. CASE x \in {"firmwareInventory", "inventory"}
        <5>1. NeedSystem /\ "firmware" \in want /\ (x = "inventory" => "firmware" \in excludes)
          BY <2>6, <4>1 DEF MayDiffer, ComponentOf
        <5>2. sys = TRUE
          BY <2>3, <5>1 DEF CInv, TInv, TypeOK
        <5> QED BY <2>1, <3>1, <4>1, <5>1, <5>2 DEF Due, InFull, Linked
      <4>2. CASE x = "manager"
        <5>1. "firmware" \in want
          BY <2>6, <4>2 DEF ComponentOf
        <5>2. PICK n \in DOMAIN dev.managers : dev.managers[n] # "CIMC"
          BY <2>6, <4>2 DEF MayDiffer
        <5>3. ManagerOf(dev.managers) # ""
          BY <2>1, <5>2, ManagerChosen, DeviceFacts DEF CInv, TInv
        <5>4. manager # ""
          BY <2>3, <5>1, <5>3 DEF Wants
        <5> QED BY <2>1, <4>2, <5>1, <5>4 DEF Due, InFull
      <4>3. CASE x \notin {"firmwareInventory", "inventory", "manager"}
        <5>1. ComponentOf(x) # "firmware" /\ ComponentOf(x) \in want
          BY <2>6, <3>1, <4>3 DEF ComponentOf, Sources
        <5>2. NeedSystem
          BY <2>4, <5>1 DEF NeedSystem, Wants
        <5>3. sys = TRUE
          BY <2>3, <5>2 DEF CInv, TInv, TypeOK
        <5>4. CASE x \in {"arrayController", "logicalDrive", "physicalDrive"}
          <6>1. WantsDrives
            BY <5>1, <5>4 DEF WantsDrives, Wants, ComponentOf
          <6>2. found = Drives
            BY <2>3, <5>3, <6>1 DEF Final, Smart, Drives, SmartDrives
          <6> QED BY <5>1, <5>4, <6>2 DEF Due, InFull, ComponentOf
        <5>5. CASE x \notin {"arrayController", "logicalDrive", "physicalDrive"}
          BY <3>1, <4>3, <5>1, <5>3, <5>5 DEF Due, InFull, ComponentOf, Sources
        <5> QED BY <5>4, <5>5
      <4> QED BY <4>1, <4>2, <4>3
    <3> QED BY <2>1, <2>2, <2>6, <3>1, <3>2
  <2> QED BY <2>5, <2>6
<1> QED BY <1>1, CInvAlways, PTL

\* For any BMC, a pool for its drives has tasks for some if the BMC shows any.
\* (exporter.go:317-338, partial_exporter.go:277-299)
THEOREM TasksDrivesNotMissed == Spec => []DrivesNotMissed
<1>1. CInv => DrivesNotMissed
  <2> SUFFICES ASSUME CInv, stage = "pool", sys, "drives" \in want,
                      \/ dev.drives > 0
                      \/ dev.smart.there /\ dev.smart.physical > 0
                      \/ dev.storage.there /\ dev.storage.physical > 0
               PROVE  Count(tasks, "drive") + Count(tasks, "physicalDrive") > 0
    BY DEF DrivesNotMissed
  <2>1. \A x \in Sources : Count(tasks, x) = Due(x)
    <3> SUFFICES ASSUME NEW x \in Sources PROVE Count(tasks, x) = Due(x)
      OBVIOUS
    <3>1. stage \in After(x)
      BY DEF After, Sources, PastSystem, PastDIMMs, PastProcessors, PastStorage, PastFirmware
    <3> QED BY <3>1, TallyOf
  <2>2. Count(tasks, "drive") = dev.drives /\ Count(tasks, "physicalDrive") = found.physical
    <3>1. "drive" \in Sources /\ "physicalDrive" \in Sources
      BY DEF Sources
    <3>2. Due("drive") = dev.drives /\ Due("physicalDrive") = found.physical
      BY DEF Due
    <3> QED BY <2>1, <3>1, <3>2
  <2>3. found = Final
    BY DEF CInv, Known, PastStorage, PastFirmware
  <2>4. /\ dev.drives \in Nat /\ found.physical \in Nat
        /\ dev.smart.physical \in Nat /\ dev.storage.physical \in Nat
        /\ dev.smart.there \in BOOLEAN /\ dev.storage.there \in BOOLEAN
    BY DeviceFacts DEF CInv, TInv, TypeOK, DriveLists
  <2>5. WantsDrives
    BY DEF WantsDrives, Wants
  <2>6. dev.drives + found.physical > 0
    <3>1. CASE dev.drives > 0
      BY <2>4, <3>1
    <3>2. CASE dev.drives = 0
      <4>1. Smart.physical = IF dev.smart.there THEN dev.smart.physical ELSE 0
        BY <2>5 DEF Smart, NoDrives
      <4>2. Smart.physical > 0 => Final = Smart \/ (dev.storage.there /\ ~dev.smart.there)
        BY <4>1, <2>4 DEF Final
      <4>3. CASE Smart.physical > 0
        <5>1. dev.smart.there
          BY <4>1, <4>3
        <5> QED BY <2>3, <2>4, <3>2, <4>2, <4>3, <5>1
      <4>4. CASE ~(Smart.physical > 0)
        <5>1. Smart.physical = 0
          BY <2>4, <4>1, <4>4
        <5>2. dev.storage.there /\ dev.storage.physical > 0
          BY <2>4, <3>2, <4>1, <4>4
        <5>3. Final = dev.storage
          BY <2>5, <3>2, <5>1, <5>2 DEF Final
        <5> QED BY <2>3, <2>4, <3>2, <5>2, <5>3
      <4> QED BY <4>3, <4>4
    <3> QED BY <2>4, <3>1, <3>2
  <2> QED BY <2>2, <2>6
<1> QED BY <1>1, CInvAlways, PTL
=============================================================================
