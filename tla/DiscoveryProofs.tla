--------------------------- MODULE DiscoveryProofs ---------------------------
(***************************************************************************)
(* Proofs about the two helpers of discovery, for every BMC: any number of *)
(* chassis, links, controllers and drives.                                 *)
(***************************************************************************)
EXTENDS Discovery, TLAPS

-----------------------------------------------------------------------------
(* getSystemEndpoints.                                                     *)

\* A chassis up to the one at hand has this link in this slot.
From(s, url) ==
  \E c \in 1..Len(tree) :
    /\ c <= pos
    /\ tree[c][s].form # "absent"
    /\ \E n \in DOMAIN tree[c][s].urls : tree[c][s].urls[n] = url

\* The one Chassis variable holds nothing else.
ChassisOK == \A s \in Slots : \A n \in DOMAIN chas[s] : From(s, chas[s][n])

EInv == ETypeOK /\ ChassisOK /\ NoDuplicates /\ OnlyOffered

LEMMA SlotTypes == \A s \in Slots : KindOf[s] \in Kinds
  BY DEF Slots, KindOf, Kinds

LEMMA AppendElements ==
  ASSUME NEW l \in Seq(Urls), NEW url \in Urls, NEW n \in DOMAIN Append(l, url)
  PROVE  \/ n \in DOMAIN l /\ Append(l, url)[n] = l[n]
         \/ n = Len(l) + 1 /\ Append(l, url)[n] = url
  OBVIOUS

LEMMA SlashType == \A url \in Urls : appendSlash(url) \in Urls
  BY DEF Urls, appendSlash

\* Unmarshalling a body on top of what the variable holds gives links of either.
LEMMA DecodeType ==
  ASSUME NEW old \in [Slots -> Seq(Urls)], NEW body \in ChassisBodies
  PROVE  /\ Decode(old, body) \in [Slots -> Seq(Urls)]
         /\ \A s \in Slots : \A n \in DOMAIN Decode(old, body)[s] :
              \/ \E m \in DOMAIN old[s] : Decode(old, body)[s][n] = old[s][m]
              \/ /\ body[s].form # "absent"
                 /\ \E m \in DOMAIN body[s].urls : Decode(old, body)[s][n] = body[s].urls[m]
<1> SUFFICES ASSUME NEW s \in Slots
             PROVE  /\ Decode(old, body)[s] \in Seq(Urls)
                    /\ \A n \in DOMAIN Decode(old, body)[s] :
                         \/ \E m \in DOMAIN old[s] : Decode(old, body)[s][n] = old[s][m]
                         \/ /\ body[s].form # "absent"
                            /\ \E m \in DOMAIN body[s].urls :
                                 Decode(old, body)[s][n] = body[s].urls[m]
  BY DEF Decode
<1>1. /\ body[s] \in [form : Forms, urls : Seq(Urls)]
      /\ old[s] \in Seq(Urls)
  BY DEF ChassisBodies
<1>2. body[s].form \in Forms /\ body[s].urls \in Seq(Urls)
  BY <1>1
<1>3. CASE body[s].form = "absent"
  <2>1. Decode(old, body)[s] = old[s]
    BY <1>3 DEF Decode
  <2> QED BY <1>1, <2>1
<1>4. CASE body[s].form = "links"
  <2>1. Decode(old, body)[s] = old[s] \o body[s].urls
    BY <1>4 DEF Decode
  <2>2. \A n \in DOMAIN (old[s] \o body[s].urls) :
          \/ \E m \in DOMAIN old[s] : (old[s] \o body[s].urls)[n] = old[s][m]
          \/ \E m \in DOMAIN body[s].urls : (old[s] \o body[s].urls)[n] = body[s].urls[m]
    <3> DEFINE o == old[s]
               b == body[s].urls
    <3>1. o \in Seq(Urls) /\ b \in Seq(Urls)
      BY <1>1, <1>2
    <3> HIDE DEF o, b
    <3>2. ASSUME NEW n \in DOMAIN (o \o b)
          PROVE  \/ \E m \in DOMAIN o : (o \o b)[n] = o[m]
                 \/ \E m \in DOMAIN b : (o \o b)[n] = b[m]
      <4>1. n \in 1..(Len(o) + Len(b))
        BY <3>1
      <4>2. CASE n <= Len(o)
        BY <3>1, <4>1, <4>2
      <4>3. CASE n > Len(o)
        <5>1. (o \o b)[n] = b[n - Len(o)] /\ n - Len(o) \in DOMAIN b
          BY <3>1, <4>1, <4>3
        <5> QED BY <5>1
      <4> QED BY <3>1, <4>1, <4>2, <4>3
    <3> QED BY <3>2 DEF o, b
  <2> QED BY <1>1, <1>2, <1>4, <2>1, <2>2
<1>5. CASE body[s].form = "strings"
  <2>1. Decode(old, body)[s] = body[s].urls
    BY <1>5 DEF Decode
  <2> QED BY <1>2, <1>5, <2>1
<1> QED BY <1>2, <1>3, <1>4, <1>5 DEF Forms

LEMMA EInitInv == EInit \/ EOff => EInv
<1> SUFFICES ASSUME EInit \/ EOff PROVE EInv
  OBVIOUS
<1>1. tree \in Seq(ChassisBodies)
  <2>1. CASE EInit
    BY <2>1, TreesAssumption DEF EInit
  <2>2. CASE EOff
    <3>1. tree = <<>>
      BY <2>2 DEF EOff
    <3> QED BY <3>1
  <2> QED BY <2>1, <2>2
<1>2. chas = [s \in Slots |-> <<>>] /\ sysEnd = [k \in Kinds |-> <<>>]
  BY DEF EInit, EOff
<1>3. ETypeOK
  <2>1. chas \in [Slots -> Seq(Urls)] /\ sysEnd \in [Kinds -> Seq(Urls)]
    BY <1>2
  <2>2. pos = 1 /\ slot = 1 /\ at = 1 /\ epc \in {"off", "get"}
    BY DEF EInit, EOff
  <2>3. nested \in BOOLEAN
    BY DEF EInit, EOff
  <2> QED BY <1>1, <2>1, <2>2, <2>3 DEF ETypeOK
<1> QED BY <1>2, <1>3 DEF EInv, ChassisOK, NoDuplicates, OnlyOffered

\* Reading a chassis adds its links to what the variable may hold.
LEMMA GetChassisInv == EInv /\ GetChassis => EInv'
<1> SUFFICES ASSUME EInv, GetChassis PROVE EInv'
  OBVIOUS
<1>1. CASE epc' = "failed"
  BY <1>1 DEF GetChassis, EInv, ETypeOK, ChassisOK, From, NoDuplicates, OnlyOffered, Offers
<1>2. CASE epc' # "failed"
  <2>1. /\ pos \in 1..Len(tree) /\ chas' = Decode(chas, tree[pos])
        /\ slot' = 1 /\ at' = 1 /\ epc' = "walk"
        /\ UNCHANGED <<tree, pos, sysEnd, nested>>
    BY <1>2 DEF GetChassis, EInv, ETypeOK
  <2>2. chas \in [Slots -> Seq(Urls)] /\ tree[pos] \in ChassisBodies
    BY <2>1 DEF EInv, ETypeOK
  <2>3. ETypeOK'
    BY <2>1, <2>2, DecodeType DEF EInv, ETypeOK
  <2>4. ChassisOK'
    <3> SUFFICES ASSUME NEW s \in Slots, NEW n \in DOMAIN chas'[s]
                 PROVE  From(s, chas[s][n])'
      BY DEF ChassisOK
    <3>1. CASE \E m \in DOMAIN chas[s] : chas'[s][n] = chas[s][m]
      BY <2>1, <3>1 DEF EInv, ChassisOK, From
    <3>2. CASE /\ tree[pos][s].form # "absent"
               /\ \E m \in DOMAIN tree[pos][s].urls : chas'[s][n] = tree[pos][s].urls[m]
      BY <2>1, <3>2 DEF From
    <3> QED BY <2>1, <2>2, <3>1, <3>2, DecodeType
  <2>5. NoDuplicates' /\ OnlyOffered'
    BY <2>1 DEF EInv, NoDuplicates, OnlyOffered, Offers
  <2> QED BY <2>3, <2>4, <2>5 DEF EInv
<1> QED BY <1>1, <1>2

\* A link enters the list of its kind unless it is there.
LEMMA TakeLinkInv == EInv /\ TakeLink => EInv'
<1> SUFFICES ASSUME EInv, TakeLink PROVE EInv'
  OBVIOUS
<1> DEFINE link == chas[slot][at]
           url == appendSlash(link)
           k == KindOf[slot]
           list == sysEnd[k]
<1>1. /\ slot \in Slots /\ at \in DOMAIN chas[slot] /\ at' = at + 1
      /\ UNCHANGED <<tree, pos, chas, slot, nested, epc>>
      /\ sysEnd' = IF Wanted(slot, url) /\ checkUnique(list, url)
                   THEN [sysEnd EXCEPT ![k] = Append(list, url)] ELSE sysEnd
  BY DEF TakeLink, EInv, ETypeOK
<1>2. k \in Kinds /\ link \in Urls /\ url \in Urls /\ list \in Seq(Urls)
  BY <1>1, SlotTypes, SlashType DEF EInv, ETypeOK
<1>3. ChassisOK'
  BY <1>1 DEF EInv, ChassisOK, From
<1>4. CASE sysEnd' = sysEnd
  <2>1. ETypeOK'
    <3>1. at' \in Nat \ {0}
      BY <1>1 DEF EInv, ETypeOK
    <3> QED BY <1>1, <1>4, <3>1 DEF EInv, ETypeOK
  <2>2. NoDuplicates' /\ OnlyOffered'
    BY <1>1, <1>4 DEF EInv, NoDuplicates, OnlyOffered, Offers
  <2> QED BY <1>3, <2>1, <2>2 DEF EInv
<1>5. CASE /\ sysEnd' = [sysEnd EXCEPT ![k] = Append(list, url)]
           /\ Wanted(slot, url) /\ checkUnique(list, url)
  <2>1. /\ sysEnd'[k] = Append(list, url)
        /\ \A j \in Kinds \ {k} : sysEnd'[j] = sysEnd[j]
        /\ sysEnd' \in [Kinds -> Seq(Urls)]
    BY <1>2, <1>5 DEF EInv, ETypeOK
  <2>2. ETypeOK'
    BY <1>1, <2>1 DEF EInv, ETypeOK
  <2>3. \A n \in DOMAIN sysEnd'[k] :
          \/ n \in DOMAIN list /\ sysEnd'[k][n] = list[n]
          \/ n = Len(list) + 1 /\ sysEnd'[k][n] = url
    <3>1. ASSUME NEW n \in DOMAIN Append(list, url)
          PROVE  \/ n \in DOMAIN list /\ Append(list, url)[n] = list[n]
                 \/ n = Len(list) + 1 /\ Append(list, url)[n] = url
      <4> HIDE DEF list, url
      <4> QED BY <1>2, AppendElements
    <3>2. sysEnd'[k] = Append(list, url)
      BY <2>1
    <3> HIDE DEF list, url, k
    <3> QED BY <3>1, <3>2
  <2>4. \A n \in DOMAIN list : list[n] # url
    BY <1>5 DEF checkUnique, Has
  <2>5. NoDuplicates'
    <3> SUFFICES ASSUME NEW j \in Kinds, NEW m \in DOMAIN sysEnd'[j], NEW n \in DOMAIN sysEnd'[j],
                        sysEnd'[j][m] = sysEnd'[j][n]
                 PROVE  m = n
      BY DEF NoDuplicates
    <3>1. CASE j = k
      <4>1. \A x, y \in DOMAIN list : list[x] = list[y] => x = y
        BY <1>2 DEF EInv, NoDuplicates
      <4> QED BY <2>3, <2>4, <3>1, <4>1
    <3>2. CASE j # k
      BY <2>1, <3>2 DEF EInv, NoDuplicates
    <3> QED BY <3>1, <3>2
  <2>6. /\ k = "drives" => url[1] \notin Excluded
        /\ \E c \in 1..Len(tree), s \in Slots : c <= pos /\ KindOf[s] = k /\ Offers(c, s, url)
    <3>1. From(slot, link)
      BY <1>1 DEF EInv, ChassisOK
    <3> QED BY <1>1, <1>5, <3>1 DEF From, Offers, Wanted
  <2>7. OnlyOffered'
    <3> SUFFICES ASSUME NEW j \in Kinds, NEW n \in DOMAIN sysEnd'[j]
                 PROVE  /\ j = "drives" => sysEnd'[j][n][1] \notin Excluded
                        /\ \E c \in 1..Len(tree), s \in Slots :
                             c <= pos /\ KindOf[s] = j /\ Offers(c, s, sysEnd'[j][n])
      BY <1>1 DEF OnlyOffered, Offers
    <3>1. CASE j = k /\ n \in DOMAIN list /\ sysEnd'[k][n] = list[n]
      BY <1>2, <3>1 DEF EInv, OnlyOffered
    <3>2. CASE j = k /\ sysEnd'[k][n] = url
      BY <2>6, <3>2
    <3>3. CASE j # k
      BY <2>1, <3>3 DEF EInv, OnlyOffered
    <3> QED BY <2>3, <3>1, <3>2, <3>3
  <2> QED BY <1>3, <2>2, <2>5, <2>7 DEF EInv
<1> QED BY <1>1, <1>4, <1>5

LEMMA EStepInv == EInv /\ ENext => EInv'
<1> SUFFICES ASSUME EInv, ENext PROVE EInv'
  OBVIOUS
<1>1. CASE AllRead
  BY <1>1 DEF AllRead, EInv, ETypeOK, ChassisOK, From, NoDuplicates, OnlyOffered, Offers
<1>2. CASE NextSlot
  <2>1. ETypeOK'
    <3>1. nested' \in BOOLEAN
      BY <1>2 DEF NextSlot, NestedNow, EInv, ETypeOK
    <3>2. slot' \in 1..13 /\ at' \in Nat \ {0}
      BY <1>2 DEF NextSlot, Slots
    <3> QED BY <1>2, <3>1, <3>2 DEF NextSlot, EInv, ETypeOK
  <2> QED BY <1>2, <2>1 DEF NextSlot, EInv, ChassisOK, From, NoDuplicates, OnlyOffered, Offers
<1>3. CASE NextChassis
  <2>1. ETypeOK' /\ pos' = pos + 1 /\ UNCHANGED <<tree, chas, sysEnd>> /\ pos \in Nat
    BY <1>3 DEF NextChassis, EInv, ETypeOK
  <2>2. \A c \in 1..Len(tree) : c <= pos => c <= pos'
    BY <2>1 DEF EInv, ETypeOK
  <2>3. ChassisOK'
    BY <2>1, <2>2 DEF EInv, ChassisOK, From
  <2>4. NoDuplicates' /\ OnlyOffered'
    BY <2>1, <2>2 DEF EInv, NoDuplicates, OnlyOffered, Offers
  <2> QED BY <2>1, <2>3, <2>4 DEF EInv
<1> QED BY <1>1, <1>2, <1>3, GetChassisInv, TakeLinkInv DEF ENext

-----------------------------------------------------------------------------
(* What getSystemEndpoints must not lose: where each link is in the walk.  *)

\* A link that has to be listed sooner or later.
Due(c, s, p) ==
  /\ Offers(c, s, <<p, TRUE>>)
  /\ Wanted(s, <<p, TRUE>>)
  /\ s \in Nested => FirstNested(c, s)

Listed(s, p) == Has(sysEnd[KindOf[s]], <<p, TRUE>>)

\* The slots that the walk has behind it, and those it has reached.
Walked(c, s) == c < pos \/ (c = pos /\ epc = "walk" /\ s < slot)
Reached(c, s) == c < pos \/ (c = pos /\ epc = "walk" /\ s <= slot)

WalkedListed ==
  \A c \in 1..Len(tree), s \in Slots, p \in Paths :
    Walked(c, s) /\ Due(c, s, p) => Listed(s, p)

\* The one Chassis variable holds all that the chassis at hand offers.
HoldsAll ==
  epc = "walk" =>
    /\ pos \in 1..Len(tree)
    /\ \A s \in Slots, p \in Paths :
         Offers(pos, s, <<p, TRUE>>) => \E n \in DOMAIN chas[s] : chas[s][n][1] = p

\* Of the slot at hand the links before the next one are listed.
TakenListed ==
  epc = "walk" /\ slot \in Slots /\ ~Skipped =>
    \A n \in DOMAIN chas[slot] :
      n < at /\ Wanted(slot, appendSlash(chas[slot][n])) => Listed(slot, chas[slot][n][1])

\* What is listed comes from a slot that has been reached.
ReachedOnly ==
  \A k \in Kinds : \A n \in DOMAIN sysEnd[k] :
    \E c \in 1..Len(tree), s \in Slots :
      KindOf[s] = k /\ Reached(c, s) /\ Offers(c, s, sysEnd[k][n])

\* Nested links are passed over only after others of their kind.
PassedOver == epc = "walk" /\ slot \in Nested /\ ~nested => ~FirstNested(pos, slot)

AtEnd == epc = "done" => pos > Len(tree)

PlaceOK ==
  WalkedListed /\ HoldsAll /\ TakenListed /\ ReachedOnly /\ PassedOver /\ AtEnd

LEMMA SlotKinds ==
  /\ \A r \in Slots : KindOf[r] = "power" /\ r <= 4 => r \in TopLevel
  /\ \A r \in Slots : KindOf[r] = "thermal" /\ r <= 6 => r \in TopLevel
  /\ KindOf[5] = "power" /\ KindOf[6] = "power"
  /\ KindOf[7] = "thermal" /\ KindOf[8] = "thermal"
  BY DEF Slots, KindOf, TopLevel

\* What is due depends on the tree alone.
LEMMA SameTree ==
  ASSUME tree' = tree
  PROVE  /\ \A c, s, url : Offers(c, s, url)' <=> Offers(c, s, url)
         /\ \A c, s : FirstNested(c, s)' <=> FirstNested(c, s)
         /\ \A c, s, p : Due(c, s, p)' <=> Due(c, s, p)
<1>1. \A c, s, url : Offers(c, s, url)' <=> Offers(c, s, url)
  BY DEF Offers
<1>2. \A c, s : FirstNested(c, s)' <=> FirstNested(c, s)
  BY DEF FirstNested, Offers
<1>3. \A c, s, p : Due(c, s, p)' <=> Due(c, s, p)
  BY <1>1, <1>2 DEF Due, Wanted
<1> QED BY <1>1, <1>2, <1>3

\* A list has a URL once it is appended, and keeps what it has.
LEMMA HasAppended ==
  ASSUME NEW l \in Seq(Urls), NEW url \in Urls
  PROVE  /\ Has(Append(l, url), url)
         /\ \A u : Has(l, u) => Has(Append(l, url), u)
<1>1. /\ Len(l) + 1 \in DOMAIN Append(l, url) /\ Append(l, url)[Len(l) + 1] = url
      /\ \A n \in DOMAIN l : n \in DOMAIN Append(l, url) /\ Append(l, url)[n] = l[n]
  OBVIOUS
<1> QED BY <1>1 DEF Has

\* Whatever a step leaves of the walk, what it has listed stays listed.
LEMMA ListedStays ==
  ASSUME EInv, ENext, NEW s \in Slots, NEW p \in Paths, Listed(s, p)
  PROVE  Listed(s, p)'
<1>1. CASE TakeLink
  <2> DEFINE url == appendSlash(chas[slot][at])
             k == KindOf[slot]
  <2>1. /\ slot \in Slots /\ at \in DOMAIN chas[slot]
        /\ sysEnd' = IF Wanted(slot, url) /\ checkUnique(sysEnd[k], url)
                     THEN [sysEnd EXCEPT ![k] = Append(@, url)] ELSE sysEnd
    BY <1>1 DEF TakeLink, EInv, ETypeOK
  <2>2. k \in Kinds /\ url \in Urls /\ sysEnd[k] \in Seq(Urls) /\ KindOf[s] \in Kinds
    BY <2>1, SlotTypes, SlashType DEF EInv, ETypeOK
  <2> HIDE DEF url, k
  <2>3. \/ sysEnd'[KindOf[s]] = sysEnd[KindOf[s]]
        \/ /\ KindOf[s] = k
           /\ sysEnd'[KindOf[s]] = Append(sysEnd[k], url)
    BY <2>1, <2>2 DEF EInv, ETypeOK
  <2> QED BY <2>2, <2>3, HasAppended DEF Listed
<1>2. CASE ~TakeLink
  <2>1. sysEnd' = sysEnd
    BY <1>2 DEF ENext, GetChassis, AllRead, NextSlot, NextChassis
  <2> QED BY <2>1 DEF Listed
<1> QED BY <1>1, <1>2

LEMMA EInitPlace == EInit \/ EOff => PlaceOK
<1> SUFFICES ASSUME EInit \/ EOff PROVE PlaceOK
  OBVIOUS
<1>1. /\ pos = 1 /\ sysEnd = [k \in Kinds |-> <<>>]
      /\ epc \in {"off", "get"}
  BY DEF EInit, EOff
<1>2. \A k \in Kinds : DOMAIN sysEnd[k] = {}
  BY <1>1
<1>3. ReachedOnly
  BY <1>2 DEF ReachedOnly
<1>4. WalkedListed
  BY <1>1 DEF WalkedListed, Walked
<1> QED BY <1>1, <1>3, <1>4 DEF PlaceOK, HoldsAll, TakenListed, PassedOver, AtEnd

\* The body that is read gives its links to the variable, on top of the others.
LEMMA DecodeHolds ==
  ASSUME NEW old \in [Slots -> Seq(Urls)], NEW body \in ChassisBodies,
         NEW s \in Slots, body[s].form # "absent", NEW m \in DOMAIN body[s].urls
  PROVE  \E n \in DOMAIN Decode(old, body)[s] : Decode(old, body)[s][n] = body[s].urls[m]
<1> DEFINE o == old[s]
           b == body[s].urls
<1>1. body[s] \in [form : Forms, urls : Seq(Urls)] /\ o \in Seq(Urls)
  BY DEF ChassisBodies
<1>2. body[s].form \in Forms /\ b \in Seq(Urls)
  BY <1>1
<1>3. CASE body[s].form = "links"
  <2>1. Decode(old, body)[s] = o \o b
    BY <1>3 DEF Decode
  <2> HIDE DEF o, b
  <2>2. ASSUME NEW i \in DOMAIN b
        PROVE  Len(o) + i \in DOMAIN (o \o b) /\ (o \o b)[Len(o) + i] = b[i]
    BY <1>1, <1>2
  <2>3. m \in DOMAIN b
    BY DEF b
  <2> QED BY <2>1, <2>2, <2>3 DEF b
<1>4. CASE body[s].form = "strings"
  BY <1>4 DEF Decode
<1> QED BY <1>2, <1>3, <1>4 DEF Forms

LEMMA GetChassisPlace ==
  ASSUME EInv, PlaceOK, GetChassis
  PROVE  PlaceOK'
<1>1. /\ epc = "get" /\ epc' \in {"walk", "failed"} /\ pos \in 1..Len(tree)
      /\ epc' = "walk" => chas' = Decode(chas, tree[pos]) /\ slot' = 1 /\ at' = 1
      /\ UNCHANGED <<tree, pos, sysEnd, nested>>
  BY DEF GetChassis, EInv, ETypeOK
<1>2. WalkedListed'
  <2>1. \A c \in 1..Len(tree), s \in Slots : Walked(c, s)' => Walked(c, s)
    BY <1>1 DEF Walked, Slots
  <2> QED BY <1>1, <2>1, SameTree DEF PlaceOK, WalkedListed, Listed
<1>3. HoldsAll'
  <2> SUFFICES ASSUME epc' = "walk", NEW s \in Slots, NEW p \in Paths,
                      Offers(pos, s, <<p, TRUE>>)
               PROVE  \E n \in DOMAIN chas'[s] : chas'[s][n][1] = p
    BY <1>1 DEF HoldsAll, Offers
  <2>1. PICK m \in DOMAIN tree[pos][s].urls : appendSlash(tree[pos][s].urls[m]) = <<p, TRUE>>
    BY DEF Offers
  <2>2. tree[pos][s].urls[m][1] = p
    BY <2>1 DEF appendSlash
  <2>3. chas \in [Slots -> Seq(Urls)] /\ tree[pos] \in ChassisBodies
    BY <1>1 DEF EInv, ETypeOK
  <2>4. tree[pos][s].form # "absent"
    BY DEF Offers
  <2>5. \E n \in DOMAIN Decode(chas, tree[pos])[s] :
          Decode(chas, tree[pos])[s][n] = tree[pos][s].urls[m]
    BY <2>3, <2>4, DecodeHolds
  <2>6. PICK n \in DOMAIN chas'[s] : chas'[s][n] = tree[pos][s].urls[m]
    BY <1>1, <2>5
  <2> QED BY <2>2, <2>6
<1>4. TakenListed'
  <2>1. epc' = "walk" => \A n \in DOMAIN chas'[1] : ~(n < 1)
    <3>1. ETypeOK'
      BY GetChassisInv DEF EInv
    <3>2. chas'[1] \in Seq(Urls)
      BY <3>1 DEF ETypeOK, Slots
    <3> QED BY <3>2
  <2> QED BY <1>1, <2>1 DEF TakenListed
<1>5. ReachedOnly'
  BY <1>1 DEF PlaceOK, ReachedOnly, Reached, Offers
<1>6. PassedOver' /\ AtEnd'
  BY <1>1 DEF PassedOver, AtEnd, Nested
<1> QED BY <1>2, <1>3, <1>4, <1>5, <1>6 DEF PlaceOK

\* The link at hand is listed when its turn is over, unless it is excluded.
LEMMA TakeLinkPlace ==
  ASSUME EInv, PlaceOK, TakeLink
  PROVE  PlaceOK'
<1> DEFINE link == chas[slot][at]
           url == appendSlash(link)
           k == KindOf[slot]
<1>1. /\ epc = "walk" /\ slot \in Slots /\ at \in DOMAIN chas[slot] /\ at' = at + 1
      /\ at \in Nat /\ ~Skipped
      /\ UNCHANGED <<tree, pos, chas, slot, nested, epc>>
      /\ sysEnd' = IF Wanted(slot, url) /\ checkUnique(sysEnd[k], url)
                   THEN [sysEnd EXCEPT ![k] = Append(@, url)] ELSE sysEnd
  BY DEF TakeLink, EInv, ETypeOK
<1>2. k \in Kinds /\ link \in Urls /\ url \in Urls /\ sysEnd[k] \in Seq(Urls)
  BY <1>1, SlotTypes, SlashType DEF EInv, ETypeOK
<1>3. \A s \in Slots, p \in Paths : Listed(s, p) => Listed(s, p)'
  BY ListedStays DEF ENext
<1>4. WalkedListed'
  <2>1. \A c \in 1..Len(tree), s \in Slots : Walked(c, s)' => Walked(c, s)
    BY <1>1 DEF Walked
  <2> QED BY <1>1, <1>3, <2>1, SameTree DEF PlaceOK, WalkedListed
<1>5. HoldsAll'
  BY <1>1 DEF PlaceOK, HoldsAll, Offers
<1>6. TakenListed'
  <2>1. url = <<link[1], TRUE>> /\ link[1] \in Paths
    BY <1>2 DEF appendSlash, Urls
  <2>2. Wanted(slot, url) => Has(sysEnd'[k], url)
    <3> SUFFICES ASSUME Wanted(slot, url) PROVE Has(sysEnd'[k], url)
      OBVIOUS
    <3> HIDE DEF url, k
    <3>1. CASE checkUnique(sysEnd[k], url)
      <4>1. sysEnd'[k] = Append(sysEnd[k], url)
        BY <1>1, <1>2, <3>1 DEF EInv, ETypeOK
      <4> QED BY <1>2, <4>1, HasAppended
    <3>2. CASE ~checkUnique(sysEnd[k], url)
      BY <1>1, <3>2 DEF checkUnique
    <3> QED BY <3>1, <3>2
  <2>3. \A n \in DOMAIN chas[slot] : n < at' => n < at \/ n = at
    <3>1. chas[slot] \in Seq(Urls)
      BY <1>1 DEF EInv, ETypeOK
    <3> QED BY <1>1, <3>1
  <2>4. \A n \in DOMAIN chas[slot] : chas[slot][n][1] \in Paths
    <3>1. chas[slot] \in Seq(Urls)
      BY <1>1 DEF EInv, ETypeOK
    <3> QED BY <3>1 DEF Urls
  <2> SUFFICES ASSUME NEW n \in DOMAIN chas[slot], n < at',
                      Wanted(slot, appendSlash(chas[slot][n]))
               PROVE  Listed(slot, chas[slot][n][1])'
    BY <1>1 DEF TakenListed, Wanted
  <2>5. CASE n = at
    <3>1. chas[slot][n] = link
      BY <2>5
    <3>2. Has(sysEnd'[k], url) /\ url = <<chas[slot][n][1], TRUE>>
      BY <2>1, <2>2, <3>1
    <3> QED BY <1>1, <3>2 DEF Listed
  <2>6. CASE n < at
    <3>1. Listed(slot, chas[slot][n][1])
      BY <1>1, <2>6 DEF PlaceOK, TakenListed
    <3> QED BY <1>1, <1>3, <2>4, <3>1
  <2> QED BY <2>3, <2>5, <2>6
<1>7. ReachedOnly'
  <2> SUFFICES ASSUME NEW j \in Kinds, NEW n \in DOMAIN sysEnd'[j]
               PROVE  \E c \in 1..Len(tree), s \in Slots :
                        KindOf[s] = j /\ Reached(c, s) /\ Offers(c, s, sysEnd'[j][n])
    BY <1>1 DEF ReachedOnly, Reached, Offers
  <2>1. CASE \E m \in DOMAIN sysEnd[j] : sysEnd'[j][n] = sysEnd[j][m]
    BY <2>1 DEF PlaceOK, ReachedOnly
  <2>2. CASE j = k /\ sysEnd'[j][n] = url
    <3>1. From(slot, link)
      BY <1>1 DEF EInv, ChassisOK
    <3>2. PICK c \in 1..Len(tree) :
            c <= pos /\ Offers(c, slot, url)
      BY <3>1 DEF From, Offers
    <3>3. Reached(c, slot)
      BY <1>1, <3>2 DEF Reached, EInv, ETypeOK, Slots
    <3> QED BY <1>1, <2>2, <3>2, <3>3
  <2>3. \/ \E m \in DOMAIN sysEnd[j] : sysEnd'[j][n] = sysEnd[j][m]
        \/ j = k /\ sysEnd'[j][n] = url
    <3> HIDE DEF url, k
    <3>1. sysEnd'[j] = sysEnd[j] \/ (j = k /\ sysEnd'[j] = Append(sysEnd[k], url))
      BY <1>1, <1>2 DEF EInv, ETypeOK
    <3> QED BY <1>2, <3>1, AppendElements
  <2> QED BY <2>1, <2>2, <2>3
<1>8. PassedOver' /\ AtEnd'
  BY <1>1 DEF PlaceOK, PassedOver, AtEnd, FirstNested, Offers
<1> QED BY <1>4, <1>5, <1>6, <1>7, <1>8 DEF PlaceOK

\* A list that is not empty when the nested links of its kind come up has a link
\* of another slot or of an earlier chassis.
LEMMA NotFirst ==
  ASSUME EInv, PlaceOK, epc = "walk", slot \in {4, 6}, sysEnd[KindOf[slot + 1]] # <<>>
  PROVE  ~FirstNested(pos, slot + 1)
<1> DEFINE k == KindOf[slot + 1]
           url == sysEnd[k][1]
<1>1. k \in Kinds /\ slot + 1 \in Slots
  BY SlotTypes DEF Slots
<1>2. sysEnd[k] \in Seq(Urls) /\ 1 \in DOMAIN sysEnd[k]
  BY <1>1 DEF EInv, ETypeOK
<1>3. PICK c \in 1..Len(tree), s \in Slots :
        KindOf[s] = k /\ Reached(c, s) /\ Offers(c, s, url)
  BY <1>1, <1>2 DEF PlaceOK, ReachedOnly
<1>4. url \in Urls /\ url = <<url[1], TRUE>> /\ url[1] \in Paths
  <2>1. url \in Urls
    BY <1>2
  <2> HIDE DEF url
  <2>2. PICK n \in DOMAIN tree[c][s].urls : <<tree[c][s].urls[n][1], TRUE>> = url
    BY <1>3 DEF Offers, appendSlash
  <2> QED BY <2>1, <2>2 DEF Urls
<1>5. s \in TopLevel \/ c < pos
  BY <1>3, SlotKinds DEF Reached
<1>6. c \in 1..pos
  BY <1>3 DEF Reached, EInv, ETypeOK
<1> HIDE DEF url
<1> QED BY <1>3, <1>4, <1>5, <1>6 DEF FirstNested

LEMMA NextSlotPlace ==
  ASSUME EInv, PlaceOK, NextSlot
  PROVE  PlaceOK'
<1>1. /\ epc = "walk" /\ slot \in Slots /\ slot' = slot + 1 /\ at' = 1
      /\ Skipped \/ at > Len(chas[slot])
      /\ nested' = NestedNow
      /\ UNCHANGED <<tree, pos, chas, sysEnd, epc>>
  BY DEF NextSlot
<1>2. ASSUME NEW p \in Paths, Due(pos, slot, p)
      PROVE  Listed(slot, p)
  <2>1. ~Skipped
    BY <1>1, <1>2 DEF Due, Skipped, PlaceOK, PassedOver
  <2>2. PICK n \in DOMAIN chas[slot] : chas[slot][n][1] = p
    BY <1>1, <1>2 DEF Due, PlaceOK, HoldsAll
  <2>3. n < at
    <3>1. chas[slot] \in Seq(Urls) /\ at \in Nat
      BY <1>1 DEF EInv, ETypeOK
    <3> QED BY <1>1, <2>1, <2>2, <3>1
  <2>4. Wanted(slot, appendSlash(chas[slot][n]))
    BY <1>2, <2>2 DEF Due, appendSlash
  <2> QED BY <1>1, <2>1, <2>2, <2>3, <2>4 DEF PlaceOK, TakenListed
<1>3. WalkedListed'
  <2> SUFFICES ASSUME NEW c \in 1..Len(tree), NEW s \in Slots, NEW p \in Paths,
                      Walked(c, s)', Due(c, s, p)
               PROVE  Listed(s, p)
    BY <1>1, SameTree DEF WalkedListed, Listed
  <2>1. Walked(c, s) \/ (c = pos /\ s = slot)
    BY <1>1 DEF Walked, Slots
  <2> QED BY <1>2, <2>1 DEF PlaceOK, WalkedListed
<1>4. HoldsAll'
  BY <1>1 DEF PlaceOK, HoldsAll, Offers
<1>5. TakenListed'
  <2>1. \A s \in Slots : \A n \in DOMAIN chas[s] : ~(n < 1)
    <3> SUFFICES ASSUME NEW s \in Slots PROVE \A n \in DOMAIN chas[s] : ~(n < 1)
      OBVIOUS
    <3>1. chas[s] \in Seq(Urls)
      BY DEF EInv, ETypeOK
    <3> QED BY <3>1
  <2> QED BY <1>1, <2>1 DEF TakenListed
<1>6. ReachedOnly'
  <2>1. \A c \in 1..Len(tree), s \in Slots : Reached(c, s) => Reached(c, s)'
    BY <1>1 DEF Reached, Slots
  <2> QED BY <1>1, <2>1 DEF PlaceOK, ReachedOnly, Offers
<1>7. PassedOver'
  <2> SUFFICES ASSUME slot' \in Nested, ~nested'
               PROVE  ~FirstNested(pos, slot')
    BY <1>1 DEF PassedOver, FirstNested, Offers
  <2>1. CASE slot \in {4, 6}
    <3>1. sysEnd[KindOf[slot + 1]] # <<>>
      BY <1>1, <2>1 DEF NestedNow
    <3> QED BY <1>1, <2>1, <3>1, NotFirst
  <2>2. CASE slot \notin {4, 6}
    <3>1. slot \in {5, 7} /\ ~nested
      BY <1>1, <2>2 DEF NestedNow, Nested, Slots
    <3>2. ~FirstNested(pos, slot)
      BY <1>1, <3>1 DEF PlaceOK, PassedOver, Nested
    <3>3. KindOf[slot + 1] = KindOf[slot]
      BY <3>1, SlotKinds
    <3> QED BY <1>1, <3>2, <3>3 DEF FirstNested
  <2> QED BY <2>1, <2>2
<1>8. AtEnd'
  BY <1>1 DEF AtEnd
<1> QED BY <1>3, <1>4, <1>5, <1>6, <1>7, <1>8 DEF PlaceOK

LEMMA EStepPlace ==
  ASSUME EInv, PlaceOK, ENext
  PROVE  PlaceOK'
<1>1. CASE AllRead
  <2>1. /\ epc = "get" /\ epc' = "done" /\ pos > Len(tree)
        /\ UNCHANGED <<tree, pos, chas, sysEnd, slot, at, nested>>
    BY <1>1 DEF AllRead
  <2>2. WalkedListed'
    <3>1. \A c \in 1..Len(tree), s \in Slots : Walked(c, s)' => Walked(c, s)
      BY <2>1 DEF Walked
    <3> QED BY <2>1, <3>1, SameTree DEF PlaceOK, WalkedListed, Listed
  <2>3. ReachedOnly'
    BY <2>1 DEF PlaceOK, ReachedOnly, Reached, Offers
  <2> QED BY <2>1, <2>2, <2>3 DEF PlaceOK, HoldsAll, TakenListed, PassedOver, AtEnd
<1>2. CASE NextChassis
  <2>1. /\ epc = "walk" /\ epc' = "get" /\ slot = 13 /\ pos' = pos + 1
        /\ pos \in Nat
        /\ UNCHANGED <<tree, chas, sysEnd, slot, at, nested>>
    BY <1>2 DEF NextChassis, EInv, ETypeOK, Slots
  <2>2. \A c \in 1..Len(tree), s \in Slots : Walked(c, s)' => Walked(c, s)
    BY <2>1 DEF Walked, Slots, EInv, ETypeOK
  <2>3. \A c \in 1..Len(tree), s \in Slots : Reached(c, s) => Reached(c, s)'
    BY <2>1 DEF Reached, EInv, ETypeOK
  <2>4. WalkedListed'
    BY <2>1, <2>2, SameTree DEF PlaceOK, WalkedListed, Listed
  <2>5. ReachedOnly'
    BY <2>1, <2>3 DEF PlaceOK, ReachedOnly, Offers
  <2> QED BY <2>1, <2>4, <2>5 DEF PlaceOK, HoldsAll, TakenListed, PassedOver, AtEnd
<1> QED BY <1>1, <1>2, GetChassisPlace, TakeLinkPlace, NextSlotPlace DEF ENext

-----------------------------------------------------------------------------
(* getAllDriveEndpoints.                                                   *)

\* The members of a collection that is still to be walked are what a controller
\* shows, if they are checked, or links.
Origin(call) ==
  \A n \in DOMAIN call.members : \E c \in DOMAIN ctrls :
    In({call.members[n]},
       IF call.checked THEN ShownBy(ctrls[c], call.dest) ELSE LinkedBy(ctrls[c], call.dest))

CallsOK == Origin(taking) /\ \A m \in DOMAIN calls : Origin(calls[m])

DInv == DTypeOK /\ CallsOK /\ TwiceOnlyIfUnslashed

LEMMA ConcatCalls ==
  ASSUME NEW f \in Seq(Calls), NEW g \in Seq(Calls),
         \A m \in DOMAIN f : Origin(f[m]), \A m \in DOMAIN g : Origin(g[m])
  PROVE  f \o g \in Seq(Calls) /\ \A m \in DOMAIN (f \o g) : Origin((f \o g)[m])
<1>1. f \o g \in Seq(Calls)
  OBVIOUS
<1>2. ASSUME NEW m \in DOMAIN (f \o g) PROVE Origin((f \o g)[m])
  <2>1. m \in 1..(Len(f) + Len(g))
    OBVIOUS
  <2>2. CASE m <= Len(f)
    <3>1. (f \o g)[m] = f[m] /\ m \in DOMAIN f
      BY <2>1, <2>2
    <3> QED BY <3>1
  <2>3. CASE m > Len(f)
    <3>1. (f \o g)[m] = g[m - Len(f)] /\ m - Len(f) \in DOMAIN g
      BY <2>1, <2>3
    <3> QED BY <3>1
  <2> QED BY <2>1, <2>2, <2>3
<1> QED BY <1>1, <1>2

LEMMA LinkTypes ==
  ASSUME NEW link \in Links
  PROVE  /\ link.members \in Seq(Urls)
         /\ link.members # <<>> => link.there = TRUE
<1>1. CASE link = NoLink
  <2>1. link.members = <<>>
    BY <1>1 DEF NoLink
  <2> QED BY <2>1
<1>2. CASE link \in [there : {TRUE}, members : Seq(Urls)]
  BY <1>2
<1> QED BY <1>1, <1>2 DEF Links

\* A collection behind a link of the controller at hand.
LEMMA CallOrigin ==
  ASSUME NEW c \in DOMAIN ctrls, NEW dest \in Lists, NEW link \in Links,
         link.there => link.members \in LinkedBy(ctrls[c], dest)
  PROVE  /\ Call(dest, link) \in Seq(Calls)
         /\ \A m \in DOMAIN Call(dest, link) : Origin(Call(dest, link)[m])
<1>1. CASE ~link.there
  <2>1. Call(dest, link) = <<>>
    BY <1>1 DEF Call
  <2> QED BY <2>1
<1>2. CASE link.there
  <2> DEFINE call == [dest |-> dest, checked |-> FALSE, members |-> link.members]
  <2>1. Call(dest, link) = <<call>> /\ call \in Calls
    BY <1>2, LinkTypes DEF Call, Calls
  <2>2. Origin(call)
    BY <1>2 DEF Origin, In
  <2> HIDE DEF call
  <2>3. /\ <<call>> \in Seq(Calls)
        /\ \A m \in DOMAIN <<call>> : <<call>>[m] = call
    BY <2>1
  <2> QED BY <2>1, <2>2, <2>3
<1> QED BY <1>1, <1>2

LEMMA ControllerCalls ==
  ASSUME DInv, NEW c \in DOMAIN ctrls
  PROVE  LET cs == ModernCalls(ctrls[c]) \o LinkCalls(ctrls[c])
         IN  cs \in Seq(Calls) /\ \A m \in DOMAIN cs : Origin(cs[m])
<1> DEFINE body == ctrls[c]
<1>1. /\ body \in ControllerBodies
      /\ body.volumes \in Seq(Seq(Urls))
      /\ body.controllers \in Links
      /\ body.upperLogical \in Links /\ body.upperPhysical \in Links
      /\ body.lowerLogical \in Links /\ body.lowerPhysical \in Links
  <2>1. body \in ControllerBodies
    BY DEF DInv, DTypeOK
  <2> HIDE DEF body
  <2> QED BY <2>1 DEF ControllerBodies
<1>2. /\ ModernCalls(body) \in Seq(Calls)
      /\ \A m \in DOMAIN ModernCalls(body) : Origin(ModernCalls(body)[m])
  <2>1. CASE body.drives = <<>>
    <3>1. ModernCalls(body) = <<>>
      BY <2>1 DEF ModernCalls
    <3> QED BY <3>1
  <2>2. CASE body.drives # <<>>
    <3>1. VolumeCalls(body) \in Seq(Calls)
      <4>1. ASSUME NEW n \in DOMAIN body.volumes
            PROVE  [dest |-> "logicalDrive", checked |-> TRUE, members |-> body.volumes[n]]
                     \in Calls
        BY <1>1, <4>1 DEF Calls, Lists
      <4>2. DOMAIN body.volumes = 1..Len(body.volumes) /\ Len(body.volumes) \in Nat
        BY <1>1
      <4> HIDE DEF body
      <4> QED BY <4>1, <4>2 DEF VolumeCalls
    <3>2. ASSUME NEW m \in DOMAIN VolumeCalls(body) PROVE Origin(VolumeCalls(body)[m])
      <4>1. /\ m \in DOMAIN body.volumes
            /\ VolumeCalls(body)[m] =
                 [dest |-> "logicalDrive", checked |-> TRUE, members |-> body.volumes[m]]
        BY <3>2 DEF VolumeCalls
      <4>2. body.volumes[m] \in ShownBy(body, "logicalDrive")
        BY <2>2, <4>1 DEF ShownBy
      <4> QED BY <4>1, <4>2 DEF Origin, In
    <3>3. body.controllers.members \in LinkedBy(body, "arrayController")
      BY <2>2 DEF LinkedBy
    <3>4. /\ Call("arrayController", body.controllers) \in Seq(Calls)
          /\ \A m \in DOMAIN Call("arrayController", body.controllers) :
               Origin(Call("arrayController", body.controllers)[m])
      BY <1>1, <3>3, CallOrigin DEF Lists
    <3>5. ModernCalls(body) = VolumeCalls(body) \o Call("arrayController", body.controllers)
      BY <2>2 DEF ModernCalls
    <3> HIDE DEF body
    <3> QED BY <3>1, <3>2, <3>4, <3>5, ConcatCalls
  <2> QED BY <2>1, <2>2
<1>3. /\ LinkCalls(body) \in Seq(Calls)
      /\ \A m \in DOMAIN LinkCalls(body) : Origin(LinkCalls(body)[m])
  <2> DEFINE ul == Call("logicalDrive", body.upperLogical)
             up == Call("physicalDrive", body.upperPhysical)
             ll == Call("logicalDrive", body.lowerLogical)
             lp == Call("physicalDrive", body.lowerPhysical)
  <2>1. /\ {body.upperLogical.members, body.lowerLogical.members}
             \subseteq LinkedBy(body, "logicalDrive")
        /\ {body.upperPhysical.members, body.lowerPhysical.members}
             \subseteq LinkedBy(body, "physicalDrive")
    BY DEF LinkedBy
  <2>2. ul \in Seq(Calls) /\ \A m \in DOMAIN ul : Origin(ul[m])
    BY <1>1, <2>1, CallOrigin DEF Lists
  <2>3. up \in Seq(Calls) /\ \A m \in DOMAIN up : Origin(up[m])
    BY <1>1, <2>1, CallOrigin DEF Lists
  <2>4. ll \in Seq(Calls) /\ \A m \in DOMAIN ll : Origin(ll[m])
    BY <1>1, <2>1, CallOrigin DEF Lists
  <2>5. lp \in Seq(Calls) /\ \A m \in DOMAIN lp : Origin(lp[m])
    BY <1>1, <2>1, CallOrigin DEF Lists
  <2>6. LinkCalls(body) = ((ul \o up) \o ll) \o lp
    BY DEF LinkCalls
  <2> HIDE DEF body, ul, up, ll, lp
  <2>7. ul \o up \in Seq(Calls) /\ \A m \in DOMAIN (ul \o up) : Origin((ul \o up)[m])
    BY <2>2, <2>3, ConcatCalls
  <2>8. /\ (ul \o up) \o ll \in Seq(Calls)
        /\ \A m \in DOMAIN ((ul \o up) \o ll) : Origin(((ul \o up) \o ll)[m])
    BY <2>4, <2>7, ConcatCalls
  <2> QED BY <2>5, <2>6, <2>8, ConcatCalls
<1> HIDE DEF body
<1>4. ModernCalls(body) \o LinkCalls(body) \in Seq(Calls)
      /\ \A m \in DOMAIN (ModernCalls(body) \o LinkCalls(body)) :
           Origin((ModernCalls(body) \o LinkCalls(body))[m])
  BY <1>2, <1>3, ConcatCalls
<1> QED BY <1>4 DEF body

LEMMA InPath ==
  ASSUME NEW url \in Urls, NEW seqs, In({url}, seqs)
  PROVE  In({url[1]} \X BOOLEAN, seqs)
  BY DEF In, Urls

\* A URL that enters a list keeps what is known of the list, if it is linked or
\* has been compared with the list.
LEMMA AppendDrive ==
  ASSUME DInv, NEW l \in Lists, NEW url \in Urls, ctrls' = ctrls,
         drives' = [drives EXCEPT ![l] = Append(@, appendSlash(url))],
         \/ \E c \in DOMAIN ctrls : In({url}, LinkedBy(ctrls[c], l))
         \/ /\ ~Has(drives[l], url)
            /\ \E c \in DOMAIN ctrls : In({url}, ShownBy(ctrls[c], l))
  PROVE  drives' \in [Lists -> Seq(Urls)] /\ TwiceOnlyIfUnslashed'
<1> DEFINE new == appendSlash(url)
           list == drives[l]
<1>1. /\ drives \in [Lists -> Seq(Urls)] /\ list \in Seq(Urls) /\ new \in Urls
      /\ new = <<url[1], TRUE>>
  BY SlashType DEF DInv, DTypeOK, appendSlash
<1>2. /\ drives'[l] = Append(list, new)
      /\ \A k \in Lists \ {l} : drives'[k] = drives[k]
      /\ drives' \in [Lists -> Seq(Urls)]
  <2>1. drives' = [drives EXCEPT ![l] = Append(list, new)]
    OBVIOUS
  <2>2. list \in Seq(Urls) /\ new \in Urls
    BY <1>1
  <2> HIDE DEF list, new
  <2>3. Append(list, new) \in Seq(Urls)
    BY <2>2
  <2> QED BY <1>1, <2>1, <2>3
<1>3. \A n \in DOMAIN drives'[l] :
        \/ n \in DOMAIN list /\ drives'[l][n] = list[n]
        \/ n = Len(list) + 1 /\ drives'[l][n] = new
  <2>1. drives'[l] = Append(list, new)
    BY <1>2
  <2> HIDE DEF list, new
  <2>2. ASSUME NEW n \in DOMAIN Append(list, new)
        PROVE  \/ n \in DOMAIN list /\ Append(list, new)[n] = list[n]
               \/ n = Len(list) + 1 /\ Append(list, new)[n] = new
    BY <1>1, AppendElements
  <2> QED BY <2>1, <2>2
<1>4. TwiceOnlyIfUnslashed'
  <2> DEFINE Known(p, k) ==
        \E c \in DOMAIN ctrls : \/ In({p} \X BOOLEAN, LinkedBy(ctrls[c], k))
                              \/ In({<<p, FALSE>>}, ShownBy(ctrls[c], k))
  <2>1. \A n \in DOMAIN list : list[n] = new => Known(url[1], l)
    <3> SUFFICES ASSUME NEW n \in DOMAIN list, list[n] = new PROVE Known(url[1], l)
      OBVIOUS
    <3>1. CASE \E c \in DOMAIN ctrls : In({url}, LinkedBy(ctrls[c], l))
      BY <3>1, InPath
    <3>2. CASE ~Has(drives[l], url) /\ \E c \in DOMAIN ctrls : In({url}, ShownBy(ctrls[c], l))
      <4>1. url # new
        BY <3>2 DEF Has
      <4>2. url = <<url[1], FALSE>>
        <5>1. PICK p \in Paths, b \in BOOLEAN : url = <<p, b>>
          BY DEF Urls
        <5>2. url[1] = p /\ b # TRUE
          BY <1>1, <4>1, <5>1
        <5> QED BY <5>1, <5>2
      <4> QED BY <3>2, <4>2
    <3> QED BY <3>1, <3>2
  <2> SUFFICES ASSUME NEW k \in Lists, NEW m \in DOMAIN drives'[k], NEW n \in DOMAIN drives'[k],
                      m # n, drives'[k][m] = drives'[k][n]
               PROVE  Known(drives'[k][m][1], k)
    BY DEF TwiceOnlyIfUnslashed
  <2>0. Len(list) + 1 \notin DOMAIN list
    BY <1>1
  <2>2. CASE k # l
    BY <1>2, <2>2 DEF DInv, TwiceOnlyIfUnslashed
  <2>3. CASE k = l /\ m \in DOMAIN list /\ n \in DOMAIN list
    <3>1. drives'[k][m] = list[m] /\ drives'[k][n] = list[n]
      BY <1>1, <1>3, <2>0, <2>3
    <3>2. \A i, j \in DOMAIN list : i # j /\ list[i] = list[j] => Known(list[i][1], l)
      BY DEF DInv, TwiceOnlyIfUnslashed
    <3> HIDE DEF Known, list
    <3>3. Known(list[m][1], l)
      BY <2>3, <3>1, <3>2
    <3> QED BY <2>3, <3>1, <3>3
  <2>4. CASE k = l /\ (drives'[l][m] = new \/ drives'[l][n] = new)
    <3>1. drives'[k][m] = new /\ new[1] = url[1]
      <4>1. new[1] = url[1]
        BY <1>1
      <4> HIDE DEF new
      <4>2. drives'[k][m] = new
        BY <2>4
      <4> QED BY <4>1, <4>2
    <3>2. \E i \in DOMAIN list : list[i] = new
      <4>1. m # Len(list) + 1 \/ n # Len(list) + 1
        OBVIOUS
      <4>2. CASE m # Len(list) + 1
        BY <1>3, <2>4, <3>1, <4>2
      <4>3. CASE n # Len(list) + 1
        BY <1>3, <2>4, <3>1, <4>3
      <4> QED BY <4>1, <4>2, <4>3
    <3> QED BY <2>1, <2>4, <3>1, <3>2
  <2> QED BY <1>3, <2>2, <2>3, <2>4
<1> QED BY <1>2, <1>4

LEMMA DInitInv == DInit \/ DOff => DInv
<1> SUFFICES ASSUME DInit \/ DOff PROVE DInv
  OBVIOUS
<1>1. ctrls \in Seq(ControllerBodies)
  <2>1. CASE DInit
    BY <2>1, ServersAssumption DEF DInit
  <2>2. CASE DOff
    <3>1. ctrls = <<>>
      BY <2>2 DEF DOff
    <3> QED BY <3>1
  <2> QED BY <2>1, <2>2
<1>2. /\ ctrl = 1 /\ calls = <<>> /\ taking = Nothing /\ drives = [l \in Lists |-> <<>>]
      /\ dpc \in {"off", "initial"}
  BY DEF DInit, DOff
<1>3. Nothing \in Calls
  BY DEF Nothing, Calls, Lists
<1>4. DTypeOK
  BY <1>1, <1>2, <1>3 DEF DTypeOK
<1>5. CallsOK /\ TwiceOnlyIfUnslashed
  BY <1>2 DEF CallsOK, Origin, Nothing, TwiceOnlyIfUnslashed
<1> QED BY <1>4, <1>5 DEF DInv

\* A step that leaves the lists alone keeps what is known of them.
LEMMA SameDrives ==
  ASSUME DInv, UNCHANGED <<ctrls, drives>>
  PROVE  TwiceOnlyIfUnslashed'
  BY DEF DInv, TwiceOnlyIfUnslashed

LEMMA GetControllerInv == DInv /\ GetController => DInv'
<1> SUFFICES ASSUME DInv, GetController PROVE DInv'
  OBVIOUS
<1> DEFINE body == ctrls[ctrl]
<1>1. /\ ctrl \in DOMAIN ctrls /\ UNCHANGED <<ctrls, ctrl>> /\ dpc' = "take"
      /\ calls' = ModernCalls(body) \o LinkCalls(body)
      /\ taking' = [dest |-> "physicalDrive", checked |-> TRUE, members |-> body.drives]
      /\ drives' = IF IsArrayController(body)
                   THEN [drives EXCEPT !["arrayController"] = Append(@, appendSlash(body.url))]
                   ELSE drives
  BY DEF GetController, DInv, DTypeOK
<1>2. body \in ControllerBodies
  BY <1>1 DEF DInv, DTypeOK
<1>3. body.url \in Urls /\ body.drives \in Seq(Urls)
  <2> HIDE DEF body
  <2> QED BY <1>2 DEF ControllerBodies
<1>4. calls' \in Seq(Calls) /\ \A m \in DOMAIN calls' : Origin(calls'[m])
  BY <1>1, ControllerCalls
<1>5. taking' \in Calls /\ Origin(taking')
  BY <1>1, <1>3 DEF Calls, Lists, Origin, In, ShownBy
<1>6. CallsOK'
  BY <1>1, <1>4, <1>5 DEF CallsOK, Origin
<1>7. drives' \in [Lists -> Seq(Urls)] /\ TwiceOnlyIfUnslashed'
  <2>1. CASE IsArrayController(body)
    <3>1. In({body.url}, LinkedBy(body, "arrayController"))
      <4>1. LinkedBy(body, "arrayController") = {<<body.url>>}
        BY <2>1 DEF LinkedBy, IsArrayController
      <4> DEFINE u == body.url
      <4>2. LinkedBy(body, "arrayController") = {<<u>>}
        BY <4>1
      <4> HIDE DEF u
      <4>3. 1 \in DOMAIN <<u>> /\ <<u>>[1] = u
        OBVIOUS
      <4>4. In({u}, {<<u>>})
        BY <4>3 DEF In
      <4> QED BY <4>2, <4>4 DEF u
    <3>2. "arrayController" \in Lists
      BY DEF Lists
    <3>3. drives' = [drives EXCEPT !["arrayController"] = Append(@, appendSlash(body.url))]
      BY <1>1, <2>1
    <3> QED BY <1>1, <1>3, <3>1, <3>2, <3>3, AppendDrive
  <2>2. CASE ~IsArrayController(body)
    BY <1>1, <2>2, SameDrives DEF DInv, DTypeOK
  <2> QED BY <2>1, <2>2
<1>8. DTypeOK'
  BY <1>1, <1>4, <1>5, <1>7 DEF DInv, DTypeOK
<1> QED BY <1>6, <1>7, <1>8 DEF DInv

LEMMA TakeMemberInv == DInv /\ TakeMember => DInv'
<1> SUFFICES ASSUME DInv, TakeMember PROVE DInv'
  OBVIOUS
<1> DEFINE url == Head(taking.members)
           rest == Tail(taking.members)
<1>1. /\ taking.members # <<>> /\ UNCHANGED <<ctrls, ctrl, calls, dpc>>
      /\ taking' = [taking EXCEPT !.members = rest]
      /\ drives' = IF Enters(url)
                   THEN [drives EXCEPT ![taking.dest] = Append(@, appendSlash(url))]
                   ELSE drives
  BY DEF TakeMember
<1>2. /\ taking \in Calls /\ taking.dest \in Lists /\ taking.members \in Seq(Urls)
      /\ taking.checked \in BOOLEAN
  BY DEF DInv, DTypeOK, Calls
<1>3. /\ url \in Urls /\ rest \in Seq(Urls) /\ 1 \in DOMAIN taking.members
      /\ url = taking.members[1]
      /\ \A n \in DOMAIN rest :
           n + 1 \in DOMAIN taking.members /\ rest[n] = taking.members[n + 1]
  BY <1>1, <1>2
<1>4. /\ taking' \in Calls /\ taking'.dest = taking.dest /\ taking'.checked = taking.checked
      /\ taking'.members = rest
  BY <1>1, <1>2, <1>3 DEF Calls
<1>5. CallsOK'
  <2>1. Origin(taking)
    BY DEF DInv, CallsOK
  <2>2. Origin(taking)'
    <3> SUFFICES ASSUME NEW n \in DOMAIN taking'.members
                 PROVE  \E c \in DOMAIN ctrls :
                          In({taking'.members[n]},
                             IF taking.checked THEN ShownBy(ctrls[c], taking.dest)
                             ELSE LinkedBy(ctrls[c], taking.dest))
      BY <1>1, <1>4 DEF Origin
    <3>1. n + 1 \in DOMAIN taking.members /\ taking'.members[n] = taking.members[n + 1]
      BY <1>3, <1>4
    <3> QED BY <2>1, <3>1 DEF Origin
  <2> QED BY <1>1, <2>2 DEF DInv, CallsOK, Origin
<1>6. drives' \in [Lists -> Seq(Urls)] /\ TwiceOnlyIfUnslashed'
  <2>1. CASE Enters(url)
    <3>1. \E c \in DOMAIN ctrls :
            In({url}, IF taking.checked THEN ShownBy(ctrls[c], taking.dest)
                      ELSE LinkedBy(ctrls[c], taking.dest))
      BY <1>3 DEF DInv, CallsOK, Origin
    <3>2. taking.checked => ~Has(drives[taking.dest], url)
      BY <2>1 DEF Enters, checkUnique
    <3>3. drives' = [drives EXCEPT ![taking.dest] = Append(@, appendSlash(url))]
      BY <1>1, <2>1
    <3> HIDE DEF url
    <3> QED BY <1>1, <1>2, <1>3, <3>1, <3>2, <3>3, AppendDrive
  <2>2. CASE ~Enters(url)
    BY <1>1, <2>2, SameDrives DEF DInv, DTypeOK
  <2> QED BY <2>1, <2>2
<1>7. DTypeOK'
  BY <1>1, <1>4, <1>6 DEF DInv, DTypeOK
<1> QED BY <1>5, <1>6, <1>7 DEF DInv

LEMMA DStepInv == DInv /\ DNext => DInv'
<1> SUFFICES ASSUME DInv, DNext PROVE DInv'
  OBVIOUS
<1>1. CASE Fail \/ GetInitial \/ AllWalked
  <2>1. UNCHANGED <<ctrls, ctrl, calls, taking, drives>> /\ dpc' \in {"failed", "ctrl", "done"}
    BY <1>1 DEF Fail, GetInitial, AllWalked
  <2> QED BY <2>1, SameDrives DEF DInv, DTypeOK, CallsOK, Origin
<1>2. CASE Taken
  <2>1. /\ ctrl' \in Nat \ {0} /\ dpc' \in {"call", "ctrl"}
        /\ UNCHANGED <<ctrls, calls, taking, drives>>
    BY <1>2 DEF Taken, DInv, DTypeOK
  <2> QED BY <2>1, SameDrives DEF DInv, DTypeOK, CallsOK, Origin
<1>3. CASE GetCollection
  <2>1. /\ calls \in Seq(Calls) /\ calls # <<>> /\ UNCHANGED <<ctrls, ctrl, drives>>
        /\ taking' = Head(calls) /\ calls' = Tail(calls) /\ dpc' = "take"
    BY <1>3 DEF GetCollection, DInv, DTypeOK
  <2>2. /\ taking' \in Calls /\ taking' = calls[1] /\ 1 \in DOMAIN calls
        /\ calls' \in Seq(Calls)
        /\ \A m \in DOMAIN calls' : m + 1 \in DOMAIN calls /\ calls'[m] = calls[m + 1]
    BY <2>1
  <2>3. Origin(taking') /\ \A m \in DOMAIN calls' : Origin(calls'[m])
    BY <2>2 DEF DInv, CallsOK
  <2>4. CallsOK'
    BY <2>1, <2>3 DEF CallsOK, Origin
  <2> QED BY <2>1, <2>2, <2>4, SameDrives DEF DInv, DTypeOK
<1> QED BY <1>1, <1>2, <1>3, GetControllerInv, TakeMemberInv DEF DNext

-----------------------------------------------------------------------------
(* What getAllDriveEndpoints must not lose.                                *)

\* Something that a controller has for a list, and that is not excluded.
Needs(c, l, p) ==
  \/ In({p} \X BOOLEAN, LinkedBy(ctrls[c], l))
  \/ p \notin Excluded /\ In({p} \X BOOLEAN, ShownBy(ctrls[c], l))

InList(l, p) == Has(drives[l], <<p, TRUE>>)

\* A collection will enter it, unless it is there by then.
Brings(call, l, p) ==
  /\ call.dest = l
  /\ call.checked => p \notin Excluded
  /\ \E n \in DOMAIN call.members : call.members[n][1] = p

ToCome(l, p) == Brings(taking, l, p) \/ \E m \in DOMAIN calls : Brings(calls[m], l, p)

\* What is compared with a URL in the list has a slash, as all of the list.
SlashedOK == \A l \in Lists : \A n \in DOMAIN drives[l] : drives[l][n][2] = TRUE

\* The controllers before this one are settled; of this one what is not yet
\* listed is in a collection to come.
Settled ==
  \A c \in DOMAIN ctrls, l \in Lists, p \in Paths :
    Needs(c, l, p) =>
      /\ c < ctrl => InList(l, p)
      /\ c = ctrl /\ dpc \in {"call", "take"} => InList(l, p) \/ ToCome(l, p)

WayOK ==
  /\ SlashedOK
  /\ Settled
  /\ dpc = "call" => taking.members = <<>>
  /\ dpc = "done" => ctrl > Len(ctrls)

LEMMA HasConcat ==
  ASSUME NEW f \in Seq(Calls), NEW g \in Seq(Calls), NEW x
  PROVE  Has(f, x) \/ Has(g, x) => Has(f \o g, x)
<1>1. \A n \in DOMAIN f : n \in DOMAIN (f \o g) /\ (f \o g)[n] = f[n]
  OBVIOUS
<1>2. \A n \in DOMAIN g : Len(f) + n \in DOMAIN (f \o g) /\ (f \o g)[Len(f) + n] = g[n]
  OBVIOUS
<1> QED BY <1>1, <1>2 DEF Has

LEMMA BodyTypes ==
  ASSUME NEW body \in ControllerBodies
  PROVE  /\ body.url \in Urls /\ body.drives \in Seq(Urls)
         /\ body.volumes \in Seq(Seq(Urls))
         /\ body.controllers \in Links
         /\ body.upperLogical \in Links /\ body.upperPhysical \in Links
         /\ body.lowerLogical \in Links /\ body.lowerPhysical \in Links
  BY DEF ControllerBodies

\* A collection with members is called.
LEMMA CallHas ==
  ASSUME NEW dest \in Lists, NEW link \in Links
  PROVE  /\ Call(dest, link) \in Seq(Calls)
         /\ link.members # <<>> =>
              Has(Call(dest, link),
                  [dest |-> dest, checked |-> FALSE, members |-> link.members])
<1> DEFINE c == [dest |-> dest, checked |-> FALSE, members |-> link.members]
<1>1. c \in Calls
  BY LinkTypes DEF Calls
<1> HIDE DEF c
<1>2. <<c>> \in Seq(Calls) /\ Has(<<c>>, c)
  <2>1. 1 \in DOMAIN <<c>> /\ <<c>>[1] = c
    OBVIOUS
  <2> QED BY <1>1, <2>1 DEF Has
<1>3. CASE link.there = TRUE
  <2>1. Call(dest, link) = <<c>>
    BY <1>3 DEF Call, c
  <2> QED BY <1>2, <2>1 DEF c
<1>4. CASE link.there # TRUE
  <2>1. Call(dest, link) = <<>> /\ link.members = <<>>
    BY <1>4, LinkTypes DEF Call, Links, NoLink
  <2> QED BY <2>1
<1> QED BY <1>3, <1>4

LEMMA ModernHas ==
  ASSUME NEW body \in ControllerBodies, body.drives # <<>>
  PROVE  /\ ModernCalls(body) \in Seq(Calls)
         /\ \A n \in DOMAIN body.volumes :
              Has(ModernCalls(body),
                  [dest |-> "logicalDrive", checked |-> TRUE, members |-> body.volumes[n]])
         /\ body.controllers.members # <<>> =>
              Has(ModernCalls(body), [dest |-> "arrayController", checked |-> FALSE,
                                      members |-> body.controllers.members])
<1> DEFINE v == VolumeCalls(body)
           a == Call("arrayController", body.controllers)
           Vol(n) == [dest |-> "logicalDrive", checked |-> TRUE, members |-> body.volumes[n]]
           con == [dest |-> "arrayController", checked |-> FALSE,
                   members |-> body.controllers.members]
<1>1. body.volumes \in Seq(Seq(Urls)) /\ body.controllers \in Links
  BY BodyTypes
<1>2. \A n \in DOMAIN body.volumes : Vol(n) \in Calls
  BY <1>1 DEF Calls, Lists
<1>3. v = [n \in DOMAIN body.volumes |-> Vol(n)]
  BY DEF VolumeCalls
<1>4. DOMAIN body.volumes = 1..Len(body.volumes) /\ Len(body.volumes) \in Nat
  BY <1>1
<1> HIDE DEF v, Vol
<1>5. v \in Seq(Calls) /\ \A n \in DOMAIN body.volumes : Has(v, Vol(n))
  <2>1. v \in Seq(Calls)
    BY <1>2, <1>3, <1>4
  <2>2. \A n \in DOMAIN body.volumes : n \in DOMAIN v /\ v[n] = Vol(n)
    BY <1>3
  <2> QED BY <2>1, <2>2 DEF Has
<1>6. a \in Seq(Calls) /\ (body.controllers.members # <<>> => Has(a, con))
  BY <1>1, CallHas DEF Lists
<1>7. ModernCalls(body) = v \o a
  BY DEF ModernCalls, v
<1> HIDE DEF a, con
<1>8. v \o a \in Seq(Calls)
  BY <1>5, <1>6
<1> QED BY <1>5, <1>6, <1>7, <1>8, HasConcat DEF Vol, con

LEMMA LinkedHas ==
  ASSUME NEW body \in ControllerBodies
  PROVE  /\ LinkCalls(body) \in Seq(Calls)
         /\ \A link \in {body.upperLogical, body.lowerLogical} :
              link.members # <<>> =>
                Has(LinkCalls(body),
                    [dest |-> "logicalDrive", checked |-> FALSE, members |-> link.members])
         /\ \A link \in {body.upperPhysical, body.lowerPhysical} :
              link.members # <<>> =>
                Has(LinkCalls(body),
                    [dest |-> "physicalDrive", checked |-> FALSE, members |-> link.members])
<1> DEFINE ul == Call("logicalDrive", body.upperLogical)
           up == Call("physicalDrive", body.upperPhysical)
           ll == Call("logicalDrive", body.lowerLogical)
           lp == Call("physicalDrive", body.lowerPhysical)
           C(dest, link) == [dest |-> dest, checked |-> FALSE, members |-> link.members]
<1>1. /\ ul \in Seq(Calls)
      /\ body.upperLogical.members # <<>> => Has(ul, C("logicalDrive", body.upperLogical))
  BY BodyTypes, CallHas DEF Lists
<1>2. /\ up \in Seq(Calls)
      /\ body.upperPhysical.members # <<>> => Has(up, C("physicalDrive", body.upperPhysical))
  BY BodyTypes, CallHas DEF Lists
<1>3. /\ ll \in Seq(Calls)
      /\ body.lowerLogical.members # <<>> => Has(ll, C("logicalDrive", body.lowerLogical))
  BY BodyTypes, CallHas DEF Lists
<1>4. /\ lp \in Seq(Calls)
      /\ body.lowerPhysical.members # <<>> => Has(lp, C("physicalDrive", body.lowerPhysical))
  BY BodyTypes, CallHas DEF Lists
<1>5. LinkCalls(body) = ((ul \o up) \o ll) \o lp
  BY DEF LinkCalls
<1> HIDE DEF ul, up, ll, lp, C
<1>6. ul \o up \in Seq(Calls) /\ \A x : Has(ul, x) \/ Has(up, x) => Has(ul \o up, x)
  BY <1>1, <1>2, HasConcat
<1> DEFINE two == ul \o up
<1> HIDE DEF two
<1>7. two \in Seq(Calls) /\ \A x : Has(ul, x) \/ Has(up, x) => Has(two, x)
  BY <1>6 DEF two
<1>8. two \o ll \in Seq(Calls) /\ \A x : Has(two, x) \/ Has(ll, x) => Has(two \o ll, x)
  BY <1>3, <1>7, HasConcat
<1> DEFINE three == two \o ll
<1> HIDE DEF three
<1>9. three \in Seq(Calls) /\ \A x : Has(two, x) \/ Has(ll, x) => Has(three, x)
  BY <1>8 DEF three
<1>10. three \o lp \in Seq(Calls) /\ \A x : Has(three, x) \/ Has(lp, x) => Has(three \o lp, x)
  BY <1>4, <1>9, HasConcat
<1>11. LinkCalls(body) = three \o lp
  BY <1>5 DEF three, two
<1> QED BY <1>1, <1>2, <1>3, <1>4, <1>7, <1>9, <1>10, <1>11 DEF C

\* All that a controller has for a list is fetched, or is the controller itself.
LEMMA ControllerBrings ==
  ASSUME DInv, NEW c \in DOMAIN ctrls, NEW l \in Lists, NEW p \in Paths, Needs(c, l, p)
  PROVE  LET body == ctrls[c]
             cs == ModernCalls(body) \o LinkCalls(body)
         IN  \/ Brings([dest |-> "physicalDrive", checked |-> TRUE, members |-> body.drives], l, p)
             \/ l = "arrayController" /\ IsArrayController(body) /\ body.url[1] = p
             \/ \E m \in DOMAIN cs : Brings(cs[m], l, p)
<1> DEFINE body == ctrls[c]
           cs == ModernCalls(body) \o LinkCalls(body)
           Called(dest, checked, members) ==
             Has(cs, [dest |-> dest, checked |-> checked, members |-> members])
<1>1. body \in ControllerBodies
  BY DEF DInv, DTypeOK
<1> HIDE DEF body
<1>2. ModernCalls(body) \in Seq(Calls) /\ LinkCalls(body) \in Seq(Calls)
  <2>1. body.drives = <<>> => ModernCalls(body) = <<>>
    BY DEF ModernCalls
  <2>2. <<>> \in Seq(Calls)
    OBVIOUS
  <2> QED BY <1>1, <2>1, <2>2, ModernHas, LinkedHas
<1>3. \A x : Has(ModernCalls(body), x) \/ Has(LinkCalls(body), x) => Has(cs, x)
  BY <1>2, HasConcat
<1> HIDE DEF cs
<1>4. ASSUME NEW s, NEW checked \in BOOLEAN, Called(l, checked, s), checked => p \notin Excluded,
             NEW n \in DOMAIN s, s[n][1] = p
      PROVE  \E m \in DOMAIN cs : Brings(cs[m], l, p)
  <2>1. PICK m \in DOMAIN cs : cs[m] = [dest |-> l, checked |-> checked, members |-> s]
    BY <1>4 DEF Has
  <2>2. cs[m].dest = l /\ cs[m].checked = checked /\ cs[m].members = s
    BY <2>1
  <2> QED BY <1>4, <2>2 DEF Brings
<1>5. \A u : u \in {p} \X BOOLEAN => u[1] = p
  OBVIOUS
<1> HIDE DEF Called
<1>6. CASE In({p} \X BOOLEAN, LinkedBy(body, l))
  <2>1. PICK s \in LinkedBy(body, l) : \E n \in DOMAIN s : s[n] \in {p} \X BOOLEAN
    BY <1>6 DEF In
  <2>2. PICK n \in DOMAIN s : s[n][1] = p
    BY <1>5, <2>1
  <2>3. s # <<>>
    BY <2>2
  <2>4. CASE l = "physicalDrive"
    <3>1. Called(l, FALSE, s)
      BY <1>1, <1>3, <2>1, <2>3, <2>4, LinkedHas DEF LinkedBy, Called
    <3> QED BY <1>4, <2>2, <3>1 DEF cs, body
  <2>5. CASE l = "logicalDrive"
    <3>1. Called(l, FALSE, s)
      BY <1>1, <1>3, <2>1, <2>3, <2>5, LinkedHas DEF LinkedBy, Called
    <3> QED BY <1>4, <2>2, <3>1 DEF cs, body
  <2>6. CASE l = "arrayController" /\ body.drives # <<>>
    <3>1. Called(l, FALSE, s)
      BY <1>1, <1>3, <2>1, <2>3, <2>6, ModernHas DEF LinkedBy, Called
    <3> QED BY <1>4, <2>2, <3>1 DEF cs, body
  <2>7. CASE l = "arrayController" /\ body.drives = <<>>
    <3>1. IsArrayController(body) /\ s = <<body.url>>
      BY <2>1, <2>7 DEF LinkedBy
    <3>2. s[n] = body.url
      BY <2>2, <3>1
    <3> QED BY <2>2, <2>7, <3>1, <3>2 DEF body
  <2> QED BY <2>4, <2>5, <2>6, <2>7 DEF Lists
<1>7. CASE p \notin Excluded /\ In({p} \X BOOLEAN, ShownBy(body, l))
  <2>1. PICK s \in ShownBy(body, l) : \E n \in DOMAIN s : s[n] \in {p} \X BOOLEAN
    BY <1>7 DEF In
  <2>2. PICK n \in DOMAIN s : s[n][1] = p
    BY <1>5, <2>1
  <2>3. CASE l = "physicalDrive"
    <3>1. s = body.drives
      BY <2>1, <2>3 DEF ShownBy
    <3> QED BY <1>7, <2>2, <2>3, <3>1 DEF Brings, body
  <2>4. CASE l = "logicalDrive"
    <3>1. body.drives # <<>> /\ \E v \in DOMAIN body.volumes : s = body.volumes[v]
      BY <2>1, <2>4 DEF ShownBy
    <3>2. Called(l, TRUE, s)
      BY <1>1, <1>3, <2>4, <3>1, ModernHas DEF Called
    <3> QED BY <1>4, <1>7, <2>2, <3>2 DEF cs, body
  <2>5. l # "arrayController"
    BY <2>1 DEF ShownBy
  <2> QED BY <2>3, <2>4, <2>5 DEF Lists
<1> QED BY <1>6, <1>7 DEF Needs, body

LEMMA DInitWay == DInit \/ DOff => WayOK
<1> SUFFICES ASSUME DInit \/ DOff PROVE WayOK
  OBVIOUS
<1>1. /\ ctrl = 1 /\ drives = [l \in Lists |-> <<>>]
      /\ dpc \in {"off", "initial"}
  BY DEF DInit, DOff
<1>2. ctrls \in Seq(ControllerBodies)
  BY DInitInv DEF DInv, DTypeOK
<1>3. Settled
  BY <1>1, <1>2 DEF Settled
<1>4. SlashedOK
  BY <1>1 DEF SlashedOK
<1> QED BY <1>1, <1>3, <1>4 DEF WayOK

\* What is needed depends on the controllers alone.
LEMMA SameControllers ==
  ASSUME ctrls' = ctrls
  PROVE  \A c, l, p : Needs(c, l, p)' <=> Needs(c, l, p)
  BY DEF Needs

\* A URL that enters a list leaves the others and what the list has.
LEMMA DrivesGrow ==
  ASSUME DInv, WayOK, NEW d \in Lists, NEW url \in Urls,
         drives' = [drives EXCEPT ![d] = Append(@, appendSlash(url))]
  PROVE  /\ SlashedOK'
         /\ Has(drives'[d], <<url[1], TRUE>>)
         /\ \A l \in Lists, p \in Paths : InList(l, p) => Has(drives'[l], <<p, TRUE>>)
<1> DEFINE new == appendSlash(url)
<1>1. /\ drives \in [Lists -> Seq(Urls)] /\ new \in Urls /\ new = <<url[1], TRUE>>
      /\ new[2] = TRUE
  BY SlashType DEF DInv, DTypeOK, appendSlash
<1>2. drives' = [drives EXCEPT ![d] = Append(@, new)]
  OBVIOUS
<1> HIDE DEF new
<1>3. \A l \in Lists : drives'[l] = drives[l] \/ (l = d /\ drives'[l] = Append(drives[l], new))
  BY <1>1, <1>2
<1>4. drives'[d] = Append(drives[d], new)
  BY <1>1, <1>2
<1>5. SlashedOK'
  <2> SUFFICES ASSUME NEW l \in Lists, NEW n \in DOMAIN drives'[l]
               PROVE  drives'[l][n][2] = TRUE
    BY DEF SlashedOK
  <2>1. drives[l] \in Seq(Urls)
    BY <1>1
  <2>2. CASE drives'[l] = drives[l]
    BY <2>2 DEF WayOK, SlashedOK
  <2>3. CASE drives'[l] = Append(drives[l], new)
    <3>1. \/ n \in DOMAIN drives[l] /\ drives'[l][n] = drives[l][n]
          \/ drives'[l][n] = new
      <4> DEFINE list == drives[l]
      <4>1. list \in Seq(Urls) /\ new \in Urls /\ drives'[l] = Append(list, new)
            /\ n \in DOMAIN Append(list, new)
        BY <1>1, <2>1, <2>3
      <4> HIDE DEF list
      <4>2. \/ n \in DOMAIN list /\ Append(list, new)[n] = list[n]
            \/ n = Len(list) + 1 /\ Append(list, new)[n] = new
        BY <4>1, AppendElements
      <4> QED BY <4>1, <4>2 DEF list
    <3> QED BY <1>1, <3>1 DEF WayOK, SlashedOK
  <2> QED BY <1>3, <2>2, <2>3
<1>6. Has(drives'[d], <<url[1], TRUE>>)
  BY <1>1, <1>4, HasAppended
<1>7. \A l \in Lists, p \in Paths : InList(l, p) => Has(drives'[l], <<p, TRUE>>)
  BY <1>1, <1>3, HasAppended DEF InList
<1> QED BY <1>5, <1>6, <1>7

\* All of a controller is listed or to come once it has been read.
LEMMA GetControllerWay ==
  ASSUME DInv, WayOK, GetController
  PROVE  WayOK'
<1> DEFINE body == ctrls[ctrl]
           shown == [dest |-> "physicalDrive", checked |-> TRUE, members |-> body.drives]
<1>1. /\ ctrl \in DOMAIN ctrls /\ dpc = "ctrl" /\ dpc' = "take" /\ UNCHANGED <<ctrls, ctrl>>
      /\ calls' = ModernCalls(body) \o LinkCalls(body)
      /\ taking' = shown
      /\ drives' = IF IsArrayController(body)
                   THEN [drives EXCEPT !["arrayController"] = Append(@, appendSlash(body.url))]
                   ELSE drives
  BY DEF GetController, DInv, DTypeOK
<1>2. body.url \in Urls
  <2>1. body \in ControllerBodies
    BY <1>1 DEF DInv, DTypeOK
  <2> QED BY <2>1, BodyTypes
<1>3. /\ SlashedOK'
      /\ IsArrayController(body) => Has(drives'["arrayController"], <<body.url[1], TRUE>>)
      /\ \A l \in Lists, p \in Paths : InList(l, p) => InList(l, p)'
  <2>1. CASE IsArrayController(body)
    <3>1. drives' = [drives EXCEPT !["arrayController"] = Append(@, appendSlash(body.url))]
      BY <1>1, <2>1
    <3> DEFINE u == body.url
    <3>2. u \in Urls /\ drives' = [drives EXCEPT !["arrayController"] = Append(@, appendSlash(u))]
      BY <1>2, <3>1
    <3> HIDE DEF u
    <3>3. "arrayController" \in Lists
      BY DEF Lists
    <3>4. /\ SlashedOK'
          /\ Has(drives'["arrayController"], <<u[1], TRUE>>)
          /\ \A l \in Lists, p \in Paths : InList(l, p) => Has(drives'[l], <<p, TRUE>>)
      BY <3>2, <3>3, DrivesGrow
    <3> QED BY <1>1, <3>4 DEF u, InList
  <2>2. CASE ~IsArrayController(body)
    BY <1>1, <2>2 DEF WayOK, SlashedOK, InList
  <2> QED BY <2>1, <2>2
<1>4. Settled'
  <2> SUFFICES ASSUME NEW c \in DOMAIN ctrls, NEW l \in Lists, NEW p \in Paths, Needs(c, l, p)
               PROVE  /\ c < ctrl => InList(l, p)'
                      /\ c = ctrl => InList(l, p)' \/ ToCome(l, p)'
    BY <1>1, SameControllers DEF Settled
  <2>1. c < ctrl => InList(l, p)'
    BY <1>3 DEF WayOK, Settled
  <2>2. ASSUME c = ctrl PROVE InList(l, p)' \/ ToCome(l, p)'
    <3>1. \/ Brings(taking', l, p)
          \/ l = "arrayController" /\ IsArrayController(body) /\ body.url[1] = p
          \/ \E m \in DOMAIN calls' : Brings(calls'[m], l, p)
      BY <1>1, <2>2, ControllerBrings
    <3>2. CASE l = "arrayController" /\ IsArrayController(body) /\ body.url[1] = p
      BY <1>1, <1>3, <3>2 DEF InList
    <3> QED BY <3>1, <3>2 DEF ToCome, Brings
  <2> QED BY <2>1, <2>2
<1> QED BY <1>1, <1>3, <1>4 DEF WayOK

\* A member that does not enter is excluded or listed already.
LEMMA TakeMemberWay ==
  ASSUME DInv, WayOK, TakeMember
  PROVE  WayOK'
<1> DEFINE url == Head(taking.members)
           rest == Tail(taking.members)
           d == taking.dest
<1>1. /\ dpc = "take" /\ taking.members # <<>> /\ UNCHANGED <<ctrls, ctrl, calls, dpc>>
      /\ taking' = [taking EXCEPT !.members = rest]
      /\ drives' = IF Enters(url)
                   THEN [drives EXCEPT ![d] = Append(@, appendSlash(url))] ELSE drives
  BY DEF TakeMember
<1>2. /\ taking \in Calls /\ d \in Lists /\ taking.members \in Seq(Urls)
      /\ taking.checked \in BOOLEAN
  BY DEF DInv, DTypeOK, Calls
<1>3. /\ url \in Urls /\ url = taking.members[1]
      /\ \A n \in DOMAIN taking.members :
           n = 1 \/ (n - 1 \in DOMAIN rest /\ rest[n - 1] = taking.members[n])
  BY <1>1, <1>2
<1>4. taking'.dest = d /\ taking'.checked = taking.checked /\ taking'.members = rest
  BY <1>1, <1>2 DEF Calls
<1> HIDE DEF url, rest, d
<1>5. /\ SlashedOK'
      /\ \A l \in Lists, p \in Paths : InList(l, p) => InList(l, p)'
      /\ Enters(url) => Has(drives'[d], <<url[1], TRUE>>)
  <2>1. CASE Enters(url)
    <3>1. drives' = [drives EXCEPT ![d] = Append(@, appendSlash(url))]
      BY <1>1, <2>1
    <3>2. /\ SlashedOK'
          /\ Has(drives'[d], <<url[1], TRUE>>)
          /\ \A l \in Lists, p \in Paths : InList(l, p) => Has(drives'[l], <<p, TRUE>>)
      BY <1>2, <1>3, <3>1, DrivesGrow
    <3> QED BY <3>2 DEF InList
  <2>2. CASE ~Enters(url)
    BY <1>1, <2>2 DEF WayOK, SlashedOK, InList
  <2> QED BY <2>1, <2>2
<1>6. ASSUME ~Enters(url), url[1] \notin Excluded
      PROVE  InList(d, url[1])
  <2>1. PICK n \in DOMAIN drives[d] : drives[d][n] = url
    BY <1>2, <1>6 DEF Enters, checkUnique, Has, d
  <2>2. url[2] = TRUE
    BY <1>2, <2>1 DEF WayOK, SlashedOK
  <2>3. url = <<url[1], TRUE>>
    <3>1. PICK p \in Paths, b \in BOOLEAN : url = <<p, b>>
      BY <1>3 DEF Urls
    <3> QED BY <2>2, <3>1
  <2> QED BY <2>1, <2>3 DEF InList, Has
<1>7. ASSUME NEW l \in Lists, NEW p \in Paths, Brings(taking, l, p)
      PROVE  InList(l, p)' \/ Brings(taking, l, p)'
  <2>1. l = d /\ (taking.checked => p \notin Excluded)
    BY <1>7 DEF Brings, d
  <2>2. PICK n \in DOMAIN taking.members : taking.members[n][1] = p
    BY <1>7 DEF Brings
  <2>3. CASE n = 1
    <3>1. url[1] = p
      BY <1>3, <2>2, <2>3
    <3>2. CASE Enters(url)
      BY <1>5, <2>1, <3>1, <3>2 DEF InList
    <3>3. CASE ~Enters(url)
      <4>1. taking.checked
        BY <3>3 DEF Enters
      <4>2. InList(l, p)
        BY <1>6, <2>1, <3>1, <3>3, <4>1
      <4> QED BY <1>5, <4>2
    <3> QED BY <3>2, <3>3
  <2>4. CASE n # 1
    BY <1>3, <1>4, <2>1, <2>2, <2>4 DEF Brings
  <2> QED BY <2>3, <2>4
<1>8. \A l \in Lists, p \in Paths : ToCome(l, p) => InList(l, p)' \/ ToCome(l, p)'
  BY <1>1, <1>7 DEF ToCome, Brings
<1>9. Settled'
  BY <1>1, <1>5, <1>8, SameControllers DEF WayOK, Settled
<1> QED BY <1>1, <1>5, <1>9 DEF WayOK

LEMMA DStepWay ==
  ASSUME DInv, WayOK, DNext
  PROVE  WayOK'
<1>1. CASE Fail \/ GetInitial \/ AllWalked
  <2>1. /\ UNCHANGED <<ctrls, ctrl, calls, taking, drives>> /\ dpc' \in {"failed", "ctrl", "done"}
        /\ dpc' = "done" => ctrl > Len(ctrls)
    BY <1>1 DEF Fail, GetInitial, AllWalked
  <2>2. Settled'
    BY <2>1, SameControllers DEF WayOK, Settled, InList
  <2>3. SlashedOK'
    BY <2>1 DEF WayOK, SlashedOK
  <2> QED BY <2>1, <2>2, <2>3 DEF WayOK
<1>2. CASE Taken
  <2>1. /\ dpc = "take" /\ taking.members = <<>> /\ UNCHANGED <<ctrls, calls, taking, drives>>
        /\ \/ dpc' = "call" /\ ctrl' = ctrl
           \/ calls = <<>> /\ dpc' = "ctrl" /\ ctrl' = ctrl + 1
        /\ ctrl \in Nat /\ ctrls \in Seq(ControllerBodies)
    BY <1>2 DEF Taken, DInv, DTypeOK
  <2>2. SlashedOK'
    BY <2>1 DEF WayOK, SlashedOK
  <2>3. ASSUME dpc' = "call" PROVE Settled'
    <3>1. \A l \in Lists, p \in Paths : ToCome(l, p) => ToCome(l, p)'
      BY <2>1 DEF ToCome, Brings
    <3> QED BY <2>1, <2>3, <3>1, SameControllers DEF WayOK, Settled, InList
  <2>4. ASSUME dpc' = "ctrl" PROVE Settled'
    <3>1. \A l \in Lists, p \in Paths : ~ToCome(l, p)
      BY <2>1, <2>4 DEF ToCome, Brings
    <3>2. \A c \in DOMAIN ctrls : c < ctrl' => c < ctrl \/ c = ctrl
      BY <2>1, <2>4
    <3> QED BY <2>1, <2>4, <3>1, <3>2, SameControllers DEF WayOK, Settled, InList
  <2> QED BY <2>1, <2>2, <2>3, <2>4 DEF WayOK
<1>3. CASE GetCollection
  <2>1. /\ dpc = "call" /\ dpc' = "take" /\ calls \in Seq(Calls) /\ calls # <<>>
        /\ UNCHANGED <<ctrls, ctrl, drives>>
        /\ taking' = Head(calls) /\ calls' = Tail(calls)
    BY <1>3 DEF GetCollection, DInv, DTypeOK
  <2>2. /\ taking' = calls[1]
        /\ \A m \in DOMAIN calls :
             m = 1 \/ (m - 1 \in DOMAIN calls' /\ calls'[m - 1] = calls[m])
    BY <2>1
  <2>3. \A l \in Lists, p \in Paths : ToCome(l, p) => ToCome(l, p)'
    <3>1. \A l \in Lists, p \in Paths : ~Brings(taking, l, p)
      BY <2>1 DEF WayOK, Brings
    <3> QED BY <2>2, <3>1 DEF ToCome, Brings
  <2>4. Settled'
    BY <2>1, <2>3, SameControllers DEF WayOK, Settled, InList
  <2>5. SlashedOK'
    BY <2>1 DEF WayOK, SlashedOK
  <2> QED BY <2>1, <2>4, <2>5 DEF WayOK
<1> QED BY <1>1, <1>2, <1>3, GetControllerWay, TakeMemberWay DEF DNext

-----------------------------------------------------------------------------
(* The two together.                                                       *)

LEMMA SpecInv == Spec => [](EInv /\ PlaceOK /\ DInv /\ WayOK)
<1>1. Init => EInv /\ PlaceOK /\ DInv /\ WayOK
  BY EInitInv, EInitPlace, DInitInv, DInitWay DEF Init
<1>2. EInv /\ PlaceOK /\ DInv /\ WayOK /\ [Next]_vars => (EInv /\ PlaceOK /\ DInv /\ WayOK)'
  <2> SUFFICES ASSUME EInv, PlaceOK, DInv, WayOK, [Next]_vars
               PROVE  EInv' /\ PlaceOK' /\ DInv' /\ WayOK'
    OBVIOUS
  <2>1. UNCHANGED evars => EInv'
    <3>1. UNCHANGED evars => ETypeOK'
      BY DEF evars, EInv, ETypeOK
    <3>2. UNCHANGED evars => ChassisOK'
      BY DEF evars, EInv, ChassisOK, From
    <3>3. UNCHANGED evars => NoDuplicates' /\ OnlyOffered'
      BY DEF evars, EInv, NoDuplicates, OnlyOffered, Offers
    <3> QED BY <3>1, <3>2, <3>3 DEF EInv
  <2>2. UNCHANGED evars => PlaceOK'
    <3> SUFFICES ASSUME UNCHANGED evars PROVE PlaceOK'
      OBVIOUS
    <3>1. UNCHANGED <<tree, pos, chas, sysEnd, slot, at, nested, epc>>
      BY DEF evars
    <3>2. WalkedListed'
      BY <3>1, SameTree DEF PlaceOK, WalkedListed, Walked, Listed
    <3>3. HoldsAll' /\ PassedOver' /\ AtEnd'
      BY <3>1, SameTree DEF PlaceOK, HoldsAll, PassedOver, AtEnd
    <3>4. TakenListed'
      BY <3>1 DEF PlaceOK, TakenListed, Skipped, Wanted, Listed
    <3>5. ReachedOnly'
      BY <3>1, SameTree DEF PlaceOK, ReachedOnly, Reached
    <3> QED BY <3>2, <3>3, <3>4, <3>5 DEF PlaceOK
  <2>3. UNCHANGED dvars => DInv'
    BY DEF dvars, DInv, DTypeOK, CallsOK, Origin, TwiceOnlyIfUnslashed
  <2>4. UNCHANGED dvars => WayOK'
    <3> SUFFICES ASSUME UNCHANGED dvars PROVE WayOK'
      OBVIOUS
    <3>1. UNCHANGED <<ctrls, ctrl, calls, taking, drives, dpc>>
      BY DEF dvars
    <3>2. SlashedOK'
      BY <3>1 DEF WayOK, SlashedOK
    <3>3. \A d \in Lists, u \in Urls : (InList(d, u))' = InList(d, u)
      BY <3>1 DEF InList
    <3>4. Settled'
      BY <3>1, SameControllers DEF WayOK, Settled, InList, ToCome
    <3> QED BY <3>1, <3>2, <3>4 DEF WayOK
  <2> QED BY <2>1, <2>2, <2>3, <2>4, EStepInv, EStepPlace, DStepInv, DStepWay DEF Next, vars
<1> QED BY <1>1, <1>2, PTL DEF Spec

\* Every variable of the two walks keeps its type.
THEOREM DiscoveryTypeOK == Spec => []TypeOK
<1>1. EInv /\ DInv => TypeOK
  BY DEF EInv, DInv, TypeOK
<1> QED BY <1>1, SpecInv, PTL

\* No resource of a chassis is listed twice, for any number of chassis and links.
\* (helpers.go:78-181)
THEOREM DiscoveryNoDuplicates == Spec => []NoDuplicates
<1>1. EInv => NoDuplicates
  BY DEF EInv
<1> QED BY <1>1, SpecInv, PTL

\* Whatever is listed was offered by a chassis in a slot of its kind, although
\* one variable takes the bodies of all of them; no excluded drive is listed.
\* (helpers.go:60, 153-187)
THEOREM DiscoveryOnlyOffered == Spec => []OnlyOffered
<1>1. EInv => OnlyOffered
  BY DEF EInv
<1> QED BY <1>1, SpecInv, PTL

\* A resource is listed twice only if it is linked, or shown without its slash.
\* (helpers.go:286-287, 304-305)
THEOREM DiscoveryTwiceOnlyIfUnslashed == Spec => []TwiceOnlyIfUnslashed
<1>1. DInv => TwiceOnlyIfUnslashed
  BY DEF DInv
<1> QED BY <1>1, SpecInv, PTL

\* Discovery that ends without an error has every link of every chassis in the
\* list of its kind, but for excluded drives and for nested power and thermal
\* links of other chassis than the first to have any.  (helpers.go:108-148)
THEOREM DiscoveryNoneLost == Spec => []NoneLost
<1>1. EInv /\ PlaceOK => NoneLost
  <2> SUFFICES ASSUME EInv, PlaceOK, epc = "done",
                      NEW c \in 1..Len(tree), NEW s \in Slots, NEW p \in Paths,
                      Due(c, s, p)
               PROVE  Listed(s, p)
    BY DEF NoneLost, Due, Listed
  <2>1. Walked(c, s)
    BY DEF PlaceOK, AtEnd, Walked, EInv, ETypeOK
  <2> QED BY <2>1 DEF PlaceOK, WalkedListed
<1> QED BY <1>1, SpecInv, PTL

\* When the walk over the controllers has not failed, all that is linked is
\* listed, and all that is shown but for the excluded.  (helpers.go:281-385)
THEOREM DiscoveryAllListed == Spec => []AllListed
<1>1. DInv /\ WayOK => AllListed
  <2> SUFFICES ASSUME DInv, WayOK, dpc = "done",
                      NEW l \in Lists, NEW c \in DOMAIN ctrls, NEW p \in Paths,
                      Needs(c, l, p)
               PROVE  InList(l, p)
    BY DEF AllListed, Needs, InList
  <2>1. c < ctrl
    BY DEF WayOK, DInv, DTypeOK
  <2> QED BY <2>1 DEF WayOK, Settled
<1> QED BY <1>1, SpecInv, PTL
=============================================================================
