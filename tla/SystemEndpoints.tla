--------------------------- MODULE SystemEndpoints ---------------------------
(***************************************************************************)
(* getSystemEndpoints of src/exporter/helpers.go: the chassis of a BMC are *)
(* read one after the other and the links in them are collected into the   *)
(* lists the tasks of a scrape are made from.                              *)
(*                                                                         *)
(* One variable takes the bodies of all chassis, and a field that a body   *)
(* does not have keeps what an earlier one left in it.                     *)
(***************************************************************************)
EXTENDS Endpoints

CONSTANT Trees   \* external: the chassis a BMC may have, one sequence per BMC

\* The places of a chassis that hold links, in the order they are walked:
\* Links and links of the systems, Power, Thermal, then Links and links of
\* PoweredBy, CooledBy, Storage and Drives.
KindOf ==
  <<"systems", "systems", "power", "thermal", "power", "power", "thermal", "thermal",
    "storageController", "storageController", "drives", "drives">>
Slots == 1..12
Kinds == {"systems", "power", "thermal", "storageController", "drives"}
TopLevel == {3, 4}
Nested == 5..8

\* What a body says of a slot: "absent", or links it adds ("links": a list or a
\* single object), or links it replaces all others with ("strings").  At the top
\* level there is one link, and a new one replaces it.
Forms == {"absent", "links", "strings"}
ChassisBodies ==
  {b \in [Slots -> [form : Forms, urls : Seq(Urls)]] :
     \A s \in TopLevel : b[s].form # "links" /\ Len(b[s].urls) <= 1}

ASSUME TreesAssumption == Trees \subseteq Seq(ChassisBodies)

VARIABLES
  tree,     \* external: the bodies of this BMC's chassis
  pos,      \* the chassis whose turn it is
  chas,     \* the links the one Chassis variable holds, by slot
  sysEnd,   \* SystemEndpoints
  slot,     \* the slot that is walked
  at,       \* the next link of it
  nested,   \* the list of this kind was empty when its nested links came up
  epc       \* "off", "get", "walk", "done", "failed"

evars == <<tree, pos, chas, sysEnd, slot, at, nested, epc>>

EInit ==
  /\ tree \in Trees
  /\ pos = 1
  /\ chas = [s \in Slots |-> <<>>]
  /\ sysEnd = [k \in Kinds |-> <<>>]
  /\ slot = 1
  /\ at = 1
  /\ nested = FALSE
  /\ epc = "get"

\* json.Unmarshal into the variable that holds the chassis read before.
Decode(old, body) ==
  [s \in Slots |->
     CASE body[s].form = "absent"  -> old[s]
       [] body[s].form = "links"   -> old[s] \o body[s].urls
       [] body[s].form = "strings" -> body[s].urls]

\* A chassis is read, or the call fails and with it the discovery.
GetChassis ==
  /\ epc = "get"
  /\ pos <= Len(tree)
  /\ \/ /\ chas' = Decode(chas, tree[pos])
        /\ slot' = 1
        /\ at' = 1
        /\ epc' = "walk"
     \/ /\ epc' = "failed"
        /\ UNCHANGED <<chas, slot, at>>
  /\ UNCHANGED <<tree, pos, sysEnd, nested>>

AllRead ==
  /\ epc = "get"
  /\ pos > Len(tree)
  /\ epc' = "done"
  /\ UNCHANGED <<tree, pos, chas, sysEnd, slot, at, nested>>

Skipped == slot \in Nested /\ ~nested

\* The exclude pattern is for drives only.
Wanted(s, url) == KindOf[s] = "drives" => url[1] \notin Excluded

\* Mutants of TakeLink: no look at the list; no look at the exclude pattern.
TakeUnchecked ==
  /\ epc = "walk"
  /\ slot \in Slots
  /\ ~Skipped
  /\ at <= Len(chas[slot])
  /\ LET url == appendSlash(chas[slot][at])
         k == KindOf[slot]
     IN  sysEnd' = IF Wanted(slot, url)
                   THEN [sysEnd EXCEPT ![k] = Append(@, url)] ELSE sysEnd
  /\ at' = at + 1
  /\ UNCHANGED <<tree, pos, chas, slot, nested, epc>>
TakeExcluded ==
  /\ epc = "walk"
  /\ slot \in Slots
  /\ ~Skipped
  /\ at <= Len(chas[slot])
  /\ LET url == appendSlash(chas[slot][at])
         k == KindOf[slot]
     IN  sysEnd' = IF checkUnique(sysEnd[k], url)
                   THEN [sysEnd EXCEPT ![k] = Append(@, url)] ELSE sysEnd
  /\ at' = at + 1
  /\ UNCHANGED <<tree, pos, chas, slot, nested, epc>>

\* One turn of one of the loops over the links.
TakeLink ==
  /\ epc = "walk"
  /\ slot \in Slots
  /\ ~Skipped
  /\ at <= Len(chas[slot])
  /\ LET url == appendSlash(chas[slot][at])
         k == KindOf[slot]
     IN  sysEnd' = IF Wanted(slot, url) /\ checkUnique(sysEnd[k], url)
                   THEN [sysEnd EXCEPT ![k] = Append(@, url)] ELSE sysEnd
  /\ at' = at + 1
  /\ UNCHANGED <<tree, pos, chas, slot, nested, epc>>

\* Mutant: the nested links are looked at when the top level has one.
NestedSwapped == IF slot \in {4, 6} THEN sysEnd[KindOf[slot + 1]] # <<>> ELSE nested

\* The nested links of a kind count only while its list is empty: asked once,
\* before Links and links are walked.
NestedNow == IF slot \in {4, 6} THEN sysEnd[KindOf[slot + 1]] = <<>> ELSE nested

NextSlot ==
  /\ epc = "walk"
  /\ slot \in Slots
  /\ Skipped \/ at > Len(chas[slot])
  /\ nested' = NestedNow
  /\ slot' = slot + 1
  /\ at' = 1
  /\ UNCHANGED <<tree, pos, chas, sysEnd, epc>>

NextChassis ==
  /\ epc = "walk"
  /\ slot \notin Slots
  /\ pos' = pos + 1
  /\ epc' = "get"
  /\ UNCHANGED <<tree, chas, sysEnd, slot, at, nested>>

ENext == GetChassis \/ AllRead \/ TakeLink \/ NextSlot \/ NextChassis

ESpec == EInit /\ [][ENext]_evars

-----------------------------------------------------------------------------
(* Properties.                                                             *)

ETypeOK ==
  /\ tree \in Seq(ChassisBodies)
  /\ pos \in Nat \ {0}
  /\ chas \in [Slots -> Seq(Urls)]
  /\ sysEnd \in [Kinds -> Seq(Urls)]
  /\ slot \in 1..13
  /\ at \in Nat \ {0}
  /\ nested \in BOOLEAN
  /\ epc \in {"off", "get", "walk", "done", "failed"}

\* A link of chassis c in slot s, as its body has it.
Offers(c, s, url) ==
  /\ tree[c][s].form # "absent"
  /\ \E n \in DOMAIN tree[c][s].urls : appendSlash(tree[c][s].urls[n]) = url

\* No resource is listed twice, so that no task of a scrape is doubled, although
\* chassis share systems and supplies, spell one URL with and without its last
\* slash, and show the links of the chassis before them again.
\* (helpers.go:60, 78-181)
NoDuplicates ==
  \A k \in Kinds : \A m, n \in DOMAIN sysEnd[k] :
    sysEnd[k][m] = sysEnd[k][n] => m = n

\* Whatever is listed is a link that some chassis read so far has in a slot of
\* that kind; an excluded drive is never listed.  (helpers.go:153-187)
OnlyOffered ==
  \A k \in Kinds : \A n \in DOMAIN sysEnd[k] :
    /\ k = "drives" => sysEnd[k][n][1] \notin Excluded
    /\ \E c \in 1..Len(tree), s \in Slots :
         c <= pos /\ KindOf[s] = k /\ Offers(c, s, sysEnd[k][n])

\* No chassis up to c has a link of the kind of slot s at the top level, none
\* before c a nested one.
FirstNested(c, s) ==
  \A b \in 1..c, r \in Slots, p \in Paths :
    KindOf[r] = KindOf[s] /\ (r \in TopLevel \/ b < c) => ~Offers(b, r, <<p, TRUE>>)

\* Discovery that ends without an error has every link of every chassis, but
\* for the drives it excludes and for nested power and thermal links that do
\* not belong to the first chassis to have any.  (helpers.go:108-148)
NoneLost ==
  epc = "done" =>
    \A c \in 1..Len(tree), s \in Slots, p \in Paths :
      /\ Offers(c, s, <<p, TRUE>>)
      /\ Wanted(s, <<p, TRUE>>)
      /\ s \in Nested => FirstNested(c, s)
      => Has(sysEnd[KindOf[s]], <<p, TRUE>>)
=============================================================================
