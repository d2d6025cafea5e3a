----------------------------- MODULE MCDiscovery -----------------------------
EXTENDS Discovery, TLC

CONSTANTS a, b

MCPaths == {a, b}

\* Chassis: links in one or two slots, in every form.
Absent == [form |-> "absent", urls |-> <<>>]
Says(form, urls) == [form |-> form, urls |-> urls]
Empty == [s \in Slots |-> Absent]
Some == {<<<<a, TRUE>>>>, <<<<b, FALSE>>>>, <<<<b, TRUE>>, <<a, FALSE>>>>}
One == {x \in {s :> Says(f, u) @@ Empty : s \in Slots, f \in {"links", "strings"}, u \in Some} :
          x \in ChassisBodies}
Pairs == {<<1, 2>>, <<3, 5>>, <<4, 8>>, <<5, 6>>, <<9, 10>>, <<11, 12>>}
Two == {q[1] :> Says(IF q[1] \in TopLevel THEN "strings" ELSE "links", u)
          @@ q[2] :> Says("links", v) @@ Empty :
          q \in Pairs, u, v \in {<<<<a, FALSE>>>>, <<<<b, TRUE>>>>}}
MCBodies == {Empty} \cup One \cup Two
MCTrees == {<<>>} \cup {<<x>> : x \in MCBodies} \cup {<<x, y>> : x, y \in MCBodies}

\* Controllers: drives with volumes, or links, or both.
Coll == {NoLink, [there |-> TRUE, members |-> <<>>],
         [there |-> TRUE, members |-> <<<<a, FALSE>>>>]}
Ctrl(d, v, c, ul, up, ll, lp) ==
  [url |-> <<b, FALSE>>, drives |-> d, volumes |-> v, controllers |-> c,
   upperLogical |-> ul, upperPhysical |-> up, lowerLogical |-> ll, lowerPhysical |-> lp]
Shown == {<<>>, <<<<a, TRUE>>, <<b, TRUE>>>>, <<<<b, FALSE>>>>}
Modern == {Ctrl(d, v, c, NoLink, NoLink, NoLink, up) :
             d \in Shown, v \in {<<>>, <<<<<<a, TRUE>>>>, <<<<a, TRUE>>, <<b, FALSE>>>>>>},
             c, up \in Coll}
Old == {Ctrl(<<>>, <<>>, NoLink, ul, up, ll, lp) : ul, up, ll, lp \in Coll}
MCServers == {<<>>} \cup {<<x>> : x \in Modern \cup Old} \cup {<<x, y>> : x, y \in Modern}
=============================================================================
