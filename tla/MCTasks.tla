------------------------------- MODULE MCTasks -------------------------------
EXTENDS Tasks, TLC

Lists(a, l, p) == [there |-> TRUE, array |-> a, logical |-> l, physical |-> p]

\* An iLO server and a server with volumes.
Old ==
  [managers |-> <<"plain">>, systems |-> 1, memory |-> TRUE, dimm |-> 2,
   processor |-> 1, controllers |-> 0, volumes |-> 0, drives |-> 0, power |-> 1,
   thermal |-> 1, smart |-> Lists(1, 1, 2), storage |-> NoDrives,
   fml |-> TRUE, update |-> FALSE, inventory |-> 0]
New ==
  [managers |-> <<"CIMC", "plain">>, systems |-> 1, memory |-> TRUE, dimm |-> 1,
   processor |-> 2, controllers |-> 1, volumes |-> 1, drives |-> 1, power |-> 2,
   thermal |-> 1, smart |-> NoDrives, storage |-> Lists(1, 0, 1),
   fml |-> FALSE, update |-> TRUE, inventory |-> 1]

\* One or two facts of either changed.
Drives == {NoDrives, Lists(0, 0, 0), Lists(1, 1, 0), Lists(1, 0, 2)}
MCDevices ==
  UNION { {[d EXCEPT !.managers = m] :
             m \in {<<>>, <<"CIMC">>, <<"CIMC", "CIMC">>, <<"plain", "CIMC">>}}
          \cup {[d EXCEPT !.systems = 0], [d EXCEPT !.memory = FALSE],
                [d EXCEPT !.dimm = 0, !.power = 0]}
          \cup {[d EXCEPT !.smart = x, !.storage = y, !.drives = n, !.controllers = c] :
                  x, y \in Drives, n, c \in 0..1}
          \cup {[d EXCEPT !.fml = f, !.update = u, !.inventory = i] :
                  f, u \in BOOLEAN, i \in 0..3}
        : d \in {Old, New} }

MCRequests ==
  {Components, {"firmware"}, {"firmware", "system"}, {"drives"}, {"storage_controller"},
   {"memory", "power"}, {"processor", "nonsense"}, {"thermal"}, {"nonsense"}, {}}
=============================================================================
