--------------------------- MODULE MCBFCAllocator ----------------------------
EXTENDS BFCAllocator

CONSTANTS c1, c2, c3

\* An allocator that grows until the device refuses, and then gives less.
Growing ==
    [allow_growth |-> TRUE, total_memory |-> 4194304, device |-> 2621440,
     sizes |-> {500000, 1200000, 1450000},
     clients |-> [c \in Clients |-> IF c = c3 THEN {} ELSE {c # c1}]]

\* One whose device gives next to nothing.
Starved ==
    [allow_growth |-> TRUE, total_memory |-> 65536, device |-> 2000,
     sizes |-> {0, 1000, 3000},
     clients |-> [c \in Clients |-> IF c = c1 THEN BOOLEAN
                                    ELSE IF c = c2 THEN {FALSE} ELSE {}]]

\* A fixed amount of memory in which three sizes leave holes; the same with clients
\* that wait for each other; and the two above.
MCOptions ==
    {[allow_growth |-> FALSE, total_memory |-> 1600, device |-> 4096,
      sizes |-> {200, 512, 700}, clients |-> [c \in Clients |-> {TRUE}]],
     [allow_growth |-> FALSE, total_memory |-> 1000, device |-> 4096,
      sizes |-> {200, 700}, clients |-> [c \in Clients |-> {FALSE}]],
     Growing, Starved}
MCGrowing == {Growing}
MCStarved == {Starved}
=============================================================================
