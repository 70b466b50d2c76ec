------------------------------ MODULE MCAppTree ------------------------------
EXTENDS AppTree
CONSTANTS app, bus, agent, board, driver, port
MCNodes == {app, bus, agent, board, driver, port}
\* Two modules, one with two nodes below it, one with one.
MCParent == [n \in MCNodes \ {app} |-> IF n \in {agent, board} THEN bus
                                 ELSE IF n = port THEN driver ELSE app]
=============================================================================
