--------------------------- MODULE MCRiskMonitor ---------------------------
(***************************************************************************)
(* TLC instances of RiskMonitor, all for one user.  In the one-region      *)
(* instances every task polls west; in the two-region instance t2 and m2   *)
(* belong to east, and each region is the other's peer.                    *)
(***************************************************************************)
EXTENDS RiskMonitor, TLC

CONSTANTS m1, m2, m3, t1, t2, west, east, alice

AllWest(S)  == [x \in S |-> west]
MCAmount    == [m \in Messages |-> IF m = m1 THEN 3 ELSE 2]
MCUserOf    == [m \in Messages |-> alice]
MCQueueOf   == [m \in Messages |-> IF m = m2 THEN east ELSE west]
MCPolls     == [t \in Tasks |-> IF t = t2 THEN east ELSE west]
MCOneQueue  == AllWest(Messages)
MCOnePoll   == AllWest(Tasks)
MCPeer      == [r \in Queues |-> IF r = west THEN east ELSE west]
MCSelfPeer  == AllWest(Queues)
MCSymmetry  == Permutations(Tasks)
=============================================================================
