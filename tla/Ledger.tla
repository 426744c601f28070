------------------------------- MODULE Ledger -------------------------------
(***************************************************************************)
(* What a daily limit promises, whatever counts it and in however many     *)
(* places: a user's total in a region is a line on which each transaction  *)
(* claims a part of its own, as long as its amount, above everything that  *)
(* was claimed before, and only a part that lies below the limit is        *)
(* approved.  A claim that is never decided is lost, and so is what was    *)
(* counted twice: nothing is given back before the total expires.          *)
(*                                                                         *)
(* The atomic mode of RiskMonitor implements this specification.           *)
(***************************************************************************)
EXTENDS Naturals

CONSTANTS
  Regions, Users,
  Claims,  \* records with the region, user and epoch of a total and the part ]lo, hi] of it
  Amount,  \* Amount[c.tx]: what claim c is made for
  Limit

VARIABLES
  used,     \* used[r][u]: how far the line of u in region r has been claimed
  window,   \* window[r][u]: how often it has expired
  held,     \* claims not decided yet
  approved  \* claims approved

ledgerVars == <<used, window, held, approved>>

LedgerInit ==
  /\ used = [r \in Regions |-> [u \in Users |-> 0]]
  /\ window = [r \in Regions |-> [u \in Users |-> 0]]
  /\ held = {} /\ approved = {}

\* One transaction is counted.
Claim(c) ==
  /\ c \in Claims /\ c.hi = c.lo + Amount[c.tx]
  /\ c.epoch = window[c.region][c.user] /\ c.lo >= used[c.region][c.user]
  /\ used' = [used EXCEPT ![c.region][c.user] = c.hi]
  /\ held' = held \cup {c}
  /\ UNCHANGED <<window, approved>>

Approve(c) ==
  /\ c \in held /\ c.hi <= Limit
  /\ held' = held \ {c} /\ approved' = approved \cup {c}
  /\ UNCHANGED <<used, window>>

\* Part of a line, or none of it, is used up by no claim.
Wastes ==
  \E r \in Regions, u \in Users :
    /\ used'[r][u] \in Nat /\ used'[r][u] >= used[r][u]
    /\ used' = [used EXCEPT ![r][u] = used'[r][u]]

Waste == UNCHANGED <<window, approved, held>> /\ Wastes

\* A claim is refused, or whoever held it is gone.
Forfeit(c) ==
  /\ c \in held /\ held' = held \ {c}
  /\ Wastes /\ UNCHANGED <<window, approved>>

Expire(r, u) ==
  /\ used' = [used EXCEPT ![r][u] = 0]
  /\ window' = [window EXCEPT ![r][u] = @ + 1]
  /\ UNCHANGED <<held, approved>>

LedgerNext ==
  \/ Waste
  \/ \E c \in held' \ held : Claim(c)
  \/ \E c \in held : Approve(c) \/ Forfeit(c)
  \/ \E r \in Regions, u \in Users : Expire(r, u)

LedgerSpec == LedgerInit /\ [][LedgerNext]_ledgerVars
=============================================================================
