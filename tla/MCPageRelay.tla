----------------------------- MODULE MCPageRelay ------------------------------
(* Small instances of PageRelay: one or two clients, a few commands, and a *)
(* few faults of the kinds that the instance allows.                       *)
EXTENDS PageRelay, TLC

CONSTANTS
  s1, s2, s3,
  Artists,             \* the clients that draw
  Unsteady,            \* the clients whose connection may break
  RelayFails,          \* whether the relay may crash and its writes may fail
  MaxTotal, MaxFaults
Symmetric == Permutations(Socket)

VARIABLE faults

Total   == FoldSet(LAMBDA c, n : n + Len(minted[c]), 0, Client)
MCWork  == Work /\ UNCHANGED faults
MCDraw  == Total < MaxTotal /\ UNCHANGED faults
             /\ \E c \in Artists : BeginStroke(c) \/ EndStroke(c) \/ Edit(c)
MCFault == /\ faults < MaxFaults /\ faults' = faults + 1
           /\ \/ \E c \in Unsteady : Drop(c)
              \/ RelayFails /\ (Crash \/ \E s \in Socket : FailWrite(s))
MCInit  == Init /\ faults = 0
MCNext  == MCWork \/ MCDraw \/ MCFault
MCSpec  == MCInit /\ [][MCNext]_<<vars, faults>>
MCFairSpec == MCSpec /\ Fairness
=============================================================================
