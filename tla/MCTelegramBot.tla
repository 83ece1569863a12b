---------------------------- MODULE MCTelegramBot -----------------------------
(* Small instances of TelegramBot: a few updates of the chosen kinds and a *)
(* few faults.                                                             *)
EXTENDS TelegramBot, TLC

CONSTANTS Kinds, MaxFaults

VARIABLE faults

MCInit == BotInit /\ faults = 0
MCNext ==
  \/ /\ Send /\ sent'[Len(sent')].kind \in Kinds
     /\ UNCHANGED faults
  \/ (OpenTablet \/ BotStep \/ TabletStep) /\ UNCHANGED faults
  \/ faults < MaxFaults /\ Fault /\ faults' = faults + 1
MCSpec     == MCInit /\ [][MCNext]_<<botVars, faults>>
MCFairSpec == MCSpec /\ Fairness
=============================================================================
