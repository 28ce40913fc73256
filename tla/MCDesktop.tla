------------------------------ MODULE MCDesktop ------------------------------
(***************************************************************************)
(* The two parts of the desktop application with processes and threads of  *)
(* their own: the host with its backends (Supervisor), and a benchmark     *)
(* campaign with its thread (Campaign).  They share no state, so a         *)
(* behaviour runs one of them and the other stays as it is.                *)
(***************************************************************************)
EXTENDS Supervisor, Campaign, TLC

VARIABLE runs \* which of them

desktopVars == <<runs, supervisorVars, campaignVars>>

DesktopInit == runs \in {"supervisor", "campaign"} /\ SupervisorInit /\ CampaignInit

\* The host may give up at startup, and processes run out: it may rest, a campaign may not.
DesktopNext ==
  \/ runs = "supervisor" /\ (SupervisorNext \/ UNCHANGED supervisorVars) /\ UNCHANGED <<runs, campaignVars>>
  \/ runs = "campaign" /\ CampaignNext /\ UNCHANGED <<runs, supervisorVars>>

DesktopSpec == DesktopInit /\ [][DesktopNext]_desktopVars

MCSymmetry == Permutations(Procs) \cup Permutations(Threads)
=============================================================================
