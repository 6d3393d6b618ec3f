---------------------------- MODULE MCComponents ----------------------------
(***************************************************************************)
(* The components that share no state with the queue, checked side by      *)
(* side: a behaviour is a behaviour of one of them, and the others stay as *)
(* they began.                                                             *)
(***************************************************************************)
EXTENDS Accounts, Messages, Billing, MusicCache, MemStore, Renders, Panel,
        SelfHeal, AgentTasks, Keeper, Standby, LoadReports, TLC

CONSTANTS q1, q2, jack

VARIABLE component

Components == {"accounts", "inbox", "billing", "music", "store", "renders",
               "panel", "healer", "tasks", "keeper", "standby", "load"}
Looping == {"tasks", "keeper", "standby"}

MCRequests == {q1, q2}
MCEmails == {jack}
MCSymmetry == Permutations(MCRequests)

MCInit ==
  /\ component \in Components
  /\ AccountsInit
  /\ MessagesInit
  /\ BillingInit
  /\ MusicInit
  /\ MemStoreInit
  /\ RendersInit
  /\ PanelInit /\ (component = "panel" \/ panel.image = 1)
  /\ SelfHealInit
  /\ AgentTasksInit
  /\ KeeperInit
  /\ StandbyInit
  /\ LoadInit

MCNext ==
  \/ /\ component = "accounts" /\ AccountsNext
     /\ UNCHANGED <<mailVars, billingVars, musicVars, memVars, renderVars,
                    panelVars, healVars, taskVars, keeperVars, standbyVars,
                    loadVars, component>>
  \/ /\ component = "inbox" /\ MessagesNext
     /\ UNCHANGED <<accountsVars, billingVars, musicVars, memVars, renderVars,
                    panelVars, healVars, taskVars, keeperVars, standbyVars,
                    loadVars, component>>
  \/ /\ component = "billing" /\ BillingNext
     /\ UNCHANGED <<accountsVars, mailVars, musicVars, memVars, renderVars,
                    panelVars, healVars, taskVars, keeperVars, standbyVars,
                    loadVars, component>>
  \/ /\ component = "music" /\ MusicNext
     /\ UNCHANGED <<accountsVars, mailVars, billingVars, memVars, renderVars,
                    panelVars, healVars, taskVars, keeperVars, standbyVars,
                    loadVars, component>>
  \/ /\ component = "store" /\ MemStoreNext
     /\ UNCHANGED <<accountsVars, mailVars, billingVars, musicVars, renderVars,
                    panelVars, healVars, taskVars, keeperVars, standbyVars,
                    loadVars, component>>
  \/ /\ component = "renders" /\ RendersNext
     /\ UNCHANGED <<accountsVars, mailVars, billingVars, musicVars, memVars,
                    panelVars, healVars, taskVars, keeperVars, standbyVars,
                    loadVars, component>>
  \/ /\ component = "panel" /\ PanelNext
     /\ UNCHANGED <<accountsVars, mailVars, billingVars, musicVars, memVars,
                    renderVars, healVars, taskVars, keeperVars, standbyVars,
                    loadVars, component>>
  \/ /\ component = "healer" /\ SelfHealNext
     /\ UNCHANGED <<accountsVars, mailVars, billingVars, musicVars, memVars,
                    renderVars, panelVars, taskVars, keeperVars, standbyVars,
                    loadVars, component>>
  \/ /\ component = "tasks" /\ AgentTasksNext
     /\ UNCHANGED <<accountsVars, mailVars, billingVars, musicVars, memVars,
                    renderVars, panelVars, healVars, keeperVars, standbyVars,
                    loadVars, component>>
  \/ /\ component = "keeper" /\ KeeperNext
     /\ UNCHANGED <<accountsVars, mailVars, billingVars, musicVars, memVars,
                    renderVars, panelVars, healVars, taskVars, standbyVars,
                    loadVars, component>>
  \/ /\ component = "standby" /\ StandbyNext
     /\ UNCHANGED <<accountsVars, mailVars, billingVars, musicVars, memVars,
                    renderVars, panelVars, healVars, taskVars, keeperVars,
                    loadVars, component>>
  \/ /\ component = "load" /\ LoadNext
     /\ UNCHANGED <<accountsVars, mailVars, billingVars, musicVars, memVars,
                    renderVars, panelVars, healVars, taskVars, keeperVars,
                    standbyVars, component>>

mcVars == <<accountsVars, mailVars, billingVars, musicVars, memVars,
            renderVars, panelVars, healVars, taskVars, keeperVars,
            standbyVars, loadVars, component>>

MCSpec == MCInit /\ [][MCNext]_mcVars

MCFairness ==
  \/ component = "tasks" /\ AgentTasksFairness
  \/ component = "keeper" /\ KeeperFairness
  \/ component = "standby" /\ StandbyFairness

LoopsInit == MCInit /\ component \in Looping

MCFairSpec == LoopsInit /\ [][MCNext]_mcVars /\ MCFairness
----------------------------------------------------------------------------
\* Every component's state keeps its types: no count goes below zero or past
\* its limit, no request waits for a write that will not end, no execution,
\* child process or pass is in a state its code does not know.
ComponentsTypeOK ==
  /\ AccountsTypeOK
  /\ MessagesTypeOK
  /\ BillingTypeOK
  /\ MusicTypeOK
  /\ MemStoreTypeOK
  /\ RendersTypeOK
  /\ PanelTypeOK
  /\ SelfHealTypeOK
  /\ AgentTasksTypeOK
  /\ KeeperTypeOK
  /\ StandbyTypeOK
  /\ LoadTypeOK

\* TasksMove, of the component it is about.
WorkMoves == component = "tasks" => TasksMove
=============================================================================
