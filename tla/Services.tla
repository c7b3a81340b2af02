------------------------------ MODULE Services ------------------------------
(***************************************************************************)
(* The services beside the scheduler: render jobs, publication, issue       *)
(* delivery, the challenge programme and model hosts.  The five models      *)
(* share no variable and no step.                                           *)
(*                                                                          *)
(* Each is run while the others rest in their initial state.  What holds of *)
(* a service does not depend on the others, so this leaves nothing out, and *)
(* the states are the sum of the services' states and not the product.      *)
(***************************************************************************)
EXTENDS RenderJobs, StudioPublish, IssueDelivery, ChallengeProgram, ModelHosts

ServicesInit == RenderInit /\ PubInit /\ IssueInit /\ ProgramInit /\ HostInit

ServicesNext ==
  \/ /\ PubInit /\ IssueInit /\ ProgramInit /\ HostInit
     /\ RenderNext
     /\ UNCHANGED <<pubVars, issueVars, programVars, hostedVars>>
  \/ /\ RenderInit /\ IssueInit /\ ProgramInit /\ HostInit
     /\ PubNext
     /\ UNCHANGED <<renderVars, issueVars, programVars, hostedVars>>
  \/ /\ RenderInit /\ PubInit /\ ProgramInit /\ HostInit
     /\ IssueNext
     /\ UNCHANGED <<renderVars, pubVars, programVars, hostedVars>>
  \/ /\ RenderInit /\ PubInit /\ IssueInit /\ HostInit
     /\ ProgramNext
     /\ UNCHANGED <<renderVars, pubVars, issueVars, hostedVars>>
  \/ /\ RenderInit /\ PubInit /\ IssueInit /\ ProgramInit
     /\ HostNext
     /\ UNCHANGED <<renderVars, pubVars, issueVars, programVars>>

ServicesSpec ==
  /\ ServicesInit
  /\ [][ServicesNext]_<<renderVars, pubVars, issueVars, programVars, hostedVars>>

\* Every variable of every service has its type.
ServicesTypeOK ==
  RenderTypeOK /\ PubTypeOK /\ IssueTypeOK /\ ProgramTypeOK /\ HostTypeOK
=============================================================================
