----------------------------- MODULE ChatParts -----------------------------
(***************************************************************************)
(* The parts of a chat side by side. They share no variable, and meet only *)
(* where Chat ends a message by handing it to another part: any of them    *)
(* may take a step between two steps of any other.                         *)
(***************************************************************************)
EXTENDS Chat, Onboarding, Conversation, Supervisor, Router, TallyImport

partsVars == <<chatVars, onboardingVars, conversationVars, supervisorVars, routerVars, importVars>>

PartsInit == /\ ChatInit /\ OnboardingInit /\ ConversationInit /\ SupervisorInit
             /\ RouterInit /\ ImportInit

ChatMoves ==
  /\ ChatNext
  /\ UNCHANGED <<onboardingVars, conversationVars, supervisorVars, routerVars, importVars>>
OnboardingMoves ==
  /\ OnboardingNext
  /\ UNCHANGED <<chatVars, conversationVars, supervisorVars, routerVars, importVars>>
ConversationMoves ==
  /\ ConversationNext
  /\ UNCHANGED <<chatVars, onboardingVars, supervisorVars, routerVars, importVars>>
SupervisorMoves ==
  /\ SupervisorNext
  /\ UNCHANGED <<chatVars, onboardingVars, conversationVars, routerVars, importVars>>
RouterMoves ==
  /\ RouterNext
  /\ UNCHANGED <<chatVars, onboardingVars, conversationVars, supervisorVars, importVars>>
ImportMoves ==
  /\ ImportNext
  /\ UNCHANGED <<chatVars, onboardingVars, conversationVars, supervisorVars, routerVars>>

PartsNext == \/ ChatMoves \/ OnboardingMoves \/ ConversationMoves
             \/ SupervisorMoves \/ RouterMoves \/ ImportMoves

PartsSpec == PartsInit /\ [][PartsNext]_partsVars
-----------------------------------------------------------------------------
(* All the parts keep their types.                                         *)
TypesOK == /\ ChatTypeOK /\ OnboardingTypeOK /\ ConversationTypeOK /\ SupervisorTypeOK
           /\ RouterTypeOK /\ ImportTypeOK
=============================================================================
