----------------------------- MODULE Onboarding -----------------------------
(***************************************************************************)
(* Linking Telegram chats to firms: /start with and without a deep link    *)
(* (agents/onboarding.py) and the two places a chat is looked up in        *)
(* (db/queries/firms.py). Sessions do not autoflush (db/session.py): what  *)
(* link_chat_to_firm writes reaches the database at the commit.            *)
(* The Telegram-only signup (OnboardingStage) is left out: nothing in the  *)
(* program ever enters its first stage.                                    *)
(***************************************************************************)
EXTENDS Naturals

CONSTANTS Firms,    \* firms the web signup has created
          Chats,
          Taps,     \* /start messages
          ChatOf,   \* ChatOf[p]: the chat p came from
          LinkOf,   \* LinkOf[p]: the firm its link names; Nowhere for a link that
                    \* names none, and for a bare /start
          Bound,    \* firm_users rows made outside the bot (WhatsApp numbers)
          Nobody, Nowhere

ASSUME OnboardingMaps == /\ ChatOf \in [Taps -> Chats] /\ LinkOf \in [Taps -> Firms \cup {Nowhere}]
                         /\ Bound \subseteq Firms \X Chats
                         /\ Nobody \notin Chats /\ Nowhere \notin Firms

VARIABLES
  admin,  \* admin[f]: ca_firms.admin_chat_id
  users,  \* firm_users, as pairs of firm and chat; unique
  tap     \* tap[p]: the pipeline of p: where it is, whether it saw its user row

onboardingVars == <<admin, users, tap>>

Replies == {"linked", "welcome back", "refused", "go to the web", "no reply"}

OnboardingTypeOK ==
  /\ admin \in [Firms -> Chats \cup {Nobody}]
  /\ users \subseteq Firms \X Chats
  /\ tap \in [Taps -> [at : {"unsent", "bare", "free", "linking"} \cup Replies, known : BOOLEAN]]

OnboardingInit ==
  /\ admin = [f \in Firms |-> Nobody]
  /\ users = Bound
  /\ tap = [p \in Taps |-> [at |-> "unsent", known |-> FALSE]]

(* find_firm_by_admin_chat_id: the firms the bot may take for the chat's.  *)
FirmsOf(c) ==
  LET own == {f \in Firms : admin[f] = c}
  IN  IF own # {} THEN own ELSE {f \in Firms : <<f, c>> \in users}

Goes(p, at) == tap' = [tap EXCEPT ![p].at = at]

(* /start with a link: the firm is read and judged.                        *)
ReadFirm(p) ==
  /\ tap[p].at = "unsent"
  /\ Goes(p, IF LinkOf[p] = Nowhere THEN "bare"
             ELSE CASE admin[LinkOf[p]] = Nobody -> "free"
                    [] admin[LinkOf[p]] = ChatOf[p] -> "welcome back"
                    [] OTHER -> "refused")
  /\ UNCHANGED <<admin, users>>

(* Without one, or with a link to nothing.                                 *)
BareStart(p) ==
  /\ tap[p].at = "bare"
  /\ Goes(p, IF FirmsOf(ChatOf[p]) # {} THEN "welcome back" ELSE "go to the web")
  /\ UNCHANGED <<admin, users>>

(* link_chat_to_firm looks for the chat's firm_users row ...               *)
FindUser(p) ==
  /\ tap[p].at = "free"
  /\ tap' = [tap EXCEPT ![p] = [at |-> "linking", known |-> <<LinkOf[p], ChatOf[p]>> \in users]]
  /\ UNCHANGED <<admin, users>>

CommitLinkAlone(p) ==
  /\ tap[p].at = "linking"
  /\ admin' = [admin EXCEPT ![LinkOf[p]] = ChatOf[p]]
  /\ Goes(p, "linked")
  /\ UNCHANGED users

(* ... and the commit writes the firm's row, whoever is in it by now, and  *)
(* the user's row if there was none. A second insert of the same row       *)
(* breaks uq_firm_users_firm_chat: all is undone and the pipeline dies.    *)
CommitLink(p) ==
  LET row == <<LinkOf[p], ChatOf[p]>>
  IN  /\ tap[p].at = "linking"
      /\ \/ /\ tap[p].known \/ row \notin users
            /\ admin' = [admin EXCEPT ![LinkOf[p]] = ChatOf[p]]
            /\ users' = users \cup {row}
            /\ Goes(p, "linked")
         \/ /\ ~tap[p].known /\ row \in users
            /\ Goes(p, "no reply")
            /\ UNCHANGED <<admin, users>>

OnboardingNext == \E p \in Taps : ReadFirm(p) \/ BareStart(p) \/ FindUser(p) \/ CommitLink(p)

OnboardingSpec == OnboardingInit /\ [][OnboardingNext]_onboardingVars
-----------------------------------------------------------------------------
(* A chat that was told it is linked has a firm from then on, even if      *)
(* another one took the link at the same time: its firm_users row stays.   *)
LinkedChatsStayKnown ==
  \A p \in Taps : tap[p].at \in {"linked", "welcome back"} => FirmsOf(ChatOf[p]) # {}

(* "Linking a new chat_id over an existing link is rejected by the caller" *)
(* (db/queries/firms.py: link_chat_to_firm): a firm's admin chat stays.    *)
LinksAreNotOverwritten ==
  [][\A f \in Firms : admin[f] # Nobody => admin'[f] = admin[f]]_onboardingVars
=============================================================================
