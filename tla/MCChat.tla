------------------------------- MODULE MCChat -------------------------------
(***************************************************************************)
(* The parts of a chat, for TLC. They meet only where Chat hands a message *)
(* to another part, so each is checked by itself: "part" chooses one.      *)
(***************************************************************************)
EXTENDS ChatParts

CONSTANTS a, b, d1, d2, m1, m3, m4,  \* clients, documents, texts
          f1, f2, k1, k2, p1, p2, p3, \* firms, chats, taps
          q1, q2, n1, n2, s1, s2,
          o1, o2, c1, c2, c3, u1, u2, w1, t1, g1, g2, x1, x2, x3, v1, v2, v3

VARIABLE part

MCVerb == [t \in Texts |-> CASE t = m1 -> "plain" [] t = m3 -> "assign" [] OTHER -> "add_client"]
MCSim == [t \in Texts |-> [c \in Clients |-> IF t # m1 THEN 0 ELSE IF c = a THEN 90 ELSE 86]]
MCFound == [t \in Texts |-> CASE t = m3 -> {a, b} [] t = m4 -> {b} [] OTHER -> {}]

MCChatOf == [p \in Taps |-> IF p = p1 THEN k1 ELSE k2]
MCLinkOf == [p \in Taps |-> IF p = p3 THEN Nowhere ELSE f1]
MCBound == {<<f2, k1>>}

MCUses == [s \in Requests |-> IF s = s1 THEN DeskTools \cup {"add_client", "update_client",
                                                "export_client_ledger", "approve_filing"}
            ELSE {"mark_document", "add_firm_rule", "correct_verdict", "export_to_tally"}]
MCBatch == [s \in Requests |-> IF s = s1 THEN 2 ELSE 1]

(* c1 and c3 share a GSTIN in two firms; the fuzzy matches are ambiguous;  *)
(* u1 and u2 are one file, of which less is read the second time.          *)
MCOfficeOf == [c \in Customers |-> IF c = c3 THEN o2 ELSE o1]
MCGstinOf == [c \in Customers |-> IF c = c2 THEN g2 ELSE g1]
MCDeskOf == [x \in Wires \cup DayBooks |-> o1]
MCLike(x, y) == [c \in Customers |-> CASE c = c1 -> x [] c = c2 -> y [] OTHER -> 0]
MCPaper == [u \in Uploads |->
  [office |-> o1, bytes |-> "x", buyer |-> IF u = u1 THEN g1 ELSE Noone,
   vendor |-> "s", buyerName |-> IF u = u2 THEN MCLike(90, 86) ELSE MCLike(0, 0),
   vendorName |-> MCLike(0, 0), caption |-> MCLike(60, 58),
   scan |-> IF u = u1 THEN <<g2, g1>> ELSE <<>>]]

MCContent == [x \in Exports |-> CASE x = x1 -> <<v1, v2, v1>> [] x = x2 -> <<v2, v3>>
                                  [] OTHER -> Missing]
MCCaption == [x \in Exports |-> [p \in Parties |-> IF x = x2 /\ p = c2 THEN 80 ELSE 0]]
MCCompany == [x \in Exports |-> [p \in Parties |-> IF p = c1 THEN 90 ELSE 60]]

mcVars == <<partsVars, part>>

MCInit == /\ part \in {"chat", "onboarding", "conversation", "supervisor", "router", "import"}
          /\ PartsInit

MCNext ==
  /\ UNCHANGED part
  /\ \/ part = "chat" /\ ChatMoves
     \/ part = "onboarding" /\ OnboardingMoves
     \/ part = "conversation" /\ ConversationMoves
     \/ part = "supervisor" /\ SupervisorMoves
     \/ part = "router" /\ RouterMoves
     \/ part = "import" /\ ImportMoves

MCSpec == MCInit /\ [][MCNext]_mcVars /\ \A t \in Texts : WF_chatVars(ChatStep(t))
=============================================================================
