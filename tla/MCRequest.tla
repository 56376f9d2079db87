------------------------------ MODULE MCRequest ------------------------------
(* Instances of RequestAttempt.  A conversation limits what the clients of   *)
(* the parties send, so that each kind of it is explored in full depth.      *)
EXTENDS RequestAttempt

By(requester, recipient) == [p \in Party |-> IF p = "requester" THEN requester ELSE recipient]

\* The parties talk the terms over.
Consulting == By({"edit_terms", "confirm_terms"}, {"consult", "edit_terms", "confirm_terms"})
\* Plain answers, an expiry and a second proposal, with old cards about.
Answering  == By({"cancel", "repropose"}, {"checking", "accept", "decline", OldCard})
\* An agreement is changed or cancelled afterwards.
FollowingUp == By({"followup_change", "followup_cancel"},
                  {"accept", "confirm_terms", "followup_decline", OldCard})
\* Terms are discussed, with old cards about.
ConsultingByCard == By({"edit_terms", "confirm_terms"}, {"consult", OldCard})
\* Tasks are handed over, after a second proposal too, and changed afterwards.
Handing     == By({"repropose", "followup_change", "cancel"},
                  {"accept", "confirm_terms", "followup_decline"})

LightConversations == {Consulting, Answering, FollowingUp}
CardConversations  == {ConsultingByCard}
HandingConversations == {Handing}
=============================================================================
