--------------------------- MODULE MCConversation ---------------------------
(* Instantiation of Conversation for TLC, with the limits 3/100/200 scaled *)
(* down to keep their order: ContextNum < SoftLimit < HardLimit.           *)
EXTENDS Conversation

MCContextNum == 1
MCSoftLimit  == 3
MCHardLimit  == 4

=============================================================================
