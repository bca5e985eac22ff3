--------------------------- MODULE MCConversation ---------------------------
(* Two texts of the customer, in turns that overlap.                        *)
EXTENDS Conversation, TLC

CONSTANTS m1, m2, h1, h2

TextSymmetry == Permutations({m1, m2}) \cup Permutations({h1, h2})
=============================================================================
