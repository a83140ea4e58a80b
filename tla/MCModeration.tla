--------------------------- MODULE MCModeration ---------------------------
(* Small instances of Moderation for TLC: whoever wrote the one message    *)
(* and two others who may remove, dismiss and review.                      *)
EXTENDS Moderation

CONSTANTS m1, author, b, c

ByAuthor == [m \in Messages |-> author]
=============================================================================
