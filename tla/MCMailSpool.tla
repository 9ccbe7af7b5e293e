----------------------------- MODULE MCMailSpool -----------------------------
(* Small instance of MailSpool: a mail before and after its folder was       *)
(* renumbered, and the same message again at a third UID.                    *)
EXTENDS MailSpool

CONSTANTS c1, c2, c3, k1, k2

MCCopies == {c1, c2, c3}
MCKey == [c \in MCCopies |-> IF c = c3 THEN k2 ELSE k1]
=============================================================================
