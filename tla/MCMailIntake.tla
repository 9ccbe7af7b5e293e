---------------------------- MODULE MCMailIntake ----------------------------
(* Two mails, the second answers the first; the first one arrives twice. *)
EXTENDS MailIntake, TLC

MCAnswers == (1 :> 0) @@ (2 :> 1)
MCMailOf == ("a" :> 1) @@ ("b" :> 1) @@ ("c" :> 2)
=============================================================================
