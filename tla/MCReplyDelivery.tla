--------------------------- MODULE MCReplyDelivery ---------------------------
(* Small instance of ReplyDelivery: a reply of one ticket and a mail worker. *)
EXTENDS ReplyDelivery

CONSTANTS only, mailer
=============================================================================
