----------------------------- MODULE MCJobQueue -----------------------------
(* Small instance of JobQueue: two mail workers and one API worker, two  *)
(* mail jobs (a send and a fetch) and a SAP poll job; one row may be     *)
(* left running without a lock.                                          *)
EXTENDS JobQueue

CONSTANTS mail1, mail2, api, send, fetch, poll

MCServes == [w \in Workers |-> IF w = api THEN {poll} ELSE Jobs \ {poll}]
MCMaxAttempts == [j \in Jobs |-> IF j = poll THEN 1 ELSE 2]
=============================================================================
