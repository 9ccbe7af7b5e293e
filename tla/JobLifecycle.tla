---------------------------- MODULE JobLifecycle ----------------------------
(***************************************************************************)
(* What the queue promises the services that enqueue into it: a job moves  *)
(* from waiting to begun and back until it reaches one final status; its   *)
(* command runs in at most one place, only while the job is begun, and a   *)
(* job changes phase only when nobody is running it or its runner says so. *)
(* A job that is "failing" is on record as failed and still has its runner, *)
(* who may ask for another attempt; without a runner it has failed.         *)
(***************************************************************************)
CONSTANTS Jobs, Workers, Terminal

VARIABLES phase, runner

vars == <<phase, runner>>

Init == /\ \E old \in SUBSET Jobs :
               phase = [j \in Jobs |-> IF j \in old THEN "begun" ELSE "absent"]
        /\ runner = [j \in Jobs |-> {}]

Submit(j) == /\ phase[j] = "absent"
             /\ phase' = [phase EXCEPT ![j] = "waiting"]
             /\ UNCHANGED runner

Enter(j, w) == /\ phase[j] = "begun"
               /\ runner[j] = {}
               /\ runner' = [runner EXCEPT ![j] = {w}]
               /\ UNCHANGED phase

(* A waiting job begins and is entered at once, told as one step.            *)
Take(j, w) == /\ phase[j] = "waiting"
              /\ runner[j] = {}
              /\ phase' = [phase EXCEPT ![j] = "begun"]
              /\ runner' = [runner EXCEPT ![j] = {w}]

Falter(j) == /\ phase[j] = "begun"
             /\ runner[j] # {}
             /\ phase' = [phase EXCEPT ![j] = "failing"]
             /\ UNCHANGED runner

(* The runner reports: the job is finished, or goes back to waiting.         *)
Report(j, to) == /\ phase[j] \in {"begun", "failing"}
                 /\ runner[j] # {}
                 /\ phase' = [phase EXCEPT ![j] = to]
                 /\ runner' = [runner EXCEPT ![j] = {}]

(* The runner disappears and nobody is told.                                 *)
Vanish(j) == /\ runner[j] # {}
             /\ runner' = [runner EXCEPT ![j] = {}]
             /\ phase' = [phase EXCEPT ![j] = IF @ = "failing" THEN "failed" ELSE @]

(* One transaction of the dispatcher: abandoned jobs (begun, nobody runs     *)
(* them) are given up or wait again, and waiting jobs begin.                 *)
Dispatched(j) == \/ phase'[j] = phase[j]
                 \/ phase[j] = "waiting" /\ phase'[j] = "begun"
                 \/ /\ phase[j] = "begun" /\ runner[j] = {}
                    /\ phase'[j] \in {"waiting", "failed"}

Dispatch == /\ phase' \in [Jobs -> {"absent", "waiting", "begun", "failing"} \cup Terminal]
            /\ \A j \in Jobs : Dispatched(j)
            /\ UNCHANGED runner

Next == \/ \E j \in Jobs : \/ Submit(j) \/ Falter(j) \/ Vanish(j)
                           \/ \E w \in Workers : Enter(j, w) \/ Take(j, w)
                           \/ \E to \in Terminal \cup {"waiting"} : Report(j, to)
        \/ Dispatch

Spec == Init /\ [][Next]_vars
=============================================================================
