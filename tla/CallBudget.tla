------------------------------ MODULE CallBudget ------------------------------
(***************************************************************************)
(* What the durable jobs promise the author, with none of the machinery.  *)
(*                                                                         *)
(* A model call costs money, so each stage of a job has an allowance: one  *)
(* call comes with the submission and one more with each resume that the   *)
(* author grants for that stage.  Crashes, retries and recoveries never    *)
(* raise it.  The fate of a job is decided once: it is published, or the   *)
(* author withdraws it, and neither is ever taken back.                    *)
(*                                                                         *)
(* DurableJobs implements this specification (module MCDurableJobs checks  *)
(* it, module DurableJobs_proofs proves it).                               *)
(***************************************************************************)
EXTENDS Naturals

CONSTANTS Jobs, Stages

VARIABLES calls,      \* [Jobs -> [Stages -> Nat]]: requests that may have been charged
          allowance,  \* [Jobs -> [Stages -> Nat]]: requests the author has agreed to
          fate        \* [Jobs -> {"open", "published", "withdrawn"}]

vars == <<calls, allowance, fate>>

Init == /\ calls = [j \in Jobs |-> [s \in Stages |-> 0]]
        /\ allowance = [j \in Jobs |-> [s \in Stages |-> 1]]
        /\ fate = [j \in Jobs |-> "open"]

(* A request goes out, within the allowance; never for a published job. *)
Call(j, s) == /\ fate[j] # "published"
              /\ calls[j][s] < allowance[j][s]
              /\ calls' = [calls EXCEPT ![j][s] = @ + 1]
              /\ UNCHANGED <<allowance, fate>>

(* The author agrees to one more request for a stage of an open job. *)
Consent(j, s) == /\ fate[j] = "open"
                 /\ allowance' = [allowance EXCEPT ![j][s] = @ + 1]
                 /\ UNCHANGED <<calls, fate>>

Publish(j) == /\ fate[j] = "open"
              /\ fate' = [fate EXCEPT ![j] = "published"]
              /\ UNCHANGED <<calls, allowance>>

Withdraw(j) == /\ fate[j] = "open"
               /\ fate' = [fate EXCEPT ![j] = "withdrawn"]
               /\ UNCHANGED <<calls, allowance>>

Next == \E j \in Jobs : \/ \E s \in Stages : Call(j, s) \/ Consent(j, s)
                        \/ Publish(j)
                        \/ Withdraw(j)

Spec == Init /\ [][Next]_vars
=============================================================================
