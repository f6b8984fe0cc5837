------------------------- MODULE MCEligibilityWatch -------------------------
(* Eligibility with a history variable: the providers who have been         *)
(* eligible at some instant of each question.                               *)
EXTENDS Eligibility, TLC

VARIABLE ever

WatchInit == Init /\ ever = [r \in Requests |-> {}]

Seen(r) == IF req[r].op = "eligible" THEN EligibleNow(req[r].service) ELSE {}

WatchNext ==
    /\ Next
    /\ ever' = [r \in Requests |->
                  IF Idle \in {req[r], req'[r]} THEN Seen(r)' ELSE ever[r] \cup Seen(r)']

WatchSpec == WatchInit /\ [][WatchNext]_<<vars, ever>>

\* docs/service-provider-domain.md:143-144: for the endpoint to return a
\* provider, all the structural conditions hold: at some instant, at least,
\* between the question and the answer (service-providers.service.ts:846-878).
OnceEligible ==
    \A r \in Requests :
        req[r].op = "eligible" => req[r].answer \subseteq ever[r]
=============================================================================
