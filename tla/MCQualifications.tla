--------------------------- MODULE MCQualifications ---------------------------
(* Replacements that run at the same time, with a history variable: the     *)
(* sets of rows that each provider's replacements have been answered for.   *)
EXTENDS Qualifications, TLC

VARIABLE answered

WatchInit == QualificationsInit /\ answered = [p \in Providers |-> {{}}]

WatchNext ==
    \E r \in Requests :
        /\ Replacing(r)
        /\ answered' = [p \in Providers |->
             answered[p] \cup {q.asked : q \in {m \in {req[r]} : Commit(r) /\ m.about = RowsOf(p)}}]

WatchSpec == WatchInit /\ [][WatchNext]_<<qualificationVars, answered>>

\* test/foundation.e2e-spec.ts:435, "replace deduplicates": a provider has the
\* qualifications of one of the replacements that were answered with success,
\* never a mixture of two (service-providers.service.ts:751-760).
OneOfTheAnswered == \A p \in Providers : qualified \cap RowsOf(p) \in answered[p]
=============================================================================
