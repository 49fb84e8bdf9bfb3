---------------------------- MODULE AnswerGrounding ----------------------------
(***************************************************************************)
(* GroundingValidator, CitationResolver and AnswerQualityAssessor: what is *)
(* concluded about an answer from the labels it cites.  The answer is      *)
(*   claims      a set of [labels, supported]: the labels KU1, KU2, ... a  *)
(*               sentence cites by number, and whether the evidence shown  *)
(*               under them shares enough words with it;                   *)
(*   outside     labels cited in fragments too short to be claims;         *)
(*   identities  units cited by their identity, as in "(Figure 2)".        *)
(* context is the sequence of units shown, the k-th under the label KUk.   *)
(***************************************************************************)
EXTENDS Naturals, Sequences, FiniteSets

\* Mutant: labels that were not shown are not noticed.
Verdict_Trusting(claim, context) ==
  IF claim.labels = {} THEN "missing_citation"
  ELSE IF claim.supported THEN "grounded" ELSE "unsupported"

Verdict(claim, context) ==
  IF claim.labels = {} THEN "missing_citation"
  ELSE IF ~(claim.labels \subseteq DOMAIN context) THEN "unresolved_citation"
  ELSE IF claim.supported THEN "grounded" ELSE "unsupported"

Grounded(answer, context) == {c \in answer.claims : Verdict(c, context) = "grounded"}

\* Every label used in the text, and the labels of the identities used in it.
LabelsUsed(answer, context) ==
  answer.outside \cup UNION {c.labels : c \in answer.claims}
    \cup {k \in DOMAIN context : context[k] \in answer.identities}

Resolved(answer, context)   == LabelsUsed(answer, context) \cap DOMAIN context
Unresolved(answer, context) == LabelsUsed(answer, context) \ DOMAIN context

(***************************************************************************)
(* The plan: what the type of the question requires.                       *)
(***************************************************************************)
QuestionTypes == {"comparative", "procedural", "citation_centric", "figure_centric",
                  "table_centric", "multi_hop", "descriptive", "factual"}

RequiredGroups(type) == IF type \in {"comparative", "multi_hop"} THEN 2 ELSE 1

RequiredModalities(type) ==
  {m \in {"figure", "table"} : <<type, m>> \in {<<"figure_centric", "figure">>, <<"table_centric", "table">>}}

ModalitiesIn(b, context) == {b.modality[context[k]] : k \in DOMAIN context}

\* evidence_completeness is 1.
Complete(b, type, context) ==
  Len(b.groups) >= RequiredGroups(type) /\ RequiredModalities(type) \subseteq ModalitiesIn(b, context)

\* Mutant: the plan's requirements are left out.
AnswerStatus_Incomplete(b, type, context, answer) ==
  IF context = <<>> THEN "insufficient_evidence"
  ELSE IF Grounded(answer, context) = answer.claims THEN "sufficient_evidence"
  ELSE IF Grounded(answer, context) # {} THEN "partially_sufficient_evidence"
  ELSE "unverified_answer"

AnswerStatus(b, type, context, answer) ==
  IF context = <<>> THEN "insufficient_evidence"
  ELSE IF Grounded(answer, context) = answer.claims /\ Complete(b, type, context)
  THEN "sufficient_evidence"
  ELSE IF Grounded(answer, context) # {} THEN "partially_sufficient_evidence"
  ELSE "unverified_answer"

\* What _build_limitations states: too few groups, a modality that is missing,
\* statements that could not be verified.
Limitations(b, type, context, answer) ==
  (IF Len(b.groups) < RequiredGroups(type) THEN {"groups"} ELSE {})
  \cup (RequiredModalities(type) \ ModalitiesIn(b, context))
  \cup (IF Grounded(answer, context) # answer.claims THEN {"unverified"} ELSE {})

=============================================================================
