------------------------------ MODULE Generation ------------------------------
(***************************************************************************)
(* GenerationService.generate for one question and its evidence bundle.    *)
(***************************************************************************)
EXTENDS ContextFitting, AnswerGrounding

CONSTANTS
  Units,        \* ids of knowledge units
  Bundles,      \* the bundles retrieval may answer with, see Bundle
  Questions,    \* [markers: what the wording matches, length: characters]
  RuleLength,   \* by question type, characters of the system prompt and the rules
  VisualTexts,  \* lengths a visual analysis may add to the text of a figure
  Answers,      \* the answers the language model may give
  Vision,       \* settings: generation_vision_enabled
  None          \* nothing yet

Bundle ==
  [groups: Seq([primary: Units, supporting: Seq(Units)]), length: [Units -> Nat],
   within: SUBSET (Units \X Units), modality: [Units -> {"text", "figure", "table"}],
   traversed: BOOLEAN, image: SUBSET Units]

Answer == [claims: SUBSET [labels: SUBSET Nat, supported: BOOLEAN],
           outside: SUBSET Nat, identities: SUBSET Units]

\* Retrieval hands over disjoint groups; containment of texts is a preorder
\* that lengths respect.
ASSUME BundlesAreRetrieved ==
  \A b \in Bundles :
    /\ b \in Bundle
    /\ IsInjective(FlattenInRankOrder(b))
    /\ \A u, v, w \in Units :
         /\ <<u, u>> \in b.within
         /\ {<<u, v>>, <<v, w>>} \subseteq b.within => <<u, w>> \in b.within
         /\ <<u, v>> \in b.within => b.length[u] <= b.length[v]

ASSUME SettingsAreMeaningful ==
  /\ RuleLength \in [QuestionTypes -> Nat] /\ VisualTexts \subseteq Nat
  /\ Answers \subseteq Answer /\ Vision \in BOOLEAN
  /\ \A q \in Questions : q.length \in Nat

\* The exceptions a call can end with.
Failures == {"token_budget", "missing_evidence", "duplicate_evidence", "provider",
             "no_claims", "statistics", "citation_consistency", "storage"}

ASSUME NoneIsNothing == None \notin Failures

VARIABLES
  at,         \* the phase to run next
  bundle,     \* the evidence
  question,
  type,       \* plan.question_type
  context,    \* context_sections: the units shown
  visual,     \* units whose image was analysed, and the length that added
  answer,     \* the text of the language model
  response,   \* the response assembled
  failure     \* the exception that ended the call

vars == <<at, bundle, question, type, context, visual, answer, response, failure>>

Init ==
  /\ bundle \in Bundles /\ question \in Questions
  /\ at = "plan" /\ type = None /\ context = <<>> /\ visual = [u \in {} |-> 0]
  /\ answer = None /\ response = None /\ failure = None

Fail(reason) == at' = "failed" /\ failure' = reason

Go(phase) == at' = phase /\ UNCHANGED failure

-----------------------------------------------------------------------------
TopModality(b) == IF b.groups = <<>> THEN None ELSE b.modality[Head(b.groups).primary]

IsMultiHop(b) == Len(b.groups) >= 3 /\ b.traversed

\* The types in the order they are tried, each with its condition.
Classify(b, q) ==
  LET tried == << <<"comparative", "comparative" \in q.markers>>,
                  <<"procedural", "procedural" \in q.markers>>,
                  <<"citation_centric", "citation" \in q.markers>>,
                  <<"figure_centric", "figure" \in q.markers \/ TopModality(b) = "figure">>,
                  <<"table_centric", "table" \in q.markers \/ TopModality(b) = "table">>,
                  <<"multi_hop", IsMultiHop(b)>>,
                  <<"descriptive", "descriptive" \in q.markers>>,
                  <<"factual", TRUE>> >>
  IN  tried[SelectInSeq(tried, LAMBDA t : t[2])][1]

Plan ==
  /\ at = "plan"
  /\ type' = Classify(bundle, question)
  /\ Go("optimize")
  /\ UNCHANGED <<bundle, question, context, visual, answer, response>>

OptimizeContext ==
  /\ at = "optimize"
  /\ context' = Optimize(bundle)
  /\ Go(IF Vision /\ type = "figure_centric" THEN "look" ELSE "prompt")
  /\ UNCHANGED <<bundle, question, type, visual, answer, response>>

\* Mutant: any unit with an image is analysed.
FiguresShown_AnyModality == {context[k] : k \in DOMAIN context} \cap bundle.image

FiguresShown == {context[k] : k \in DOMAIN context} \cap bundle.image
                  \cap {u \in Units : bundle.modality[u] = "figure"}

\* The image of every figure shown is read and described; any of them may be
\* unreadable, or the vision model unavailable, and is then left as it is.
AnalyzeFigures ==
  /\ at = "look"
  /\ \E seen \in SUBSET FiguresShown : visual' \in [seen -> VisualTexts]
  /\ Go("prompt")
  /\ UNCHANGED <<bundle, question, type, context, answer, response>>

\* The text of a unit as it is shown.
ShownLength ==
  [u \in Units |-> bundle.length[u] + IF u \in DOMAIN visual THEN visual[u] ELSE 0]

PromptTokens(length) ==
  EstimatePromptTokens(length, context, RuleLength[type] + question.length)

\* The prompt is composed and validated, check by check.
ValidatePrompt ==
  /\ at = "prompt"
  /\ IF PromptTokens(ShownLength) > PromptBudget THEN Fail("token_budget")
     ELSE IF context = <<>> THEN Fail("missing_evidence")
     ELSE IF ~IsInjective(context) THEN Fail("duplicate_evidence")
     ELSE Go("ask")
  /\ UNCHANGED <<bundle, question, type, context, visual, answer, response>>

\* The model answers, with an answer that need not follow any rule, or fails.
Ask ==
  /\ at = "ask"
  /\ \/ answer' \in Answers /\ Go("judge")
     \/ Fail("provider") /\ UNCHANGED answer
  /\ UNCHANGED <<bundle, question, type, context, visual, response>>

\* Grounding, citations and quality; then the version of the model is asked for.
Judge ==
  /\ at = "judge"
  /\ \/ answer.claims = {} /\ Fail("no_claims")
     \/ answer.claims # {} /\ Fail("provider")
     \/ answer.claims # {} /\ Go("format")
  /\ UNCHANGED <<bundle, question, type, context, visual, answer, response>>

\* Mutant: all the context is shown, cited or not.
SupportingEvidence_AllShown == {context[k] : k \in DOMAIN context}

\* The evidence shown with the answer: what it cites or, when it cites nothing
\* that was shown, all the context.
SupportingEvidence ==
  LET cited == {context[k] : k \in Resolved(answer, context)}
  IN  IF cited = {} THEN {context[k] : k \in DOMAIN context} ELSE cited

Format ==
  /\ at = "format"
  /\ response' = [ status      |-> AnswerStatus(bundle, type, context, answer),
                   evidence    |-> SupportingEvidence,
                   cited       |-> {context[k] : k \in Resolved(answer, context)},
                   limitations |-> Limitations(bundle, type, context, answer),
                   sections    |-> Len(context) ]
  /\ Go("check")
  /\ UNCHANGED <<bundle, question, type, context, visual, answer>>

\* GenerationValidator, then the manifest is saved.
CheckAndSave ==
  /\ at = "check"
  /\ IF response.sections # Len(context) THEN Fail("statistics")
     ELSE IF response.cited # {} /\ ~(response.evidence \subseteq response.cited)
     THEN Fail("citation_consistency")
     ELSE Go("done") \/ Fail("storage")
  /\ UNCHANGED <<bundle, question, type, context, visual, answer, response>>

Next ==
  \/ Plan \/ OptimizeContext \/ AnalyzeFigures \/ ValidatePrompt
  \/ Ask \/ Judge \/ Format \/ CheckAndSave

Spec == Init /\ [][Next]_vars
-----------------------------------------------------------------------------
(* Properties.                                                             *)

Responses ==
  [status: {"sufficient_evidence", "partially_sufficient_evidence", "unverified_answer",
            "insufficient_evidence"},
   evidence: SUBSET Units, cited: SUBSET Units,
   limitations: SUBSET {"groups", "figure", "table", "unverified"}, sections: Nat]

TypeOK ==
  /\ at \in {"plan", "optimize", "look", "prompt", "ask", "judge", "format", "check",
             "done", "failed"}
  /\ bundle \in Bundles /\ question \in Questions /\ type \in QuestionTypes \cup {None}
  /\ context \in Seq(Units) /\ DOMAIN visual \subseteq {u \in Units : bundle.modality[u] = "figure"}
  /\ answer \in Answers \cup {None} /\ response \in Responses \cup {None}
  /\ failure \in Failures \cup {None}

Fitted == at \notin {"plan", "optimize"}
Shown  == {context[k] : k \in DOMAIN context}

Position(s, u) == CHOOSE k \in DOMAIN s : s[k] = u

\* The context is evidence of the bundle in its rank order, none of it contained
\* in what is shown before it; and of what is left out, nothing that is neither
\* redundant nor too long for what was left of the budget.
ContextIsMaximal ==
  Fitted =>
    LET members == FlattenInRankOrder(bundle)
        ranked(u) == Position(members, u)
    IN  /\ Shown \subseteq {members[k] : k \in DOMAIN members}
        /\ \A j, k \in DOMAIN context : j < k =>
             ranked(context[j]) < ranked(context[k])
               /\ <<context[k], context[j]>> \notin bundle.within
        /\ Spent(bundle, context) <= EvidenceBudget
        /\ \A k \in DOMAIN members :
             \/ members[k] \in Shown
             \/ \E j \in 1..k - 1 : <<members[k], members[j]>> \in bundle.within
             \/ Spent(bundle, context) + EstimateTokens(bundle.length[members[k]]) > EvidenceBudget

\* The two estimates round differently and count different things; with rules
\* and a question that fit in the reserve, less one character in four of rounding
\* per section, and no visual analysis, a context that was fitted to the budget
\* never makes a prompt that exceeds it.
FittedPromptsAreSent ==
  at = "failed" /\ failure = "token_budget" =>
    \/ DOMAIN visual # {}
    \/ RuleLength[type] + question.length
         > CharsPerToken * Reserved - (CharsPerToken - 1) * Len(context)
    \/ EvidenceBudget + Reserved > PromptBudget

\* The final checks never fail: "Every check here should be unreachable through
\* correct phase implementations" (GenerationValidator), and retrieval's groups
\* are disjoint.
ConsistencyChecksPass ==
  failure \notin {"duplicate_evidence", "statistics", "citation_consistency"}

\* The assessor and the formatter agree, each by its own rules: limitations are
\* "always populated when answer_status is not SUFFICIENT_EVIDENCE", and only then.
LimitationsAreStated ==
  at = "done" => (response.limitations = {} <=> response.status = "sufficient_evidence")

\* What is shown with an answer was shown to the model, and there is always
\* something; an answer that counts as sufficient, or in part, cites some of it.
EvidenceBacksTheStatus ==
  at = "done" =>
    /\ response.evidence # {} /\ response.evidence \subseteq Shown
    /\ response.status \in {"sufficient_evidence", "partially_sufficient_evidence"} =>
         response.cited # {} /\ response.cited \subseteq Shown
    /\ response.status = "sufficient_evidence" =>
         \A c \in answer.claims : c.labels # {} /\ c.labels \subseteq DOMAIN context

\* "a figure question never hard-fails the whole answer because vision analysis is
\* best-effort by design" (docs/ARCHITECTURE.md): a prompt is too long only if it
\* would be without what the vision model said.
VisionNeverFailsTheAnswer ==
  failure = "token_budget" => PromptTokens(bundle.length) > PromptBudget

=============================================================================
