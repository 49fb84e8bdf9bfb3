---------------------------- MODULE ContextFitting ----------------------------
(***************************************************************************)
(* ContextOptimizer: which of the retrieved evidence is shown to the       *)
(* language model, and PromptValidator's own estimate of the result.       *)
(* Texts are abstracted to their length and to which contains which.       *)
(***************************************************************************)
EXTENDS Naturals, Sequences, SequencesExt

CONSTANTS
  ContextWindow,   \* config.context_window, in tokens
  MaxTokens,       \* config.max_tokens
  Reserved         \* _RESERVED_TOKENS_FOR_PROMPT_OVERHEAD

ASSUME TokensAreNatural ==
  ContextWindow \in Nat /\ MaxTokens \in Nat /\ Reserved \in Nat \ {0}

CharsPerToken == 4

Monus(a, b) == IF a > b THEN a - b ELSE 0

\* Tokens for the evidence, and for the whole prompt.
EvidenceBudget == Monus(ContextWindow, MaxTokens + Reserved)
PromptBudget   == ContextWindow - MaxTokens

\* Estimated tokens of a text of n characters.
EstimateTokens(n) == IF n < CharsPerToken THEN 1 ELSE n \div CharsPerToken

Total(length, s) == FoldLeft(LAMBDA sum, u : sum + length[u], 0, s)

(***************************************************************************)
(* A bundle: evidence groups, best first, each with a primary and a        *)
(* sequence of supporting units; the length of each text; within, the      *)
(* pairs <<u, v>> such that the text of u occurs in that of v.             *)
(***************************************************************************)
FlattenInRankOrder(b) ==
  FoldLeft(LAMBDA s, g : Append(s, g.primary) \o g.supporting, <<>>, b.groups)

RemoveRedundant(b, members) ==
  FoldLeft(LAMBDA kept, u :
             IF \E k \in DOMAIN kept : <<u, kept[k]>> \in b.within
             THEN kept ELSE Append(kept, u),
           <<>>, members)

Spent(b, kept) == FoldLeft(LAMBDA sum, u : sum + EstimateTokens(b.length[u]), 0, kept)

\* Mutant: the first text that does not fit ends the selection.
FitToBudget_StopAtFirst(b, members) ==
  FoldLeft(LAMBDA sel, u :
             IF sel.full \/ Spent(b, sel.kept) + EstimateTokens(b.length[u]) > EvidenceBudget
             THEN [sel EXCEPT !.full = TRUE] ELSE [sel EXCEPT !.kept = Append(@, u)],
           [kept |-> <<>>, full |-> FALSE], members).kept

\* Mutant: every text is compared with the whole budget.
FitToBudget_EachAlone(b, members) ==
  SelectSeq(members, LAMBDA u : EstimateTokens(b.length[u]) <= EvidenceBudget)

FitToBudget(b, members) ==
  FoldLeft(LAMBDA kept, u :
             IF Spent(b, kept) + EstimateTokens(b.length[u]) > EvidenceBudget
             THEN kept ELSE Append(kept, u),
           <<>>, members)

\* The units shown to the model; the k-th has the citation label KUk.
Optimize(b) == FitToBudget(b, RemoveRedundant(b, FlattenInRankOrder(b)))

\* What the prompt validator counts: every character of the prompt, the
\* overhead being its rules and the question.
EstimatePromptTokens(length, context, overhead) ==
  EstimateTokens(overhead + Total(length, context))

=============================================================================
