--------------------------- MODULE IntentReading ---------------------------
(***************************************************************************)
(* What a message of the user asks for: parseIntent                         *)
(* (internal/service/conversation_service.go) and, around it, the LLM's     *)
(* reading with the rules as its fallback: parseIntentWithContext,          *)
(* parseIntentWithFallback, shouldPreferIntentFallback (llm_tasks.go).      *)
(*                                                                          *)
(* A text is the set of cues that phrases in it give; one text may give     *)
(* several, as a refusal ("do not save this") holds an approval's words.    *)
(* Confidences are percents.  A reading:                                    *)
(*   by          "rules" or "llm"                                           *)
(*   intent      what is asked for                                          *)
(*   confidence  how sure the reader is                                     *)
(*   unclear     needs_clarification: the user is asked back                *)
(*   path        a category path is named                                   *)
(***************************************************************************)
EXTENDS Naturals, Sequences

Intent == {"create", "approve", "reject", "move", "search", "compare", "clarify"}

Reading(by, intent, confidence, unclear, path) ==
  [by |-> by, intent |-> intent, confidence |-> confidence, unclear |-> unclear, path |-> path]

ReadingType ==
  [by : {"rules", "llm"}, intent : Intent, confidence : 0..100, unclear : BOOLEAN, path : BOOLEAN]

\* The rules in the order they are tried.  The cue "fact" is
\* seemsKnowledgeStatement.
Rules ==
  << [cue |-> "refuse", intent |-> "reject", confidence |-> 94],
     [cue |-> "move", intent |-> "move", confidence |-> 90],
     [cue |-> "confirm", intent |-> "approve", confidence |-> 94],
     [cue |-> "compare", intent |-> "compare", confidence |-> 90],
     [cue |-> "seek", intent |-> "search", confidence |-> 86],
     [cue |-> "record", intent |-> "create", confidence |-> 90],
     [cue |-> "fact", intent |-> "create", confidence |-> 70],
     [cue |-> "ask", intent |-> "search", confidence |-> 58] >>

Cue == {Rules[i].cue : i \in DOMAIN Rules}

\* parseIntent.  names: the text names a path behind one of the markers.
ByRules(cues, names) ==
  LET hits == {i \in DOMAIN Rules : Rules[i].cue \in cues}
      first == Rules[CHOOSE i \in hits : \A j \in hits : i <= j]
  IN  IF hits = {} THEN Reading("rules", "clarify", 30, TRUE, FALSE)
      ELSE Reading("rules", first.intent, first.confidence, FALSE,
                   first.intent = "move" /\ names)

\* normalizeIntentResult: a path the LLM did not give is looked for in the text.
Normalized(answer, names) ==
  [answer EXCEPT !.path = answer.intent = "move" /\ (answer.path \/ names)]

\* Fault variant (X_Fault is X with a plausible bug, for mutation runs only).
PrefersRules_Never(llm, rules) == FALSE

\* shouldPreferIntentFallback.  Of two readings that both say "clarify" it may
\* take either; they lead to the same.
PrefersRules(llm, rules) ==
  \/ rules.intent # "clarify" /\ (llm.intent = "clarify" \/ llm.confidence < 60)
  \/ rules.intent = "create" /\ llm.intent = "search" /\ llm.confidence < 75

\* The readings of a text, given what the LLM may answer; also without an LLM, and
\* when it fails or answers no valid intent, the rules decide.
Readings(cues, names, answers) ==
  LET rules == ByRules(cues, names)
      kept == {Normalized(a, names) : a \in answers}
  IN  {rules} \cup {a \in kept : ~PrefersRules(a, rules)}

=============================================================================
