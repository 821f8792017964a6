------------------------------ MODULE MCIntake ------------------------------
\* Messages for TLC: one that records something, one that decides or moves a
\* draft, and one that answers its list with a number.
EXTENDS Intake, TLC

CONSTANTS m1, m2, m3, h1, h2

Plain(cues) == [cues |-> cues, names |-> cues = {"move"}, triggers |-> cues = {"record"},
                number |-> 0, quotes |-> {}, replies |-> FALSE]
Number(n) == [Plain({}) EXCEPT !.number = n]
Quoting(cues, d) == [Plain(cues) EXCEPT !.quotes = {d}]
Replying(cues) == [Plain(cues) EXCEPT !.replies = TRUE]

MCSays == [m \in {m1, m2, m3} |->
  CASE m = m1 -> {Plain({"record"})}
    [] m = m2 -> {Plain({"confirm"}), Plain({"move"}), Quoting({"refuse", "confirm"}, 1),
                  Replying({"confirm"})}
    [] m = m3 -> {Number(1), Number(2)}]

\* The LLM takes a refusal for an approval, surely or not, something to record and
\* an approval for a question, and finds no path in a text that names one.
MCUnderstands ==
  [c \in SUBSET Cue |->
    CASE c = {"refuse", "confirm"} -> {Reading("llm", "approve", n, FALSE, FALSE) : n \in {50, 90}}
      [] c \in {{"record"}, {"confirm"}} -> {Reading("llm", "search", 70, FALSE, FALSE)}
      [] c = {"move"} -> {Reading("llm", "move", 90, FALSE, FALSE)}
      [] OTHER -> {}]

Alike == Permutations({h1, h2})

=============================================================================
