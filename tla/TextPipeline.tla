---------------------------- MODULE TextPipeline ----------------------------
(***************************************************************************)
(* How a document is cut before it is embedded (utils/chunker.py), and how *)
(* an extracted text is cut into passes of the language model and a pass   *)
(* is tried again (utils/ingestion_pipeline.py).                           *)
(*                                                                         *)
(* A section is the sequence of its paragraphs' lengths in characters; a   *)
(* chunk is the pair of its first and its last paragraph, which are joined *)
(* by blank lines.  The frontmatter before every chunk is left out.        *)
(***************************************************************************)
EXTENDS Integers, Sequences

CONSTANTS
    MaxTokens, OverlapTokens,  \* 512 and 50 in the code
    MaxChars,                  \* 360 000 in the code
    Lengths,                   \* lengths of a paragraph
    MaxParagraphs,             \* bound: paragraphs of a section
    MaxRetries                 \* 3 in the code

ASSUME TextAssumption ==
    /\ MaxTokens \in Nat \ {0} /\ OverlapTokens \in Nat /\ MaxChars \in Nat
    /\ Lengths \subseteq Nat \ {0} /\ MaxParagraphs \in Nat \ {0}
    /\ MaxRetries \in Nat \ {0}

Sections == UNION {[1 .. n -> Lengths] : n \in 1 .. MaxParagraphs}

\* An extracted text may have empty paragraphs: they are not stripped.
Texts == UNION {[1 .. n -> Lengths \cup {0}] : n \in 1 .. MaxParagraphs}

ApproxTokens(chars) == IF chars < 4 THEN 1 ELSE chars \div 4

Tokens(s) == [i \in DOMAIN s |-> ApproxTokens(s[i])]

\* The sums of the first values of v.
Sums(v) == LET upto[n \in 0 .. Len(v)] == IF n = 0 THEN 0 ELSE upto[n - 1] + v[n]
           IN upto

\* The tokens the splitter counts for paragraphs a..b: those of each.
Counted(s, a, b) == Sums(Tokens(s))[b] - Sums(Tokens(s))[a - 1]

\* The characters of paragraphs a..b when they are joined.
Joined(s, a, b) == Sums(s)[b] - Sums(s)[a - 1] + 2 * (b - a)

(***************************************************************************)
(* chunker.py                                                              *)
(***************************************************************************)

\* Going backwards, paragraph i is the next one that may be repeated.
Repeat(s, o, i) ==
    IF o.full \/ o.tokens + ApproxTokens(s[i]) > OverlapTokens
    THEN [o EXCEPT !.full = TRUE]
    ELSE [o EXCEPT !.from = i, !.tokens = @ + ApproxTokens(s[i])]

\* The paragraphs of a..b, from the last one backwards, that the next chunk
\* begins with.
OverlapOf(s, a, b) ==
    LET back[n \in 0 .. b - a + 1] ==
            IF n = 0 THEN [from |-> b + 1, tokens |-> 0, full |-> FALSE]
            ELSE Repeat(s, back[n - 1], b - n + 1)
    IN back[b - a + 1]

\* Paragraph i comes after the current chunk, which is from .. i - 1.
AddParagraph(s, c, i) ==
    IF c.tokens + ApproxTokens(s[i]) > MaxTokens /\ c.from < i
    THEN LET o == OverlapOf(s, c.from, i - 1)
         IN [done |-> Append(c.done, <<c.from, i - 1>>), from |-> o.from,
             tokens |-> o.tokens + ApproxTokens(s[i])]
    ELSE [c EXCEPT !.tokens = @ + ApproxTokens(s[i])]

SplitByParagraphs(s) ==
    LET after[i \in 0 .. Len(s)] == IF i = 0 THEN [done |-> <<>>, from |-> 1, tokens |-> 0]
                                    ELSE AddParagraph(s, after[i - 1], i)
        end == after[Len(s)]
    IN Append(end.done, <<end.from, Len(s)>>)

\* chunk_markdown, of one section.
Chunks(s) == IF ApproxTokens(Joined(s, 1, Len(s))) <= MaxTokens THEN << <<1, Len(s)>> >>
             ELSE SplitByParagraphs(s)

(***************************************************************************)
(* ingestion_pipeline.py                                                   *)
(***************************************************************************)

\* Each paragraph counts with the blank line after it.
AddToPass(s, c, i) ==
    IF c.chars + s[i] + 2 > MaxChars /\ c.from < i
    THEN [done |-> Append(c.done, <<c.from, i - 1>>), from |-> i, chars |-> s[i] + 2]
    ELSE [c EXCEPT !.chars = @ + s[i] + 2]

\* _split_into_chunks
Passes(s) ==
    LET after[i \in 0 .. Len(s)] == IF i = 0 THEN [done |-> <<>>, from |-> 1, chars |-> 0]
                                    ELSE AddToPass(s, after[i - 1], i)
        end == after[Len(s)]
    IN IF Joined(s, 1, Len(s)) <= MaxChars THEN << <<1, Len(s)>> >>
       ELSE Append(end.done, <<end.from, Len(s)>>)

\* What the language model may answer: a "malformed" rate limit names a time
\* to wait that is no integer, any other status than 401 is worth a retry.
Transient == {"rate_limit", "overloaded", "status", "connection"}
Answers == Transient \cup {"ok", "malformed", "unauthorized", "other"}

\* The attempt ends the loop, with the answer or by raising.
Raises(attempt, answer) == answer \notin Transient \/ attempt = MaxRetries

\* What attempt i makes of what the attempts before it came to.
Attempt(end, i, answer) ==
    IF end = "exhausted" /\ Raises(i, answer) THEN answer ELSE end

\* structure_document_with_retry: what becomes of the answers it gets.
Structured(answers) ==
    LET after[i \in 0 .. MaxRetries] == IF i = 0 THEN "exhausted"
                                        ELSE Attempt(after[i - 1], i, answers[i])
    IN after[MaxRetries]

(***************************************************************************)
(* Properties                                                              *)
(***************************************************************************)

\* The parts c go through paragraphs 1..n from the first to the last without a
\* gap, and each part has something the one before did not have.
Covers(c, n) ==
    /\ c # <<>> /\ c[1][1] = 1 /\ c[Len(c)][2] = n
    /\ \A i \in DOMAIN c : c[i][1] <= c[i][2]
    /\ \A i \in 1 .. Len(c) - 1 : /\ c[i][1] <= c[i + 1][1] /\ c[i + 1][1] <= c[i][2] + 1
                                  /\ c[i][2] < c[i + 1][2]

\* Whatever the lengths, no paragraph is lost, and chunks come in order.
NoParagraphLost == \A s \in Sections : Covers(Chunks(s), Len(s))

\* Paragraph k is where the longest tail of a part begins that is within the
\* overlap; k is one after the last if there is none.
BeginsOverlap(s, part, k) ==
    LET tails == {j \in part[1] .. part[2] + 1 : Counted(s, j, part[2]) <= OverlapTokens}
    IN k \in tails /\ \A j \in tails : k <= j

\* Two neighbouring chunks share the longest tail of the first one that is
\* within the overlap, found here without going backwards.
OverlapIsLongestTail ==
    \A s \in Sections : \A i \in 1 .. Len(Chunks(s)) - 1 :
       BeginsOverlap(s, Chunks(s)[i], Chunks(s)[i + 1][1])

\* The budget is one of counted tokens, and soft: a chunk keeps it, unless it
\* is a paragraph after an overlap.  The joined text may have up to 9/4 of it,
\* because every paragraph is rounded down and blank lines are not counted.
BudgetIsSoft ==
    \A s \in Sections : \A i \in DOMAIN Chunks(s) :
       LET a == Chunks(s)[i][1]
           b == Chunks(s)[i][2]
       IN \/ Counted(s, a, b - 1) <= OverlapTokens
          \/ /\ Counted(s, a, b) <= MaxTokens \/ <<a, b>> = <<1, Len(s)>>
             /\ 4 * ApproxTokens(Joined(s, a, b)) <= 9 * MaxTokens

\* The passes are the text cut at blank lines, nothing twice, and only a
\* paragraph on its own is longer than a pass may be.
PassesPartition ==
    \A s \in Texts :
       LET c == Passes(s)
       IN /\ Covers(c, Len(s))
          /\ \A i \in 1 .. Len(c) - 1 : c[i + 1][1] = c[i][2] + 1
          /\ \A i \in DOMAIN c : c[i][1] = c[i][2] \/ Joined(s, c[i][1], c[i][2]) <= MaxChars

\* A document is structured exactly when one of the attempts succeeds and
\* only transient errors come before it; the end of the loop, which the code
\* marks as impossible, is not reached.
TransientErrorsAreRetried ==
    \A answers \in [1 .. MaxRetries -> Answers] :
       /\ Structured(answers) # "exhausted"
       /\ Structured(answers) = "ok" <=>
             \E i \in 1 .. MaxRetries : /\ answers[i] = "ok"
                                        /\ \A j \in 1 .. i - 1 : answers[j] \in Transient
=============================================================================
