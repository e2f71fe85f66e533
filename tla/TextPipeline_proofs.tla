------------------------ MODULE TextPipeline_proofs ------------------------
(***************************************************************************)
(* Proofs about TextPipeline, for sections, texts and rows of answers of   *)
(* any length: what its loops compute, by induction over the paragraphs.   *)
(* The induction is one over sets of numbers, whose least element outside  *)
(* would be a counterexample.                                              *)
(***************************************************************************)
EXTENDS TextPipeline, WellFoundedInduction, TLAPS

(***************************************************************************)
(* Induction                                                               *)
(***************************************************************************)
LEMMA Inductively ==
    ASSUME NEW n \in Nat, NEW T, 0 \in T, \A i \in 1 .. n : i - 1 \in T => i \in T
    PROVE  \A i \in 0 .. n : i \in T
<1>. DEFINE B == {i \in 0 .. n : i \notin T}
<1>. SUFFICES ASSUME B # {} PROVE FALSE
  OBVIOUS
<1>1. B \subseteq Nat /\ B # {}
  OBVIOUS
<1>2. PICK b \in B : \A c \in B : ~(<<c, b>> \in OpToRel(<, Nat))
  <2>. HIDE DEF B
  <2>. QED
    BY <1>1, NatLessThanWellFounded, WFMin
<1>3. \A c \in B : ~(c < b)
  BY <1>1, <1>2 DEF OpToRel
<1>4. b \in 1 .. n /\ b - 1 \in 0 .. n /\ b - 1 < b
  OBVIOUS
<1>5. b - 1 \in T
  BY <1>3, <1>4
<1>. QED
  BY <1>4, <1>5

(***************************************************************************)
(* Loops.  A recursive definition chooses a solution of its equation, and  *)
(* one exists, by induction over the rounds of the loop.  A lemma for all  *)
(* loops would have the step of the loop as its parameter, an operator,    *)
(* which the provers cannot instantiate: there is one for each.            *)
(***************************************************************************)

LEMMA SumsLoop ==
    ASSUME NEW v, Len(v) \in Nat
    PROVE  \E f : /\ f[0] = 0
                  /\ \A i \in 1 .. Len(v) : f[i] = f[i - 1] + v[i]
                  /\ Sums(v) = f
<1>. DEFINE N == Len(v)
            first == 0
            Step(x, i) == x + v[i]
            Solves(f, n) ==
                f = [i \in 0 .. n |-> IF i = 0 THEN first ELSE Step(f[i - 1], i)]
            T == {n \in 0 .. N : \E f : Solves(f, n)}
            up == CHOOSE f : Solves(f, N)
<1>1. N \in Nat
  OBVIOUS
<1>2. Sums(v) = up
  BY DEF Sums
<1>. HIDE DEF N, first, Step
<1>3. 0 \in T
  <2>. DEFINE f == [i \in 0 .. 0 |-> first]
  <2>1. Solves(f, 0)
    OBVIOUS
  <2>. HIDE DEF f, Solves
  <2>. QED
    BY <1>1, <2>1
<1>4. ASSUME NEW n \in 1 .. N, n - 1 \in T PROVE n \in T
  <2>1. PICK f : Solves(f, n - 1)
    BY <1>4
  <2>. DEFINE g == [i \in 0 .. n |-> IF i = n THEN Step(f[n - 1], n) ELSE f[i]]
  <2>2. f[0] = first /\ \A i \in 1 .. n - 1 : f[i] = Step(f[i - 1], i)
    BY <1>1, <2>1
  <2>3. \A i \in 0 .. n : g[i] = IF i = 0 THEN first ELSE Step(g[i - 1], i)
    BY <1>1, <2>2
  <2>4. g = [i \in 0 .. n |-> g[i]]
    OBVIOUS
  <2>. HIDE DEF g
  <2>5. Solves(g, n)
    BY <2>3, <2>4
  <2>. HIDE DEF Solves
  <2>. QED
    BY <2>5
<1>5. \A i \in 0 .. N : i \in T
  <2>. HIDE DEF T
  <2>. QED
    BY <1>1, <1>3, <1>4, Inductively
<1>6. \E f : Solves(f, N)
  <2>. HIDE DEF Solves
  <2>. QED
    BY <1>1, <1>5
<1>7. Solves(up, N)
  <2>. HIDE DEF Solves
  <2>. QED
    BY <1>6
<1>. HIDE DEF up
<1>8. up[0] = first /\ \A i \in 1 .. N : up[i] = Step(up[i - 1], i)
  BY <1>1, <1>7
<1>. QED
  BY <1>2, <1>8 DEF N, first, Step

LEMMA OverlapLoop ==
    ASSUME NEW s, NEW a \in Int, NEW b \in Int, b - a + 1 \in Nat
    PROVE  \E f : /\ f[0] = [from |-> b + 1, tokens |-> 0, full |-> FALSE]
                  /\ \A i \in 1 .. b - a + 1 : f[i] = Repeat(s, f[i - 1], b - i + 1)
                  /\ OverlapOf(s, a, b) = f[b - a + 1]
<1>. DEFINE N == b - a + 1
            first == [from |-> b + 1, tokens |-> 0, full |-> FALSE]
            Step(x, i) == Repeat(s, x, b - i + 1)
            Solves(f, n) ==
                f = [i \in 0 .. n |-> IF i = 0 THEN first ELSE Step(f[i - 1], i)]
            T == {n \in 0 .. N : \E f : Solves(f, n)}
            up == CHOOSE f : Solves(f, N)
<1>1. N \in Nat
  OBVIOUS
<1>2. OverlapOf(s, a, b) = up[b - a + 1]
  BY DEF OverlapOf
<1>. HIDE DEF N, first, Step
<1>3. 0 \in T
  <2>. DEFINE f == [i \in 0 .. 0 |-> first]
  <2>1. Solves(f, 0)
    OBVIOUS
  <2>. HIDE DEF f, Solves
  <2>. QED
    BY <1>1, <2>1
<1>4. ASSUME NEW n \in 1 .. N, n - 1 \in T PROVE n \in T
  <2>1. PICK f : Solves(f, n - 1)
    BY <1>4
  <2>. DEFINE g == [i \in 0 .. n |-> IF i = n THEN Step(f[n - 1], n) ELSE f[i]]
  <2>2. f[0] = first /\ \A i \in 1 .. n - 1 : f[i] = Step(f[i - 1], i)
    BY <1>1, <2>1
  <2>3. \A i \in 0 .. n : g[i] = IF i = 0 THEN first ELSE Step(g[i - 1], i)
    BY <1>1, <2>2
  <2>4. g = [i \in 0 .. n |-> g[i]]
    OBVIOUS
  <2>. HIDE DEF g
  <2>5. Solves(g, n)
    BY <2>3, <2>4
  <2>. HIDE DEF Solves
  <2>. QED
    BY <2>5
<1>5. \A i \in 0 .. N : i \in T
  <2>. HIDE DEF T
  <2>. QED
    BY <1>1, <1>3, <1>4, Inductively
<1>6. \E f : Solves(f, N)
  <2>. HIDE DEF Solves
  <2>. QED
    BY <1>1, <1>5
<1>7. Solves(up, N)
  <2>. HIDE DEF Solves
  <2>. QED
    BY <1>6
<1>. HIDE DEF up
<1>8. up[0] = first /\ \A i \in 1 .. N : up[i] = Step(up[i - 1], i)
  BY <1>1, <1>7
<1>. QED
  BY <1>2, <1>8 DEF N, first, Step

LEMMA SplitLoop ==
    ASSUME NEW s, Len(s) \in Nat
    PROVE  \E f : /\ f[0] = [done |-> <<>>, from |-> 1, tokens |-> 0]
                  /\ \A i \in 1 .. Len(s) : f[i] = AddParagraph(s, f[i - 1], i)
                  /\ SplitByParagraphs(s) = Append(f[Len(s)].done, <<f[Len(s)].from, Len(s)>>)
<1>. DEFINE N == Len(s)
            first == [done |-> <<>>, from |-> 1, tokens |-> 0]
            Step(x, i) == AddParagraph(s, x, i)
            Solves(f, n) ==
                f = [i \in 0 .. n |-> IF i = 0 THEN first ELSE Step(f[i - 1], i)]
            T == {n \in 0 .. N : \E f : Solves(f, n)}
            up == CHOOSE f : Solves(f, N)
<1>1. N \in Nat
  OBVIOUS
<1>2. SplitByParagraphs(s) = Append(up[Len(s)].done, <<up[Len(s)].from, Len(s)>>)
  BY DEF SplitByParagraphs
<1>. HIDE DEF N, first, Step
<1>3. 0 \in T
  <2>. DEFINE f == [i \in 0 .. 0 |-> first]
  <2>1. Solves(f, 0)
    OBVIOUS
  <2>. HIDE DEF f, Solves
  <2>. QED
    BY <1>1, <2>1
<1>4. ASSUME NEW n \in 1 .. N, n - 1 \in T PROVE n \in T
  <2>1. PICK f : Solves(f, n - 1)
    BY <1>4
  <2>. DEFINE g == [i \in 0 .. n |-> IF i = n THEN Step(f[n - 1], n) ELSE f[i]]
  <2>2. f[0] = first /\ \A i \in 1 .. n - 1 : f[i] = Step(f[i - 1], i)
    BY <1>1, <2>1
  <2>3. \A i \in 0 .. n : g[i] = IF i = 0 THEN first ELSE Step(g[i - 1], i)
    BY <1>1, <2>2
  <2>4. g = [i \in 0 .. n |-> g[i]]
    OBVIOUS
  <2>. HIDE DEF g
  <2>5. Solves(g, n)
    BY <2>3, <2>4
  <2>. HIDE DEF Solves
  <2>. QED
    BY <2>5
<1>5. \A i \in 0 .. N : i \in T
  <2>. HIDE DEF T
  <2>. QED
    BY <1>1, <1>3, <1>4, Inductively
<1>6. \E f : Solves(f, N)
  <2>. HIDE DEF Solves
  <2>. QED
    BY <1>1, <1>5
<1>7. Solves(up, N)
  <2>. HIDE DEF Solves
  <2>. QED
    BY <1>6
<1>. HIDE DEF up
<1>8. up[0] = first /\ \A i \in 1 .. N : up[i] = Step(up[i - 1], i)
  BY <1>1, <1>7
<1>. QED
  BY <1>2, <1>8 DEF N, first, Step

LEMMA PassLoop ==
    ASSUME NEW s, Len(s) \in Nat
    PROVE  \E f : /\ f[0] = [done |-> <<>>, from |-> 1, chars |-> 0]
                  /\ \A i \in 1 .. Len(s) : f[i] = AddToPass(s, f[i - 1], i)
                  /\ Passes(s) = IF Joined(s, 1, Len(s)) <= MaxChars THEN << <<1, Len(s)>> >>
                     ELSE Append(f[Len(s)].done, <<f[Len(s)].from, Len(s)>>)
<1>. DEFINE N == Len(s)
            first == [done |-> <<>>, from |-> 1, chars |-> 0]
            Step(x, i) == AddToPass(s, x, i)
            Solves(f, n) ==
                f = [i \in 0 .. n |-> IF i = 0 THEN first ELSE Step(f[i - 1], i)]
            T == {n \in 0 .. N : \E f : Solves(f, n)}
            up == CHOOSE f : Solves(f, N)
<1>1. N \in Nat
  OBVIOUS
<1>2. Passes(s) = IF Joined(s, 1, Len(s)) <= MaxChars THEN << <<1, Len(s)>> >>
                     ELSE Append(up[Len(s)].done, <<up[Len(s)].from, Len(s)>>)
  BY DEF Passes
<1>. HIDE DEF N, first, Step
<1>3. 0 \in T
  <2>. DEFINE f == [i \in 0 .. 0 |-> first]
  <2>1. Solves(f, 0)
    OBVIOUS
  <2>. HIDE DEF f, Solves
  <2>. QED
    BY <1>1, <2>1
<1>4. ASSUME NEW n \in 1 .. N, n - 1 \in T PROVE n \in T
  <2>1. PICK f : Solves(f, n - 1)
    BY <1>4
  <2>. DEFINE g == [i \in 0 .. n |-> IF i = n THEN Step(f[n - 1], n) ELSE f[i]]
  <2>2. f[0] = first /\ \A i \in 1 .. n - 1 : f[i] = Step(f[i - 1], i)
    BY <1>1, <2>1
  <2>3. \A i \in 0 .. n : g[i] = IF i = 0 THEN first ELSE Step(g[i - 1], i)
    BY <1>1, <2>2
  <2>4. g = [i \in 0 .. n |-> g[i]]
    OBVIOUS
  <2>. HIDE DEF g
  <2>5. Solves(g, n)
    BY <2>3, <2>4
  <2>. HIDE DEF Solves
  <2>. QED
    BY <2>5
<1>5. \A i \in 0 .. N : i \in T
  <2>. HIDE DEF T
  <2>. QED
    BY <1>1, <1>3, <1>4, Inductively
<1>6. \E f : Solves(f, N)
  <2>. HIDE DEF Solves
  <2>. QED
    BY <1>1, <1>5
<1>7. Solves(up, N)
  <2>. HIDE DEF Solves
  <2>. QED
    BY <1>6
<1>. HIDE DEF up
<1>8. up[0] = first /\ \A i \in 1 .. N : up[i] = Step(up[i - 1], i)
  BY <1>1, <1>7
<1>. QED
  BY <1>2, <1>8 DEF N, first, Step

LEMMA AnswerLoop ==
    ASSUME NEW answers, MaxRetries \in Nat
    PROVE  \E f : /\ f[0] = "exhausted"
                  /\ \A i \in 1 .. MaxRetries : f[i] = Attempt(f[i - 1], i, answers[i])
                  /\ Structured(answers) = f[MaxRetries]
<1>. DEFINE N == MaxRetries
            first == "exhausted"
            Step(x, i) == Attempt(x, i, answers[i])
            Solves(f, n) ==
                f = [i \in 0 .. n |-> IF i = 0 THEN first ELSE Step(f[i - 1], i)]
            T == {n \in 0 .. N : \E f : Solves(f, n)}
            up == CHOOSE f : Solves(f, N)
<1>1. N \in Nat
  OBVIOUS
<1>2. Structured(answers) = up[MaxRetries]
  BY DEF Structured
<1>. HIDE DEF N, first, Step
<1>3. 0 \in T
  <2>. DEFINE f == [i \in 0 .. 0 |-> first]
  <2>1. Solves(f, 0)
    OBVIOUS
  <2>. HIDE DEF f, Solves
  <2>. QED
    BY <1>1, <2>1
<1>4. ASSUME NEW n \in 1 .. N, n - 1 \in T PROVE n \in T
  <2>1. PICK f : Solves(f, n - 1)
    BY <1>4
  <2>. DEFINE g == [i \in 0 .. n |-> IF i = n THEN Step(f[n - 1], n) ELSE f[i]]
  <2>2. f[0] = first /\ \A i \in 1 .. n - 1 : f[i] = Step(f[i - 1], i)
    BY <1>1, <2>1
  <2>3. \A i \in 0 .. n : g[i] = IF i = 0 THEN first ELSE Step(g[i - 1], i)
    BY <1>1, <2>2
  <2>4. g = [i \in 0 .. n |-> g[i]]
    OBVIOUS
  <2>. HIDE DEF g
  <2>5. Solves(g, n)
    BY <2>3, <2>4
  <2>. HIDE DEF Solves
  <2>. QED
    BY <2>5
<1>5. \A i \in 0 .. N : i \in T
  <2>. HIDE DEF T
  <2>. QED
    BY <1>1, <1>3, <1>4, Inductively
<1>6. \E f : Solves(f, N)
  <2>. HIDE DEF Solves
  <2>. QED
    BY <1>1, <1>5
<1>7. Solves(up, N)
  <2>. HIDE DEF Solves
  <2>. QED
    BY <1>6
<1>. HIDE DEF up
<1>8. up[0] = first /\ \A i \in 1 .. N : up[i] = Step(up[i - 1], i)
  BY <1>1, <1>7
<1>. QED
  BY <1>2, <1>8 DEF N, first, Step

(***************************************************************************)
(* Lengths and tokens                                                      *)
(***************************************************************************)
LEMMA Approx ==
    ASSUME NEW n \in Nat
    PROVE  /\ ApproxTokens(n) \in Nat /\ ApproxTokens(n) >= 1
           /\ n + 2 <= 9 * ApproxTokens(n)
           /\ n >= 4 => 4 * ApproxTokens(n) <= n
BY DEF ApproxTokens

LEMMA Grows ==
    ASSUME NEW n \in Nat, NEW f, \A i \in 0 .. n : f[i] \in Int,
           \A i \in 1 .. n : f[i - 1] <= f[i]
    PROVE  \A j, k \in 0 .. n : j <= k => f[j] <= f[k]
<1>. SUFFICES ASSUME NEW j \in 0 .. n PROVE \A k \in 0 .. n : j <= k => f[j] <= f[k]
  OBVIOUS
<1>. DEFINE T == {k \in 0 .. n : j <= k => f[j] <= f[k]}
<1>1. 0 \in T
  OBVIOUS
<1>2. ASSUME NEW k \in 1 .. n, k - 1 \in T PROVE k \in T
  <2>1. CASE j = k
    BY <2>1
  <2>2. CASE j < k
    <3>1. j <= k - 1 /\ k - 1 \in 0 .. n
      BY <2>2
    <3>2. f[j] <= f[k - 1]
      BY <1>2, <3>1
    <3>3. f[j] \in Int /\ f[k - 1] \in Int /\ f[k] \in Int /\ f[k - 1] <= f[k]
      BY <3>1
    <3>. QED
      BY <3>2, <3>3
  <2>3. CASE j > k
    BY <2>3
  <2>. QED
    BY <2>1, <2>2, <2>3
<1>3. \A k \in 0 .. n : k \in T
  <2>. HIDE DEF T
  <2>. QED
    BY <1>1, <1>2, Inductively
<1>. QED
  BY <1>3

LEMMA SumsAre ==
    ASSUME NEW v \in Seq(Nat)
    PROVE  /\ Sums(v)[0] = 0
           /\ \A i \in 1 .. Len(v) : Sums(v)[i] = Sums(v)[i - 1] + v[i]
           /\ \A i \in 0 .. Len(v) : Sums(v)[i] \in Nat
<1>1. Len(v) \in Nat /\ \A i \in 1 .. Len(v) : v[i] \in Nat
  OBVIOUS
<1>2. PICK f : /\ f[0] = 0 /\ \A i \in 1 .. Len(v) : f[i] = f[i - 1] + v[i]
               /\ Sums(v) = f
  BY <1>1, SumsLoop
<1>. DEFINE T == {i \in 0 .. Len(v) : f[i] \in Nat}
<1>3. 0 \in T
  BY <1>1, <1>2
<1>4. ASSUME NEW i \in 1 .. Len(v), i - 1 \in T PROVE i \in T
  <2>1. f[i - 1] \in Nat /\ v[i] \in Nat /\ f[i] = f[i - 1] + v[i]
    BY <1>1, <1>2, <1>4
  <2>. QED
    BY <2>1
<1>5. \A i \in 0 .. Len(v) : i \in T
  <2>. HIDE DEF T
  <2>. QED
    BY <1>1, <1>3, <1>4, Inductively
<1>. QED
  BY <1>2, <1>5

LEMMA TokensType ==
    ASSUME NEW s \in Seq(Nat)
    PROVE  /\ Tokens(s) \in Seq(Nat) /\ Len(Tokens(s)) = Len(s)
           /\ \A i \in 1 .. Len(s) : Tokens(s)[i] = ApproxTokens(s[i])
<1>1. Len(s) \in Nat /\ DOMAIN s = 1 .. Len(s) /\ \A i \in 1 .. Len(s) : s[i] \in Nat
  OBVIOUS
<1>2. Tokens(s) = [i \in 1 .. Len(s) |-> ApproxTokens(s[i])]
  BY <1>1 DEF Tokens
<1>3. \A i \in 1 .. Len(s) : ApproxTokens(s[i]) \in Nat
  BY <1>1, Approx
<1>. QED
  BY <1>1, <1>2, <1>3

LEMMA TokenSums ==
    ASSUME NEW s \in Seq(Nat)
    PROVE  /\ Len(s) \in Nat
           /\ \A i \in 0 .. Len(s) : Sums(Tokens(s))[i] \in Nat
           /\ \A i \in 1 .. Len(s) :
                 /\ s[i] \in Nat /\ ApproxTokens(s[i]) \in Nat /\ ApproxTokens(s[i]) >= 1
                 /\ i - 1 \in 0 .. Len(s)
                 /\ Sums(Tokens(s))[i] = Sums(Tokens(s))[i - 1] + ApproxTokens(s[i])
<1>. DEFINE f == Sums(Tokens(s))
<1>1. Len(s) \in Nat /\ \A i \in 1 .. Len(s) : s[i] \in Nat /\ i - 1 \in 0 .. Len(s)
  OBVIOUS
<1>2. \A i \in 1 .. Len(s) : ApproxTokens(s[i]) \in Nat /\ ApproxTokens(s[i]) >= 1
  BY <1>1, Approx
<1>3. /\ Tokens(s) \in Seq(Nat) /\ Len(Tokens(s)) = Len(s)
      /\ \A i \in 1 .. Len(s) : Tokens(s)[i] = ApproxTokens(s[i])
  BY TokensType
<1>4. /\ \A i \in 1 .. Len(s) : f[i] = f[i - 1] + Tokens(s)[i]
      /\ \A i \in 0 .. Len(s) : f[i] \in Nat
  <2>1. /\ \A i \in 1 .. Len(Tokens(s)) : f[i] = f[i - 1] + Tokens(s)[i]
        /\ \A i \in 0 .. Len(Tokens(s)) : f[i] \in Nat
    BY <1>3, SumsAre
  <2>. QED
    BY <1>3, <2>1
<1>. QED
  BY <1>1, <1>2, <1>3, <1>4

\* The tokens of a..b, from either end.
LEMMA CountedIs ==
    ASSUME NEW s \in Seq(Nat), NEW a \in 1 .. Len(s) + 1, NEW b \in 0 .. Len(s)
    PROVE  /\ Counted(s, a, b) \in Int
           /\ b = a - 1 => Counted(s, a, b) = 0
           /\ b >= 1 => Counted(s, a, b) = Counted(s, a, b - 1) + ApproxTokens(s[b])
           /\ a <= Len(s) => Counted(s, a, b) = Counted(s, a + 1, b) + ApproxTokens(s[a])
<1>. DEFINE f == Sums(Tokens(s))
<1>1. \A x, y : Counted(s, x, y) = f[y] - f[x - 1]
  BY DEF Counted
<1>2. /\ Len(s) \in Nat /\ \A i \in 0 .. Len(s) : f[i] \in Nat
      /\ \A i \in 1 .. Len(s) : ApproxTokens(s[i]) \in Nat /\ i - 1 \in 0 .. Len(s)
                                /\ f[i] = f[i - 1] + ApproxTokens(s[i])
  BY TokenSums
<1>. HIDE DEF f
<1>3. a - 1 \in 0 .. Len(s) /\ f[a - 1] \in Nat /\ f[b] \in Nat
  BY <1>2
<1>4. Counted(s, a, b) \in Int /\ (b = a - 1 => Counted(s, a, b) = 0)
  BY <1>1, <1>3
<1>5. ASSUME b >= 1 PROVE Counted(s, a, b) = Counted(s, a, b - 1) + ApproxTokens(s[b])
  <2>1. /\ ApproxTokens(s[b]) \in Nat /\ f[b - 1] \in Nat
        /\ f[b] = f[b - 1] + ApproxTokens(s[b])
    <3>1. b \in 1 .. Len(s) /\ b - 1 \in 0 .. Len(s)
      BY <1>2, <1>5
    <3>. QED
      BY <1>2, <3>1
  <2>. QED
    BY <1>1, <1>3, <2>1
<1>6. ASSUME a <= Len(s) PROVE Counted(s, a, b) = Counted(s, a + 1, b) + ApproxTokens(s[a])
  <2>1. /\ ApproxTokens(s[a]) \in Nat /\ f[a] \in Nat /\ (a + 1) - 1 = a
        /\ f[a] = f[a - 1] + ApproxTokens(s[a])
    BY <1>2, <1>6
  <2>2. Counted(s, a + 1, b) = f[b] - f[a] /\ Counted(s, a, b) = f[b] - f[a - 1]
    BY <1>1, <2>1
  <2>. QED
    BY <1>3, <2>1, <2>2
<1>. QED
  BY <1>4, <1>5, <1>6

\* A longer tail has more tokens.
LEMMA CountedGrows ==
    ASSUME NEW s \in Seq(Nat), NEW j \in 1 .. Len(s) + 1, NEW k \in j .. Len(s) + 1,
           NEW b \in 0 .. Len(s)
    PROVE  Counted(s, k, b) <= Counted(s, j, b)
<1>. DEFINE f == Sums(Tokens(s))
<1>1. /\ Len(s) \in Nat /\ \A i \in 0 .. Len(s) : f[i] \in Nat
      /\ \A i \in 1 .. Len(s) : ApproxTokens(s[i]) \in Nat /\ i - 1 \in 0 .. Len(s)
                                /\ f[i] = f[i - 1] + ApproxTokens(s[i])
  BY TokenSums
<1>. HIDE DEF f
<1>2. \A i \in 0 .. Len(s) : f[i] \in Int
  BY <1>1
<1>3. \A i \in 1 .. Len(s) : f[i - 1] <= f[i]
  <2>. SUFFICES ASSUME NEW i \in 1 .. Len(s) PROVE f[i - 1] <= f[i]
    OBVIOUS
  <2>1. f[i - 1] \in Nat /\ ApproxTokens(s[i]) \in Nat /\ f[i] = f[i - 1] + ApproxTokens(s[i])
    BY <1>1
  <2>. QED
    BY <2>1
<1>4. j - 1 \in 0 .. Len(s) /\ k - 1 \in 0 .. Len(s) /\ j - 1 <= k - 1
  BY <1>1
<1>5. f[j - 1] <= f[k - 1]
  BY <1>1, <1>2, <1>3, <1>4, Grows
<1>6. f[b] \in Nat /\ f[j - 1] \in Nat /\ f[k - 1] \in Nat
  BY <1>1, <1>4
<1>. QED
  BY <1>5, <1>6 DEF Counted, f

(***************************************************************************)
(* The overlap                                                             *)
(***************************************************************************)

\* What `for part in reversed(current_parts)` has found after n parts of a..b:
\* the tail from o.from on, the longest of those it has seen.
OverlapInv(s, b, n, o) ==
    /\ o \in [from : Int, tokens : Int, full : BOOLEAN]
    /\ o.from \in b - n + 1 .. b + 1
    /\ o.tokens = Counted(s, o.from, b) /\ o.tokens <= OverlapTokens
    /\ ~o.full => o.from = b - n + 1
    /\ o.full => o.from > b - n + 1 /\ Counted(s, o.from - 1, b) > OverlapTokens

LEMMA OverlapStep ==
    ASSUME NEW s \in Seq(Nat), NEW b \in 1 .. Len(s), NEW n \in 1 .. b, NEW o,
           OverlapInv(s, b, n - 1, o)
    PROVE  OverlapInv(s, b, n, Repeat(s, o, b - n + 1))
<1>. DEFINE i == b - n + 1
            t == ApproxTokens(s[i])
<1>1. i \in 1 .. Len(s) /\ Len(s) \in Nat
  OBVIOUS
<1>2. /\ o \in [from : Int, tokens : Int, full : BOOLEAN]
      /\ o.from \in i + 1 .. b + 1
      /\ o.tokens = Counted(s, o.from, b) /\ o.tokens <= OverlapTokens
      /\ ~o.full => o.from = i + 1
      /\ o.full => o.from > i + 1 /\ Counted(s, o.from - 1, b) > OverlapTokens
  BY DEF OverlapInv
<1>3. t \in Nat /\ Counted(s, i, b) = Counted(s, i + 1, b) + t /\ Counted(s, i, b) \in Int
  <2>1. i \in 1 .. Len(s) + 1 /\ b \in 0 .. Len(s) /\ i <= Len(s)
    BY <1>1
  <2>2. t \in Nat
    BY <1>1, TokenSums
  <2>. HIDE DEF i
  <2>. QED
    BY <2>1, <2>2, CountedIs
<1>4. CASE o.full
  <2>1. Repeat(s, o, i) = [o EXCEPT !.full = TRUE]
    BY <1>4 DEF Repeat
  <2>2. Repeat(s, o, i) = o
    BY <1>2, <1>4, <2>1
  <2>. QED
    BY <1>1, <1>2, <1>4, <2>2 DEF OverlapInv
<1>5. CASE ~o.full /\ o.tokens + t > OverlapTokens
  <2>1. Repeat(s, o, i) = [o EXCEPT !.full = TRUE]
    BY <1>5 DEF Repeat
  <2>2. PICK p : p = [o EXCEPT !.full = TRUE]
    OBVIOUS
  <2>3. /\ p \in [from : Int, tokens : Int, full : BOOLEAN]
        /\ p.from = o.from /\ p.tokens = o.tokens /\ p.full
    BY <1>2, <2>2
  <2>4. o.from = i + 1 /\ o.from - 1 = i
    BY <1>1, <1>2, <1>5
  <2>5. Counted(s, p.from - 1, b) > OverlapTokens
    BY <1>2, <1>3, <1>5, <2>3, <2>4
  <2>6. OverlapInv(s, b, n, p)
    <3>. HIDE DEF t
    <3>. QED
      BY <1>1, <1>2, <2>3, <2>4, <2>5 DEF OverlapInv
  <2>. QED
    BY <2>1, <2>2, <2>6
<1>6. CASE ~o.full /\ ~(o.tokens + t > OverlapTokens)
  <2>1. Repeat(s, o, i) = [o EXCEPT !.from = i, !.tokens = @ + t]
    BY <1>6 DEF Repeat
  <2>2. PICK p : p = [o EXCEPT !.from = i, !.tokens = @ + t]
    OBVIOUS
  <2>3. /\ p \in [from : Int, tokens : Int, full : BOOLEAN]
        /\ p.from = i /\ p.tokens = o.tokens + t /\ ~p.full
    <3>1. i \in Int /\ o.tokens + t \in Int
      BY <1>1, <1>2, <1>3
    <3>2. PICK x : x = o.tokens + t
      OBVIOUS
    <3>3. p = [o EXCEPT !.from = i, !.tokens = x]
      BY <2>2, <3>2
    <3>. HIDE DEF i
    <3>4. p \in [from : Int, tokens : Int, full : BOOLEAN]
      BY <1>2, <3>1, <3>2, <3>3
    <3>5. p.from = i /\ p.tokens = x /\ ~p.full
      BY <1>2, <1>6, <3>3
    <3>. QED
      BY <3>2, <3>4, <3>5
  <2>4. p.tokens = Counted(s, p.from, b)
    BY <1>2, <1>3, <1>6, <2>3
  <2>5. p.tokens <= OverlapTokens
    BY <1>2, <1>3, <1>6, <2>3, TextAssumption
  <2>6. OverlapInv(s, b, n, p)
    <3>. HIDE DEF t
    <3>. QED
      BY <1>1, <2>3, <2>4, <2>5 DEF OverlapInv
  <2>. QED
    BY <2>1, <2>2, <2>6
<1>. QED
  BY <1>4, <1>5, <1>6

\* The overlap is the longest tail of a..b within OVERLAP_TOKENS.
LEMMA OverlapIs ==
    ASSUME NEW s \in Seq(Nat), NEW b \in 1 .. Len(s), NEW a \in 1 .. b
    PROVE  /\ OverlapOf(s, a, b).from \in a .. b + 1
           /\ OverlapOf(s, a, b).tokens = Counted(s, OverlapOf(s, a, b).from, b)
           /\ Counted(s, OverlapOf(s, a, b).from, b) <= OverlapTokens
           /\ \A k \in a .. b + 1 :
                 Counted(s, k, b) <= OverlapTokens => OverlapOf(s, a, b).from <= k
<1>. DEFINE N == b - a + 1
<1>1. /\ N \in Nat /\ N = b - a + 1 /\ b - N + 1 = a /\ Len(s) \in Nat /\ N <= b
      /\ a \in Int /\ b \in Int
  OBVIOUS
<1>. HIDE DEF N
<1>2. PICK f : /\ f[0] = [from |-> b + 1, tokens |-> 0, full |-> FALSE]
               /\ \A i \in 1 .. N : f[i] = Repeat(s, f[i - 1], b - i + 1)
               /\ OverlapOf(s, a, b) = f[N]
  <2>1. a \in Int /\ b \in Int /\ b - a + 1 \in Nat
    BY <1>1
  <2>2. \E f : /\ f[0] = [from |-> b + 1, tokens |-> 0, full |-> FALSE]
               /\ \A i \in 1 .. b - a + 1 : f[i] = Repeat(s, f[i - 1], b - i + 1)
               /\ OverlapOf(s, a, b) = f[b - a + 1]
    BY <2>1, OverlapLoop
  <2>. QED
    BY <2>2 DEF N
<1>. DEFINE T == {n \in 0 .. N : OverlapInv(s, b, n, f[n])}
<1>3. 0 \in T
  <2>1. Counted(s, b + 1, b) = 0
    <3>1. b + 1 \in 1 .. Len(s) + 1 /\ b \in 0 .. Len(s) /\ b = (b + 1) - 1
      BY <1>1
    <3>. QED
      BY <3>1, CountedIs
  <2>2. OverlapInv(s, b, 0, [from |-> b + 1, tokens |-> 0, full |-> FALSE])
    BY <1>1, <2>1, TextAssumption DEF OverlapInv
  <2>. QED
    BY <1>1, <1>2, <2>2
<1>4. ASSUME NEW n \in 1 .. N, n - 1 \in T PROVE n \in T
  <2>1. n \in 1 .. b /\ OverlapInv(s, b, n - 1, f[n - 1])
    BY <1>1, <1>4
  <2>2. f[n] = Repeat(s, f[n - 1], b - n + 1)
    BY <1>2
  <2>3. OverlapInv(s, b, n, f[n])
    BY <2>1, <2>2, OverlapStep
  <2>. QED
    BY <1>1, <2>3
<1>5. \A n \in 0 .. N : n \in T
  <2>. HIDE DEF T
  <2>. QED
    BY <1>1, <1>3, <1>4, Inductively
<1>6. OverlapInv(s, b, N, OverlapOf(s, a, b))
  <2>1. N \in 0 .. N
    BY <1>1
  <2>2. OverlapInv(s, b, N, f[N])
    BY <1>5, <2>1
  <2>. QED
    BY <1>2, <2>2
<1>. DEFINE from == OverlapOf(s, a, b).from
<1>7. /\ from \in a .. b + 1
      /\ OverlapOf(s, a, b).tokens = Counted(s, from, b)
      /\ Counted(s, from, b) <= OverlapTokens
      /\ from = a \/ (from > a /\ Counted(s, from - 1, b) > OverlapTokens)
  BY <1>1, <1>6 DEF OverlapInv
<1>. HIDE DEF from
<1>8. ASSUME NEW k \in a .. b + 1, Counted(s, k, b) <= OverlapTokens PROVE from <= k
  <2>. SUFFICES ASSUME k < from PROVE FALSE
    BY <1>7
  <2>1. Counted(s, from - 1, b) > OverlapTokens
    BY <1>7
  <2>2. /\ k \in 1 .. Len(s) + 1 /\ from - 1 \in k .. Len(s) + 1 /\ b \in 0 .. Len(s)
        /\ from - 1 \in 1 .. Len(s) + 1
    BY <1>1, <1>7
  <2>3. Counted(s, from - 1, b) <= Counted(s, k, b)
    BY <2>2, CountedGrows
  <2>4. Counted(s, from - 1, b) \in Int /\ Counted(s, k, b) \in Int
    BY <2>2, CountedIs
  <2>. QED
    BY <1>8, <2>1, <2>3, <2>4, TextAssumption
<1>. QED
  BY <1>7, <1>8 DEF from

(***************************************************************************)
(* The chunks of a section                                                 *)
(***************************************************************************)
LEMMA TextType ==
    ASSUME NEW s, s \in Sections \/ s \in Texts
    PROVE  s \in Seq(Nat) /\ Len(s) \in Nat /\ Len(s) >= 1
<1>1. PICK L \in SUBSET Nat : s \in UNION {[1 .. n -> L] : n \in 1 .. MaxParagraphs}
  <2>1. CASE s \in Sections
    BY <2>1, TextAssumption DEF Sections
  <2>2. CASE s \in Texts
    <3>1. PICK L : L = Lengths \cup {0}
      OBVIOUS
    <3>2. L \in SUBSET Nat
      BY <3>1, TextAssumption
    <3>. QED
      BY <2>2, <3>1, <3>2 DEF Texts
  <2>. QED
    BY <2>1, <2>2
<1>2. PICK n \in 1 .. MaxParagraphs : s \in [1 .. n -> L]
  <2>1. PICK X : X \in {[1 .. n -> L] : n \in 1 .. MaxParagraphs} /\ s \in X
    BY <1>1, Zenon
  <2>2. PICK n \in 1 .. MaxParagraphs : X = [1 .. n -> L]
    BY <2>1
  <2>. QED
    BY <2>1, <2>2
<1>3. n \in Nat /\ n >= 1 /\ s \in [1 .. n -> Nat]
  <2>1. MaxParagraphs \in Nat
    BY TextAssumption
  <2>2. \A i \in 1 .. n : s[i] \in Nat
    BY <1>2
  <2>. QED
    BY <1>2, <2>1, <2>2
<1>4. s \in Seq(Nat) /\ Len(s) = n
  BY <1>3
<1>. QED
  BY <1>3, <1>4

LEMMA Appended ==
    ASSUME NEW S, NEW q \in Seq(S), NEW e \in S
    PROVE  /\ Append(q, e) \in Seq(S) /\ Len(q) \in Nat
           /\ Len(Append(q, e)) = Len(q) + 1 /\ DOMAIN Append(q, e) = 1 .. Len(q) + 1
           /\ Append(q, e) # <<>> /\ Append(q, e)[Len(q) + 1] = e
           /\ \A k \in 1 .. Len(q) : Append(q, e)[k] = q[k]
OBVIOUS

Part == Int \X Int

\* Covers, of some parts and a last one.
LEMMA CoversIs ==
    ASSUME NEW q \in Seq(Part), NEW a \in Int, NEW b \in Int, NEW n \in Int
    PROVE  Covers(Append(q, <<a, b>>), n) <=>
              /\ b = n /\ a <= b
              /\ IF q = <<>> THEN a = 1
                 ELSE /\ q[1][1] = 1
                      /\ q[Len(q)][1] <= a /\ a <= q[Len(q)][2] + 1 /\ q[Len(q)][2] < b
              /\ \A i \in 1 .. Len(q) : q[i][1] <= q[i][2]
              /\ \A i \in 1 .. Len(q) - 1 : /\ q[i][1] <= q[i + 1][1]
                                            /\ q[i + 1][1] <= q[i][2] + 1
                                            /\ q[i][2] < q[i + 1][2]
<1>. DEFINE m == Len(q)
            p == Append(q, <<a, b>>)
<1>1. /\ m \in Nat /\ Len(p) = m + 1 /\ DOMAIN p = 1 .. m + 1 /\ p # <<>>
      /\ p[m + 1] = <<a, b>> /\ \A k \in 1 .. m : p[k] = q[k]
  <2>1. <<a, b>> \in Part
    BY DEF Part
  <2>. QED
    BY <2>1, Appended
<1>2. q = <<>> <=> m = 0
  OBVIOUS
<1>. HIDE DEF p, m
<1>3. p[Len(p)][2] = b /\ p[m + 1][1] = a /\ p[m + 1][2] = b
  BY <1>1
<1>4. (\A i \in DOMAIN p : p[i][1] <= p[i][2])
         <=> (a <= b /\ \A i \in 1 .. m : q[i][1] <= q[i][2])
  <2>1. \A i \in 1 .. m + 1 : i = m + 1 \/ i \in 1 .. m
    BY <1>1
  <2>2. m + 1 \in 1 .. m + 1 /\ \A i \in 1 .. m : i \in 1 .. m + 1
    BY <1>1
  <2>. QED
    BY <1>1, <1>3, <2>1, <2>2
<1>5. (\A i \in 1 .. Len(p) - 1 : /\ p[i][1] <= p[i + 1][1] /\ p[i + 1][1] <= p[i][2] + 1
                                  /\ p[i][2] < p[i + 1][2])
         <=> /\ m # 0 => /\ q[m][1] <= a /\ a <= q[m][2] + 1 /\ q[m][2] < b
             /\ \A i \in 1 .. m - 1 : /\ q[i][1] <= q[i + 1][1] /\ q[i + 1][1] <= q[i][2] + 1
                                      /\ q[i][2] < q[i + 1][2]
  <2>1. Len(p) - 1 = m /\ \A i \in 1 .. m : i = m \/ (i \in 1 .. m - 1 /\ i + 1 \in 1 .. m)
    BY <1>1
  <2>2. \A i \in 1 .. m - 1 : i \in 1 .. m /\ i + 1 \in 1 .. m
    BY <1>1
  <2>3. m # 0 => m \in 1 .. m /\ p[m] = q[m]
    BY <1>1
  <2>4. \A i \in 1 .. m - 1 : p[i] = q[i] /\ p[i + 1] = q[i + 1]
    BY <1>1, <2>2
  <2>. DEFINE R(u, v) == u[1] <= v[1] /\ v[1] <= u[2] + 1 /\ u[2] < v[2]
  <2>5. (\A i \in 1 .. m : R(p[i], p[i + 1]))
           <=> (m # 0 => R(q[m], p[m + 1])) /\ \A i \in 1 .. m - 1 : R(q[i], q[i + 1])
    <3>. HIDE DEF R
    <3>. QED
      BY <2>1, <2>2, <2>3, <2>4
  <2>. QED
    BY <1>3, <2>1, <2>5
<1>6. p[1][1] = IF m = 0 THEN a ELSE q[1][1]
  <2>1. m = 0 \/ 1 \in 1 .. m
    BY <1>1
  <2>. QED
    BY <1>1, <1>3, <2>1
<1>7. Covers(p, n) <=> /\ p[1][1] = 1 /\ b = n
                       /\ \A i \in DOMAIN p : p[i][1] <= p[i][2]
                       /\ \A i \in 1 .. Len(p) - 1 :
                             /\ p[i][1] <= p[i + 1][1] /\ p[i + 1][1] <= p[i][2] + 1
                             /\ p[i][2] < p[i + 1][2]
  BY <1>1, <1>3 DEF Covers
<1>. QED
  BY <1>2, <1>4, <1>5, <1>6, <1>7 DEF p, m

\* The last part goes on, or another one begins.
LEMMA CoversMore ==
    ASSUME NEW q \in Seq(Part), NEW a \in Int, NEW n \in Int, Covers(Append(q, <<a, n>>), n)
    PROVE  Covers(Append(q, <<a, n + 1>>), n + 1)
<1>1. q = <<>> \/ q[Len(q)] \in Part
  OBVIOUS
<1>2. q = <<>> \/ q[Len(q)][2] \in Int
  BY <1>1 DEF Part
<1>. QED
  BY <1>2, CoversIs

LEMMA CoversAnother ==
    ASSUME NEW q \in Seq(Part), NEW a \in Int, NEW n \in Int, NEW b \in a .. n + 1,
           Covers(Append(q, <<a, n>>), n)
    PROVE  Covers(Append(Append(q, <<a, n>>), <<b, n + 1>>), n + 1)
<1>. DEFINE p == Append(q, <<a, n>>)
<1>1. /\ p \in Seq(Part) /\ Len(p) \in Nat /\ Len(p) = Len(q) + 1 /\ p # <<>>
      /\ p[Len(p)] = <<a, n>> /\ DOMAIN p = 1 .. Len(p)
  <2>1. <<a, n>> \in Part
    BY DEF Part
  <2>. QED
    BY <2>1, Appended
<1>. HIDE DEF p
<1>2. /\ p[1][1] = 1 /\ \A i \in DOMAIN p : p[i][1] <= p[i][2]
      /\ \A i \in 1 .. Len(p) - 1 : /\ p[i][1] <= p[i + 1][1] /\ p[i + 1][1] <= p[i][2] + 1
                                    /\ p[i][2] < p[i + 1][2]
  BY DEF Covers, p
<1>3. p[Len(p)][1] = a /\ p[Len(p)][2] = n
  BY <1>1
<1>4. /\ p[Len(p)][1] <= b /\ b <= p[Len(p)][2] + 1 /\ p[Len(p)][2] < n + 1
      /\ b <= n + 1 /\ b \in Int /\ n + 1 \in Int
  BY <1>3
<1>5. Covers(Append(p, <<b, n + 1>>), n + 1)
  <2>1. PICK e : e = n + 1
    OBVIOUS
  <2>2. e \in Int /\ p[Len(p)][2] < e /\ b <= e
    BY <1>4, <2>1
  <2>3. \A i \in 1 .. Len(p) : p[i][1] <= p[i][2]
    BY <1>1, <1>2
  <2>4. Covers(Append(p, <<b, e>>), e)
    BY <1>1, <1>2, <1>4, <2>2, <2>3, CoversIs
  <2>. QED
    BY <2>1, <2>4
<1>. QED
  BY <1>5 DEF p

\* What OverlapIsLongestTail and BudgetIsSoft say of some parts.
Overlapped(s, p) == \A k \in 1 .. Len(p) - 1 : BeginsOverlap(s, p[k], p[k + 1][1])
SoftlyBounded(s, part) == \/ Counted(s, part[1], part[2] - 1) <= OverlapTokens
                          \/ Counted(s, part[1], part[2]) <= MaxTokens
AllBounded(s, p) == \A k \in 1 .. Len(p) : SoftlyBounded(s, p[k])

LEMMA PartsMore ==
    ASSUME NEW s, NEW q \in Seq(Part), NEW a \in Int, NEW n \in Int, NEW m \in Int,
           Overlapped(s, Append(q, <<a, n>>)), AllBounded(s, Append(q, <<a, n>>)),
           SoftlyBounded(s, <<a, m>>)
    PROVE  Overlapped(s, Append(q, <<a, m>>)) /\ AllBounded(s, Append(q, <<a, m>>))
<1>. DEFINE p == Append(q, <<a, n>>)
            r == Append(q, <<a, m>>)
            l == Len(q)
<1>1. <<a, n>> \in Part /\ <<a, m>> \in Part
  BY DEF Part
<1>2. /\ l \in Nat /\ Len(p) = l + 1 /\ p[l + 1] = <<a, n>>
      /\ \A k \in 1 .. l : p[k] = q[k]
  BY <1>1, Appended
<1>3. Len(r) = l + 1 /\ r[l + 1] = <<a, m>> /\ \A k \in 1 .. l : r[k] = q[k]
  BY <1>1, Appended
<1>. HIDE DEF p, r, l
<1>4. ASSUME NEW k \in 1 .. Len(r) - 1 PROVE BeginsOverlap(s, r[k], r[k + 1][1])
  <2>1. k \in 1 .. l /\ k \in 1 .. Len(p) - 1 /\ (k + 1 \in 1 .. l \/ k + 1 = l + 1)
    BY <1>2, <1>3
  <2>2. BeginsOverlap(s, p[k], p[k + 1][1])
    BY <2>1 DEF Overlapped, p
  <2>3. r[k] = p[k] /\ r[k + 1][1] = p[k + 1][1]
    BY <1>2, <1>3, <2>1
  <2>. QED
    BY <2>2, <2>3
<1>5. ASSUME NEW k \in 1 .. Len(r) PROVE SoftlyBounded(s, r[k])
  <2>1. CASE k = l + 1
    BY <1>3, <2>1
  <2>2. CASE k # l + 1
    <3>1. k \in 1 .. l /\ k \in 1 .. Len(p)
      BY <1>2, <1>3, <2>2
    <3>2. SoftlyBounded(s, p[k])
      BY <3>1 DEF AllBounded, p
    <3>. QED
      BY <1>2, <1>3, <3>1, <3>2
  <2>. QED
    BY <2>1, <2>2
<1>. QED
  BY <1>4, <1>5 DEF Overlapped, AllBounded, r

LEMMA PartsAnother ==
    ASSUME NEW s, NEW p \in Seq(Part), p # <<>>, NEW part \in Part, Overlapped(s, p),
           AllBounded(s, p), BeginsOverlap(s, p[Len(p)], part[1]), SoftlyBounded(s, part)
    PROVE  Overlapped(s, Append(p, part)) /\ AllBounded(s, Append(p, part))
<1>. DEFINE r == Append(p, part)
            l == Len(p)
<1>1. /\ l \in Nat /\ l # 0 /\ Len(r) = l + 1 /\ r[l + 1] = part
      /\ \A k \in 1 .. l : r[k] = p[k]
  BY Appended
<1>. HIDE DEF r
<1>2. ASSUME NEW k \in 1 .. Len(r) - 1 PROVE BeginsOverlap(s, r[k], r[k + 1][1])
  <2>1. k \in 1 .. l /\ (k = l \/ (k \in 1 .. l - 1 /\ k + 1 \in 1 .. l))
    BY <1>1
  <2>2. CASE k = l
    BY <1>1, <2>1, <2>2
  <2>3. CASE k \in 1 .. l - 1
    <3>1. BeginsOverlap(s, p[k], p[k + 1][1])
      BY <2>3 DEF Overlapped
    <3>2. r[k] = p[k] /\ r[k + 1] = p[k + 1]
      BY <1>1, <2>1, <2>3
    <3>. QED
      BY <3>1, <3>2
  <2>. QED
    BY <2>1, <2>2, <2>3
<1>3. ASSUME NEW k \in 1 .. Len(r) PROVE SoftlyBounded(s, r[k])
  <2>1. k = l + 1 \/ k \in 1 .. l
    BY <1>1
  <2>. QED
    BY <1>1, <2>1 DEF AllBounded
<1>. QED
  BY <1>2, <1>3 DEF Overlapped, AllBounded, r

\* What the splitter has after paragraph i: the chunks that are done and the
\* current one are what they should be of paragraphs 1..i.
SplitInv(s, i, c) ==
    /\ c \in [done : Seq(Part), from : Int, tokens : Int]
    /\ c.from \in 1 .. i /\ c.tokens = Counted(s, c.from, i)
    /\ Covers(Append(c.done, <<c.from, i>>), i)
    /\ Overlapped(s, Append(c.done, <<c.from, i>>))
    /\ AllBounded(s, Append(c.done, <<c.from, i>>))

LEMMA SplitStarts ==
    ASSUME NEW s \in Seq(Nat), Len(s) >= 1
    PROVE  SplitInv(s, 1, AddParagraph(s, [done |-> <<>>, from |-> 1, tokens |-> 0], 1))
<1>. DEFINE c == [done |-> <<>>, from |-> 1, tokens |-> ApproxTokens(s[1])]
<1>1. 1 \in 1 .. Len(s) /\ Len(s) \in Nat /\ ApproxTokens(s[1]) \in Nat
  BY TokenSums
<1>2. AddParagraph(s, [done |-> <<>>, from |-> 1, tokens |-> 0], 1) = c
  BY <1>1 DEF AddParagraph
<1>3. Counted(s, 1, 0) = 0 /\ Counted(s, 1, 1) = Counted(s, 1, 0) + ApproxTokens(s[1])
  <2>1. 1 \in 1 .. Len(s) + 1 /\ 0 \in 0 .. Len(s) /\ 1 \in 0 .. Len(s) /\ 0 = 1 - 1
    BY <1>1
  <2>. QED
    BY <2>1, CountedIs
<1>4. c \in [done : Seq(Part), from : Int, tokens : Int]
  BY <1>1
<1>5. Append(c.done, <<c.from, 1>>) = << <<1, 1>> >>
  OBVIOUS
<1>6. Covers(<< <<1, 1>> >>, 1)
  BY DEF Covers
<1>7. Overlapped(s, << <<1, 1>> >>)
  BY DEF Overlapped
<1>8. AllBounded(s, << <<1, 1>> >>)
  BY <1>3, TextAssumption DEF AllBounded, SoftlyBounded
<1>9. c.from \in 1 .. 1 /\ c.tokens = Counted(s, c.from, 1)
  BY <1>1, <1>3
<1>10. SplitInv(s, 1, c)
  <2>. HIDE DEF c
  <2>. QED
    BY <1>4, <1>5, <1>6, <1>7, <1>8, <1>9 DEF SplitInv
<1>. QED
  BY <1>2, <1>10

LEMMA SplitStep ==
    ASSUME NEW s \in Seq(Nat), NEW i \in 2 .. Len(s), NEW c, SplitInv(s, i - 1, c)
    PROVE  SplitInv(s, i, AddParagraph(s, c, i))
<1>. DEFINE n == i - 1
            t == ApproxTokens(s[i])
            p == Append(c.done, <<c.from, n>>)
<1>1. /\ Len(s) \in Nat /\ n \in 1 .. Len(s) /\ i = n + 1 /\ n \in Int /\ i \in 1 .. Len(s)
      /\ i \in 0 .. Len(s) /\ i >= 1
  OBVIOUS
<1>2. /\ c \in [done : Seq(Part), from : Int, tokens : Int]
      /\ c.from \in 1 .. n /\ c.tokens = Counted(s, c.from, n)
      /\ Covers(p, n) /\ Overlapped(s, p) /\ AllBounded(s, p)
  BY DEF SplitInv
<1>3. t \in Nat /\ \A a \in 1 .. i : /\ Counted(s, a, i) = Counted(s, a, n) + t
                                     /\ Counted(s, a, i) \in Int
  <2>1. t \in Nat
    BY <1>1, TokenSums
  <2>2. \A a \in 1 .. i : a \in 1 .. Len(s) + 1
    BY <1>1
  <2>. QED
    BY <1>1, <2>1, <2>2, CountedIs
<1>. HIDE DEF n, t
<1>4. CASE c.tokens + t > MaxTokens /\ c.from < i
  <2>. DEFINE o == OverlapOf(s, c.from, n)
              from == o.from
              d == [done |-> p, from |-> from, tokens |-> o.tokens + t]
  <2>1. /\ from \in c.from .. n + 1 /\ o.tokens = Counted(s, from, n)
        /\ Counted(s, from, n) <= OverlapTokens
        /\ \A k \in c.from .. n + 1 : Counted(s, k, n) <= OverlapTokens => from <= k
    BY <1>1, <1>2, OverlapIs
  <2>2. AddParagraph(s, c, i) = d
    BY <1>1, <1>4 DEF AddParagraph, n, t
  <2>. HIDE DEF o, from
  <2>3. /\ p \in Seq(Part) /\ p # <<>> /\ p[Len(p)] = <<c.from, n>>
        /\ <<c.from, n>> \in Part /\ <<from, i>> \in Part
    <3>1. <<c.from, n>> \in Part /\ <<from, i>> \in Part
      BY <1>1, <1>2, <2>1 DEF Part
    <3>2. c.done \in Seq(Part)
      BY <1>2
    <3>3. PICK e \in Part : e = <<c.from, n>>
      BY <3>1
    <3>4. PICK q \in Seq(Part) : q = c.done
      BY <3>2
    <3>5. Append(q, e) \in Seq(Part) /\ Append(q, e) # <<>> /\ Append(q, e)[Len(Append(q, e))] = e
      BY Appended
    <3>. QED
      BY <3>1, <3>3, <3>4, <3>5
  <2>4. Covers(Append(p, <<from, i>>), i)
    BY <1>1, <1>2, <2>1, CoversAnother
  <2>5. SoftlyBounded(s, <<from, i>>)
    BY <1>1, <2>1 DEF SoftlyBounded, n
  <2>6. BeginsOverlap(s, <<c.from, n>>, from)
    BY <2>1 DEF BeginsOverlap
  <2>7. Overlapped(s, Append(p, <<from, i>>)) /\ AllBounded(s, Append(p, <<from, i>>))
    <3>1. PICK part \in Part : part = <<from, i>> /\ part[1] = from
      BY <2>3
    <3>. HIDE DEF p
    <3>2. Overlapped(s, Append(p, part)) /\ AllBounded(s, Append(p, part))
      BY <1>2, <2>3, <2>5, <2>6, <3>1, PartsAnother
    <3>. QED
      BY <3>1, <3>2
  <2>8. o.tokens + t = Counted(s, from, i) /\ from \in 1 .. i /\ Counted(s, from, i) \in Int
    BY <1>1, <1>2, <1>3, <2>1
  <2>. HIDE DEF p
  <2>9. /\ d.done = p /\ d.from = from /\ d.tokens = o.tokens + t
        /\ d \in [done : Seq(Part), from : Int, tokens : Int]
    BY <1>1, <2>1, <2>3, <2>8
  <2>10. SplitInv(s, i, d)
    <3>. HIDE DEF d
    <3>. QED
      BY <2>4, <2>7, <2>8, <2>9 DEF SplitInv
  <2>. QED
    BY <2>2, <2>10
<1>5. CASE ~(c.tokens + t > MaxTokens /\ c.from < i)
  <2>. DEFINE d == [c EXCEPT !.tokens = @ + t]
  <2>1. AddParagraph(s, c, i) = d
    BY <1>5 DEF AddParagraph, t
  <2>2. /\ c.tokens + t = Counted(s, c.from, i) /\ c.from \in 1 .. i
        /\ Counted(s, c.from, i) \in Int /\ Counted(s, c.from, i) <= MaxTokens
    <3>1. c.from \in 1 .. i /\ c.from < i
      BY <1>1, <1>2
    <3>2. c.tokens + t = Counted(s, c.from, i) /\ Counted(s, c.from, i) \in Int
      BY <1>2, <1>3, <3>1
    <3>3. c.tokens + t <= MaxTokens
      BY <1>5, <3>1, <3>2, TextAssumption
    <3>. QED
      BY <3>1, <3>2, <3>3
  <2>3. /\ d.done = c.done /\ d.from = c.from /\ d.tokens = c.tokens + t
        /\ d \in [done : Seq(Part), from : Int, tokens : Int]
    BY <1>2, <2>2
  <2>. HIDE DEF d
  <2>4. Covers(Append(c.done, <<c.from, i>>), i)
    BY <1>1, <1>2, CoversMore
  <2>5. SoftlyBounded(s, <<c.from, i>>)
    BY <2>2 DEF SoftlyBounded
  <2>6. /\ Overlapped(s, Append(c.done, <<c.from, i>>))
        /\ AllBounded(s, Append(c.done, <<c.from, i>>))
    BY <1>1, <1>2, <2>5, PartsMore
  <2>7. SplitInv(s, i, d)
    BY <2>2, <2>3, <2>4, <2>6 DEF SplitInv
  <2>. QED
    BY <2>1, <2>7
<1>. QED
  BY <1>4, <1>5

\* What the splitter ends with.
LEMMA SplitIs ==
    ASSUME NEW s \in Seq(Nat), Len(s) >= 1
    PROVE  /\ SplitByParagraphs(s) \in Seq(Part) /\ Covers(SplitByParagraphs(s), Len(s))
           /\ Overlapped(s, SplitByParagraphs(s)) /\ AllBounded(s, SplitByParagraphs(s))
<1>1. Len(s) \in Nat
  OBVIOUS
<1>2. PICK f : /\ f[0] = [done |-> <<>>, from |-> 1, tokens |-> 0]
               /\ \A i \in 1 .. Len(s) : f[i] = AddParagraph(s, f[i - 1], i)
               /\ SplitByParagraphs(s) = Append(f[Len(s)].done, <<f[Len(s)].from, Len(s)>>)
  BY <1>1, SplitLoop
<1>. DEFINE T == {i \in 0 .. Len(s) : i >= 1 => SplitInv(s, i, f[i])}
<1>3. 0 \in T
  BY <1>1
<1>4. ASSUME NEW i \in 1 .. Len(s), i - 1 \in T PROVE i \in T
  <2>1. CASE i = 1
    <3>1. f[1] = AddParagraph(s, [done |-> <<>>, from |-> 1, tokens |-> 0], 1)
      BY <1>2, <2>1
    <3>2. SplitInv(s, 1, f[1])
      BY <3>1, SplitStarts
    <3>. QED
      BY <1>1, <2>1, <3>2
  <2>2. CASE i # 1
    <3>1. i \in 2 .. Len(s) /\ SplitInv(s, i - 1, f[i - 1])
      BY <1>1, <1>4, <2>2
    <3>2. SplitInv(s, i, f[i])
      BY <1>2, <3>1, SplitStep
    <3>. QED
      BY <1>1, <3>2
  <2>. QED
    BY <2>1, <2>2
<1>5. \A i \in 0 .. Len(s) : i \in T
  <2>. HIDE DEF T
  <2>. QED
    BY <1>1, <1>3, <1>4, Inductively
<1>6. PICK c : c = f[Len(s)]
  OBVIOUS
<1>7. SplitInv(s, Len(s), c)
  BY <1>1, <1>5, <1>6
<1>8. <<c.from, Len(s)>> \in Part /\ c.done \in Seq(Part)
  BY <1>1, <1>7 DEF SplitInv, Part
<1>9. Append(c.done, <<c.from, Len(s)>>) \in Seq(Part)
  BY <1>8
<1>. QED
  BY <1>2, <1>6, <1>7, <1>9 DEF SplitInv

\* The parts are within what they cover.
LEMMA CoversWithin ==
    ASSUME NEW c \in Seq(Part), NEW n \in Int, Covers(c, n), NEW i \in DOMAIN c
    PROVE  c[i][1] \in 1 .. c[i][2] /\ c[i][2] \in c[i][1] .. n
<1>. DEFINE m == Len(c) - 1
            f == [k \in 0 .. m |-> c[k + 1][1]]
            g == [k \in 0 .. m |-> c[k + 1][2]]
<1>1. /\ m \in Nat /\ i \in 1 .. m + 1 /\ Len(c) = m + 1
      /\ \A k \in 1 .. m + 1 : c[k] \in Part
  BY DEF Covers
<1>2. /\ c[1][1] = 1 /\ c[m + 1][2] = n /\ c[i][1] <= c[i][2]
      /\ \A k \in 1 .. m : c[k][1] <= c[k + 1][1] /\ c[k][2] < c[k + 1][2]
  BY <1>1 DEF Covers
<1>3. \A k \in 1 .. m + 1 : c[k][1] \in Int /\ c[k][2] \in Int
  BY <1>1 DEF Part
<1>. HIDE DEF m
<1>4. \A k \in 0 .. m : f[k] \in Int /\ g[k] \in Int
  BY <1>1, <1>3
<1>5. \A k \in 1 .. m : f[k - 1] <= f[k] /\ g[k - 1] <= g[k]
  <2>. SUFFICES ASSUME NEW k \in 1 .. m PROVE f[k - 1] <= f[k] /\ g[k - 1] <= g[k]
    OBVIOUS
  <2>1. /\ k - 1 \in 0 .. m /\ k \in 0 .. m /\ (k - 1) + 1 = k
        /\ k \in 1 .. m + 1 /\ k + 1 \in 1 .. m + 1
    BY <1>1
  <2>2. f[k - 1] = c[k][1] /\ g[k - 1] = c[k][2] /\ f[k] = c[k + 1][1] /\ g[k] = c[k + 1][2]
    BY <2>1
  <2>3. c[k][1] <= c[k + 1][1] /\ c[k][2] < c[k + 1][2] /\ c[k][2] \in Int /\ c[k + 1][2] \in Int
    BY <1>2, <1>3, <2>1
  <2>. QED
    BY <2>2, <2>3
<1>6. i - 1 \in 0 .. m /\ 0 \in 0 .. m /\ m \in 0 .. m /\ 0 <= i - 1 /\ i - 1 <= m
  BY <1>1
<1>7. f[0] = c[1][1] /\ g[m] = c[m + 1][2] /\ f[i - 1] = c[i][1] /\ g[i - 1] = c[i][2]
  BY <1>1, <1>6
<1>. HIDE DEF f, g
<1>8. f[0] <= f[i - 1]
  BY <1>1, <1>4, <1>5, <1>6, Grows
<1>9. g[i - 1] <= g[m]
  BY <1>1, <1>4, <1>5, <1>6, Grows
<1>. QED
  BY <1>1, <1>2, <1>3, <1>7, <1>8, <1>9

\* Characters and tokens of some joined paragraphs: a token counted for a
\* paragraph stands for at most 9 characters with the blank line.
LEMMA JoinedIs ==
    ASSUME NEW s \in Seq(Nat), NEW b \in 1 .. Len(s), NEW a \in 1 .. b
    PROVE  /\ Joined(s, a, b) \in Int /\ Counted(s, a, b) \in Int
           /\ Joined(s, a, b) + 2 <= 9 * Counted(s, a, b)
<1>. DEFINE t == Sums(Tokens(s))
            u == Sums(s)
            g == [i \in 0 .. Len(s) |-> 9 * t[i] - u[i] - 2 * i]
<1>1. /\ Len(s) \in Nat /\ \A i \in 0 .. Len(s) : t[i] \in Nat
      /\ \A i \in 1 .. Len(s) : /\ s[i] \in Nat /\ ApproxTokens(s[i]) \in Nat
                                /\ i - 1 \in 0 .. Len(s) /\ t[i] = t[i - 1] + ApproxTokens(s[i])
  BY TokenSums
<1>2. /\ \A i \in 1 .. Len(s) : u[i] = u[i - 1] + s[i]
      /\ \A i \in 0 .. Len(s) : u[i] \in Nat
  BY SumsAre
<1>3. Joined(s, a, b) = u[b] - u[a - 1] + 2 * (b - a) /\ Counted(s, a, b) = t[b] - t[a - 1]
  BY DEF Joined, Counted
<1>. HIDE DEF t, u
<1>4. \A i \in 0 .. Len(s) : g[i] \in Int
  <2>. SUFFICES ASSUME NEW i \in 0 .. Len(s) PROVE g[i] \in Int
    OBVIOUS
  <2>1. t[i] \in Nat /\ u[i] \in Nat /\ i \in Int /\ g[i] = 9 * t[i] - u[i] - 2 * i
    BY <1>1, <1>2
  <2>. QED
    BY <2>1
<1>5. \A i \in 1 .. Len(s) : g[i - 1] <= g[i]
  <2>. SUFFICES ASSUME NEW i \in 1 .. Len(s) PROVE g[i - 1] <= g[i]
    OBVIOUS
  <2>1. i - 1 \in 0 .. Len(s) /\ i \in 0 .. Len(s) /\ s[i] \in Nat /\ ApproxTokens(s[i]) \in Nat
    BY <1>1
  <2>2. s[i] + 2 <= 9 * ApproxTokens(s[i])
    BY <2>1, Approx
  <2>3. /\ t[i] = t[i - 1] + ApproxTokens(s[i]) /\ u[i] = u[i - 1] + s[i]
        /\ t[i - 1] \in Nat /\ u[i - 1] \in Nat
    BY <1>1, <1>2, <2>1
  <2>4. g[i] = 9 * t[i] - u[i] - 2 * i /\ g[i - 1] = 9 * t[i - 1] - u[i - 1] - 2 * (i - 1)
    BY <2>1
  <2>5. PICK p \in Nat, q \in Nat, x \in Nat, y \in Nat :
                p = t[i - 1] /\ q = u[i - 1] /\ x = ApproxTokens(s[i]) /\ y = s[i]
    BY <2>1, <2>3
  <2>. HIDE DEF g
  <2>6. g[i] = 9 * (p + x) - (q + y) - 2 * i /\ g[i - 1] = 9 * p - q - 2 * (i - 1)
    BY <2>3, <2>4, <2>5
  <2>7. y + 2 <= 9 * x
    BY <2>2, <2>5
  <2>. QED
    BY <2>6, <2>7
<1>6. a - 1 \in 0 .. Len(s) /\ b \in 0 .. Len(s) /\ a - 1 <= b /\ a \in Int /\ b \in Int
  BY <1>1
<1>7. g[a - 1] = 9 * t[a - 1] - u[a - 1] - 2 * (a - 1) /\ g[b] = 9 * t[b] - u[b] - 2 * b
  BY <1>6
<1>. HIDE DEF g
<1>8. g[a - 1] <= g[b]
  BY <1>1, <1>4, <1>5, <1>6, Grows
<1>9. t[a - 1] \in Nat /\ u[a - 1] \in Nat /\ t[b] \in Nat /\ u[b] \in Nat
  BY <1>1, <1>2, <1>6
<1>10. PICK p \in Nat, q \in Nat, x \in Nat, y \in Nat :
                p = t[a - 1] /\ q = u[a - 1] /\ x = t[b] /\ y = u[b]
  BY <1>9
<1>11. 9 * p - q - 2 * (a - 1) <= 9 * x - y - 2 * b
  BY <1>7, <1>8, <1>10
<1>12. Joined(s, a, b) = y - q + 2 * (b - a) /\ Counted(s, a, b) = x - p
  BY <1>3, <1>10
<1>. HIDE DEF t, u, g
<1>. QED
  BY <1>6, <1>11, <1>12

LEMMA SoftBudget ==
    ASSUME NEW j \in Int, NEW k \in Int, j + 2 <= 9 * k, k <= MaxTokens
    PROVE  4 * ApproxTokens(j) <= 9 * MaxTokens
<1>1. MaxTokens \in Nat /\ MaxTokens >= 1
  BY TextAssumption
<1>2. CASE j < 4
  BY <1>1, <1>2 DEF ApproxTokens
<1>3. CASE j >= 4
  <2>1. j \in Nat
    BY <1>3
  <2>2. 4 * ApproxTokens(j) <= j /\ ApproxTokens(j) \in Nat
    BY <1>3, <2>1, Approx
  <2>. QED
    BY <1>1, <2>1, <2>2
<1>. QED
  BY <1>2, <1>3

\* _split_by_paragraphs loses no paragraph of a section and keeps their
\* order: every chunk goes on where the one before ended, or repeats some of
\* its end, and goes further.
THEOREM NoneLost == NoParagraphLost
<1>. SUFFICES ASSUME NEW s \in Sections PROVE Covers(Chunks(s), Len(s))
  BY DEF NoParagraphLost
<1>1. s \in Seq(Nat) /\ Len(s) \in Nat /\ Len(s) >= 1
  BY TextType
<1>2. CASE ApproxTokens(Joined(s, 1, Len(s))) <= MaxTokens
  <2>1. Chunks(s) = << <<1, Len(s)>> >>
    BY <1>2 DEF Chunks
  <2>2. PICK n \in Nat : n = Len(s) /\ n >= 1
    BY <1>1
  <2>3. Covers(<< <<1, n>> >>, n)
    BY <2>2 DEF Covers
  <2>. QED
    BY <2>1, <2>2, <2>3
<1>3. CASE ~(ApproxTokens(Joined(s, 1, Len(s))) <= MaxTokens)
  BY <1>1, <1>3, SplitIs DEF Chunks
<1>. QED
  BY <1>2, <1>3

\* The backward loop over current_parts in _split_by_paragraphs: the next
\* chunk begins with the longest tail of the one before that is within
\* OVERLAP_TOKENS, which may be none of it.
THEOREM OverlapLongest == OverlapIsLongestTail
<1>. SUFFICES ASSUME NEW s \in Sections, NEW i \in 1 .. Len(Chunks(s)) - 1
              PROVE  BeginsOverlap(s, Chunks(s)[i], Chunks(s)[i + 1][1])
  BY DEF OverlapIsLongestTail
<1>1. s \in Seq(Nat) /\ Len(s) \in Nat /\ Len(s) >= 1
  BY TextType
<1>2. ~(ApproxTokens(Joined(s, 1, Len(s))) <= MaxTokens)
  <2>. SUFFICES ASSUME ApproxTokens(Joined(s, 1, Len(s))) <= MaxTokens PROVE FALSE
    OBVIOUS
  <2>1. Chunks(s) = << <<1, Len(s)>> >>
    BY DEF Chunks
  <2>2. Len(Chunks(s)) = 1
    BY <2>1
  <2>. QED
    BY <2>2
<1>3. Chunks(s) = SplitByParagraphs(s)
  BY <1>2 DEF Chunks
<1>. QED
  BY <1>1, <1>3, SplitIs DEF Overlapped

\* CHUNK_MAX_TOKENS bounds what _split_by_paragraphs counts, a paragraph after
\* an overlap apart, and through it the text of a chunk: 9/4 of the budget.
THEOREM BudgetSoft == BudgetIsSoft
<1>. DEFINE Bounded(s, a, b) ==
                \/ Counted(s, a, b - 1) <= OverlapTokens
                \/ /\ Counted(s, a, b) <= MaxTokens \/ <<a, b>> = <<1, Len(s)>>
                   /\ 4 * ApproxTokens(Joined(s, a, b)) <= 9 * MaxTokens
<1>. SUFFICES ASSUME NEW s \in Sections, NEW i \in DOMAIN Chunks(s)
              PROVE  Bounded(s, Chunks(s)[i][1], Chunks(s)[i][2])
  BY DEF BudgetIsSoft
<1>1. s \in Seq(Nat) /\ Len(s) \in Nat /\ Len(s) >= 1
  BY TextType
<1>2. CASE ApproxTokens(Joined(s, 1, Len(s))) <= MaxTokens
  <2>1. Chunks(s) = << <<1, Len(s)>> >>
    BY <1>2 DEF Chunks
  <2>2. i = 1 /\ Chunks(s)[i][1] = 1 /\ Chunks(s)[i][2] = Len(s)
    BY <2>1
  <2>3. PICK k : k = ApproxTokens(Joined(s, 1, Len(s)))
    OBVIOUS
  <2>4. k \in Int /\ k <= MaxTokens /\ MaxTokens \in Nat
    <3>1. 1 \in 1 .. Len(s) /\ Len(s) \in 1 .. Len(s)
      BY <1>1
    <3>2. Joined(s, 1, Len(s)) \in Int
      BY <1>1, <3>1, JoinedIs
    <3>. QED
      BY <1>2, <2>3, <3>2, TextAssumption DEF ApproxTokens
  <2>5. 4 * k <= 9 * MaxTokens
    BY <2>4
  <2>6. Bounded(s, 1, Len(s))
    BY <2>3, <2>5
  <2>. HIDE DEF Bounded
  <2>. QED
    BY <2>2, <2>6
<1>3. CASE ~(ApproxTokens(Joined(s, 1, Len(s))) <= MaxTokens)
  <2>. DEFINE c == SplitByParagraphs(s)
  <2>1. Chunks(s) = c
    BY <1>3 DEF Chunks
  <2>2. c \in Seq(Part) /\ Covers(c, Len(s)) /\ AllBounded(s, c)
    BY <1>1, SplitIs
  <2>. HIDE DEF c
  <2>3. PICK a, b : a = c[i][1] /\ b = c[i][2]
    OBVIOUS
  <2>4. a \in 1 .. b /\ b \in 1 .. Len(s)
    <3>1. i \in DOMAIN c
      BY <2>1
    <3>2. c[i][1] \in 1 .. c[i][2] /\ c[i][2] \in c[i][1] .. Len(s)
      BY <1>1, <2>2, <3>1, CoversWithin
    <3>3. c[i][1] \in Int /\ c[i][2] \in Int
      BY <3>2, <2>2, <3>1 DEF Part
    <3>. QED
      BY <1>1, <2>3, <3>2, <3>3
  <2>5. \/ Counted(s, a, b - 1) <= OverlapTokens
        \/ Counted(s, a, b) <= MaxTokens
    BY <2>1, <2>2, <2>3 DEF AllBounded, SoftlyBounded
  <2>6. ASSUME Counted(s, a, b) <= MaxTokens
        PROVE  4 * ApproxTokens(Joined(s, a, b)) <= 9 * MaxTokens
    <3>1. /\ Joined(s, a, b) \in Int /\ Counted(s, a, b) \in Int
          /\ Joined(s, a, b) + 2 <= 9 * Counted(s, a, b)
      BY <1>1, <2>4, JoinedIs
    <3>. QED
      BY <2>6, <3>1, SoftBudget
  <2>. QED
    BY <2>1, <2>3, <2>5, <2>6
<1>. QED
  BY <1>2, <1>3

(***************************************************************************)
(* The passes of a text                                                    *)
(***************************************************************************)
LEMMA JoinedMore ==
    ASSUME NEW s \in Seq(Nat), NEW i \in 1 .. Len(s), NEW a \in 1 .. i
    PROVE  /\ s[i] \in Nat /\ Joined(s, a, i) \in Int /\ Joined(s, i, i) = s[i]
           /\ a < i => Joined(s, a, i) = Joined(s, a, i - 1) + 2 + s[i]
<1>. DEFINE u == Sums(s)
<1>1. /\ Len(s) \in Nat /\ s[i] \in Nat /\ i - 1 \in 0 .. Len(s) /\ i \in 0 .. Len(s)
      /\ a - 1 \in 0 .. Len(s) /\ a \in Int
  OBVIOUS
<1>2. /\ u[i] = u[i - 1] + s[i] /\ u[i] \in Nat /\ u[i - 1] \in Nat /\ u[a - 1] \in Nat
  BY <1>1, SumsAre
<1>3. Joined(s, a, i) = u[i] - u[a - 1] + 2 * (i - a)
  BY DEF Joined
<1>4. Joined(s, i, i) = u[i] - u[i - 1] + 2 * (i - i)
  BY DEF Joined
<1>5. Joined(s, a, i - 1) = u[i - 1] - u[a - 1] + 2 * ((i - 1) - a)
  BY DEF Joined
<1>. HIDE DEF u
<1>6. PICK p \in Nat, q \in Nat, r \in Nat, x \in Nat :
               p = u[a - 1] /\ q = u[i - 1] /\ r = u[i] /\ x = s[i] /\ r = q + x
  BY <1>1, <1>2
<1>7. Joined(s, a, i) = r - p + 2 * (i - a)
  BY <1>3, <1>6
<1>8. Joined(s, i, i) = r - q + 2 * (i - i)
  BY <1>4, <1>6
<1>9. Joined(s, a, i - 1) = q - p + 2 * ((i - 1) - a)
  BY <1>5, <1>6
<1>10. Joined(s, i, i) = x
  BY <1>6, <1>8
<1>11. /\ Joined(s, a, i) \in Int
       /\ Joined(s, a, i) = Joined(s, a, i - 1) + 2 + x
  <2>1. PICK w \in Int : w = i - a
    BY <1>1
  <2>2. i - 1 - a = w - 1 /\ r = q + x
    BY <1>1, <1>6, <2>1
  <2>3. Joined(s, a, i) = q + x - p + 2 * w
    BY <1>7, <2>1, <2>2
  <2>4. Joined(s, a, i - 1) = q - p + 2 * (w - 1)
    BY <1>9, <2>2
  <2>5. q + x - p + 2 * w = q - p + 2 * (w - 1) + 2 + x /\ q + x - p + 2 * w \in Int
    OBVIOUS
  <2>. QED
    BY <2>3, <2>4, <2>5
<1>12. s[i] = x
  BY <1>6
<1>13. Joined(s, i, i) = s[i]
  BY <1>10, <1>12
<1>14. Joined(s, a, i) = Joined(s, a, i - 1) + 2 + s[i]
  BY <1>11, <1>12
<1>. QED
  BY <1>1, <1>11, <1>13, <1>14

\* What PassesPartition says of some parts.
WithinPass(s, part) == part[1] = part[2] \/ Joined(s, part[1], part[2]) <= MaxChars
Cuts(s, p) == /\ \A k \in 1 .. Len(p) - 1 : p[k + 1][1] = p[k][2] + 1
              /\ \A k \in 1 .. Len(p) : WithinPass(s, p[k])

LEMMA CutsMore ==
    ASSUME NEW s, NEW q \in Seq(Part), NEW a \in Int, NEW n \in Int, NEW m \in Int,
           Cuts(s, Append(q, <<a, n>>)), WithinPass(s, <<a, m>>)
    PROVE  Cuts(s, Append(q, <<a, m>>))
<1>. DEFINE p == Append(q, <<a, n>>)
            r == Append(q, <<a, m>>)
            l == Len(q)
<1>1. <<a, n>> \in Part /\ <<a, m>> \in Part
  BY DEF Part
<1>2. /\ l \in Nat /\ Len(p) = l + 1 /\ p[l + 1] = <<a, n>>
      /\ \A k \in 1 .. l : p[k] = q[k]
  BY <1>1, Appended
<1>3. Len(r) = l + 1 /\ r[l + 1] = <<a, m>> /\ \A k \in 1 .. l : r[k] = q[k]
  BY <1>1, Appended
<1>. HIDE DEF p, r, l
<1>4. ASSUME NEW k \in 1 .. Len(r) - 1 PROVE r[k + 1][1] = r[k][2] + 1
  <2>1. k \in 1 .. l /\ k \in 1 .. Len(p) - 1 /\ (k + 1 \in 1 .. l \/ k + 1 = l + 1)
    BY <1>2, <1>3
  <2>2. p[k + 1][1] = p[k][2] + 1
    BY <2>1 DEF Cuts, p
  <2>3. r[k] = p[k] /\ r[k + 1][1] = p[k + 1][1]
    BY <1>2, <1>3, <2>1
  <2>. QED
    BY <2>2, <2>3
<1>5. ASSUME NEW k \in 1 .. Len(r) PROVE WithinPass(s, r[k])
  <2>1. CASE k = l + 1
    BY <1>3, <2>1
  <2>2. CASE k # l + 1
    <3>1. k \in 1 .. l /\ k \in 1 .. Len(p)
      BY <1>2, <1>3, <2>2
    <3>2. WithinPass(s, p[k])
      BY <3>1 DEF Cuts, p
    <3>. QED
      BY <1>2, <1>3, <3>1, <3>2
  <2>. QED
    BY <2>1, <2>2
<1>. QED
  BY <1>4, <1>5 DEF Cuts, r

LEMMA CutsAnother ==
    ASSUME NEW s, NEW p \in Seq(Part), p # <<>>, NEW part \in Part, Cuts(s, p),
           part[1] = p[Len(p)][2] + 1, WithinPass(s, part)
    PROVE  Cuts(s, Append(p, part))
<1>. DEFINE r == Append(p, part)
            l == Len(p)
<1>1. /\ l \in Nat /\ l # 0 /\ Len(r) = l + 1 /\ r[l + 1] = part
      /\ \A k \in 1 .. l : r[k] = p[k]
  BY Appended
<1>. HIDE DEF r
<1>2. ASSUME NEW k \in 1 .. Len(r) - 1 PROVE r[k + 1][1] = r[k][2] + 1
  <2>1. k \in 1 .. l /\ (k = l \/ (k \in 1 .. l - 1 /\ k + 1 \in 1 .. l))
    BY <1>1
  <2>2. CASE k = l
    BY <1>1, <2>1, <2>2
  <2>3. CASE k \in 1 .. l - 1
    BY <1>1, <2>1, <2>3 DEF Cuts
  <2>. QED
    BY <2>1, <2>2, <2>3
<1>3. ASSUME NEW k \in 1 .. Len(r) PROVE WithinPass(s, r[k])
  <2>1. k = l + 1 \/ k \in 1 .. l
    BY <1>1
  <2>. QED
    BY <1>1, <2>1 DEF Cuts
<1>. QED
  BY <1>2, <1>3 DEF Cuts, r

\* What _split_into_chunks has after paragraph i.
PassInv(s, i, c) ==
    /\ c \in [done : Seq(Part), from : Int, chars : Int]
    /\ c.from \in 1 .. i /\ c.chars = Joined(s, c.from, i) + 2
    /\ Covers(Append(c.done, <<c.from, i>>), i)
    /\ Cuts(s, Append(c.done, <<c.from, i>>))

LEMMA PassStarts ==
    ASSUME NEW s \in Seq(Nat), Len(s) >= 1
    PROVE  PassInv(s, 1, AddToPass(s, [done |-> <<>>, from |-> 1, chars |-> 0], 1))
<1>. DEFINE c == [done |-> <<>>, from |-> 1, chars |-> 0 + s[1] + 2]
<1>1. 1 \in 1 .. Len(s) /\ 1 \in 1 .. 1 /\ s[1] \in Nat
  OBVIOUS
<1>2. AddToPass(s, [done |-> <<>>, from |-> 1, chars |-> 0], 1) = c
  BY DEF AddToPass
<1>3. Joined(s, 1, 1) = s[1]
  BY <1>1, JoinedMore
<1>4. c \in [done : Seq(Part), from : Int, chars : Int]
  BY <1>1
<1>5. Append(c.done, <<c.from, 1>>) = << <<1, 1>> >>
  OBVIOUS
<1>6. Covers(<< <<1, 1>> >>, 1)
  BY DEF Covers
<1>7. Cuts(s, << <<1, 1>> >>)
  BY DEF Cuts, WithinPass
<1>8. c.from \in 1 .. 1 /\ c.chars = Joined(s, c.from, 1) + 2
  BY <1>1, <1>3
<1>9. PassInv(s, 1, c)
  <2>. HIDE DEF c
  <2>. QED
    BY <1>4, <1>5, <1>6, <1>7, <1>8 DEF PassInv
<1>. QED
  BY <1>2, <1>9

LEMMA PassStep ==
    ASSUME NEW s \in Seq(Nat), NEW i \in 2 .. Len(s), NEW c, PassInv(s, i - 1, c)
    PROVE  PassInv(s, i, AddToPass(s, c, i))
<1>. DEFINE n == i - 1
            p == Append(c.done, <<c.from, n>>)
<1>1. /\ Len(s) \in Nat /\ n \in 1 .. Len(s) /\ i = n + 1 /\ n \in Int /\ i \in 1 .. Len(s)
      /\ i \in Int /\ i \in 1 .. i
  OBVIOUS
<1>2. /\ c \in [done : Seq(Part), from : Int, chars : Int]
      /\ c.from \in 1 .. n /\ c.chars = Joined(s, c.from, n) + 2
      /\ Covers(p, n) /\ Cuts(s, p)
  BY DEF PassInv
<1>3. c.from \in 1 .. i /\ c.from < i
  BY <1>1, <1>2
<1>4. /\ s[i] \in Nat /\ Joined(s, i, i) = s[i] /\ Joined(s, c.from, i) \in Int
      /\ Joined(s, c.from, i) = Joined(s, c.from, n) + 2 + s[i]
      /\ Joined(s, c.from, n) \in Int
  BY <1>1, <1>2, <1>3, JoinedMore
<1>. HIDE DEF n
<1>5. CASE c.chars + s[i] + 2 > MaxChars
  <2>. DEFINE d == [done |-> p, from |-> i, chars |-> s[i] + 2]
  <2>1. AddToPass(s, c, i) = d
    BY <1>3, <1>5 DEF AddToPass, n
  <2>2. <<c.from, n>> \in Part /\ <<i, i>> \in Part /\ c.done \in Seq(Part)
    BY <1>1, <1>2 DEF Part
  <2>3. PICK e \in Part : e = <<c.from, n>>
    BY <2>2
  <2>4. PICK q \in Seq(Part) : q = c.done
    BY <2>2
  <2>5. /\ Append(q, e) \in Seq(Part) /\ Append(q, e) # <<>>
        /\ Append(q, e)[Len(Append(q, e))] = e
    BY Appended
  <2>6. p \in Seq(Part) /\ p # <<>> /\ p[Len(p)][2] = n
    BY <2>3, <2>4, <2>5
  <2>7. Covers(Append(p, <<i, i>>), i)
    <3>1. i \in c.from .. n + 1
      BY <1>1, <1>3
    <3>. QED
      BY <1>1, <1>2, <3>1, CoversAnother
  <2>8. Cuts(s, Append(p, <<i, i>>))
    <3>1. PICK part \in Part : part = <<i, i>> /\ part[1] = i /\ part[2] = i
      BY <2>2
    <3>. HIDE DEF p
    <3>2. part[1] = p[Len(p)][2] + 1 /\ WithinPass(s, part)
      BY <1>1, <2>6, <3>1 DEF WithinPass
    <3>3. Cuts(s, Append(p, part))
      BY <1>2, <2>6, <3>2, CutsAnother
    <3>. QED
      BY <3>1, <3>3
  <2>. HIDE DEF p
  <2>9. /\ d.done = p /\ d.from = i /\ d.chars = s[i] + 2
        /\ d \in [done : Seq(Part), from : Int, chars : Int]
    BY <1>1, <1>4, <2>6
  <2>10. PassInv(s, i, d)
    <3>. HIDE DEF d
    <3>. QED
      BY <1>1, <1>4, <2>7, <2>8, <2>9 DEF PassInv
  <2>. QED
    BY <2>1, <2>10
<1>6. CASE ~(c.chars + s[i] + 2 > MaxChars)
  <2>. DEFINE d == [c EXCEPT !.chars = @ + s[i] + 2]
  <2>1. AddToPass(s, c, i) = d
    BY <1>6 DEF AddToPass
  <2>2. /\ c.chars + s[i] + 2 = Joined(s, c.from, i) + 2
        /\ Joined(s, c.from, i) + 2 \in Int /\ Joined(s, c.from, i) <= MaxChars
    <3>1. PICK j \in Int, k \in Nat, l \in Int :
             j = Joined(s, c.from, n) /\ k = s[i] /\ l = Joined(s, c.from, i)
      BY <1>4
    <3>2. l = j + 2 + k /\ c.chars = j + 2 /\ MaxChars \in Nat
      BY <1>2, <1>4, <3>1, TextAssumption
    <3>3. c.chars + s[i] + 2 = l + 2
      BY <3>1, <3>2
    <3>4. l + 2 <= MaxChars
      BY <1>6, <3>2, <3>3
    <3>5. l + 2 \in Int /\ l <= MaxChars
      BY <3>2, <3>4
    <3>. QED
      BY <3>1, <3>3, <3>5
  <2>3. /\ d.done = c.done /\ d.from = c.from /\ d.chars = c.chars + s[i] + 2
        /\ d \in [done : Seq(Part), from : Int, chars : Int]
    BY <1>2, <2>2
  <2>. HIDE DEF d
  <2>4. Covers(Append(c.done, <<c.from, i>>), i)
    BY <1>1, <1>2, CoversMore
  <2>5. WithinPass(s, <<c.from, i>>)
    BY <2>2 DEF WithinPass
  <2>6. Cuts(s, Append(c.done, <<c.from, i>>))
    BY <1>1, <1>2, <2>5, CutsMore
  <2>7. PassInv(s, i, d)
    BY <1>3, <2>2, <2>3, <2>4, <2>6 DEF PassInv
  <2>. QED
    BY <2>1, <2>7
<1>. QED
  BY <1>5, <1>6

\* _split_into_chunks cuts an extracted text at blank lines and nowhere else:
\* every paragraph is in one pass, in order, and a pass is longer than
\* MAX_CHUNK_CHARS only if it is one paragraph.
THEOREM PassesCut == PassesPartition
<1>. SUFFICES ASSUME NEW s \in Texts
              PROVE  Covers(Passes(s), Len(s)) /\ Cuts(s, Passes(s)) /\ Passes(s) \in Seq(Part)
  BY DEF PassesPartition, Cuts, WithinPass
<1>1. s \in Seq(Nat) /\ Len(s) \in Nat /\ Len(s) >= 1
  BY TextType
<1>2. PICK f : /\ f[0] = [done |-> <<>>, from |-> 1, chars |-> 0]
               /\ \A i \in 1 .. Len(s) : f[i] = AddToPass(s, f[i - 1], i)
               /\ Passes(s) = IF Joined(s, 1, Len(s)) <= MaxChars THEN << <<1, Len(s)>> >>
                              ELSE Append(f[Len(s)].done, <<f[Len(s)].from, Len(s)>>)
  BY <1>1, PassLoop
<1>3. CASE Joined(s, 1, Len(s)) <= MaxChars
  <2>1. PICK n \in Nat : n = Len(s) /\ n >= 1
    BY <1>1
  <2>2. Passes(s) = << <<1, n>> >>
    BY <1>2, <1>3, <2>1
  <2>3. Covers(<< <<1, n>> >>, n)
    BY <2>1 DEF Covers
  <2>4. << <<1, n>> >> \in Seq(Part)
    BY DEF Part
  <2>5. WithinPass(s, <<1, n>>)
    BY <1>3, <2>1 DEF WithinPass
  <2>6. Cuts(s, << <<1, n>> >>)
    BY <2>5 DEF Cuts
  <2>. QED
    BY <2>1, <2>2, <2>3, <2>4, <2>6
<1>4. CASE ~(Joined(s, 1, Len(s)) <= MaxChars)
  <2>. DEFINE T == {i \in 0 .. Len(s) : i >= 1 => PassInv(s, i, f[i])}
  <2>1. 0 \in T
    BY <1>1
  <2>2. ASSUME NEW i \in 1 .. Len(s), i - 1 \in T PROVE i \in T
    <3>1. CASE i = 1
      <4>1. f[1] = AddToPass(s, [done |-> <<>>, from |-> 1, chars |-> 0], 1)
        BY <1>2, <3>1
      <4>2. PassInv(s, 1, f[1])
        BY <1>1, <4>1, PassStarts
      <4>. QED
        BY <1>1, <3>1, <4>2
    <3>2. CASE i # 1
      <4>1. i \in 2 .. Len(s) /\ PassInv(s, i - 1, f[i - 1])
        BY <1>1, <2>2, <3>2
      <4>2. PassInv(s, i, f[i])
        BY <1>1, <1>2, <4>1, PassStep
      <4>. QED
        BY <1>1, <4>2
    <3>. QED
      BY <3>1, <3>2
  <2>3. \A i \in 0 .. Len(s) : i \in T
    <3>. HIDE DEF T
    <3>. QED
      BY <1>1, <2>1, <2>2, Inductively
  <2>4. PICK c : c = f[Len(s)]
    OBVIOUS
  <2>5. PassInv(s, Len(s), c)
    BY <1>1, <2>3, <2>4
  <2>6. <<c.from, Len(s)>> \in Part /\ c.done \in Seq(Part)
    BY <1>1, <2>5 DEF PassInv, Part
  <2>7. Append(c.done, <<c.from, Len(s)>>) \in Seq(Part)
    BY <2>6
  <2>. QED
    BY <1>2, <1>4, <2>4, <2>5, <2>7 DEF PassInv
<1>. QED
  BY <1>3, <1>4

(***************************************************************************)
(* The attempts at a pass                                                  *)
(***************************************************************************)

\* What the loop has come to after attempt i: the first answer that ends it.
AttemptInv(answers, i, end) ==
    IF end = "exhausted" THEN \A j \in 1 .. i : ~Raises(j, answers[j])
    ELSE \E k \in 1 .. i : /\ end = answers[k] /\ Raises(k, answers[k])
                           /\ \A j \in 1 .. k - 1 : ~Raises(j, answers[j])

LEMMA AttemptStep ==
    ASSUME NEW answers \in [1 .. MaxRetries -> Answers], NEW i \in 1 .. MaxRetries, NEW end,
           AttemptInv(answers, i - 1, end)
    PROVE  AttemptInv(answers, i, Attempt(end, i, answers[i]))
<1>1. MaxRetries \in Nat /\ \A j \in 1 .. i : j \in 1 .. i - 1 \/ j = i
  BY TextAssumption
<1>2. answers[i] # "exhausted"
  BY DEF Answers, Transient
<1>3. CASE end # "exhausted"
  <2>1. Attempt(end, i, answers[i]) = end
    BY <1>3 DEF Attempt
  <2>2. PICK k \in 1 .. i - 1 : /\ end = answers[k] /\ Raises(k, answers[k])
                                /\ \A j \in 1 .. k - 1 : ~Raises(j, answers[j])
    BY <1>3 DEF AttemptInv
  <2>3. k \in 1 .. i
    BY <1>1
  <2>. QED
    BY <1>3, <2>1, <2>2, <2>3 DEF AttemptInv
<1>4. CASE end = "exhausted" /\ Raises(i, answers[i])
  <2>1. Attempt(end, i, answers[i]) = answers[i]
    BY <1>4 DEF Attempt
  <2>2. \A j \in 1 .. i - 1 : ~Raises(j, answers[j])
    BY <1>4 DEF AttemptInv
  <2>3. i \in 1 .. i
    BY <1>1
  <2>. QED
    BY <1>2, <1>4, <2>1, <2>2, <2>3 DEF AttemptInv
<1>5. CASE end = "exhausted" /\ ~Raises(i, answers[i])
  <2>1. Attempt(end, i, answers[i]) = end
    BY <1>5 DEF Attempt
  <2>2. \A j \in 1 .. i - 1 : ~Raises(j, answers[j])
    BY <1>5 DEF AttemptInv
  <2>. QED
    BY <1>1, <1>5, <2>1, <2>2 DEF AttemptInv
<1>. QED
  BY <1>3, <1>4, <1>5

\* structure_document_with_retry answers when some attempt succeeds and only
\* transient errors come before it, and raises otherwise: its last line, which
\* says that it is never reached, is not.
THEOREM TransientRetried == TransientErrorsAreRetried
<1>. SUFFICES ASSUME NEW answers \in [1 .. MaxRetries -> Answers]
              PROVE  /\ Structured(answers) # "exhausted"
                     /\ Structured(answers) = "ok" <=>
                           \E i \in 1 .. MaxRetries :
                              /\ answers[i] = "ok"
                              /\ \A j \in 1 .. i - 1 : answers[j] \in Transient
  BY DEF TransientErrorsAreRetried
<1>1. MaxRetries \in Nat /\ MaxRetries >= 1
  BY TextAssumption
<1>2. PICK f : /\ f[0] = "exhausted"
               /\ \A i \in 1 .. MaxRetries : f[i] = Attempt(f[i - 1], i, answers[i])
               /\ Structured(answers) = f[MaxRetries]
  BY <1>1, AnswerLoop
<1>. DEFINE T == {i \in 0 .. MaxRetries : AttemptInv(answers, i, f[i])}
<1>3. 0 \in T
  BY <1>1, <1>2 DEF AttemptInv
<1>4. ASSUME NEW i \in 1 .. MaxRetries, i - 1 \in T PROVE i \in T
  <2>1. AttemptInv(answers, i - 1, f[i - 1]) /\ f[i] = Attempt(f[i - 1], i, answers[i])
    BY <1>2, <1>4
  <2>2. AttemptInv(answers, i, f[i])
    BY <2>1, AttemptStep
  <2>. QED
    BY <1>1, <2>2
<1>5. \A i \in 0 .. MaxRetries : i \in T
  <2>. HIDE DEF T
  <2>. QED
    BY <1>1, <1>3, <1>4, Inductively
<1>6. AttemptInv(answers, MaxRetries, Structured(answers))
  BY <1>1, <1>2, <1>5
<1>7. Structured(answers) # "exhausted"
  <2>1. MaxRetries \in 1 .. MaxRetries /\ Raises(MaxRetries, answers[MaxRetries])
    BY <1>1 DEF Raises
  <2>. QED
    BY <1>6, <2>1 DEF AttemptInv
<1>8. PICK k \in 1 .. MaxRetries : /\ Structured(answers) = answers[k] /\ Raises(k, answers[k])
                                   /\ \A j \in 1 .. k - 1 : ~Raises(j, answers[j])
  BY <1>6, <1>7 DEF AttemptInv
<1>9. \A j \in 1 .. k - 1 : answers[j] \in Transient
  BY <1>8 DEF Raises
<1>10. ASSUME NEW i \in 1 .. MaxRetries, answers[i] = "ok",
              \A j \in 1 .. i - 1 : answers[j] \in Transient
       PROVE  answers[k] = "ok"
  <2>1. "ok" \notin Transient
    BY DEF Transient
  <2>2. ~(i < k)
    BY <1>1, <1>9, <1>10, <2>1
  <2>3. ~(k < i)
    <3>. SUFFICES ASSUME k < i PROVE FALSE
      OBVIOUS
    <3>1. answers[k] \in Transient /\ k # MaxRetries
      BY <1>1, <1>10
    <3>. QED
      BY <1>8, <3>1 DEF Raises
  <2>. QED
    BY <1>1, <1>10, <2>2, <2>3
<1>. QED
  BY <1>7, <1>8, <1>9, <1>10
=============================================================================
