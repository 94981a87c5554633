------------------------------- MODULE NameMatch -------------------------------
(***************************************************************************)
(* NameMatchService.compare: the score of two names, by which identity     *)
(* checks and disbursement accounts accept a holder.  A name is the        *)
(* sequence of its tokens, a token the sequence of its letters, as         *)
(* tokenize leaves them.  Scores are exact integers: jaro in 360ths (exact *)
(* for tokens of up to six letters), with the prefix in 3600ths, averages  *)
(* of up to three tokens in 21600ths.                                      *)
(***************************************************************************)
EXTENDS Naturals, Sequences, FiniteSetsExt

CONSTANTS
    Letters,
    MaxLetters,     \* bound: letters of a word whose matches are counted
    Tokens,         \* words that names are made of
    MaxNameTokens   \* bound: tokens of a name

VARIABLES a, b      \* the two names

UpTo(S, n)     == UNION {[1 .. k -> S] : k \in 1 .. n}
Smaller(m, n)  == IF m <= n THEN m ELSE n
Larger(m, n)   == IF m >= n THEN m ELSE n
TokensOf(name) == {name[i] : i \in DOMAIN name}

TypeOK == a \in Seq(Seq(Letters)) /\ b \in Seq(Seq(Letters))

\* Two words, or two names, or one of which tokenize leaves nothing.
Init ==
    \/ a \in UpTo(UpTo(Letters, MaxLetters), 1) /\ b \in UpTo(UpTo(Letters, MaxLetters), 1)
    \/ a \in UpTo(Tokens, MaxNameTokens) /\ b \in UpTo(Tokens, MaxNameTokens)
    \/ a = <<>> /\ b \in UpTo(Tokens, 1)

-----------------------------------------------------------------------------
(* jaro *)

Window(s, t) == Larger(Larger(Len(s), Len(t)) \div 2, 1) - 1

Near(s, t) ==
    {ij \in (DOMAIN s) \X (DOMAIN t) :
        /\ s[ij[1]] = t[ij[2]]
        /\ ij[1] <= ij[2] + Window(s, t) /\ ij[2] <= ij[1] + Window(s, t)}

\* Mutant: the last letter that is free is taken.
Taken_Last(free) == Max(free)

\* Each letter of s in turn takes the first free one of t near it; g[i] is what
\* the first i have taken.
Taken(free) == Min(free)

Greedy(s, t) ==
    LET g[i \in 0 .. Len(s)] ==
          IF i = 0 THEN {}
          ELSE LET free == {j \in DOMAIN t :
                               <<i, j>> \in Near(s, t) /\ ~\E h \in g[i - 1] : h[2] = j}
               IN  IF free = {} THEN g[i - 1] ELSE g[i - 1] \cup {<<i, Taken(free)>>}
    IN  g[Len(s)]

\* The n-th matched letter of s is compared with the n-th of t.
Rank(S, x) == Cardinality({y \in S : y <= x})
Transpositions(s, t, pairs) ==
    LET I == {p[1] : p \in pairs}
        J == {p[2] : p \in pairs}
    IN  Cardinality({i \in I : \E j \in J : Rank(I, i) = Rank(J, j) /\ s[i] # t[j]})

Jaro(s, t) ==
    LET pairs == Greedy(s, t)
        m     == Cardinality(pairs)
        swaps == Transpositions(s, t, pairs)
    IN  IF s = t THEN 360
        ELSE IF m = 0 THEN 0
        ELSE (120 * m) \div Len(s) + (120 * m) \div Len(t) + (60 * (2 * m - swaps)) \div m

-----------------------------------------------------------------------------
(* jaro_winkler, scoreTokens and compare *)

Prefix(s, t) ==
    Max({n \in 0 .. Smaller(4, Smaller(Len(s), Len(t))) : \A i \in 1 .. n : s[i] = t[i]})

JaroWinkler(s, t) == 10 * Jaro(s, t) + Prefix(s, t) * (360 - Jaro(s, t))

\* The average, over the words of the source, of each one's best score.
ScoreTokens(source, target) ==
    LET Best(i) == Max({JaroWinkler(source[i], t) : t \in TokensOf(target)})
    IN  (6 * MapThenSumSet(Best, DOMAIN source)) \div Len(source)

\* Mutant: the longer name is the source.
Source_Longer(x, y) == IF Len(x) > Len(y) THEN <<x, y>> ELSE <<y, x>>

Source(x, y) == IF Len(x) <= Len(y) THEN <<x, y>> ELSE <<y, x>>

FirstAndLast(name) == <<name[1], name[Len(name)]>>

Full == 21600

Compare(x, y) ==
    LET whole == ScoreTokens(Source(x, y)[1], Source(x, y)[2])
    IN  IF x = <<>> \/ y = <<>> THEN 0
        ELSE IF Len(x) < 2 \/ Len(y) < 2 THEN whole
        ELSE Larger(whole, ScoreTokens(FirstAndLast(x), FirstAndLast(y)))

-----------------------------------------------------------------------------
(* Properties *)

\* The most letters that can be matched within the window, each used once.
Matching(P) == \A p, q \in P : p # q => p[1] # q[1] /\ p[2] # q[2]
MostMatched(s, t) == Max({Cardinality(P) : P \in {Q \in SUBSET Near(s, t) : Matching(Q)}})

\* Taking the first free letter matches as many as can be matched, so that the
\* score does not depend on which word comes first; it is full for equal words
\* alone.
WordsHold ==
    Len(a) = 1 /\ Len(b) = 1 =>
        LET s == a[1]
            t == b[1]
        IN  /\ Cardinality(Greedy(s, t)) = MostMatched(s, t)
            /\ Jaro(s, t) = Jaro(t, s) /\ Jaro(s, t) \in 0 .. 360
            /\ Jaro(s, t) = 360 <=> s = t

\* Whatever the order of the words, and with more of them on one side than on
\* the other, or with other middle names, two names are fully the same exactly
\* when each word of the shorter one is in the other, or the first and the last
\* of one are among the first and last of the other.
NamesHold ==
    /\ Compare(a, b) \in 0 .. Full
    /\ a # <<>> => (Compare(a, b) = Full <=>
          \/ Len(a) <= Len(b) /\ TokensOf(a) \subseteq TokensOf(b)
          \/ Len(a) > Len(b) /\ TokensOf(b) \subseteq TokensOf(a)
          \/ /\ Len(a) > 1 /\ Len(b) > 1
             /\ TokensOf(FirstAndLast(a)) \subseteq TokensOf(FirstAndLast(b)))

MatchHolds == WordsHold /\ NamesHold
=============================================================================
