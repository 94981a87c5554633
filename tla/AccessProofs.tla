----------------------------- MODULE AccessProofs -----------------------------
(***************************************************************************)
(* For every number of requests, codes, PINs, secrets and tokens: what     *)
(* lets a customer or an operator in is spent, counted and proved.  For    *)
(* every principal, rate and payment: the money of a loan is accounted     *)
(* for.  And the types of all the services.  The services are those of     *)
(* MCServices, and so are their variables.                                 *)
(***************************************************************************)
EXTENDS ServicesProofs, Sequences

-----------------------------------------------------------------------------
(* Codes: s1 purpose, s2 user, s3 stored, s4 attempts, s5 sent, s6 call,   *)
(* s7 sessions, s8 cookies, s9 tried, s10 redeemed, s11 cleared, s12       *)
(* loggedOut                                                               *)

CodeCalls ==
    [step : {"idle", "create", "set", "reset", "attempts", "hash", "count", "delete", "clear",
             "effect"},
     guess : 0 .. MaxCodes, code : 0 .. MaxCodes]

\* A request's step moves that request alone.
OtherCodes(c) == \A d \in Calls \ {c} : s6'[d] = s6[d]

PassedN       == Cardinality(C!Passed)
ComparingN(k) == Cardinality(C!Comparing(k))
ReadersN(k)   == Cardinality(C!Readers(k))

\* What CallsCounted says of one code.
CodeCounted(k) ==
    /\ k > s5 => s9[k] = 0 /\ s10[k] = 0
    /\ k = s3 => s10[k] = 0
    /\ k = s3 /\ k \notin s11 => s9[k] <= s4
    /\ s10[k] + ReadersN(k) <= Many
    /\ k = s3 /\ k \notin s11 => s9[k] + PassedN <= OtpAttempts + Many - 1
    /\ k # s3 /\ k \notin s11 => s9[k] + ComparingN(k) <= OtpAttempts + Many - 1

\* And of the requests.
CodesCalls ==
    /\ s4 + PassedN <= OtpAttempts + Many - 1
    /\ \A c \in Calls : s6[c].step \in {"count", "delete"} => s6[c].code \in 1 .. s5

\* Codes counts as everybody does.
LEMMA CodesCounts == \A Q : C!Cardinality(Q) = Cardinality(Q)
BY DEF C!Cardinality, Cardinality

\* CallsCounted, code by code, before a step and after.
LEMMA CodeByCode ==
    /\ C!CallsCounted <=> CodesCalls /\ \A k \in C!Code : CodeCounted(k)
    /\ C!CallsCounted' <=> CodesCalls' /\ \A k \in C!Code : CodeCounted(k)'
BY CodesCounts
   DEF C!CallsCounted, CodesCalls, CodeCounted, PassedN, ComparingN, ReadersN, Many

\* The sizes are numbers, and what compares has passed.
LEMMA CodesSizes ==
    /\ PassedN \in 0 .. Many /\ PassedN' \in 0 .. Many
    /\ \A k : /\ ReadersN(k) \in 0 .. Many /\ ReadersN(k)' \in 0 .. Many
              /\ ComparingN(k) \in 0 .. PassedN /\ ComparingN(k)' \in 0 .. PassedN'
<1>1. /\ C!Passed \in SUBSET Calls /\ (C!Passed)' \in SUBSET Calls
      /\ \A k : C!Readers(k) \in SUBSET Calls /\ C!Readers(k)' \in SUBSET Calls
      /\ \A k : /\ C!Comparing(k) \in SUBSET Calls /\ C!Comparing(k) \subseteq C!Passed
                /\ C!Comparing(k)' \in SUBSET Calls /\ C!Comparing(k)' \subseteq (C!Passed)'
    BY DEF C!Passed, C!Readers, C!Comparing, C!At
<1>2. PassedN \in 0 .. Many /\ PassedN' \in 0 .. Many
    BY <1>1, PartIsSmaller DEF PassedN
<1>3. ASSUME NEW k
      PROVE  /\ ReadersN(k) \in 0 .. Many /\ ReadersN(k)' \in 0 .. Many
             /\ ComparingN(k) \in 0 .. PassedN /\ ComparingN(k)' \in 0 .. PassedN'
    <2>1. ReadersN(k) \in 0 .. Many /\ ReadersN(k)' \in 0 .. Many
        BY <1>1, PartIsSmaller DEF ReadersN
    <2>2. ComparingN(k) \in 0 .. Many /\ ComparingN(k)' \in 0 .. Many
        BY <1>1, PartIsSmaller DEF ComparingN
    <2>3. ComparingN(k) <= PassedN /\ ComparingN(k)' <= PassedN'
        BY <1>1, PartIsSmaller DEF ComparingN, PassedN
    <2>4. QED
        BY <1>2, <2>1, <2>2, <2>3, PartIsSmaller
<1>4. QED
    BY <1>2, <1>3

\* What a request is counted for.
PassedIn(c)       == IF s6[c].step \in {"hash", "count"} THEN 1 ELSE 0
ComparingIn(c, k) == IF s6[c].step = "count" /\ s6[c].code = k THEN 1 ELSE 0
ReadersIn(c, k)   == IF s6[c].step \in {"count", "delete"} /\ s6[c].code = k THEN 1 ELSE 0

\* The counts, whatever becomes of one request.
LEMMA CodesMove ==
    ASSUME NEW c \in Calls, OtherCodes(c)
    PROVE  /\ PassedN' = PassedN + PassedIn(c)' - PassedIn(c)
           /\ \A k : /\ ComparingN(k)' = ComparingN(k) + ComparingIn(c, k)' - ComparingIn(c, k)
                     /\ ReadersN(k)' = ReadersN(k) + ReadersIn(c, k)' - ReadersIn(c, k)
<1>1. PassedN' = PassedN + PassedIn(c)' - PassedIn(c)
    <2>1. /\ C!Passed \in SUBSET Calls /\ (C!Passed)' \in SUBSET Calls
          /\ C!Passed \ {c} = (C!Passed)' \ {c}
          /\ c \in C!Passed <=> s6[c].step \in {"hash", "count"}
          /\ c \in (C!Passed)' <=> s6'[c].step \in {"hash", "count"}
        BY DEF C!Passed, OtherCodes
    <2>2. QED
        BY <2>1, OneMoves DEF PassedN, PassedIn
<1>2. ASSUME NEW k
      PROVE  ComparingN(k)' = ComparingN(k) + ComparingIn(c, k)' - ComparingIn(c, k)
    <2>1. /\ C!Comparing(k) \in SUBSET Calls /\ C!Comparing(k)' \in SUBSET Calls
          /\ C!Comparing(k) \ {c} = C!Comparing(k)' \ {c}
          /\ c \in C!Comparing(k) <=> s6[c].step = "count" /\ s6[c].code = k
          /\ c \in C!Comparing(k)' <=> s6'[c].step = "count" /\ s6'[c].code = k
        BY DEF C!Comparing, C!At, OtherCodes
    <2>2. QED
        BY <2>1, OneMoves DEF ComparingN, ComparingIn
<1>3. ASSUME NEW k
      PROVE  ReadersN(k)' = ReadersN(k) + ReadersIn(c, k)' - ReadersIn(c, k)
    <2>1. /\ C!Readers(k) \in SUBSET Calls /\ C!Readers(k)' \in SUBSET Calls
          /\ C!Readers(k) \ {c} = C!Readers(k)' \ {c}
          /\ c \in C!Readers(k) <=> s6[c].step \in {"count", "delete"} /\ s6[c].code = k
          /\ c \in C!Readers(k)' <=> s6'[c].step \in {"count", "delete"} /\ s6'[c].code = k
        BY DEF C!Readers, OtherCodes
    <2>2. QED
        BY <2>1, OneMoves DEF ReadersN, ReadersIn
<1>4. QED
    BY <1>1, <1>2, <1>3

\* A request that waits is a request.
LEMMA IdleIsACode == C!Idle \in CodeCalls /\ C!Idle.step = "idle"
BY ServicesAssumption DEF ServicesAssumption, C!Idle, CodeCalls

\* The requests, whatever becomes of one of them.
LEMMA CodesGoto ==
    ASSUME s6 \in [Calls -> CodeCalls], NEW c \in Calls,
           NEW step \in {"idle", "create", "set", "reset", "attempts", "hash", "count", "delete",
                         "clear", "effect"},
           C!Goto(c, step) \/ (C!End(c) /\ step = "idle")
    PROVE  /\ s6' \in [Calls -> CodeCalls] /\ OtherCodes(c)
           /\ s6'[c].step = step
           /\ step # "idle" => s6'[c].code = s6[c].code
<1>1. CASE C!Goto(c, step)
    <2> DEFINE j == [s6[c] EXCEPT !.step = step]
    <2>1. s6' = [s6 EXCEPT ![c] = j]
        BY <1>1 DEF C!Goto
    <2>2. j \in CodeCalls /\ j.step = step /\ j.code = s6[c].code
        BY DEF CodeCalls
    <2> HIDE DEF j
    <2>3. QED
        BY <2>1, <2>2 DEF OtherCodes
<1>2. CASE C!End(c) /\ step = "idle"
    <2>1. s6' = [s6 EXCEPT ![c] = C!Idle]
        BY <1>2 DEF C!End
    <2>2. QED
        BY <1>2, <2>1, IdleIsACode DEF OtherCodes
<1>3. QED
    BY <1>1, <1>2

\* The types, but for that of the counter, which the counts bound.
CodesTyped ==
    /\ s1 \in {"verify", "login", "scoped"}
    /\ s2 \in {"none", "unverified", "verified"}
    /\ s3 \in 0 .. MaxCodes /\ s5 \in 0 .. MaxCodes /\ s3 <= s5
    /\ s4 \in Nat
    /\ s6 \in [Calls -> CodeCalls]
    /\ s7 \subseteq 1 .. MaxSessions /\ s8 \subseteq 1 .. MaxSessions
    /\ s9 \in [C!Code -> Nat] /\ s10 \in [C!Code -> Nat]
    /\ s11 \subseteq C!Code /\ s12 \subseteq 1 .. MaxSessions

\* With the counts they are the types.
LEMMA CodesTypes ==
    /\ C!TypeOK => CodesTyped
    /\ CodesTyped' /\ C!CallsCounted' => C!TypeOK'
<1>b. OtpAttempts \in Nat /\ Many \in Nat /\ MaxCodes \in Nat
    BY PartIsSmaller, ServicesAssumption DEF ServicesAssumption
<1>1. C!TypeOK => CodesTyped
    BY <1>b, CodesCounts DEF C!TypeOK, CodesTyped, CodeCalls, Many
<1>2. CodesTyped' /\ C!CallsCounted' => s4' \in 0 .. OtpAttempts + C!Cardinality(Calls) - 1
    <2> SUFFICES ASSUME CodesTyped', C!CallsCounted'
                 PROVE  s4' \in 0 .. OtpAttempts + C!Cardinality(Calls) - 1
        OBVIOUS
    <2>1. s4' \in Nat
        BY DEF CodesTyped
    <2>2. CodesCalls'
        BY CodeByCode
    <2>3. s4' + PassedN' <= OtpAttempts + Many - 1
        BY <2>2 DEF CodesCalls, Many
    <2>4. PassedN' \in Nat
        BY <1>b, CodesSizes
    <2>5. s4' <= OtpAttempts + Many - 1
        <3>1. \A x, y, m, n \in Nat : x + y <= m + n - 1 => x <= m + n - 1
            OBVIOUS
        <3>2. QED
            BY <1>b, <2>1, <2>3, <2>4, <3>1
    <2>6. s4' \in 0 .. OtpAttempts + Many - 1
        BY <1>b, <2>1, <2>5
    <2>7. QED
        BY <2>6, CodesCounts DEF Many
<1>3. QED
    BY <1>1, <1>2 DEF C!TypeOK, CodesTyped, CodeCalls

\* The steps of a request.
CodesSteps(c) ==
    \/ C!Fail(c) \/ C!Signup(c) \/ C!CreateUser(c) \/ C!Resend(c)
    \/ C!RequestLoginOtp(c) \/ C!RequestScopedOtp(c) \/ C!SetCode(c) \/ C!ResetCounter(c)
    \/ C!CheckAttempts(c) \/ C!ReadHash(c) \/ C!CountAndCompare(c)
    \/ C!DeleteCode(c) \/ C!DeleteCounter(c) \/ C!MarkVerified(c) \/ C!ScopedRedeemed(c)
    \/ \E guess \in 0 .. MaxCodes : C!Submit(c, guess)
    \/ \E s \in 1 .. MaxSessions, cookie \in BOOLEAN : C!OpenSession(c, s, cookie)

\* Those that leave the codes and their counters alone: a request begins, goes
\* on without a code, or ends.
CodesApart(c) ==
    /\ s6' \in [Calls -> CodeCalls] /\ OtherCodes(c)
    /\ s6'[c].step \in {"idle", "create", "set", "attempts"}
    /\ UNCHANGED <<s1, s3, s4, s5, s9, s10, s11>>

\* The log-in's session, what a sign-up makes of the user, and the sessions.
LEMMA CodesApartSteps ==
    ASSUME CodesTyped, NEW c \in Calls,
           \/ C!Fail(c) \/ C!Signup(c) \/ C!CreateUser(c) \/ C!Resend(c)
           \/ C!RequestLoginOtp(c) \/ C!RequestScopedOtp(c)
           \/ C!MarkVerified(c) \/ C!ScopedRedeemed(c)
           \/ \E guess \in 0 .. MaxCodes : C!Submit(c, guess)
           \/ \E s \in 1 .. MaxSessions, cookie \in BOOLEAN : C!OpenSession(c, s, cookie)
    PROVE  CodesApart(c) /\ s2' \in {"none", "unverified", "verified"}
<1>t. s6 \in [Calls -> CodeCalls] /\ s2 \in {"none", "unverified", "verified"}
    BY DEF CodesTyped
<1>1. UNCHANGED <<s1, s3, s4, s5, s9, s10, s11>> /\ s2' \in {s2, "unverified", "verified"}
    BY DEF C!Fail, C!Signup, C!CreateUser, C!Resend, C!RequestLoginOtp, C!RequestScopedOtp,
           C!MarkVerified, C!ScopedRedeemed, C!Submit, C!OpenSession, C!keys, C!counts
<1>2. ASSUME NEW guess \in 0 .. MaxCodes, C!Submit(c, guess)
      PROVE  s6' \in [Calls -> CodeCalls] /\ OtherCodes(c) /\ s6'[c].step = "attempts"
    <2> DEFINE j == [C!Idle EXCEPT !.step = "attempts", !.guess = guess]
    <2>1. s6' = [s6 EXCEPT ![c] = j]
        BY <1>2 DEF C!Submit
    <2>2. j \in CodeCalls /\ j.step = "attempts"
        BY IdleIsACode DEF CodeCalls
    <2> HIDE DEF j
    <2>3. QED
        BY <1>t, <2>1, <2>2 DEF OtherCodes
<1>3. ASSUME ~ \E guess \in 0 .. MaxCodes : C!Submit(c, guess)
      PROVE  \E step \in {"idle", "create", "set"} : C!Goto(c, step) \/ (C!End(c) /\ step = "idle")
    BY <1>3 DEF C!Fail, C!Signup, C!CreateUser, C!Resend, C!RequestLoginOtp, C!RequestScopedOtp,
                C!MarkVerified, C!ScopedRedeemed, C!OpenSession
<1>4. s6' \in [Calls -> CodeCalls] /\ OtherCodes(c)
      /\ s6'[c].step \in {"idle", "create", "set", "attempts"}
    BY <1>t, <1>2, <1>3, CodesGoto
<1>5. QED
    BY <1>t, <1>1, <1>4 DEF CodesApart

\* The numbers of one code, as they are and as they will be.
CodeSizes(k) ==
    /\ k \in Nat /\ k # 0 /\ s9[k] \in Nat /\ s10[k] \in Nat
    /\ ReadersN(k) \in Nat /\ ReadersN(k)' \in Nat /\ ReadersN(k)' <= Many
    /\ ComparingN(k) \in Nat /\ ComparingN(k)' \in Nat /\ ComparingN(k) <= PassedN

\* The counts survive what a request does.
LEMMA CodesCounted ==
    ASSUME CodesTyped, C!CallsCounted, NEW c \in Calls, CodesSteps(c)
    PROVE  C!CallsCounted' /\ s6' \in [Calls -> CodeCalls] /\ OtherCodes(c)
<1>b. OtpAttempts \in Nat \ {0} /\ Many \in Nat /\ MaxCodes \in Nat
    BY PartIsSmaller, ServicesAssumption DEF ServicesAssumption
<1>c. C!Code = 1 .. MaxCodes
    BY DEF C!Code
<1>t. /\ s3 \in Nat /\ s4 \in Nat /\ s5 \in Nat /\ s3 <= s5 /\ s5 <= MaxCodes
      /\ PassedN \in Nat /\ PassedN' \in Nat /\ PassedN' <= Many
    BY <1>b, CodesSizes DEF CodesTyped
<1>f. /\ s6 \in [Calls -> CodeCalls] /\ s6[c] \in CodeCalls
      /\ s9 \in [C!Code -> Nat] /\ s10 \in [C!Code -> Nat]
    BY DEF CodesTyped
<1>o. \A k \in C!Code : CodeCounted(k)
    BY CodeByCode
<1>n. s4 + PassedN <= OtpAttempts + Many - 1
    BY CodeByCode DEF CodesCalls
<1>k. ASSUME NEW k \in C!Code
      PROVE  CodeSizes(k) /\ CodeCounted(k)
    <2>1. /\ ReadersN(k) \in 0 .. Many /\ ReadersN(k)' \in 0 .. Many
          /\ ComparingN(k) \in 0 .. PassedN /\ ComparingN(k)' \in 0 .. PassedN'
        BY CodesSizes
    <2>2. k \in Nat /\ k # 0 /\ s9[k] \in Nat /\ s10[k] \in Nat
        BY <1>b, <1>c, <1>f
    <2>3. QED
        BY <1>b, <1>t, <1>o, <2>1, <2>2 DEF CodeSizes
\* Together.
<1>q. ASSUME s6' \in [Calls -> CodeCalls], OtherCodes(c), s5' \in Nat, s5 <= s5',
             s6'[c].step \in {"count", "delete"} => s6'[c].code \in 1 .. s5',
             s4' + PassedN' <= OtpAttempts + Many - 1,
             \A k \in C!Code : CodeCounted(k)'
      PROVE  C!CallsCounted' /\ s6' \in [Calls -> CodeCalls] /\ OtherCodes(c)
    <2>1. \A d \in Calls : s6[d].step \in {"count", "delete"} => s6[d].code \in 1 .. s5
        BY CodeByCode DEF CodesCalls
    <2>2. ASSUME NEW d \in Calls, s6'[d].step \in {"count", "delete"}
          PROVE  s6'[d].code \in 1 .. s5'
        <3>1. CASE d = c
            BY <1>q, <2>2, <3>1
        <3>2. CASE d # c
            <4>1. s6'[d] = s6[d]
                BY <1>q, <3>2 DEF OtherCodes
            <4>2. s6[d].code \in 1 .. s5
                BY <2>1, <2>2, <4>1
            <4>3. QED
                BY <1>q, <1>t, <4>1, <4>2
        <3>3. QED
            BY <3>1, <3>2
    <2>3. CodesCalls'
        BY <1>q, <2>2 DEF CodesCalls
    <2>4. QED
        BY <1>q, <2>3, CodeByCode
\* Without a code before or after.
<1>1. CASE CodesApart(c)
    <2>1. UNCHANGED <<s3, s4, s5, s9, s10, s11>> /\ s6'[c].step \notin {"hash", "count", "delete"}
        BY <1>1 DEF CodesApart
    <2>2. PassedN' <= PassedN
        BY <1>1, <1>t, <2>1, CodesMove DEF CodesApart, PassedIn
    <2>3. ASSUME NEW k \in C!Code
          PROVE  CodeCounted(k)'
        <3>1. CodeSizes(k) /\ CodeCounted(k)
            BY <1>k
        <3>2. ReadersN(k)' <= ReadersN(k) /\ ComparingN(k)' <= ComparingN(k)
            BY <1>1, <2>1, <3>1, CodesMove DEF CodesApart, ReadersIn, ComparingIn, CodeSizes
        <3>3. QED
            BY <1>b, <1>t, <2>1, <2>2, <3>1, <3>2 DEF CodeCounted, CodeSizes
    <2>4. s4' + PassedN' <= OtpAttempts + Many - 1
        BY <1>b, <1>t, <1>n, <2>1, <2>2
    <2>5. QED
        BY <1>1, <1>q, <1>t, <2>1, <2>3, <2>4 DEF CodesApart
\* A call passes the check of the counter.
<1>2. CASE C!CheckAttempts(c) /\ C!AttemptsLeft
    <2>1. /\ s6' \in [Calls -> CodeCalls] /\ OtherCodes(c)
          /\ s6'[c].step = "hash" /\ s6[c].step = "attempts"
        BY <1>2, <1>f, CodesGoto DEF C!CheckAttempts, C!At
    <2>2. /\ s3' = s3 /\ s4' = s4 /\ s5' = s5 /\ s9' = s9 /\ s10' = s10 /\ s11' = s11
          /\ s4 < OtpAttempts
        BY <1>2 DEF C!CheckAttempts, C!AttemptsLeft, C!keys, C!counts
    <2>3. ASSUME NEW k \in C!Code
          PROVE  CodeCounted(k)'
        <3>1. CodeSizes(k) /\ CodeCounted(k)
            BY <1>k
        <3>2. ReadersN(k)' = ReadersN(k) /\ ComparingN(k)' = ComparingN(k)
            BY <2>1, <3>1, CodesMove DEF ReadersIn, ComparingIn, CodeSizes
        <3>3. QED
            BY <1>b, <1>t, <2>2, <3>1, <3>2 DEF CodeCounted, CodeSizes
    <2>4. s4' + PassedN' <= OtpAttempts + Many - 1
        <3>1. s4' = s4 /\ s4 <= OtpAttempts - 1 /\ s4 \in Nat
            BY <1>b, <1>t, <2>2
        <3>2. PassedN' \in Nat /\ PassedN' <= Many
            BY <1>t
        <3>3. OtpAttempts \in Nat /\ Many \in Nat
            BY <1>b
        <3>4. \A x, y, m, n \in Nat : x <= m - 1 /\ y <= n => x + y <= m + n - 1
            OBVIOUS
        <3>5. s4' \in Nat /\ s4' <= OtpAttempts - 1
            BY <3>1
        <3>6. QED
            BY <3>2, <3>3, <3>4, <3>5
    <2>5. QED
        BY <1>q, <1>t, <2>1, <2>2, <2>3, <2>4
\* A call reads the code that is stored.
<1>3. CASE C!ReadHash(c) /\ s3 # 0
    <2> DEFINE j == [s6[c] EXCEPT !.step = "count", !.code = s3]
    <2>1. s6' = [s6 EXCEPT ![c] = j] /\ s6[c].step = "hash"
        BY <1>3, <1>f DEF C!ReadHash, C!At
    <2>2. j \in CodeCalls /\ j.step = "count" /\ j.code = s3
        <3>1. s3 \in 0 .. MaxCodes
            BY <1>b, <1>t
        <3>2. j \in CodeCalls
            BY <1>f, <3>1 DEF CodeCalls
        <3>3. j.step = "count" /\ j.code = s3
            BY <1>f DEF CodeCalls
        <3>4. QED
            BY <3>2, <3>3
    <2> HIDE DEF j
    <2>3. /\ s6' \in [Calls -> CodeCalls] /\ OtherCodes(c)
          /\ s6'[c].step = "count" /\ s6'[c].code = s3
        BY <1>f, <2>1, <2>2 DEF OtherCodes
    <2>4. UNCHANGED <<s3, s4, s5, s9, s10, s11>>
        BY <1>3 DEF C!ReadHash, C!keys, C!counts
    <2>5. PassedN' = PassedN
        BY <1>t, <2>1, <2>3, CodesMove DEF PassedIn
    <2>6. ASSUME NEW k \in C!Code
          PROVE  CodeCounted(k)'
        <3>1. CodeSizes(k) /\ CodeCounted(k)
            BY <1>k
        <3>2. k # s3 => ReadersN(k)' = ReadersN(k) /\ ComparingN(k)' = ComparingN(k)
            BY <2>1, <2>3, <3>1, CodesMove DEF ReadersIn, ComparingIn, CodeSizes
        <3>3. QED
            BY <1>b, <1>t, <2>4, <2>5, <3>1, <3>2 DEF CodeCounted, CodeSizes
    <2>7. s4' + PassedN' <= OtpAttempts + Many - 1 /\ s3 \in 1 .. s5'
        BY <1>3, <1>n, <1>t, <2>4, <2>5
    <2>8. QED
        BY <1>q, <1>t, <2>3, <2>4, <2>6, <2>7
\* A comparison uses up an attempt, and the call's leave to make it.
<1>4. CASE C!CountAndCompare(c)
    <2>1. PICK step \in {"delete", "idle"} :
              C!Goto(c, step) \/ (C!End(c) /\ step = "idle")
        BY <1>4 DEF C!CountAndCompare
    <2>2. /\ s6' \in [Calls -> CodeCalls] /\ OtherCodes(c) /\ s6[c].step = "count"
          /\ s6'[c].step = step /\ (step = "delete" => s6'[c].code = s6[c].code)
        BY <1>4, <1>f, <2>1, CodesGoto DEF C!CountAndCompare, C!At
    <2>3. s6[c].code \in 1 .. s5
        BY <2>2, CodeByCode DEF CodesCalls
    <2>4. /\ s3' = s3 /\ s4' = s4 + 1 /\ s5' = s5 /\ s10' = s10 /\ s11' = s11
          /\ s9' = [s9 EXCEPT ![s6[c].code] = s9[s6[c].code] + 1]
        BY <1>4 DEF C!CountAndCompare
    <2>5. PassedN' = PassedN - 1
        BY <1>t, <2>2, CodesMove DEF PassedIn
    <2>6. ASSUME NEW k \in C!Code
          PROVE  CodeCounted(k)'
        <3>1. CodeSizes(k) /\ CodeCounted(k)
            BY <1>k
        <3>2. /\ ReadersN(k)' <= ReadersN(k)
              /\ ComparingN(k)' = ComparingN(k) - (IF k = s6[c].code THEN 1 ELSE 0)
            BY <2>2, <3>1, CodesMove DEF ReadersIn, ComparingIn, CodeSizes
        <3>3. s9'[k] = s9[k] + (IF k = s6[c].code THEN 1 ELSE 0)
            BY <1>f, <2>4, <3>1 DEF CodeSizes
        <3>4. QED
            BY <1>b, <1>t, <2>3, <2>4, <2>5, <3>1, <3>2, <3>3 DEF CodeCounted, CodeSizes
    <2>7. s4' + PassedN' <= OtpAttempts + Many - 1
        BY <1>b, <1>n, <1>t, <2>4, <2>5
    <2>8. QED
        BY <1>q, <1>t, <2>2, <2>3, <2>4, <2>6, <2>7
\* A code is redeemed, and none is stored any more.
<1>5. CASE C!DeleteCode(c)
    <2>1. /\ s6' \in [Calls -> CodeCalls] /\ OtherCodes(c)
          /\ s6[c].step = "delete" /\ s6'[c].step = "clear"
        BY <1>5, <1>f, CodesGoto DEF C!DeleteCode, C!At
    <2>2. s6[c].code \in 1 .. s5
        BY <2>1, CodeByCode DEF CodesCalls
    <2>3. /\ s3' = 0 /\ s4' = s4 /\ s5' = s5 /\ s9' = s9 /\ s11' = s11
          /\ s10' = [s10 EXCEPT ![s6[c].code] = s10[s6[c].code] + 1]
        BY <1>5 DEF C!DeleteCode, C!AfterDelete
    <2>4. PassedN' = PassedN
        BY <1>t, <2>1, CodesMove DEF PassedIn
    <2>5. ASSUME NEW k \in C!Code
          PROVE  CodeCounted(k)'
        <3>1. CodeSizes(k) /\ CodeCounted(k)
            BY <1>k
        <3>2. /\ ComparingN(k)' = ComparingN(k)
              /\ ReadersN(k)' = ReadersN(k) - (IF k = s6[c].code THEN 1 ELSE 0)
            BY <2>1, <3>1, CodesMove DEF ReadersIn, ComparingIn, CodeSizes
        <3>3. s10'[k] = s10[k] + (IF k = s6[c].code THEN 1 ELSE 0)
            BY <1>f, <2>3, <3>1 DEF CodeSizes
        <3>4. QED
            BY <1>b, <1>t, <2>2, <2>3, <2>4, <3>1, <3>2, <3>3 DEF CodeCounted, CodeSizes
    <2>6. s4' + PassedN' <= OtpAttempts + Many - 1
        BY <1>n, <1>t, <2>3, <2>4
    <2>7. QED
        BY <1>q, <1>t, <2>1, <2>2, <2>3, <2>5, <2>6
\* A new code is stored, which nobody has compared or redeemed.
<1>6. CASE C!SetCode(c)
    <2>1. /\ s6' \in [Calls -> CodeCalls] /\ OtherCodes(c)
          /\ s6[c].step = "set" /\ s6'[c].step = "reset"
        BY <1>6, <1>f, CodesGoto DEF C!SetCode, C!At
    <2>2. /\ s3' = s5 + 1 /\ s4' = s4 /\ s5' = s5 + 1
          /\ s9' = s9 /\ s10' = s10 /\ s11' = s11
        BY <1>6 DEF C!SetCode, C!counts
    <2>3. PassedN' = PassedN
        BY <1>t, <2>1, CodesMove DEF PassedIn
    <2>4. ASSUME NEW k \in C!Code
          PROVE  CodeCounted(k)'
        <3>1. CodeSizes(k) /\ CodeCounted(k)
            BY <1>k
        <3>2. ReadersN(k)' = ReadersN(k) /\ ComparingN(k)' = ComparingN(k)
            BY <2>1, <3>1, CodesMove DEF ReadersIn, ComparingIn, CodeSizes
        <3>3. QED
            BY <1>b, <1>t, <2>2, <2>3, <3>1, <3>2 DEF CodeCounted, CodeSizes
    <2>5. s4' + PassedN' <= OtpAttempts + Many - 1 /\ s5' \in Nat /\ s5 <= s5'
        BY <1>n, <1>t, <2>2, <2>3
    <2>6. QED
        BY <1>q, <2>1, <2>4, <2>5
\* The counter goes; a code it had counted has a fresh one.
<1>7. CASE C!ResetCounter(c) \/ C!DeleteCounter(c)
    <2>1. PICK step \in {"idle", "effect"} :
              C!Goto(c, step) \/ (C!End(c) /\ step = "idle")
        BY <1>7 DEF C!ResetCounter, C!DeleteCounter, C!ClearCounter
    <2>2. /\ s6' \in [Calls -> CodeCalls] /\ OtherCodes(c) /\ s6'[c].step = step
          /\ s6[c].step \in {"reset", "clear"}
        BY <1>7, <1>f, <2>1, CodesGoto DEF C!ResetCounter, C!DeleteCounter, C!At
    <2>3. /\ s3' = s3 /\ s4' = 0 /\ s5' = s5 /\ s9' = s9 /\ s10' = s10
          /\ s11' = IF s3 # 0 /\ s9[s3] > 0 THEN s11 \cup {s3} ELSE s11
        BY <1>7 DEF C!ResetCounter, C!DeleteCounter, C!ClearCounter
    <2>4. PassedN' = PassedN
        BY <1>t, <2>2, CodesMove DEF PassedIn
    <2>5. ASSUME NEW k \in C!Code
          PROVE  CodeCounted(k)'
        <3>1. CodeSizes(k) /\ CodeCounted(k)
            BY <1>k
        <3>2. ReadersN(k)' = ReadersN(k) /\ ComparingN(k)' = ComparingN(k)
            BY <2>2, <3>1, CodesMove DEF ReadersIn, ComparingIn, CodeSizes
        <3>3. (k \notin s11' => k \notin s11) /\ (k = s3 /\ k \notin s11' => s9[k] = 0)
            BY <2>3, <3>1 DEF CodeSizes
        <3>4. QED
            BY <1>b, <1>t, <2>3, <2>4, <3>1, <3>2, <3>3 DEF CodeCounted, CodeSizes
    <2>6. s4' + PassedN' <= OtpAttempts + Many - 1
        BY <1>b, <1>n, <1>t, <2>3, <2>4
    <2>7. QED
        BY <1>q, <1>t, <2>2, <2>3, <2>5, <2>6
\* A check or a read that ends the call.
<1>8. CASE (C!CheckAttempts(c) \/ C!ReadHash(c)) /\ C!End(c)
    <2>1. /\ s6' \in [Calls -> CodeCalls] /\ OtherCodes(c) /\ s6'[c].step = "idle"
        BY <1>8, <1>f, CodesGoto
    <2>2. UNCHANGED <<s1, s3, s4, s5, s9, s10, s11>>
        BY <1>8 DEF C!CheckAttempts, C!ReadHash, C!keys, C!counts
    <2>3. CodesApart(c)
        BY <2>1, <2>2 DEF CodesApart
    <2>4. QED
        BY <1>1, <2>3
<1>9. QED
    BY <1>1, <1>2, <1>3, <1>4, <1>5, <1>6, <1>7, <1>8, CodesApartSteps
       DEF CodesSteps, C!CheckAttempts, C!ReadHash

\* The types survive what a request does.
LEMMA CodesStepTyped ==
    ASSUME CodesTyped, C!CallsCounted, NEW c \in Calls, CodesSteps(c)
    PROVE  CodesTyped'
<1>b. MaxCodes \in Nat /\ C!Code = 1 .. MaxCodes
    BY ServicesAssumption DEF ServicesAssumption, C!Code
<1>1. s6' \in [Calls -> CodeCalls]
    BY CodesCounted
<1>2. CASE \/ C!Fail(c) \/ C!Signup(c) \/ C!CreateUser(c) \/ C!Resend(c)
           \/ C!RequestLoginOtp(c) \/ C!RequestScopedOtp(c)
           \/ C!MarkVerified(c) \/ C!ScopedRedeemed(c)
           \/ \E guess \in 0 .. MaxCodes : C!Submit(c, guess)
    <2>1. UNCHANGED <<s7, s8, s12>>
        BY <1>2 DEF C!Fail, C!Signup, C!CreateUser, C!Resend, C!RequestLoginOtp,
                    C!RequestScopedOtp, C!MarkVerified, C!ScopedRedeemed, C!Submit, C!opened
    <2>2. CodesApart(c) /\ s2' \in {"none", "unverified", "verified"}
        BY <1>2, CodesApartSteps
    <2>3. QED
        BY <2>1, <2>2 DEF CodesTyped, CodesApart
<1>3. ASSUME NEW s \in 1 .. MaxSessions, NEW cookie \in BOOLEAN, C!OpenSession(c, s, cookie)
      PROVE  CodesTyped'
    <2>1. CodesApart(c) /\ s2' \in {"none", "unverified", "verified"}
        BY <1>3, CodesApartSteps
    <2>2. s7' \subseteq 1 .. MaxSessions /\ s8' \subseteq 1 .. MaxSessions /\ s12' = s12
        BY <1>3 DEF C!OpenSession, CodesTyped
    <2>3. QED
        BY <2>1, <2>2 DEF CodesTyped, CodesApart
<1>4. CASE C!CheckAttempts(c) \/ C!ReadHash(c)
    <2>1. UNCHANGED <<s1, s2, s3, s4, s5, s7, s8, s9, s10, s11, s12>>
        BY <1>4 DEF C!CheckAttempts, C!ReadHash, C!keys, C!opened, C!counts
    <2>2. QED
        BY <1>1, <2>1 DEF CodesTyped
<1>5. CASE C!CountAndCompare(c)
    <2>1. /\ UNCHANGED <<s1, s2, s3, s5, s7, s8, s10, s11, s12>>
          /\ s4' = s4 + 1 /\ s9' = [s9 EXCEPT ![s6[c].code] = s9[s6[c].code] + 1]
          /\ s6[c].step = "count"
        BY <1>5 DEF C!CountAndCompare, C!opened, C!At
    <2>2. s6[c].code \in C!Code
        <3>1. s6[c].code \in 1 .. s5
            BY <2>1, CodeByCode DEF CodesCalls
        <3>2. QED
            BY <1>b, <3>1 DEF CodesTyped
    <2>3. s4' \in Nat /\ s9' \in [C!Code -> Nat]
        BY <2>1, <2>2 DEF CodesTyped
    <2>4. QED
        BY <1>1, <2>1, <2>3 DEF CodesTyped
<1>6. CASE C!DeleteCode(c)
    <2>1. /\ UNCHANGED <<s1, s2, s4, s5, s7, s8, s9, s11, s12>> /\ s3' = 0
          /\ s10' = [s10 EXCEPT ![s6[c].code] = s10[s6[c].code] + 1]
          /\ s6[c].step = "delete"
        BY <1>6 DEF C!DeleteCode, C!AfterDelete, C!opened, C!At
    <2>2. s6[c].code \in C!Code
        <3>1. s6[c].code \in 1 .. s5
            BY <2>1, CodeByCode DEF CodesCalls
        <3>2. QED
            BY <1>b, <3>1 DEF CodesTyped
    <2>3. s10' \in [C!Code -> Nat]
        BY <2>1, <2>2 DEF CodesTyped
    <2>4. s3' \in 0 .. MaxCodes /\ s3' <= s5'
        BY <1>b, <2>1 DEF CodesTyped
    <2>5. QED
        BY <1>1, <2>1, <2>3, <2>4 DEF CodesTyped
<1>7. CASE C!SetCode(c)
    <2>1. /\ UNCHANGED <<s1, s2, s4, s7, s8, s9, s10, s11, s12>>
          /\ s3' = s5 + 1 /\ s5' = s5 + 1 /\ s5 < MaxCodes
        BY <1>7 DEF C!SetCode, C!opened, C!counts
    <2>2. s3' \in 0 .. MaxCodes /\ s5' \in 0 .. MaxCodes /\ s3' <= s5'
        BY <1>b, <2>1 DEF CodesTyped
    <2>3. QED
        BY <1>1, <2>1, <2>2 DEF CodesTyped
<1>8. CASE C!ResetCounter(c) \/ C!DeleteCounter(c)
    <2>1. /\ UNCHANGED <<s1, s2, s3, s5, s7, s8, s9, s10, s12>> /\ s4' = 0
          /\ s11' = s11 \/ (s3 # 0 /\ s11' = s11 \cup {s3})
        BY <1>8 DEF C!ResetCounter, C!DeleteCounter, C!ClearCounter, C!opened
    <2>2. s3 # 0 => s3 \in C!Code
        BY <1>b DEF CodesTyped
    <2>3. s11' \subseteq C!Code
        BY <2>1, <2>2 DEF CodesTyped
    <2>4. s4' \in Nat
        BY <2>1
    <2>5. QED
        BY <1>1, <2>1, <2>3, <2>4 DEF CodesTyped
<1>9. QED
    BY <1>2, <1>3, <1>4, <1>5, <1>6, <1>7, <1>8 DEF CodesSteps

\* What happens to the keys and the sessions besides.
CodesBesides ==
    \/ C!CodeExpires \/ C!CounterExpires \/ C!LogoutAll \/ \E s \in s7 : C!Logout(s)

\* There are no other steps.
LEMMA CodesNextSteps == C!Next <=> CodesBesides \/ \E c \in Calls : CodesSteps(c)
BY DEF C!Next, CodesBesides, CodesSteps

\* A key that lapses and a session that ends leave the types and the counts.
LEMMA CodesBesidesCounted ==
    ASSUME CodesTyped, C!CallsCounted, CodesBesides
    PROVE  CodesTyped' /\ C!CallsCounted'
<1>b. OtpAttempts \in Nat \ {0} /\ Many \in Nat /\ MaxCodes \in Nat /\ C!Code = 1 .. MaxCodes
    BY PartIsSmaller, ServicesAssumption DEF ServicesAssumption, C!Code
<1>1. UNCHANGED <<s1, s2, s5, s6, s8, s9, s10, s11>>
    BY DEF CodesBesides, C!CodeExpires, C!CounterExpires, C!LogoutAll, C!Logout, C!counts,
           C!keys, C!opened
<1>2. /\ s3' = s3 \/ s3' = 0
      /\ s4' = s4 \/ (s4' = 0 /\ s3' = s3 /\ (s3 # 0 => s9[s3] = 0))
    BY DEF CodesBesides, C!CodeExpires, C!CounterExpires, C!LogoutAll, C!Logout, C!keys
<1>3. s7' \subseteq s7 /\ s12' \subseteq s12 \cup s7
    BY DEF CodesBesides, C!CodeExpires, C!CounterExpires, C!LogoutAll, C!Logout,
           C!opened
<1>4. CodesTyped'
    <2>1. s3' \in 0 .. MaxCodes /\ s3' <= s5' /\ s4' \in Nat
        BY <1>b, <1>1, <1>2 DEF CodesTyped
    <2>2. s7' \subseteq 1 .. MaxSessions /\ s12' \subseteq 1 .. MaxSessions
        BY <1>3 DEF CodesTyped
    <2>3. QED
        BY <1>1, <2>1, <2>2 DEF CodesTyped
<1>5. /\ PassedN' = PassedN
      /\ \A k : ReadersN(k)' = ReadersN(k) /\ ComparingN(k)' = ComparingN(k)
    BY <1>1 DEF PassedN, ReadersN, ComparingN, C!Passed, C!Readers, C!Comparing, C!At
<1>t. /\ s3 \in Nat /\ s4 \in Nat /\ s5 \in Nat
      /\ PassedN \in Nat /\ PassedN <= Many
      /\ s9 \in [C!Code -> Nat] /\ s10 \in [C!Code -> Nat]
    BY <1>b, CodesSizes DEF CodesTyped
<1>6. CodesCalls'
    <2>1. s4 + PassedN <= OtpAttempts + Many - 1
        BY CodeByCode DEF CodesCalls
    <2>2. s4' + PassedN' <= OtpAttempts + Many - 1
        BY <1>b, <1>t, <1>2, <1>5, <2>1
    <2>3. QED
        BY <1>1, <2>2, CodeByCode DEF CodesCalls
<1>7. ASSUME NEW k \in C!Code
      PROVE  CodeCounted(k)'
    <2>1. CodeCounted(k) /\ s9[k] \in Nat /\ s10[k] \in Nat /\ k \in Nat /\ k # 0
        BY <1>b, <1>t, CodeByCode
    <2>2. /\ ComparingN(k) \in Nat /\ ComparingN(k) <= PassedN
          /\ ReadersN(k)' = ReadersN(k) /\ ComparingN(k)' = ComparingN(k)
          /\ PassedN' = PassedN
        <3>1. ComparingN(k) \in 0 .. PassedN
            BY CodesSizes
        <3>2. QED
            BY <1>t, <1>5, <3>1
    <2>3. /\ k \in s11' <=> k \in s11
          /\ s9'[k] = s9[k] /\ s10'[k] = s10[k] /\ s5' = s5
        BY <1>1
    <2>4. CASE s3' = s3 /\ s4' = s4
        BY <2>1, <2>2, <2>3, <2>4 DEF CodeCounted
    <2>5. CASE s3' = 0
        BY <1>b, <1>t, <2>1, <2>2, <2>3, <2>5 DEF CodeCounted
    <2>6. CASE s3' = s3 /\ s4' = 0 /\ (s3 # 0 => s9[s3] = 0)
        BY <1>b, <1>t, <2>1, <2>2, <2>3, <2>6 DEF CodeCounted
    <2>7. QED
        BY <1>2, <2>4, <2>5, <2>6
<1>8. QED
    BY <1>4, <1>6, <1>7, CodeByCode

\* One who logged out of the cookie's session is out of it.
LEMMA CodesLoggedOut ==
    ASSUME s12 \cap s7 \cap s8 = {}, C!Next
    PROVE  (s12 \cap s7 \cap s8)' = {}
<1>1. CASE CodesBesides
    BY <1>1 DEF CodesBesides, C!CodeExpires, C!CounterExpires, C!LogoutAll, C!Logout,
                C!DestroyedBy, C!opened
<1>2. ASSUME NEW c \in Calls, CodesSteps(c)
      PROVE  (s12 \cap s7 \cap s8)' = {}
    <2>1. CASE \E s \in 1 .. MaxSessions, cookie \in BOOLEAN : C!OpenSession(c, s, cookie)
        BY <2>1 DEF C!OpenSession
    <2>2. CASE ~ \E s \in 1 .. MaxSessions, cookie \in BOOLEAN : C!OpenSession(c, s, cookie)
        <3>1. UNCHANGED <<s7, s8, s12>>
            BY <1>2, <2>2 DEF CodesSteps, C!Fail, C!Signup, C!CreateUser, C!Resend,
                   C!RequestLoginOtp, C!RequestScopedOtp, C!SetCode, C!ResetCounter,
                   C!CheckAttempts, C!ReadHash, C!CountAndCompare, C!DeleteCode,
                   C!DeleteCounter, C!ClearCounter, C!MarkVerified, C!ScopedRedeemed, C!Submit,
                   C!opened
        <3>2. QED
            BY <3>1
    <2>3. QED
        BY <2>1, <2>2
<1>3. QED
    BY <1>1, <1>2, CodesNextSteps

\* The counts imply the promise about codes, before a step and after it.
LEMMA CodesPromise ==
    /\ CodesTyped /\ C!CallsCounted /\ s12 \cap s7 \cap s8 = {} => C!CodesAreSpent
    /\ CodesTyped' /\ C!CallsCounted' /\ (s12 \cap s7 \cap s8)' = {} => C!CodesAreSpent'
<1>b. OtpAttempts \in Nat \ {0} /\ Many \in Nat /\ C!Cardinality(Calls) = Many
    BY PartIsSmaller, CodesCounts, ServicesAssumption DEF ServicesAssumption, Many
<1>1. ASSUME CodesTyped, C!CallsCounted, NEW k \in C!Code
      PROVE  s10[k] <= Many /\ (k \notin s11 => s9[k] <= OtpAttempts + Many - 1)
    <2>1. CodeCounted(k) /\ s9[k] \in Nat /\ s10[k] \in Nat
        BY <1>1, CodeByCode DEF CodesTyped
    <2>2. ReadersN(k) \in 0 .. Many /\ ComparingN(k) \in 0 .. PassedN /\ PassedN \in 0 .. Many
        BY CodesSizes
    <2>3. QED
        BY <1>b, <2>1, <2>2 DEF CodeCounted
<1>2. ASSUME CodesTyped', C!CallsCounted', NEW k \in C!Code
      PROVE  s10'[k] <= Many /\ (k \notin s11' => s9'[k] <= OtpAttempts + Many - 1)
    <2>1. CodeCounted(k)' /\ s9'[k] \in Nat /\ s10'[k] \in Nat
        BY <1>2, CodeByCode DEF CodesTyped
    <2>2. /\ ReadersN(k)' \in 0 .. Many /\ ComparingN(k)' \in 0 .. PassedN'
          /\ PassedN' \in 0 .. Many
        BY CodesSizes
    <2>3. QED
        BY <1>b, <2>1, <2>2 DEF CodeCounted
<1>3. QED
    BY <1>b, <1>1, <1>2 DEF C!CodesAreSpent

\* The codes begin with nothing sent, counted or asked.
LEMMA CodesInit ==
    ASSUME C!Init
    PROVE  C!IInv
<1>b. /\ OtpAttempts \in Nat \ {0} /\ Many \in Nat /\ MaxCodes \in Nat
      /\ C!Code = 1 .. MaxCodes /\ C!Cardinality(Calls) = Many
    BY PartIsSmaller, CodesCounts, ServicesAssumption DEF ServicesAssumption, C!Code, Many
<1>1. /\ s3 = 0 /\ s4 = 0 /\ s5 = 0 /\ s7 = {} /\ s8 = {} /\ s11 = {} /\ s12 = {}
      /\ s9 = [k \in C!Code |-> 0] /\ s10 = [k \in C!Code |-> 0]
      /\ s6 = [c \in Calls |-> C!Idle]
      /\ s1 \in {"verify", "login", "scoped"} /\ s2 \in {"none", "verified"}
    BY DEF C!Init
<1>2. s6 \in [Calls -> CodeCalls]
    BY <1>1, IdleIsACode
<1>3. CodesTyped
    BY <1>b, <1>1, <1>2 DEF CodesTyped
<1>4. C!TypeOK
    <2>1. s4 \in 0 .. OtpAttempts + C!Cardinality(Calls) - 1
        BY <1>b, <1>1
    <2>2. QED
        BY <1>3, <2>1 DEF C!TypeOK, CodesTyped, CodeCalls
<1>5. C!Passed = {} /\ \A k : C!Readers(k) = {} /\ C!Comparing(k) = {}
    BY <1>1, IdleIsACode DEF C!Passed, C!Readers, C!Comparing, C!At
<1>6. PassedN = 0 /\ \A k : ReadersN(k) = 0 /\ ComparingN(k) = 0
    BY <1>5, FS_EmptySet DEF PassedN, ReadersN, ComparingN
<1>7. CodesCalls
    <2>1. \A c \in Calls : s6[c].step = "idle"
        BY <1>1, IdleIsACode
    <2>2. s4 + PassedN <= OtpAttempts + Many - 1
        BY <1>b, <1>1, <1>6
    <2>3. QED
        BY <2>1, <2>2 DEF CodesCalls
<1>8. ASSUME NEW k \in C!Code
      PROVE  CodeCounted(k)
    <2>1. s9[k] = 0 /\ s10[k] = 0 /\ ReadersN(k) = 0 /\ ComparingN(k) = 0 /\ k # s3
        BY <1>b, <1>1, <1>6
    <2>2. QED
        BY <1>b, <2>1 DEF CodeCounted
<1>9. C!CallsCounted
    BY <1>7, <1>8, CodeByCode
<1>10. QED
    BY <1>1, <1>3, <1>4, <1>9, CodesPromise DEF C!IInv

\* Every step of the codes preserves the invariant.
LEMMA CodesNext ==
    ASSUME C!IInv, C!Next
    PROVE  C!IInv'
<1>1. CodesTyped /\ C!CallsCounted /\ s12 \cap s7 \cap s8 = {}
    BY CodesTypes DEF C!IInv, C!CodesAreSpent
<1>2. CodesTyped' /\ C!CallsCounted'
    BY <1>1, CodesNextSteps, CodesBesidesCounted, CodesStepTyped, CodesCounted
<1>3. C!TypeOK'
    BY <1>2, CodesTypes
<1>4. C!CodesAreSpent'
    BY <1>1, <1>2, CodesLoggedOut, CodesPromise
<1>5. QED
    BY <1>2, <1>3, <1>4 DEF C!IInv

-----------------------------------------------------------------------------
(* StepUp: s1 pin, s2 pins, s3 failed, s4 lock, s5 secret, s6 secrets, s7  *)
(* enabled, s8 call, s9 wrongs, s10 stale, s11 on, s12 proved, s13 crossed *)

FactorCalls ==
    [step : {"idle", "factor", "read", "compared", "code", "write", "setup", "confirm", "off"},
     goal : {"none", "use", "set", "change", "disable"},
     pin : 0 .. MaxPins, failed : 0 .. MaxAttempts - 1,
     lock : {"none", "lapsed"}, secret : 0 .. MaxSecrets]

\* A request's step moves that request alone.
OtherFactors(c) == \A d \in Calls \ {c} : s8'[d] = s8[d]

\* The steps of a request.
FactorSteps(c) ==
    \/ S!SetPin(c) \/ S!UseFactor(c) \/ S!ChooseFactor(c) \/ S!DisableByTotp(c)
    \/ S!ReadPin(c) \/ S!RightPin(c) \/ S!WrongPin(c) \/ S!EmailCode(c) \/ S!WritePin(c)
    \/ S!Setup2fa(c) \/ S!WriteSecret(c) \/ S!Confirm2fa(c) \/ S!Enable(c)
    \/ S!Disable2fa(c) \/ S!Disable(c)
    \/ \E goal \in {"change", "disable"} : S!ChangePin(c, goal)

\* There are no other steps, but that a lock lapses.
LEMMA FactorNextSteps == S!Next <=> S!LockLapses \/ \E c \in Calls : FactorSteps(c)
BY DEF S!Next, FactorSteps

\* A request that waits is a request.
LEMMA IdleIsAFactor == S!Idle \in FactorCalls /\ S!Idle.step = "idle"
<1>1. 0 \in 0 .. MaxAttempts - 1 /\ 0 \in 0 .. MaxPins /\ 0 \in 0 .. MaxSecrets
    BY ServicesAssumption DEF ServicesAssumption
<1>2. QED
    BY <1>1 DEF S!Idle, FactorCalls

\* A request begins with the PIN, or with the code of an email.
LEMMA FactorAsks ==
    ASSUME S!TypeOK, NEW c \in Calls,
           \/ S!SetPin(c) \/ S!UseFactor(c) \/ S!DisableByTotp(c)
           \/ \E goal \in {"change", "disable"} : S!ChangePin(c, goal)
    PROVE  /\ s8' \in [Calls -> FactorCalls] /\ OtherFactors(c)
           /\ s8'[c].step \notin {"setup", "confirm"}
<1>1. PICK step \in {"code", "read", "factor"}, goal \in {"set", "change", "disable", "use"} :
          s8' = [s8 EXCEPT ![c] = [S!Idle EXCEPT !.step = step, !.goal = goal]]
    BY DEF S!SetPin, S!UseFactor, S!DisableByTotp, S!ChangePin
<1> DEFINE j == [S!Idle EXCEPT !.step = step, !.goal = goal]
<1>2. j \in FactorCalls
    BY IdleIsAFactor DEF FactorCalls
<1>3. j.step = step
    BY IdleIsAFactor DEF FactorCalls
<1>4. s8' = [s8 EXCEPT ![c] = j] /\ s8 \in [Calls -> FactorCalls]
    BY <1>1 DEF S!TypeOK, FactorCalls
<1> HIDE DEF j
<1>5. QED
    BY <1>2, <1>3, <1>4 DEF OtherFactors

\* It begins with a right code of the authenticator that is to be enabled.
LEMMA FactorConfirms ==
    ASSUME S!TypeOK, NEW c \in Calls, S!Confirm2fa(c)
    PROVE  /\ s8' \in [Calls -> FactorCalls] /\ OtherFactors(c)
           /\ s8'[c].step = "confirm" /\ s8'[c].secret = s5
<1> DEFINE j == [S!Idle EXCEPT !.step = "confirm", !.secret = s5]
<1>1. j \in FactorCalls
    BY IdleIsAFactor DEF FactorCalls, S!TypeOK
<1>2. j.step = "confirm" /\ j.secret = s5
    BY IdleIsAFactor DEF FactorCalls
<1>3. s8' = [s8 EXCEPT ![c] = j] /\ s8 \in [Calls -> FactorCalls]
    BY DEF S!Confirm2fa, S!TypeOK, FactorCalls
<1> HIDE DEF j
<1>4. QED
    BY <1>1, <1>2, <1>3 DEF OtherFactors

\* It reads the row of a PIN that is not locked.
LEMMA FactorReads ==
    ASSUME S!TypeOK, NEW c \in Calls, S!Seen(c, "compared"), s4 # "locked"
    PROVE  /\ s8' \in [Calls -> FactorCalls] /\ OtherFactors(c)
           /\ s8'[c].step = "compared"
<1> DEFINE j == [s8[c] EXCEPT !.step = "compared", !.pin = s1, !.failed = s3, !.lock = s4]
<1>0. s8 \in [Calls -> FactorCalls] /\ s8[c] \in FactorCalls
    BY DEF S!TypeOK, FactorCalls
<1>1. s8' = [s8 EXCEPT ![c] = j]
    BY <1>0 DEF S!Seen
<1>2. s1 \in 0 .. MaxPins /\ s3 \in 0 .. MaxAttempts - 1 /\ s4 \in {"none", "lapsed"}
    BY DEF S!TypeOK
<1>3. j \in FactorCalls
    BY <1>0, <1>2 DEF FactorCalls
<1>4. j.step = "compared"
    BY <1>0 DEF FactorCalls
<1> HIDE DEF j
<1>5. QED
    BY <1>0, <1>1, <1>3, <1>4 DEF OtherFactors

\* It goes on, or ends.
LEMMA FactorGoto ==
    ASSUME S!TypeOK, NEW c \in Calls,
           NEW step \in {"idle", "factor", "read", "compared", "code", "write", "setup",
                         "confirm", "off"},
           S!Goto(c, step) \/ (S!End(c) /\ step = "idle")
    PROVE  /\ s8' \in [Calls -> FactorCalls] /\ OtherFactors(c)
           /\ s8'[c].step = step
<1>0. s8 \in [Calls -> FactorCalls] /\ s8[c] \in FactorCalls
    BY DEF S!TypeOK, FactorCalls
<1>1. CASE S!Goto(c, step)
    <2> DEFINE j == [s8[c] EXCEPT !.step = step]
    <2>1. s8' = [s8 EXCEPT ![c] = j]
        BY <1>1 DEF S!Goto
    <2>2. j \in FactorCalls /\ j.step = step
        BY <1>0 DEF FactorCalls
    <2> HIDE DEF j
    <2>3. QED
        BY <1>0, <2>1, <2>2 DEF OtherFactors
<1>2. CASE S!End(c) /\ step = "idle"
    <2>1. s8' = [s8 EXCEPT ![c] = S!Idle]
        BY <1>2 DEF S!End
    <2>2. QED
        BY <1>0, <1>2, <2>1, IdleIsAFactor DEF OtherFactors
<1>3. QED
    BY <1>1, <1>2

\* The requests, whatever one of them does.
LEMMA FactorMoves ==
    ASSUME S!TypeOK, NEW c \in Calls, FactorSteps(c)
    PROVE  /\ s8' \in [Calls -> FactorCalls] /\ OtherFactors(c)
           /\ s8'[c].step = "setup" => S!Setup2fa(c)
           /\ s8'[c].step = "confirm" => S!Confirm2fa(c) /\ s8'[c].secret = s5
<1>1. CASE \/ S!SetPin(c) \/ S!UseFactor(c) \/ S!DisableByTotp(c)
           \/ \E goal \in {"change", "disable"} : S!ChangePin(c, goal)
    BY <1>1, FactorAsks
<1>2. CASE S!Confirm2fa(c)
    BY <1>2, FactorConfirms
<1>3. CASE S!ReadPin(c) /\ S!Seen(c, "compared") /\ s4 # "locked"
    BY <1>3, FactorReads
<1>4. CASE S!Setup2fa(c)
    BY <1>4, FactorGoto DEF S!Setup2fa
<1>5. CASE \/ S!ChooseFactor(c) \/ S!RightPin(c) \/ S!WrongPin(c) \/ S!EmailCode(c)
           \/ S!WritePin(c) \/ S!WriteSecret(c) \/ S!Enable(c) \/ S!Disable2fa(c)
           \/ S!Disable(c) \/ (S!ReadPin(c) /\ S!End(c))
    <2>1. PICK step \in {"idle", "read", "code", "write", "off"} :
              S!Goto(c, step) \/ (S!End(c) /\ step = "idle")
        BY <1>5 DEF S!ChooseFactor, S!RightPin, S!Proceed, S!WrongPin, S!EmailCode, S!WritePin,
                    S!WriteSecret, S!Enable, S!Disable2fa, S!Disable
    <2>2. QED
        BY <2>1, FactorGoto
<1>6. QED
    BY <1>1, <1>2, <1>3, <1>4, <1>5 DEF FactorSteps, S!ReadPin

\* The types, but for those of the requests.
FactorRow ==
    /\ s1 \in 0 .. MaxPins /\ s2 \in 0 .. MaxPins
    /\ s3 \in 0 .. MaxAttempts - 1
    /\ s4 \in {"none", "locked", "lapsed"}
    /\ s5 \in 0 .. MaxSecrets /\ s6 \in 0 .. MaxSecrets
    /\ s7 \in BOOLEAN
    /\ s9 \in Nat /\ s10 \in 0 .. MaxStale
    /\ s11 \in BOOLEAN /\ s12 \subseteq 1 .. MaxSecrets /\ s13 \in BOOLEAN

\* They survive what a request does to the row.
LEMMA FactorRowKept ==
    ASSUME S!TypeOK, NEW c \in Calls, FactorSteps(c)
    PROVE  FactorRow'
<1>b. /\ MaxAttempts \in Nat /\ MaxAttempts # 0 /\ MaxPins \in Nat /\ MaxSecrets \in Nat
      /\ MaxStale \in Nat /\ 0 \in 0 .. MaxAttempts - 1
    BY ServicesAssumption DEF ServicesAssumption
<1>t. FactorRow
    BY DEF S!TypeOK, FactorRow
<1>f. s8[c] \in FactorCalls
    BY DEF S!TypeOK, FactorCalls
<1>1. CASE \/ S!SetPin(c) \/ S!UseFactor(c) \/ S!ChooseFactor(c) \/ S!DisableByTotp(c)
           \/ S!ReadPin(c) \/ S!EmailCode(c) \/ S!Setup2fa(c) \/ S!Disable2fa(c)
           \/ \E goal \in {"change", "disable"} : S!ChangePin(c, goal)
    <2>1. UNCHANGED <<s1, s2, s3, s4, s5, s6, s7, s9, s10, s11, s12, s13>>
        BY <1>1 DEF S!SetPin, S!UseFactor, S!ChooseFactor, S!DisableByTotp, S!ReadPin,
                    S!EmailCode, S!Setup2fa, S!Disable2fa, S!ChangePin, S!pinVars, S!totpVars,
                    S!tally
    <2>2. QED
        BY <1>t, <2>1 DEF FactorRow
<1>2. CASE S!RightPin(c)
    <2>1. /\ UNCHANGED <<s1, s2, s5, s6, s7, s10, s11, s12, s13>> /\ s9' = 0
          /\ s3' \in {0, s3} /\ s4' \in {"none", s4}
        BY <1>2 DEF S!RightPin, S!totpVars
    <2>2. QED
        BY <1>b, <1>t, <2>1 DEF FactorRow
<1>3. CASE S!WrongPin(c)
    <2>1. /\ UNCHANGED <<s1, s2, s5, s6, s7, s11, s12, s13>> /\ s9' = s9 + 1
          /\ s10' = s10 \/ (s10 < MaxStale /\ s10' = s10 + 1)
          /\ s4' \in {"none", "locked"}
          /\ s3' = 0 \/ (s3' = s8[c].failed + 1 /\ ~(s8[c].failed + 1 >= MaxAttempts))
        BY <1>3 DEF S!WrongPin, S!ShouldLock, S!totpVars
    <2>2. s8[c].failed \in 0 .. MaxAttempts - 1
        BY <1>f DEF FactorCalls
    <2>3. s3' \in 0 .. MaxAttempts - 1
        BY <1>b, <2>1, <2>2
    <2>4. s9' \in Nat /\ s10' \in 0 .. MaxStale
        BY <1>b, <1>t, <2>1 DEF FactorRow
    <2>5. QED
        BY <1>t, <2>1, <2>3, <2>4 DEF FactorRow
<1>4. CASE S!WritePin(c)
    <2>1. /\ UNCHANGED <<s5, s6, s7, s10, s11, s12, s13>> /\ s3' = 0 /\ s4' = "none" /\ s9' = 0
          /\ \/ s1' = 0 /\ s2' = s2
             \/ s2 < MaxPins /\ s1' = s2 + 1 /\ s2' = s2 + 1
        BY <1>4 DEF S!WritePin, S!totpVars
    <2>2. s1' \in 0 .. MaxPins /\ s2' \in 0 .. MaxPins
        BY <1>b, <1>t, <2>1 DEF FactorRow
    <2>3. QED
        BY <1>b, <1>t, <2>1, <2>2 DEF FactorRow
<1>5. CASE S!WriteSecret(c)
    <2>1. /\ UNCHANGED <<s1, s2, s3, s4, s9, s10, s11, s12>> /\ s7' = FALSE /\ s13' \in BOOLEAN
          /\ s6 < MaxSecrets /\ s5' = s6 + 1 /\ s6' = s6 + 1
        BY <1>5 DEF S!WriteSecret, S!pinVars, S!tally
    <2>2. s5' \in 0 .. MaxSecrets /\ s6' \in 0 .. MaxSecrets
        BY <1>b, <1>t, <2>1 DEF FactorRow
    <2>3. QED
        BY <1>t, <2>1, <2>2 DEF FactorRow
<1>6. CASE S!Confirm2fa(c)
    <2>1. /\ UNCHANGED <<s1, s2, s3, s4, s5, s6, s7, s9, s10, s11, s13>>
          /\ s5 # 0 /\ s12' = s12 \cup {s5}
        BY <1>6 DEF S!Confirm2fa, S!pinVars, S!totpVars, S!tally
    <2>2. s5 \in 1 .. MaxSecrets
        BY <1>b, <1>t, <2>1 DEF FactorRow
    <2>3. s12' \subseteq 1 .. MaxSecrets
        BY <1>t, <2>1, <2>2 DEF FactorRow
    <2>4. QED
        BY <1>t, <2>1, <2>3 DEF FactorRow
<1>7. CASE S!Enable(c) \/ S!Disable(c)
    <2>1. /\ UNCHANGED <<s1, s2, s3, s4, s6, s9, s10, s12>> /\ s5' \in {0, s5}
          /\ s7' \in BOOLEAN /\ s11' \in BOOLEAN /\ s13' \in BOOLEAN
        BY <1>7 DEF S!Enable, S!Disable, S!pinVars, S!tally
    <2>2. QED
        BY <1>b, <1>t, <2>1 DEF FactorRow
<1>8. QED
    BY <1>1, <1>2, <1>3, <1>4, <1>5, <1>6, <1>7 DEF FactorSteps

\* The types survive.
LEMMA FactorTypes ==
    ASSUME S!TypeOK, S!Next
    PROVE  S!TypeOK'
<1>1. CASE S!LockLapses
    BY <1>1 DEF S!LockLapses, S!TypeOK, S!totpVars
<1>2. ASSUME NEW c \in Calls, FactorSteps(c)
      PROVE  S!TypeOK'
    <2>1. FactorRow' /\ s8' \in [Calls -> FactorCalls]
        BY <1>2, FactorRowKept, FactorMoves
    <2>2. QED
        BY <2>1 DEF S!TypeOK, FactorRow, FactorCalls
<1>3. QED
    BY <1>1, <1>2, FactorNextSteps

\* How many wrong entries the stale ones account for, and one more of them.
LEMMA FactorWindow ==
    ASSUME NEW n \in Nat
    PROVE  /\ MaxAttempts * n \in Nat
           /\ MaxAttempts * (n + 1) = MaxAttempts * n + MaxAttempts
           /\ MaxAttempts * (1 + n) = MaxAttempts * n + MaxAttempts
BY ServicesAssumption DEF ServicesAssumption

\* Every wrong entry stays accounted for.
LEMMA FactorWrongs ==
    ASSUME S!TypeOK, S!WrongsCounted, S!Next
    PROVE  S!WrongsCounted'
<1>b. MaxAttempts \in Nat /\ MaxAttempts # 0
    BY ServicesAssumption DEF ServicesAssumption
<1>t. s3 \in Nat /\ s3 <= MaxAttempts - 1 /\ s9 \in Nat /\ s10 \in Nat /\ s3' \in Nat
    <2>1. S!TypeOK'
        BY FactorTypes
    <2>2. QED
        BY <1>b, <2>1, ServicesAssumption DEF S!TypeOK, ServicesAssumption
<1>p. /\ MaxAttempts * s10 \in Nat
      /\ MaxAttempts * (s10 + 1) = MaxAttempts * s10 + MaxAttempts
    BY <1>t, FactorWindow
<1>w. s9 <= MaxAttempts * s10 + (IF s4 = "locked" THEN MaxAttempts ELSE s3)
    BY DEF S!WrongsCounted
\* None are left to account for.
<1>1. CASE s9' = 0 /\ s10' = s10
    <2>1. (IF s4' = "locked" THEN MaxAttempts ELSE s3') \in Nat
        BY <1>b, <1>t
    <2>2. \A x, y \in Nat : 0 <= x + y
        OBVIOUS
    <2>3. 0 <= MaxAttempts * s10 + (IF s4' = "locked" THEN MaxAttempts ELSE s3')
        BY <1>p, <2>1, <2>2
    <2>4. QED
        BY <1>1, <2>3 DEF S!WrongsCounted
\* Nobody touched the PIN's part of the row.
<1>2. CASE s9' = s9 /\ s10' = s10 /\ s3' = s3 /\ s4' = s4
    BY <1>2 DEF S!WrongsCounted
\* A wrong one.
<1>3. ASSUME NEW c \in Calls, S!WrongPin(c)
      PROVE  S!WrongsCounted'
    <2> DEFINE newer == <<s3, s4, s1>> # <<s8[c].failed, s8[c].lock, s8[c].pin>>
    <2>1. /\ s3' = IF S!ShouldLock(s8[c].failed + 1) THEN 0 ELSE s8[c].failed + 1
          /\ s4' = IF S!ShouldLock(s8[c].failed + 1) THEN "locked" ELSE "none"
          /\ s9' = s9 + 1 /\ s10' = IF newer THEN s10 + 1 ELSE s10
        BY <1>3 DEF S!WrongPin
    <2>2. s8[c].failed \in Nat /\ s8[c].lock # "locked" /\ s8[c].failed <= MaxAttempts - 1
        <3>1. s8[c].failed \in 0 .. MaxAttempts - 1 /\ s8[c].lock \in {"none", "lapsed"}
            BY DEF S!TypeOK
        <3>2. QED
            BY <1>b, <3>1
    <2>3. /\ s8[c].failed + 1 >= MaxAttempts => s3' = 0 /\ s4' = "locked"
          /\ ~(s8[c].failed + 1 >= MaxAttempts) => s3' = s8[c].failed + 1 /\ s4' = "none"
        BY <2>1 DEF S!ShouldLock
    <2>4. CASE newer
        <3>1. s10' = s10 + 1
            BY <2>1, <2>4
        <3>2. s9' <= MaxAttempts * s10 + MaxAttempts + 1
            BY <1>b, <1>t, <1>p, <1>w, <2>1
        <3>3. 1 <= (IF s4' = "locked" THEN MaxAttempts ELSE s3')
            BY <1>b, <2>2, <2>3
        <3>4. s9' <= MaxAttempts * (s10 + 1) + (IF s4' = "locked" THEN MaxAttempts ELSE s3')
            BY <1>b, <1>t, <1>p, <2>1, <3>2, <3>3
        <3>5. QED
            BY <3>1, <3>4 DEF S!WrongsCounted
    <2>5. CASE ~newer
        <3>1. s10' = s10 /\ s3 = s8[c].failed /\ s4 # "locked"
            BY <2>1, <2>2, <2>5
        <3>2. s9' <= MaxAttempts * s10 + s3 + 1
            BY <1>t, <1>p, <1>w, <2>1, <3>1
        <3>3. s3 + 1 <= (IF s4' = "locked" THEN MaxAttempts ELSE s3')
            BY <1>b, <1>t, <2>3, <3>1
        <3>4. s9' <= MaxAttempts * s10 + (IF s4' = "locked" THEN MaxAttempts ELSE s3')
            BY <1>b, <1>t, <1>p, <2>1, <3>2, <3>3
        <3>5. QED
            BY <3>1, <3>4 DEF S!WrongsCounted
    <2>6. QED
        BY <2>4, <2>5
\* The others.
<1>4. CASE S!LockLapses
    BY <1>1, <1>4 DEF S!LockLapses
<1>5. ASSUME NEW c \in Calls, FactorSteps(c)
      PROVE  S!WrongsCounted'
    <2>1. CASE S!RightPin(c) \/ S!WritePin(c)
        BY <1>1, <2>1 DEF S!RightPin, S!WritePin
    <2>2. CASE ~(S!RightPin(c) \/ S!WritePin(c) \/ S!WrongPin(c))
        <3>1. s9' = s9 /\ s10' = s10 /\ s3' = s3 /\ s4' = s4
            BY <1>5, <2>2 DEF FactorSteps, S!SetPin, S!UseFactor, S!ChooseFactor,
                   S!DisableByTotp, S!ReadPin, S!EmailCode, S!Setup2fa, S!Disable2fa,
                   S!ChangePin, S!WriteSecret, S!Confirm2fa, S!Enable, S!Disable, S!pinVars,
                   S!tally
        <3>2. QED
            BY <1>2, <3>1
    <2>3. QED
        BY <1>3, <2>1, <2>2
<1>6. QED
    BY <1>4, <1>5, FactorNextSteps

\* Of the steps that write the authenticator, none crosses another request's.
LEMMA FactorAuthenticator ==
    ASSUME S!TypeOK, S!AuthenticatorHolds, S!RowAsRead, S!Next
    PROVE  S!AuthenticatorHolds' /\ S!RowAsRead'
<1> SUFFICES ASSUME ~s13'
             PROVE  /\ s11' = s7' /\ (s7' => s5' \in s12')
                    /\ \A d \in Calls :
                          /\ s8'[d].step = "setup" => ~s7'
                          /\ s8'[d].step = "confirm" => s8'[d].secret = s5' /\ s5' \in s12'
    BY DEF S!AuthenticatorHolds, S!RowAsRead, S!At
<1>r. ASSUME ~s13
      PROVE  /\ s11 = s7 /\ (s7 => s5 \in s12)
             /\ \A d \in Calls :
                   /\ s8[d].step = "setup" => ~s7
                   /\ s8[d].step = "confirm" => s8[d].secret = s5 /\ s5 \in s12
    BY <1>r DEF S!AuthenticatorHolds, S!RowAsRead, S!At
<1>1. CASE S!LockLapses
    BY <1>1, <1>r DEF S!LockLapses, S!totpVars
<1>2. ASSUME NEW c \in Calls, FactorSteps(c)
      PROVE  /\ s11' = s7' /\ (s7' => s5' \in s12')
             /\ \A d \in Calls :
                   /\ s8'[d].step = "setup" => ~s7'
                   /\ s8'[d].step = "confirm" => s8'[d].secret = s5' /\ s5' \in s12'
    <2>m. /\ \A d \in Calls \ {c} : s8'[d] = s8[d]
          /\ s8'[c].step = "setup" => S!Setup2fa(c)
          /\ s8'[c].step = "confirm" => S!Confirm2fa(c) /\ s8'[c].secret = s5
        BY <1>2, FactorMoves DEF OtherFactors
    \* The write that ends a request about the authenticator.
    <2>1. CASE S!WriteSecret(c) \/ S!Enable(c) \/ S!Disable(c)
        <3>1. ~s13 /\ ~S!Busy(c)
            BY <2>1 DEF S!WriteSecret, S!Enable, S!Disable
        <3>2. \A d \in Calls \ {c} : s8'[d].step \notin {"setup", "confirm"}
            BY <2>m, <3>1 DEF S!Busy
        <3>3. s8'[c].step \notin {"setup", "confirm"}
            <4>1. ~S!Setup2fa(c) /\ ~S!Confirm2fa(c)
                BY <2>1 DEF S!WriteSecret, S!Enable, S!Disable, S!Setup2fa, S!Confirm2fa, S!At
            <4>2. QED
                BY <2>m, <4>1
        <3>4. s11' = s7' /\ (s7' => s5' \in s12')
            <4>1. CASE S!WriteSecret(c)
                <5>1. s8[c].step = "setup" /\ s7' = FALSE /\ s11' = s11
                    BY <4>1 DEF S!WriteSecret, S!At
                <5>2. QED
                    BY <1>r, <3>1, <5>1 DEF S!TypeOK
            <4>2. CASE S!Enable(c)
                <5>1. /\ s8[c].step = "confirm" /\ s7' = TRUE /\ s11' = TRUE
                      /\ s5' = s5 /\ s12' = s12
                    BY <4>2 DEF S!Enable, S!At
                <5>2. QED
                    BY <1>r, <3>1, <5>1
            <4>3. CASE S!Disable(c)
                BY <4>3 DEF S!Disable
            <4>4. QED
                BY <2>1, <4>1, <4>2, <4>3
        <3>5. QED
            BY <3>2, <3>3, <3>4
    \* The others leave it alone, but that a right code is shown for its secret.
    <2>2. CASE ~(S!WriteSecret(c) \/ S!Enable(c) \/ S!Disable(c))
        <3>1. /\ s13' = s13 /\ s11' = s11 /\ s7' = s7 /\ s5' = s5
              /\ s12' = s12 \/ (S!Confirm2fa(c) /\ s12' = s12 \cup {s5})
            BY <1>2, <2>2 DEF FactorSteps, S!SetPin, S!UseFactor, S!ChooseFactor,
                   S!DisableByTotp, S!ReadPin, S!RightPin, S!WrongPin, S!EmailCode,
                   S!WritePin, S!Setup2fa, S!Confirm2fa, S!Disable2fa, S!ChangePin, S!totpVars
        <3>2. S!Setup2fa(c) => ~s7
            BY DEF S!Setup2fa, S!MaySetup
        <3>3. S!Confirm2fa(c) => s5 \in s12'
            BY DEF S!Confirm2fa
        <3>4. ASSUME NEW d \in Calls
              PROVE  /\ s8'[d].step = "setup" => ~s7'
                     /\ s8'[d].step = "confirm" => s8'[d].secret = s5' /\ s5' \in s12'
            <4>1. CASE d = c
                BY <2>m, <3>1, <3>2, <3>3, <4>1
            <4>2. CASE d # c
                BY <1>r, <2>m, <3>1, <4>2
            <4>3. QED
                BY <4>1, <4>2
        <3>5. QED
            BY <1>r, <3>1, <3>4
    <2>3. QED
        BY <2>1, <2>2
<1>3. QED
    BY <1>1, <1>2, FactorNextSteps

\* The factors begin with none set.
LEMMA FactorInit ==
    ASSUME S!Init
    PROVE  S!IInv
<1>1. /\ s1 = 0 /\ s2 = 0 /\ s3 = 0 /\ s4 = "none" /\ s5 = 0 /\ s6 = 0 /\ s7 = FALSE
      /\ s8 = [c \in Calls |-> S!Idle] /\ s9 = 0 /\ s10 = 0 /\ s11 = FALSE /\ s12 = {}
      /\ s13 = FALSE
    BY DEF S!Init
<1>2. S!TypeOK
    <2>1. s8 \in [Calls -> FactorCalls]
        BY <1>1, IdleIsAFactor
    <2>2. /\ 0 \in 0 .. MaxAttempts - 1 /\ 0 \in 0 .. MaxPins /\ 0 \in 0 .. MaxSecrets
          /\ 0 \in 0 .. MaxStale
        BY ServicesAssumption DEF ServicesAssumption
    <2>3. FactorRow
        BY <1>1, <2>2 DEF FactorRow
    <2>4. QED
        BY <2>1, <2>3 DEF S!TypeOK, FactorRow, FactorCalls
<1>3. S!WrongsCounted
    <2>1. MaxAttempts * 0 = 0
        BY ServicesAssumption DEF ServicesAssumption
    <2>2. QED
        BY <1>1, <2>1 DEF S!WrongsCounted
<1>4. S!AuthenticatorHolds /\ S!RowAsRead
    BY <1>1, IdleIsAFactor DEF S!AuthenticatorHolds, S!RowAsRead, S!At
<1>5. QED
    BY <1>2, <1>3, <1>4 DEF S!IInv

\* Every step of the factors preserves the invariant.
LEMMA FactorNext ==
    ASSUME S!IInv, S!Next
    PROVE  S!IInv'
BY FactorTypes, FactorWrongs, FactorAuthenticator DEF S!IInv

\* It implies what is promised of them: a counter is below the limit.
LEMMA FactorPromise ==
    ASSUME S!IInv
    PROVE  S!FactorsHold
<1>1. /\ MaxAttempts \in Nat /\ s3 \in Nat /\ s3 <= MaxAttempts /\ s9 \in Nat /\ s10 \in Nat
      /\ s9 <= MaxAttempts * s10 + (IF s4 = "locked" THEN MaxAttempts ELSE s3)
    <2>1. s3 \in 0 .. MaxAttempts - 1 /\ s9 \in Nat /\ s10 \in 0 .. MaxStale
        BY DEF S!IInv, S!TypeOK
    <2>2. QED
        BY <2>1, ServicesAssumption DEF S!IInv, S!WrongsCounted, ServicesAssumption
<1>2. MaxAttempts * s10 \in Nat /\ MaxAttempts * (1 + s10) = MaxAttempts * s10 + MaxAttempts
    BY <1>1, FactorWindow
<1>3. s9 <= MaxAttempts * s10 + MaxAttempts
    BY <1>1, <1>2
<1>4. QED
    BY <1>2, <1>3 DEF S!IInv, S!FactorsHold, S!LockHolds

-----------------------------------------------------------------------------
(* OpsAuth: s1 secret, s2 secrets, s3 enabled, s4 active, s5 issued, s6    *)
(* challenges, s7 tokens, s8 call, s9 live, s10 sessions, s11 proved, s12  *)
(* enrolled, s13 crossed                                                   *)

OpsCalls ==
    [step : {"idle", "challenge", "token", "verify", "burn", "start", "secret",
             "confirm", "redeem", "enable", "session"},
     token : 0 .. MaxTokens, secret : 0 .. MaxSecrets]

\* A request's step moves that request alone.
OtherOps(c) == \A d \in Calls \ {c} : s8'[d] = s8[d]

HoldersN(t) == Cardinality(O!Holders(t))
LetInN      == Cardinality(O!LetIn)

\* The steps that hold a token, and those that need nobody's leave any more.
Holding  == {"verify", "burn", "confirm", "redeem", "enable", "session"}
Admitted == {"burn", "redeem", "enable", "session"}

\* What TokensCounted says of one request, and of one token.
OpsCallTrue(c) ==
    /\ s8[c].step \in Holding => s8[c].token \in 1 .. s5
    /\ s8[c].step \in {"verify", "burn"} => s8[c].token \notin s7
    /\ s8[c].step \in {"confirm", "redeem"} => s8[c].token \notin s6
    /\ s8[c].step \in {"enable", "session"} => s8[c].token \notin s6 \cup s7
TokenCounted(t) ==
    /\ s10[t] > 0 => t <= s5 /\ t \notin s6 \cup s7
    /\ s10[t] + HoldersN(t) <= Many

\* The rest of it.
OpsTokens ==
    /\ s6 \cup s7 \subseteq 1 .. s5
    /\ s6 \cap s7 = {}
    /\ ~s4 => s9 + LetInN <= Many

\* The operators' log-in counts as everybody does.
LEMMA OpsCounts == \A Q : O!Cardinality(Q) = Cardinality(Q)
BY DEF O!Cardinality, Cardinality

\* TokensCounted, part by part, before a step and after.
LEMMA TokenByToken ==
    /\ O!TokensCounted <=>
          OpsTokens /\ (\A c \in Calls : OpsCallTrue(c)) /\ (\A t \in O!Token : TokenCounted(t))
    /\ O!TokensCounted' <=>
          OpsTokens' /\ (\A c \in Calls : OpsCallTrue(c)') /\ (\A t \in O!Token : TokenCounted(t)')
BY OpsCounts
   DEF O!TokensCounted, OpsTokens, OpsCallTrue, TokenCounted, HoldersN, LetInN, Many, Holding

\* The sizes are numbers.
LEMMA OpsSizes ==
    /\ LetInN \in 0 .. Many /\ LetInN' \in 0 .. Many
    /\ \A t : HoldersN(t) \in 0 .. Many /\ HoldersN(t)' \in 0 .. Many
<1>1. /\ O!LetIn \in SUBSET Calls /\ (O!LetIn)' \in SUBSET Calls
      /\ \A t : O!Holders(t) \in SUBSET Calls /\ O!Holders(t)' \in SUBSET Calls
    BY DEF O!LetIn, O!Holders
<1>2. QED
    BY <1>1, PartIsSmaller DEF LetInN, HoldersN

\* What a request is counted for.
HoldsIn(c, t) == IF s8[c].token = t /\ s8[c].step \in Holding THEN 1 ELSE 0
AdmitIn(c)    == IF s8[c].step \in Admitted THEN 1 ELSE 0

\* The counts, whatever becomes of one request.
LEMMA OpsMove ==
    ASSUME NEW c \in Calls, OtherOps(c)
    PROVE  /\ LetInN' = LetInN + AdmitIn(c)' - AdmitIn(c)
           /\ \A t : HoldersN(t)' = HoldersN(t) + HoldsIn(c, t)' - HoldsIn(c, t)
<1>1. LetInN' = LetInN + AdmitIn(c)' - AdmitIn(c)
    <2>1. /\ O!LetIn \in SUBSET Calls /\ (O!LetIn)' \in SUBSET Calls
          /\ O!LetIn \ {c} = (O!LetIn)' \ {c}
          /\ c \in O!LetIn <=> s8[c].step \in Admitted
          /\ c \in (O!LetIn)' <=> s8'[c].step \in Admitted
        BY DEF O!LetIn, OtherOps, Admitted
    <2>2. QED
        BY <2>1, OneMoves DEF LetInN, AdmitIn
<1>2. ASSUME NEW t
      PROVE  HoldersN(t)' = HoldersN(t) + HoldsIn(c, t)' - HoldsIn(c, t)
    <2>1. /\ O!Holders(t) \in SUBSET Calls /\ O!Holders(t)' \in SUBSET Calls
          /\ O!Holders(t) \ {c} = O!Holders(t)' \ {c}
          /\ c \in O!Holders(t) <=> s8[c].token = t /\ s8[c].step \in Holding
          /\ c \in O!Holders(t)' <=> s8'[c].token = t /\ s8'[c].step \in Holding
        BY DEF O!Holders, OtherOps, Holding
    <2>2. QED
        BY <2>1, OneMoves DEF HoldersN, HoldsIn
<1>3. QED
    BY <1>1, <1>2

\* The steps of a request.
OpsSteps(c) ==
    \/ O!Login(c) \/ O!Issue(c) \/ O!Verify(c) \/ O!Burn(c) \/ O!Start(c) \/ O!WriteSecret(c)
    \/ O!Confirm(c) \/ O!RedeemToken(c) \/ O!Enable(c) \/ O!OpenSession(c)
    \/ \E t \in O!Token, step \in {"verify", "start", "confirm"} : O!Redeem(c, t, step)

\* What happens besides.
OpsBesides == (\E t \in O!Token : O!Expires(t)) \/ O!Logout \/ O!Disable

\* There are no other steps.
LEMMA OpsNextSteps == O!Next <=> OpsBesides \/ \E c \in Calls : OpsSteps(c)
BY DEF O!Next, OpsSteps, OpsBesides

\* A request that waits is a request.
LEMMA IdleIsAnOps == O!Idle \in OpsCalls /\ O!Idle.step = "idle"
<1>1. 0 \in 0 .. MaxTokens /\ 0 \in 0 .. MaxSecrets
    BY ServicesAssumption DEF ServicesAssumption
<1>2. QED
    BY <1>1 DEF O!Idle, OpsCalls

\* It goes on, or ends.
LEMMA OpsGoto ==
    ASSUME s8 \in [Calls -> OpsCalls], NEW c \in Calls,
           NEW step \in {"idle", "challenge", "token", "verify", "burn", "start", "secret",
                         "confirm", "redeem", "enable", "session"},
           O!Goto(c, step) \/ (O!End(c) /\ step = "idle")
    PROVE  /\ s8' \in [Calls -> OpsCalls] /\ OtherOps(c)
           /\ s8'[c].step = step
           /\ step # "idle" => s8'[c].token = s8[c].token
<1>1. CASE O!Goto(c, step)
    <2> DEFINE j == [s8[c] EXCEPT !.step = step]
    <2>1. s8' = [s8 EXCEPT ![c] = j]
        BY <1>1 DEF O!Goto
    <2>2. j \in OpsCalls /\ j.step = step /\ j.token = s8[c].token
        BY DEF OpsCalls
    <2> HIDE DEF j
    <2>3. QED
        BY <2>1, <2>2 DEF OtherOps
<1>2. CASE O!End(c) /\ step = "idle"
    <2>1. s8' = [s8 EXCEPT ![c] = O!Idle]
        BY <1>2 DEF O!End
    <2>2. QED
        BY <1>2, <2>1, IdleIsAnOps DEF OtherOps
<1>3. QED
    BY <1>1, <1>2

\* It begins with a token.
LEMMA OpsRedeems ==
    ASSUME s8 \in [Calls -> OpsCalls], NEW c \in Calls, NEW t \in O!Token,
           NEW step \in {"verify", "start", "confirm"}, O!Redeem(c, t, step)
    PROVE  /\ s8' \in [Calls -> OpsCalls] /\ OtherOps(c)
           /\ s8'[c].step = step /\ s8'[c].token = t
<1> DEFINE j == [O!Idle EXCEPT !.step = step, !.token = t]
<1>1. t \in 0 .. MaxTokens
    BY ServicesAssumption DEF ServicesAssumption, O!Token
<1>2. j \in OpsCalls
    BY <1>1, IdleIsAnOps DEF OpsCalls
<1>3. j.step = step /\ j.token = t
    BY IdleIsAnOps DEF OpsCalls
<1>4. s8' = [s8 EXCEPT ![c] = j]
    BY DEF O!Redeem
<1> HIDE DEF j
<1>5. QED
    BY <1>2, <1>3, <1>4 DEF OtherOps

\* The types of the numbers that count, and of the requests.
OpsNumbers ==
    /\ s4 \in BOOLEAN /\ s5 \in 0 .. MaxTokens
    /\ s8 \in [Calls -> OpsCalls]
    /\ s9 \in Nat /\ s10 \in [O!Token -> Nat]

\* The numbers of one token, as they are and as they will be.
TokenSizes(t) ==
    /\ t \in Nat /\ t # 0 /\ s10[t] \in Nat
    /\ HoldersN(t) \in Nat /\ HoldersN(t)' \in Nat /\ HoldersN(t)' <= Many

\* The counts survive what a request does.
LEMMA OpsCounted ==
    ASSUME OpsNumbers, O!TokensCounted, NEW c \in Calls, OpsSteps(c)
    PROVE  O!TokensCounted' /\ s8' \in [Calls -> OpsCalls] /\ OtherOps(c)
<1>b. /\ Many \in Nat /\ MaxTokens \in Nat /\ O!Token = 1 .. MaxTokens
      /\ s5 \in Nat /\ s9 \in Nat /\ LetInN \in Nat /\ LetInN' \in Nat /\ LetInN' <= Many
    BY PartIsSmaller, OpsSizes, ServicesAssumption DEF ServicesAssumption, O!Token, OpsNumbers
<1>f. s8 \in [Calls -> OpsCalls] /\ s8[c] \in OpsCalls /\ s10 \in [O!Token -> Nat]
    BY DEF OpsNumbers
<1>o. OpsTokens /\ (\A d \in Calls : OpsCallTrue(d)) /\ (\A t \in O!Token : TokenCounted(t))
    BY TokenByToken
<1>k. ASSUME NEW t \in O!Token
      PROVE  TokenSizes(t) /\ TokenCounted(t)
    <2>1. HoldersN(t) \in 0 .. Many /\ HoldersN(t)' \in 0 .. Many
        BY OpsSizes
    <2>2. t \in Nat /\ t # 0 /\ s10[t] \in Nat
        BY <1>b, <1>f
    <2>3. QED
        BY <1>b, <1>o, <2>1, <2>2 DEF TokenSizes
\* Together.
<1>q. ASSUME s8' \in [Calls -> OpsCalls], OtherOps(c), s5' \in Nat, s5 <= s5',
             s6' \cap (1 .. s5) \subseteq s6, s7' \cap (1 .. s5) \subseteq s7,
             OpsCallTrue(c)', OpsTokens', \A t \in O!Token : TokenCounted(t)'
      PROVE  O!TokensCounted' /\ s8' \in [Calls -> OpsCalls] /\ OtherOps(c)
    <2>1. ASSUME NEW d \in Calls, d # c
          PROVE  OpsCallTrue(d)'
        <3>1. s8'[d] = s8[d] /\ OpsCallTrue(d)
            BY <1>q, <1>o, <2>1 DEF OtherOps
        <3>2. s8[d].step \in Holding => s8[d].token \in 1 .. s5'
            BY <1>b, <1>q, <3>1 DEF OpsCallTrue
        <3>3. QED
            BY <1>q, <3>1, <3>2 DEF OpsCallTrue, Holding
    <2>2. QED
        BY <1>q, <2>1, TokenByToken
\* Nobody is given a token, or let in.
<1>1. ASSUME s8' \in [Calls -> OpsCalls], OtherOps(c), s8'[c].step \notin Holding,
             s4' = s4 /\ s5' = s5 /\ s6' = s6 /\ s7' = s7 /\ s9' = s9 /\ s10' = s10
      PROVE  O!TokensCounted' /\ s8' \in [Calls -> OpsCalls] /\ OtherOps(c)
    <2>1. LetInN' <= LetInN
        BY <1>1, <1>b, OpsMove DEF AdmitIn, Holding, Admitted
    <2>2. OpsTokens'
        <3>1. ~s4' => s9' + LetInN' <= Many
            <4>1. \A x, y, z, n \in Nat : x + y <= n /\ z <= y => x + z <= n
                OBVIOUS
            <4>2. ~s4 => s9 + LetInN <= Many
                BY <1>o DEF OpsTokens
            <4>3. QED
                BY <1>1, <1>b, <2>1, <4>1, <4>2
        <3>2. s6' \cup s7' \subseteq 1 .. s5' /\ s6' \cap s7' = {}
            BY <1>1, <1>o DEF OpsTokens
        <3>3. QED
            BY <3>1, <3>2 DEF OpsTokens
    <2>3. OpsCallTrue(c)'
        BY <1>1 DEF OpsCallTrue, Holding
    <2>4. ASSUME NEW t \in O!Token
          PROVE  TokenCounted(t)'
        <3>1. TokenSizes(t) /\ TokenCounted(t)
            BY <1>k
        <3>2. HoldersN(t)' <= HoldersN(t)
            BY <1>1, <3>1, OpsMove DEF HoldsIn, TokenSizes
        <3>3. QED
            BY <1>1, <1>b, <3>1, <3>2 DEF TokenCounted, TokenSizes
    <2>5. QED
        BY <1>1, <1>b, <1>q, <2>2, <2>3, <2>4
\* A request keeps its token, and is one that is let in as it was, unless the
\* operator is active.
<1>2. ASSUME s8' \in [Calls -> OpsCalls], OtherOps(c), s8[c].step \in Holding,
             s8'[c].step \in Holding, s8'[c].token = s8[c].token,
             s4 \/ (s8'[c].step \in Admitted => s8[c].step \in Admitted),
             s6' \subseteq s6, s7' \subseteq s7, OpsCallTrue(c)',
             s4' = s4 /\ s5' = s5 /\ s9' = s9 /\ s10' = s10
      PROVE  O!TokensCounted' /\ s8' \in [Calls -> OpsCalls] /\ OtherOps(c)
    <2>1. ~s4 => LetInN' <= LetInN
        BY <1>2, <1>b, OpsMove DEF AdmitIn
    <2>2. OpsTokens'
        <3>1. ~s4' => s9' + LetInN' <= Many
            <4>1. \A x, y, z, n \in Nat : x + y <= n /\ z <= y => x + z <= n
                OBVIOUS
            <4>2. ~s4 => s9 + LetInN <= Many
                BY <1>o DEF OpsTokens
            <4>3. QED
                BY <1>2, <1>b, <2>1, <4>1, <4>2
        <3>2. s6' \cup s7' \subseteq 1 .. s5' /\ s6' \cap s7' = {}
            BY <1>2, <1>o DEF OpsTokens
        <3>3. QED
            BY <3>1, <3>2 DEF OpsTokens
    <2>3. ASSUME NEW t \in O!Token
          PROVE  TokenCounted(t)'
        <3>1. TokenSizes(t) /\ TokenCounted(t)
            BY <1>k
        <3>2. HoldersN(t)' = HoldersN(t)
            BY <1>2, <3>1, OpsMove DEF HoldsIn, TokenSizes
        <3>3. QED
            BY <1>2, <1>b, <3>1, <3>2 DEF TokenCounted, TokenSizes
    <2>4. QED
        BY <1>2, <1>b, <1>q, <2>2, <2>3
\* A token is issued, which is nobody's yet.
<1>3. CASE O!Issue(c)
    <2>1. /\ s8' \in [Calls -> OpsCalls] /\ OtherOps(c) /\ s8'[c].step = "idle"
          /\ s8[c].step \in {"challenge", "token"}
        BY <1>3, <1>f, OpsGoto DEF O!Issue
    <2>2. /\ s4' = s4 /\ s5' = s5 + 1 /\ s9' = s9 /\ s10' = s10
          /\ \/ s6' = s6 \cup {s5 + 1} /\ s7' = s7
             \/ s7' = s7 \cup {s5 + 1} /\ s6' = s6
        BY <1>3 DEF O!Issue, O!row, O!ghosts
    <2>3. LetInN' = LetInN
        BY <1>b, <2>1, OpsMove DEF AdmitIn, Admitted
    <2>4. s5 + 1 \notin 1 .. s5 /\ 1 .. s5 \subseteq 1 .. s5' /\ s5 + 1 \in 1 .. s5'
        BY <1>b, <2>2
    <2>5. OpsTokens'
        BY <1>b, <1>o, <2>2, <2>3, <2>4 DEF OpsTokens
    <2>6. OpsCallTrue(c)'
        BY <2>1 DEF OpsCallTrue, Holding
    <2>7. ASSUME NEW t \in O!Token
          PROVE  TokenCounted(t)'
        <3>1. TokenSizes(t) /\ TokenCounted(t)
            BY <1>k
        <3>2. HoldersN(t)' = HoldersN(t)
            BY <2>1, <3>1, OpsMove DEF HoldsIn, TokenSizes, Holding
        <3>3. t <= s5 => t # s5 + 1 /\ t <= s5'
            BY <1>b, <2>2, <3>1 DEF TokenSizes
        <3>4. QED
            BY <2>2, <3>1, <3>2, <3>3 DEF TokenCounted, TokenSizes
    <2>8. s5' \in Nat /\ s5 <= s5'
        BY <1>b, <2>2
    <2>9. s6' \cap (1 .. s5) \subseteq s6 /\ s7' \cap (1 .. s5) \subseteq s7
        BY <2>2, <2>4
    <2>10. QED
        BY <1>q, <2>1, <2>5, <2>6, <2>7, <2>8, <2>9
\* A request brings a token, with which no session was opened.
<1>4. ASSUME NEW t \in O!Token, NEW step \in {"verify", "confirm"}, O!Redeem(c, t, step)
      PROVE  O!TokensCounted' /\ s8' \in [Calls -> OpsCalls] /\ OtherOps(c)
    <2>1. /\ s8' \in [Calls -> OpsCalls] /\ OtherOps(c)
          /\ s8'[c].step = step /\ s8'[c].token = t
        BY <1>4, <1>f, OpsRedeems
    <2>2. /\ s4' = s4 /\ s5' = s5 /\ s6' = s6 /\ s7' = s7 /\ s9' = s9 /\ s10' = s10
          /\ s8[c].step = "idle" /\ t \in IF step = "verify" THEN s6 ELSE s7
        BY <1>4 DEF O!Redeem, O!At, O!row, O!keys, O!ghosts
    <2>3. LetInN' = LetInN
        BY <1>b, <2>1, <2>2, OpsMove DEF AdmitIn, Admitted
    <2>4. OpsTokens'
        BY <1>b, <1>o, <2>2, <2>3 DEF OpsTokens
    <2>5. OpsCallTrue(c)'
        BY <1>o, <2>1, <2>2 DEF OpsCallTrue, OpsTokens
    <2>6. ASSUME NEW u \in O!Token
          PROVE  TokenCounted(u)'
        <3>1. TokenSizes(u) /\ TokenCounted(u)
            BY <1>k
        <3>2. CASE u = t
            <4>1. s10[u] = 0
                BY <2>2, <3>1, <3>2 DEF TokenCounted, TokenSizes
            <4>2. QED
                BY <1>b, <2>2, <3>1, <4>1 DEF TokenCounted, TokenSizes
        <3>3. CASE u # t
            <4>1. HoldersN(u)' = HoldersN(u)
                BY <2>1, <2>2, <3>1, <3>3, OpsMove DEF HoldsIn, TokenSizes, Holding
            <4>2. QED
                BY <2>2, <3>1, <4>1 DEF TokenCounted
        <3>4. QED
            BY <3>2, <3>3
    <2>7. QED
        BY <1>b, <1>q, <2>1, <2>2, <2>4, <2>5, <2>6
\* A session takes the place of the request that opens it.
<1>5. CASE O!OpenSession(c)
    <2>1. /\ s8' \in [Calls -> OpsCalls] /\ OtherOps(c)
          /\ s8[c].step = "session" /\ s8'[c].step = "idle"
        BY <1>5, <1>f, OpsGoto DEF O!OpenSession, O!At
    <2>2. /\ s4' = s4 /\ s5' = s5 /\ s6' = s6 /\ s7' = s7 /\ s9' = s9 + 1
          /\ s10' = [s10 EXCEPT ![s8[c].token] = s10[s8[c].token] + 1]
        BY <1>5 DEF O!OpenSession, O!row
    <2>3. LetInN' = LetInN - 1
        BY <1>b, <2>1, OpsMove DEF AdmitIn, Admitted
    <2>4. OpsTokens'
        BY <1>b, <1>o, <2>2, <2>3 DEF OpsTokens
    <2>5. OpsCallTrue(c)'
        BY <2>1 DEF OpsCallTrue, Holding
    <2>6. s8[c].token \in 1 .. s5 /\ s8[c].token \notin s6 \cup s7
        BY <1>o, <2>1 DEF OpsCallTrue, Holding
    <2>7. ASSUME NEW t \in O!Token
          PROVE  TokenCounted(t)'
        <3>1. TokenSizes(t) /\ TokenCounted(t)
            BY <1>k
        <3>2. HoldersN(t)' = HoldersN(t) - (IF t = s8[c].token THEN 1 ELSE 0)
            BY <2>1, <3>1, OpsMove DEF HoldsIn, TokenSizes, Holding
        <3>3. s10'[t] = s10[t] + (IF t = s8[c].token THEN 1 ELSE 0)
            BY <1>f, <2>2, <3>1 DEF TokenSizes
        <3>4. t = s8[c].token => t <= s5
            BY <1>b, <2>6
        <3>5. QED
            BY <1>b, <2>2, <2>6, <3>1, <3>2, <3>3, <3>4 DEF TokenCounted, TokenSizes
    <2>8. QED
        BY <1>b, <1>q, <2>1, <2>2, <2>4, <2>5, <2>7
\* Each step.
<1>6. CASE O!Login(c) \/ O!Start(c) \/ O!WriteSecret(c)
           \/ ((O!Verify(c) \/ O!Confirm(c)) /\ O!End(c))
    <2>1. PICK step \in {"idle", "challenge", "token", "secret"} :
              O!Goto(c, step) \/ (O!End(c) /\ step = "idle")
        BY <1>6 DEF O!Login, O!Start, O!WriteSecret
    <2>2. s8' \in [Calls -> OpsCalls] /\ OtherOps(c) /\ s8'[c].step = step
        BY <1>f, <2>1, OpsGoto
    <2>3. s4' = s4 /\ s5' = s5 /\ s6' = s6 /\ s7' = s7 /\ s9' = s9 /\ s10' = s10
        BY <1>6 DEF O!Login, O!Start, O!WriteSecret, O!Verify, O!Confirm, O!row, O!keys,
                    O!ghosts
    <2>4. QED
        BY <1>1, <2>2, <2>3 DEF Holding
<1>7. ASSUME NEW t \in O!Token, O!Redeem(c, t, "start")
      PROVE  O!TokensCounted' /\ s8' \in [Calls -> OpsCalls] /\ OtherOps(c)
    <2>1. s8' \in [Calls -> OpsCalls] /\ OtherOps(c) /\ s8'[c].step = "start"
        BY <1>7, <1>f, OpsRedeems
    <2>2. s4' = s4 /\ s5' = s5 /\ s6' = s6 /\ s7' = s7 /\ s9' = s9 /\ s10' = s10
        BY <1>7 DEF O!Redeem, O!row, O!keys, O!ghosts
    <2>3. QED
        BY <1>1, <2>1, <2>2 DEF Holding
<1>8. CASE \/ O!Verify(c) /\ s4 /\ O!Goto(c, "burn")
           \/ O!Confirm(c) /\ s4 /\ O!Goto(c, "redeem")
           \/ O!Burn(c) \/ O!RedeemToken(c) \/ O!Enable(c)
    <2>1. PICK step \in {"burn", "redeem", "session", "enable"} :
              /\ O!Goto(c, step)
              /\ \/ O!Verify(c) /\ s4 /\ step = "burn"
                 \/ O!Confirm(c) /\ s4 /\ step = "redeem"
                 \/ O!Burn(c) /\ step = "session"
                 \/ O!RedeemToken(c) /\ step = "enable"
                 \/ O!Enable(c) /\ step = "session"
        BY <1>8 DEF O!Burn, O!RedeemToken, O!Enable
    <2>2. /\ s8' \in [Calls -> OpsCalls] /\ OtherOps(c) /\ s8'[c].step = step
          /\ s8'[c].token = s8[c].token
        BY <1>f, <2>1, OpsGoto
    <2>3. /\ O!Verify(c) => s8[c].step = "verify" /\ s6' = s6 /\ s7' = s7
          /\ O!Confirm(c) => s8[c].step = "confirm" /\ s6' = s6 /\ s7' = s7
          /\ O!Burn(c) => s8[c].step = "burn" /\ s6' = s6 \ {s8[c].token} /\ s7' = s7
          /\ O!RedeemToken(c) => s8[c].step = "redeem" /\ s7' = s7 \ {s8[c].token} /\ s6' = s6
          /\ O!Enable(c) => s8[c].step = "enable" /\ s6' = s6 /\ s7' = s7
        BY DEF O!Verify, O!Confirm, O!Burn, O!Burned, O!RedeemToken, O!Enable, O!At, O!keys
    <2>4. s4' = s4 /\ s5' = s5 /\ s9' = s9 /\ s10' = s10
        BY <2>1 DEF O!Verify, O!Confirm, O!Burn, O!RedeemToken, O!Enable, O!row, O!keys,
                    O!ghosts
    <2>5. s8[c].step \in Holding /\ s8'[c].step \in Holding /\ s6' \subseteq s6 /\ s7' \subseteq s7
        BY <2>1, <2>2, <2>3 DEF Holding
    <2>6. OpsCallTrue(c)'
        <3>1. OpsCallTrue(c)
            BY <1>o
        <3>2. QED
            BY <2>1, <2>2, <2>3, <2>4, <2>5, <3>1 DEF OpsCallTrue
    <2>7. s4 \/ (s8'[c].step \in Admitted => s8[c].step \in Admitted)
        BY <2>1, <2>3 DEF Admitted
    <2>8. QED
        BY <1>2, <2>2, <2>4, <2>5, <2>6, <2>7
<1>9. QED
    <2>1. O!Verify(c) => O!End(c) \/ (s4 /\ O!Goto(c, "burn"))
        BY DEF O!Verify
    <2>2. O!Confirm(c) => O!End(c) \/ (s4 /\ O!Goto(c, "redeem"))
        BY DEF O!Confirm
    <2>3. QED
        BY <1>3, <1>4, <1>5, <1>6, <1>7, <1>8, <2>1, <2>2 DEF OpsSteps

\* The types, but for those of the requests.
OpsRow ==
    /\ s1 \in 0 .. MaxSecrets /\ s2 \in 0 .. MaxSecrets /\ s3 \in BOOLEAN /\ s4 \in BOOLEAN
    /\ s5 \in 0 .. MaxTokens
    /\ s6 \subseteq O!Token /\ s7 \subseteq O!Token
    /\ s9 \in Nat
    /\ s10 \in [O!Token -> Nat] /\ s11 \subseteq 1 .. MaxSecrets
    /\ s12 \in BOOLEAN /\ s13 \in BOOLEAN

\* They survive what a request does.
LEMMA OpsRowKept ==
    ASSUME O!TypeOK, O!TokensCounted, NEW c \in Calls, OpsSteps(c)
    PROVE  OpsRow'
<1>b. MaxTokens \in Nat /\ MaxSecrets \in Nat /\ O!Token = 1 .. MaxTokens
    BY ServicesAssumption DEF ServicesAssumption, O!Token
<1>t. OpsRow
    BY DEF O!TypeOK, OpsRow
<1>1. CASE \/ O!Login(c) \/ O!Verify(c) \/ O!Start(c)
           \/ \E t \in O!Token, step \in {"verify", "start", "confirm"} : O!Redeem(c, t, step)
    <2>1. UNCHANGED <<s1, s2, s3, s4, s5, s6, s7, s9, s10, s11, s12, s13>>
        BY <1>1 DEF O!Login, O!Verify, O!Start, O!Redeem, O!row, O!keys, O!ghosts
    <2>2. QED
        BY <1>t, <2>1 DEF OpsRow
<1>2. CASE O!Issue(c)
    <2>1. /\ UNCHANGED <<s1, s2, s3, s4, s9, s10, s11, s12, s13>>
          /\ s5 < MaxTokens /\ s5' = s5 + 1
          /\ s6' \subseteq s6 \cup {s5 + 1} /\ s7' \subseteq s7 \cup {s5 + 1}
        BY <1>2 DEF O!Issue, O!row, O!ghosts
    <2>2. s5' \in 0 .. MaxTokens /\ s5 + 1 \in O!Token
        BY <1>b, <1>t, <2>1 DEF OpsRow
    <2>3. QED
        BY <1>t, <2>1, <2>2 DEF OpsRow
<1>3. CASE O!Burn(c) \/ O!RedeemToken(c)
    <2>1. /\ UNCHANGED <<s1, s2, s3, s4, s5, s9, s10, s11, s12, s13>>
          /\ s6' \subseteq s6 /\ s7' \subseteq s7
        BY <1>3 DEF O!Burn, O!RedeemToken, O!row, O!ghosts
    <2>2. QED
        BY <1>t, <2>1 DEF OpsRow
<1>4. CASE O!WriteSecret(c)
    <2>1. /\ UNCHANGED <<s4, s5, s6, s7, s9, s10, s11, s12>> /\ s3' = FALSE /\ s13' \in BOOLEAN
          /\ s2 < MaxSecrets /\ s1' = s2 + 1 /\ s2' = s2 + 1
        BY <1>4 DEF O!WriteSecret, O!keys
    <2>2. s1' \in 0 .. MaxSecrets /\ s2' \in 0 .. MaxSecrets
        BY <1>b, <1>t, <2>1 DEF OpsRow
    <2>3. QED
        BY <1>t, <2>1, <2>2 DEF OpsRow
<1>5. CASE O!Confirm(c)
    <2>1. /\ UNCHANGED <<s1, s2, s3, s4, s5, s6, s7, s9, s10, s12, s13>>
          /\ s11' = s11 \/ (s1 # 0 /\ s11' = s11 \cup {s1})
        BY <1>5 DEF O!Confirm, O!row, O!keys
    <2>2. s1 # 0 => s1 \in 1 .. MaxSecrets
        BY <1>b, <1>t DEF OpsRow
    <2>3. QED
        BY <1>t, <2>1, <2>2 DEF OpsRow
<1>6. CASE O!Enable(c)
    <2>1. UNCHANGED <<s1, s2, s4, s5, s6, s7, s9, s10, s11, s13>> /\ s3' = TRUE /\ s12' = TRUE
        BY <1>6 DEF O!Enable, O!keys
    <2>2. QED
        BY <1>t, <2>1 DEF OpsRow
<1>7. CASE O!OpenSession(c)
    <2>1. /\ UNCHANGED <<s1, s2, s3, s4, s5, s6, s7, s11, s12, s13>> /\ s9' = s9 + 1
          /\ s10' = [s10 EXCEPT ![s8[c].token] = s10[s8[c].token] + 1]
          /\ s8[c].step = "session"
        BY <1>7 DEF O!OpenSession, O!row, O!At
    <2>2. s8[c].token \in O!Token
        <3>1. s8[c].token \in 1 .. s5
            BY <2>1, TokenByToken DEF OpsCallTrue, Holding
        <3>2. QED
            BY <1>b, <1>t, <3>1 DEF OpsRow
    <2>3. s9' \in Nat /\ s10' \in [O!Token -> Nat]
        BY <1>t, <2>1, <2>2 DEF OpsRow
    <2>4. QED
        BY <1>t, <2>1, <2>3 DEF OpsRow
<1>8. QED
    BY <1>1, <1>2, <1>3, <1>4, <1>5, <1>6, <1>7 DEF OpsSteps

\* A key that lapses, a session that ends and an operator who is disabled
\* leave the types and the counts.
LEMMA OpsBesidesCounted ==
    ASSUME O!TypeOK, O!TokensCounted, OpsBesides
    PROVE  O!TypeOK' /\ O!TokensCounted'
<1>1. /\ UNCHANGED <<s1, s2, s3, s5, s8, s10, s11, s12, s13>>
      /\ s6' \subseteq s6 /\ s7' \subseteq s7
    BY DEF OpsBesides, O!Expires, O!Logout, O!Disable, O!row, O!ghosts
<1>2. \/ s4' = s4 /\ s9' = s9
      \/ s4' = s4 /\ s9 > 0 /\ s9' = s9 - 1
      \/ s4' = FALSE /\ s9' = 0
    BY DEF OpsBesides, O!Expires, O!Logout, O!Disable, O!row
<1>t. s9 \in Nat /\ s4 \in BOOLEAN /\ Many \in Nat /\ LetInN \in Nat /\ LetInN <= Many
    BY OpsSizes, PartIsSmaller DEF O!TypeOK
<1>n. s9' \in Nat /\ (s9' = 0 \/ s9' <= s9)
    BY <1>2, <1>t
<1>3. O!TypeOK'
    <2>1. s4' \in BOOLEAN
        BY <1>2, <1>t
    <2>2. QED
        BY <1>1, <1>n, <2>1 DEF O!TypeOK
<1>4. LetInN' = LetInN /\ \A t : HoldersN(t)' = HoldersN(t)
    BY <1>1 DEF LetInN, HoldersN, O!LetIn, O!Holders
<1>o. OpsTokens /\ (\A d \in Calls : OpsCallTrue(d)) /\ (\A t \in O!Token : TokenCounted(t))
    BY TokenByToken
<1>5. OpsTokens'
    <2>1. ~s4' => s9' + LetInN' <= Many
        <3>1. CASE s9' = 0
            BY <1>t, <1>4, <3>1
        <3>2. CASE s9' # 0
            <4>1. s9' <= s9 /\ s4' = s4
                BY <1>2, <1>n, <3>2
            <4>2. ~s4 => s9 + LetInN <= Many
                BY <1>o DEF OpsTokens
            <4>3. \A x, y, z, n \in Nat : y + z <= n /\ x <= y => x + z <= n
                OBVIOUS
            <4>4. QED
                BY <1>t, <1>n, <1>4, <4>1, <4>2, <4>3
        <3>3. QED
            BY <3>1, <3>2
    <2>2. s6' \cup s7' \subseteq 1 .. s5' /\ s6' \cap s7' = {}
        BY <1>1, <1>o DEF OpsTokens
    <2>3. QED
        BY <2>1, <2>2 DEF OpsTokens
<1>6. ASSUME NEW d \in Calls
      PROVE  OpsCallTrue(d)'
    <2>1. OpsCallTrue(d) /\ s8' = s8 /\ s5' = s5
        BY <1>1, <1>o
    <2>2. QED
        BY <1>1, <2>1 DEF OpsCallTrue
<1>7. ASSUME NEW t \in O!Token
      PROVE  TokenCounted(t)'
    <2>1. TokenCounted(t) /\ HoldersN(t)' = HoldersN(t) /\ s10' = s10 /\ s5' = s5
        BY <1>1, <1>4, <1>o
    <2>2. QED
        BY <1>1, <2>1 DEF TokenCounted
<1>8. QED
    BY <1>3, <1>5, <1>6, <1>7, TokenByToken

\* The types and the counts survive.
LEMMA OpsTypesAndCounts ==
    ASSUME O!TypeOK, O!TokensCounted, O!Next
    PROVE  O!TypeOK' /\ O!TokensCounted'
<1>1. OpsNumbers
    BY DEF OpsNumbers, O!TypeOK, OpsCalls
<1>2. ASSUME NEW c \in Calls, OpsSteps(c)
      PROVE  O!TypeOK' /\ O!TokensCounted'
    <2>1. OpsRow' /\ O!TokensCounted' /\ s8' \in [Calls -> OpsCalls]
        BY <1>1, <1>2, OpsRowKept, OpsCounted
    <2>2. QED
        BY <2>1 DEF O!TypeOK, OpsRow, OpsCalls
<1>3. QED
    BY <1>2, OpsBesidesCounted, OpsNextSteps

\* Until enrolments cross, the one that ends is the one whose secret was shown.
OpsEnrolled ==
    ~s13 => /\ s12 => s3
            /\ s3 => s1 \in s11
            /\ \A d \in Calls : s8[d].step \in {"redeem", "enable"} => s1 \in s11

\* Every step of an operator's keeps it.
LEMMA OpsEnrolment ==
    ASSUME O!TypeOK, O!TokensCounted, OpsEnrolled, O!Next
    PROVE  OpsEnrolled'
<1> SUFFICES ASSUME ~s13'
             PROVE  /\ s12' => s3'
                    /\ s3' => s1' \in s11'
                    /\ \A d \in Calls : s8'[d].step \in {"redeem", "enable"} => s1' \in s11'
    BY DEF OpsEnrolled
<1>1. CASE OpsBesides
    <2>1. UNCHANGED <<s1, s3, s8, s11, s12, s13>>
        BY <1>1 DEF OpsBesides, O!Expires, O!Logout, O!Disable, O!row, O!ghosts
    <2>2. QED
        BY <2>1 DEF OpsEnrolled
<1>2. ASSUME NEW c \in Calls, OpsSteps(c)
      PROVE  /\ s12' => s3'
             /\ s3' => s1' \in s11'
             /\ \A d \in Calls : s8'[d].step \in {"redeem", "enable"} => s1' \in s11'
    <2>m. OtherOps(c) /\ s8 \in [Calls -> OpsCalls]
        <3>1. OpsNumbers
            BY DEF OpsNumbers, O!TypeOK, OpsCalls
        <3>2. QED
            BY <1>2, <3>1, OpsCounted DEF OpsNumbers
    <2>1. CASE O!WriteSecret(c)
        <3>1. /\ s3' = FALSE /\ s12' = s12 /\ ~s13 /\ s3 = FALSE
              /\ \A d \in Calls : s8[d].step \notin {"redeem", "enable"}
            BY <2>1 DEF O!WriteSecret, O!TypeOK
        <3>2. s8'[c].step = "idle"
            BY <2>1, <2>m, OpsGoto DEF O!WriteSecret
        <3>3. QED
            BY <2>m, <3>1, <3>2 DEF OpsEnrolled, OtherOps
    <2>2. CASE O!Confirm(c)
        <3>1. /\ s1' = s1 /\ s3' = s3 /\ s12' = s12 /\ s13' = s13 /\ s11 \subseteq s11'
              /\ O!End(c) \/ s1 \in s11'
            BY <2>2 DEF O!Confirm, O!row
        <3>2. O!End(c) => s8'[c].step = "idle"
            BY <2>m, OpsGoto
        <3>3. QED
            BY <2>m, <3>1, <3>2 DEF OpsEnrolled, OtherOps
    <2>3. CASE O!RedeemToken(c)
        <3>1. UNCHANGED <<s1, s3, s11, s12, s13>> /\ s8[c].step = "redeem"
            BY <2>3 DEF O!RedeemToken, O!row, O!ghosts, O!At
        <3>2. QED
            BY <2>m, <3>1 DEF OpsEnrolled, OtherOps
    <2>4. CASE O!Enable(c)
        <3>1. /\ s1' = s1 /\ s3' = TRUE /\ s11' = s11 /\ s13' = s13
              /\ s8[c].step = "enable"
            BY <2>4 DEF O!Enable, O!At
        <3>2. QED
            BY <2>m, <3>1 DEF OpsEnrolled, OtherOps
    <2>5. CASE \/ O!Login(c) \/ O!Issue(c) \/ O!Verify(c) \/ O!Burn(c) \/ O!Start(c)
               \/ O!OpenSession(c)
        <3>1. UNCHANGED <<s1, s3, s11, s12, s13>>
            BY <2>5 DEF O!Login, O!Issue, O!Verify, O!Burn, O!Start, O!OpenSession, O!row,
                        O!ghosts
        <3>2. PICK step \in {"idle", "challenge", "token", "burn", "session", "secret"} :
                  O!Goto(c, step) \/ (O!End(c) /\ step = "idle")
            BY <2>5 DEF O!Login, O!Issue, O!Verify, O!Burn, O!Start, O!OpenSession
        <3>3. s8'[c].step \notin {"redeem", "enable"}
            BY <2>m, <3>2, OpsGoto
        <3>4. QED
            BY <2>m, <3>1, <3>3 DEF OpsEnrolled, OtherOps
    <2>6. ASSUME NEW t \in O!Token, NEW step \in {"verify", "start", "confirm"},
                 O!Redeem(c, t, step)
          PROVE  /\ s12' => s3'
                 /\ s3' => s1' \in s11'
                 /\ \A d \in Calls : s8'[d].step \in {"redeem", "enable"} => s1' \in s11'
        <3>1. UNCHANGED <<s1, s3, s11, s12, s13>>
            BY <2>6 DEF O!Redeem, O!row, O!ghosts
        <3>2. s8'[c].step \notin {"redeem", "enable"}
            BY <2>6, <2>m, OpsRedeems
        <3>3. QED
            BY <2>m, <3>1, <3>2 DEF OpsEnrolled, OtherOps
    <2>7. QED
        BY <1>2, <2>1, <2>2, <2>3, <2>4, <2>5, <2>6 DEF OpsSteps
<1>3. QED
    BY <1>1, <1>2, OpsNextSteps

\* The counts imply the promise about tokens and sessions, before a step and
\* after it.
LEMMA OpsPromise ==
    /\ O!TypeOK /\ O!TokensCounted /\ OpsEnrolled => O!IInv
    /\ O!TypeOK' /\ O!TokensCounted' /\ OpsEnrolled' => O!IInv'
    /\ O!IInv => OpsEnrolled
<1>b. Many \in Nat /\ O!Cardinality(Calls) = Many
    BY PartIsSmaller, OpsCounts DEF Many
<1>1. ASSUME O!TypeOK, O!TokensCounted
      PROVE  (~s4 => s9 <= Many) /\ \A t \in O!Token : s10[t] <= Many
    <2>1. OpsTokens /\ s9 \in Nat /\ LetInN \in Nat
        BY <1>1, TokenByToken, OpsSizes, PartIsSmaller DEF O!TypeOK
    <2>2. ~s4 => s9 <= Many
        BY <1>b, <2>1 DEF OpsTokens
    <2>3. ASSUME NEW t \in O!Token
          PROVE  s10[t] <= Many
        <3>1. TokenCounted(t) /\ s10[t] \in Nat /\ HoldersN(t) \in Nat
            BY <1>1, TokenByToken, OpsSizes, PartIsSmaller DEF O!TypeOK
        <3>2. QED
            BY <1>b, <3>1 DEF TokenCounted
    <2>4. QED
        BY <2>2, <2>3
<1>2. ASSUME O!TypeOK', O!TokensCounted'
      PROVE  (~s4' => s9' <= Many) /\ \A t \in O!Token : s10'[t] <= Many
    <2>1. OpsTokens' /\ s9' \in Nat /\ LetInN' \in Nat
        BY <1>2, TokenByToken, OpsSizes, PartIsSmaller DEF O!TypeOK
    <2>2. ~s4' => s9' <= Many
        <3>1. ~s4' => s9' + LetInN' <= Many
            BY <2>1 DEF OpsTokens
        <3>2. \A x, y, n \in Nat : x + y <= n => x <= n
            OBVIOUS
        <3>3. QED
            BY <1>b, <2>1, <3>1, <3>2
    <2>3. ASSUME NEW t \in O!Token
          PROVE  s10'[t] <= Many
        <3>1. TokenCounted(t)' /\ s10'[t] \in Nat /\ HoldersN(t)' \in Nat
            BY <1>2, TokenByToken, OpsSizes, PartIsSmaller DEF O!TypeOK
        <3>2. QED
            BY <1>b, <3>1 DEF TokenCounted
    <2>4. QED
        BY <2>2, <2>3
<1>3. QED
    BY <1>b, <1>1, <1>2 DEF O!IInv, O!EnrolmentHolds, O!AboutToEnable, OpsEnrolled

\* An operator begins with no authenticator, token or session.
LEMMA OpsInit ==
    ASSUME O!Init
    PROVE  O!IInv
<1>b. /\ 0 \in 0 .. MaxTokens /\ 0 \in 0 .. MaxSecrets /\ Many \in Nat
      /\ O!Token = 1 .. MaxTokens
    BY PartIsSmaller, ServicesAssumption DEF ServicesAssumption, O!Token
<1>1. /\ s1 = 0 /\ s2 = 0 /\ s3 = FALSE /\ s4 = TRUE /\ s5 = 0 /\ s6 = {} /\ s7 = {}
      /\ s8 = [c \in Calls |-> O!Idle] /\ s9 = 0 /\ s10 = [t \in O!Token |-> 0]
      /\ s11 = {} /\ s12 = FALSE /\ s13 = FALSE
    BY DEF O!Init
<1>2. O!TypeOK
    <2>1. s8 \in [Calls -> OpsCalls]
        BY <1>1, IdleIsAnOps
    <2>2. OpsRow
        BY <1>b, <1>1 DEF OpsRow
    <2>3. QED
        BY <2>1, <2>2 DEF O!TypeOK, OpsRow, OpsCalls
<1>3. \A c \in Calls : s8[c].step = "idle"
    BY <1>1, IdleIsAnOps
<1>4. OpsTokens /\ \A c \in Calls : OpsCallTrue(c)
    BY <1>1, <1>3 DEF OpsTokens, OpsCallTrue, Holding
<1>5. ASSUME NEW t \in O!Token
      PROVE  TokenCounted(t)
    <2>1. s10[t] = 0 /\ HoldersN(t) \in 0 .. Many
        BY <1>1, OpsSizes
    <2>2. QED
        BY <1>b, <2>1 DEF TokenCounted
<1>6. OpsEnrolled
    BY <1>1, <1>3 DEF OpsEnrolled
<1>7. QED
    BY <1>2, <1>4, <1>5, <1>6, TokenByToken, OpsPromise

\* Every step of an operator's log-in preserves the invariant.
LEMMA OpsNext ==
    ASSUME O!IInv, O!Next
    PROVE  O!IInv'
BY OpsTypesAndCounts, OpsEnrolment, OpsPromise DEF O!IInv

-----------------------------------------------------------------------------
(* The services together *)

AccessInv ==
    /\ mode = "codes"  => C!IInv
    /\ mode = "stepup" => S!IInv
    /\ mode = "ops"    => O!IInv

\* Whichever service begins.
LEMMA AccessInit == Init => AccessInv
BY CodesInit, FactorInit, OpsInit DEF Init, AccessInv

\* Whichever service moves, or none.
LEMMA AccessNext ==
    ASSUME AccessInv, [Next]_vars
    PROVE  AccessInv'
<1>1. CASE Next
    <2>1. mode' = mode
        BY <1>1 DEF Next, Rest
    <2>2. CASE mode = "codes"
        BY <1>1, <2>1, <2>2, CodesNext DEF Next, AccessInv
    <2>3. CASE mode = "stepup"
        BY <1>1, <2>1, <2>3, FactorNext DEF Next, AccessInv
    <2>4. CASE mode = "ops"
        BY <1>1, <2>1, <2>4, OpsNext DEF Next, AccessInv
    <2>5. QED
        BY <2>1, <2>2, <2>3, <2>4 DEF AccessInv
<1>2. CASE UNCHANGED vars
    <2>1. C!IInv => C!IInv'
        BY <1>2 DEF vars, C!IInv, C!TypeOK, C!CallsCounted, C!CodesAreSpent, C!Passed,
                    C!Comparing, C!Readers, C!At
    <2>2. S!IInv => S!IInv'
        BY <1>2 DEF vars, S!IInv, S!TypeOK, S!WrongsCounted, S!AuthenticatorHolds, S!RowAsRead,
                    S!At
    <2>3. O!IInv => O!IInv'
        BY <1>2 DEF vars, O!IInv, O!TypeOK, O!TokensCounted, O!AboutToEnable, O!EnrolmentHolds,
                    O!Holders, O!LetIn
    <2>4. mode' = mode
        BY <1>2 DEF vars
    <2>5. QED
        BY <2>1, <2>2, <2>3, <2>4 DEF AccessInv
<1>3. QED
    BY <1>1, <1>2

\* What lets somebody in is spent, counted and proved: a one-time code, but for
\* the calls that overlap and the counters a resend clears; the attempts at a
\* PIN and the authenticator that replaces it; an operator's challenge, their
\* enrolment and, once they are disabled, their sessions.
THEOREM AccessIsHeld == Spec => []AccessHolds
<1>1. AccessInv => AccessHolds
    BY FactorPromise DEF AccessInv, AccessHolds, C!IInv, O!IInv
<1>2. QED
    BY <1>1, AccessInit, AccessNext, PTL DEF Spec

-----------------------------------------------------------------------------
(* The ledger: s1 principal, s2 collateral, s3 rate, s4 now, s5 rows, s6   *)
(* repaid                                                                  *)

\* What is so at 0, and at n + 1 when it is at n, is so up to N.
LEMMA UpwardFrom0 ==
    ASSUME NEW N1 \in Nat, NEW Q \in SUBSET (0 .. N1), 0 \in Q,
           \A n \in 1 .. N1 : n - 1 \in Q => n \in Q
    PROVE  Q = 0 .. N1
<1> DEFINE Rest1 == (0 .. N1) \ Q
<1>1. CASE Rest1 = {}
    BY <1>1
<1>2. CASE Rest1 # {}
    <2>0. Rest1 \in SUBSET Nat
        OBVIOUS
    <2>1. PICK x \in Rest1 : \A y \in Rest1 : x <= y
        <3> HIDE DEF Rest1
        <3>1. QED
            BY <1>2, <2>0, LeastNumber
    <2>2. x \in 1 .. N1 /\ x - 1 \in 0 .. N1
        BY <2>1
    <2>3. x - 1 \in Q
        BY <2>1, <2>2
    <2>4. QED
        BY <2>1, <2>2, <2>3
<1>3. QED
    BY <1>1, <1>2

\* The first n values that a step from each to the next makes.
Iterates(n, V, base, g) ==
    {f \in [0 .. n -> V] : f[0] = base /\ \A k \in 1 .. n : f[k] = g[<<f[k - 1], k>>]}

\* There are such values for every number of steps.
LEMMA StepsIterate ==
    ASSUME NEW V, NEW base \in V, NEW N1 \in Nat, NEW g \in [V \X (1 .. N1) -> V]
    PROVE  Iterates(N1, V, base, g) # {}
<1> DEFINE Q == {n \in 0 .. N1 : Iterates(n, V, base, g) # {}}
<1>1. 0 \in Q
    <2>1. [k \in 0 .. 0 |-> base] \in Iterates(0, V, base, g)
        BY DEF Iterates
    <2>2. QED
        BY <2>1
<1>2. ASSUME NEW n \in 1 .. N1, n - 1 \in Q
      PROVE  n \in Q
    <2>1. PICK f \in Iterates(n - 1, V, base, g) : TRUE
        BY <1>2
    <2> DEFINE h == [k \in 0 .. n |-> IF k = n THEN g[<<f[n - 1], n>>] ELSE f[k]]
    <2>2. f \in [0 .. n - 1 -> V] /\ f[0] = base
          /\ \A k \in 1 .. n - 1 : f[k] = g[<<f[k - 1], k>>]
        BY <2>1 DEF Iterates
    <2>3. f[n - 1] \in V /\ <<f[n - 1], n>> \in V \X (1 .. N1)
        BY <2>2
    <2>4. g[<<f[n - 1], n>>] \in V
        BY <2>3
    <2>5. h \in [0 .. n -> V] /\ h[0] = base
        BY <2>2, <2>4
    <2>6. ASSUME NEW k \in 1 .. n
          PROVE  h[k] = g[<<h[k - 1], k>>]
        <3>1. k - 1 \in 0 .. n - 1 /\ h[k - 1] = f[k - 1]
            OBVIOUS
        <3>2. CASE k = n
            <4>1. h[k] = g[<<f[k - 1], k>>]
                BY <3>2
            <4>2. QED
                <5> HIDE DEF h
                <5>1. QED
                    BY <3>1, <4>1
        <3>3. CASE k # n
            BY <3>1, <3>3, <2>2
        <3>4. QED
            BY <3>2, <3>3
    <2>7. h \in Iterates(n, V, base, g)
        BY <2>5, <2>6 DEF Iterates
    <2>8. QED
        BY <2>7
<1>3. Q \in SUBSET (0 .. N1)
    OBVIOUS
<1>4. Q = 0 .. N1
    <2> HIDE DEF Q
    <2>1. QED
        BY <1>1, <1>2, <1>3, UpwardFrom0
<1>5. QED
    BY <1>4

\* Where two functions are alike, up to n.
Alike(f, h, n) == {k \in 0 .. n : f[k] = h[k]}

\* Two functions that begin alike and go on alike are alike.
LEMMA SameSteps ==
    ASSUME NEW N1 \in Nat, NEW f, NEW h, 0 \in Alike(f, h, N1),
           \A n \in 1 .. N1 : n - 1 \in Alike(f, h, N1) => n \in Alike(f, h, N1)
    PROVE  Alike(f, h, N1) = 0 .. N1
<1>1. Alike(f, h, N1) \in SUBSET (0 .. N1)
    BY DEF Alike
<1>2. QED
    BY <1>1, UpwardFrom0

-----------------------------------------------------------------------------
(* Sums                                                                    *)

\* A sum begins with nothing and takes one number after the other.
LEMMA SumIterates ==
    ASSUME NEW s \in Seq(Int)
    PROVE  \E f :
              /\ f \in [0 .. Len(s) -> Int]
              /\ f = [n \in 0 .. Len(s) |-> IF n = 0 THEN 0 ELSE f[n - 1] + s[n]]
              /\ L!Sum(s) = f[Len(s)]
<1> DEFINE g == [vn \in Int \X (1 .. Len(s)) |-> vn[1] + s[vn[2]]]
<1>1. Len(s) \in Nat /\ \A n \in 1 .. Len(s) : s[n] \in Int
    OBVIOUS
<1>2. g \in [Int \X (1 .. Len(s)) -> Int]
    BY <1>1
<1>3. \A v \in Int, n \in 1 .. Len(s) : g[<<v, n>>] = v + s[n]
    OBVIOUS
<1>4. PICK f \in Iterates(Len(s), Int, 0, g) : TRUE
    <2> HIDE DEF g
    <2>1. 0 \in Int
        OBVIOUS
    <2>2. QED
        BY <1>1, <1>2, <2>1, StepsIterate
<1>5. f \in [0 .. Len(s) -> Int] /\ f[0] = 0 /\ \A n \in 1 .. Len(s) : f[n] = f[n - 1] + s[n]
    <2> HIDE DEF g
    <2>1. f \in [0 .. Len(s) -> Int] /\ f[0] = 0
          /\ \A n \in 1 .. Len(s) : f[n] = g[<<f[n - 1], n>>]
        BY <1>4 DEF Iterates
    <2>2. \A n \in 1 .. Len(s) : f[n - 1] \in Int
        BY <1>1, <2>1
    <2>3. QED
        BY <1>3, <2>1, <2>2
<1>6. f = [n \in 0 .. Len(s) |-> IF n = 0 THEN 0 ELSE f[n - 1] + s[n]]
    BY <1>1, <1>5
<1> DEFINE chosen == CHOOSE sum : sum = [n \in 0 .. Len(s) |-> IF n = 0 THEN 0 ELSE sum[n - 1] + s[n]]
<1>7. chosen = [n \in 0 .. Len(s) |-> IF n = 0 THEN 0 ELSE chosen[n - 1] + s[n]]
    BY <1>6
<1>8. L!Sum(s) = chosen[Len(s)]
    BY DEF L!Sum
<1>9. chosen \in [0 .. Len(s) -> Int]
    <2> HIDE DEF chosen
    <2>1. \A n \in 0 .. Len(s) : chosen[n] = IF n = 0 THEN 0 ELSE chosen[n - 1] + s[n]
        BY <1>7
    <2>2. \A n \in 0 .. Len(s) : chosen[n] = f[n]
        <3>1. 0 \in Alike(chosen, f, Len(s))
            BY <1>1, <1>5, <2>1 DEF Alike
        <3>2. \A n \in 1 .. Len(s) :
                  n - 1 \in Alike(chosen, f, Len(s)) => n \in Alike(chosen, f, Len(s))
            BY <1>1, <1>5, <2>1 DEF Alike
        <3>3. Alike(chosen, f, Len(s)) = 0 .. Len(s)
            BY <1>1, <3>1, <3>2, SameSteps
        <3>4. QED
            BY <3>3 DEF Alike
    <2>3. \A n \in 0 .. Len(s) : chosen[n] \in Int
        BY <1>5, <2>2
    <2>4. QED
        BY <1>7, <2>3
<1>10. QED
    BY <1>7, <1>8, <1>9

\* One number more.
LEMMA SumAppend ==
    ASSUME NEW s \in Seq(Int), NEW x \in Int
    PROVE  L!Sum(Append(s, x)) = L!Sum(s) + x
<1> DEFINE t == Append(s, x)
<1>1. t \in Seq(Int) /\ Len(s) \in Nat /\ Len(t) = Len(s) + 1 /\ t[Len(t)] = x
      /\ \A n \in 1 .. Len(s) : t[n] = s[n]
    OBVIOUS
<1> HIDE DEF t
<1>2. PICK f :
          /\ f \in [0 .. Len(s) -> Int]
          /\ f = [n \in 0 .. Len(s) |-> IF n = 0 THEN 0 ELSE f[n - 1] + s[n]]
          /\ L!Sum(s) = f[Len(s)]
    BY SumIterates
<1>3. PICK h :
          /\ h \in [0 .. Len(t) -> Int]
          /\ h = [n \in 0 .. Len(t) |-> IF n = 0 THEN 0 ELSE h[n - 1] + t[n]]
          /\ L!Sum(t) = h[Len(t)]
    BY <1>1, SumIterates
<1>4. \A n \in 0 .. Len(s) : f[n] = IF n = 0 THEN 0 ELSE f[n - 1] + s[n]
    BY <1>2
<1>5. \A n \in 0 .. Len(t) : h[n] = IF n = 0 THEN 0 ELSE h[n - 1] + t[n]
    BY <1>3
<1>6. \A n \in 0 .. Len(s) : f[n] = h[n]
    <2>1. 0 \in Alike(f, h, Len(s))
        BY <1>1, <1>4, <1>5 DEF Alike
    <2>2. \A n \in 1 .. Len(s) : n - 1 \in Alike(f, h, Len(s)) => n \in Alike(f, h, Len(s))
        BY <1>1, <1>4, <1>5 DEF Alike
    <2>3. Len(s) \in Nat
        BY <1>1
    <2>4. Alike(f, h, Len(s)) = 0 .. Len(s)
        BY <2>1, <2>2, <2>3, SameSteps
    <2>5. QED
        BY <2>4 DEF Alike
<1>7. h[Len(t)] = h[Len(s)] + x
    <2>1. Len(t) \in 0 .. Len(t) /\ Len(t) # 0 /\ Len(t) - 1 = Len(s)
        BY <1>1
    <2>2. h[Len(t)] = h[Len(t) - 1] + t[Len(t)]
        BY <1>5, <2>1
    <2>3. QED
        BY <1>1, <2>1, <2>2
<1>8. f[Len(s)] = h[Len(s)]
    BY <1>1, <1>6
<1>9. QED
    BY <1>2, <1>3, <1>7, <1>8 DEF t

\* A sum of whole numbers is one, and that of none is nothing.
LEMMA SumType ==
    /\ \A s \in Seq(Int) : L!Sum(s) \in Int
    /\ \A s \in Seq(Int) : Len(s) = 0 => L!Sum(s) = 0
<1>1. \A s \in Seq(Int) : L!Sum(s) \in Int
    BY SumIterates
<1>2. ASSUME NEW s \in Seq(Int), Len(s) = 0
      PROVE  L!Sum(s) = 0
    <2>1. PICK f :
              /\ f \in [0 .. Len(s) -> Int]
              /\ f = [n \in 0 .. Len(s) |-> IF n = 0 THEN 0 ELSE f[n - 1] + s[n]]
              /\ L!Sum(s) = f[Len(s)]
        BY SumIterates
    <2>2. f[0] = 0
        BY <1>2, <2>1
    <2>3. QED
        BY <1>2, <2>1, <2>2
<1>3. QED
    BY <1>1, <1>2

-----------------------------------------------------------------------------
(* Days, and the walk over the repayments                                  *)

\* Days are counted from nothing, and a tick adds at most one.
LEMMA DaysCount ==
    /\ \A t \in Nat : L!Days(t) \in Nat /\ L!Days(t + 1) \in {L!Days(t), L!Days(t) + 1}
    /\ \A t, u \in Nat : t <= u => L!Days(t) <= L!Days(u)
    /\ L!Days(0) = 0
<1>1. TicksPerDay \in Nat \ {0}
    BY ServicesAssumption DEF ServicesAssumption
<1>2. ASSUME NEW t \in Nat
      PROVE  L!Days(t) \in Nat /\ L!Days(t + 1) \in {L!Days(t), L!Days(t) + 1}
    BY <1>1 DEF L!Days, L!CeilDiv
<1>3. ASSUME NEW t \in Nat, NEW u \in Nat, t <= u
      PROVE  L!Days(t) <= L!Days(u)
    BY <1>1, <1>3 DEF L!Days, L!CeilDiv
<1>4. L!Days(0) = 0
    BY <1>1 DEF L!Days, L!CeilDiv
<1>5. QED
    BY <1>2, <1>3, <1>4

\* What a row is, and where the walk stands.
LedgerRows == [at : Nat, amount : Nat, interest : Nat, principal : Nat, overpay : Nat]
WalkStates == [day : Int, principal : Int, interest : Int]

\* A repayment takes the walk from one day to another.
LEMMA SegmentType ==
    ASSUME NEW w \in WalkStates, NEW r \in LedgerRows
    PROVE  L!Segment(w, r) \in WalkStates
<1>1. L!Days(r.at) \in Nat
    BY DaysCount DEF LedgerRows
<1>2. w.principal \div 1000 \in Int
    BY DEF WalkStates
<1>3. w.interest + (w.principal \div 1000) * 3 * (L!Days(r.at) - w.day) \in Int
    BY <1>1, <1>2 DEF WalkStates
<1>4. w.principal - r.principal \in Int
    BY DEF WalkStates, LedgerRows
<1>5. QED
    BY <1>1, <1>3, <1>4 DEF L!Segment, L!Kobo, L!DailyRate, WalkStates

\* The walk begins with the principal and takes one repayment after the other.
LEMMA WalkIterates ==
    ASSUME NEW rs \in Seq(LedgerRows), NEW p \in Int
    PROVE  \E f :
              /\ f \in [0 .. Len(rs) -> WalkStates]
              /\ f = [n \in 0 .. Len(rs) |->
                        IF n = 0 THEN [day |-> 0, principal |-> p, interest |-> 0]
                        ELSE L!Segment(f[n - 1], rs[n])]
              /\ L!Walk(rs, p) = f[Len(rs)]
<1> DEFINE g == [vn \in WalkStates \X (1 .. Len(rs)) |-> L!Segment(vn[1], rs[vn[2]])]
           base == [day |-> 0, principal |-> p, interest |-> 0]
<1>1. Len(rs) \in Nat /\ \A n \in 1 .. Len(rs) : rs[n] \in LedgerRows
    OBVIOUS
<1>2. g \in [WalkStates \X (1 .. Len(rs)) -> WalkStates]
    BY <1>1, SegmentType
<1>3. \A v \in WalkStates, n \in 1 .. Len(rs) : g[<<v, n>>] = L!Segment(v, rs[n])
    OBVIOUS
<1>b. base \in WalkStates
    BY DEF WalkStates
<1>4. PICK f \in Iterates(Len(rs), WalkStates, base, g) : TRUE
    <2> HIDE DEF g, base
    <2>1. QED
        BY <1>1, <1>2, <1>b, StepsIterate
<1>5. /\ f \in [0 .. Len(rs) -> WalkStates] /\ f[0] = base
      /\ \A n \in 1 .. Len(rs) : f[n] = L!Segment(f[n - 1], rs[n])
    <2> HIDE DEF g, base
    <2>1. /\ f \in [0 .. Len(rs) -> WalkStates] /\ f[0] = base
          /\ \A n \in 1 .. Len(rs) : f[n] = g[<<f[n - 1], n>>]
        BY <1>4 DEF Iterates
    <2>2. \A n \in 1 .. Len(rs) : f[n - 1] \in WalkStates
        BY <1>1, <2>1
    <2>3. QED
        BY <1>3, <2>1, <2>2
<1>6. f = [n \in 0 .. Len(rs) |-> IF n = 0 THEN base ELSE L!Segment(f[n - 1], rs[n])]
    <2> HIDE DEF g, base
    <2>1. QED
        BY <1>1, <1>5
<1> DEFINE chosen ==
        CHOOSE walk : walk = [n \in 0 .. Len(rs) |->
                                IF n = 0 THEN [day |-> 0, principal |-> p, interest |-> 0]
                                ELSE L!Segment(walk[n - 1], rs[n])]
<1>7. chosen = [n \in 0 .. Len(rs) |-> IF n = 0 THEN base ELSE L!Segment(chosen[n - 1], rs[n])]
    BY <1>6
<1>8. L!Walk(rs, p) = chosen[Len(rs)]
    BY DEF L!Walk
<1>9. chosen \in [0 .. Len(rs) -> WalkStates]
    <2> HIDE DEF chosen, g, base
    <2>1. \A n \in 0 .. Len(rs) :
              chosen[n] = IF n = 0 THEN base ELSE L!Segment(chosen[n - 1], rs[n])
        BY <1>7
    <2>2. \A n \in 0 .. Len(rs) : chosen[n] = f[n]
        <3>1. 0 \in Alike(chosen, f, Len(rs))
            BY <1>1, <1>5, <2>1 DEF Alike
        <3>2. \A n \in 1 .. Len(rs) :
                  n - 1 \in Alike(chosen, f, Len(rs)) => n \in Alike(chosen, f, Len(rs))
            BY <1>1, <1>5, <2>1 DEF Alike
        <3>3. Alike(chosen, f, Len(rs)) = 0 .. Len(rs)
            BY <1>1, <3>1, <3>2, SameSteps
        <3>4. QED
            BY <3>3 DEF Alike
    <2>3. \A n \in 0 .. Len(rs) : chosen[n] \in WalkStates
        BY <1>5, <2>2
    <2>4. QED
        BY <1>7, <2>3
<1>10. QED
    BY <1>7, <1>8, <1>9

\* One repayment more.
LEMMA WalkAppend ==
    ASSUME NEW rs \in Seq(LedgerRows), NEW r \in LedgerRows, NEW p \in Int
    PROVE  L!Walk(Append(rs, r), p) = L!Segment(L!Walk(rs, p), r)
<1> DEFINE t == Append(rs, r)
           base == [day |-> 0, principal |-> p, interest |-> 0]
<1>1. t \in Seq(LedgerRows) /\ Len(rs) \in Nat /\ Len(t) = Len(rs) + 1 /\ t[Len(t)] = r
      /\ \A n \in 1 .. Len(rs) : t[n] = rs[n]
    OBVIOUS
<1>2. PICK f :
          /\ f \in [0 .. Len(rs) -> WalkStates]
          /\ f = [n \in 0 .. Len(rs) |-> IF n = 0 THEN base ELSE L!Segment(f[n - 1], rs[n])]
          /\ L!Walk(rs, p) = f[Len(rs)]
    BY WalkIterates
<1>3. PICK h :
          /\ h \in [0 .. Len(t) -> WalkStates]
          /\ h = [n \in 0 .. Len(t) |-> IF n = 0 THEN base ELSE L!Segment(h[n - 1], t[n])]
          /\ L!Walk(t, p) = h[Len(t)]
    <2> HIDE DEF t
    <2>1. QED
        BY <1>1, WalkIterates
<1> HIDE DEF t, base
<1>4. \A n \in 0 .. Len(rs) : f[n] = IF n = 0 THEN base ELSE L!Segment(f[n - 1], rs[n])
    BY <1>2
<1>5. \A n \in 0 .. Len(t) : h[n] = IF n = 0 THEN base ELSE L!Segment(h[n - 1], t[n])
    BY <1>3
<1>6. \A n \in 0 .. Len(rs) : f[n] = h[n]
    <2>1. 0 \in Alike(f, h, Len(rs))
        BY <1>1, <1>4, <1>5 DEF Alike
    <2>2. \A n \in 1 .. Len(rs) : n - 1 \in Alike(f, h, Len(rs)) => n \in Alike(f, h, Len(rs))
        BY <1>1, <1>4, <1>5 DEF Alike
    <2>3. Len(rs) \in Nat
        BY <1>1
    <2>4. Alike(f, h, Len(rs)) = 0 .. Len(rs)
        BY <2>1, <2>2, <2>3, SameSteps
    <2>5. QED
        BY <2>4 DEF Alike
<1>7. h[Len(t)] = L!Segment(h[Len(rs)], r)
    <2>1. Len(t) \in 0 .. Len(t) /\ Len(t) # 0 /\ Len(t) - 1 = Len(rs)
        BY <1>1
    <2>2. h[Len(t)] = L!Segment(h[Len(t) - 1], t[Len(t)])
        BY <1>5, <2>1
    <2>3. QED
        BY <1>1, <2>1, <2>2
<1>8. f[Len(rs)] = h[Len(rs)]
    BY <1>1, <1>6
<1>9. QED
    BY <1>2, <1>3, <1>7, <1>8 DEF t

\* Where the walk stands, and where it begins.
LEMMA WalkType ==
    /\ \A rs \in Seq(LedgerRows), p \in Int : L!Walk(rs, p) \in WalkStates
    /\ \A rs \in Seq(LedgerRows), p \in Int :
          Len(rs) = 0 => L!Walk(rs, p) = [day |-> 0, principal |-> p, interest |-> 0]
<1>1. ASSUME NEW rs \in Seq(LedgerRows), NEW p \in Int
      PROVE  /\ L!Walk(rs, p) \in WalkStates
             /\ Len(rs) = 0 => L!Walk(rs, p) = [day |-> 0, principal |-> p, interest |-> 0]
    <2> DEFINE base == [day |-> 0, principal |-> p, interest |-> 0]
    <2>1. PICK f :
              /\ f \in [0 .. Len(rs) -> WalkStates]
              /\ f = [n \in 0 .. Len(rs) |-> IF n = 0 THEN base ELSE L!Segment(f[n - 1], rs[n])]
              /\ L!Walk(rs, p) = f[Len(rs)]
        BY WalkIterates
    <2> HIDE DEF base
    <2>2. Len(rs) \in Nat
        OBVIOUS
    <2>3. f[0] = base
        BY <2>1, <2>2
    <2>4. QED
        BY <2>1, <2>2, <2>3 DEF base
<1>2. QED
    BY <1>1

-----------------------------------------------------------------------------
(* The columns of the rows                                                 *)

PrincipalsOf(rs) == [i \in DOMAIN rs |-> rs[i].principal]
InterestsOf(rs)  == [i \in DOMAIN rs |-> rs[i].interest]
OverpaysOf(rs)   == [i \in DOMAIN rs |-> rs[i].overpay]
AmountsOf(rs)    == [i \in DOMAIN rs |-> rs[i].amount]

\* The principal that had been paid before day d.
EarlierOf(rs, d) == [i \in DOMAIN rs |-> IF L!Days(rs[i].at) < d THEN rs[i].principal ELSE 0]

\* A column is a sequence of numbers.
LEMMA ColumnType ==
    ASSUME NEW rs \in Seq(LedgerRows)
    PROVE  /\ PrincipalsOf(rs) \in Seq(Int) /\ InterestsOf(rs) \in Seq(Int)
           /\ OverpaysOf(rs) \in Seq(Int) /\ AmountsOf(rs) \in Seq(Int)
           /\ \A d \in Nat : EarlierOf(rs, d) \in Seq(Int)
<1>1. DOMAIN rs = 1 .. Len(rs) /\ Len(rs) \in Nat
      /\ \A i \in 1 .. Len(rs) : rs[i] \in LedgerRows
    OBVIOUS
<1>2. \A r \in LedgerRows : /\ r.principal \in Int /\ r.interest \in Int
                           /\ r.overpay \in Int /\ r.amount \in Int
    BY DEF LedgerRows
<1>3. PrincipalsOf(rs) \in Seq(Int)
    BY <1>1, <1>2 DEF PrincipalsOf
<1>4. InterestsOf(rs) \in Seq(Int)
    BY <1>1, <1>2 DEF InterestsOf
<1>5. OverpaysOf(rs) \in Seq(Int)
    BY <1>1, <1>2 DEF OverpaysOf
<1>6. AmountsOf(rs) \in Seq(Int)
    BY <1>1, <1>2 DEF AmountsOf
<1>7. ASSUME NEW d \in Nat
      PROVE  EarlierOf(rs, d) \in Seq(Int)
    BY <1>1, <1>2 DEF EarlierOf
<1>8. QED
    BY <1>3, <1>4, <1>5, <1>6, <1>7

\* One row more is one number more in a column.
LEMMA ColumnAppend ==
    ASSUME NEW rs \in Seq(LedgerRows), NEW r \in LedgerRows
    PROVE  /\ PrincipalsOf(Append(rs, r)) = Append(PrincipalsOf(rs), r.principal)
           /\ InterestsOf(Append(rs, r)) = Append(InterestsOf(rs), r.interest)
           /\ OverpaysOf(Append(rs, r)) = Append(OverpaysOf(rs), r.overpay)
           /\ AmountsOf(Append(rs, r)) = Append(AmountsOf(rs), r.amount)
           /\ \A d \in Nat : EarlierOf(Append(rs, r), d) =
                 Append(EarlierOf(rs, d), IF L!Days(r.at) < d THEN r.principal ELSE 0)
<1> DEFINE t == Append(rs, r)
<1>1. /\ DOMAIN rs = 1 .. Len(rs) /\ Len(rs) \in Nat /\ DOMAIN t = 1 .. Len(rs) + 1
      /\ t[Len(rs) + 1] = r /\ \A i \in 1 .. Len(rs) : t[i] = rs[i]
    OBVIOUS
<1> HIDE DEF t
<1>2. PrincipalsOf(t) = Append(PrincipalsOf(rs), r.principal)
    BY <1>1 DEF PrincipalsOf
<1>3. InterestsOf(t) = Append(InterestsOf(rs), r.interest)
    BY <1>1 DEF InterestsOf
<1>4. OverpaysOf(t) = Append(OverpaysOf(rs), r.overpay)
    BY <1>1 DEF OverpaysOf
<1>5. AmountsOf(t) = Append(AmountsOf(rs), r.amount)
    BY <1>1 DEF AmountsOf
<1>6. ASSUME NEW d \in Nat
      PROVE  EarlierOf(t, d) = Append(EarlierOf(rs, d), IF L!Days(r.at) < d THEN r.principal ELSE 0)
    BY <1>1 DEF EarlierOf
<1>7. QED
    BY <1>2, <1>3, <1>4, <1>5, <1>6 DEF t

-----------------------------------------------------------------------------
(* Interest, by the walk and day by day                                    *)

\* A day's interest on what is left of p after the rows.
DaysInterest(left) == (left \div 1000) * 3
LeftOf(p, rs)      == p - L!Sum(PrincipalsOf(rs))

Gross(p, rs, t) ==
    L!Walk(rs, p).interest + DaysInterest(L!Walk(rs, p).principal) * (L!Days(t) - L!Walk(rs, p).day)

OnDay(p, rs, d)     == DaysInterest(p - L!Sum(EarlierOf(rs, d)))
Charged(p, rs, day) == L!Sum([d \in 1 .. day |-> OnDay(p, rs, d)])

\* A part of a number, and a product whose factor grows by one.
LEMMA DaysInterestType == \A left \in Int : DaysInterest(left) \in Int
BY DEF DaysInterest

LEMMA OneDayMore ==
    \A x, a, b \in Int : x * (a - b) \in Int /\ x * ((a + 1) - b) = x * (a - b) + x
OBVIOUS

\* Every day is charged a whole number of parts.
LEMMA OnDayType ==
    ASSUME NEW rs \in Seq(LedgerRows), NEW p \in Int
    PROVE  \A d \in Nat : OnDay(p, rs, d) \in Int
<1>1. \A d \in Nat : L!Sum(EarlierOf(rs, d)) \in Int
    BY ColumnType, SumType
<1>2. QED
    BY <1>1, DaysInterestType DEF OnDay

\* One day more is charged what was left on it.
LEMMA ChargedMore ==
    ASSUME NEW rs \in Seq(LedgerRows), NEW p \in Int, NEW day \in Nat
    PROVE  /\ Charged(p, rs, day) \in Int
           /\ Charged(p, rs, day + 1) = Charged(p, rs, day) + OnDay(p, rs, day + 1)
           /\ Charged(p, rs, 0) = 0
<1> DEFINE c(n) == [d \in 1 .. n |-> OnDay(p, rs, d)]
<1>1. \A n \in Nat : c(n) \in Seq(Int) /\ Len(c(n)) = n
    <2>1. \A d \in Nat : OnDay(p, rs, d) \in Int
        BY OnDayType
    <2>2. QED
        BY <2>1
<1>2. c(day + 1) = Append(c(day), OnDay(p, rs, day + 1))
    <2>1. \A d \in Nat : OnDay(p, rs, d) \in Int
        BY OnDayType
    <2>2. QED
        BY <2>1
<1>3. OnDay(p, rs, day + 1) \in Int
    BY OnDayType
<1> HIDE DEF c
<1>4. L!Sum(c(day + 1)) = L!Sum(c(day)) + OnDay(p, rs, day + 1)
    BY <1>1, <1>2, <1>3, SumAppend
<1>5. L!Sum(c(day)) \in Int /\ L!Sum(c(0)) = 0
    BY <1>1, SumType
<1>6. QED
    BY <1>4, <1>5 DEF Charged, c

\* Up to a day, the clock going on by a tick charges what is left, if the day
\* is over.
LEMMA ChargedTicks ==
    ASSUME NEW rs \in Seq(LedgerRows), NEW p \in Int, NEW t \in Nat, NEW u \in {t, t + 1},
           \A i \in DOMAIN rs : rs[i].at <= t
    PROVE  \/ L!Days(u) = L!Days(t) /\ Charged(p, rs, L!Days(u)) = Charged(p, rs, L!Days(t))
           \/ /\ L!Days(u) = L!Days(t) + 1
              /\ Charged(p, rs, L!Days(u)) =
                    Charged(p, rs, L!Days(t)) + DaysInterest(LeftOf(p, rs))
<1>1. L!Days(t) \in Nat /\ L!Days(u) \in {L!Days(t), L!Days(t) + 1}
    BY DaysCount
<1>2. ASSUME NEW i \in DOMAIN rs
      PROVE  L!Days(rs[i].at) < L!Days(t) + 1
    <2>0. rs[i] \in LedgerRows
        OBVIOUS
    <2>1. rs[i].at \in Nat
        BY <2>0 DEF LedgerRows
    <2>2. L!Days(rs[i].at) \in Nat /\ L!Days(rs[i].at) <= L!Days(t)
        BY <2>1, DaysCount
    <2>3. QED
        BY <1>1, <2>2
<1>3. EarlierOf(rs, L!Days(t) + 1) = PrincipalsOf(rs)
    BY <1>2 DEF EarlierOf, PrincipalsOf
<1>4. OnDay(p, rs, L!Days(t) + 1) = DaysInterest(LeftOf(p, rs))
    BY <1>3 DEF OnDay, LeftOf
<1>5. Charged(p, rs, L!Days(t) + 1) =
          Charged(p, rs, L!Days(t)) + OnDay(p, rs, L!Days(t) + 1)
    BY <1>1, ChargedMore
<1>6. QED
    BY <1>1, <1>4, <1>5

\* A repayment changes nothing of what was charged up to its day.
LEMMA ChargedAppend ==
    ASSUME NEW rs \in Seq(LedgerRows), NEW r \in LedgerRows, NEW p \in Int
    PROVE  Charged(p, Append(rs, r), L!Days(r.at)) = Charged(p, rs, L!Days(r.at))
<1>1. r.at \in Nat /\ L!Days(r.at) \in Nat
    BY DaysCount DEF LedgerRows
<1>2. ASSUME NEW d \in 1 .. L!Days(r.at)
      PROVE  OnDay(p, Append(rs, r), d) = OnDay(p, rs, d)
    <2>1. EarlierOf(Append(rs, r), d) = Append(EarlierOf(rs, d), 0)
        <3>1. d \in Nat /\ ~(L!Days(r.at) < d)
            BY <1>1
        <3>2. QED
            BY <3>1, ColumnAppend
    <2>2. EarlierOf(rs, d) \in Seq(Int)
        BY <1>1, ColumnType
    <2>3. L!Sum(EarlierOf(Append(rs, r), d)) = L!Sum(EarlierOf(rs, d)) + 0
        BY <2>1, <2>2, SumAppend
    <2>4. L!Sum(EarlierOf(rs, d)) \in Int
        BY <2>2, SumType
    <2>5. QED
        BY <2>3, <2>4 DEF OnDay
<1>3. QED
    BY <1>2 DEF Charged

\* So does the walk: a tick adds a day's interest on what is left, if the day is
\* over, and a repayment nothing up to its day.
LEMMA GrossTicks ==
    ASSUME NEW rs \in Seq(LedgerRows), NEW p \in Int, NEW t \in Nat, NEW u \in {t, t + 1},
           L!Walk(rs, p).principal = LeftOf(p, rs)
    PROVE  /\ Gross(p, rs, t) \in Int
           /\ \/ L!Days(u) = L!Days(t) /\ Gross(p, rs, u) = Gross(p, rs, t)
              \/ /\ L!Days(u) = L!Days(t) + 1
                 /\ Gross(p, rs, u) = Gross(p, rs, t) + DaysInterest(LeftOf(p, rs))
<1> DEFINE w == L!Walk(rs, p)
           x == DaysInterest(LeftOf(p, rs))
<1>1. L!Days(t) \in Nat /\ L!Days(u) \in {L!Days(t), L!Days(t) + 1}
    BY DaysCount
<1>2. w \in WalkStates
    BY WalkType
<1>3. w.interest \in Int /\ w.day \in Int /\ w.principal \in Int
    BY <1>2 DEF WalkStates
<1>4. x \in Int /\ DaysInterest(w.principal) = x
    BY <1>3, DaysInterestType
<1>5. Gross(p, rs, t) = w.interest + x * (L!Days(t) - w.day)
      /\ Gross(p, rs, u) = w.interest + x * (L!Days(u) - w.day)
    BY <1>4 DEF Gross
<1> HIDE DEF w, x
<1>6. L!Days(t) \in Int
    BY <1>1
<1>7. /\ x * (L!Days(t) - w.day) \in Int
      /\ x * ((L!Days(t) + 1) - w.day) = x * (L!Days(t) - w.day) + x
    BY <1>3, <1>4, <1>6, OneDayMore, Zenon
<1> DEFINE y == x * (L!Days(t) - w.day)
<1>8. y \in Int /\ w.interest + y \in Int /\ (w.interest + y) + x = w.interest + (y + x)
    <2>1. y \in Int
        BY <1>7
    <2> HIDE DEF y
    <2>2. QED
        BY <2>1, <1>3, <1>4
<1>9. CASE L!Days(u) = L!Days(t)
    <2>1. Gross(p, rs, u) = Gross(p, rs, t)
        BY <1>5, <1>9, Zenon
    <2>2. Gross(p, rs, t) \in Int
        BY <1>5, <1>8, Zenon
    <2>3. QED
        BY <2>1, <2>2, <1>9, Zenon
<1>10. CASE L!Days(u) = L!Days(t) + 1
    <2>1. x * (L!Days(u) - w.day) = y + x
        BY <1>7, <1>10, Zenon
    <2>2. Gross(p, rs, u) = Gross(p, rs, t) + x
        BY <1>5, <1>8, <2>1, Zenon
    <2>3. Gross(p, rs, t) \in Int
        BY <1>5, <1>8, Zenon
    <2>4. QED
        BY <2>2, <2>3, <1>10, Zenon DEF x
<1>11. QED
    BY <1>1, <1>9, <1>10, Zenon

\* Nor does the walk: a repayment takes its principal off, and begins where the
\* interest up to its day ends.
LEMMA GrossAppend ==
    ASSUME NEW rs \in Seq(LedgerRows), NEW r \in LedgerRows, NEW p \in Int
    PROVE  /\ Gross(p, Append(rs, r), r.at) = Gross(p, rs, r.at)
           /\ L!Walk(Append(rs, r), p).principal = L!Walk(rs, p).principal - r.principal
<1> DEFINE w == L!Walk(rs, p)
           v == L!Walk(Append(rs, r), p)
<1>1. r.at \in Nat /\ L!Days(r.at) \in Nat
    BY DaysCount DEF LedgerRows
<1>2. w \in WalkStates
    BY WalkType
<1>3. w.interest \in Int /\ w.day \in Int /\ w.principal \in Int /\ r.principal \in Int
    BY <1>2 DEF WalkStates, LedgerRows
<1>4. v = L!Segment(w, r)
    BY WalkAppend
<1> HIDE DEF w, v
<1>5. /\ v.day = L!Days(r.at) /\ v.principal = w.principal - r.principal
      /\ v.interest = w.interest + DaysInterest(w.principal) * (L!Days(r.at) - w.day)
    <2> DEFINE y == w.interest + DaysInterest(w.principal) * (L!Days(r.at) - w.day)
               z == w.principal - r.principal
               n == L!Days(r.at)
    <2>1. v = [day |-> n, principal |-> z, interest |-> y]
        BY <1>4, Zenon DEF L!Segment, L!Kobo, L!DailyRate, DaysInterest
    <2>2. v.day = n /\ v.principal = z /\ v.interest = y
        <3> HIDE DEF y, z, n
        <3>1. QED
            BY <2>1
    <2>3. QED
        BY <2>2, Zenon
<1>6. DaysInterest(w.principal) \in Int /\ DaysInterest(v.principal) \in Int
    <2>1. v.principal = w.principal - r.principal
        BY <1>5
    <2>2. v.principal \in Int
        BY <1>3, <2>1
    <2>3. QED
        BY <1>3, <2>2, DaysInterestType, Zenon
<1>7. DaysInterest(w.principal) * (L!Days(r.at) - w.day) \in Int
    BY <1>1, <1>3, <1>6, OneDayMore
<1>8. L!Days(r.at) - v.day = 0 /\ DaysInterest(v.principal) * 0 = 0
    BY <1>1, <1>5, <1>6
<1>9. v.interest + DaysInterest(v.principal) * (L!Days(r.at) - v.day) =
          w.interest + DaysInterest(w.principal) * (L!Days(r.at) - w.day)
    BY <1>3, <1>5, <1>7, <1>8
<1>10. QED
    BY <1>5, <1>9 DEF Gross, w, v

-----------------------------------------------------------------------------
(* The accounts of a loan: p lent, n payments, tp and ti paid of principal *)
(* and interest, kept of the payments, g interest charged                  *)

\* A stored amount is in whole kobo, within half a kobo.
Whole(x)   == (x \div 1000) * 1000 = x
Near(x, s) == s \in Nat /\ Whole(s) /\ x - 500 < s /\ s <= x + 500 /\ (x = 0 => s = 0)

BalanceTypes(p, n, tp, ti, kept, g) ==
    /\ p \in Nat \ {0} /\ n \in Nat /\ ti \in Nat /\ g \in Nat /\ kept \in Int
    /\ tp \in Nat /\ tp <= p /\ Whole(p) /\ Whole(tp)

\* Never more interest is paid than charged, but for half a kobo; the rest is
\* RoundingIsBounded, that of a repaid loan apart.
Balanced(p, n, tp, ti, kept, g) ==
    /\ ti <= g + 500
    /\ L!Apart(kept, tp + ti) <= n * 1000
    /\ tp = p => L!Minus(g, ti) <= n * 1000 + DaysInterest(p)
Settled(p, n, kept, g) == L!Apart(kept, p + g) <= n * 1000 + DaysInterest(p)

\* So does a numeric(20, 2) column round.
LEMMA StoredNear == \A x \in Nat : Near(x, L!Stored(x))
BY DEF L!Stored, L!Kobo, Near, Whole

\* A day's interest is never more than that on the whole loan.
LEMMA DaysInterestBounds ==
    ASSUME NEW p \in Nat, NEW tp \in Nat, tp <= p
    PROVE  /\ DaysInterest(p - tp) \in Nat /\ DaysInterest(p - tp) <= DaysInterest(p)
           /\ DaysInterest(p) \in Nat
           /\ tp = p => DaysInterest(p - tp) = 0
BY DEF DaysInterest

\* A payment is accounted for to a kobo, because it is in whole kobo itself.
LEMMA RowIsBalanced ==
    ASSUME NEW a \in Nat, NEW si, NEW sp, NEW se,
           NEW i \in Nat, NEW pp \in Nat, NEW e \in Nat, i + pp + e = a,
           Whole(a), Near(i, si), Near(pp, sp), Near(e, se)
    PROVE  -1000 <= a - se - sp - si /\ a - se - sp - si <= 1000
<1>0. si \in Nat /\ sp \in Nat /\ se \in Nat
    BY DEF Near
<1> DEFINE m == (a \div 1000) - (se \div 1000) - (sp \div 1000) - (si \div 1000)
<1>1. m \in Int /\ a - se - sp - si = 1000 * m
    BY <1>0 DEF Near, Whole
<1>2. 1000 * m < 2000 /\ -2000 < 1000 * m
    <2>1. a - se - sp - si < 2000 /\ -2000 < a - se - sp - si
        BY <1>0 DEF Near
    <2>2. QED
        BY <1>1, <2>1
<1> HIDE DEF m
<1>3. -1000 <= 1000 * m /\ 1000 * m <= 1000
    BY <1>1, <1>2
<1>4. QED
    BY <1>0, <1>1, <1>3

\* The clock going on by a tick leaves the accounts of an open loan in balance.
LEMMA TickBalance ==
    ASSUME NEW p, NEW n, NEW tp, NEW ti, NEW kept, NEW g,
           BalanceTypes(p, n, tp, ti, kept, g), Balanced(p, n, tp, ti, kept, g),
           NEW g2 \in {g, g + DaysInterest(p - tp)}
    PROVE  BalanceTypes(p, n, tp, ti, kept, g2) /\ Balanced(p, n, tp, ti, kept, g2)
<1>1. /\ p \in Nat \ {0} /\ n \in Nat /\ ti \in Nat /\ g \in Nat /\ kept \in Int
      /\ tp \in Nat /\ tp <= p
    BY DEF BalanceTypes
<1> DEFINE x == DaysInterest(p - tp)
<1>2. x \in Nat /\ DaysInterest(p) \in Nat /\ x <= DaysInterest(p) /\ (tp = p => x = 0)
    BY <1>1, DaysInterestBounds
<1> HIDE DEF x
<1>3. g2 \in {g, g + x}
    BY DEF x
<1>4. g2 \in Nat /\ g <= g2 /\ (tp = p => g2 = g)
    BY <1>1, <1>2, <1>3
<1>5. BalanceTypes(p, n, tp, ti, kept, g2)
    BY <1>4 DEF BalanceTypes
<1>6. Balanced(p, n, tp, ti, kept, g2)
    BY <1>1, <1>2, <1>4 DEF Balanced, L!Minus
<1>7. QED
    BY <1>5, <1>6

\* The parts i, pp and e of a payment a on what is owed, oi and op, and what a
\* row keeps of them, si, sp and se.
Parts(a, oi, op, i, pp, e, si, sp, se) ==
    /\ a \in Nat /\ i \in Nat /\ pp \in Nat /\ e \in Nat /\ i <= oi /\ pp <= op
    /\ i + pp + e = a
    /\ pp > 0 => i = oi
    /\ op + oi <= i + pp => i = oi /\ pp = op
    /\ Near(i, si) /\ Near(pp, sp) /\ Near(e, se)
    /\ -1000 <= a - se - sp - si /\ a - se - sp - si <= 1000

\* The parts that creditInflow makes of a payment in whole kobo.
LEMMA CreditParts ==
    ASSUME NEW a \in Nat, Whole(a), NEW oi \in Nat, NEW op \in Nat,
           NEW i \in Int, NEW pp \in Int, NEW e \in Int,
           i = L!Least(a, oi), pp = L!Least(a - i, op), e = a - i - pp
    PROVE  Parts(a, oi, op, i, pp, e, L!Stored(i), L!Stored(pp), L!Stored(e))
<1>1. /\ i \in Nat /\ pp \in Nat /\ e \in Nat /\ i <= oi /\ pp <= op /\ i + pp + e = a
      /\ (pp > 0 => i = oi) /\ (op + oi <= i + pp => i = oi /\ pp = op)
    BY DEF L!Least
<1>2. Near(i, L!Stored(i)) /\ Near(pp, L!Stored(pp)) /\ Near(e, L!Stored(e))
    BY <1>1, StoredNear, Zenon
<1> DEFINE si == L!Stored(i)
           sp == L!Stored(pp)
           se == L!Stored(e)
<1> HIDE DEF si, sp, se
<1>3. Near(i, si) /\ Near(pp, sp) /\ Near(e, se)
    BY <1>2 DEF si, sp, se
<1>4. -1000 <= a - se - sp - si /\ a - se - sp - si <= 1000
    BY <1>1, <1>3, RowIsBalanced
<1>5. Parts(a, oi, op, i, pp, e, si, sp, se)
    BY <1>1, <1>3, <1>4 DEF Parts
<1>6. QED
    BY <1>5 DEF si, sp, se

\* A payment does so too, and the one that repays the loan.
LEMMA CreditBalance ==
    ASSUME NEW p, NEW n, NEW tp, NEW ti, NEW kept, NEW g, NEW g2, NEW a,
           NEW oi, NEW op, NEW i, NEW pp, NEW e, NEW si, NEW sp, NEW se,
           BalanceTypes(p, n, tp, ti, kept, g), Balanced(p, n, tp, ti, kept, g),
           g2 \in {g, g + DaysInterest(p - tp)},
           oi = L!Minus(g, ti), op = L!Minus(p, tp),
           Parts(a, oi, op, i, pp, e, si, sp, se)
    PROVE  /\ BalanceTypes(p, n + 1, tp + sp, ti + si, kept + a - se, g2)
           /\ Balanced(p, n + 1, tp + sp, ti + si, kept + a - se, g2)
           /\ op + oi <= i + pp => Settled(p, n + 1, kept + a - se, g2)
<1>1. /\ p \in Nat \ {0} /\ n \in Nat /\ ti \in Nat /\ g \in Nat /\ kept \in Int
      /\ tp \in Nat /\ tp <= p
    BY DEF BalanceTypes
<1> DEFINE x == DaysInterest(p - tp)
           y == DaysInterest(p)
<1>2. x \in Nat /\ y \in Nat /\ x <= y /\ (tp = p => x = 0)
    BY <1>1, DaysInterestBounds
<1> HIDE DEF x, y
<1>3. g2 \in Nat /\ g <= g2 /\ g2 <= g + y /\ (tp = p => g2 = g)
    BY <1>1, <1>2 DEF x
<1>4. /\ oi \in Nat /\ (ti <= g => oi = g - ti) /\ (g < ti => oi = 0)
      /\ op \in Nat /\ op = p - tp
    BY <1>1 DEF L!Minus
<1>5. /\ i \in Nat /\ pp \in Nat /\ e \in Nat /\ i <= oi /\ pp <= op /\ i + pp + e = a
      /\ (pp > 0 => i = oi) /\ (op + oi <= i + pp => i = oi /\ pp = op) /\ a \in Nat
    BY DEF Parts, Near
<1>6. si \in Nat /\ i - 500 < si /\ si <= i + 500 /\ (i = 0 => si = 0)
    BY DEF Parts, Near
<1>7. sp \in Nat /\ pp - 500 < sp /\ sp <= pp + 500 /\ (pp = 0 => sp = 0)
    BY DEF Parts, Near
<1>8. se \in Nat /\ e - 500 < se /\ se <= e + 500
    BY DEF Parts, Near
<1>9. -1000 <= a - se - sp - si /\ a - se - sp - si <= 1000
    BY DEF Parts, Near
<1>10. tp + sp <= p /\ Whole(tp + sp)
    <2>1. Whole(p) /\ Whole(tp) /\ Whole(sp)
        BY DEF Parts, Near, BalanceTypes
    <2>2. sp <= (p - tp) + 500
        BY <1>1, <1>4, <1>5, <1>7
    <2>3. QED
        BY <1>1, <1>7, <2>1, <2>2 DEF Whole
<1>11. BalanceTypes(p, n + 1, tp + sp, ti + si, kept + a - se, g2)
    BY <1>1, <1>3, <1>5, <1>6, <1>7, <1>8, <1>10 DEF BalanceTypes
<1>12. ti <= g + 500 /\ -(n * 1000) <= kept - (tp + ti) /\ kept - (tp + ti) <= n * 1000
    BY <1>1 DEF Balanced, L!Apart
<1>13. ti + si <= g2 + 500
    BY <1>1, <1>3, <1>4, <1>5, <1>6, <1>12
<1>14. L!Apart(kept + a - se, (tp + sp) + (ti + si)) <= (n + 1) * 1000
    BY <1>1, <1>5, <1>6, <1>7, <1>8, <1>9, <1>12 DEF L!Apart
<1>15. ASSUME op + oi <= i + pp
       PROVE  Settled(p, n + 1, kept + a - se, g2)
    <2>1. i = oi /\ pp = op
        BY <1>5, <1>15
    <2>2. a = oi + op + e
        BY <1>4, <1>5, <2>1
    <2>3. -500 <= ti + oi - g /\ ti + oi - g <= 500 /\ -500 <= e - se /\ e - se <= 500
        BY <1>1, <1>4, <1>5, <1>8, <1>12
    <2>4. /\ (kept + a - se) - (p + g2) <= (n + 1) * 1000 + y
          /\ (p + g2) - (kept + a - se) <= (n + 1) * 1000 + y
        BY <1>1, <1>2, <1>3, <1>4, <1>5, <1>8, <1>12, <2>2, <2>3
    <2>5. L!Apart(kept + a - se, p + g2) <= (n + 1) * 1000 + y
        BY <1>1, <1>3, <1>5, <1>8, <2>4 DEF L!Apart
    <2>6. QED
        BY <2>5 DEF Settled, y
<1>16. ASSUME tp + sp = p
       PROVE  L!Minus(g2, ti + si) <= (n + 1) * 1000 + y
    <2>1. CASE tp = p
        <3>1. g2 = g /\ L!Minus(g, ti) <= n * 1000 + y
            BY <1>3, <2>1 DEF Balanced, y
        <3>2. QED
            BY <1>1, <1>2, <1>6, <3>1 DEF L!Minus
    <2>2. CASE tp # p
        <3>1. i = oi
            BY <1>1, <1>5, <1>7, <1>16, <2>2
        <3>2. g2 - (ti + si) <= 500 + y
            BY <1>1, <1>2, <1>3, <1>4, <1>6, <3>1
        <3>3. QED
            BY <1>1, <1>2, <1>3, <1>6, <3>2 DEF L!Minus
    <2>3. QED
        BY <2>1, <2>2
<1>17. Balanced(p, n + 1, tp + sp, ti + si, kept + a - se, g2)
    BY <1>13, <1>14, <1>16 DEF Balanced, y
<1>18. QED
    BY <1>11, <1>15, <1>17

-----------------------------------------------------------------------------
(* The inductive invariant                                                 *)

PaidOf(rs) == L!Sum(PrincipalsOf(rs))
KeptOf(rs) == L!Sum(AmountsOf(rs)) - L!Sum(OverpaysOf(rs))

RowsOK(t, rs) ==
    /\ t \in 0 .. MaxTick /\ rs \in Seq(LedgerRows) /\ Len(rs) <= MaxPayments
    /\ \A i \in DOMAIN rs : rs[i].at <= t /\ (i > 1 => rs[i - 1].at <= rs[i].at)

\* The walk has taken off what was paid, and charged what each day was charged;
\* before the first day is over, no more than its interest.
WalkOK(p, t, rs) ==
    /\ L!Walk(rs, p).principal = LeftOf(p, rs)
    /\ Gross(p, rs, t) = Charged(p, rs, L!Days(t))
    /\ L!Days(t) = 0 => Gross(p, rs, t) = 0
    /\ L!Days(t) = 1 => Gross(p, rs, t) <= DaysInterest(p)

BooksOK(p, t, rs) ==
    /\ BalanceTypes(p, Len(rs), PaidOf(rs), L!Sum(InterestsOf(rs)), KeptOf(rs), Gross(p, rs, t))
    /\ Balanced(p, Len(rs), PaidOf(rs), L!Sum(InterestsOf(rs)), KeptOf(rs), Gross(p, rs, t))

SettledOK(p, t, rs) == Settled(p, Len(rs), KeptOf(rs), Gross(p, rs, t))

\* Collateral for all that is lent.
Covered(p, c, r) == 3 * (c * r) >= 5 * (p \div 1000)

LedgerInv ==
    /\ s1 \in {p * 1000 : p \in Principals} /\ s2 \in Nat /\ s3 \in Rates /\ s6 \in BOOLEAN
    /\ Covered(s1, s2, s3)
    /\ RowsOK(s4, s5) /\ WalkOK(s1, s4, s5) /\ BooksOK(s1, s4, s5)
    /\ s6 => SettledOK(s1, s4, s5)

\* As the clock goes on, the walk stays right.
LEMMA WalkTicks ==
    ASSUME NEW rs, NEW p, NEW t, RowsOK(t, rs), WalkOK(p, t, rs), BooksOK(p, t, rs),
           NEW u \in {t, t + 1}
    PROVE  /\ WalkOK(p, u, rs)
           /\ Gross(p, rs, u) \in {Gross(p, rs, t), Gross(p, rs, t) + DaysInterest(p - PaidOf(rs))}
<1>1. t \in Nat /\ rs \in Seq(LedgerRows) /\ \A i \in DOMAIN rs : rs[i].at <= t
    BY ServicesAssumption DEF RowsOK, ServicesAssumption
<1>2. p \in Nat /\ PaidOf(rs) \in Nat /\ PaidOf(rs) <= p /\ Gross(p, rs, t) \in Nat
    BY DEF BooksOK, BalanceTypes
<1> DEFINE x == DaysInterest(LeftOf(p, rs))
<1>3. LeftOf(p, rs) = p - PaidOf(rs)
    BY DEF LeftOf, PaidOf
<1>4. x \in Nat /\ DaysInterest(p) \in Nat /\ x <= DaysInterest(p)
    BY <1>2, <1>3, DaysInterestBounds
<1> HIDE DEF x
<1>5. /\ L!Walk(rs, p).principal = LeftOf(p, rs)
      /\ Gross(p, rs, t) = Charged(p, rs, L!Days(t))
      /\ L!Days(t) = 0 => Gross(p, rs, t) = 0
      /\ L!Days(t) = 1 => Gross(p, rs, t) <= DaysInterest(p)
    BY DEF WalkOK
<1>6. p \in Int
    BY <1>2
<1>7. \/ L!Days(u) = L!Days(t) /\ Gross(p, rs, u) = Gross(p, rs, t)
      \/ L!Days(u) = L!Days(t) + 1 /\ Gross(p, rs, u) = Gross(p, rs, t) + x
    BY <1>1, <1>5, <1>6, GrossTicks, Zenon DEF x
<1>8. \/ L!Days(u) = L!Days(t) /\ Charged(p, rs, L!Days(u)) = Charged(p, rs, L!Days(t))
      \/ L!Days(u) = L!Days(t) + 1
         /\ Charged(p, rs, L!Days(u)) = Charged(p, rs, L!Days(t)) + x
    BY <1>1, <1>6, ChargedTicks, Zenon DEF x
<1>9. L!Days(t) \in Nat
    BY <1>1, DaysCount
<1>10. Gross(p, rs, u) = Charged(p, rs, L!Days(u))
    BY <1>5, <1>7, <1>8, <1>9
<1>11. /\ L!Days(u) = 0 => Gross(p, rs, u) = 0
       /\ L!Days(u) = 1 => Gross(p, rs, u) <= DaysInterest(p)
    BY <1>2, <1>4, <1>5, <1>7, <1>9
<1>12. WalkOK(p, u, rs)
    BY <1>5, <1>10, <1>11 DEF WalkOK
<1>13. Gross(p, rs, u) \in {Gross(p, rs, t), Gross(p, rs, t) + x}
    BY <1>7
<1>14. QED
    BY <1>3, <1>12, <1>13, Zenon DEF x

\* A tick.
LEMMA LedgerTicks ==
    ASSUME NEW rs, NEW p, NEW t, RowsOK(t, rs), WalkOK(p, t, rs), BooksOK(p, t, rs),
           t + 1 \in 0 .. MaxTick
    PROVE  RowsOK(t + 1, rs) /\ WalkOK(p, t + 1, rs) /\ BooksOK(p, t + 1, rs)
<1>1. /\ WalkOK(p, t + 1, rs)
      /\ Gross(p, rs, t + 1) \in
            {Gross(p, rs, t), Gross(p, rs, t) + DaysInterest(p - PaidOf(rs))}
    BY WalkTicks, Zenon
<1>2. BooksOK(p, t + 1, rs)
    BY <1>1, TickBalance, Zenon DEF BooksOK
<1>3. RowsOK(t + 1, rs)
    <2>1. t \in Nat /\ rs \in Seq(LedgerRows)
        BY ServicesAssumption DEF RowsOK, ServicesAssumption
    <2>2. \A i \in DOMAIN rs : rs[i] \in LedgerRows
        BY <2>1
    <2>3. \A i \in DOMAIN rs : rs[i].at \in Nat
        BY <2>2 DEF LedgerRows
    <2>4. QED
        BY <2>1, <2>3 DEF RowsOK
<1>4. QED
    BY <1>1, <1>2, <1>3

\* A row in the books.
LEMMA SumsAppend ==
    ASSUME NEW rs \in Seq(LedgerRows), NEW r \in LedgerRows
    PROVE  /\ PaidOf(Append(rs, r)) = PaidOf(rs) + r.principal
           /\ L!Sum(InterestsOf(Append(rs, r))) = L!Sum(InterestsOf(rs)) + r.interest
           /\ KeptOf(Append(rs, r)) = KeptOf(rs) + r.amount - r.overpay
<1>1. r.principal \in Int /\ r.interest \in Int /\ r.amount \in Int /\ r.overpay \in Int
    BY DEF LedgerRows
<1>2. L!Sum(PrincipalsOf(Append(rs, r))) = L!Sum(PrincipalsOf(rs)) + r.principal
    BY <1>1, ColumnType, ColumnAppend, SumAppend
<1>3. L!Sum(InterestsOf(Append(rs, r))) = L!Sum(InterestsOf(rs)) + r.interest
    BY <1>1, ColumnType, ColumnAppend, SumAppend
<1>4. L!Sum(AmountsOf(Append(rs, r))) = L!Sum(AmountsOf(rs)) + r.amount
    BY <1>1, ColumnType, ColumnAppend, SumAppend
<1>5. L!Sum(OverpaysOf(Append(rs, r))) = L!Sum(OverpaysOf(rs)) + r.overpay
    BY <1>1, ColumnType, ColumnAppend, SumAppend
<1>6. L!Sum(AmountsOf(rs)) \in Int /\ L!Sum(OverpaysOf(rs)) \in Int
    BY ColumnType, SumType
<1>7. KeptOf(Append(rs, r)) = KeptOf(rs) + r.amount - r.overpay
    BY <1>1, <1>4, <1>5, <1>6 DEF KeptOf
<1>8. QED
    BY <1>2, <1>3, <1>7 DEF PaidOf

\* A payment, with the accrual of tick t and a row of tick u.
LEMMA LedgerCredits ==
    ASSUME NEW rs, NEW p, NEW t, RowsOK(t, rs), WalkOK(p, t, rs), BooksOK(p, t, rs),
           NEW u \in {t, t + 1}, u \in 0 .. MaxTick, Len(rs) < MaxPayments,
           NEW a \in Nat, Whole(a),
           NEW oi, oi = L!Minus(Gross(p, rs, t), L!Sum(InterestsOf(rs))),
           NEW op, op = L!Minus(p, PaidOf(rs)),
           NEW i, i = L!Least(a, oi), NEW pp, pp = L!Least(a - i, op), NEW e, e = a - i - pp,
           NEW r, r = [at |-> u, amount |-> a, interest |-> L!Stored(i),
                       principal |-> L!Stored(pp), overpay |-> L!Stored(e)]
    PROVE  /\ RowsOK(u, Append(rs, r)) /\ WalkOK(p, u, Append(rs, r))
           /\ BooksOK(p, u, Append(rs, r))
           /\ op + oi <= i + pp => SettledOK(p, u, Append(rs, r))
<1>1. /\ t \in Nat /\ u \in Nat /\ t <= u /\ rs \in Seq(LedgerRows) /\ Len(rs) \in Nat
      /\ Len(rs) + 1 <= MaxPayments
      /\ \A j \in DOMAIN rs : rs[j].at <= t /\ (j > 1 => rs[j - 1].at <= rs[j].at)
    BY ServicesAssumption DEF RowsOK, ServicesAssumption
<1>2. /\ p \in Nat /\ PaidOf(rs) \in Nat /\ PaidOf(rs) <= p
      /\ Gross(p, rs, t) \in Nat /\ L!Sum(InterestsOf(rs)) \in Nat
    BY DEF BooksOK, BalanceTypes
<1>3. oi \in Nat /\ op \in Nat
    BY <1>2 DEF L!Minus
<1>4. i \in Int /\ pp \in Int /\ e \in Int
    BY <1>3 DEF L!Least
<1> DEFINE si == L!Stored(i)
           sp == L!Stored(pp)
           se == L!Stored(e)
<1>5. Parts(a, oi, op, i, pp, e, si, sp, se)
    BY <1>3, <1>4, CreditParts, Zenon
<1> HIDE DEF si, sp, se
<1>6. si \in Nat /\ sp \in Nat /\ se \in Nat
    BY <1>5 DEF Parts, Near
<1>7. r = [at |-> u, amount |-> a, interest |-> si, principal |-> sp, overpay |-> se]
    BY DEF si, sp, se
<1>8. /\ r \in LedgerRows /\ r.at = u /\ r.amount = a /\ r.interest = si
      /\ r.principal = sp /\ r.overpay = se
    BY <1>1, <1>6, <1>7 DEF LedgerRows
<1>9. WalkOK(p, u, rs)
      /\ Gross(p, rs, u) \in {Gross(p, rs, t), Gross(p, rs, t) + DaysInterest(p - PaidOf(rs))}
    BY WalkTicks, Zenon
<1>10. /\ PaidOf(Append(rs, r)) = PaidOf(rs) + sp
       /\ L!Sum(InterestsOf(Append(rs, r))) = L!Sum(InterestsOf(rs)) + si
       /\ KeptOf(Append(rs, r)) = KeptOf(rs) + a - se
    <2>1. /\ PaidOf(Append(rs, r)) = PaidOf(rs) + r.principal
          /\ L!Sum(InterestsOf(Append(rs, r))) = L!Sum(InterestsOf(rs)) + r.interest
          /\ KeptOf(Append(rs, r)) = KeptOf(rs) + r.amount - r.overpay
        BY <1>1, <1>8, SumsAppend
    <2>2. QED
        BY <1>8, <2>1
<1>11. p \in Int
    BY <1>2
<1>12. /\ Gross(p, Append(rs, r), u) = Gross(p, rs, u)
       /\ L!Walk(Append(rs, r), p).principal = L!Walk(rs, p).principal - sp
       /\ Charged(p, Append(rs, r), L!Days(u)) = Charged(p, rs, L!Days(u))
    <2>1. /\ Gross(p, Append(rs, r), r.at) = Gross(p, rs, r.at)
          /\ L!Walk(Append(rs, r), p).principal = L!Walk(rs, p).principal - r.principal
        BY <1>1, <1>8, <1>11, GrossAppend
    <2>2. Charged(p, Append(rs, r), L!Days(r.at)) = Charged(p, rs, L!Days(r.at))
        BY <1>1, <1>8, <1>11, ChargedAppend
    <2>3. QED
        BY <1>8, <2>1, <2>2
<1>13. WalkOK(p, u, Append(rs, r))
    <2>1. LeftOf(p, rs) = p - PaidOf(rs)
          /\ LeftOf(p, Append(rs, r)) = p - PaidOf(Append(rs, r))
        BY DEF LeftOf, PaidOf
    <2>2. LeftOf(p, Append(rs, r)) = LeftOf(p, rs) - sp
        BY <1>2, <1>6, <1>10, <2>1
    <2>3. QED
        BY <1>9, <1>12, <2>2, Zenon DEF WalkOK
<1> DEFINE n == Len(rs)
           g == Gross(p, rs, t)
           g2 == Gross(p, rs, u)
           tp == PaidOf(rs)
           ti == L!Sum(InterestsOf(rs))
           kept == KeptOf(rs)
<1>14. Len(Append(rs, r)) = n + 1
    BY <1>1
<1>15. BalanceTypes(p, n, tp, ti, kept, g) /\ Balanced(p, n, tp, ti, kept, g)
    BY Zenon DEF BooksOK
<1>16. oi = L!Minus(g, ti) /\ op = L!Minus(p, tp) /\ g2 \in {g, g + DaysInterest(p - tp)}
    BY <1>9, Zenon
<1>17. /\ BalanceTypes(p, n + 1, tp + sp, ti + si, kept + a - se, g2)
       /\ Balanced(p, n + 1, tp + sp, ti + si, kept + a - se, g2)
       /\ op + oi <= i + pp => Settled(p, n + 1, kept + a - se, g2)
    <2> HIDE DEF n, g, g2, tp, ti, kept
    <2>1. QED
        BY <1>5, <1>15, <1>16, CreditBalance, Zenon
<1>18. BooksOK(p, u, Append(rs, r))
    BY <1>10, <1>12, <1>14, <1>17, Zenon DEF BooksOK
<1>19. op + oi <= i + pp => SettledOK(p, u, Append(rs, r))
    BY <1>10, <1>12, <1>14, <1>17, Zenon DEF SettledOK
<1>20. RowsOK(u, Append(rs, r))
    <2> DEFINE ap == Append(rs, r)
    <2>1. /\ ap \in Seq(LedgerRows) /\ Len(ap) = Len(rs) + 1 /\ DOMAIN ap = 1 .. Len(rs) + 1
          /\ DOMAIN rs = 1 .. Len(rs)
          /\ ap[Len(rs) + 1] = r /\ \A j \in 1 .. Len(rs) : ap[j] = rs[j]
        BY <1>1, <1>8
    <2> HIDE DEF ap
    <2>2. \A j \in 1 .. Len(rs) : rs[j].at \in Nat
        <3>1. \A j \in 1 .. Len(rs) : rs[j] \in LedgerRows
            BY <1>1
        <3>2. QED
            BY <3>1 DEF LedgerRows
    <2>3. ASSUME NEW j \in 1 .. Len(rs) + 1
          PROVE  ap[j].at <= u /\ (j > 1 => ap[j - 1].at <= ap[j].at)
        <3>1. CASE j = Len(rs) + 1
            <4>1. ap[j].at = u
                BY <1>8, <2>1, <3>1
            <4>2. ASSUME j > 1
                  PROVE  ap[j - 1].at <= u
                <5>1. j - 1 \in 1 .. Len(rs) /\ ap[j - 1] = rs[j - 1]
                    BY <1>1, <2>1, <3>1, <4>2
                <5>2. rs[j - 1].at <= t /\ rs[j - 1].at \in Nat
                    BY <1>1, <2>1, <2>2, <5>1
                <5>3. QED
                    BY <1>1, <5>1, <5>2
            <4>3. QED
                BY <1>1, <4>1, <4>2
        <3>2. CASE j # Len(rs) + 1
            <4>1. j \in 1 .. Len(rs) /\ ap[j] = rs[j]
                BY <1>1, <2>1, <3>2
            <4>2. rs[j].at <= t /\ rs[j].at \in Nat /\ (j > 1 => rs[j - 1].at <= rs[j].at)
                BY <1>1, <2>1, <2>2, <4>1
            <4>3. ASSUME j > 1
                  PROVE  ap[j - 1].at <= ap[j].at
                <5>1. j - 1 \in 1 .. Len(rs)
                    BY <1>1, <4>1, <4>3
                <5>2. ap[j - 1] = rs[j - 1]
                    BY <2>1, <5>1, Zenon
                <5>3. QED
                    BY <4>1, <4>2, <4>3, <5>2
            <4>4. QED
                BY <1>1, <4>1, <4>2, <4>3
        <3>3. QED
            BY <3>1, <3>2
    <2>4. RowsOK(u, ap)
        BY <1>1, <2>1, <2>3 DEF RowsOK
    <2>5. QED
        BY <2>4 DEF ap
<1>21. QED
    BY <1>13, <1>18, <1>19, <1>20

\* What the ledger adds up, in these terms.
LEMMA LedgerReads ==
    /\ L!PaidPrincipal = PaidOf(s5) /\ L!PaidInterest = L!Sum(InterestsOf(s5))
    /\ L!Received = L!Sum(AmountsOf(s5)) /\ L!Overpaid = L!Sum(OverpaysOf(s5))
    /\ L!GrossInterest = Gross(s1, s5, s4)
    /\ L!ChargedTo(L!Days(s4)) = Charged(s1, s5, L!Days(s4))
<1>1. /\ L!PaidPrincipal = PaidOf(s5) /\ L!PaidInterest = L!Sum(InterestsOf(s5))
      /\ L!Received = L!Sum(AmountsOf(s5)) /\ L!Overpaid = L!Sum(OverpaysOf(s5))
    BY DEF L!PaidPrincipal, L!PaidInterest, L!Received, L!Overpaid, PaidOf, PrincipalsOf,
           InterestsOf, AmountsOf, OverpaysOf
<1>2. L!GrossInterest = Gross(s1, s5, s4)
    BY Zenon DEF L!GrossInterest, Gross, DaysInterest, L!Kobo, L!DailyRate
<1>3. L!ChargedTo(L!Days(s4)) = Charged(s1, s5, L!Days(s4))
    BY Zenon DEF L!ChargedTo, L!PrincipalOn, Charged, OnDay, EarlierOf, DaysInterest, L!Kobo,
                 L!DailyRate
<1>4. QED
    BY <1>1, <1>2, <1>3

\* Collateral is for no less than what is lent.
LEMMA CollateralCovers ==
    \A k, r \in Nat \ {0} :
        L!Collateral(k, r) \in Nat /\ 3 * (L!Collateral(k, r) * r) >= 5 * k
<1>1. \A a, b \in Nat \ {0} : (a + b - 1) \div b \in Nat /\ ((a + b - 1) \div b) * b >= a
    OBVIOUS
<1>2. ASSUME NEW k \in Nat \ {0}, NEW r \in Nat \ {0}
      PROVE  L!Collateral(k, r) \in Nat /\ 3 * (L!Collateral(k, r) * r) >= 5 * k
    <2> DEFINE c == L!Collateral(k, r)
    <2>1. k * 5 \in Nat \ {0} /\ 3 * r \in Nat \ {0} /\ k * 5 = 5 * k
        OBVIOUS
    <2>2. c = (k * 5 + 3 * r - 1) \div (3 * r)
        BY DEF L!Collateral, L!CeilDiv, L!Ltv
    <2>3. c \in Nat /\ c * (3 * r) >= k * 5
        BY <1>1, <2>1, <2>2
    <2> HIDE DEF c
    <2>4. c * (3 * r) = 3 * (c * r)
        BY <2>3
    <2>5. c \in Nat /\ 3 * (c * r) >= 5 * k
        BY <2>1, <2>3, <2>4
    <2>6. QED
        BY <2>5 DEF c
<1>3. QED
    BY <1>2

\* A loan without repayments.
LEMMA LedgerInit == L!Init => LedgerInv
<1> SUFFICES ASSUME L!Init
             PROVE  LedgerInv
    OBVIOUS
<1>1. PICK k : k \in Principals /\ s1 = k * 1000
    BY DEF L!Init, L!Kobo
<1>2. /\ s3 \in Rates /\ s4 = 0 /\ s5 = <<>> /\ s6 = FALSE
      /\ s2 = L!Collateral(s1 \div 1000, s3)
    BY DEF L!Init, L!Kobo
<1>3. k \in Nat \ {0} /\ s3 \in Nat \ {0} /\ MaxTick \in Nat /\ MaxPayments \in Nat
    BY <1>1, <1>2, ServicesAssumption DEF ServicesAssumption
<1>4. s1 \in Nat \ {0} /\ s1 \div 1000 = k /\ Whole(s1)
    BY <1>1, <1>3 DEF Whole
<1>5. s2 \in Nat /\ Covered(s1, s2, s3)
    <2>1. s2 = L!Collateral(k, s3) /\ s1 \div 1000 = k
        BY <1>2, <1>4
    <2>2. s2 \in Nat /\ 3 * (s2 * s3) >= 5 * k
        BY <1>3, <2>1, CollateralCovers
    <2>3. QED
        BY <2>1, <2>2 DEF Covered
<1>6. s5 \in Seq(LedgerRows) /\ Len(s5) = 0 /\ DOMAIN s5 = {}
    BY <1>2
<1>7. RowsOK(s4, s5)
    BY <1>2, <1>3, <1>6 DEF RowsOK
<1>8. L!Sum(PrincipalsOf(s5)) = 0 /\ L!Sum(InterestsOf(s5)) = 0
      /\ L!Sum(AmountsOf(s5)) = 0 /\ L!Sum(OverpaysOf(s5)) = 0
    <2>1. /\ Len(PrincipalsOf(s5)) = 0 /\ Len(InterestsOf(s5)) = 0
          /\ Len(AmountsOf(s5)) = 0 /\ Len(OverpaysOf(s5)) = 0
        BY <1>2 DEF PrincipalsOf, InterestsOf, AmountsOf, OverpaysOf
    <2>2. QED
        BY <1>6, <2>1, ColumnType, SumType
<1>9. L!Walk(s5, s1) = [day |-> 0, principal |-> s1, interest |-> 0]
    <2>1. s1 \in Int
        BY <1>4
    <2>2. QED
        BY <2>1, <1>6, WalkType, Zenon
<1>10. L!Days(s4) = 0
    BY <1>2, DaysCount
<1>11. Gross(s1, s5, s4) = 0
    <2>1. DaysInterest(s1) \in Int
        BY <1>4, DaysInterestType
    <2>2. Gross(s1, s5, s4) = 0 + DaysInterest(s1) * (0 - 0)
        BY <1>9, <1>10 DEF Gross
    <2>3. QED
        BY <2>1, <2>2
<1>12. Charged(s1, s5, L!Days(s4)) = 0
    <2>1. s1 \in Int /\ 0 \in Nat
        BY <1>4
    <2>2. Charged(s1, s5, 0) = 0
        BY <2>1, <1>6, ChargedMore, Zenon
    <2>3. QED
        BY <2>2, <1>10
<1>13. WalkOK(s1, s4, s5)
    <2>1. L!Walk(s5, s1).principal = LeftOf(s1, s5)
        BY <1>4, <1>8, <1>9 DEF LeftOf
    <2>2. QED
        BY <1>10, <1>11, <1>12, <2>1 DEF WalkOK
<1>14. PaidOf(s5) = 0 /\ KeptOf(s5) = 0
    BY <1>8 DEF PaidOf, KeptOf
<1>15. BooksOK(s1, s4, s5)
    <2>1. BalanceTypes(s1, 0, 0, 0, 0, 0)
        BY <1>4 DEF BalanceTypes, Whole
    <2>2. Balanced(s1, 0, 0, 0, 0, 0)
        BY <1>4 DEF Balanced, L!Apart
    <2>3. QED
        BY <1>6, <1>8, <1>11, <1>14, <2>1, <2>2, Zenon DEF BooksOK
<1>16. s1 \in {p * 1000 : p \in Principals} /\ s6 \in BOOLEAN /\ ~s6
    BY Zenon DEF L!Init, L!Kobo
<1>17. QED
    BY <1>2, <1>5, <1>7, <1>13, <1>15, <1>16, Zenon DEF LedgerInv

\* A step of the clock, or a payment, in whole kobo.
LEMMA LedgerNext ==
    ASSUME LedgerInv, L!Next
    PROVE  LedgerInv'
<1>1. /\ s1 \in {p * 1000 : p \in Principals} /\ s2 \in Nat /\ s3 \in Rates
      /\ Covered(s1, s2, s3)
    BY DEF LedgerInv
<1>2. RowsOK(s4, s5) /\ WalkOK(s1, s4, s5) /\ BooksOK(s1, s4, s5)
    BY DEF LedgerInv
<1>3. ASSUME s1' = s1, s2' = s2, s3' = s3, s6' \in BOOLEAN,
             RowsOK(s4', s5') /\ WalkOK(s1, s4', s5') /\ BooksOK(s1, s4', s5'),
             s6' => SettledOK(s1, s4', s5')
      PROVE  LedgerInv'
    BY <1>1, <1>3, Zenon DEF LedgerInv
<1>t. s4 \in Nat /\ MaxTick \in Nat /\ Len(s5) \in Nat
    BY <1>2, ServicesAssumption DEF RowsOK, ServicesAssumption
<1>4. CASE L!Tick
    <2>1. /\ ~s6 /\ s4 < MaxTick /\ s4' = s4 + 1
          /\ s1' = s1 /\ s2' = s2 /\ s3' = s3 /\ s5' = s5 /\ s6' = s6
        BY <1>4 DEF L!Tick
    <2>2. s4 + 1 \in 0 .. MaxTick
        BY <1>t, <2>1
    <2>3. RowsOK(s4 + 1, s5) /\ WalkOK(s1, s4 + 1, s5) /\ BooksOK(s1, s4 + 1, s5)
        BY <1>2, <2>2, LedgerTicks, Zenon
    <2>4. s6' \in BOOLEAN /\ ~s6'
        BY <2>1 DEF LedgerInv
    <2>5. QED
        BY <1>3, <2>1, <2>3, <2>4, Zenon
<1>5. ASSUME NEW amount \in {a * L!Kobo : a \in Payments} \cup {L!Displayed}, NEW lag \in {0, 1},
             L!Credit(amount, lag)
      PROVE  LedgerInv'
    <2> DEFINE oi == L!Minus(L!GrossInterest, L!PaidInterest)
               op == L!Minus(s1, L!PaidPrincipal)
               i  == L!Least(amount, oi)
               pp == L!Least(amount - i, op)
               e  == amount - i - pp
               u  == s4 + lag
               r  == [at |-> u, amount |-> amount, interest |-> L!Stored(i),
                      principal |-> L!Stored(pp), overpay |-> L!Stored(e)]
    <2>1. /\ L!Outstanding = [principal |-> op, interest |-> oi, total |-> op + oi]
          /\ L!Waterfall(amount, L!Outstanding) = [interest |-> i, principal |-> pp, overpay |-> e]
        BY DEF L!Outstanding, L!Waterfall
    <2>2. /\ Len(s5) < MaxPayments /\ u <= MaxTick
          /\ s5' = Append(s5, r) /\ s6' = (op + oi <= i + pp) /\ s4' = u
          /\ s1' = s1 /\ s2' = s2 /\ s3' = s3
        BY <1>5, <2>1 DEF L!Credit
    <2>3. oi = L!Minus(Gross(s1, s5, s4), L!Sum(InterestsOf(s5))) /\ op = L!Minus(s1, PaidOf(s5))
        BY LedgerReads, Zenon
    <2>4. oi \in Nat /\ op \in Nat
        <3>1. /\ s1 \in Nat /\ PaidOf(s5) \in Nat /\ Gross(s1, s5, s4) \in Nat
              /\ L!Sum(InterestsOf(s5)) \in Nat
            BY <1>2 DEF BooksOK, BalanceTypes
        <3> HIDE DEF oi, op
        <3>2. QED
            BY <2>3, <3>1 DEF L!Minus
    <2>5. amount \in Nat /\ Whole(amount)
        <3>1. CASE amount \in {a * L!Kobo : a \in Payments}
            <4>1. PICK a : a \in Payments /\ amount = a * 1000
                BY <3>1 DEF L!Kobo
            <4>2. a \in Nat
                BY <4>1, ServicesAssumption DEF ServicesAssumption
            <4>3. QED
                BY <4>1, <4>2 DEF Whole
        <3>2. CASE amount = L!Displayed
            <4> DEFINE m == (op + oi + 100000 - 1) \div 100000
            <4>1. L!Outstanding.total = op + oi
                BY <2>1
            <4>2. amount = m * 100000
                BY <3>2, <4>1 DEF L!Displayed, L!CeilDiv, L!Naira, L!Kobo
            <4>3. m \in Nat
                <5> HIDE DEF oi, op
                <5>1. QED
                    BY <2>4
            <4> HIDE DEF m
            <4>4. QED
                BY <4>2, <4>3 DEF Whole
        <3>3. QED
            BY <3>1, <3>2
    <2>6. u \in {s4, s4 + 1} /\ u \in 0 .. MaxTick
        BY <1>t, <2>2
    <2> HIDE DEF oi, op
    <2>7. /\ RowsOK(u, Append(s5, r)) /\ WalkOK(s1, u, Append(s5, r))
          /\ BooksOK(s1, u, Append(s5, r))
          /\ op + oi <= i + pp => SettledOK(s1, u, Append(s5, r))
        <3>1. Len(s5) < MaxPayments
            BY <2>2
        <3> HIDE DEF u
        <3>2. QED
            BY <1>2, <2>3, <2>5, <2>6, <3>1, LedgerCredits
    <2> HIDE DEF i, pp, e, u, r
    <2>8. s6' \in BOOLEAN /\ (s6' => op + oi <= i + pp)
        <3>1. s6' = (op + oi <= i + pp)
            BY <2>2
        <3> DEFINE x == op + oi
                   y == i + pp
        <3>2. (x <= y) \in BOOLEAN
            <4> HIDE DEF x, y
            <4>1. QED
                OBVIOUS
        <3>3. QED
            BY <3>1, <3>2
    <2>9. QED
        BY <1>3, <2>2, <2>7, <2>8, Zenon
<1>6. QED
    BY <1>4, <1>5 DEF L!Next

\* The invariant is as strong as the properties.
LEMMA LedgerPromise == LedgerInv => L!LedgerHolds
<1> SUFFICES ASSUME LedgerInv
             PROVE  L!LedgerHolds
    OBVIOUS
<1> DEFINE n    == Len(s5)
           tp   == PaidOf(s5)
           ti   == L!Sum(InterestsOf(s5))
           kept == KeptOf(s5)
           g    == Gross(s1, s5, s4)
           y    == DaysInterest(s1)
<1>1. RowsOK(s4, s5) /\ WalkOK(s1, s4, s5) /\ BooksOK(s1, s4, s5) /\ Covered(s1, s2, s3)
      /\ s2 \in Nat /\ s3 \in Rates
    BY DEF LedgerInv
<1>2. /\ s1 \in Nat \ {0} /\ n \in Nat /\ ti \in Nat /\ g \in Nat /\ kept \in Int
      /\ tp \in Nat /\ tp <= s1 /\ Whole(s1)
    BY <1>1 DEF BooksOK, BalanceTypes
<1>3. /\ L!Apart(kept, tp + ti) <= n * 1000
      /\ tp = s1 => L!Minus(g, ti) <= n * 1000 + y
    BY <1>1 DEF BooksOK, Balanced
<1>4. s6 => L!Apart(kept, s1 + g) <= n * 1000 + y
    BY DEF LedgerInv, SettledOK, Settled
<1>5. /\ L!PaidPrincipal = tp /\ L!PaidInterest = ti /\ L!Received - L!Overpaid = kept
      /\ L!GrossInterest = g /\ L!ChargedTo(L!Days(s4)) = Charged(s1, s5, L!Days(s4))
    BY LedgerReads, Zenon DEF KeptOf
<1>6. L!EveryDayChargedOnce
    BY <1>1, <1>5, Zenon DEF L!EveryDayChargedOnce, WalkOK
<1>7. L!ChargedTo(L!Days(s4)) = g
    BY <1>5, <1>6 DEF L!EveryDayChargedOnce
<1>8. /\ L!Outstanding.interest = L!Minus(g, ti)
      /\ L!Outstanding.total = L!Minus(s1, tp) + L!Minus(g, ti)
    <2>1. L!Outstanding = [principal |-> L!Minus(s1, tp), interest |-> L!Minus(g, ti),
                           total |-> L!Minus(s1, tp) + L!Minus(g, ti)]
        BY <1>5 DEF L!Outstanding
    <2> HIDE DEF g, ti, tp
    <2>2. QED
        BY <2>1
<1>9. L!RoundingIsBounded
    <2>1. y = 3 * (s1 \div 1000) /\ y \in Nat
        BY <1>2 DEF DaysInterest
    <2> DEFINE slack == Len(s5) * 1000
               oneDay == 3 * (s1 \div 1000)
    <2>2. /\ tp <= s1
          /\ L!Apart(kept, tp + ti) <= slack
          /\ s6 => L!Apart(kept, s1 + g) <= slack + oneDay
          /\ tp = s1 => L!Minus(g, ti) <= slack + oneDay
        BY <1>2, <1>3, <1>4, <2>1
    <2> HIDE DEF g, ti, tp, kept
    <2>3. QED
        BY <1>5, <1>7, <1>8, <2>2 DEF L!RoundingIsBounded, L!Kobo, L!DailyRate
<1>10. L!FreshLoanIsCovered
    <2> SUFFICES ASSUME L!Days(s4) <= 1
                 PROVE  10 * s2 * s3 >= 11 * (L!Outstanding.total \div 1000)
        BY DEF L!FreshLoanIsCovered, L!Kobo
    <2>1. s4 \in Nat /\ s3 \in Nat \ {0}
        BY <1>1, ServicesAssumption DEF RowsOK, ServicesAssumption
    <2>2. L!Days(s4) \in {0, 1}
        BY <2>1, DaysCount
    <2>3. y = 3 * (s1 \div 1000) /\ y \in Nat
        BY <1>2 DEF DaysInterest
    <2>4. g <= y
        BY <1>1, <1>2, <2>2, <2>3 DEF WalkOK
    <2> HIDE DEF g, ti, tp, kept, y
    <2> DEFINE k == s1 \div 1000
               total == L!Outstanding.total
    <2>5. k \in Nat /\ s1 = 1000 * k
        BY <1>2 DEF Whole
    <2>6. total \in Nat /\ total <= 1003 * k
        BY <1>2, <1>8, <2>3, <2>4, <2>5 DEF L!Minus
    <2> DEFINE c == s2 * s3
    <2>7. c \in Nat /\ 3 * c >= 5 * k /\ 10 * s2 * s3 = 10 * c
        BY <1>1, <2>1 DEF Covered
    <2> HIDE DEF c, k, total
    <2>8. 10 * c >= 11 * (total \div 1000)
        BY <2>5, <2>6, <2>7
    <2>9. QED
        BY <2>7, <2>8 DEF total
<1>11. QED
    BY <1>6, <1>9, <1>10 DEF L!LedgerHolds

\* And as its types.
LEMMA LedgerTyped == LedgerInv => L!TypeOK
<1> SUFFICES ASSUME LedgerInv
             PROVE  L!TypeOK
    OBVIOUS
<1>1. s4 \in 0 .. MaxTick /\ s5 \in Seq(LedgerRows) /\ Len(s5) <= MaxPayments
      /\ \A i \in DOMAIN s5 : s5[i].at <= s4 /\ (i > 1 => s5[i - 1].at <= s5[i].at)
    BY DEF LedgerInv, RowsOK
<1>2. ASSUME NEW i \in DOMAIN s5
      PROVE  s5[i] \in L!Row /\ (i > 1 => s5[i - 1].at <= s5[i].at)
    <2>1. s5[i] \in LedgerRows
        BY <1>1
    <2>2. s5[i].at <= s4 /\ MaxTick \in Nat
        BY <1>1, ServicesAssumption DEF ServicesAssumption
    <2>3. s5[i].at \in 0 .. MaxTick
        <3>1. s5[i].at \in Nat
            BY <2>1 DEF LedgerRows
        <3>2. QED
            BY <1>1, <2>2, <3>1
    <2>4. s5[i] \in L!Row
        BY <2>1, <2>3 DEF LedgerRows, L!Row
    <2>5. QED
        BY <1>1, <2>4
<1>3. s1 \in {p * L!Kobo : p \in Principals} /\ s2 \in Nat /\ s3 \in Rates /\ s6 \in BOOLEAN
    BY Zenon DEF LedgerInv, L!Kobo
<1>4. QED
    BY <1>1, <1>2, <1>3, Zenon DEF L!TypeOK

\* A step of another service, or none.
LEMMA LedgerStutters ==
    ASSUME LedgerInv, UNCHANGED <<s1, s2, s3, s4, s5, s6>>
    PROVE  LedgerInv'
BY Zenon DEF LedgerInv

\* The services' steps are the ledger's.
LedgerMode == mode = "ledger" => LedgerInv

LEMMA LedgerModeInit == Init => LedgerMode
BY LedgerInit DEF Init, LedgerMode

LEMMA LedgerModeNext ==
    ASSUME LedgerMode, [Next]_vars
    PROVE  LedgerMode'
<1>1. CASE Next
    <2>1. mode' = mode
        BY <1>1 DEF Next, Rest
    <2>2. CASE mode = "ledger"
        BY <1>1, <2>1, <2>2, LedgerNext DEF Next, LedgerMode
    <2>3. QED
        BY <2>1, <2>2 DEF LedgerMode
<1>2. CASE UNCHANGED vars
    BY <1>2, LedgerStutters DEF vars, LedgerMode
<1>3. QED
    BY <1>1, <1>2

\* The money of a loan is accounted for, however large its principal, its rate
\* and its payments: every day is charged once, on the principal left from the
\* days before, although the walk goes from payment to payment; the rounded
\* columns of the rows stay within a kobo per payment of what was received, and
\* of what a repaid loan owed; and a fresh loan is covered by its collateral.
THEOREM LedgerIsHeld == Spec => []LedgerHolds
<1>1. LedgerMode => LedgerHolds
    BY LedgerPromise DEF LedgerMode, LedgerHolds
<1>2. QED
    BY <1>1, LedgerModeInit, LedgerModeNext, PTL DEF Spec

-----------------------------------------------------------------------------
(* Types                                                                   *)

NamesMode == mode = "names" => N!TypeOK

\* A word is a sequence of letters, and a name one of words.
LEMMA NamesAreWords ==
    /\ \A Q, n : N!UpTo(Q, n) \subseteq Seq(Q)
    /\ \A Q : <<>> \in Seq(Q)
<1>1. ASSUME NEW Q, NEW n, NEW x \in N!UpTo(Q, n)
      PROVE  x \in Seq(Q)
    <2>1. PICK k \in 1 .. n : x \in [1 .. k -> Q]
        BY DEF N!UpTo
    <2>2. QED
        BY <2>1
<1>2. QED
    BY <1>1

\* The names are there from the beginning, and do not change.
LEMMA NamesModeInit == Init => NamesMode
<1> SUFFICES ASSUME N!Init
             PROVE  N!TypeOK
    BY DEF Init, NamesMode
<1> DEFINE W == Seq(Letters)
<1>1. N!UpTo(Letters, MaxLetters) \subseteq W /\ Tokens \subseteq W
    <2>1. 1 \in Letters /\ 2 \in Letters
        BY ServicesAssumption DEF ServicesAssumption
    <2>2. <<1>> \in W /\ <<2>> \in W /\ <<1, 2>> \in W
        BY <2>1
    <2>3. QED
        BY <2>2, NamesAreWords, Zenon DEF Tokens
<1>2. \A Q, n : Q \subseteq W => N!UpTo(Q, n) \subseteq Seq(W)
    <2>1. \A Q, n : Q \subseteq W => N!UpTo(Q, n) \subseteq N!UpTo(W, n)
        BY DEF N!UpTo
    <2> HIDE DEF W
    <2>2. QED
        BY <2>1, NamesAreWords
<1> HIDE DEF W
<1>3. s1 \in Seq(W) /\ s2 \in Seq(W)
    BY <1>1, <1>2, NamesAreWords DEF N!Init
<1>4. QED
    BY <1>3 DEF N!TypeOK, W

\* No service's step is of names.
LEMMA NamesModeNext == NamesMode /\ [Next]_vars => NamesMode'
BY DEF NamesMode, N!TypeOK, Next, vars, Rest

\* A behaviour is of one of the services.
ModeOK ==
    mode \in {"accounts", "identity", "codes", "stepup", "ops", "key", "ledger", "provider",
              "replay", "feed", "topup", "remedy", "names", "lookup"}

\* Each service's invariant has its types.
LEMMA InvariantsTyped ==
    ASSUME ModeOK, Inv, AccessInv, LedgerMode, NamesMode
    PROVE  TypeOK
<1>1. ASSUME mode = "accounts"
      PROVE  TypeOK
    <2>1. A!TypeOK
        BY <1>1 DEF Inv, A!IInv
    <2>2. QED
        BY <1>1, <2>1 DEF TypeOK
<1>2. ASSUME mode = "identity"
      PROVE  TypeOK
    <2>1. K!TypeOK
        BY <1>2 DEF Inv, K!IInv
    <2>2. QED
        BY <1>2, <2>1 DEF TypeOK
<1>3. ASSUME mode = "codes"
      PROVE  TypeOK
    <2>1. C!TypeOK
        BY <1>3 DEF AccessInv, C!IInv
    <2>2. QED
        BY <1>3, <2>1 DEF TypeOK
<1>4. ASSUME mode = "stepup"
      PROVE  TypeOK
    <2>1. S!TypeOK
        BY <1>4 DEF AccessInv, S!IInv
    <2>2. QED
        BY <1>4, <2>1 DEF TypeOK
<1>5. ASSUME mode = "ops"
      PROVE  TypeOK
    <2>1. O!TypeOK
        BY <1>5 DEF AccessInv, O!IInv
    <2>2. QED
        BY <1>5, <2>1 DEF TypeOK
<1>6. ASSUME mode = "key"
      PROVE  TypeOK
    <2>1. I!TypeOK
        BY <1>6 DEF Inv, I!IInv
    <2>2. QED
        BY <1>6, <2>1 DEF TypeOK
<1>7. ASSUME mode = "ledger"
      PROVE  TypeOK
    <2>1. L!TypeOK
        BY <1>7, LedgerTyped DEF LedgerMode
    <2>2. QED
        BY <1>7, <2>1 DEF TypeOK
<1>8. ASSUME mode = "provider"
      PROVE  TypeOK
    <2>1. P!TypeOK
        BY <1>8 DEF Inv, P!IInv
    <2>2. QED
        BY <1>8, <2>1 DEF TypeOK
<1>9. ASSUME mode = "replay"
      PROVE  TypeOK
    <2>1. R!TypeOK
        BY <1>9 DEF Inv, R!IInv
    <2>2. QED
        BY <1>9, <2>1 DEF TypeOK
<1>10. ASSUME mode = "feed"
      PROVE  TypeOK
    <2>1. F!TypeOK
        BY <1>10 DEF Inv, F!IInv
    <2>2. QED
        BY <1>10, <2>1 DEF TypeOK
<1>11. ASSUME mode = "topup"
      PROVE  TypeOK
    <2>1. T!TypeOK
        BY <1>11 DEF Inv, T!IInv
    <2>2. QED
        BY <1>11, <2>1 DEF TypeOK
<1>12. ASSUME mode = "remedy"
      PROVE  TypeOK
    <2>1. M!TypeOK
        BY <1>12 DEF Inv, M!IInv
    <2>2. QED
        BY <1>12, <2>1 DEF TypeOK
<1>13. ASSUME mode = "names"
      PROVE  TypeOK
    <2>1. N!TypeOK
        BY <1>13 DEF NamesMode
    <2>2. QED
        BY <1>13, <2>1 DEF TypeOK
<1>14. ASSUME mode = "lookup"
      PROVE  TypeOK
    <2>1. U!TypeOK
        BY <1>14 DEF Inv, U!IInv
    <2>2. QED
        BY <1>14, <2>1 DEF TypeOK
<1>15. QED
    BY <1>1, <1>2, <1>3, <1>4, <1>5, <1>6, <1>7, <1>8, <1>9, <1>10, <1>11, <1>12, <1>13, <1>14
    DEF ModeOK

\* Every record, counter and queue of the fourteen services stays one of its
\* kind and within its bound, whichever service it is.
THEOREM TypesHold == Spec => []TypeOK
<1>1. Init => ModeOK
    BY DEF Init, ModeOK
<1>2. ModeOK /\ [Next]_vars => ModeOK'
    BY DEF ModeOK, Next, vars, Rest
<1>3. QED
    BY <1>1, <1>2, InitInv, NextInv, AccessInit, AccessNext, LedgerModeInit, LedgerModeNext,
       NamesModeInit, NamesModeNext, InvariantsTyped, PTL DEF Spec
=============================================================================
