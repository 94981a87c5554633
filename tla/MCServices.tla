------------------------------ MODULE MCServices ------------------------------
(***************************************************************************)
(* Fourteen services that share neither tables nor keys in what they are   *)
(* about: a behaviour is of one of them, mode.  The state of that one is   *)
(* in s1, s2, ..., in the order in which its module declares its           *)
(* variables; a state without the variables of the others is checked much  *)
(* faster.                                                                 *)
(***************************************************************************)
EXTENDS Naturals, FiniteSets, TLC

CONSTANTS
    Calls, Users, Numbers, Destinations, Limit, MaxRows, TopTier, MaxAccounts,
    OtpAttempts, MaxAttempts, MaxCodes, MaxSessions, MaxPins, MaxSecrets, MaxStale, MaxTokens,
    MaxLapses, Principals, Payments, Rates, TicksPerDay, MaxTick, MaxPayments,
    MaxLog, Ids, Times, PageSizes, MaxDeliveries, MaxSends, Letters, MaxLetters,
    MaxNameTokens, TokenLife

ASSUME ServicesAssumption ==
    /\ IsFiniteSet(Calls) /\ MaxLapses \in Nat /\ MaxSends \in Nat /\ MaxLog \in Nat \ {0}
    /\ OtpAttempts \in Nat \ {0} /\ MaxAttempts \in Nat \ {0} /\ MaxCodes \in Nat /\ MaxSessions \in Nat
    /\ MaxPins \in Nat /\ MaxSecrets \in Nat /\ MaxStale \in Nat /\ MaxTokens \in Nat
    /\ Calls # {} /\ Limit \in Nat \ {0} /\ MaxRows \in Nat \ {0} /\ MaxAccounts \in Nat
    /\ TopTier \in Nat \ {0} /\ "none" \notin Numbers /\ MaxDeliveries \in Nat
    /\ IsFiniteSet(Ids) /\ Ids \subseteq Nat /\ Times \subseteq Nat
    /\ PageSizes \subseteq Nat \ {0} /\ TokenLife \in Nat \ {0, 1}
    /\ Principals \subseteq Nat \ {0} /\ Payments \subseteq Nat /\ Rates \subseteq Nat \ {0}
    /\ TicksPerDay \in Nat \ {0} /\ MaxTick \in Nat /\ MaxPayments \in Nat
    /\ {1, 2} \subseteq Letters

VARIABLES mode, s1, s2, s3, s4, s5, s6, s7, s8, s9, s10, s11, s12, s13

vars == <<mode, s1, s2, s3, s4, s5, s6, s7, s8, s9, s10, s11, s12, s13>>

\* An order that PalmPay's books show, and what may be wrong with one.
Plain  == [books |-> "settled", ours |-> TRUE, small |-> FALSE, signed |-> TRUE,
           success |-> TRUE]
Hidden == [Plain EXCEPT !.books = "hidden"]
Orders == {Plain, Hidden, [Hidden EXCEPT !.signed = FALSE], [Plain EXCEPT !.books = "refuted"],
           [Plain EXCEPT !.ours = FALSE], [Plain EXCEPT !.small = TRUE],
           [Plain EXCEPT !.success = FALSE]}

\* Two words, and one of both.
Tokens == {<<1>>, <<2>>, <<1, 2>>}

A == INSTANCE Accounts WITH Requests <- Calls, accounts <- s1, rows <- s2, verified <- s3,
        used <- s4, call <- s5, raced <- s6
K == INSTANCE Identity WITH held <- s1, legacy <- s2, tier <- s3, vas <- s4, opened <- s5,
        call <- s6, lifted <- s7, changed <- s8
C == INSTANCE Codes WITH MaxAttempts <- OtpAttempts, purpose <- s1, user <- s2, stored <- s3,
        attempts <- s4, sent <- s5, call <- s6, sessions <- s7, cookies <- s8, tried <- s9, redeemed <- s10,
        cleared <- s11, loggedOut <- s12
S == INSTANCE StepUp WITH pin <- s1, pins <- s2, failed <- s3, lock <- s4, secret <- s5,
        secrets <- s6, enabled <- s7, call <- s8, wrongs <- s9, stale <- s10, on <- s11,
        proved <- s12, crossed <- s13
O == INSTANCE OpsAuth WITH secret <- s1, secrets <- s2, enabled <- s3, active <- s4,
        issued <- s5, challenges <- s6, tokens <- s7, call <- s8, live <- s9,
        sessions <- s10, proved <- s11, enrolled <- s12, crossed <- s13
I == INSTANCE Idempotency WITH key <- s1, call <- s2, completed <- s3, lapses <- s4
L == INSTANCE Ledger WITH principal <- s1, collateral <- s2, rate <- s3, now <- s4,
        rows <- s5, repaid <- s6
P == INSTANCE Providers WITH kind <- s1, hosted <- s2, fate <- s3, placed <- s4,
        waiting <- s5, results <- s6, inFlight <- s7
R == INSTANCE Replay WITH Runs <- Calls, order <- s1, unsigned <- s2, loan <- s3,
        logRows <- s4, logged <- s5, inflow <- s6, job <- s7, credits <- s8,
        trusted <- s9, swallowed <- s10
F == INSTANCE Feed WITH rows <- s1, matched <- s2, limit <- s3, cursor <- s4, logRead <- s5,
        inflowRead <- s6, finished <- s7, first <- s8, shown <- s9, repeated <- s10
T == INSTANCE TopUps WITH Requests <- Calls, status <- s1, step <- s2, topup <- s3,
        cached <- s4, invoice <- s5, inflow <- s6, deliveries <- s7
M == INSTANCE Remedies WITH Runs <- Calls, status <- s1, rate <- s2, address <- s3,
        released <- s4, locked <- s5, run <- s6, sends <- s7, slips <- s8
N == INSTANCE NameMatch WITH a <- s1, b <- s2
U == INSTANCE Lookups WITH service <- s1, document <- s2, holder <- s3, token <- s4,
        looks <- s5, verified <- s6, early <- s7

\* A service of n variables leaves the others unused.
Unused(n) ==
    /\ n < 3 => s3 = "unused"
    /\ n < 4 => s4 = "unused"
    /\ n < 5 => s5 = "unused"
    /\ n < 6 => s6 = "unused"
    /\ n < 7 => s7 = "unused"
    /\ n < 8 => s8 = "unused"
    /\ n < 9 => s9 = "unused"
    /\ n < 10 => s10 = "unused"
    /\ n < 11 => s11 = "unused"
    /\ n < 12 => s12 = "unused"
    /\ n < 13 => s13 = "unused"

Init ==
    \/ mode = "accounts" /\ A!Init /\ Unused(6)
    \/ mode = "identity" /\ K!Init /\ Unused(8)
    \/ mode = "codes"    /\ C!Init /\ Unused(12)
    \/ mode = "stepup"   /\ S!Init /\ Unused(13)
    \/ mode = "ops"      /\ O!Init /\ Unused(13)
    \/ mode = "key"      /\ I!Init /\ Unused(4)
    \/ mode = "ledger"   /\ L!Init /\ Unused(6)
    \/ mode = "provider" /\ P!Init /\ Unused(7)
    \/ /\ mode = "replay" /\ R!Init /\ Unused(10)
       /\ s3[1] = "none" /\ (s3[2] = "none") = (s1 = Plain)
    \/ mode = "feed"     /\ F!Init /\ Unused(10)
    \/ mode = "topup"    /\ T!Init /\ Unused(7)
    \/ mode = "remedy"   /\ M!Init /\ Unused(8)
    \/ mode = "names"    /\ N!Init /\ Unused(2)
    \/ mode = "lookup"   /\ U!Init /\ Unused(7)

Rest(n) ==
    /\ UNCHANGED mode
    /\ n < 3 => UNCHANGED s3
    /\ n < 4 => UNCHANGED s4
    /\ n < 5 => UNCHANGED s5
    /\ n < 6 => UNCHANGED s6
    /\ n < 7 => UNCHANGED s7
    /\ n < 8 => UNCHANGED s8
    /\ n < 9 => UNCHANGED s9
    /\ n < 10 => UNCHANGED s10
    /\ n < 11 => UNCHANGED s11
    /\ n < 12 => UNCHANGED s12
    /\ n < 13 => UNCHANGED s13

Next ==
    \/ mode = "accounts" /\ A!Next /\ Rest(6)
    \/ mode = "identity" /\ K!Next /\ Rest(8)
    \/ mode = "codes"    /\ C!Next /\ Rest(12)
    \/ mode = "stepup"   /\ S!Next /\ Rest(13)
    \/ mode = "ops"      /\ O!Next /\ Rest(13)
    \/ mode = "key"      /\ I!Next /\ Rest(4)
    \/ mode = "ledger"   /\ L!Next /\ Rest(6)
    \/ mode = "provider" /\ P!Next /\ Rest(7)
    \/ mode = "replay"   /\ R!Next /\ Rest(10)
    \/ mode = "feed"     /\ F!Next /\ Rest(10)
    \/ mode = "topup"    /\ T!Next /\ Rest(7)
    \/ mode = "remedy"   /\ M!Next /\ Rest(8)
    \/ mode = "lookup"   /\ U!Next /\ Rest(7)

Spec == Init /\ [][Next]_vars

Symmetry == Permutations(Calls) \cup Permutations(Users) \cup Permutations(Numbers)

-----------------------------------------------------------------------------

TypeOK ==
    CASE mode = "accounts" -> A!TypeOK
      [] mode = "identity" -> K!TypeOK
      [] mode = "codes"    -> C!TypeOK
      [] mode = "stepup"   -> S!TypeOK
      [] mode = "ops"      -> O!TypeOK
      [] mode = "key"      -> I!TypeOK
      [] mode = "ledger"   -> L!TypeOK
      [] mode = "provider" -> P!TypeOK
      [] mode = "replay"   -> R!TypeOK
      [] mode = "feed"     -> F!TypeOK
      [] mode = "topup"    -> T!TypeOK
      [] mode = "remedy"   -> M!TypeOK
      [] mode = "names"    -> N!TypeOK
      [] mode = "lookup"   -> U!TypeOK

\* The properties are stated, and commented, in the modules.
CustomerHolds ==
    /\ mode = "accounts" => A!DefaultKept
    /\ mode = "identity" => K!IdentityHolds
    /\ mode = "feed"     => F!FeedHolds
    /\ mode = "topup"    => T!OneOpenTopUp
    /\ mode = "lookup"   => U!LookupsHold
AccessHolds ==
    /\ mode = "codes"    => C!CodesAreSpent
    /\ mode = "stepup"   => S!FactorsHold
    /\ mode = "ops"      => O!EnrolmentHolds
RunsOnce ==
    /\ mode = "key"      => I!KeyRunsOnce
    /\ mode = "replay"   => R!ReplayHolds
    /\ mode = "remedy"   => M!RemediesHold
    /\ mode = "provider" => P!AnswersHold
LedgerHolds == mode = "ledger" => L!LedgerHolds
NamesHold == mode = "names" => N!MatchHolds
=============================================================================
