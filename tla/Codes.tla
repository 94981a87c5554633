-------------------------------- MODULE Codes --------------------------------
(***************************************************************************)
(* One-time codes of one purpose: sign-up, log-in and the scoped codes of  *)
(* the transaction PIN and the release address, with the sessions a log-in *)
(* opens (AuthService, SessionService).                                    *)
(*                                                                         *)
(* A code's hash and its counter are two Redis keys, and every command on  *)
(* them is an await of its own, between which another request of the       *)
(* customer may come: a double click, a resend, a typo.                    *)
(***************************************************************************)
EXTENDS Naturals, FiniteSets

CONSTANTS
    Calls,          \* requests of the customer that may overlap
    MaxAttempts,    \* OTP_MAX_ATTEMPTS
    MaxCodes,       \* bound: codes sent
    MaxSessions     \* bound: sessions opened

VARIABLES
    purpose,        \* which of the flows the keys belong to
    user,           \* "none", "unverified" or "verified"
    stored,         \* the code whose hash is under the key, 0 when there is none
    attempts,       \* the counter's key
    sent,           \* codes generated
    call,
    sessions, cookies,      \* open sessions, and those the browser's cookie carries
    tried, redeemed,        \* history: comparisons and redemptions of each code
    cleared,                \* history: codes whose counter another call reset
    loggedOut               \* history: sessions the customer logged out of

keys     == <<stored, attempts, sent>>
opened   == <<sessions, cookies>>
counts   == <<tried, redeemed, cleared>>
vars == <<purpose, user, keys, call, opened, counts, loggedOut>>

Code == 1 .. MaxCodes
Idle == [step |-> "idle", guess |-> 0, code |-> 0]

TypeOK ==
    /\ purpose \in {"verify", "login", "scoped"}
    /\ user \in {"none", "unverified", "verified"}
    /\ stored \in 0 .. MaxCodes /\ sent \in 0 .. MaxCodes /\ stored <= sent
    /\ attempts \in 0 .. MaxAttempts + Cardinality(Calls) - 1
    /\ call \in [Calls ->
          [step : {"idle", "create", "set", "reset", "attempts", "hash", "count",
                   "delete", "clear", "effect"},
           guess : 0 .. MaxCodes, code : 0 .. MaxCodes]]
    /\ sessions \subseteq 1 .. MaxSessions /\ cookies \subseteq 1 .. MaxSessions
    /\ tried \in [Code -> Nat] /\ redeemed \in [Code -> Nat]
    /\ cleared \subseteq Code /\ loggedOut \subseteq 1 .. MaxSessions

Init ==
    /\ purpose \in {"verify", "login", "scoped"}
    /\ user = IF purpose = "verify" THEN "none" ELSE "verified"
    /\ stored = 0 /\ attempts = 0 /\ sent = 0
    /\ call = [c \in Calls |-> Idle]
    /\ sessions = {} /\ cookies = {} /\ loggedOut = {}
    /\ tried = [k \in Code |-> 0] /\ redeemed = [k \in Code |-> 0] /\ cleared = {}

-----------------------------------------------------------------------------

At(c, step)   == call[c].step = step
Goto(c, step) == call' = [call EXCEPT ![c].step = step]
End(c)        == call' = [call EXCEPT ![c] = Idle]

\* Redis or the process fails: what was awaited so far is done.
Fail(c) ==
    /\ ~At(c, "idle")
    /\ End(c)
    /\ UNCHANGED <<purpose, user, keys, opened, counts, loggedOut>>

CodeExpires ==
    /\ stored # 0 /\ stored' = 0
    /\ UNCHANGED <<purpose, user, attempts, sent, call, opened, counts, loggedOut>>

\* Every attempt gives the counter a whole TTL, so it outlives its code.
CounterExpires ==
    /\ attempts > 0 /\ (stored # 0 => tried[stored] = 0)
    /\ attempts' = 0
    /\ UNCHANGED <<purpose, user, stored, sent, call, opened, counts, loggedOut>>

-----------------------------------------------------------------------------
(* Asking for a code *)

Signup(c) ==
    /\ purpose = "verify" /\ At(c, "idle")
    /\ \/ user = "none" /\ Goto(c, "create")
       \/ user = "unverified" /\ Goto(c, "set")
    /\ UNCHANGED <<purpose, user, keys, opened, counts, loggedOut>>

\* Of two overlapping sign-ups the unique email refuses the second.
CreateUser(c) ==
    /\ At(c, "create")
    /\ IF user = "none" THEN user' = "unverified" /\ Goto(c, "set")
       ELSE End(c) /\ UNCHANGED user
    /\ UNCHANGED <<purpose, keys, opened, counts, loggedOut>>

\* resendVerificationEmail
Resend(c) ==
    /\ purpose = "verify" /\ At(c, "idle") /\ user = "unverified"
    /\ Goto(c, "set")
    /\ UNCHANGED <<purpose, user, keys, opened, counts, loggedOut>>

RequestLoginOtp(c) ==
    /\ purpose = "login" /\ At(c, "idle") /\ user = "verified"
    /\ Goto(c, "set")
    /\ UNCHANGED <<purpose, user, keys, opened, counts, loggedOut>>

RequestScopedOtp(c) ==
    /\ purpose = "scoped" /\ At(c, "idle")
    /\ Goto(c, "set")
    /\ UNCHANGED <<purpose, user, keys, opened, counts, loggedOut>>

SetCode(c) ==
    /\ At(c, "set") /\ sent < MaxCodes
    /\ sent' = sent + 1 /\ stored' = sent + 1
    /\ Goto(c, "reset")
    /\ UNCHANGED <<purpose, user, attempts, opened, counts, loggedOut>>

\* The counter goes; whichever code is stored by now has a fresh one.
ClearCounter(c, then) ==
    /\ attempts' = 0
    /\ cleared' = IF stored # 0 /\ tried[stored] > 0 THEN cleared \cup {stored} ELSE cleared
    /\ then
    /\ UNCHANGED <<purpose, user, stored, sent, opened, tried, redeemed, loggedOut>>

\* The email is sent, or it fails after the code is stored.
ResetCounter(c) == At(c, "reset") /\ ClearCounter(c, End(c))

-----------------------------------------------------------------------------
(* Redeeming one: consumeEmailOtp and consumeScopedOtp                     *)

\* verifyEmail, verifyLoginOtp and the callers of consumeScopedOtp. The
\* guess is the latest code or 0, a typo or a code of an older email, which is
\* no longer stored.
Submit(c, guess) ==
    /\ At(c, "idle") /\ guess \in {0, sent}
    /\ user = IF purpose = "verify" THEN "unverified" ELSE "verified"
    /\ call' = [call EXCEPT ![c] = [Idle EXCEPT !.step = "attempts", !.guess = guess]]
    /\ UNCHANGED <<purpose, user, keys, opened, counts, loggedOut>>

AttemptsLeft == attempts < MaxAttempts

CheckAttempts(c) ==
    /\ At(c, "attempts")
    /\ IF AttemptsLeft THEN Goto(c, "hash") ELSE End(c)
    /\ UNCHANGED <<purpose, user, keys, opened, counts, loggedOut>>

ReadHash(c) ==
    /\ At(c, "hash")
    /\ IF stored = 0 THEN End(c)
       ELSE call' = [call EXCEPT ![c].step = "count", ![c].code = stored]
    /\ UNCHANGED <<purpose, user, keys, opened, counts, loggedOut>>

CountAndCompare(c) ==
    /\ At(c, "count")
    /\ attempts' = attempts + 1
    /\ tried' = [tried EXCEPT ![call[c].code] = @ + 1]
    /\ IF call[c].guess = call[c].code THEN Goto(c, "delete") ELSE End(c)
    /\ UNCHANGED <<purpose, user, stored, sent, opened, redeemed, cleared, loggedOut>>

\* The key goes, even when a resend has put a newer code there.
AfterDelete == 0

DeleteCode(c) ==
    /\ At(c, "delete")
    /\ stored' = AfterDelete
    /\ redeemed' = [redeemed EXCEPT ![call[c].code] = @ + 1]
    /\ Goto(c, "clear")
    /\ UNCHANGED <<purpose, user, attempts, sent, opened, tried, cleared, loggedOut>>

DeleteCounter(c) == At(c, "clear") /\ ClearCounter(c, Goto(c, "effect"))

MarkVerified(c) ==
    /\ purpose = "verify" /\ At(c, "effect")
    /\ user' = "verified"
    /\ End(c)
    /\ UNCHANGED <<purpose, keys, opened, counts, loggedOut>>

\* SessionService.create; the token is set as the cookie and is in the body.
OpenSession(c, s, cookie) ==
    /\ purpose = "login" /\ At(c, "effect")
    /\ s \notin sessions \cup loggedOut
    /\ sessions' = sessions \cup {s}
    /\ cookies' = IF cookie THEN cookies \cup {s} ELSE cookies
    /\ End(c)
    /\ UNCHANGED <<purpose, user, keys, counts, loggedOut>>

\* The caller of consumeScopedOtp goes on.
ScopedRedeemed(c) ==
    /\ purpose = "scoped" /\ At(c, "effect")
    /\ End(c)
    /\ UNCHANGED <<purpose, user, keys, opened, counts, loggedOut>>

-----------------------------------------------------------------------------
(* Sessions *)

\* Mutant: only the cookie is cleared.
DestroyedBy_None(s) == {}

\* logout destroys the session of the cookie; a Bearer header, which the guard
\* accepts, is not looked at, and the empty token matches no row.
DestroyedBy(s) == {s} \cap cookies

Logout(s) ==
    /\ s \in sessions
    /\ sessions' = sessions \ DestroyedBy(s)
    /\ loggedOut' = loggedOut \cup {s}
    /\ UNCHANGED <<purpose, user, keys, call, cookies, counts>>

LogoutAll ==
    /\ sessions # {}
    /\ sessions' = {}
    /\ loggedOut' = loggedOut \cup sessions
    /\ UNCHANGED <<purpose, user, keys, call, cookies, counts>>

-----------------------------------------------------------------------------

Next ==
    \/ CodeExpires \/ CounterExpires \/ LogoutAll
    \/ \E c \in Calls :
          \/ Fail(c) \/ Signup(c) \/ CreateUser(c) \/ Resend(c)
          \/ RequestLoginOtp(c) \/ RequestScopedOtp(c) \/ SetCode(c) \/ ResetCounter(c)
          \/ CheckAttempts(c) \/ ReadHash(c) \/ CountAndCompare(c)
          \/ DeleteCode(c) \/ DeleteCounter(c) \/ MarkVerified(c) \/ ScopedRedeemed(c)
    \/ \E c \in Calls, guess \in 0 .. MaxCodes : Submit(c, guess)
    \/ \E c \in Calls, s \in 1 .. MaxSessions, cookie \in BOOLEAN : OpenSession(c, s, cookie)
    \/ \E s \in sessions : Logout(s)

Spec == Init /\ [][Next]_vars

-----------------------------------------------------------------------------
(* Properties *)

\* A code is redeemed only by calls that read it before the first of them
\* deleted it, and compared no more often than the limit and the calls that
\* overlapped, unless a resend or a late redemption gave it a fresh counter; a
\* session one logged out of is gone, unless it was not the cookie's.
CodesAreSpent ==
    /\ \A k \in Code :
          /\ redeemed[k] <= Cardinality(Calls)
          /\ k \notin cleared => tried[k] <= MaxAttempts + Cardinality(Calls) - 1
    /\ loggedOut \cap sessions \cap cookies = {}

\* Calls past the check of the counter that have not compared yet, and those that
\* read a code and have not compared it, or not redeemed it.
Passed       == {c \in Calls : call[c].step \in {"hash", "count"}}
Comparing(k) == {c \in Calls : At(c, "count") /\ call[c].code = k}
Readers(k)   == {c \in Calls : call[c].step \in {"count", "delete"} /\ call[c].code = k}

\* Each call that passed still has its attempt.  What a code has coming is
\* what its readers may do, and, while it is stored, every call that passed.
CallsCounted ==
    /\ attempts + Cardinality(Passed) <= MaxAttempts + Cardinality(Calls) - 1
    /\ \A c \in Calls : call[c].step \in {"count", "delete"} => call[c].code \in 1 .. sent
    /\ \A k \in Code :
          /\ k > sent => tried[k] = 0 /\ redeemed[k] = 0
          /\ k = stored => redeemed[k] = 0
          /\ k = stored /\ k \notin cleared => tried[k] <= attempts
          /\ redeemed[k] + Cardinality(Readers(k)) <= Cardinality(Calls)
          /\ k \notin cleared =>
                tried[k] + Cardinality(IF k = stored THEN Passed ELSE Comparing(k))
                   <= MaxAttempts + Cardinality(Calls) - 1

IInv == TypeOK /\ CallsCounted /\ CodesAreSpent
=============================================================================
