------------------------------- MODULE OpsAuth -------------------------------
(***************************************************************************)
(* An operator's log-in (OpsAuthService): a password yields a challenge    *)
(* or, before the authenticator is enrolled, an enrolment token; either is *)
(* redeemed with a code for a session.  Both are Redis keys read when a    *)
(* request starts and deleted when its code was right.                     *)
(***************************************************************************)
EXTENDS Naturals, FiniteSets

CONSTANTS
    Calls,          \* requests of the operator that may overlap
    MaxTokens,      \* bound: challenges and enrolment tokens issued
    MaxSecrets      \* bound: authenticator secrets issued

VARIABLES
    secret, secrets,        \* totp_secret, 0 when there is none; secrets ever issued
    enabled, active,        \* totp_enabled, is_active
    issued,                 \* tokens issued
    challenges, tokens,     \* live challenges, live enrolment tokens
    call,
    live,                   \* sessions in the table
    sessions,               \* history: the tokens sessions were opened with, and how often
    proved,                 \* history: secrets a right code was given for
    enrolled,               \* history: an enrolment was completed
    crossed                 \* history: a secret was issued past another enrolment

row  == <<secret, secrets, enabled, active>>
keys == <<issued, challenges, tokens, live>>
ghosts == <<sessions, proved, enrolled, crossed>>
vars == <<row, keys, call, ghosts>>

Token == 1 .. MaxTokens
Idle  == [step |-> "idle", token |-> 0, secret |-> 0]

TypeOK ==
    /\ secret \in 0 .. MaxSecrets /\ secrets \in 0 .. MaxSecrets /\ enabled \in BOOLEAN
    /\ active \in BOOLEAN
    /\ issued \in 0 .. MaxTokens
    /\ challenges \subseteq Token /\ tokens \subseteq Token
    /\ call \in [Calls ->
          [step : {"idle", "challenge", "token", "verify", "burn", "start", "secret",
                   "confirm", "redeem", "enable", "session"},
           token : 0 .. MaxTokens, secret : 0 .. MaxSecrets]]
    /\ live \in Nat
    /\ sessions \in [Token -> Nat] /\ proved \subseteq 1 .. MaxSecrets
    /\ enrolled \in BOOLEAN /\ crossed \in BOOLEAN

\* create-ops-user: without an authenticator.
Init ==
    /\ secret = 0 /\ secrets = 0 /\ enabled = FALSE /\ active = TRUE
    /\ issued = 0 /\ challenges = {} /\ tokens = {} /\ live = 0
    /\ call = [c \in Calls |-> Idle]
    /\ sessions = [t \in Token |-> 0] /\ proved = {} /\ enrolled = FALSE /\ crossed = FALSE

-----------------------------------------------------------------------------

At(c, step)   == call[c].step = step
Goto(c, step) == call' = [call EXCEPT ![c].step = step]
End(c)        == call' = [call EXCEPT ![c] = Idle]

\* The password is right.
Login(c) ==
    /\ At(c, "idle") /\ active
    /\ Goto(c, IF enabled THEN "challenge" ELSE "token")
    /\ UNCHANGED <<row, keys, ghosts>>

Issue(c) ==
    /\ call[c].step \in {"challenge", "token"} /\ issued < MaxTokens
    /\ issued' = issued + 1
    /\ IF At(c, "challenge") THEN challenges' = challenges \cup {issued + 1} /\ UNCHANGED tokens
       ELSE tokens' = tokens \cup {issued + 1} /\ UNCHANGED challenges
    /\ End(c)
    /\ UNCHANGED <<row, live, ghosts>>

Expires(t) ==
    /\ t \in challenges \cup tokens
    /\ challenges' = challenges \ {t} /\ tokens' = tokens \ {t}
    /\ UNCHANGED <<row, issued, live, call, ghosts>>

-----------------------------------------------------------------------------

\* verifyTwoFactor, startEnrolment and confirmEnrolment begin with their key.
Redeem(c, t, step) ==
    /\ At(c, "idle")
    /\ t \in IF step = "verify" THEN challenges ELSE tokens
    /\ call' = [call EXCEPT ![c] = [Idle EXCEPT !.step = step, !.token = t]]
    /\ UNCHANGED <<row, keys, ghosts>>

\* The code is right for the secret in the row, or the call ends.
Verify(c) ==
    /\ At(c, "verify")
    /\ (active /\ enabled /\ secret # 0 /\ Goto(c, "burn")) \/ End(c)
    /\ UNCHANGED <<row, keys, ghosts>>

Burned(t) == {t}

Burn(c) ==
    /\ At(c, "burn")
    /\ challenges' = challenges \ Burned(call[c].token)
    /\ Goto(c, "session")
    /\ UNCHANGED <<row, issued, tokens, live, ghosts>>

Start(c) ==
    /\ At(c, "start")
    /\ IF active THEN Goto(c, "secret") ELSE End(c)
    /\ UNCHANGED <<row, keys, ghosts>>

\* The row is overwritten, also that of an operator who has enrolled with
\* another token, or is just about to.
WriteSecret(c) ==
    /\ At(c, "secret") /\ secrets < MaxSecrets
    /\ secret' = secrets + 1 /\ secrets' = secrets + 1 /\ enabled' = FALSE
    /\ crossed' = (crossed \/ enabled \/ \E q \in Calls : call[q].step \in {"redeem", "enable"})
    /\ End(c)
    /\ UNCHANGED <<active, keys, sessions, proved, enrolled>>

\* Mutant: the code is not looked at.
Confirm_AnyCode(c) ==
    /\ At(c, "confirm") /\ active /\ secret # 0
    /\ Goto(c, "redeem")
    /\ UNCHANGED <<row, keys, ghosts>>

Confirm(c) ==
    /\ At(c, "confirm")
    /\ \/ /\ active /\ secret # 0
          /\ proved' = proved \cup {secret}
          /\ Goto(c, "redeem")
       \/ End(c) /\ UNCHANGED proved
    /\ UNCHANGED <<row, keys, sessions, enrolled, crossed>>

RedeemToken(c) ==
    /\ At(c, "redeem")
    /\ tokens' = tokens \ {call[c].token}
    /\ Goto(c, "enable")
    /\ UNCHANGED <<row, issued, challenges, live, ghosts>>

Enable(c) ==
    /\ At(c, "enable")
    /\ enabled' = TRUE /\ enrolled' = TRUE
    /\ Goto(c, "session")
    /\ UNCHANGED <<secret, secrets, active, keys, sessions, proved, crossed>>

OpenSession(c) ==
    /\ At(c, "session")
    /\ sessions' = [sessions EXCEPT ![call[c].token] = @ + 1]
    /\ live' = live + 1
    /\ End(c)
    /\ UNCHANGED <<row, issued, challenges, tokens, proved, enrolled, crossed>>

\* Of the cookie or of the Bearer header, as the guard finds it.
Logout ==
    /\ live > 0 /\ live' = live - 1
    /\ UNCHANGED <<row, issued, challenges, tokens, call, ghosts>>

\* The script disable-ops-user: one transaction.
Disable ==
    /\ active /\ active' = FALSE
    /\ live' = 0
    /\ UNCHANGED <<secret, secrets, enabled, issued, challenges, tokens, call, ghosts>>

-----------------------------------------------------------------------------

Next ==
    \/ \E c \in Calls :
          \/ Login(c) \/ Issue(c) \/ Verify(c) \/ Burn(c) \/ Start(c) \/ WriteSecret(c)
          \/ Confirm(c) \/ RedeemToken(c) \/ Enable(c) \/ OpenSession(c)
    \/ \E c \in Calls, t \in Token, step \in {"verify", "start", "confirm"} : Redeem(c, t, step)
    \/ \E t \in Token : Expires(t)
    \/ Logout \/ Disable

Spec == Init /\ [][Next]_vars

-----------------------------------------------------------------------------
(* Properties *)

\* A challenge or an enrolment token opens at most as many sessions as calls
\* had read it before it was deleted; an operator who has enrolled stays so,
\* with a secret whose code they have shown, unless another enrolment of
\* theirs crossed it.  An operator who is disabled is left with no session but
\* of requests that had read the row before.
EnrolmentHolds ==
    /\ ~active => live <= Cardinality(Calls)
    /\ \A t \in Token : sessions[t] <= Cardinality(Calls)
    /\ ~crossed =>
          /\ enrolled => enabled
          /\ enabled => secret \in proved

\* Calls that hold a token and may open a session with it, and those that need
\* nobody's leave for it any more.
Holders(t) ==
    {c \in Calls : /\ call[c].token = t
                   /\ call[c].step \in {"verify", "burn", "confirm", "redeem", "enable", "session"}}
LetIn == {c \in Calls : call[c].step \in {"burn", "redeem", "enable", "session"}}

\* A token is issued once, as one or the other; it is gone before a session is
\* opened with it.
TokensCounted ==
    /\ challenges \cup tokens \subseteq 1 .. issued
    /\ challenges \cap tokens = {}
    /\ \A c \in Calls :
          /\ call[c].step \in {"verify", "burn", "confirm", "redeem", "enable", "session"} =>
                call[c].token \in 1 .. issued
          /\ call[c].step \in {"verify", "burn"} => call[c].token \notin tokens
          /\ call[c].step \in {"confirm", "redeem"} => call[c].token \notin challenges
          /\ call[c].step \in {"enable", "session"} => call[c].token \notin challenges \cup tokens
    /\ \A t \in Token :
          /\ sessions[t] > 0 => t <= issued /\ t \notin challenges \cup tokens
          /\ sessions[t] + Cardinality(Holders(t)) <= Cardinality(Calls)
    /\ ~active => live + Cardinality(LetIn) <= Cardinality(Calls)

\* Until enrolments cross, what is about to be enabled was proved.
AboutToEnable ==
    ~crossed => \A c \in Calls : call[c].step \in {"redeem", "enable"} => secret \in proved

IInv == TypeOK /\ TokensCounted /\ AboutToEnable /\ EnrolmentHolds
=============================================================================
