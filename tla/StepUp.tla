-------------------------------- MODULE StepUp --------------------------------
(***************************************************************************)
(* The factors that step up a sensitive operation: the transaction PIN and *)
(* its lockout (TransactionPinService), the authenticator (AuthService.    *)
(* setup2fa, confirm2fa, disable2fa, verifyTotpForUser) and StepUpService. *)
(*                                                                         *)
(* They share one row of users, which a request reads before the slow      *)
(* check of a PIN or a code and writes after it.  The email code that      *)
(* setPin, changePin and disablePin consume is the business of Codes; here *)
(* it passes or it does not.                                               *)
(***************************************************************************)
EXTENDS Naturals, FiniteSets

CONSTANTS
    Calls,          \* requests of the customer that may overlap
    MaxAttempts,    \* TRANSACTION_PIN_MAX_ATTEMPTS
    MaxPins,        \* bound: PINs ever set
    MaxSecrets,     \* bound: authenticator secrets ever issued
    MaxStale        \* bound: wrong entries written over a newer row

VARIABLES
    pin, pins,          \* the PIN, 0 when there is none; PINs ever set
    failed,             \* transaction_pin_failed_attempts
    lock,               \* transaction_pin_locked_until: "none", "locked" or "lapsed"
    secret, secrets,    \* totp_secret, 0 when there is none; secrets ever issued
    enabled,            \* totp_enabled
    call,
    wrongs,             \* history: wrong entries since the last right one, PIN or lapse
    stale,              \* history: those among them written over a newer row
    on,                 \* history: enabled last, and not disabled since
    proved,             \* history: secrets a right code was given for
    crossed             \* history: authenticator requests that overlapped

pinVars  == <<pin, pins, failed, lock>>
totpVars == <<secret, secrets, enabled>>
tally    == <<wrongs, stale>>
vars == <<pinVars, totpVars, call, tally, on, proved, crossed>>

Idle == [step |-> "idle", goal |-> "none", pin |-> 0, failed |-> 0, lock |-> "none",
         secret |-> 0]

TypeOK ==
    /\ pin \in 0 .. MaxPins /\ pins \in 0 .. MaxPins
    /\ failed \in 0 .. MaxAttempts - 1
    /\ lock \in {"none", "locked", "lapsed"}
    /\ secret \in 0 .. MaxSecrets /\ secrets \in 0 .. MaxSecrets
    /\ enabled \in BOOLEAN
    /\ call \in [Calls ->
          [step : {"idle", "factor", "read", "compared", "code", "write",
                   "setup", "confirm", "off"},
           goal : {"none", "use", "set", "change", "disable"},
           pin : 0 .. MaxPins, failed : 0 .. MaxAttempts - 1,
           lock : {"none", "lapsed"}, secret : 0 .. MaxSecrets]]
    /\ wrongs \in Nat /\ stale \in 0 .. MaxStale
    /\ on \in BOOLEAN /\ proved \subseteq 1 .. MaxSecrets /\ crossed \in BOOLEAN

Init ==
    /\ pin = 0 /\ pins = 0 /\ failed = 0 /\ lock = "none"
    /\ secret = 0 /\ secrets = 0 /\ enabled = FALSE
    /\ call = [c \in Calls |-> Idle]
    /\ wrongs = 0 /\ stale = 0 /\ on = FALSE /\ proved = {} /\ crossed = FALSE

-----------------------------------------------------------------------------

At(c, step)   == call[c].step = step
Goto(c, step) == call' = [call EXCEPT ![c].step = step]
End(c)        == call' = [call EXCEPT ![c] = Idle]
Seen(c, step) == call' = [call EXCEPT ![c].step = step, ![c].pin = pin,
                                      ![c].failed = failed, ![c].lock = lock]

LockLapses ==
    /\ lock = "locked" /\ lock' = "lapsed"
    /\ wrongs' = 0
    /\ UNCHANGED <<pin, pins, failed, totpVars, call, stale, on, proved, crossed>>

-----------------------------------------------------------------------------
(* The transaction PIN *)

\* setPin: only a customer without a PIN; then the email code.
SetPin(c) ==
    /\ At(c, "idle") /\ pin = 0
    /\ call' = [call EXCEPT ![c] = [Idle EXCEPT !.step = "code", !.goal = "set"]]
    /\ UNCHANGED <<pinVars, totpVars, tally, on, proved, crossed>>

\* changePin and disablePin start with the current PIN.
ChangePin(c, goal) ==
    /\ At(c, "idle")
    /\ call' = [call EXCEPT ![c] = [Idle EXCEPT !.step = "read", !.goal = goal]]
    /\ UNCHANGED <<pinVars, totpVars, tally, on, proved, crossed>>

\* verifyTransactionFactor: a customer with a factor; then the PIN or the code.
UseFactor(c) ==
    /\ At(c, "idle") /\ (enabled \/ pin # 0)
    /\ call' = [call EXCEPT ![c] = [Idle EXCEPT !.step = "factor", !.goal = "use"]]
    /\ UNCHANGED <<pinVars, totpVars, tally, on, proved, crossed>>

ChooseFactor(c) ==
    /\ At(c, "factor")
    /\ \/ Goto(c, "read")
       \/ End(c)            \* verifyTotpForUser changes nothing
    /\ UNCHANGED <<pinVars, totpVars, tally, on, proved, crossed>>

\* disablePin with an authenticator's code instead of the PIN.
DisableByTotp(c) ==
    /\ At(c, "idle") /\ enabled /\ secret # 0
    /\ call' = [call EXCEPT ![c] = [Idle EXCEPT !.step = "code", !.goal = "disable"]]
    /\ UNCHANGED <<pinVars, totpVars, tally, on, proved, crossed>>

\* verifyCurrentPinOrThrow: the row is read, then argon2 takes its time.
ReadPin(c) ==
    /\ At(c, "read")
    /\ IF pin = 0 \/ lock = "locked" THEN End(c) ELSE Seen(c, "compared")
    /\ UNCHANGED <<pinVars, totpVars, tally, on, proved, crossed>>

Proceed(c) == IF call[c].goal = "use" THEN End(c) ELSE Goto(c, "code")

\* The counters are written only if the row that was read had any.
RightPin(c) ==
    /\ At(c, "compared")
    /\ IF call[c].failed > 0 \/ call[c].lock # "none"
       THEN failed' = 0 /\ lock' = "none" ELSE UNCHANGED <<failed, lock>>
    /\ wrongs' = 0
    /\ Proceed(c)
    /\ UNCHANGED <<pin, pins, totpVars, stale, on, proved, crossed>>

\* Mutant: the lock is set an attempt too late.
ShouldLock_OffByOne(n) == n > MaxAttempts

ShouldLock(n) == n >= MaxAttempts

WrongPin(c) ==
    LET attempts == call[c].failed + 1
        newer    == <<failed, lock, pin>> # <<call[c].failed, call[c].lock, call[c].pin>>
    IN  /\ At(c, "compared")
        /\ newer => stale < MaxStale
        /\ failed' = IF ShouldLock(attempts) THEN 0 ELSE attempts
        /\ lock' = IF ShouldLock(attempts) THEN "locked" ELSE "none"
        /\ wrongs' = wrongs + 1
        /\ stale' = IF newer THEN stale + 1 ELSE stale
        /\ End(c)
        /\ UNCHANGED <<pin, pins, totpVars, on, proved, crossed>>

\* consumeTransactionPinOtp
EmailCode(c) ==
    /\ At(c, "code")
    /\ Goto(c, "write") \/ End(c)
    /\ UNCHANGED <<pinVars, totpVars, tally, on, proved, crossed>>

WritePin(c) ==
    /\ At(c, "write")
    /\ IF call[c].goal = "disable" THEN pin' = 0 /\ UNCHANGED pins
       ELSE pins < MaxPins /\ pin' = pins + 1 /\ pins' = pins + 1
    /\ failed' = 0 /\ lock' = "none"
    /\ wrongs' = 0
    /\ End(c)
    /\ UNCHANGED <<totpVars, stale, on, proved, crossed>>

-----------------------------------------------------------------------------
(* The authenticator *)

\* Mutant: setup does not ask whether an authenticator is enabled.
MaySetup_Any == TRUE

MaySetup == ~enabled

Setup2fa(c) ==
    /\ At(c, "idle") /\ MaySetup
    /\ Goto(c, "setup")
    /\ UNCHANGED <<pinVars, totpVars, tally, on, proved, crossed>>

Busy(c) == \E q \in Calls \ {c} : call[q].step \in {"setup", "confirm", "off"}

WriteSecret(c) ==
    /\ At(c, "setup") /\ secrets < MaxSecrets
    /\ secret' = secrets + 1 /\ secrets' = secrets + 1 /\ enabled' = FALSE
    /\ crossed' = (crossed \/ Busy(c))
    /\ End(c)
    /\ UNCHANGED <<pinVars, tally, on, proved>>

\* The code is checked against the secret that was read.
Confirm2fa(c) ==
    /\ At(c, "idle") /\ ~enabled /\ secret # 0
    /\ call' = [call EXCEPT ![c] = [Idle EXCEPT !.step = "confirm", !.secret = secret]]
    /\ proved' = proved \cup {secret}
    /\ UNCHANGED <<pinVars, totpVars, tally, on, crossed>>

\* The update writes the flag alone, whichever secret is in the row by now.
Enable(c) ==
    /\ At(c, "confirm")
    /\ enabled' = TRUE /\ on' = TRUE
    /\ crossed' = (crossed \/ Busy(c))
    /\ End(c)
    /\ UNCHANGED <<pinVars, secret, secrets, tally, proved>>

Disable2fa(c) ==
    /\ At(c, "idle") /\ enabled /\ secret # 0
    /\ Goto(c, "off")
    /\ UNCHANGED <<pinVars, totpVars, tally, on, proved, crossed>>

Disable(c) ==
    /\ At(c, "off")
    /\ enabled' = FALSE /\ secret' = 0 /\ on' = FALSE
    /\ crossed' = (crossed \/ Busy(c))
    /\ End(c)
    /\ UNCHANGED <<pinVars, secrets, tally, proved>>

-----------------------------------------------------------------------------

Next ==
    \/ LockLapses
    \/ \E c \in Calls :
          \/ SetPin(c) \/ UseFactor(c) \/ ChooseFactor(c) \/ DisableByTotp(c)
          \/ ReadPin(c) \/ RightPin(c) \/ WrongPin(c) \/ EmailCode(c) \/ WritePin(c)
          \/ Setup2fa(c) \/ WriteSecret(c) \/ Confirm2fa(c) \/ Enable(c)
          \/ Disable2fa(c) \/ Disable(c)
    \/ \E c \in Calls, goal \in {"change", "disable"} : ChangePin(c, goal)

Spec == Init /\ [][Next]_vars

-----------------------------------------------------------------------------
(* Properties *)

\* Between a right PIN, a new one and the end of a lockout no more wrong ones
\* are compared than the limit; entries that overlap are counted as one and may
\* even take a lock back, and each of them costs at most one more window.
LockHolds == wrongs <= MaxAttempts * (1 + stale)

\* An authenticator, once enabled, stays until it is disabled, and it is one
\* whose code the customer has shown, so that they can use it and disable it,
\* unless requests about it overlapped.
AuthenticatorHolds ==
    ~crossed => /\ on = enabled
                /\ enabled => secret \in proved

FactorsHold == LockHolds /\ AuthenticatorHolds

\* A wrong entry is in the counter, in the lock or among those that were stale.
WrongsCounted ==
    wrongs <= MaxAttempts * stale + (IF lock = "locked" THEN MaxAttempts ELSE failed)

\* Until requests overlap, one that was let in finds the row as it read it.
RowAsRead ==
    ~crossed => \A c \in Calls :
        /\ At(c, "setup") => ~enabled
        /\ At(c, "confirm") => call[c].secret = secret /\ secret \in proved

IInv == TypeOK /\ WrongsCounted /\ AuthenticatorHolds /\ RowAsRead
=============================================================================
