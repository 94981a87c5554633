------------------------------- MODULE Remedies -------------------------------
(***************************************************************************)
(* What ops does to one loan by hand, beside the loan's own life:          *)
(* restore-bad-rate-liquidations and the endpoint of the same purpose,     *)
(* release-collateral-for-repaid-loan and the release under its lock, of   *)
(* which CollateralRelease has the detail.                                 *)
(*                                                                         *)
(* The scripts read, print, may wait for an operator to confirm, and write *)
(* by id what they decided on what they read.                              *)
(***************************************************************************)
EXTENDS Naturals, FiniteSets

CONSTANTS
    Runs,           \* runs of a script, calls of an endpoint, release attempts
    MaxSends        \* bound: payments accepted by Blink

VARIABLES
    status,         \* loans.status
    rate,           \* liquidation_rate_actual: below its floor, or plausible
    address,        \* collateral_release_address is set
    released,       \* collateral_released_at is set
    locked,         \* the release lock exists
    run,            \* each run: what it does next, and whether it is a script
    sends,          \* payments of the collateral
    slips           \* history: how runs and the loan crossed

vars == <<status, rate, address, released, locked, run, sends, slips>>

Idle == [step |-> "idle", script |-> FALSE]

TypeOK ==
    /\ status \in {"ACTIVE", "LIQUIDATED", "REPAID"}
    /\ rate \in {"none", "bad", "market"}
    /\ (rate = "none") = (status # "LIQUIDATED")
    /\ address \in BOOLEAN /\ released \in BOOLEAN /\ locked \in BOOLEAN
    /\ run \in [Runs -> [step : {"idle", "restore", "read", "send", "stamp", "unlock"},
                         script : BOOLEAN]]
    /\ sends \in 0 .. MaxSends
    /\ slips \subseteq {"moved", "undone", "beside", "unstamped"}

\* Before the sweep refused such a rate, it could seize at a bad one.
Init ==
    /\ \E s \in {<<"ACTIVE", "none">>, <<"LIQUIDATED", "bad">>, <<"LIQUIDATED", "market">>} :
          status = s[1] /\ rate = s[2]
    /\ address = FALSE /\ released = FALSE /\ locked = FALSE
    /\ run = [c \in Runs |-> Idle]
    /\ sends = 0 /\ slips = {}

-----------------------------------------------------------------------------

At(c, step) == run[c].step = step
Goto(c, step) == run' = [run EXCEPT ![c].step = step]
Begin(c, step, script) ==
    run' = [run EXCEPT ![c] = [step |-> step, script |-> script]]
End(c) == run' = [run EXCEPT ![c] = Idle]

\* The loan's own life.
Repay ==
    /\ status = "ACTIVE" /\ status' = "REPAID"
    /\ UNCHANGED <<rate, address, released, locked, run, sends, slips>>

Liquidate ==
    /\ status = "ACTIVE" /\ status' = "LIQUIDATED" /\ rate' = "market"
    /\ UNCHANGED <<address, released, locked, run, sends, slips>>

SetAddress ==
    /\ ~address /\ ~released /\ address' = TRUE
    /\ UNCHANGED <<status, rate, released, locked, run, sends, slips>>

-----------------------------------------------------------------------------
(* restore-bad-rate-liquidations and restoreFromBadLiquidation *)

\* Mutant: the rate at the seizure is not looked at.
Affected_AnyRate == status = "LIQUIDATED"

Affected == status = "LIQUIDATED" /\ rate = "bad"

FindAffected(c, script) ==
    /\ At(c, "idle") /\ Affected
    /\ Begin(c, "restore", script)
    /\ UNCHANGED <<status, rate, address, released, locked, sends, slips>>

\* By id, whatever the loan is by now.
RestoreOne(c) ==
    /\ At(c, "restore")
    /\ status' = "ACTIVE" /\ rate' = "none"
    /\ slips' = slips
          \cup (IF status = "LIQUIDATED" /\ rate = "bad" THEN {} ELSE {"undone"})
          \cup (IF \E d \in Runs \ {c} : At(d, "restore") THEN {"moved"} ELSE {})
    /\ End(c)
    /\ UNCHANGED <<address, released, locked, sends>>

\* The operator says no, or the transaction fails.
RestoreEnds(c) ==
    /\ At(c, "restore")
    /\ End(c)
    /\ UNCHANGED <<status, rate, address, released, locked, sends, slips>>

-----------------------------------------------------------------------------
(* release-collateral-for-repaid-loan and releaseForLoan *)

Releasing == {c \in Runs : run[c].step \in {"send", "stamp"}}

\* Mutant: the script does not ask whether the collateral was released.
Releasable_Again == status = "REPAID" /\ address

Releasable == status = "REPAID" /\ address /\ ~released

\* The script reads without a lock.
ReadForRelease(c) ==
    /\ At(c, "idle") /\ Releasable
    /\ Begin(c, "send", TRUE)
    /\ slips' = IF Releasing = {} THEN slips ELSE slips \cup {"beside"}
    /\ UNCHANGED <<status, rate, address, released, locked, sends>>

TakeLock(c) ==
    /\ At(c, "idle") /\ ~locked
    /\ locked' = TRUE
    /\ Begin(c, "read", FALSE)
    /\ UNCHANGED <<status, rate, address, released, sends, slips>>

ReadUnderLock(c) ==
    /\ At(c, "read")
    /\ IF status = "REPAID" /\ address /\ ~released
       THEN /\ Goto(c, "send")
            /\ slips' = IF Releasing = {} THEN slips ELSE slips \cup {"beside"}
       ELSE Goto(c, "unlock") /\ UNCHANGED slips
    /\ UNCHANGED <<status, rate, address, released, locked, sends>>

\* Blink takes the payment, or not; a run may not hear of it, or end.
Send(c) ==
    /\ At(c, "send") /\ sends < MaxSends
    /\ sends' = sends + 1
    /\ \/ Goto(c, "stamp") /\ UNCHANGED slips
       \/ /\ IF run[c].script THEN End(c) ELSE Goto(c, "unlock")
          /\ slips' = slips \cup {"unstamped"}
    /\ UNCHANGED <<status, rate, address, released, locked>>

SendFails(c) ==
    /\ At(c, "send")
    /\ IF run[c].script THEN End(c) ELSE Goto(c, "unlock")
    /\ UNCHANGED <<status, rate, address, released, locked, sends, slips>>

\* The script stamps by id; under the lock the stamp must be the first.
Stamp(c) ==
    /\ At(c, "stamp")
    /\ released' = TRUE
    /\ IF run[c].script THEN End(c) ELSE Goto(c, "unlock")
    /\ UNCHANGED <<status, rate, address, locked, sends, slips>>

Unlock(c) ==
    /\ At(c, "unlock")
    /\ locked' = FALSE
    /\ End(c)
    /\ UNCHANGED <<status, rate, address, released, sends, slips>>

-----------------------------------------------------------------------------

Next ==
    \/ Repay \/ Liquidate \/ SetAddress
    \/ \E c \in Runs, script \in BOOLEAN : FindAffected(c, script)
    \/ \E c \in Runs :
          \/ RestoreOne(c) \/ RestoreEnds(c) \/ ReadForRelease(c) \/ TakeLock(c)
          \/ ReadUnderLock(c) \/ Send(c) \/ SendFails(c) \/ Stamp(c) \/ Unlock(c)

Spec == Init /\ [][Next]_vars

-----------------------------------------------------------------------------
(* Properties *)

\* The collateral is sent again only if two releases crossed, which the lock
\* cannot keep a script from, or one ended without the stamp of its payment.
SentOnce == sends > 1 => slips \cap {"beside", "unstamped"} # {}

\* Restoring undoes no seizure at a market rate, no payment, and so revives no
\* loan whose collateral went back, unless a second run restored the loan
\* after the first had read it.
RestoresWhatWasSeized ==
    ("undone" \in slips \/ (status # "REPAID" /\ sends > 0)) => "moved" \in slips

RemediesHold == SentOnce /\ RestoresWhatWasSeized

\* Until releases cross or one ends unstamped, one run at most releases; it has
\* found nothing sent, and what was sent is stamped or about to be.
OneRelease ==
    slips \cap {"beside", "unstamped"} = {} =>
        /\ \A c, d \in Releasing : c = d
        /\ \A c \in Releasing : At(c, "send") => sends = 0
        /\ sends <= 1
        /\ sends > 0 => released \/ \E c \in Releasing : At(c, "stamp")

\* Until a run restores what another is about to restore, what a run found is so,
\* and a loan whose collateral goes back stays REPAID.
FoundIsSo ==
    "moved" \notin slips =>
        /\ "undone" \notin slips
        /\ \A c \in Runs : At(c, "restore") => status = "LIQUIDATED" /\ rate = "bad"
        /\ Releasing # {} \/ sends > 0 => status = "REPAID"

IInv == TypeOK /\ OneRelease /\ FoundIsSo
=============================================================================
