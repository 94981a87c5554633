------------------------------ MODULE Providers ------------------------------
(***************************************************************************)
(* What a call of PalmpayProvider or BlinkProvider makes of the provider's *)
(* answer: one order at a provider, the call that places it, and the calls *)
(* that ask about it later (the webhooks and the reconciler, which may     *)
(* overlap).                                                               *)
(*                                                                         *)
(* The provider is external: it may not get the request, its answer may be *)
(* lost or unreadable, and the order goes on while an answer travels.  An  *)
(* answer that arrives is true of the order when it was given.             *)
(***************************************************************************)
EXTENDS Naturals

CONSTANT Calls      \* calls that may be waiting for an answer at once

VARIABLES
    kind,           \* what the order is
    hosted,         \* the Lightning address is on one of Blink's own domains
    fate,           \* the order at the provider
    placed,         \* the call that places it was made
    waiting,        \* the call in progress: its step and the answer it will get
    results,        \* history: what calls have returned to their callers
    inFlight        \* history: an answer was PENDING

vars == <<kind, hosted, fate, placed, waiting, results, inFlight>>

BlinkSends == {"release", "onchain", "swap"}
BlinkMakes == {"invoice", "topup", "address"}
PalmpayMakes == {"payout", "account"}
Kinds == BlinkSends \cup BlinkMakes \cup PalmpayMakes \cup {"collection"}

NoAnswer == [arrives |-> FALSE, says |-> "none", errors |-> FALSE]
Idle == [step |-> "idle", answer |-> NoAnswer]

TypeOK ==
    /\ kind \in Kinds /\ hosted \in BOOLEAN
    /\ fate \in {"none", "open", "done", "failed"}
    /\ placed \in BOOLEAN
    /\ waiting \in [Calls ->
          [step : {"idle", "resolve", "send", "placing", "asking"},
           answer : [arrives : BOOLEAN, errors : BOOLEAN,
                     says : {"none", "SUCCESS", "PENDING", "FAILURE", "refused", "success",
                             "nothing", "missing", "1: processing", "successful", "failed"}]]]
    /\ results \subseteq {"returned", "threw", "processing", "successful", "failed",
                          "not_found", "unknown"}
    /\ inFlight \in BOOLEAN

\* A collection is a customer's transfer: it is on its way by itself.
Init ==
    /\ kind \in Kinds
    /\ hosted \in BOOLEAN /\ (kind # "release" => ~hosted)
    /\ placed = (kind = "collection")
    /\ fate = IF kind = "collection" THEN "open" ELSE "none"
    /\ waiting = [c \in Calls |-> Idle]
    /\ results = {} /\ inFlight = FALSE

-----------------------------------------------------------------------------

At(c, step)   == waiting[c].step = step
Goto(c, step) == waiting' = [waiting EXCEPT ![c].step = step]
Return(c, result) ==
    /\ waiting' = [waiting EXCEPT ![c] = Idle]
    /\ results' = results \cup {result}

\* The transports (post, graphql) pass on what arrives, parses and has the
\* schema's shape, and throw on the rest, a GraphQL answer without data too.
Answers(says) ==
    {NoAnswer} \cup [arrives : {TRUE}, says : says, errors : {FALSE}]

\* The provider settles the order in its own time.
Settle ==
    /\ fate = "open"
    /\ fate' \in {"done", "failed"}
    /\ UNCHANGED <<kind, hosted, placed, waiting, results, inFlight>>

-----------------------------------------------------------------------------
(* initiateTransfer, createVirtualAccount, createPaymentRequest,           *)
(* createNoAmountInvoice, createOnchainAddress, sendToLightningAddress,    *)
(* sendToOnchainAddress, swapBtcToUsd                                      *)

\* A customer of Blink is paid by user name, whose wallet is resolved first.
Place(c) ==
    /\ At(c, "idle") /\ ~placed
    /\ placed' = TRUE
    /\ Goto(c, IF hosted THEN "resolve" ELSE "send")
    /\ UNCHANGED <<kind, hosted, fate, results, inFlight>>

ResolveWallet(c) ==
    /\ At(c, "resolve")
    /\ \/ Goto(c, "send") /\ UNCHANGED results
       \/ Return(c, "threw")
    /\ UNCHANGED <<kind, hosted, fate, placed, inFlight>>

\* What the provider says of an order it has just been given.
SaysPlaced(f) ==
    IF kind \in BlinkSends
    THEN CASE f = "done" -> {"SUCCESS"} [] f = "open" -> {"PENDING"}
           [] OTHER -> {"FAILURE"}
    ELSE IF f = "none" THEN {"refused"} ELSE {"success"}

PlacedAnswers(f) ==
    Answers(SaysPlaced(f))
       \cup [arrives : {TRUE}, says : SaysPlaced(f), errors : {kind \notin PalmpayMakes}]

Call(c, fates) ==
    /\ At(c, "send")
    /\ fate' \in fates
    /\ \E a \in PlacedAnswers(fate') :
          waiting' = [waiting EXCEPT ![c] = [step |-> "placing", answer |-> a]]
    /\ UNCHANGED <<kind, hosted, placed, results, inFlight>>

\* A payment may be settled at once.
Send(c) == kind \in BlinkSends /\ Call(c, {"none", "open", "done", "failed"})

\* An invoice, an address, a payout or an account is then open, or not there.
Make(c)  == kind \in BlinkMakes /\ Call(c, {"none", "open"})
Order(c) == kind \in PalmpayMakes /\ Call(c, {"none", "open"})

\* Mutant: an answer without errors is taken for a success.
Refuses_ErrorsOnly(a) == a.errors

\* respCode other than success; status FAILURE or any error; no invoice.
Refuses(a) == a.says \in {"refused", "FAILURE"} \/ a.errors

Placed(c) ==
    LET a == waiting[c].answer
    IN  /\ At(c, "placing")
        /\ Return(c, IF ~a.arrives \/ Refuses(a) THEN "threw" ELSE "returned")
        /\ inFlight' = (inFlight \/ (a.arrives /\ a.says = "PENDING"))
        /\ UNCHANGED <<kind, hosted, fate, placed>>

-----------------------------------------------------------------------------
(* getTransferStatus and getCollectionOrderStatus *)

\* Both may be answered without an orderStatus, with a respCode of failure or
\* of success, whatever the order is; an order into a Boost-hosted account is
\* never found.
SaysAsked ==
    {"nothing", "refused", "missing"} \cup
        CASE fate = "open" -> {"1: processing"}
          [] fate = "done" -> {"successful"}
          [] fate = "failed" -> {"failed"}
          [] OTHER -> {}

Ask(c) ==
    /\ At(c, "idle") /\ placed /\ kind \in {"payout", "collection"}
    /\ \E a \in Answers(SaysAsked) :
          waiting' = [waiting EXCEPT ![c] = [step |-> "asking", answer |-> a]]
    /\ UNCHANGED <<kind, hosted, fate, placed, results, inFlight>>

\* Mutant: a transfer PalmPay does not find counts as failed.
TransferStatus_MissingFailed(says) ==
    IF says = "successful" THEN says
    ELSE IF says \in {"failed", "missing"} THEN "failed" ELSE "processing"

TransferStatus(says) == IF says \in {"successful", "failed"} THEN says ELSE "processing"

CollectionStatus(says) ==
    CASE says = "missing" -> "not_found"
      [] says \in {"successful", "failed"} -> says
      [] OTHER -> "unknown"

Asked(c) ==
    LET a == waiting[c].answer
    IN  /\ At(c, "asking")
        /\ Return(c, IF ~a.arrives THEN "threw"
                     ELSE IF kind = "payout" THEN TransferStatus(a.says)
                     ELSE CollectionStatus(a.says))
        /\ UNCHANGED <<kind, hosted, fate, placed, inFlight>>

-----------------------------------------------------------------------------

Next ==
    \/ Settle
    \/ \E c \in Calls :
          \/ Place(c) \/ ResolveWallet(c) \/ Send(c) \/ Make(c) \/ Order(c)
          \/ Placed(c) \/ Ask(c) \/ Asked(c)

Spec == Init /\ [][Next]_vars

-----------------------------------------------------------------------------
(* Properties *)

\* A caller is told of a failure or a success only when it is final, however
\* late the answer: what it does next (a disbursement settled or put on hold,
\* a repayment credited) cannot be undone by the order.
VerdictsAreFinal ==
    /\ "successful" \in results => fate = "done"
    /\ "failed" \in results => fate = "failed"

\* A call that returns has left an order at the provider; a Lightning or
\* on-chain send that returned may still fail only if Blink had answered
\* PENDING, which the code takes for a success.
ReturnsAreOrders ==
    "returned" \in results =>
        /\ fate # "none"
        /\ kind \in BlinkSends /\ fate = "failed" => inFlight

AnswersHold == VerdictsAreFinal /\ ReturnsAreOrders

\* One call places the order, and nothing is at the provider before it sends.
OnePlaces ==
    /\ ~placed => fate = "none" /\ \A c \in Calls : At(c, "idle")
    /\ \A c \in Calls : waiting[c].step \in {"resolve", "send"} => fate = "none"
    /\ \A c, d \in Calls :
          /\ waiting[c].step \in {"resolve", "send", "placing"}
          /\ waiting[d].step \in {"resolve", "send", "placing"}
          => c = d

\* What an answer on its way says has not been undone by the order.
AnswersAreTrue ==
    \A c \in Calls :
        LET says == waiting[c].answer.says
        IN  /\ At(c, "placing") /\ waiting[c].answer.arrives =>
                  /\ says = "SUCCESS" => fate = "done"
                  /\ says \in {"PENDING", "success"} => fate # "none"
                  /\ IF kind \in BlinkSends THEN says \in {"SUCCESS", "PENDING", "FAILURE"}
                                           ELSE says \in {"success", "refused"}
            /\ At(c, "asking") =>
                  /\ says = "successful" => fate = "done"
                  /\ says = "failed" => fate = "failed"

\* A send that returned on anything but PENDING is settled.
ReturnedIsDone ==
    "returned" \in results /\ kind \in BlinkSends /\ ~inFlight => fate = "done"

IInv == TypeOK /\ OnePlaces /\ AnswersAreTrue /\ ReturnedIsDone /\ AnswersHold
=============================================================================
