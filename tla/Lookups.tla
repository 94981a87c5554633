-------------------------------- MODULE Lookups --------------------------------
(***************************************************************************)
(* Who holds a number: the identity look-ups of QoreID, Dojah and EaseID   *)
(* and PalmPay's look-up of an account's holder, with the verdict their    *)
(* callers form (KycService.submitTier1, addAccount).  QoreID is asked     *)
(* with a token, cached until a minute before it expires.                  *)
(*                                                                         *)
(* What an answer omits is none, as is a date in a form normalize_dob does *)
(* not know; what NameMatchService makes of a name is same or other.  Time *)
(* is in ticks of the cache's margin.                                      *)
(***************************************************************************)
EXTENDS Naturals

CONSTANTS
    Calls,          \* look-ups that may overlap
    TokenLife       \* bound: expiresIn, in ticks, more than the margin of the cache

VARIABLES
    service, document,  \* who is asked, and for what
    holder,             \* the person the service has under the number
    token,              \* QoreID's cached token: the ticks it is thought to live and
                        \* lives, and those it lost before it was cached
    looks,              \* the look-ups in progress
    verified,           \* history: the dates of birth of those a caller verified
    early               \* history: QoreID refused a token that lost little on the way

vars == <<service, document, holder, token, looks, verified, early>>

Nobody == [name |-> "none", born |-> "none"]
Person == [name : {"same", "other"}, born : {"same", "other"}]
Idle   == [step |-> "idle", lives |-> 0, late |-> 0,
           says |-> [ok |-> FALSE, code |-> FALSE, data |-> Nobody]]
Served == {"bvn", "nin", "passport", "drivers_license"}

TypeOK ==
    /\ service \in {"qoreid", "dojah", "easeid", "palmpay"}
    /\ document \in Served \cup {"account"}
    /\ holder \in Person \cup {Nobody}
    /\ token \in [thought : 0 .. TokenLife, lives : 0 .. TokenLife, late : 0 .. TokenLife]
    /\ looks \in [Calls ->
          [step : {"idle", "token", "issued", "ask", "answered"}, lives : 0 .. TokenLife,
           late : 0 .. TokenLife,
           says : [ok : BOOLEAN, code : BOOLEAN,
                   data : [name : {"same", "other", "none"}, born : {"same", "other", "none"}]]]]
    /\ verified \subseteq {"same", "other", "none"} /\ early \in BOOLEAN

Init ==
    /\ \/ service = "palmpay" /\ document = "account"
       \/ service = "easeid" /\ document \in Served
       \/ service \in {"qoreid", "dojah"} /\ document = "bvn"     \* all alike
    /\ holder \in Person \cup {Nobody}
    /\ token = [thought |-> 0, lives |-> 0, late |-> 0]
    /\ looks = [c \in Calls |-> Idle]
    /\ verified = {} /\ early = FALSE

-----------------------------------------------------------------------------

At(c, step) == looks[c].step = step
End(c) == looks' = [looks EXCEPT ![c] = Idle]

Aged(n) == IF n = 0 THEN 0 ELSE n - 1

\* A token grows old where it is, also while it is on its way.
Tick ==
    /\ service = "qoreid" /\ \E c \in Calls : ~At(c, "idle")
    /\ \A c \in Calls : looks[c].late < TokenLife
    /\ token' = [token EXCEPT !.thought = Aged(@), !.lives = Aged(@)]
    /\ looks' = [c \in Calls |->
          IF looks[c].step \in {"issued", "ask"}
          THEN [looks[c] EXCEPT !.lives = Aged(@), !.late = @ + 1] ELSE looks[c]]
    /\ UNCHANGED <<service, document, holder, verified, early>>

-----------------------------------------------------------------------------
(* QoreidProvider.getAccessToken *)

\* Mutant: the token is used to its last minute.
Usable_ToTheEnd == token.thought > 0

Usable == token.thought > 1

\* EaseID knows two documents and throws for the others.
Supported == service = "easeid" => document \in {"bvn", "nin"}

Look(c) ==
    /\ At(c, "idle")
    /\ Supported
    /\ looks' = [looks EXCEPT ![c].step =
                    IF service = "qoreid" /\ ~Usable THEN "token" ELSE "ask",
                              ![c].lives = token.lives, ![c].late = token.late]
    /\ UNCHANGED <<service, document, holder, token, verified, early>>

\* The service issues a token, or the call fails.
IssueToken(c) ==
    /\ At(c, "token")
    /\ \/ looks' = [looks EXCEPT ![c].step = "issued", ![c].lives = TokenLife, ![c].late = 0]
       \/ End(c)
    /\ UNCHANGED <<service, document, holder, token, verified, early>>

\* It is thought to live from its arrival on.
StoreToken(c) ==
    /\ At(c, "issued")
    /\ token' = [thought |-> TokenLife, lives |-> looks[c].lives, late |-> looks[c].late]
    /\ looks' = [looks EXCEPT ![c].step = "ask"]
    /\ UNCHANGED <<service, document, holder, verified, early>>

-----------------------------------------------------------------------------
(* The question, what the clients make of the answer, and the verdict      *)

\* Of a person whom a service has, any field but the number may be missing;
\* an answer of failure may come with data.
Partly(p) == [name : {p.name, "none"}, born : {p.born, "none"}]
SomeData  == IF holder = Nobody THEN {} ELSE Partly(holder)
Answers ==
    [ok : BOOLEAN, code : {FALSE}, data : {Nobody} \cup Partly([name |-> "same", born |-> "same"])]
       \cup [ok : {TRUE}, code : {TRUE}, data : {Nobody} \cup SomeData]

Ask(c) ==
    /\ At(c, "ask")
    /\ IF service = "qoreid" /\ looks[c].lives = 0
       THEN End(c) /\ early' = (early \/ looks[c].late <= 1)
       ELSE /\ \E a \in Answers : looks' = [looks EXCEPT ![c] =
                  [Idle EXCEPT !.step = "answered", !.says = a]]
            /\ UNCHANGED early
    /\ UNCHANGED <<service, document, holder, token, verified>>

\* QoreID and Dojah refuse by the HTTP status; the schema asks for the number.
QoreidNames(a) == a.ok /\ a.code
DojahNames(a)  == a.ok /\ a.code

\* Mutant: the code of the answer is not looked at.
EaseidNames_AnyCode(a) == a.ok /\ a.data # Nobody

EaseidNames(a) == a.ok /\ a.code /\ a.data # Nobody

\* lookupAccountName: null without a success and a name.
PalmpayNames(a) == a.ok /\ a.code /\ a.data.name # "none"

Named(a) ==
    CASE service = "qoreid"  -> QoreidNames(a)
      [] service = "dojah"   -> DojahNames(a)
      [] service = "easeid"  -> EaseidNames(a)
      [] service = "palmpay" -> PalmpayNames(a)

\* verifyBiodata: a name that is missing matches none, a date of birth is
\* compared if there is one.
Matches(p) == p.name = "same" /\ (service # "palmpay" => p.born \in {"same", "none"})

Verdict(c) ==
    LET a == looks[c].says
    IN  /\ At(c, "answered")
        /\ verified' = IF Named(a) /\ Matches(a.data) THEN verified \cup {a.data.born}
                       ELSE verified
        /\ End(c)
        /\ UNCHANGED <<service, document, holder, token, early>>

-----------------------------------------------------------------------------

Next ==
    \/ Tick
    \/ \E c \in Calls :
          Look(c) \/ IssueToken(c) \/ StoreToken(c) \/ Ask(c) \/ Verdict(c)

-----------------------------------------------------------------------------
(* Properties *)

\* Whoever is verified is the one the service has under the number, by name and
\* by date of birth, unless the service gave none; a code of failure, an answer
\* without data or a document the service does not know verifies nobody.
VerifiedIsHolder ==
    verified # {} =>
        /\ holder.name = "same" /\ Supported
        /\ service # "palmpay" =>
              "other" \notin verified /\ ("same" \in verified => holder.born = "same")

\* The cache's margin is what a request may lose on the way: a token is refused
\* for its age only after a longer delay, in its own answer or in the question.
TokensServe == ~early

LookupsHold == VerifiedIsHolder /\ TokensServe

\* Of an answer that is a success, what there is of the holder is the holder's.
AnswersAreTheirs ==
    \A c \in Calls :
        /\ ~At(c, "idle") => Supported
        /\ At(c, "answered") => looks[c].says \in Answers

\* A token that has died before it was thought to has lost as much on its way.
AgesAreKnown ==
    /\ token.thought <= token.lives + token.late
    /\ \A c \in Calls :
          /\ At(c, "issued") => looks[c].lives + looks[c].late >= TokenLife
          /\ At(c, "ask") /\ service = "qoreid" => looks[c].lives + looks[c].late > 1

IInv == TypeOK /\ AnswersAreTheirs /\ AgesAreKnown /\ LookupsHold
=============================================================================
