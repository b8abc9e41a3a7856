------------------------------- MODULE Pairing -------------------------------
(***************************************************************************)
(* Pairing of an app with the bridge: the routes /api/devices/pair/start   *)
(* and /pair/finish (apps/bridge/src/routes.ts 190-224) behind their       *)
(* limiters, the tables pairing_codes and devices (db.ts 492-530), and the *)
(* app's side of it (SetupView.swift, BridgeClient.swift).  POST           *)
(* /api/setup/token, the third limited route, is here as well.             *)
(*                                                                         *)
(* A request passes its limiter, then awaits its body, then runs to its    *)
(* end.  An address has one request at a time.  Every pairing the app      *)
(* begins has its own verifier, for which the pairing's id stands; sha256  *)
(* is taken to be injective.                                               *)
(***************************************************************************)
EXTENDS RateLimiter

CONSTANTS
    Pairings,     \* ids of pairing_codes rows
    Codes,        \* the codes Math.random() can give
    Lifetime,     \* how long a code is valid
    MaxBoots      \* bound: restarts of the bridge

ASSUME PairingAssumption ==
    /\ None \notin Pairings \cup Codes
    /\ {"start", "finish"} \subseteq Limiters
    /\ Lifetime \in Nat \ {0}
    /\ MaxBoots \in Nat

VARIABLES
    request,      \* [Keys -> Limiters \cup {None}]: what awaits its body
    code,         \* [Pairings -> Codes \cup {None}]: the row, if any
    expires,      \* [Pairings -> Nat]: expires_at
    used,         \* pairings whose used_at is set
    devices,      \* [Pairings -> Nat]: rows of devices with this pairing
    app,          \* [Keys -> AppStates]: what the app at an address holds
    boots,        \* restarts so far
    pairedAt      \* history: when the newest device of a pairing was created

pairingVars == <<request, code, expires, used, devices, app, boots, pairedAt>>
vars == <<limiterVars, pairingVars>>

NoApp == [pairing |-> None, token |-> FALSE]

TypeOK ==
    /\ LimiterTypeOK
    /\ request \in [Keys -> Limiters \cup {None}]
    /\ code \in [Pairings -> Codes \cup {None}]
    /\ expires \in [Pairings -> Nat]
    /\ used \in SUBSET Pairings
    /\ devices \in [Pairings -> Nat]
    /\ app \in [Keys -> [pairing : Pairings \cup {None}, token : BOOLEAN]]
    /\ boots \in Nat
    /\ pairedAt \in [Pairings -> Nat]

Init ==
    /\ LimiterInit
    /\ request = [k \in Keys |-> None]
    /\ code = [p \in Pairings |-> None]
    /\ expires = [p \in Pairings |-> 0]
    /\ used = {}
    /\ devices = [p \in Pairings |-> 0]
    /\ app = [k \in Keys |-> NoApp]
    /\ boots = 0
    /\ pairedAt = [p \in Pairings |-> 0]

-----------------------------------------------------------------------------
(* The tables.                                                             *)

\* A bug: a code that was used is found again.
FindsUsed(c, p) == code[p] = c /\ expires[p] > now

\* The row the SELECT of consumePairingCode finds for code c.
Finds(c, p) == code[p] = c /\ p \notin used /\ expires[p] > now

\* A bug: the challenge is not compared.
ConsumesUnchecked(c, v, p) == Finds(c, p)

\* consumePairingCode returns row p: the verifier v answers its challenge.
Consumes(c, v, p) == Finds(c, p) /\ v = p

\* createPairingCode gives pairing p the code c.  UNIQUE(code) covers old rows
\* too; a clash makes the INSERT throw.
CreatePairingCode(p, c) ==
    /\ code[p] = None
    /\ \A q \in Pairings : code[q] # c
    /\ code' = [code EXCEPT ![p] = c]
    /\ expires' = [expires EXCEPT ![p] = now + Lifetime]

\* createDevice for pairing p.
CreateDevice(p) ==
    /\ devices' = [devices EXCEPT ![p] = @ + 1]
    /\ pairedAt' = [pairedAt EXCEPT ![p] = now]

-----------------------------------------------------------------------------
(* Actions.                                                                *)

\* A request passes the limiter of its route.  (One that does not is
\* answered 429 and changes nothing.)
Arrive(k, l) ==
    /\ request[k] = None
    /\ Check(l, k)
    /\ request' = [request EXCEPT ![k] = l]
    /\ UNCHANGED <<code, expires, used, devices, app, boots, pairedAt>>

\* The body is not what the route expects (400), or the connection is lost;
\* or a bridge token is created, which no device sees.
EndRequest(k) ==
    /\ request[k] # None
    /\ request' = [request EXCEPT ![k] = None]
    /\ UNCHANGED <<limiterVars, code, expires, used, devices, app, boots, pairedAt>>

\* pair/start: a new code, or 500 after a clash: EndRequest.  The answer may
\* be lost on its way to the app.
StartPairing(k, p, c) ==
    /\ request[k] = "start"
    /\ request' = [request EXCEPT ![k] = None]
    /\ CreatePairingCode(p, c)
    /\ \/ app' = [app EXCEPT ![k] = [pairing |-> p, token |-> FALSE]]
       \/ UNCHANGED app
    /\ UNCHANGED <<limiterVars, used, devices, boots, pairedAt>>

\* pair/finish with the code and verifier of some pairing, not always of one
\* another: the code is used, the device created and the token sent, or, when
\* publish throws or the answer is lost, not seen by the app.
FinishPairing(k, c, v, p) ==
    /\ request[k] = "finish"
    /\ request' = [request EXCEPT ![k] = None]
    /\ Consumes(c, v, p)
    /\ used' = used \cup {p}
    /\ CreateDevice(p)
    /\ \/ app' = [app EXCEPT ![k] = [pairing |-> v, token |-> TRUE]]
       \/ UNCHANGED app
    /\ UNCHANGED <<limiterVars, code, expires, boots>>

\* The process dies between the UPDATE of consumePairingCode and the INSERT
\* of createDevice.
CrashInFinish(k, c, v, p) ==
    /\ boots < MaxBoots
    /\ boots' = boots + 1
    /\ request[k] = "finish"
    /\ Consumes(c, v, p)
    /\ used' = used \cup {p}
    /\ request' = [j \in Keys |-> None]
    /\ ForgetCounts
    /\ UNCHANGED <<now, code, expires, devices, app, pairedAt>>

\* It dies at any other moment.
Crash ==
    /\ boots < MaxBoots
    /\ boots' = boots + 1
    /\ request' = [k \in Keys |-> None]
    /\ ForgetCounts
    /\ UNCHANGED <<now, code, expires, used, devices, app, pairedAt>>

Next ==
    \/ \E k \in Keys :
        \/ \E l \in Limiters : Arrive(k, l)
        \/ EndRequest(k)
        \/ \E p \in Pairings, c \in Codes :
            \/ StartPairing(k, p, c)
            \/ \E v \in Pairings :
                FinishPairing(k, c, v, p) \/ CrashInFinish(k, c, v, p)
    \/ Crash
    \/ (Prune \/ Tick) /\ UNCHANGED pairingVars

Spec == Init /\ [][Next]_vars
-----------------------------------------------------------------------------
(* Properties.                                                             *)

\* However requests, crashes and expiry interleave, a pairing code pairs at
\* most one device, and only while it was valid (routes.ts 203-224, db.ts
\* 504-524).
PairsOnce ==
    \A p \in Pairings :
        /\ devices[p] <= 1
        /\ devices[p] = 1 => p \in used /\ pairedAt[p] < expires[p]

\* An app with a token has the only device of the pairing whose verifier it
\* sent: a code alone, or another pairing's verifier, gets no device; a
\* code never stands for two pairings (db.ts 492-513).
TokenIsPaired ==
    /\ \A k \in Keys : app[k].token =>
          app[k].pairing \in Pairings /\ devices[app[k].pairing] = 1
    /\ \A p, q \in Pairings : code[p] # None /\ code[p] = code[q] => p = q

\* A device never appears for a code that had been used up, by a device or
\* by a crash, and a used code is never valid again (db.ts 504-513).
UsedUpForGood ==
    [][\A p \in Pairings : p \in used => p \in used' /\ devices'[p] = devices[p]]_vars

\* What OneTimeCodes calls the state of pairing p.
StateOf(p) ==
    IF code[p] = None THEN "none"
    ELSE IF p \in used THEN "used"
    ELSE IF now >= expires[p] THEN "expired" ELSE "valid"

\* The routes keep the promise of OneTimeCodes: whatever requests, expiry and
\* crashes interleave, a code is given once, gives one device, while it is
\* valid, to one app, and is never valid again (routes.ts 190-224, db.ts
\* 492-530).
OneTime == INSTANCE OneTimeCodes WITH
    Offers  <- Pairings,
    Holders <- Keys,
    state   <- [p \in Pairings |-> StateOf(p)],
    holds   <- [p \in Pairings |-> {k \in Keys : app[k].token /\ app[k].pairing = p}]

ImplementsOneTimeCodes == OneTime!Spec

\* A device comes with the mark that uses its pairing up, a mark with a row.
RowsInv ==
    \A p \in Pairings :
        /\ code[p] = None => p \notin used
        /\ p \notin used => devices[p] = 0

IInv == /\ TypeOK
        /\ LimiterInv
        /\ RateIsBounded
        /\ PairsOnce
        /\ TokenIsPaired
        /\ RowsInv
==============================================================================
