------------------------------ MODULE PushRelay ------------------------------
(***************************************************************************)
(* Push notifications between the bridge and the relay.  The bridge        *)
(* (apps/bridge/src/index.ts 35-58, pushRelay.ts, pushDispatcher.ts,       *)
(* routes.ts 458-501) registers once with the relay, passes on the APNs    *)
(* token of the device that registered last and asks for notifications;    *)
(* the relay (apps/push-relay/src/index.ts, db.ts) keeps one token per     *)
(* registration, sends through APNs and drops a token APNs refuses.        *)
(*                                                                         *)
(* Each of the relay's handlers has an await between what it reads and     *)
(* what it writes: the body in the token route, APNs in the send route.    *)
(* Bridge and relay fail apart; what is under way may be lost.  A handle   *)
(* stands for its grant too.  APNs is taken to be configured.              *)
(***************************************************************************)
EXTENDS Naturals

CONSTANTS
    Handles,      \* registrations the relay can create, each once
    Tokens,       \* APNs device tokens, each given once
    Updates,      \* bound: token updates under way at a time
    Sends,        \* bound: sends under way at a time
    MaxBoots,     \* bound: restarts of the bridge
    None

ASSUME ConstantsAssumption ==
    /\ None \notin Handles \cup Tokens
    /\ MaxBoots \in Nat

VARIABLES
    valid,        \* tokens APNs accepts
    given,        \* tokens APNs has given to apps
    rows,         \* registrations of the relay: their handles
    token,        \* [Handles -> Tokens \cup {None}]: apns_device_token;
                  \* None for NULL and for ''
    reachable,    \* the bridge reaches the relay
    bridgeRows,   \* relay_registrations of the bridge: their handles
    attempt,      \* the registration of this boot
    asked,        \* the handle of its answer on the way
    update,       \* [Updates -> Update \cup {NoUpdate}]: PUT .../token
    send,         \* [Sends -> Send \cup {NoSend}]: apns.send under way
    boots,        \* restarts of the bridge so far
    latest,       \* history: the token of the last push/register
    excused       \* history: since the last push/register something happened
                  \* that may keep its token from the relay

vars == <<valid, given, rows, token, reachable, bridgeRows, attempt, asked,
          update, send, boots, latest, excused>>

Attempts == {"untried", "asked", "made", "ended"}
Update == [handle : Handles, token : Tokens, stage : {"sent", "authorised"}]
NoUpdate == [handle |-> None, token |-> None, stage |-> "sent"]
Send == [handle : Handles, token : Tokens]
NoSend == [handle |-> None, token |-> None]

TypeOK ==
    /\ given \in SUBSET Tokens
    /\ valid \in SUBSET given
    /\ rows \in SUBSET Handles
    /\ token \in [Handles -> Tokens \cup {None}]
    /\ reachable \in BOOLEAN
    /\ bridgeRows \in SUBSET Handles
    /\ attempt \in Attempts
    /\ asked \in Handles \cup {None}
    /\ update \in [Updates -> Update \cup {NoUpdate}]
    /\ send \in [Sends -> Send \cup {NoSend}]
    /\ boots \in Nat
    /\ latest \in Tokens \cup {None}
    /\ excused \in BOOLEAN

Init ==
    /\ valid = {}
    /\ given = {}
    /\ rows = {}
    /\ token = [h \in Handles |-> None]
    /\ reachable \in BOOLEAN
    /\ bridgeRows = {}
    /\ attempt = "untried"
    /\ asked = None
    /\ update = [u \in Updates |-> NoUpdate]
    /\ send = [x \in Sends |-> NoSend]
    /\ boots = 0
    /\ latest = None
    /\ excused = FALSE

bridgeVars == <<bridgeRows, attempt, asked, boots>>
apnsVars == <<valid, given>>

-----------------------------------------------------------------------------
(* The tables.                                                             *)

\* upsertRelayRegistration of the bridge.
UpsertRelayRegistration(h) == bridgeRows' = bridgeRows \cup {h}

\* A bug: the token of a registration that is gone is stored all the same.
UpdateApnsTokenAlways(h, t) == token' = [token EXCEPT ![h] = t]

\* updateApnsToken of the relay, which does nothing if the row is gone.
UpdateApnsToken(h, t) == token' = [token EXCEPT ![h] = IF h \in rows THEN t ELSE @]

-----------------------------------------------------------------------------
(* The environment.                                                        *)

\* APNs gives a device a token; its older one, if any, is no longer valid.
GiveToken(t, old) ==
    /\ t \notin given
    /\ given' = given \cup {t}
    /\ valid' = (valid \ {old}) \cup {t}
    /\ UNCHANGED <<rows, token, reachable, bridgeVars, update, send, latest, excused>>

\* The relay, or the way to it, fails: what is under way is lost.
Unreachable ==
    /\ reachable
    /\ reachable' = FALSE
    /\ update' = [u \in Updates |-> NoUpdate]
    /\ send' = [x \in Sends |-> NoSend]
    /\ excused' = (excused \/ \E u \in Updates : update[u] # NoUpdate)
    /\ UNCHANGED <<apnsVars, rows, token, bridgeVars, latest>>

Reachable ==
    /\ ~reachable
    /\ reachable' = TRUE
    /\ UNCHANGED <<apnsVars, rows, token, bridgeVars, update, send, latest, excused>>

-----------------------------------------------------------------------------
(* The bridge's registration, once per boot.                               *)

\* register() is called at boot when there is no row.
Register ==
    /\ attempt = "untried"
    /\ attempt' = IF bridgeRows = {} THEN "asked" ELSE "ended"
    /\ UNCHANGED <<apnsVars, rows, token, reachable, bridgeRows, asked, update,
                   send, boots, latest, excused>>

\* POST /api/register at the relay: createRegistration, with a new handle
\* and no token.
CreateRegistration(h) ==
    /\ reachable
    /\ attempt = "asked"
    /\ h \notin rows \cup bridgeRows
    /\ asked' = h
    /\ attempt' = "made"
    /\ rows' = rows \cup {h}
    /\ UNCHANGED <<apnsVars, token, reachable, bridgeRows, update, send, boots,
                   latest, excused>>

\* A bug: the answer is not stored.
AnswerDropped ==
    /\ reachable
    /\ attempt = "made"
    /\ attempt' = "ended"
    /\ asked' = None
    /\ UNCHANGED <<apnsVars, rows, token, reachable, bridgeRows, update, send,
                   boots, latest, excused>>

\* The answer arrives: upsertRelayRegistration.
RegistrationAnswered ==
    /\ reachable
    /\ attempt = "made"
    /\ attempt' = "ended"
    /\ asked' = None
    /\ UpsertRelayRegistration(asked)
    /\ UNCHANGED <<apnsVars, rows, token, reachable, update, send, boots, latest,
                   excused>>

\* The relay, or its answer, is not reached: register() returns null, and
\* nothing tries again.
RegistrationFails ==
    /\ ~reachable
    /\ attempt \in {"asked", "made"}
    /\ attempt' = "ended"
    /\ asked' = None
    /\ UNCHANGED <<apnsVars, rows, token, reachable, bridgeRows, update, send,
                   boots, latest, excused>>

\* The bridge restarts.
Boot ==
    /\ boots < MaxBoots
    /\ boots' = boots + 1
    /\ attempt' = "untried"
    /\ asked' = None
    /\ UNCHANGED <<apnsVars, rows, token, reachable, bridgeRows, update, send,
                   latest, excused>>

-----------------------------------------------------------------------------
(* A device's token on its way to the relay.                               *)

InFlight == {u \in Updates : update[u] # NoUpdate}

\* POST /api/push/register with a token of the app, perhaps no longer its
\* newest: stored with the device and, if there is a row, passed on without
\* waiting for the answer.
PushRegister(t) ==
    /\ t \in given
    /\ latest' = t
    /\ \/ /\ bridgeRows = {}
          /\ excused' = TRUE
          /\ UNCHANGED update
       \/ \E h \in bridgeRows, u \in Updates \ InFlight :
            /\ update' = [update EXCEPT ![u] =
                    [handle |-> h, token |-> t, stage |-> "sent"]]
            /\ excused' = (InFlight # {})
    /\ UNCHANGED <<apnsVars, rows, token, reachable, bridgeVars, send>>

\* PUT /api/registrations/:handle/token at the relay, up to the await of its
\* body: the grant is right, or the answer is 401.
AuthoriseUpdate(u) ==
    /\ reachable
    /\ update[u].stage = "sent"
    /\ u \in InFlight
    /\ \/ /\ update[u].handle \in rows
          /\ update' = [update EXCEPT ![u] =
                [handle |-> @.handle, token |-> @.token, stage |-> "authorised"]]
          /\ UNCHANGED excused
       \/ /\ update[u].handle \notin rows
          /\ update' = [update EXCEPT ![u] = NoUpdate]
          /\ excused' = TRUE
    /\ UNCHANGED <<apnsVars, rows, token, reachable, bridgeVars, send, latest>>

\* A bug: a row that has a token keeps it.
ApplyUpdateOnce(u) ==
    /\ update[u].stage = "authorised"
    /\ token' = IF update[u].handle \in rows /\ token[update[u].handle] = None
                THEN [token EXCEPT ![update[u].handle] = update[u].token] ELSE token
    /\ update' = [update EXCEPT ![u] = NoUpdate]
    /\ UNCHANGED <<apnsVars, rows, reachable, bridgeVars, send, latest, excused>>

\* And after it.
ApplyUpdate(u) ==
    /\ update[u].stage = "authorised"
    /\ UpdateApnsToken(update[u].handle, update[u].token)
    /\ update' = [update EXCEPT ![u] = NoUpdate]
    /\ UNCHANGED <<apnsVars, rows, reachable, bridgeVars, send, latest, excused>>

\* The request is lost; updateToken returns false to no one.
LoseUpdate(u) ==
    /\ u \in InFlight
    /\ update' = [update EXCEPT ![u] = NoUpdate]
    /\ excused' = TRUE
    /\ UNCHANGED <<apnsVars, rows, token, reachable, bridgeVars, send, latest>>

-----------------------------------------------------------------------------
(* Notifications.                                                          *)

\* An event the dispatcher notifies of has a registration to be sent with.
Dispatches(h) == h \in bridgeRows

\* The dispatcher, or push/test, sends; the relay reads the token and hands
\* the notification to APNs.
StartSend(x, h) ==
    /\ reachable
    /\ send[x] = NoSend
    /\ Dispatches(h)
    /\ h \in rows
    /\ token[h] # None
    /\ send' = [send EXCEPT ![x] = [handle |-> h, token |-> token[h]]]
    /\ UNCHANGED <<apnsVars, rows, token, reachable, bridgeVars, update, latest, excused>>

\* APNs delivers it, or fails for another reason than the token.
SendEnds(x) ==
    /\ send[x] # NoSend
    /\ send' = [send EXCEPT ![x] = NoSend]
    /\ UNCHANGED <<apnsVars, rows, token, reachable, bridgeVars, update, latest, excused>>

\* APNs answers BadDeviceToken or Unregistered: whatever token the row holds
\* by now is replaced by ''.
SendRefused(x) ==
    /\ send[x] # NoSend
    /\ send[x].token \notin valid
    /\ send' = [send EXCEPT ![x] = NoSend]
    /\ UpdateApnsToken(send[x].handle, None)
    /\ excused' = TRUE
    /\ UNCHANGED <<apnsVars, rows, reachable, bridgeVars, update, latest>>

\* DELETE /api/registrations/:handle, with the grant the bridge holds.
DeleteRegistration(h) ==
    /\ h \in rows \cap bridgeRows
    /\ rows' = rows \ {h}
    /\ token' = [token EXCEPT ![h] = None]
    /\ excused' = TRUE
    /\ UNCHANGED <<apnsVars, reachable, bridgeVars, update, send, latest>>

Next ==
    \/ \E t \in Tokens :
        \/ \E old \in valid \cup {None} : GiveToken(t, old)
        \/ PushRegister(t)
    \/ Unreachable \/ Reachable \/ Register \/ RegistrationAnswered
    \/ RegistrationFails \/ Boot
    \/ \E h \in Handles : CreateRegistration(h) \/ DeleteRegistration(h)
    \/ \E u \in Updates : AuthoriseUpdate(u) \/ ApplyUpdate(u) \/ LoseUpdate(u)
    \/ \E x \in Sends :
        \/ SendEnds(x) \/ SendRefused(x)
        \/ \E h \in Handles : StartSend(x, h)

\* A boot runs index.ts to its end; a relay that is reached answers.
Fairness ==
    /\ WF_vars(Register)
    /\ WF_vars(\E h \in Handles : CreateRegistration(h))
    /\ WF_vars(RegistrationAnswered)

Spec == Init /\ [][Next]_vars /\ Fairness
-----------------------------------------------------------------------------
(* Properties.                                                             *)

\* The bridge never has two registrations, of which getRelayRegistration
\* would take any; a registration whose answer was lost with the bridge, or
\* on the way, never gets a token and so never notifies anyone (index.ts
\* 37-58, db.ts 548-562 of the bridge).
OneRegistration ==
    /\ \A g, h \in bridgeRows : g = h
    /\ \A h \in Handles : token[h] # None => h \in bridgeRows \cap rows

\* With no update under way the relay holds the token that was registered
\* last, unless since then an update was lost or refused, two were under way
\* at once, there was no registration yet, or a bad answer or a deletion
\* removed the token (routes.ts 466-472, pushRelay.ts 38-52, push-relay
\* index.ts 63-74, 96-112).
OnlyTheseMislead ==
    latest # None /\ InFlight = {} /\ ~excused =>
        \E h \in bridgeRows : h \in rows /\ token[h] = latest

\* A boot of a bridge without a row ends with one, if the relay can be
\* reached all the while (index.ts 37-58).
BootRegisters ==
    (attempt = "untried" /\ reachable) ~> (bridgeRows # {} \/ ~reachable)

\* push-relay index.ts 109 says "BadDeviceToken means the token is stale -
\* remove it".
RemovesStaleOnly ==
    [][\A h \in Handles : h \in rows' /\ token[h] \in valid => token'[h] # None]_vars

\* index.ts 51 of the bridge says "push notifications disabled until relay
\* is reachable".
EnabledOnceReachable == <>[]reachable => <>(bridgeRows # {})

\* What PushTarget calls the state of the bridge's registration.
Closed == bridgeRows # {} /\ bridgeRows \cap rows = {}
Held == {token[h] : h \in bridgeRows} \ {None}

\* Bridge and relay keep the promise of PushTarget: whatever boots, losses,
\* refusals and deletions fall between the two halves of the relay's
\* handlers, the one registration is never replaced, a token reaches it once
\* or never, and none after it was deleted, also not by an update that had
\* been authorised before (index.ts 37-58 of the bridge, push-relay index.ts
\* 63-112).
Target == INSTANCE PushTarget WITH
    Targets  <- Handles,
    Tellings <- Updates,
    Notices  <- Sends,
    target   <- bridgeRows,
    closed   <- Closed,
    held     <- Held,
    coming   <- [u \in Updates |-> update[u].token],
    notice   <- [x \in Sends |-> send[x].token]

ImplementsTarget == Target!Spec

-----------------------------------------------------------------------------
(* The inductive invariant behind the safety properties.                   *)

\* Answers, updates and sends are about a registration the bridge has, or is
\* about to have.
HandleInv ==
    /\ attempt = "made" => asked \in rows \ bridgeRows
    /\ attempt # "made" => asked = None
    /\ attempt \in {"asked", "made"} => bridgeRows = {}
    /\ \A u \in InFlight : update[u].handle \in bridgeRows /\ update[u].token \in given
    /\ \A x \in Sends : send[x] # NoSend => send[x].handle \in bridgeRows

\* Unless it is excused, the last token is in the one update under way, or
\* has arrived.
LatestInv ==
    ~excused /\ latest # None =>
        /\ bridgeRows # {}
        /\ \A u, w \in InFlight : u = w
        /\ \A u \in InFlight :
            /\ update[u].token = latest
            /\ update[u].stage = "authorised" => update[u].handle \in rows
        /\ InFlight = {} => \A h \in bridgeRows : h \in rows /\ token[h] = latest

IInv == /\ TypeOK
        /\ HandleInv
        /\ OneRegistration
        /\ LatestInv
        /\ OnlyTheseMislead
==============================================================================
