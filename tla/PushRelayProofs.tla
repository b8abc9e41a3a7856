---------------------------- MODULE PushRelayProofs ----------------------------
(***************************************************************************)
(* Proofs about PushRelay's safety, for any number of registrations,       *)
(* tokens, updates and sends under way and restarts.                       *)
(***************************************************************************)
EXTENDS PushRelay, TLAPS

\* What the invariant says beyond OnlyTheseMislead, which follows from it.
Core == TypeOK /\ HandleInv /\ OneRegistration /\ LatestInv

LEMMA CoreIsEnough == Core => IInv
  BY DEF Core, IInv, LatestInv, OnlyTheseMislead

\* An update under way is a record of a registration and a token.
LEMMA InFlightType ==
    ASSUME TypeOK
    PROVE  /\ \A u \in InFlight : update[u] \in Update
           /\ \A u \in Updates : update[u].stage = "authorised" => u \in InFlight
  BY DEF TypeOK, InFlight, NoUpdate

\* Steps that have nothing to do with updates, sends or tokens.
LEMMA RegisterSteps ==
    ASSUME Core,
           \/ Register \/ RegistrationAnswered \/ RegistrationFails \/ Boot \/ Reachable
           \/ \E h \in Handles : CreateRegistration(h)
    PROVE  Core'
  <1> USE ConstantsAssumption
  <1>0. TypeOK /\ HandleInv /\ OneRegistration /\ LatestInv
        /\ UNCHANGED <<valid, given, token, update, send, latest, excused>>
    BY DEF Core, Register, CreateRegistration, RegistrationAnswered, RegistrationFails, Boot,
           Reachable, apnsVars, bridgeVars
  <1>1. CASE Register
    BY <1>0, <1>1 DEF Register, Core, TypeOK, Attempts, HandleInv, OneRegistration, LatestInv, InFlight
  <1>2. ASSUME NEW h \in Handles, CreateRegistration(h) PROVE Core'
    BY <1>0, <1>2 DEF CreateRegistration, Core, TypeOK, Attempts, HandleInv, OneRegistration,
                      LatestInv, InFlight
  <1>3. CASE RegistrationAnswered
    BY <1>0, <1>3 DEF RegistrationAnswered, UpsertRelayRegistration, Core, TypeOK, Attempts,
                      HandleInv, OneRegistration, LatestInv, InFlight
  <1>4. CASE RegistrationFails
    BY <1>0, <1>4 DEF RegistrationFails, Core, TypeOK, Attempts, HandleInv, OneRegistration,
                      LatestInv, InFlight
  <1>5. CASE Boot
    BY <1>0, <1>5 DEF Boot, Core, TypeOK, Attempts, HandleInv, OneRegistration, LatestInv, InFlight
  <1>6. CASE Reachable
    BY <1>0, <1>6 DEF Reachable, bridgeVars, Core, TypeOK, HandleInv, OneRegistration, LatestInv,
                      InFlight
  <1> QED
    BY <1>1, <1>2, <1>3, <1>4, <1>5, <1>6

\* An update that ends without having been applied leaves an excuse.
LEMMA DropStep ==
    ASSUME Core, update' \in [Updates -> Update \cup {NoUpdate}],
           \A u \in Updates : update'[u] # NoUpdate => update'[u] = update[u],
           send' \in [Sends -> Send \cup {NoSend}],
           \A x \in Sends : send'[x] # NoSend => send'[x] = send[x],
           rows' \subseteq rows, \A h \in rows \ rows' : h \in bridgeRows,
           token' \in [Handles -> Tokens \cup {None}],
           \A h \in Handles : token'[h] # None => h \in rows' /\ token'[h] = token[h],
           excused' \in BOOLEAN,
           ~excused' => ~excused /\ UNCHANGED <<update, rows, token>>,
           reachable' \in BOOLEAN,
           UNCHANGED <<valid, given, bridgeRows, attempt, asked, boots, latest>>
    PROVE  Core'
  <1> USE ConstantsAssumption
  <1>0. TypeOK /\ HandleInv /\ OneRegistration /\ LatestInv
    BY DEF Core
  <1>1. TypeOK'
    BY <1>0 DEF TypeOK
  <1>2. HandleInv'
    BY <1>0 DEF HandleInv, InFlight
  <1>3. OneRegistration'
    BY <1>0 DEF OneRegistration
  <1>4. LatestInv'
    BY <1>0 DEF LatestInv, InFlight
  <1> QED
    BY <1>1, <1>2, <1>3, <1>4 DEF Core

\* Every step keeps the core.
LEMMA NextCore == Core /\ [Next]_vars => Core'
  <1> SUFFICES ASSUME Core, [Next]_vars PROVE Core'
    OBVIOUS
  <1> USE ConstantsAssumption
  <1>0. TypeOK /\ HandleInv /\ OneRegistration /\ LatestInv
    BY DEF Core
  <1>1. ASSUME NEW t \in Tokens, NEW old \in valid \cup {None}, GiveToken(t, old) PROVE Core'
    BY <1>0, <1>1 DEF GiveToken, bridgeVars, Core, TypeOK, HandleInv, OneRegistration, LatestInv,
                      InFlight
  <1>2. ASSUME NEW t \in Tokens, PushRegister(t) PROVE Core'
    <2>0. /\ t \in given /\ latest' = t
          /\ UNCHANGED <<valid, given, rows, token, reachable, bridgeRows, attempt, asked, boots, send>>
      BY <1>2 DEF PushRegister, apnsVars, bridgeVars
    <2>1. CASE bridgeRows = {} /\ excused' = TRUE /\ UNCHANGED update
      BY <1>0, <2>0, <2>1 DEF Core, TypeOK, HandleInv, OneRegistration, LatestInv, InFlight
    <2>2. ASSUME NEW h \in bridgeRows, NEW u \in Updates \ InFlight,
                 update' = [update EXCEPT ![u] = [handle |-> h, token |-> t, stage |-> "sent"]],
                 excused' = (InFlight # {})
          PROVE  Core'
      <3> DEFINE new == [handle |-> h, token |-> t, stage |-> "sent"]
      <3>1. new \in Update /\ new # NoUpdate /\ new.stage = "sent" /\ new.handle = h /\ new.token = t
        BY <1>0, <2>2 DEF TypeOK, Update, NoUpdate
      <3>2. update' = [update EXCEPT ![u] = new]
        BY <2>2
      <3> HIDE DEF new
      <3>3. /\ update' \in [Updates -> Update \cup {NoUpdate}]
            /\ \A w \in Updates : update'[w] = IF w = u THEN new ELSE update[w]
            /\ InFlight' = InFlight \cup {u}
        BY <1>0, <3>1, <3>2 DEF TypeOK, InFlight
      <3>4. TypeOK'
        <4>1. excused' \in BOOLEAN
          BY <2>2
        <4> QED
          BY <1>0, <2>0, <3>3, <4>1 DEF TypeOK
      <3>5. HandleInv'
        BY <1>0, <2>0, <3>1, <3>3 DEF HandleInv, InFlight
      <3>6. OneRegistration'
        BY <1>0, <2>0 DEF OneRegistration
      <3>7. LatestInv'
        <4>1. CASE InFlight = {}
          BY <2>0, <3>1, <3>3, <4>1 DEF LatestInv
        <4>2. CASE InFlight # {}
          BY <2>2, <4>2 DEF LatestInv
        <4> QED
          BY <4>1, <4>2
      <3> QED
        BY <3>4, <3>5, <3>6, <3>7 DEF Core
    <2> QED
      BY <1>2, <2>1, <2>2 DEF PushRegister
  <1>3. CASE Unreachable
    <2>1. /\ update' \in [Updates -> Update \cup {NoUpdate}]
          /\ send' \in [Sends -> Send \cup {NoSend}]
          /\ \A u \in Updates : update'[u] = NoUpdate
          /\ \A x \in Sends : send'[x] = NoSend
      BY <1>3 DEF Unreachable
    <2>2. /\ excused' \in BOOLEAN /\ reachable' \in BOOLEAN
          /\ ~excused' => ~excused /\ \A u \in Updates : update[u] = NoUpdate
      BY <1>3, Zenon DEF Unreachable
    <2>3. ~excused' => UNCHANGED update
      BY <1>0, <2>1, <2>2 DEF TypeOK
    <2>4. UNCHANGED <<valid, given, rows, token, bridgeRows, attempt, asked, boots, latest>>
      BY <1>3 DEF Unreachable, apnsVars, bridgeVars
    <2>5. /\ token' \in [Handles -> Tokens \cup {None}]
          /\ \A h \in Handles : token'[h] # None => h \in rows' /\ token'[h] = token[h]
      BY <1>0, <2>4 DEF TypeOK, OneRegistration
    <2> QED
      BY <2>1, <2>2, <2>3, <2>4, <2>5, DropStep
  <1>4. CASE Register \/ RegistrationAnswered \/ RegistrationFails \/ Boot \/ Reachable
    BY <1>4, RegisterSteps
  <1>5. ASSUME NEW h \in Handles, CreateRegistration(h) PROVE Core'
    BY <1>5, RegisterSteps
  <1>6. ASSUME NEW h \in Handles, DeleteRegistration(h) PROVE Core'
    <2>1. /\ h \in rows \cap bridgeRows /\ rows' = rows \ {h}
          /\ token' = [token EXCEPT ![h] = None]
          /\ excused' = TRUE
          /\ UNCHANGED <<valid, given, reachable, bridgeRows, attempt, asked, boots, update, send, latest>>
      BY <1>6 DEF DeleteRegistration, apnsVars, bridgeVars
    <2>2. /\ token' \in [Handles -> Tokens \cup {None}]
          /\ \A g \in Handles : token'[g] # None => g \in rows' /\ token'[g] = token[g]
      BY <1>0, <2>1 DEF TypeOK, OneRegistration
    <2>3. TypeOK'
      BY <1>0, <2>1, <2>2 DEF TypeOK
    <2>4. HandleInv' /\ OneRegistration' /\ LatestInv'
      BY <1>0, <2>1, <2>2 DEF HandleInv, OneRegistration, LatestInv, InFlight
    <2> QED
      BY <2>3, <2>4 DEF Core
  <1>7. ASSUME NEW u \in Updates, AuthoriseUpdate(u) PROVE Core'
    <2>0. /\ u \in InFlight /\ update[u] \in Update /\ update[u].stage = "sent"
          /\ UNCHANGED <<valid, given, rows, token, reachable, bridgeRows, attempt, asked, boots,
                         send, latest>>
      BY <1>0, <1>7, InFlightType DEF AuthoriseUpdate, apnsVars, bridgeVars
    <2>1. CASE /\ update[u].handle \in rows
               /\ update' = [update EXCEPT ![u] =
                     [handle |-> @.handle, token |-> @.token, stage |-> "authorised"]]
               /\ UNCHANGED excused
      <3> DEFINE new == [handle |-> update[u].handle, token |-> update[u].token,
                         stage |-> "authorised"]
      <3>1. update' = [update EXCEPT ![u] = new]
        BY <1>0, <2>0, <2>1 DEF TypeOK, Update
      <3>2. new \in Update /\ new # NoUpdate /\ new.stage = "authorised"
            /\ new.handle = update[u].handle /\ new.token = update[u].token
        BY <2>0 DEF Update, NoUpdate
      <3> HIDE DEF new
      <3>3. /\ update' \in [Updates -> Update \cup {NoUpdate}]
            /\ \A w \in Updates : update'[w] = IF w = u THEN new ELSE update[w]
            /\ InFlight' = InFlight
        BY <1>0, <2>0, <3>1, <3>2 DEF TypeOK, InFlight
      <3>4. TypeOK'
        BY <1>0, <2>0, <2>1, <3>3 DEF TypeOK
      <3>5. HandleInv' /\ OneRegistration'
        BY <1>0, <2>0, <3>2, <3>3 DEF HandleInv, OneRegistration, InFlight
      <3>6. LatestInv'
        BY <1>0, <2>0, <2>1, <3>2, <3>3 DEF LatestInv, InFlight
      <3> QED
        BY <3>4, <3>5, <3>6 DEF Core
    <2>2. CASE update' = [update EXCEPT ![u] = NoUpdate] /\ excused' = TRUE
      <3>1. /\ update' \in [Updates -> Update \cup {NoUpdate}]
            /\ \A w \in Updates : update'[w] # NoUpdate => update'[w] = update[w]
        BY <1>0, <2>2 DEF TypeOK
      <3>2. TypeOK'
        BY <1>0, <2>0, <2>2, <3>1 DEF TypeOK
      <3>3. HandleInv' /\ OneRegistration' /\ LatestInv'
        BY <1>0, <2>0, <2>2, <3>1 DEF HandleInv, OneRegistration, LatestInv, InFlight
      <3> QED
        BY <3>2, <3>3 DEF Core
    <2> QED
      BY <1>7, <2>1, <2>2 DEF AuthoriseUpdate
  <1>8. ASSUME NEW u \in Updates, ApplyUpdate(u) PROVE Core'
    <2> DEFINE h == update[u].handle
               t == update[u].token
    <2>0. /\ u \in InFlight /\ h \in Handles /\ h \in bridgeRows /\ t \in Tokens
          /\ update[u].stage = "authorised"
          /\ token' = [token EXCEPT ![h] = IF h \in rows THEN t ELSE token[h]]
          /\ update' = [update EXCEPT ![u] = NoUpdate]
          /\ UNCHANGED <<valid, given, rows, reachable, bridgeRows, attempt, asked, boots, send,
                         latest, excused>>
      BY <1>0, <1>8, InFlightType DEF ApplyUpdate, UpdateApnsToken, apnsVars, bridgeVars, HandleInv,
                                      Update, TypeOK
    <2>1. ~excused /\ latest # None => t = latest /\ h \in rows /\ \A w \in InFlight : w = u
      BY <1>0, <2>0 DEF LatestInv
    <2> HIDE DEF h, t
    <2>2. /\ update' \in [Updates -> Update \cup {NoUpdate}]
          /\ \A w \in Updates : update'[w] = IF w = u THEN NoUpdate ELSE update[w]
          /\ InFlight' = InFlight \ {u}
      BY <1>0, <2>0 DEF TypeOK, InFlight
    <2>3. /\ token' \in [Handles -> Tokens \cup {None}]
          /\ \A g \in Handles : token'[g] = IF g = h /\ h \in rows THEN t ELSE token[g]
      BY <1>0, <2>0 DEF TypeOK
    <2>4. TypeOK'
      BY <1>0, <2>0, <2>2, <2>3 DEF TypeOK
    <2>5. HandleInv'
      BY <1>0, <2>0, <2>2 DEF HandleInv, InFlight
    <2>6. OneRegistration'
      BY <1>0, <2>0, <2>3 DEF OneRegistration
    <2>7. LatestInv'
      <3> SUFFICES ASSUME ~excused, latest # None
                   PROVE  /\ bridgeRows # {}
                          /\ InFlight' = {}
                          /\ \A g \in bridgeRows : g \in rows /\ token'[g] = latest
        BY <2>0 DEF LatestInv
      <3>1. InFlight' = {}
        BY <2>1, <2>2
      <3>2. \A g \in bridgeRows : g = h
        BY <1>0, <2>0 DEF OneRegistration
      <3> QED
        BY <2>0, <2>1, <2>3, <3>1, <3>2
    <2> QED
      BY <2>4, <2>5, <2>6, <2>7 DEF Core
  <1>9. ASSUME NEW u \in Updates, LoseUpdate(u) PROVE Core'
    <2>0. /\ update' = [update EXCEPT ![u] = NoUpdate] /\ excused' = TRUE
          /\ UNCHANGED <<valid, given, rows, token, reachable, bridgeRows, attempt, asked, boots,
                         send, latest>>
      BY <1>9 DEF LoseUpdate, apnsVars, bridgeVars
    <2>1. /\ update' \in [Updates -> Update \cup {NoUpdate}]
          /\ \A w \in Updates : update'[w] # NoUpdate => update'[w] = update[w]
      BY <1>0, <2>0 DEF TypeOK
    <2>2. TypeOK'
      BY <1>0, <2>0, <2>1 DEF TypeOK
    <2>3. HandleInv' /\ OneRegistration' /\ LatestInv'
      BY <1>0, <2>0, <2>1 DEF HandleInv, OneRegistration, LatestInv, InFlight
    <2> QED
      BY <2>2, <2>3 DEF Core
  <1>10. ASSUME NEW x \in Sends, SendEnds(x) \/ SendRefused(x) PROVE Core'
    <2>0. /\ send' = [send EXCEPT ![x] = NoSend]
          /\ UNCHANGED <<valid, given, rows, reachable, bridgeRows, attempt, asked, boots, update,
                         latest>>
          /\ excused' \in BOOLEAN
          /\ ~excused' => ~excused /\ UNCHANGED token
      BY <1>0, <1>10 DEF SendEnds, SendRefused, apnsVars, bridgeVars, TypeOK
    <2>1. /\ send' \in [Sends -> Send \cup {NoSend}]
          /\ \A y \in Sends : send'[y] # NoSend => send'[y] = send[y]
      BY <1>0, <2>0 DEF TypeOK
    <2>2. /\ token' \in [Handles -> Tokens \cup {None}]
          /\ \A g \in Handles : token'[g] # None => token'[g] = token[g]
      <3>1. CASE UNCHANGED token
        BY <1>0, <3>1 DEF TypeOK
      <3>2. CASE token' = [token EXCEPT ![send[x].handle] =
                             IF send[x].handle \in rows THEN None ELSE @]
        BY <1>0, <3>2 DEF TypeOK
      <3> QED
        BY <1>10, <3>1, <3>2 DEF SendEnds, SendRefused, UpdateApnsToken
    <2>3. TypeOK'
      BY <1>0, <2>0, <2>1, <2>2 DEF TypeOK
    <2>4. HandleInv' /\ OneRegistration'
      BY <1>0, <2>0, <2>1, <2>2 DEF HandleInv, OneRegistration, InFlight
    <2>5. LatestInv'
      BY <1>0, <2>0 DEF LatestInv, InFlight
    <2> QED
      BY <2>3, <2>4, <2>5 DEF Core
  <1>11. ASSUME NEW x \in Sends, NEW h \in Handles, StartSend(x, h) PROVE Core'
    <2>0. /\ h \in bridgeRows /\ token[h] \in Tokens
          /\ send' = [send EXCEPT ![x] = [handle |-> h, token |-> token[h]]]
          /\ UNCHANGED <<valid, given, rows, token, reachable, bridgeRows, attempt, asked, boots,
                         update, latest, excused>>
      BY <1>0, <1>11 DEF StartSend, Dispatches, apnsVars, bridgeVars, TypeOK
    <2>1. /\ send' \in [Sends -> Send \cup {NoSend}]
          /\ \A y \in Sends : y # x => send'[y] = send[y]
          /\ send'[x].handle = h
      BY <1>0, <2>0 DEF TypeOK, Send
    <2>2. TypeOK'
      BY <1>0, <2>0, <2>1 DEF TypeOK
    <2>3. HandleInv' /\ OneRegistration' /\ LatestInv'
      BY <1>0, <2>0, <2>1 DEF HandleInv, OneRegistration, LatestInv, InFlight
    <2> QED
      BY <2>2, <2>3 DEF Core
  <1>12. CASE UNCHANGED vars
    BY <1>0, <1>12 DEF vars, Core, TypeOK, HandleInv, OneRegistration, LatestInv, InFlight
  <1> QED
    BY <1>1, <1>2, <1>3, <1>4, <1>5, <1>6, <1>7, <1>8, <1>9, <1>10, <1>11, <1>12 DEF Next

\* The inductive invariant holds in every reachable state.
THEOREM Invariance == Spec => []IInv
  <1>1. ASSUME Init PROVE Core
    <2>1. InFlight = {}
      BY <1>1 DEF Init, InFlight
    <2>2. TypeOK
      BY <1>1 DEF Init, TypeOK, Attempts
    <2>3. HandleInv
      BY <1>1, <2>1 DEF Init, HandleInv
    <2>4. OneRegistration /\ LatestInv
      BY <1>1, <2>1 DEF Init, OneRegistration, LatestInv
    <2> QED
      BY <2>2, <2>3, <2>4 DEF Core
  <1> QED
    BY <1>1, NextCore, CoreIsEnough, PTL DEF Spec

\* Every variable has its type in every reachable state.
THEOREM TypeCorrect == Spec => []TypeOK
  <1>1. IInv => TypeOK
    BY DEF IInv
  <1> QED
    BY <1>1, Invariance, PTL

\* The bridge has at most one registration, however often it restarts, and
\* only that one has a token (index.ts 37-58, db.ts 548-562 of the bridge).
THEOREM RegistersOnce == Spec => []OneRegistration
  <1>1. IInv => OneRegistration
    BY DEF IInv
  <1> QED
    BY <1>1, Invariance, PTL

\* Only what OnlyTheseMislead lists keeps the last token from the relay
\* (routes.ts 466-472, pushRelay.ts 38-52, push-relay index.ts 63-74, 96-112).
THEOREM LastTokenArrives == Spec => []OnlyTheseMislead
  <1>1. IInv => OnlyTheseMislead
    BY DEF IInv
  <1> QED
    BY <1>1, Invariance, PTL

-----------------------------------------------------------------------------
(* The refinement of PushTarget.                                           *)

\* Of the one registration the bridge has, the token held is its row's, and
\* it is closed when the relay has no row for it.
LEMMA OnlyRegistration ==
    ASSUME IInv, NEW h \in bridgeRows
    PROVE  /\ h \in Handles
           /\ bridgeRows = {h}
           /\ Closed <=> h \notin rows
           /\ Held = {token[h]} \ {None}
           /\ Closed => Held = {}
  <1>1. bridgeRows = {h} /\ h \in Handles
    BY DEF IInv, OneRegistration, TypeOK
  <1>2. Held = {token[h]} \ {None} /\ (Closed <=> h \notin rows)
    BY <1>1 DEF Held, Closed
  <1>3. h \notin rows => token[h] = None
    BY <1>1 DEF IInv, OneRegistration
  <1> QED
    BY <1>1, <1>2, <1>3

\* An update or a send is under way exactly if it has a token.
LEMMA UnderWay ==
    ASSUME TypeOK
    PROVE  /\ \A u \in Updates : /\ update[u].token \in Tokens \cup {None}
                                 /\ u \in InFlight <=> update[u].token # None
           /\ \A x \in Sends : /\ send[x].token \in Tokens \cup {None}
                               /\ send[x] # NoSend <=> send[x].token # None
  BY ConstantsAssumption DEF TypeOK, InFlight, Update, NoUpdate, Send, NoSend

\* A step that neither gives nor takes the bridge's registration a row or a
\* token, and begins no update and no send, loses some or none.
LEMMA DropRefines ==
    ASSUME IInv, TypeOK', UNCHANGED <<rows, token, bridgeRows>>,
           \A u \in Updates : update'[u] \in {update[u], NoUpdate}
                              \/ update'[u].token = update[u].token,
           \A x \in Sends : send'[x] \in {send[x], NoSend}
    PROVE  Target!Drop
  <1>1. UNCHANGED <<bridgeRows, Closed, Held>>
    BY DEF Closed, Held
  <1>2. \A u \in Updates : /\ update'[u].token \in Tokens \cup {None}
                           /\ update'[u].token \in {update[u].token, None}
    BY DEF TypeOK, Update, NoUpdate
  <1>3. \A x \in Sends : /\ send'[x].token \in Tokens \cup {None}
                         /\ send'[x].token \in {send[x].token, None}
    BY DEF TypeOK, Send, NoSend
  <1> QED
    BY <1>1, <1>2, <1>3 DEF Target!Drop

\* Before the answer of its registration the bridge holds no token; the answer
\* settles the target.
LEMMA AnsweredRefines ==
    ASSUME IInv, RegistrationAnswered
    PROVE  asked \in Handles /\ Target!Settle(asked)
  <1>1. /\ asked \in rows \ bridgeRows /\ asked \in Handles /\ bridgeRows = {}
        /\ bridgeRows' = {asked}
        /\ UNCHANGED <<rows, token, update, send>>
    BY DEF RegistrationAnswered, UpsertRelayRegistration, IInv, HandleInv, TypeOK
  <1>2. token[asked] = None
    BY <1>1 DEF IInv, OneRegistration
  <1>3. Closed' = Closed /\ Held' = Held
    BY <1>1, <1>2 DEF Closed, Held
  <1> QED
    BY <1>1, <1>3 DEF Target!Settle

\* A token passed on is a telling; without a registration there is none.
LEMMA PushRegisterRefines ==
    ASSUME IInv, NEW t \in Tokens, PushRegister(t)
    PROVE  (\E u \in Updates : Target!Tell(u, t)) \/ UNCHANGED Target!targetVars
  <1>0. TypeOK /\ UNCHANGED <<rows, token, bridgeRows, send>>
    BY DEF IInv, PushRegister, bridgeVars
  <1>1. UNCHANGED <<Closed, Held>>
    BY <1>0 DEF Closed, Held
  <1>2. CASE UNCHANGED update
    BY <1>0, <1>1, <1>2 DEF Target!targetVars
  <1>3. ASSUME NEW h \in bridgeRows, NEW u \in Updates \ InFlight,
               update' = [update EXCEPT ![u] = [handle |-> h, token |-> t, stage |-> "sent"]]
        PROVE  Target!Tell(u, t)
    <2>1. update[u].token = None
      BY <1>0, UnderWay
    <2>2. \A w \in Updates : update'[w].token = IF w = u THEN t ELSE update[w].token
      BY <1>0, <1>3 DEF TypeOK
    <2>3. [w \in Updates |-> update'[w].token]
            = [[w \in Updates |-> update[w].token] EXCEPT ![u] = t]
      BY <2>2
    <2> QED
      BY <1>0, <1>1, <2>1, <2>3 DEF Target!Tell
  <1> QED
    BY <1>2, <1>3 DEF PushRegister

\* What the relay applies arrives, unless the registration was deleted after
\* the update had been authorised.
LEMMA ApplyRefines ==
    ASSUME IInv, NEW u \in Updates, ApplyUpdate(u)
    PROVE  Target!Arrive(u)
  <1> DEFINE h == update[u].handle
             t == update[u].token
  <1>0. /\ TypeOK /\ u \in InFlight /\ h \in bridgeRows /\ t \in Tokens
        /\ token' = [token EXCEPT ![h] = IF h \in rows THEN t ELSE token[h]]
        /\ update' = [update EXCEPT ![u] = NoUpdate]
        /\ UNCHANGED <<rows, bridgeRows, send>>
    BY InFlightType DEF ApplyUpdate, UpdateApnsToken, bridgeVars, IInv, HandleInv, Update
  <1> HIDE DEF h, t
  <1>1. h \in Handles /\ bridgeRows = {h} /\ (Closed <=> h \notin rows)
        /\ Held = {token[h]} \ {None} /\ (Closed => Held = {})
    BY <1>0, OnlyRegistration
  <1>2. Closed' = Closed
    BY <1>0 DEF Closed
  <1>3. token'[h] = IF Closed THEN token[h] ELSE t
    BY <1>0, <1>1 DEF TypeOK
  <1>4. Held' = {token'[h]} \ {None}
    BY <1>0, <1>1 DEF Held
  <1>5. Held' = IF Closed THEN {} ELSE {t}
    BY <1>0, <1>1, <1>3, <1>4, ConstantsAssumption
  <1>6. \A w \in Updates : update'[w].token = IF w = u THEN None ELSE update[w].token
    BY <1>0 DEF TypeOK, NoUpdate
  <1>7. [w \in Updates |-> update'[w].token]
          = [[w \in Updates |-> update[w].token] EXCEPT ![u] = None]
    BY <1>6
  <1>8. update[u].token = t /\ t # None
    BY <1>0, ConstantsAssumption DEF t
  <1> QED
    BY <1>0, <1>2, <1>5, <1>7, <1>8 DEF Target!Arrive

\* A notification is for the token held.
LEMMA SendRefines ==
    ASSUME IInv, NEW x \in Sends, NEW h \in Handles, StartSend(x, h)
    PROVE  \E t \in Tokens : Target!Notify(x, t)
  <1>0. /\ TypeOK /\ h \in bridgeRows /\ token[h] # None /\ send[x] = NoSend
        /\ send' = [send EXCEPT ![x] = [handle |-> h, token |-> token[h]]]
        /\ UNCHANGED <<rows, token, bridgeRows, update>>
    BY DEF IInv, StartSend, Dispatches, bridgeVars
  <1>1. PICK t \in Tokens : t = token[h]
    BY <1>0 DEF TypeOK
  <1>2. t \in Held /\ send[x].token = None
    BY <1>0, <1>1, ConstantsAssumption DEF Held, NoSend
  <1>3. UNCHANGED <<Closed, Held>>
    BY <1>0 DEF Closed, Held
  <1>4. \A y \in Sends : send'[y].token = IF y = x THEN t ELSE send[y].token
    BY <1>0, <1>1 DEF TypeOK
  <1>5. [y \in Sends |-> send'[y].token]
          = [[y \in Sends |-> send[y].token] EXCEPT ![x] = t]
    BY <1>4
  <1>6. Target!Notify(x, t)
    BY <1>0, <1>2, <1>3, <1>5 DEF Target!Notify
  <1> QED
    BY <1>6

\* A refusal takes away what is held by then.
LEMMA RefusedRefines ==
    ASSUME IInv, NEW x \in Sends, SendRefused(x)
    PROVE  Target!Refuse(x)
  <1> DEFINE h == send[x].handle
  <1>0. /\ TypeOK /\ send[x] # NoSend /\ h \in bridgeRows
        /\ token' = [token EXCEPT ![h] = IF h \in rows THEN None ELSE token[h]]
        /\ send' = [send EXCEPT ![x] = NoSend]
        /\ UNCHANGED <<rows, bridgeRows, update>>
    BY DEF SendRefused, UpdateApnsToken, bridgeVars, IInv, HandleInv
  <1> HIDE DEF h
  <1>1. h \in Handles /\ bridgeRows = {h} /\ (h \notin rows => token[h] = None)
    BY <1>0, OnlyRegistration DEF IInv, OneRegistration
  <1>2. Closed' = Closed
    BY <1>0 DEF Closed
  <1>3. token'[h] = None
    BY <1>0, <1>1 DEF TypeOK
  <1>4. Held' = {}
    BY <1>0, <1>1, <1>3 DEF Held
  <1>5. \A y \in Sends : send'[y].token = IF y = x THEN None ELSE send[y].token
    BY <1>0 DEF TypeOK, NoSend
  <1>6. [y \in Sends |-> send'[y].token]
          = [[y \in Sends |-> send[y].token] EXCEPT ![x] = None]
    BY <1>5
  <1>7. send[x].token # None
    BY <1>0, UnderWay
  <1> QED
    BY <1>0, <1>2, <1>4, <1>6, <1>7 DEF Target!Refuse

\* A deletion closes the target.
LEMMA DeleteRefines ==
    ASSUME IInv, NEW h \in Handles, DeleteRegistration(h)
    PROVE  Target!Close
  <1>0. /\ TypeOK /\ h \in bridgeRows /\ rows' = rows \ {h}
        /\ token' = [token EXCEPT ![h] = None]
        /\ UNCHANGED <<bridgeRows, update, send>>
    BY DEF IInv, DeleteRegistration, bridgeVars
  <1>1. bridgeRows = {h}
    BY <1>0, OnlyRegistration
  <1>2. token'[h] = None
    BY <1>0 DEF TypeOK
  <1>3. Closed' /\ Held' = {}
    BY <1>0, <1>1, <1>2 DEF Closed, Held
  <1>4. Closed' = TRUE
    BY <1>3 DEF Closed
  <1> QED
    BY <1>0, <1>3, <1>4 DEF Target!Close

\* Every step is a step of PushTarget or changes nothing that it sees.
LEMMA NextRefines ==
    IInv /\ TypeOK' /\ [Next]_vars => [Target!Next]_(Target!targetVars)
  <1> SUFFICES ASSUME IInv, TypeOK', [Next]_vars
               PROVE  Target!Next \/ UNCHANGED Target!targetVars
    OBVIOUS
  <1>0. TypeOK
    BY DEF IInv
  <1>1. CASE \/ \E t \in Tokens, old \in valid \cup {None} : GiveToken(t, old)
             \/ Reachable \/ Register \/ RegistrationFails \/ Boot \/ UNCHANGED vars
    <2>1. UNCHANGED <<rows, token, bridgeRows, update, send>>
      BY <1>1 DEF GiveToken, Reachable, Register, RegistrationFails, Boot, vars, bridgeVars
    <2> QED
      BY <2>1 DEF Target!targetVars, Closed, Held
  <1>2. ASSUME NEW t \in Tokens, PushRegister(t)
        PROVE  Target!Next \/ UNCHANGED Target!targetVars
    BY <1>2, PushRegisterRefines DEF Target!Next
  <1>3. CASE Unreachable
    <2>1. /\ UNCHANGED <<rows, token, bridgeRows>>
          /\ \A u \in Updates : update'[u] = NoUpdate
          /\ \A x \in Sends : send'[x] = NoSend
      BY <1>3 DEF Unreachable, bridgeVars
    <2>2. Target!Drop
      BY <2>1, DropRefines
    <2> QED
      BY <2>2 DEF Target!Next
  <1>4. CASE RegistrationAnswered
    BY <1>4, AnsweredRefines DEF Target!Next
  <1>5. ASSUME NEW h \in Handles, CreateRegistration(h)
        PROVE  UNCHANGED Target!targetVars
    <2>1. h \notin bridgeRows /\ rows' = rows \cup {h}
          /\ UNCHANGED <<token, bridgeRows, update, send>>
      BY <1>5 DEF CreateRegistration
    <2>2. Closed' = Closed /\ Held' = Held
      BY <2>1 DEF Closed, Held
    <2> QED
      BY <2>1, <2>2 DEF Target!targetVars
  <1>6. ASSUME NEW h \in Handles, DeleteRegistration(h) PROVE Target!Next
    BY <1>6, DeleteRefines DEF Target!Next
  <1>7. ASSUME NEW u \in Updates, AuthoriseUpdate(u) \/ LoseUpdate(u) PROVE Target!Next
    <2>1. /\ UNCHANGED <<rows, token, bridgeRows, send>>
          /\ \A w \in Updates : update'[w] \in {update[w], NoUpdate}
                                \/ update'[w].token = update[w].token
      BY <1>0, <1>7 DEF AuthoriseUpdate, LoseUpdate, bridgeVars, TypeOK
    <2>2. Target!Drop
      BY <2>1, DropRefines
    <2> QED
      BY <2>2 DEF Target!Next
  <1>8. ASSUME NEW u \in Updates, ApplyUpdate(u) PROVE Target!Next
    BY <1>8, ApplyRefines DEF Target!Next
  <1>9. ASSUME NEW x \in Sends, SendEnds(x) PROVE Target!Next
    <2>1. /\ UNCHANGED <<rows, token, bridgeRows, update>>
          /\ \A y \in Sends : send'[y] \in {send[y], NoSend}
      BY <1>0, <1>9 DEF SendEnds, bridgeVars, TypeOK
    <2>2. Target!Drop
      BY <2>1, DropRefines
    <2> QED
      BY <2>2 DEF Target!Next
  <1>10. ASSUME NEW x \in Sends, SendRefused(x) PROVE Target!Next
    BY <1>10, RefusedRefines DEF Target!Next
  <1>11. ASSUME NEW x \in Sends, NEW h \in Handles, StartSend(x, h) PROVE Target!Next
    BY <1>11, SendRefines DEF Target!Next
  <1> QED
    BY <1>1, <1>2, <1>3, <1>4, <1>5, <1>6, <1>7, <1>8, <1>9, <1>10, <1>11 DEF Next

\* Bridge and relay implement PushTarget, for any number of registrations,
\* tokens, updates, sends and boots: the registration is never replaced, a
\* token reaches it once or never, and none after its deletion (index.ts
\* 37-58 of the bridge, push-relay index.ts 63-112).
THEOREM Refinement == Spec => ImplementsTarget
  <1>1. Init => Target!Init
    BY DEF Init, Closed, Held, NoUpdate, NoSend, Target!Init
  <1>2. IInv /\ TypeOK' /\ [Next]_vars => [Target!Next]_(Target!targetVars)
    BY NextRefines
  <1> QED
    BY <1>1, <1>2, Invariance, TypeCorrect, PTL DEF Spec, ImplementsTarget, Target!Spec
==============================================================================
