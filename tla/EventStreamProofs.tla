-------------------------- MODULE EventStreamProofs --------------------------
(***************************************************************************)
(* Proofs about EventStream, for any set of clients and conversations, any *)
(* LIMIT of the replay and any bounds.                                     *)
(***************************************************************************)
EXTENDS EventStream, WellFoundedInduction, TLAPS

\* A non-empty set of naturals with an upper bound has a greatest element: the
\* one at the least distance from the bound.
LEMMA GreatestNat ==
    ASSUME NEW T, T \subseteq Nat, T # {},
           NEW n \in Nat, \A y \in T : y <= n
    PROVE  \E x \in T : \A y \in T : y <= x
  <1> DEFINE R == OpToRel(<, Nat)
             D == {m \in Nat : \E y \in T : y + m = n}
  <1>1. D \subseteq Nat /\ D # {}
    <2>1. PICK y \in T : TRUE
      OBVIOUS
    <2>2. n - y \in Nat /\ y + (n - y) = n
      BY <2>1
    <2> QED
      BY <2>1, <2>2
  <1>2. PICK d \in D : \A m \in D : ~(<<m, d>> \in R)
    <2>1. IsWellFoundedOn(R, Nat)
      BY NatLessThanWellFounded, Zenon
    <2> HIDE DEF R, D
    <2> QED
      BY <1>1, <2>1, WFMin, Zenon
  <1>3. \A m \in D : ~(m < d)
    <2>1. \A m \in D : <<m, d>> \in R <=> m < d
      BY DEF OpToRel
    <2> HIDE DEF R, D
    <2> QED
      BY <1>2, <2>1
  <1>4. PICK x \in T : x + d = n
    BY <1>2
  <1>5. ASSUME NEW y \in T PROVE y <= x
    <2>1. n - y \in D
      OBVIOUS
    <2>2. ~(n - y < d)
      BY <1>3, <2>1
    <2> QED
      BY <1>4, <2>2
  <1> QED
    BY <1>4, <1>5

\* A new row is beyond all rows there are, and no further than its uid.
LEMMA NextRowBeyond ==
    ASSUME NEW rows, rows \in SUBSET Event, NEW n \in Nat,
           \A e \in rows : e.rowid <= n
    PROVE  /\ NextRow(rows) \in Nat \ {0}
           /\ NextRow(rows) <= n + 1
           /\ \A e \in rows : e.rowid < NextRow(rows)
  <1> DEFINE R == {e.rowid : e \in rows}
             Greatest(r) == \A e \in rows : e.rowid <= r
  <1>1. CASE rows = {}
    BY <1>1 DEF NextRow
  <1>2. CASE rows # {}
    <2>1. R \subseteq Nat /\ R # {} /\ \A r \in R : r <= n
      BY <1>2 DEF Event
    <2>2. \E r \in R : \A y \in R : y <= r
      BY <2>1, GreatestNat
    <2>3. \E r \in R : Greatest(r)
      BY <2>2
    <2>4. (CHOOSE r \in R : Greatest(r)) \in R /\ Greatest(CHOOSE r \in R : Greatest(r))
      BY <2>3
    <2>5. NextRow(rows) = 1 + (CHOOSE r \in R : Greatest(r))
      BY <1>2 DEF NextRow
    <2> HIDE DEF Greatest
    <2>6. PICK r \in R : NextRow(rows) = 1 + r /\ Greatest(r)
      BY <2>4, <2>5
    <2>7. r \in Nat /\ r <= n /\ \A e \in rows : e.rowid \in Nat /\ e.rowid <= r
      BY <2>1, <2>6 DEF Event, Greatest
    <2> QED
      BY <2>6, <2>7
  <1> QED
    BY <1>1, <1>2

\* The elements of a sequence with one more at its end.
LEMMA ElemsAppend ==
    ASSUME NEW S, NEW q \in Seq(S), NEW e \in S
    PROVE  /\ Append(q, e) \in Seq(S)
           /\ Elems(Append(q, e)) = Elems(q) \cup {e}
  <1>1. Append(q, e) \in Seq(S)
    OBVIOUS
  <1>2. /\ DOMAIN q = 1..Len(q) /\ DOMAIN Append(q, e) = 1..(Len(q) + 1)
        /\ Len(q) \in Nat
        /\ \A k \in 1..Len(q) : Append(q, e)[k] = q[k]
        /\ Append(q, e)[Len(q) + 1] = e
    OBVIOUS
  <1>3. Elems(Append(q, e)) = {Append(q, e)[k] : k \in 1..(Len(q) + 1)}
    BY <1>2 DEF Elems
  <1>4. Elems(q) = {q[k] : k \in 1..Len(q)}
    BY <1>2 DEF Elems
  <1> QED
    BY <1>1, <1>2, <1>3, <1>4

\* The elements of a sequence are its head and those of its tail.
LEMMA ElemsTail ==
    ASSUME NEW S, NEW q \in Seq(S), q # <<>>
    PROVE  /\ Tail(q) \in Seq(S)
           /\ Head(q) = q[1] /\ 1 \in DOMAIN q
           /\ Head(q) \in S
           /\ Elems(q) = Elems(Tail(q)) \cup {Head(q)}
           /\ \A k \in DOMAIN Tail(q) : k + 1 \in DOMAIN q /\ Tail(q)[k] = q[k + 1]
  <1>1. /\ DOMAIN q = 1..Len(q) /\ DOMAIN Tail(q) = 1..(Len(q) - 1)
        /\ Len(q) \in Nat /\ Len(q) >= 1
        /\ \A k \in 1..(Len(q) - 1) : Tail(q)[k] = q[k + 1]
        /\ Head(q) = q[1] /\ Tail(q) \in Seq(S)
    OBVIOUS
  <1>2. Elems(q) = {q[k] : k \in 1..Len(q)}
    BY <1>1 DEF Elems
  <1>3. Elems(Tail(q)) = {q[k + 1] : k \in 1..(Len(q) - 1)}
    BY <1>1 DEF Elems
  <1>4. \A k \in 1..Len(q) : k = 1 \/ (k - 1 \in 1..(Len(q) - 1) /\ (k - 1) + 1 = k)
    BY <1>1
  <1>5. Elems(q) = Elems(Tail(q)) \cup {Head(q)}
    <2>1. ASSUME NEW x \in Elems(q) PROVE x \in Elems(Tail(q)) \cup {Head(q)}
      BY <1>1, <1>2, <1>3, <1>4
    <2>2. ASSUME NEW x \in Elems(Tail(q)) \cup {Head(q)} PROVE x \in Elems(q)
      BY <1>1, <1>2, <1>3
    <2> QED
      BY <2>1, <2>2
  <1> QED
    BY <1>1, <1>5

\* Nothing is on an empty wire.
LEMMA ElemsEmpty == Elems(<<>>) = {}
  BY DEF Elems

\* The initial state satisfies the inductive invariant.
LEMMA InitIInv == Init => IInv
  <1> SUFFICES ASSUME Init PROVE IInv
    OBVIOUS
  <1> USE DEF Init
  <1>0. \A c \in Clients : OnWire(c) = {} /\ DOMAIN wire[c] = {}
    BY ElemsEmpty DEF OnWire
  <1>1. TypeOK
    BY DEF TypeOK
  <1>2. RowsInv /\ RowOrder
    BY DEF RowsInv, RowOrder
  <1>3. StreamInv /\ InOrder /\ CursorInv
    BY <1>0 DEF StreamInv, InOrder, CursorInv
  <1>4. LiveHasNoGap /\ AccountInv
    BY <1>0 DEF LiveHasNoGap, AccountInv
  <1> QED
    BY <1>1, <1>2, <1>3, <1>4 DEF IInv

\* The record a publication adds is the newest and last row.
LEMMA NewRow ==
    ASSUME IInv, NEW rows \in SUBSET events, NEW kind \in Kinds,
           NEW v \in Convs \cup {None}
    PROVE  /\ NewEvent(rows, kind, v) \in Event
           /\ NewEvent(rows, kind, v).uid = published + 1
           /\ NewEvent(rows, kind, v).rowid <= published + 1
           /\ NewEvent(rows, kind, v).cursor = NewEvent(rows, kind, v).rowid
           /\ \A e \in rows : e.rowid < NewEvent(rows, kind, v).rowid
  <1>1. TypeOK /\ RowsInv
    BY DEF IInv
  <1>2. rows \in SUBSET Event /\ published \in Nat
    BY <1>1 DEF TypeOK
  <1>3. \A e \in rows : e.rowid <= published
    BY <1>1, <1>2 DEF RowsInv, Event
  <1>4. /\ NextRow(rows) \in Nat \ {0}
        /\ NextRow(rows) <= published + 1
        /\ \A e \in rows : e.rowid < NextRow(rows)
    BY <1>2, <1>3, NextRowBeyond
  <1>5. published + 1 \in Nat \ {0}
    BY <1>2
  <1> QED
    BY <1>4, <1>5 DEF NewEvent, Event

\* Rows that disappear, and a change of the conversations, keep the
\* invariant.
LEMMA ShrinkStep ==
    ASSUME IInv, NEW rows \in SUBSET events, events' = rows,
           convs' \in [Convs -> {"new", "live", "deleted"}],
           NothingDeleted' => NothingDeleted /\ rows = events,
           UNCHANGED <<handler, todo, wire, cursor, boots, published, last,
                       got, since, missed>>
    PROVE  IInv'
  <1>1. TypeOK'
    BY DEF IInv, TypeOK
  <1>2. RowsInv' /\ RowOrder'
    BY DEF IInv, RowsInv, RowOrder, Stamped
  <1>3. StreamInv' /\ InOrder' /\ CursorInv'
    BY DEF IInv, StreamInv, InOrder, CursorInv, OnWire, Elems, Stamped
  <1>4. LiveHasNoGap'
    BY DEF IInv, LiveHasNoGap, OnWire, Elems
  <1>5. AccountInv'
    BY DEF IInv, AccountInv, OnWire, Elems, Stamped
  <1> QED
    BY <1>1, <1>2, <1>3, <1>4, <1>5 DEF IInv

\* A publication keeps the invariant: its event is newer than all there is on
\* any stream, and its row is beyond all rows.
LEMMA PublishStep ==
    ASSUME IInv, NEW rows \in SUBSET events, NEW kind \in Kinds,
           NEW v \in Convs \cup {None}, Publish(rows, kind, v),
           convs' \in [Convs -> {"new", "live", "deleted"}],
           NothingDeleted' => NothingDeleted /\ rows = events,
           UNCHANGED <<handler, todo, cursor, boots, last, got, since>>
    PROVE  IInv'
  <1> DEFINE new == NewEvent(rows, kind, v)
  <1>0. TypeOK
    BY DEF IInv
  <1>1. /\ new \in Event /\ new.uid = published + 1 /\ new.rowid <= published + 1
        /\ new.cursor = new.rowid /\ \A e \in rows : e.rowid < new.rowid
    BY NewRow
  <1>2. /\ ~Torn(rows)
        /\ events' = rows \cup {new}
        /\ published' = published + 1
        /\ wire' = [c \in Clients |-> IF handler[c] = "live"
                                      THEN Append(wire[c], new) ELSE wire[c]]
        /\ missed' = [c \in Clients |->
                        IF handler[c] = "replaying"
                        THEN missed[c] \cup {new.uid} ELSE missed[c]]
    BY DEF Publish
  <1> HIDE DEF new
  <1>3. /\ published \in Nat /\ rows \in SUBSET Event
        /\ new.uid \in Nat \ {0} /\ new.rowid \in Nat \ {0} /\ Stamped(new)
        /\ \A e \in rows : e.uid <= published /\ e.uid \in Nat /\ e.rowid \in Nat
    BY <1>0, <1>1 DEF TypeOK, Event, IInv, RowsInv, Stamped
  <1>4. TypeOK'
    <2>1. \A c \in Clients : wire'[c] \in Seq(Event)
      BY <1>0, <1>1, <1>2 DEF TypeOK
    <2>2. wire' \in [Clients -> Seq(Event)] /\ missed' \in [Clients -> SUBSET Nat]
      BY <1>0, <1>2, <1>3, <2>1 DEF TypeOK
    <2> QED
      BY <1>0, <1>1, <1>2, <1>3, <2>2 DEF TypeOK
  <1>5. RowsInv'
    BY <1>1, <1>2, <1>3 DEF IInv, RowsInv, Torn, Stamped
  <1>6. RowOrder'
    BY <1>1, <1>2, <1>3 DEF IInv, RowOrder
  <1>7. \A c \in Clients : OnWire(c)' =
            IF handler[c] = "live" THEN OnWire(c) \cup {new} ELSE OnWire(c)
    <2> SUFFICES ASSUME NEW c \in Clients
                 PROVE  OnWire(c)' = IF handler[c] = "live"
                                     THEN OnWire(c) \cup {new} ELSE OnWire(c)
      OBVIOUS
    <2>1. wire[c] \in Seq(Event)
      BY <1>0 DEF TypeOK
    <2>2. wire'[c] = IF handler[c] = "live" THEN Append(wire[c], new) ELSE wire[c]
      BY <1>2
    <2>3. Elems(Append(wire[c], new)) = Elems(wire[c]) \cup {new}
      BY <1>1, <2>1, ElemsAppend
    <2> QED
      BY <2>2, <2>3 DEF OnWire
  <1>8. \A c \in Clients : /\ \A e \in todo[c] \cup OnWire(c) :
                                  e \in Event /\ e.uid <= published
                           /\ last[c] \in Nat /\ last[c] <= published
                           /\ cursor[c] \in Nat
    BY <1>0 DEF IInv, StreamInv, TypeOK, OnWire, Elems
  <1>9. StreamInv'
    <2> SUFFICES ASSUME NEW c \in Clients
                 PROVE  /\ handler'[c] = "none" => wire'[c] = <<>>
                        /\ handler'[c] # "replaying" => todo'[c] = {}
                        /\ last'[c] <= published'
                        /\ cursor'[c] = 0 => last'[c] = 0
                        /\ \A e \in todo'[c] \cup OnWire(c)' :
                                /\ e.uid <= published'
                                /\ Stamped(e) => e.cursor = e.rowid
                        /\ \A e, f \in todo'[c] :
                                /\ e.rowid < f.rowid <=> e.uid < f.uid
                                /\ e.uid = f.uid => e = f
                        /\ \A f \in todo'[c] : Stamped(f) =>
                                /\ last'[c] < f.uid
                                /\ \A e \in OnWire(c)' :
                                        Stamped(e) => e.uid < f.uid
      BY DEF StreamInv, Stamped
    <2>1. \A e \in todo'[c] \cup OnWire(c)' :
                e.uid <= published' /\ (Stamped(e) => e.cursor = e.rowid)
      BY <1>1, <1>2, <1>3, <1>7, <1>8 DEF IInv, StreamInv, Event
    <2>2. \A f \in todo'[c] : Stamped(f) =>
                last'[c] < f.uid /\ \A e \in OnWire(c)' : Stamped(e) => e.uid < f.uid
      BY <1>7 DEF IInv, StreamInv
    <2>3. last'[c] <= published' /\ (handler'[c] = "none" => wire'[c] = <<>>)
      BY <1>2, <1>3, <1>8 DEF IInv, StreamInv
    <2> QED
      BY <2>1, <2>2, <2>3 DEF IInv, StreamInv
  <1>10. InOrder'
    <2> SUFFICES ASSUME NEW c \in Clients, NEW k \in DOMAIN wire'[c],
                        wire'[c][k].cursor # 0
                 PROVE  /\ last'[c] < wire'[c][k].uid
                        /\ \A j \in 1..(k - 1) : wire'[c][j].cursor # 0 =>
                                wire'[c][j].uid < wire'[c][k].uid
      BY DEF InOrder
    <2>1. wire[c] \in Seq(Event)
      BY <1>0 DEF TypeOK
    <2>2. CASE handler[c] # "live" \/ k \in DOMAIN wire[c]
      <3>1. k \in DOMAIN wire[c] /\ wire'[c][k] = wire[c][k]
            /\ \A j \in 1..(k - 1) : wire'[c][j] = wire[c][j]
        BY <1>1, <1>2, <2>1, <2>2
      <3> QED
        BY <3>1 DEF IInv, InOrder
    <2>3. CASE handler[c] = "live" /\ k \notin DOMAIN wire[c]
      <3>1. wire'[c][k] = new /\ k = Len(wire[c]) + 1
            /\ \A j \in 1..(k - 1) : j \in DOMAIN wire[c] /\ wire'[c][j] = wire[c][j]
        BY <1>1, <1>2, <2>1, <2>3
      <3>2. \A j \in 1..(k - 1) : wire'[c][j] \in OnWire(c)
        BY <3>1 DEF OnWire, Elems
      <3>3. \A j \in 1..(k - 1) : wire'[c][j].uid <= published /\ wire'[c][j].uid \in Nat
        BY <1>8, <3>2 DEF Event
      <3> QED
        BY <1>1, <1>3, <1>8, <3>1, <3>3
    <2> QED
      BY <2>2, <2>3
  <1>11. CursorInv'
    <2> SUFFICES ASSUME NEW c \in Clients, NEW g \in events'
                 PROVE  /\ \A e \in todo[c] \cup OnWire(c)' :
                                Stamped(e) /\ e.rowid < g.rowid => e.uid < g.uid
                        /\ cursor[c] # 0 /\ cursor[c] < g.rowid => last[c] < g.uid
      BY DEF CursorInv, Stamped
    <2>1. CASE g = new
      BY <1>1, <1>3, <1>7, <1>8, <2>1 DEF Event
    <2>2. CASE g \in rows
      <3>1. ~(new.rowid < g.rowid)
        BY <1>1, <1>3, <2>2
      <3>2. \A e \in todo[c] \cup OnWire(c) :
                Stamped(e) /\ e.rowid < g.rowid => e.uid < g.uid
        BY <2>2 DEF IInv, CursorInv
      <3>3. cursor[c] # 0 /\ cursor[c] < g.rowid => last[c] < g.uid
        BY <2>2 DEF IInv, CursorInv
      <3> QED
        BY <1>7, <3>1, <3>2, <3>3
    <2> QED
      BY <1>2, <2>1, <2>2
  <1>12. LiveHasNoGap'
    <2> SUFFICES ASSUME NEW c \in Clients, handler[c] = "live",
                        NEW u \in (since[c] + 1)..(published + 1)
                 PROVE  u \in got[c] \/ \E e \in OnWire(c)' : e.uid = u
      BY <1>2 DEF LiveHasNoGap
    <2>1. CASE u = published + 1
      BY <1>1, <1>7, <2>1
    <2>2. CASE u # published + 1
      <3>1. u \in (since[c] + 1)..published
        BY <1>0, <2>2 DEF TypeOK
      <3> QED
        BY <1>7, <3>1 DEF IInv, LiveHasNoGap
    <2> QED
      BY <2>1, <2>2
  <1>13. AccountInv'
    <2> SUFFICES ASSUME NothingDeleted', NEW c \in Clients
                 PROVE  /\ todo[c] \cup OnWire(c)' \subseteq events'
                        /\ cursor[c] # 0 =>
                                \E e \in events' : e.rowid = cursor[c] /\ e.uid = last[c]
                        /\ \A e \in events' : Stamped(e) =>
                                /\ e.cursor <= cursor[c] =>
                                        e.uid \in got[c] \cup missed'[c]
                                /\ handler[c] # "none" =>
                                        \/ e.uid \in got[c] \cup missed'[c]
                                        \/ e \in todo[c] \cup OnWire(c)'
      BY DEF AccountInv, Stamped
    <2>1. NothingDeleted /\ rows = events
      OBVIOUS
    <2>2. todo[c] \cup OnWire(c)' \subseteq events'
      BY <1>2, <1>7, <2>1 DEF IInv, AccountInv
    <2>3. cursor[c] # 0 => \E e \in rows : e.rowid = cursor[c] /\ e.uid = last[c]
      BY <2>1 DEF IInv, AccountInv
    <2>4. ~(new.cursor <= cursor[c])
      BY <1>1, <1>3, <1>8, <2>3
    <2>5. missed[c] \subseteq missed'[c] /\ (handler[c] = "replaying" => new.uid \in missed'[c])
      BY <1>2
    <2>6. handler[c] # "none" => \/ new.uid \in missed'[c]
                                 \/ new \in OnWire(c)'
      BY <1>0, <1>7, <2>5 DEF TypeOK
    <2>7. OnWire(c) \subseteq OnWire(c)'
      BY <1>7
    <2>8. \A e \in rows : Stamped(e) =>
                /\ e.cursor <= cursor[c] => e.uid \in got[c] \cup missed[c]
                /\ handler[c] # "none" => \/ e.uid \in got[c] \cup missed[c]
                                          \/ e \in todo[c] \cup OnWire(c)
      BY <2>1 DEF IInv, AccountInv
    <2> QED
      BY <1>2, <2>2, <2>3, <2>4, <2>5, <2>6, <2>7, <2>8
  <1> QED
    BY <1>4, <1>5, <1>6, <1>9, <1>10, <1>11, <1>12, <1>13 DEF IInv

\* A crash keeps the invariant: the streams are gone, and an unfinished row is
\* the newest and the last.
LEMMA RestartStep ==
    ASSUME IInv, NEW rows \in SUBSET events, NEW kind \in Kinds,
           NEW v \in Convs \cup {None}, RecordInterrupted(rows, kind, v),
           Restart,
           convs' \in [Convs -> {"new", "live", "deleted"}],
           NothingDeleted' => NothingDeleted /\ rows = events
    PROVE  IInv'
  <1> DEFINE torn == [NewEvent(rows, kind, v) EXCEPT !.cursor = 0]
  <1>0. TypeOK
    BY DEF IInv
  <1>1. /\ torn \in Event /\ torn.uid = published + 1 /\ torn.rowid <= published + 1
        /\ torn.cursor = 0 /\ \A e \in rows : e.rowid < torn.rowid
    BY NewRow DEF Event
  <1>2. \/ events' = rows /\ published' = published
        \/ ~Torn(rows) /\ events' = rows \cup {torn} /\ published' = published + 1
    BY DEF RecordInterrupted
  <1> HIDE DEF torn
  <1>3. /\ handler' = [c \in Clients |-> "none"]
        /\ todo' = [c \in Clients |-> {}]
        /\ wire' = [c \in Clients |-> <<>>]
        /\ UNCHANGED <<cursor, last, got, since, missed>>
        /\ boots' \in Nat
    BY <1>0 DEF Restart, TypeOK
  <1>4. /\ published \in Nat /\ rows \in SUBSET Event
        /\ torn.uid \in Nat \ {0} /\ torn.rowid \in Nat \ {0}
        /\ \A e \in rows : e.uid <= published /\ e.uid \in Nat /\ e.rowid \in Nat
    BY <1>0, <1>1 DEF TypeOK, Event, IInv, RowsInv
  <1>5. \A c \in Clients : OnWire(c)' = {} /\ DOMAIN wire'[c] = {}
    BY <1>3, ElemsEmpty DEF OnWire
  <1>6. TypeOK'
    <2>1. wire' \in [Clients -> Seq(Event)]
      BY <1>3
    <2>2. events' \in SUBSET Event /\ published' \in Nat
      BY <1>1, <1>2, <1>4
    <2> QED
      BY <1>0, <1>3, <2>1, <2>2 DEF TypeOK
  <1>7. RowsInv'
    BY <1>1, <1>2, <1>4 DEF IInv, RowsInv, Torn, Stamped
  <1>8. RowOrder'
    BY <1>1, <1>2, <1>4 DEF IInv, RowOrder
  <1>9. StreamInv'
    <2>1. \A c \in Clients : last[c] \in Nat /\ last[c] <= published
      BY <1>0 DEF IInv, StreamInv, TypeOK
    <2>2. \A c \in Clients : last'[c] <= published'
      BY <1>2, <1>3, <1>4, <2>1
    <2>3. \A c \in Clients : cursor'[c] = 0 => last'[c] = 0
      BY <1>3 DEF IInv, StreamInv
    <2> QED
      BY <1>3, <1>5, <2>2, <2>3 DEF StreamInv
  <1>10. InOrder' /\ LiveHasNoGap'
    BY <1>3, <1>5 DEF InOrder, LiveHasNoGap
  <1>11. CursorInv'
    <2> SUFFICES ASSUME NEW c \in Clients, NEW g \in events',
                        cursor[c] # 0, cursor[c] < g.rowid
                 PROVE  last[c] < g.uid
      BY <1>3, <1>5 DEF CursorInv
    <2>1. CASE g \in rows
      BY <2>1 DEF IInv, CursorInv
    <2>2. CASE g = torn
      BY <1>0, <1>1, <1>4, <2>2 DEF IInv, StreamInv, TypeOK
    <2> QED
      BY <1>2, <2>1, <2>2
  <1>12. AccountInv'
    <2> SUFFICES ASSUME NothingDeleted', NEW c \in Clients
                 PROVE  /\ cursor[c] # 0 =>
                                \E e \in events' : e.rowid = cursor[c] /\ e.uid = last[c]
                        /\ \A e \in events' : Stamped(e) =>
                                (e.cursor <= cursor[c] =>
                                        e.uid \in got[c] \cup missed[c])
      BY <1>3, <1>5 DEF AccountInv, Stamped
    <2>1. rows = events /\ NothingDeleted
      OBVIOUS
    <2>2. ~Stamped(torn)
      BY <1>1 DEF Stamped
    <2> QED
      BY <1>2, <2>1, <2>2 DEF IInv, AccountInv
  <1> QED
    BY <1>6, <1>7, <1>8, <1>9, <1>10, <1>11, <1>12 DEF IInv

\* A connection that ends keeps the invariant, whether the client keeps its
\* cursor or starts anew.
LEMMA EndStep ==
    ASSUME IInv, NEW c \in Clients, Disconnect(c) \/ Relaunch(c)
    PROVE  IInv'
  <1>0. TypeOK
    BY DEF IInv
  <1>1. /\ handler' = [handler EXCEPT ![c] = "none"]
        /\ todo' = [todo EXCEPT ![c] = {}]
        /\ wire' = [wire EXCEPT ![c] = <<>>]
        /\ UNCHANGED <<events, convs, boots, published, since>>
        /\ \/ UNCHANGED <<cursor, last, got, missed>>
           \/ /\ cursor' = [cursor EXCEPT ![c] = 0]
              /\ last' = [last EXCEPT ![c] = 0]
              /\ got' = [got EXCEPT ![c] = {}]
              /\ missed' = [missed EXCEPT ![c] = {}]
    BY DEF Disconnect, Relaunch
  <1>2. TypeOK'
    <2>1. wire' \in [Clients -> Seq(Event)]
      BY <1>0, <1>1 DEF TypeOK
    <2>2. /\ cursor' \in [Clients -> Nat] /\ last' \in [Clients -> Nat]
          /\ got' \in [Clients -> SUBSET Nat] /\ missed' \in [Clients -> SUBSET Nat]
      <3>1. CASE UNCHANGED <<cursor, last, got, missed>>
        BY <1>0, <3>1 DEF TypeOK
      <3>2. CASE /\ cursor' = [cursor EXCEPT ![c] = 0]
                 /\ last' = [last EXCEPT ![c] = 0]
                 /\ got' = [got EXCEPT ![c] = {}]
                 /\ missed' = [missed EXCEPT ![c] = {}]
        <4>1. {} \in SUBSET Nat /\ 0 \in Nat
          OBVIOUS
        <4> QED
          BY <1>0, <3>2, <4>1 DEF TypeOK
      <3> QED
        BY <1>1, <3>1, <3>2
    <2> QED
      BY <1>0, <1>1, <2>1, <2>2 DEF TypeOK
  <1>3. RowsInv' /\ RowOrder'
    BY <1>1 DEF IInv, RowsInv, RowOrder
  <1>4. \A d \in Clients \ {c} :
            /\ handler'[d] = handler[d] /\ todo'[d] = todo[d] /\ wire'[d] = wire[d]
            /\ OnWire(d)' = OnWire(d)
            /\ cursor'[d] = cursor[d] /\ last'[d] = last[d]
            /\ got'[d] = got[d] /\ missed'[d] = missed[d]
    BY <1>0, <1>1 DEF TypeOK, OnWire
  <1>5. /\ handler'[c] = "none" /\ todo'[c] = {} /\ wire'[c] = <<>>
        /\ OnWire(c)' = {} /\ DOMAIN wire'[c] = {}
    BY <1>0, <1>1, ElemsEmpty DEF TypeOK, OnWire
  <1>6. \/ cursor'[c] = cursor[c] /\ last'[c] = last[c]
           /\ got'[c] = got[c] /\ missed'[c] = missed[c]
        \/ cursor'[c] = 0 /\ last'[c] = 0
    BY <1>0, <1>1 DEF TypeOK
  <1>7. published \in Nat /\ published' = published /\ events' = events
    BY <1>0, <1>1 DEF TypeOK
  <1>8. StreamInv'
    BY <1>4, <1>5, <1>6, <1>7 DEF IInv, StreamInv, Stamped
  <1>9. InOrder' /\ LiveHasNoGap'
    BY <1>1, <1>4, <1>5 DEF IInv, InOrder, LiveHasNoGap
  <1>10. CursorInv'
    BY <1>4, <1>5, <1>6, <1>7 DEF IInv, CursorInv, Stamped
  <1>11. AccountInv'
    <2> SUFFICES ASSUME NothingDeleted', NEW d \in Clients
                 PROVE  /\ todo'[d] \cup OnWire(d)' \subseteq events
                        /\ cursor'[d] # 0 =>
                                \E e \in events : e.rowid = cursor'[d] /\ e.uid = last'[d]
                        /\ \A e \in events : Stamped(e) =>
                                /\ e.cursor <= cursor'[d] =>
                                        e.uid \in got'[d] \cup missed'[d]
                                /\ handler'[d] # "none" =>
                                        \/ e.uid \in got'[d] \cup missed'[d]
                                        \/ e \in todo'[d] \cup OnWire(d)'
      BY <1>7 DEF AccountInv, Stamped
    <2>1. NothingDeleted
      BY <1>1 DEF NothingDeleted
    <2>2. CASE d # c
      BY <1>4, <2>1, <2>2 DEF IInv, AccountInv
    <2>3. CASE d = c
      <3>1. \A e \in events : Stamped(e) => ~(e.cursor <= 0)
        BY <1>0 DEF TypeOK, Event, Stamped
      <3> QED
        BY <1>5, <1>6, <2>1, <2>3, <3>1 DEF IInv, AccountInv
    <2> QED
      BY <2>2, <2>3
  <1> QED
    BY <1>2, <1>3, <1>8, <1>9, <1>10, <1>11 DEF IInv

\* A new stream keeps the invariant: the rows it is going to replay are newer
\* than the event its cursor came from.
LEMMA ConnectStep ==
    ASSUME IInv, NEW c \in Clients, Connect(c)
    PROVE  IInv'
  <1> DEFINE L == ListEventsAfter(c)
  <1>0. TypeOK
    BY DEF IInv
  <1>1. /\ handler[c] = "none"
        /\ todo' = [todo EXCEPT ![c] = L]
        /\ handler' = [handler EXCEPT ![c] = IF L = {} THEN "live" ELSE "replaying"]
        /\ since' = [since EXCEPT ![c] = published]
        /\ missed' = [missed EXCEPT ![c] = @ \cup {e.uid : e \in Beyond(c) \ L}]
        /\ UNCHANGED <<events, convs, wire, cursor, boots, published, last, got>>
    BY DEF Connect
  <1>2. /\ L \subseteq Beyond(c) /\ Beyond(c) \subseteq events
        /\ \A e \in events : e \in Beyond(c) <=> cursor[c] = 0 \/ e.cursor > cursor[c]
    BY DEF ListEventsAfter, Beyond
  <1> HIDE DEF L
  <1>3. OnWire(c) = {} /\ DOMAIN wire[c] = {} /\ \A d \in Clients : OnWire(d)' = OnWire(d)
    BY <1>1, ElemsEmpty DEF IInv, StreamInv, OnWire
  <1>4. TypeOK'
    <2>1. {e.uid : e \in Beyond(c) \ L} \subseteq Nat /\ L \in SUBSET Event
      BY <1>0, <1>2 DEF TypeOK, Event
    <2> QED
      BY <1>0, <1>1, <2>1 DEF TypeOK
  <1>5. RowsInv' /\ RowOrder' /\ InOrder'
    BY <1>1 DEF IInv, RowsInv, RowOrder, InOrder
  <1>6. \A d \in Clients \ {c} :
            /\ handler'[d] = handler[d] /\ todo'[d] = todo[d]
            /\ since'[d] = since[d] /\ missed'[d] = missed[d]
    BY <1>0, <1>1 DEF TypeOK
  <1>7. /\ todo'[c] = L /\ since'[c] = published
        /\ handler'[c] = IF L = {} THEN "live" ELSE "replaying"
        /\ missed'[c] = missed[c] \cup {e.uid : e \in Beyond(c) \ L}
    BY <1>0, <1>1 DEF TypeOK
  <1>8. \A e \in events : /\ e.uid \in Nat \ {0} /\ e.cursor \in Nat
                          /\ e.uid <= published
                          /\ Stamped(e) => e.cursor = e.rowid
    BY <1>0 DEF TypeOK, Event, IInv, RowsInv
  <1>9. \A f \in L : Stamped(f) => last[c] < f.uid
    <2> SUFFICES ASSUME NEW f \in L, Stamped(f) PROVE last[c] < f.uid
      OBVIOUS
    <2>0. f \in events
      BY <1>2
    <2>1. CASE cursor[c] = 0
      <3>1. last[c] = 0
        BY <2>1 DEF IInv, StreamInv
      <3> QED
        BY <1>8, <2>0, <3>1
    <2>2. CASE cursor[c] # 0
      <3>1. cursor[c] \in Nat /\ f.cursor \in Nat /\ f.cursor = f.rowid
        BY <1>0, <1>8, <2>0 DEF TypeOK
      <3>2. f.cursor > cursor[c]
        BY <1>2, <2>0, <2>2
      <3>3. cursor[c] < f.rowid
        BY <3>1, <3>2
      <3> QED
        BY <2>0, <2>2, <3>3 DEF IInv, CursorInv
    <2> QED
      BY <2>1, <2>2
  <1>10. StreamInv'
    <2> SUFFICES ASSUME NEW d \in Clients
                 PROVE  /\ handler'[d] = "none" => wire[d] = <<>>
                        /\ handler'[d] # "replaying" => todo'[d] = {}
                        /\ last[d] <= published
                        /\ cursor[d] = 0 => last[d] = 0
                        /\ \A e \in todo'[d] \cup OnWire(d) :
                                /\ e.uid <= published
                                /\ Stamped(e) => e.cursor = e.rowid
                        /\ \A e, f \in todo'[d] :
                                /\ e.rowid < f.rowid <=> e.uid < f.uid
                                /\ e.uid = f.uid => e = f
                        /\ \A f \in todo'[d] : Stamped(f) =>
                                /\ last[d] < f.uid
                                /\ \A e \in OnWire(d) :
                                        Stamped(e) => e.uid < f.uid
      BY <1>1, <1>3 DEF StreamInv, Stamped
    <2>1. CASE d # c
      BY <1>6, <2>1 DEF IInv, StreamInv
    <2>2. CASE d = c
      BY <1>1, <1>2, <1>3, <1>7, <1>8, <1>9, <2>2
         DEF IInv, StreamInv, RowsInv, RowOrder
    <2> QED
      BY <2>1, <2>2
  <1>11. CursorInv'
    BY <1>1, <1>2, <1>3, <1>6, <1>7 DEF IInv, CursorInv, RowOrder, Stamped
  <1>12. LiveHasNoGap'
    <2> SUFFICES ASSUME NEW d \in Clients, handler'[d] = "live",
                        NEW u \in (since'[d] + 1)..published
                 PROVE  u \in got[d] \/ \E e \in OnWire(d) : e.uid = u
      BY <1>1, <1>3 DEF LiveHasNoGap
    <2>1. d # c
      BY <1>0, <1>7 DEF TypeOK
    <2> QED
      BY <1>6, <2>1 DEF IInv, LiveHasNoGap
  <1>13. AccountInv'
    <2> SUFFICES ASSUME NothingDeleted', NEW d \in Clients
                 PROVE  /\ todo'[d] \cup OnWire(d) \subseteq events
                        /\ cursor[d] # 0 =>
                                \E e \in events : e.rowid = cursor[d] /\ e.uid = last[d]
                        /\ \A e \in events : Stamped(e) =>
                                /\ e.cursor <= cursor[d] =>
                                        e.uid \in got[d] \cup missed'[d]
                                /\ handler'[d] # "none" =>
                                        \/ e.uid \in got[d] \cup missed'[d]
                                        \/ e \in todo'[d] \cup OnWire(d)
      BY <1>1, <1>3 DEF AccountInv, Stamped
    <2>1. NothingDeleted
      BY <1>1 DEF NothingDeleted
    <2>2. CASE d # c
      BY <1>6, <2>1, <2>2 DEF IInv, AccountInv
    <2>3. CASE d = c
      <3>1. \A e \in events : Stamped(e) =>
                \/ e \in Beyond(c)
                \/ e.cursor <= cursor[c]
        <4>1. cursor[c] \in Nat
          BY <1>0 DEF TypeOK
        <4> QED
          BY <1>2, <1>8, <4>1
      <3>2. \A e \in Beyond(c) : e \in L \/ e.uid \in missed'[c]
        BY <1>7
      <3>3. \A e \in events : Stamped(e) /\ e.cursor <= cursor[c] =>
                e.uid \in got[c] \cup missed[c]
        BY <2>1 DEF IInv, AccountInv
      <3> QED
        BY <1>2, <1>3, <1>7, <2>1, <2>3, <3>1, <3>2, <3>3 DEF IInv, AccountInv
    <2> QED
      BY <2>2, <2>3
  <1> QED
    BY <1>4, <1>5, <1>10, <1>11, <1>12, <1>13 DEF IInv

\* Writing a row of the replay keeps the invariant: it is the oldest of those
\* that are left.
LEMMA WriteReplayStep ==
    ASSUME IInv, NEW c \in Clients, WriteReplay(c)
    PROVE  IInv'
  <1>0. TypeOK
    BY DEF IInv
  <1>1. PICK e \in todo[c] :
            /\ \A f \in todo[c] : e.cursor <= f.cursor
            /\ todo' = [todo EXCEPT ![c] = @ \ {e}]
            /\ wire' = [wire EXCEPT ![c] = Append(@, e)]
            /\ UNCHANGED <<events, convs, handler, cursor, boots, published, last,
                           got, since, missed>>
    BY DEF WriteReplay
  <1>2. /\ wire[c] \in Seq(Event) /\ todo[c] \subseteq Event /\ e \in Event
        /\ last[c] \in Nat /\ cursor[c] \in Nat
    BY <1>0 DEF TypeOK
  <1>3. /\ todo'[c] = todo[c] \ {e} /\ wire'[c] = Append(wire[c], e)
        /\ \A d \in Clients \ {c} : todo'[d] = todo[d] /\ wire'[d] = wire[d]
    BY <1>0, <1>1 DEF TypeOK
  <1>4. /\ Append(wire[c], e) \in Seq(Event)
        /\ Elems(Append(wire[c], e)) = Elems(wire[c]) \cup {e}
    BY <1>2, ElemsAppend
  <1>5. /\ OnWire(c)' = OnWire(c) \cup {e}
        /\ \A d \in Clients \ {c} : OnWire(d)' = OnWire(d)
    BY <1>3, <1>4 DEF OnWire
  <1>6. \A d \in Clients : todo'[d] \cup OnWire(d)' = todo[d] \cup OnWire(d)
    BY <1>3, <1>5
  <1>7. Stamped(e) => \A f \in todo'[c] : Stamped(f) /\ e.uid < f.uid
    <2> SUFFICES ASSUME Stamped(e), NEW f \in todo[c], f # e
                 PROVE  Stamped(f) /\ e.uid < f.uid
      BY <1>3
    <2>1. /\ e.cursor \in Nat /\ f.cursor \in Nat /\ e.cursor # 0 /\ e.cursor <= f.cursor
          /\ e.rowid \in Nat /\ f.rowid \in Nat /\ e.uid \in Nat /\ f.uid \in Nat
      BY <1>1, <1>2 DEF Stamped, Event
    <2>2. f.cursor # 0
      BY <2>1
    <2>3. e.cursor = e.rowid /\ f.cursor = f.rowid
      BY <2>2 DEF IInv, StreamInv, Stamped
    <2>4. e.uid # f.uid /\ (f.rowid < e.rowid <=> f.uid < e.uid)
      BY DEF IInv, StreamInv
    <2> QED
      BY <2>1, <2>2, <2>3, <2>4 DEF Stamped
  <1>8. TypeOK'
    <2>1. wire' \in [Clients -> Seq(Event)] /\ todo' \in [Clients -> SUBSET Event]
      BY <1>0, <1>1, <1>2, <1>4 DEF TypeOK
    <2> QED
      BY <1>0, <1>1, <2>1 DEF TypeOK
  <1>9. RowsInv' /\ RowOrder'
    BY <1>1 DEF IInv, RowsInv, RowOrder
  <1>10. handler[c] = "replaying"
    BY DEF IInv, StreamInv
  <1>11. StreamInv'
    <2> SUFFICES ASSUME NEW d \in Clients
                 PROVE  /\ handler[d] = "none" => wire'[d] = <<>>
                        /\ handler[d] # "replaying" => todo'[d] = {}
                        /\ last[d] <= published
                        /\ cursor[d] = 0 => last[d] = 0
                        /\ \A g \in todo'[d] \cup OnWire(d)' :
                                /\ g.uid <= published
                                /\ Stamped(g) => g.cursor = g.rowid
                        /\ \A g, f \in todo'[d] :
                                /\ g.rowid < f.rowid <=> g.uid < f.uid
                                /\ g.uid = f.uid => g = f
                        /\ \A f \in todo'[d] : Stamped(f) =>
                                /\ last[d] < f.uid
                                /\ \A g \in OnWire(d)' :
                                        Stamped(g) => g.uid < f.uid
      BY <1>1 DEF StreamInv, Stamped
    <2>1. CASE d # c
      BY <1>3, <1>5, <2>1 DEF IInv, StreamInv
    <2>2. CASE d = c
      BY <1>3, <1>5, <1>6, <1>7, <1>10, <2>2 DEF IInv, StreamInv
    <2> QED
      BY <2>1, <2>2
  <1>12. InOrder'
    <2> SUFFICES ASSUME NEW d \in Clients, NEW k \in DOMAIN wire'[d],
                        wire'[d][k].cursor # 0
                 PROVE  /\ last[d] < wire'[d][k].uid
                        /\ \A j \in 1..(k - 1) : wire'[d][j].cursor # 0 =>
                                wire'[d][j].uid < wire'[d][k].uid
      BY <1>1 DEF InOrder
    <2>1. CASE d # c
      BY <1>3, <2>1 DEF IInv, InOrder
    <2>2. CASE d = c /\ k \in DOMAIN wire[c]
      <3>1. wire'[c][k] = wire[c][k] /\ \A j \in 1..(k - 1) : wire'[c][j] = wire[c][j]
        BY <1>2, <1>3, <2>2
      <3> QED
        BY <2>2, <3>1 DEF IInv, InOrder
    <2>3. CASE d = c /\ k \notin DOMAIN wire[c]
      <3>1. /\ wire'[c][k] = e
            /\ \A j \in 1..(k - 1) : j \in DOMAIN wire[c] /\ wire'[c][j] = wire[c][j]
        BY <1>2, <1>3, <2>3
      <3>2. \A j \in 1..(k - 1) : wire'[c][j] \in OnWire(c)
        BY <3>1 DEF OnWire, Elems
      <3>3. Stamped(e)
        BY <2>3, <3>1 DEF Stamped
      <3> QED
        BY <2>3, <3>1, <3>2, <3>3 DEF IInv, StreamInv, Stamped
    <2> QED
      BY <2>1, <2>2, <2>3
  <1>13. CursorInv'
    BY <1>1, <1>6 DEF IInv, CursorInv, Stamped
  <1>14. LiveHasNoGap'
    BY <1>1, <1>5 DEF IInv, LiveHasNoGap
  <1>15. AccountInv'
    BY <1>1, <1>6 DEF IInv, AccountInv, Stamped, NothingDeleted
  <1> QED
    BY <1>8, <1>9, <1>11, <1>12, <1>13, <1>14, <1>15 DEF IInv

\* Subscribing keeps the invariant: nothing was published since.
LEMMA SubscribeStep ==
    ASSUME IInv, NEW c \in Clients, Subscribe(c)
    PROVE  IInv'
  <1>0. TypeOK
    BY DEF IInv
  <1>1. /\ todo[c] = {}
        /\ handler[c] = "replaying"
        /\ handler' = [handler EXCEPT ![c] = "live"]
        /\ since' = [since EXCEPT ![c] = published]
        /\ UNCHANGED <<events, convs, todo, wire, cursor, boots, published, last,
                       got, missed>>
    BY DEF Subscribe
  <1>2. /\ handler'[c] = "live" /\ since'[c] = published
        /\ \A d \in Clients \ {c} : handler'[d] = handler[d] /\ since'[d] = since[d]
    BY <1>0, <1>1 DEF TypeOK
  <1>3. \A d \in Clients : OnWire(d)' = OnWire(d)
    BY <1>1 DEF OnWire
  <1>4. TypeOK'
    BY <1>0, <1>1 DEF TypeOK
  <1>5. RowsInv' /\ RowOrder' /\ InOrder'
    BY <1>1 DEF IInv, RowsInv, RowOrder, InOrder
  <1>6. StreamInv'
    BY <1>1, <1>2, <1>3 DEF IInv, StreamInv, Stamped
  <1>7. CursorInv'
    BY <1>1, <1>3 DEF IInv, CursorInv, Stamped
  <1>8. LiveHasNoGap'
    <2> SUFFICES ASSUME NEW d \in Clients, handler'[d] = "live",
                        NEW u \in (since'[d] + 1)..published
                 PROVE  u \in got[d] \/ \E e \in OnWire(d) : e.uid = u
      BY <1>1, <1>3 DEF LiveHasNoGap
    <2>1. d # c
      BY <1>0, <1>2 DEF TypeOK
    <2> QED
      BY <1>2, <2>1 DEF IInv, LiveHasNoGap
  <1>9. AccountInv'
    BY <1>1, <1>2, <1>3 DEF IInv, AccountInv, Stamped, NothingDeleted
  <1> QED
    BY <1>4, <1>5, <1>6, <1>7, <1>8, <1>9 DEF IInv

\* Receiving keeps the invariant: what is received is the oldest event on the
\* stream, and the last row that was not accounted for up to its cursor.
LEMMA ReceiveStep ==
    ASSUME IInv, NEW c \in Clients, Receive(c)
    PROVE  IInv'
  <1> DEFINE h == Head(wire[c])
  <1>0. TypeOK
    BY DEF IInv
  <1>1. /\ wire[c] # <<>>
        /\ wire' = [wire EXCEPT ![c] = Tail(@)]
        /\ got' = [got EXCEPT ![c] = @ \cup {h.uid}]
        /\ \/ ~Stamped(h) /\ UNCHANGED <<cursor, last>>
           \/ /\ Stamped(h)
              /\ cursor' = [cursor EXCEPT ![c] = h.cursor]
              /\ last' = [last EXCEPT ![c] = h.uid]
        /\ UNCHANGED <<events, convs, handler, todo, boots, published, since, missed>>
    BY DEF Receive, Stamped
  <1>2. /\ wire[c] \in Seq(Event) /\ todo[c] \subseteq Event
        /\ last[c] \in Nat /\ cursor[c] \in Nat /\ got[c] \subseteq Nat
    BY <1>0 DEF TypeOK
  <1>3. /\ Tail(wire[c]) \in Seq(Event) /\ h = wire[c][1] /\ 1 \in DOMAIN wire[c]
        /\ h \in Event /\ Elems(wire[c]) = Elems(Tail(wire[c])) \cup {h}
        /\ \A k \in DOMAIN Tail(wire[c]) :
                k + 1 \in DOMAIN wire[c] /\ Tail(wire[c])[k] = wire[c][k + 1]
    BY <1>1, <1>2, ElemsTail
  <1> HIDE DEF h
  <1>4. /\ wire'[c] = Tail(wire[c]) /\ got'[c] = got[c] \cup {h.uid}
        /\ \A d \in Clients \ {c} :
                /\ wire'[d] = wire[d] /\ got'[d] = got[d]
                /\ cursor'[d] = cursor[d] /\ last'[d] = last[d]
        /\ ~Stamped(h) => cursor'[c] = cursor[c] /\ last'[c] = last[c]
        /\ Stamped(h) => cursor'[c] = h.cursor /\ last'[c] = h.uid
    BY <1>0, <1>1 DEF TypeOK
  <1>5. /\ OnWire(c) = OnWire(c)' \cup {h}
        /\ \A d \in Clients \ {c} : OnWire(d)' = OnWire(d)
    BY <1>3, <1>4 DEF OnWire
  <1>6. handler[c] # "none"
    BY <1>1 DEF IInv, StreamInv
  <1>7. /\ h.uid \in Nat /\ h.uid <= published /\ h.cursor \in Nat /\ h.rowid \in Nat
        /\ Stamped(h) => h.cursor = h.rowid
    BY <1>3, <1>5 DEF IInv, StreamInv, Event
  <1>8. TypeOK'
    <2>1. wire' \in [Clients -> Seq(Event)] /\ got' \in [Clients -> SUBSET Nat]
      BY <1>0, <1>1, <1>3, <1>7 DEF TypeOK
    <2>2. cursor' \in [Clients -> Nat] /\ last' \in [Clients -> Nat]
      BY <1>0, <1>1, <1>7 DEF TypeOK
    <2> QED
      BY <1>0, <1>1, <2>1, <2>2 DEF TypeOK
  <1>9. RowsInv' /\ RowOrder'
    BY <1>1 DEF IInv, RowsInv, RowOrder
  <1>10. Stamped(h) => \A f \in todo[c] \cup OnWire(c) :
                Stamped(f) => f = h \/ h.uid < f.uid
    <2> SUFFICES ASSUME Stamped(h), NEW f \in todo[c] \cup OnWire(c), Stamped(f)
                 PROVE  f = h \/ h.uid < f.uid
      OBVIOUS
    <2>1. CASE f \in todo[c]
      BY <1>5, <2>1 DEF IInv, StreamInv
    <2>2. CASE f \in OnWire(c)
      <3>1. PICK k \in DOMAIN wire[c] : f = wire[c][k]
        BY <2>2 DEF OnWire, Elems
      <3>2. k \in Nat /\ (k = 1 \/ 1 \in 1..(k - 1))
        BY <1>2
      <3> QED
        BY <1>3, <3>1, <3>2 DEF IInv, InOrder, Stamped
    <2> QED
      BY <2>1, <2>2
  <1>11. StreamInv'
    <2> SUFFICES ASSUME NEW d \in Clients
                 PROVE  /\ handler[d] = "none" => wire'[d] = <<>>
                        /\ handler[d] # "replaying" => todo[d] = {}
                        /\ last'[d] <= published
                        /\ cursor'[d] = 0 => last'[d] = 0
                        /\ \A g \in todo[d] \cup OnWire(d)' :
                                /\ g.uid <= published
                                /\ Stamped(g) => g.cursor = g.rowid
                        /\ \A g, f \in todo[d] :
                                /\ g.rowid < f.rowid <=> g.uid < f.uid
                                /\ g.uid = f.uid => g = f
                        /\ \A f \in todo[d] : Stamped(f) =>
                                /\ last'[d] < f.uid
                                /\ \A g \in OnWire(d)' :
                                        Stamped(g) => g.uid < f.uid
      BY <1>1 DEF StreamInv, Stamped
    <2>1. CASE d # c
      BY <1>4, <1>5, <2>1 DEF IInv, StreamInv
    <2>2. CASE d = c
      <3>1. last'[c] <= published /\ (cursor'[c] = 0 => last'[c] = 0)
        BY <1>4, <1>7 DEF IInv, StreamInv, Stamped
      <3>2. \A f \in todo[c] : Stamped(f) => last'[c] < f.uid
        BY <1>4, <1>5 DEF IInv, StreamInv
      <3> QED
        BY <1>5, <1>6, <2>2, <3>1, <3>2 DEF IInv, StreamInv
    <2> QED
      BY <2>1, <2>2
  <1>12. InOrder'
    <2> SUFFICES ASSUME NEW d \in Clients, NEW k \in DOMAIN wire'[d],
                        wire'[d][k].cursor # 0
                 PROVE  /\ last'[d] < wire'[d][k].uid
                        /\ \A j \in 1..(k - 1) : wire'[d][j].cursor # 0 =>
                                wire'[d][j].uid < wire'[d][k].uid
      BY DEF InOrder
    <2>1. CASE d # c
      BY <1>4, <2>1 DEF IInv, InOrder
    <2>2. CASE d = c
      <3>1. /\ k \in Nat /\ 1 \in 1..((k + 1) - 1)
            /\ k \in DOMAIN Tail(wire[c])
            /\ \A j \in 1..(k - 1) : /\ j \in DOMAIN Tail(wire[c])
                                     /\ j + 1 \in 1..((k + 1) - 1)
        <4>1. k \in DOMAIN Tail(wire[c])
          BY <1>4, <2>2
        <4>2. DOMAIN Tail(wire[c]) = 1..Len(Tail(wire[c])) /\ Len(Tail(wire[c])) \in Nat
          BY <1>3
        <4> QED
          BY <4>1, <4>2
      <3>2. /\ k + 1 \in DOMAIN wire[c] /\ wire'[c][k] = wire[c][k + 1]
            /\ \A j \in 1..(k - 1) : wire'[c][j] = wire[c][j + 1]
        BY <1>3, <1>4, <3>1
      <3>3. last'[c] < wire[c][k + 1].uid
        BY <1>3, <1>4, <2>2, <3>1, <3>2 DEF IInv, InOrder, Stamped
      <3>4. \A j \in 1..((k + 1) - 1) : wire[c][j].cursor # 0 =>
                wire[c][j].uid < wire[c][k + 1].uid
        BY <2>2, <3>2 DEF IInv, InOrder
      <3> QED
        BY <2>2, <3>1, <3>2, <3>3, <3>4
    <2> QED
      BY <2>1, <2>2
  <1>13. CursorInv'
    <2> SUFFICES ASSUME NEW d \in Clients, NEW g \in events
                 PROVE  /\ \A e \in todo[d] \cup OnWire(d)' :
                                Stamped(e) /\ e.rowid < g.rowid => e.uid < g.uid
                        /\ cursor'[d] # 0 /\ cursor'[d] < g.rowid => last'[d] < g.uid
      BY <1>1 DEF CursorInv, Stamped
    <2>1. CASE d # c
      BY <1>4, <1>5, <2>1 DEF IInv, CursorInv
    <2>2. CASE d = c
      <3>1. cursor'[c] # 0 /\ cursor'[c] < g.rowid => last'[c] < g.uid
        BY <1>4, <1>5, <1>7 DEF IInv, CursorInv
      <3> QED
        BY <1>5, <2>2, <3>1 DEF IInv, CursorInv
    <2> QED
      BY <2>1, <2>2
  <1>14. LiveHasNoGap'
    BY <1>1, <1>4, <1>5 DEF IInv, LiveHasNoGap
  <1>15. AccountInv'
    <2> SUFFICES ASSUME NothingDeleted', NEW d \in Clients
                 PROVE  /\ todo[d] \cup OnWire(d)' \subseteq events
                        /\ cursor'[d] # 0 =>
                                \E e \in events : e.rowid = cursor'[d] /\ e.uid = last'[d]
                        /\ \A e \in events : Stamped(e) =>
                                /\ e.cursor <= cursor'[d] =>
                                        e.uid \in got'[d] \cup missed[d]
                                /\ handler[d] # "none" =>
                                        \/ e.uid \in got'[d] \cup missed[d]
                                        \/ e \in todo[d] \cup OnWire(d)'
      BY <1>1 DEF AccountInv, Stamped
    <2>1. NothingDeleted
      BY <1>1 DEF NothingDeleted
    <2>2. CASE d # c
      BY <1>4, <1>5, <2>1, <2>2 DEF IInv, AccountInv
    <2>3. CASE d = c
      <3>1. /\ todo[c] \cup OnWire(c) \subseteq events
            /\ cursor[c] # 0 => \E e \in events : e.rowid = cursor[c] /\ e.uid = last[c]
            /\ \A e \in events : Stamped(e) =>
                    /\ e.cursor <= cursor[c] => e.uid \in got[c] \cup missed[c]
                    /\ \/ e.uid \in got[c] \cup missed[c]
                       \/ e \in todo[c] \cup OnWire(c)
        BY <1>6, <2>1 DEF IInv, AccountInv
      <3>2. h \in events
        BY <1>5, <3>1
      <3>3. cursor'[c] # 0 => \E e \in events : e.rowid = cursor'[c] /\ e.uid = last'[c]
        BY <1>4, <1>7, <3>1, <3>2
      <3>4. ASSUME NEW e \in events, Stamped(e), e.cursor <= cursor'[c]
            PROVE  e.uid \in got'[c] \cup missed[c]
        <4>1. CASE ~Stamped(h) \/ e.uid \in got[c] \cup missed[c]
          BY <1>4, <3>1, <3>4, <4>1
        <4>2. CASE Stamped(h) /\ e \in todo[c] \cup OnWire(c)
          <5>1. e = h \/ h.uid < e.uid
            BY <1>10, <3>4, <4>2
          <5>2. /\ e.cursor = e.rowid /\ e.rowid \in Nat
                /\ (h.rowid < e.rowid <=> h.uid < e.uid)
            BY <1>0, <3>2, <3>4 DEF IInv, RowsInv, RowOrder, TypeOK, Event
          <5>3. ~(h.rowid < e.rowid)
            BY <1>4, <1>7, <3>4, <4>2, <5>2
          <5> QED
            BY <1>4, <5>1, <5>2, <5>3
        <4> QED
          BY <3>1, <3>4, <4>1, <4>2
      <3> QED
        BY <1>4, <1>5, <2>3, <3>1, <3>3, <3>4
    <2> QED
      BY <2>2, <2>3
  <1> QED
    BY <1>8, <1>9, <1>11, <1>12, <1>13, <1>14, <1>15 DEF IInv

\* Every step keeps the invariant.
LEMMA NextIInv == IInv /\ [Next]_vars => IInv'
  <1> SUFFICES ASSUME IInv, [Next]_vars PROVE IInv'
    OBVIOUS
  <1>0. convs \in [Convs -> {"new", "live", "deleted"}]
    BY DEF IInv, TypeOK
  <1>1. ASSUME NEW v \in Convs, CreateConversation(v) PROVE IInv'
    <2>1. /\ convs' \in [Convs -> {"new", "live", "deleted"}]
          /\ NothingDeleted' => NothingDeleted
      BY <1>0, <1>1 DEF CreateConversation, NothingDeleted
    <2>2. CASE Publish(events, "conversation.created", v)
      BY <1>1, <2>1, <2>2, PublishStep DEF CreateConversation, Kinds
    <2>3. CASE events' = events /\ UNCHANGED <<published, wire, missed>>
      BY <1>1, <2>1, <2>3, ShrinkStep DEF CreateConversation
    <2> QED
      BY <1>1, <2>2, <2>3 DEF CreateConversation, PublishOrThrow
  <1>2. ASSUME NEW v \in Convs, DeleteConversation(v) PROVE IInv'
    <2>1. /\ convs' \in [Convs -> {"new", "live", "deleted"}]
          /\ ~NothingDeleted'
      BY <1>0, <1>2 DEF DeleteConversation, NothingDeleted
    <2>2. Without(events, v) \in SUBSET events
      BY DEF Without
    <2>3. CASE Publish(Without(events, v), "conversation.deleted", v)
      BY <1>2, <2>1, <2>2, <2>3, PublishStep DEF DeleteConversation, Kinds
    <2>4. CASE events' = Without(events, v) /\ UNCHANGED <<published, wire, missed>>
      BY <1>2, <2>1, <2>2, <2>4, ShrinkStep DEF DeleteConversation
    <2> QED
      BY <1>2, <2>3, <2>4 DEF DeleteConversation, PublishOrThrow
  <1>3. ASSUME NEW v \in Convs, CrashInCreate(v) PROVE IInv'
    <2>1. /\ convs' \in [Convs -> {"new", "live", "deleted"}]
          /\ NothingDeleted' => NothingDeleted
      BY <1>0, <1>3 DEF CrashInCreate, NothingDeleted
    <2> QED
      BY <1>3, <2>1, RestartStep DEF CrashInCreate, Kinds
  <1>4. ASSUME NEW v \in Convs, CrashInDelete(v) PROVE IInv'
    <2>1. /\ convs' \in [Convs -> {"new", "live", "deleted"}]
          /\ ~NothingDeleted'
      BY <1>0, <1>4 DEF CrashInDelete, NothingDeleted
    <2>2. Without(events, v) \in SUBSET events
      BY DEF Without
    <2> QED
      BY <1>4, <2>1, <2>2, RestartStep DEF CrashInDelete, Kinds
  <1>5. ASSUME NEW v \in Convs \cup {None}, PublishOther(v) PROVE IInv'
    <2>1. /\ convs' \in [Convs -> {"new", "live", "deleted"}]
          /\ NothingDeleted' => NothingDeleted
      BY <1>0, <1>5 DEF PublishOther, NothingDeleted
    <2> QED
      BY <1>5, <2>1, PublishStep DEF PublishOther, Kinds
  <1>6. ASSUME NEW v \in Convs \cup {None}, CrashInPublish(v) PROVE IInv'
    <2>1. /\ convs' \in [Convs -> {"new", "live", "deleted"}]
          /\ NothingDeleted' => NothingDeleted
      BY <1>0, <1>6 DEF CrashInPublish, NothingDeleted
    <2> QED
      BY <1>6, <2>1, RestartStep DEF CrashInPublish, Kinds
  <1>7. CASE UNCHANGED vars
    <2>1. UNCHANGED <<handler, todo, wire, cursor, boots, published, last, got,
                      since, missed>> /\ events' = events /\ convs' = convs
      BY <1>7 DEF vars
    <2>2. NothingDeleted' => NothingDeleted
      BY <2>1 DEF NothingDeleted
    <2> QED
      BY <1>0, <2>1, <2>2, ShrinkStep
  <1> QED
    BY <1>1, <1>2, <1>3, <1>4, <1>5, <1>6, <1>7, ConnectStep, WriteReplayStep,
       SubscribeStep, ReceiveStep, EndStep DEF Next

-----------------------------------------------------------------------------
\* The invariant holds in every reachable state.
THEOREM Invariance == Spec => []IInv
  BY InitIInv, NextIInv, PTL DEF Spec

\* The variables keep their types.
THEOREM TypeCorrect == Spec => []TypeOK
  <1>1. IInv => TypeOK
    BY DEF IInv
  <1> QED
    BY <1>1, Invariance, PTL

\* Rowids, reused after deletions, keep the order of publication (db.ts 459).
THEOREM RowsAreOrdered == Spec => []RowOrder
  <1>1. IInv => RowOrder
    BY DEF IInv
  <1> QED
    BY <1>1, Invariance, PTL

\* No client receives an event again, or one older than it has received
\* (routes.ts 429-456, BridgeClient.swift 33-41).
THEOREM EventsComeInOrder == Spec => []InOrder
  <1>1. IInv => InOrder
    BY DEF IInv
  <1> QED
    BY <1>1, Invariance, PTL

\* A subscribed stream has no gap (eventBus.ts 11-29).
THEOREM LiveStreamsHaveNoGap == Spec => []LiveHasNoGap
  <1>1. IInv => LiveHasNoGap
    BY DEF IInv
  <1> QED
    BY <1>1, Invariance, PTL

\* While nothing is deleted, only a replay loses events (routes.ts 429-446).
THEOREM OnlyReplaysLose == Spec => []NoOtherLoss
  <1>1. IInv => NoOtherLoss
    <2> SUFFICES ASSUME IInv, NothingDeleted, NEW c \in Clients, handler[c] = "live",
                        NEW e \in events, Stamped(e)
                 PROVE  e.uid \in got[c] \cup missed[c] \/ e \in OnWire(c)
      BY DEF NoOtherLoss, Stamped
    <2>1. todo[c] = {}
      BY DEF IInv, StreamInv
    <2> QED
      BY <2>1 DEF IInv, AccountInv
  <1> QED
    BY <1>1, Invariance, PTL

\* Without deletions a cursor is that of a row in the table, so the rows that
\* were recorded later have greater cursors (db.ts 459-488): the test of
\* listEventsAfter is right as long as nothing is deleted.
THEOREM CursorsKeepTheirPlace == Spec => []CursorsHold
  <1>1. IInv => CursorsHold
    <2> SUFFICES ASSUME IInv, NothingDeleted, NEW c \in Clients, cursor[c] # 0,
                        NEW e \in events, Stamped(e), e.uid > last[c]
                 PROVE  e \in Beyond(c)
      BY DEF CursorsHold, AfterCursorIsComplete, Stamped
    <2>1. PICK g \in events : g.rowid = cursor[c] /\ g.uid = last[c]
      BY DEF IInv, AccountInv
    <2>2. g.rowid < e.rowid
      BY <2>1 DEF IInv, RowOrder
    <2>3. e.cursor = e.rowid
      BY DEF IInv, RowsInv
    <2> QED
      BY <2>1, <2>2, <2>3 DEF Beyond
  <1> QED
    BY <1>1, Invariance, PTL
==============================================================================
