----------------------------- MODULE PairingProofs -----------------------------
(***************************************************************************)
(* Proofs about Pairing and its limiters, for any number of addresses and  *)
(* pairings and any limits and windows.                                    *)
(*                                                                         *)
(* The bound on the rate follows from the shape of the history: the passes *)
(* of one window are next to each other and at most Max, so 2 * Max passes *)
(* reach over the whole of some window, from before its first to after the *)
(* last, and a window ends Window after its first pass.                    *)
(***************************************************************************)
EXTENDS Pairing, TLAPS

\* PassesInv and EntryInv of one address and one limiter: its passes p and
\* its entry e at time t, with the limit m and the window w.
Ordered(p, t, m, w) ==
    \A i \in 1..Len(p) :
        /\ p[i].at <= t
        /\ p[i].first <= i
        /\ i < p[i].first + m
        /\ \A j \in 1..i : p[j].at <= p[i].at
        /\ p[i].first > 1 =>
             p[p[i].first].at >= p[p[p[i].first - 1].first].at + w

Described(p, e, t, w) ==
    /\ e # NoEntry =>
        /\ p # <<>>
        /\ e.count = Len(p) - p[Len(p)].first + 1
        /\ e.resetAt = p[p[Len(p)].first].at + w
    /\ e = NoEntry /\ p # <<>> => t >= p[p[Len(p)].first].at + w

\* A pass is a record of a time and a place.
LEMMA PassType ==
    ASSUME NEW p \in Seq(Pass), NEW i \in 1..Len(p)
    PROVE  p[i].at \in Nat /\ p[i].first \in Nat \ {0}
  <1>1. p[i] \in Pass
    OBVIOUS
  <1> QED
    BY <1>1 DEF Pass

\* Of 2m passes in a row the last is at least w after the first: they reach
\* from one window over the next one into a third.
LEMMA TwoWindows ==
    ASSUME NEW p \in Seq(Pass), NEW t \in Nat, NEW m \in Nat \ {0}, NEW w \in Nat,
           Ordered(p, t, m, w),
           NEW i \in 1..Len(p), i + 2 * m - 1 <= Len(p)
    PROVE  p[i + 2 * m - 1].at >= p[i].at + w
  <1> DEFINE j == i + 2 * m - 1
             f == p[j].first
             g == p[f - 1].first
  <1>1. j \in 1..Len(p) /\ j = i + 2 * m - 1 /\ Len(p) \in Nat /\ f = p[j].first
    OBVIOUS
  <1> HIDE DEF j
  <1>2. f \in 1..j /\ f > i + m - 1
    <2>1. f \in Nat \ {0} /\ f <= j /\ j < f + m
      BY <1>1, PassType DEF Ordered
    <2> QED
      BY <1>1, <2>1
  <1>3. g = p[f - 1].first
    OBVIOUS
  <1> HIDE DEF f
  <1>4. f - 1 \in 1..Len(p) /\ f - 1 >= i
    BY <1>1, <1>2
  <1>5. g \in 1..(f - 1) /\ g >= i
    <2>1. g \in Nat \ {0} /\ g <= f - 1 /\ f - 1 < g + m
      BY <1>3, <1>4, PassType DEF Ordered
    <2> QED
      BY <1>1, <1>2, <1>4, <2>1
  <1>6. p[f].at >= p[g].at + w
    <2>1. p[j].first > 1 => p[p[j].first].at >= p[p[p[j].first - 1].first].at + w
      BY <1>1 DEF Ordered
    <2> QED
      BY <1>1, <1>2, <2>1
  <1> HIDE DEF g
  <1>7. p[j].at >= p[f].at
    BY <1>1, <1>2 DEF Ordered
  <1>8. p[g].at >= p[i].at
    <2>1. g \in 1..Len(p) /\ i \in 1..g
      BY <1>1, <1>2, <1>5
    <2>2. \A h \in 1..g : p[h].at <= p[g].at
      BY <2>1 DEF Ordered
    <2>3. p[i].at <= p[g].at
      BY <2>1, <2>2
    <2> QED
      BY <2>1, <2>3, PassType
  <1>9. p[i].at \in Nat /\ p[g].at \in Nat /\ p[f].at \in Nat /\ p[j].at \in Nat
    <2>1. f \in 1..Len(p) /\ g \in 1..Len(p)
      BY <1>1, <1>2, <1>5
    <2> QED
      BY <1>1, <2>1, PassType
  <1>10. p[j].at >= p[i].at + w
    <2>1. \A a, b, c, d \in Nat : d >= c /\ c >= b + w /\ b >= a => d >= a + w
      OBVIOUS
    <2> QED
      BY <1>6, <1>7, <1>8, <1>9, <2>1
  <1> QED
    BY <1>1, <1>10

\* The passes and the entry after one more pass, in a new window or not.
NextPasses(p, t, fresh) ==
    Append(p, [at |-> t, first |-> IF fresh THEN Len(p) + 1 ELSE p[Len(p)].first])
NextEntry(e, t, w, fresh) ==
    IF fresh THEN [count |-> 1, resetAt |-> t + w]
    ELSE [count |-> e.count + 1, resetAt |-> e.resetAt]

\* A pass keeps both, in a new window or in the running one.
LEMMA PassStep ==
    ASSUME NEW p \in Seq(Pass), NEW e \in Entry \cup {NoEntry},
           NEW t \in Nat, NEW m \in Nat \ {0}, NEW w \in Nat \ {0},
           Ordered(p, t, m, w), Described(p, e, t, w),
           NEW fresh \in BOOLEAN, fresh <=> e = NoEntry \/ t >= e.resetAt,
           fresh \/ e.count < m
    PROVE  /\ NextPasses(p, t, fresh) \in Seq(Pass) /\ NextEntry(e, t, w, fresh) \in Entry
           /\ Ordered(NextPasses(p, t, fresh), t, m, w)
           /\ Described(NextPasses(p, t, fresh), NextEntry(e, t, w, fresh), t, w)
  <1> DEFINE q == NextPasses(p, t, fresh)
             d == NextEntry(e, t, w, fresh)
             n == Len(p) + 1
             b == IF fresh THEN n ELSE p[Len(p)].first
  <1>0. \A i \in 1..Len(p) : p[i].at \in Nat /\ p[i].first \in Nat \ {0}
    BY PassType
  <1>1. ~fresh => /\ e \in Entry /\ Len(p) \in 1..Len(p)
                  /\ e.count = Len(p) - p[Len(p)].first + 1
                  /\ e.resetAt = p[p[Len(p)].first].at + w
    BY DEF Described
  <1>2. b \in 1..n /\ n < b + m
    <2>1. CASE fresh
      BY <2>1
    <2>2. CASE ~fresh
      <3>1. p[Len(p)].first \in 1..Len(p)
        BY <1>0, <1>1, <2>2 DEF Ordered
      <3>2. Len(p) - p[Len(p)].first + 1 < m
        BY <1>1, <2>2
      <3> QED
        BY <2>2, <3>1, <3>2
    <2> QED
      BY <2>1, <2>2
  <1>3. [at |-> t, first |-> b] \in Pass
    BY <1>2 DEF Pass
  <1>4. /\ q \in Seq(Pass) /\ Len(q) = n
        /\ \A i \in 1..Len(p) : q[i] = p[i]
        /\ q[n] = [at |-> t, first |-> b]
    BY <1>3 DEF NextPasses
  <1>5. d \in Entry
    BY <1>1 DEF NextEntry, Entry
  <1>6. b > 1 => q[b].at >= q[q[b - 1].first].at + w
    <2>1. CASE fresh
      <3> SUFFICES ASSUME b > 1 PROVE q[b].at >= q[q[b - 1].first].at + w
        OBVIOUS
      <3>1. Len(p) \in 1..Len(p) /\ b = n /\ b - 1 = Len(p)
        BY <2>1
      <3>2. p[Len(p)].first \in 1..Len(p)
        BY <1>0, <3>1 DEF Ordered
      <3>3. t >= p[p[Len(p)].first].at + w
        <4>1. CASE e = NoEntry
          BY <3>1, <4>1 DEF Described
        <4>2. CASE e # NoEntry
          BY <2>1, <4>2 DEF Described
        <4> QED
          BY <4>1, <4>2
      <3> QED
        BY <1>4, <3>1, <3>2, <3>3
    <2>2. CASE ~fresh
      <3>1. b = p[Len(p)].first /\ b \in 1..Len(p)
        BY <1>0, <1>1, <2>2 DEF Ordered
      <3>2. b > 1 => p[b].at >= p[p[b - 1].first].at + w
        BY <1>1, <2>2, <3>1 DEF Ordered
      <3>3. b > 1 => b - 1 \in 1..Len(p) /\ p[b - 1].first \in 1..Len(p)
        BY <1>0, <3>1 DEF Ordered
      <3> QED
        BY <1>4, <3>1, <3>2, <3>3
    <2> QED
      BY <2>1, <2>2
  <1>10. d = IF fresh THEN [count |-> 1, resetAt |-> t + w]
             ELSE [count |-> e.count + 1, resetAt |-> e.resetAt]
    BY DEF NextEntry
  <1> HIDE DEF n, b, q, d
  <1>11. n = Len(p) + 1 /\ Len(p) \in Nat
    BY DEF n
  <1>7. Ordered(q, t, m, w)
    <2> SUFFICES ASSUME NEW i \in 1..n
                 PROVE  /\ q[i].at <= t
                        /\ q[i].first <= i
                        /\ i < q[i].first + m
                        /\ \A j \in 1..i : q[j].at <= q[i].at
                        /\ q[i].first > 1 =>
                             q[q[i].first].at >= q[q[q[i].first - 1].first].at + w
      BY <1>4 DEF Ordered
    <2>1. CASE i = n
      <3>1. q[i].at = t /\ q[i].first = b
        BY <1>4, <2>1
      <3>2. \A j \in 1..i : q[j].at <= t
        <4> TAKE j \in 1..i
        <4>1. CASE j = n
          BY <1>4, <4>1
        <4>2. CASE j # n
          <5>1. j \in 1..Len(p)
            BY <1>11, <2>1, <4>2
          <5> QED
            BY <1>4, <5>1 DEF Ordered
        <4> QED
          BY <4>1, <4>2
      <3> QED
        <4>1. q[i].first > 1 => q[q[i].first].at >= q[q[q[i].first - 1].first].at + w
          BY <1>6, <3>1
        <4>2. q[i].at <= t /\ q[i].first <= i /\ i < q[i].first + m
          BY <1>2, <1>11, <2>1, <3>1
        <4> QED
          BY <3>1, <3>2, <4>1, <4>2
    <2>2. CASE i # n
      <3>1. i \in 1..Len(p) /\ q[i] = p[i] /\ \A j \in 1..i : j \in 1..Len(p) /\ q[j] = p[j]
        BY <1>4, <1>11, <2>2
      <3>2. p[i].first \in 1..Len(p)
        BY <1>0, <3>1 DEF Ordered
      <3>3. p[i].first > 1 =>
              p[i].first - 1 \in 1..Len(p) /\ p[p[i].first - 1].first \in 1..Len(p)
        <4> SUFFICES ASSUME p[i].first > 1
                     PROVE  p[i].first - 1 \in 1..Len(p) /\ p[p[i].first - 1].first \in 1..Len(p)
          OBVIOUS
        <4>1. p[i].first - 1 \in 1..Len(p)
          BY <1>11, <3>2
        <4>2. p[p[i].first - 1].first \in Nat \ {0} /\ p[p[i].first - 1].first <= p[i].first - 1
          BY <1>0, <4>1 DEF Ordered
        <4> QED
          BY <1>11, <4>1, <4>2
      <3>4. p[i].first > 1 => p[p[i].first].at >= p[p[p[i].first - 1].first].at + w
        BY <3>1 DEF Ordered
      <3>5. q[i].first > 1 => q[q[i].first].at >= q[q[q[i].first - 1].first].at + w
        BY <1>4, <3>1, <3>2, <3>3, <3>4
      <3>6. p[i].at <= t /\ p[i].first <= i /\ i < p[i].first + m /\ \A j \in 1..i : p[j].at <= p[i].at
        BY <3>1 DEF Ordered
      <3> QED
        BY <3>1, <3>5, <3>6
    <2> QED
      BY <2>1, <2>2
  <1>8. Described(q, d, t, w)
    <2>1. d # NoEntry /\ q # <<>>
      BY <1>4, <1>5, <1>11 DEF Entry, NoEntry
    <2>2. d.count = n - b + 1 /\ d.resetAt = q[b].at + w
      <3>1. CASE fresh
        BY <1>4, <1>11, <1>10, <3>1 DEF b
      <3>2. CASE ~fresh
        <4>1. b = p[Len(p)].first /\ b \in 1..Len(p)
          BY <1>0, <1>1, <3>2 DEF Ordered, b
        <4> QED
          <5>1. d.count = e.count + 1 /\ d.resetAt = e.resetAt
            BY <1>10, <3>2
          <5>2. e.count = Len(p) - b + 1 /\ e.resetAt = p[b].at + w /\ q[b].at = p[b].at
            BY <1>1, <1>4, <3>2, <4>1
          <5> QED
            BY <1>11, <4>1, <5>1, <5>2
      <3> QED
        BY <3>1, <3>2
    <2> QED
      <3>1. q[Len(q)].first = b /\ Len(q) = n
        BY <1>4
      <3>2. q # <<>> /\ d.count = Len(q) - q[Len(q)].first + 1
            /\ d.resetAt = q[q[Len(q)].first].at + w
        BY <2>1, <2>2, <3>1
      <3> QED
        BY <2>1, <3>2 DEF Described
  <1> QED
    BY <1>4, <1>5, <1>7, <1>8 DEF q, d

\* LimiterInv, address by address.
Counted(l, k) ==
    /\ Ordered(passed[l][k], now, Max[l], Window[l])
    /\ Described(passed[l][k], counts[l][k], now, Window[l])

LEMMA LimiterParts ==
    LimiterInv <=> LimiterTypeOK /\ \A l \in Limiters, k \in Keys : Counted(l, k)
  BY DEF LimiterInv, PassesInv, EntryInv, Counted, Ordered, Described

LEMMA LimiterTypes ==
    ASSUME LimiterTypeOK, NEW l \in Limiters, NEW k \in Keys
    PROVE  /\ passed[l][k] \in Seq(Pass) /\ counts[l][k] \in Entry \cup {NoEntry}
           /\ now \in Nat /\ Max[l] \in Nat \ {0} /\ Window[l] \in Nat \ {0}
           /\ counts[l][k].resetAt \in Nat
  <1>1. passed[l][k] \in Seq(Pass) /\ counts[l][k] \in Entry \cup {NoEntry}
    BY DEF LimiterTypeOK
  <1>2. now \in Nat /\ Max[l] \in Nat \ {0} /\ Window[l] \in Nat \ {0}
    BY LimiterAssumption DEF LimiterTypeOK
  <1> QED
    BY <1>1, <1>2 DEF Entry, NoEntry

\* 2 * max passes in a row take at least windowMs.
LEMMA RateFollows == LimiterInv => RateIsBounded
  <1> SUFFICES ASSUME LimiterInv, NEW l \in Limiters, NEW k \in Keys,
                      NEW i \in 1..Len(passed[l][k]),
                      i + 2 * Max[l] - 1 <= Len(passed[l][k])
               PROVE  passed[l][k][i + 2 * Max[l] - 1].at >= passed[l][k][i].at + Window[l]
    BY DEF RateIsBounded
  <1> DEFINE p == passed[l][k]
             m == Max[l]
             w == Window[l]
  <1>1. /\ p \in Seq(Pass) /\ now \in Nat /\ m \in Nat \ {0} /\ w \in Nat
        /\ Ordered(p, now, m, w)
        /\ i \in 1..Len(p) /\ i + 2 * m - 1 <= Len(p)
    BY LimiterParts, LimiterTypes DEF Counted
  <1> HIDE DEF p, m, w
  <1>2. p[i + 2 * m - 1].at >= p[i].at + w
    BY <1>1, TwoWindows
  <1> QED
    BY <1>2 DEF p, m, w

\* A window that is over lets its address in, and the entry says when.
LEMMA RefusalEnds == LimiterInv => RefusedNotForever
  <1> SUFFICES ASSUME LimiterInv, NEW l \in Limiters, NEW k \in Keys, passed[l][k] # <<>>,
                      now >= passed[l][k][passed[l][k][Len(passed[l][k])].first].at + Window[l]
               PROVE  Allowed(l, k)
    BY DEF RefusedNotForever
  <1>1. Counted(l, k)
    BY LimiterParts
  <1>2. CASE counts[l][k] = NoEntry
    BY <1>2 DEF Allowed
  <1>3. CASE counts[l][k] # NoEntry
    BY <1>1, <1>3 DEF Allowed, Expired, Counted, Described
  <1> QED
    BY <1>2, <1>3

\* A check that returns true keeps what the limiters say of every address.
LEMMA CheckStep ==
    ASSUME LimiterInv, NEW l \in Limiters, NEW k \in Keys, Check(l, k)
    PROVE  LimiterInv'
  <1> DEFINE p == passed[l][k]
             e == counts[l][k]
             fresh == e = NoEntry \/ now >= e.resetAt
             q == NextPasses(p, now, fresh)
             d == NextEntry(e, now, Window[l], fresh)
  <1>0. /\ LimiterTypeOK /\ \A j \in Limiters, h \in Keys : Counted(j, h)
        /\ p \in Seq(Pass) /\ e \in Entry \cup {NoEntry}
        /\ now \in Nat /\ Max[l] \in Nat \ {0} /\ Window[l] \in Nat \ {0}
    BY LimiterParts, LimiterTypes
  <1>1. /\ counts' = [counts EXCEPT ![l][k] = d]
        /\ passed' = [passed EXCEPT ![l][k] = q]
        /\ now' = now
        /\ fresh \/ e.count < Max[l]
    BY <1>0 DEF Check, Allowed, Expired, LimiterTypeOK, NextPasses, NextEntry
  <1>2. Ordered(p, now, Max[l], Window[l]) /\ Described(p, e, now, Window[l])
    BY <1>0 DEF Counted
  <1>3. fresh \in BOOLEAN /\ (fresh <=> e = NoEntry \/ now >= e.resetAt)
    OBVIOUS
  <1> HIDE DEF p, e, fresh
  <1>4. /\ q \in Seq(Pass) /\ d \in Entry
        /\ Ordered(q, now, Max[l], Window[l]) /\ Described(q, d, now, Window[l])
    BY <1>0, <1>1, <1>2, <1>3, PassStep
  <1> HIDE DEF q, d
  <1>5. LimiterTypeOK'
    BY <1>0, <1>1, <1>4 DEF LimiterTypeOK
  <1>6. ASSUME NEW j \in Limiters, NEW h \in Keys PROVE Counted(j, h)'
    <2>1. CASE j = l /\ h = k
      <3>1. passed'[j][h] = q /\ counts'[j][h] = d
        BY <1>0, <1>1, <2>1 DEF LimiterTypeOK
      <3> QED
        BY <1>1, <1>4, <2>1, <3>1 DEF Counted
    <2>2. CASE ~(j = l /\ h = k)
      <3>1. passed'[j][h] = passed[j][h] /\ counts'[j][h] = counts[j][h]
        BY <1>0, <1>1, <2>2 DEF LimiterTypeOK
      <3> QED
        BY <1>0, <1>1, <3>1 DEF Counted
    <2> QED
      BY <2>1, <2>2
  <1> QED
    BY <1>5, <1>6 DEF LimiterInv, PassesInv, EntryInv, Counted, Ordered, Described

\* So does time, which only ends windows.
LEMMA TickStep ==
    ASSUME LimiterInv, Tick PROVE LimiterInv'
  <1>1. LimiterTypeOK'
    BY DEF LimiterInv, Tick, LimiterTypeOK
  <1>2. now \in Nat /\ now' = now + 1 /\ UNCHANGED <<counts, passed>>
    BY DEF LimiterInv, Tick, LimiterTypeOK
  <1>3. PassesInv'
    <2> SUFFICES ASSUME NEW l \in Limiters, NEW k \in Keys, NEW i \in 1..Len(passed[l][k])
                 PROVE  passed[l][k][i].at <= now + 1
      BY <1>2 DEF LimiterInv, PassesInv
    <2>1. passed[l][k][i].at \in Nat
      BY LimiterTypes, PassType DEF LimiterInv
    <2>2. passed[l][k][i].at <= now
      BY DEF LimiterInv, PassesInv
    <2> QED
      BY <1>2, <2>1, <2>2
  <1>4. EntryInv'
    <2> SUFFICES ASSUME NEW l \in Limiters, NEW k \in Keys,
                        counts[l][k] = NoEntry, passed[l][k] # <<>>
                 PROVE  now + 1 >= passed[l][k][passed[l][k][Len(passed[l][k])].first].at + Window[l]
      BY <1>2 DEF LimiterInv, EntryInv
    <2> DEFINE x == passed[l][k][passed[l][k][Len(passed[l][k])].first].at + Window[l]
    <2>1. now >= x
      BY DEF LimiterInv, EntryInv
    <2>2. x \in Nat
      <3>1. Len(passed[l][k]) \in 1..Len(passed[l][k])
        BY LimiterTypes DEF LimiterInv
      <3>2. passed[l][k][Len(passed[l][k])].first \in 1..Len(passed[l][k])
        <4>1. passed[l][k][Len(passed[l][k])].first \in Nat \ {0}
          BY <3>1, LimiterTypes, PassType DEF LimiterInv
        <4>2. passed[l][k][Len(passed[l][k])].first <= Len(passed[l][k])
          BY <3>1 DEF LimiterInv, PassesInv
        <4> QED
          BY <3>1, <4>1, <4>2
      <3>3. passed[l][k] \in Seq(Pass) /\ Window[l] \in Nat
        BY LimiterTypes DEF LimiterInv
      <3>4. passed[l][k][passed[l][k][Len(passed[l][k])].first].at \in Nat
        BY <3>2, <3>3, PassType
      <3> QED
        BY <3>3, <3>4
    <2> QED
      BY <1>2, <2>1, <2>2
  <1> QED
    BY <1>1, <1>3, <1>4 DEF LimiterInv

\* And prune(), which forgets windows that are over.
LEMMA PruneStep ==
    ASSUME LimiterInv, Prune PROVE LimiterInv'
  <1>1. /\ UNCHANGED <<now, passed>>
        /\ counts' = [l \in Limiters |-> [k \in Keys |->
                        IF now >= counts[l][k].resetAt THEN NoEntry ELSE counts[l][k]]]
    BY DEF Prune, Expired
  <1>2. LimiterTypeOK'
    BY <1>1 DEF LimiterInv, LimiterTypeOK
  <1>3. PassesInv'
    BY <1>1 DEF LimiterInv, PassesInv
  <1>4. EntryInv'
    <2> SUFFICES ASSUME NEW l \in Limiters, NEW k \in Keys PROVE Described(
                          passed[l][k], counts'[l][k], now, Window[l])
      BY <1>1 DEF EntryInv, Described
    <2>1. Described(passed[l][k], counts[l][k], now, Window[l])
      BY LimiterParts DEF Counted
    <2>2. CASE now >= counts[l][k].resetAt
      <3>1. counts'[l][k] = NoEntry
        BY <1>1, <2>2
      <3> QED
        BY <2>1, <2>2, <3>1 DEF Described
    <2>3. CASE ~(now >= counts[l][k].resetAt)
      <3>1. counts'[l][k] = counts[l][k]
        BY <1>1, <2>3
      <3> QED
        BY <2>1, <3>1
    <2> QED
      BY <2>2, <2>3
  <1> QED
    BY <1>2, <1>3, <1>4 DEF LimiterInv

\* A restart forgets everything.
LEMMA ForgetStep ==
    ASSUME LimiterInv, ForgetCounts, UNCHANGED now PROVE LimiterInv'
  <1>1. \A l \in Limiters, k \in Keys : counts'[l][k] = NoEntry /\ passed'[l][k] = <<>>
    BY DEF ForgetCounts
  <1>2. LimiterTypeOK'
    BY DEF LimiterInv, LimiterTypeOK, ForgetCounts
  <1>3. PassesInv' /\ EntryInv'
    BY <1>1 DEF PassesInv, EntryInv
  <1> QED
    BY <1>2, <1>3 DEF LimiterInv

\* A step that leaves the tables alone keeps what they say.
LEMMA TablesKept ==
    ASSUME IInv, LimiterInv', request' \in [Keys -> Limiters \cup {None}], boots' \in Nat,
           UNCHANGED <<code, expires, used, devices, app, pairedAt>>
    PROVE  IInv'
  <1>1. TypeOK'
    BY DEF IInv, TypeOK, LimiterInv
  <1>2. PairsOnce' /\ TokenIsPaired' /\ RowsInv'
    BY DEF IInv, PairsOnce, TokenIsPaired, RowsInv
  <1>3. RateIsBounded'
    BY RateFollows, PTL
  <1> QED
    BY <1>1, <1>2, <1>3 DEF IInv

\* Every step keeps the invariant.
LEMMA NextIInv == IInv /\ [Next]_vars => IInv'
  <1> SUFFICES ASSUME IInv, [Next]_vars PROVE IInv'
    OBVIOUS
  <1> USE PairingAssumption
  <1>0. /\ LimiterInv /\ TypeOK /\ now \in Nat
        /\ UNCHANGED limiterVars => LimiterInv'
    <2>1. LimiterInv /\ TypeOK /\ now \in Nat
      BY DEF IInv, TypeOK, LimiterTypeOK
    <2>2. ASSUME UNCHANGED limiterVars PROVE LimiterInv'
      <3>1. now' = now /\ counts' = counts /\ passed' = passed
        BY <2>2 DEF limiterVars
      <3>2. LimiterTypeOK'
        BY <2>1, <3>1 DEF LimiterInv, LimiterTypeOK
      <3>3. PassesInv'
        BY <2>1, <3>1 DEF LimiterInv, PassesInv
      <3>4. EntryInv'
        BY <2>1, <3>1 DEF LimiterInv, EntryInv
      <3> QED
        BY <3>2, <3>3, <3>4 DEF LimiterInv
    <2> QED
      BY <2>1, <2>2
  <1>1. ASSUME NEW k \in Keys, NEW l \in Limiters, Arrive(k, l) PROVE IInv'
    <2>1. LimiterInv'
      BY <1>0, <1>1, CheckStep DEF Arrive
    <2>2. request' \in [Keys -> Limiters \cup {None}] /\ boots' \in Nat
      BY <1>0, <1>1 DEF Arrive, TypeOK
    <2> QED
      BY <1>1, <2>1, <2>2, TablesKept DEF Arrive
  <1>2. ASSUME NEW k \in Keys, EndRequest(k) PROVE IInv'
    <2>1. request' \in [Keys -> Limiters \cup {None}] /\ boots' \in Nat
      BY <1>0, <1>2 DEF EndRequest, TypeOK
    <2> QED
      BY <1>0, <1>2, <2>1, TablesKept DEF EndRequest
  <1>3. ASSUME NEW k \in Keys, NEW p \in Pairings, NEW c \in Codes, StartPairing(k, p, c)
        PROVE  IInv'
    <2>0. /\ code[p] = None /\ p \notin used /\ devices[p] = 0
          /\ \A q \in Pairings : code[q] # c
          /\ code' = [code EXCEPT ![p] = c]
          /\ expires' = [expires EXCEPT ![p] = now + Lifetime]
          /\ request' = [request EXCEPT ![k] = None]
          /\ UNCHANGED <<limiterVars, used, devices, boots, pairedAt>>
      BY <1>3 DEF StartPairing, CreatePairingCode, IInv, RowsInv
    <2>1. /\ app' \in [Keys -> [pairing : Pairings \cup {None}, token : BOOLEAN]]
          /\ \A h \in Keys : app'[h].token => app'[h] = app[h]
      <3>1. CASE app' = [app EXCEPT ![k] = [pairing |-> p, token |-> FALSE]]
        BY <1>0, <3>1 DEF TypeOK
      <3>2. CASE UNCHANGED app
        BY <1>0, <3>2 DEF TypeOK
      <3> QED
        BY <1>3, <3>1, <3>2 DEF StartPairing
    <2>2. LimiterInv'
      BY <1>0, <2>0
    <2>3. TypeOK'
      <3>1. expires' \in [Pairings -> Nat]
        BY <1>0, <2>0 DEF TypeOK
      <3>2. code' \in [Pairings -> Codes \cup {None}] /\ request' \in [Keys -> Limiters \cup {None}]
        BY <1>0, <2>0 DEF TypeOK
      <3> QED
        BY <1>0, <2>0, <2>1, <2>2, <3>1, <3>2 DEF TypeOK, LimiterInv
    <2>4. PairsOnce' /\ RowsInv'
      BY <1>0, <2>0 DEF TypeOK, IInv, PairsOnce, RowsInv
    <2>5. TokenIsPaired'
      <3>1. \A h \in Keys : app'[h].token =>
              app'[h].pairing \in Pairings /\ devices'[app'[h].pairing] = 1
        BY <2>0, <2>1 DEF IInv, TokenIsPaired
      <3>2. \A q, o \in Pairings : code'[q] # None /\ code'[q] = code'[o] => q = o
        BY <1>0, <2>0 DEF IInv, TokenIsPaired, TypeOK
      <3> QED
        BY <3>1, <3>2 DEF TokenIsPaired
    <2>6. RateIsBounded'
      BY <2>2, RateFollows, PTL
    <2> QED
      BY <2>2, <2>3, <2>4, <2>5, <2>6 DEF IInv
  <1>4. ASSUME NEW k \in Keys, NEW c \in Codes, NEW v \in Pairings, NEW p \in Pairings,
               FinishPairing(k, c, v, p)
        PROVE  IInv'
    <2>0. /\ code[p] = c /\ p \notin used /\ expires[p] > now /\ v = p /\ devices[p] = 0
          /\ used' = used \cup {p}
          /\ devices' = [devices EXCEPT ![p] = @ + 1]
          /\ pairedAt' = [pairedAt EXCEPT ![p] = now]
          /\ request' = [request EXCEPT ![k] = None]
          /\ UNCHANGED <<limiterVars, code, expires, boots>>
      BY <1>4 DEF FinishPairing, Consumes, Finds, CreateDevice, IInv, RowsInv
    <2>1. /\ app' \in [Keys -> [pairing : Pairings \cup {None}, token : BOOLEAN]]
          /\ \A h \in Keys : app'[h] = app[h] \/ app'[h].pairing = p
      <3>1. CASE app' = [app EXCEPT ![k] = [pairing |-> v, token |-> TRUE]]
        BY <1>0, <2>0, <3>1 DEF TypeOK
      <3>2. CASE UNCHANGED app
        BY <1>0, <3>2 DEF TypeOK
      <3> QED
        BY <1>4, <3>1, <3>2 DEF FinishPairing
    <2>2. LimiterInv'
      BY <1>0, <2>0
    <2>3. /\ devices' \in [Pairings -> Nat] /\ devices'[p] = 1
          /\ \A q \in Pairings : q # p => devices'[q] = devices[q]
      BY <1>0, <2>0 DEF TypeOK
    <2>4. /\ pairedAt' \in [Pairings -> Nat] /\ pairedAt'[p] = now
          /\ \A q \in Pairings : q # p => pairedAt'[q] = pairedAt[q]
      BY <1>0, <2>0 DEF TypeOK
    <2>5. TypeOK'
      <3>1. request' \in [Keys -> Limiters \cup {None}]
        BY <1>0, <2>0 DEF TypeOK
      <3> QED
        BY <1>0, <2>0, <2>1, <2>2, <2>3, <2>4, <3>1 DEF TypeOK, LimiterInv
    <2>6. PairsOnce'
      <3> SUFFICES ASSUME NEW q \in Pairings
                   PROVE  /\ devices'[q] <= 1
                          /\ devices'[q] = 1 => q \in used' /\ pairedAt'[q] < expires'[q]
        BY DEF PairsOnce
      <3>1. CASE q = p
        BY <1>0, <2>0, <2>3, <2>4, <3>1 DEF TypeOK
      <3>2. CASE q # p
        BY <2>0, <2>3, <2>4, <3>2 DEF IInv, PairsOnce
      <3> QED
        BY <3>1, <3>2
    <2>7. RowsInv'
      BY <2>0, <2>3 DEF IInv, RowsInv, TypeOK
    <2>8. TokenIsPaired'
      <3>1. \A h \in Keys : app'[h].token =>
              app'[h].pairing \in Pairings /\ devices'[app'[h].pairing] = 1
        BY <2>1, <2>3 DEF IInv, TokenIsPaired
      <3> QED
        BY <2>0, <3>1 DEF IInv, TokenIsPaired
    <2>9. RateIsBounded'
      BY <2>2, RateFollows, PTL
    <2> QED
      BY <2>2, <2>5, <2>6, <2>7, <2>8, <2>9 DEF IInv
  <1>5. ASSUME NEW k \in Keys, NEW c \in Codes, NEW v \in Pairings, NEW p \in Pairings,
               CrashInFinish(k, c, v, p)
        PROVE  IInv'
    <2>0. /\ code[p] = c /\ devices[p] = 0
          /\ used' = used \cup {p}
          /\ request' = [j \in Keys |-> None]
          /\ boots' = boots + 1
          /\ ForgetCounts
          /\ UNCHANGED <<now, code, expires, devices, app, pairedAt>>
      BY <1>5 DEF CrashInFinish, Consumes, Finds, IInv, RowsInv
    <2>1. LimiterInv'
      BY <1>0, <2>0, ForgetStep
    <2>2. TypeOK'
      <3>1. boots' \in Nat /\ used' \subseteq Pairings
        BY <1>0, <2>0 DEF TypeOK
      <3> QED
        BY <1>0, <2>0, <2>1, <3>1 DEF TypeOK, LimiterInv
    <2>3. PairsOnce' /\ TokenIsPaired' /\ RowsInv'
      BY <2>0 DEF IInv, PairsOnce, TokenIsPaired, RowsInv
    <2>4. RateIsBounded'
      BY <2>1, RateFollows, PTL
    <2> QED
      BY <2>1, <2>2, <2>3, <2>4 DEF IInv
  <1>6. CASE Crash
    <2>1. LimiterInv'
      BY <1>0, <1>6, ForgetStep DEF Crash
    <2>2. request' \in [Keys -> Limiters \cup {None}] /\ boots' \in Nat
      BY <1>0, <1>6 DEF Crash, TypeOK
    <2> QED
      BY <1>6, <2>1, <2>2, TablesKept DEF Crash
  <1>7. CASE (Prune \/ Tick) /\ UNCHANGED pairingVars
    <2>1. LimiterInv'
      BY <1>0, <1>7, PruneStep, TickStep
    <2>2. request' \in [Keys -> Limiters \cup {None}] /\ boots' \in Nat
      BY <1>0, <1>7 DEF pairingVars, TypeOK
    <2> QED
      BY <1>7, <2>1, <2>2, TablesKept DEF pairingVars
  <1>8. CASE UNCHANGED vars
    <2>1. request' \in [Keys -> Limiters \cup {None}] /\ boots' \in Nat
      BY <1>0, <1>8 DEF vars, pairingVars, TypeOK
    <2> QED
      BY <1>0, <1>8, <2>1, TablesKept DEF vars, pairingVars
  <1> QED
    BY <1>1, <1>2, <1>3, <1>4, <1>5, <1>6, <1>7, <1>8 DEF Next

\* The initial state satisfies the invariant.
LEMMA InitIInv == Init => IInv
  <1> SUFFICES ASSUME Init PROVE IInv
    OBVIOUS
  <1> USE PairingAssumption DEF Init, LimiterInit
  <1>1. TypeOK
    BY DEF TypeOK, LimiterTypeOK, NoApp
  <1>2. LimiterInv
    BY <1>1 DEF TypeOK, LimiterInv, PassesInv, EntryInv
  <1>3. PairsOnce /\ TokenIsPaired /\ RowsInv
    BY DEF PairsOnce, TokenIsPaired, RowsInv, NoApp
  <1> QED
    BY <1>1, <1>2, <1>3, RateFollows DEF IInv

\* The inductive invariant holds in every reachable state.
THEOREM Invariance == Spec => []IInv
  BY InitIInv, NextIInv, PTL DEF Spec

\* Every variable has its type in every reachable state.
THEOREM TypeCorrect == Spec => []TypeOK
  <1>1. IInv => TypeOK
    BY DEF IInv
  <1> QED
    BY <1>1, Invariance, PTL

\* Whatever the limits and the windows, 2 * max requests of one address take
\* at least windowMs to pass (routes.ts 24-41, 143-147).
THEOREM RateBound == Spec => []RateIsBounded
  <1>1. IInv => RateIsBounded
    BY DEF IInv
  <1> QED
    BY <1>1, Invariance, PTL

\* An address that was refused is let in when its window is over (routes.ts
\* 27-33).
THEOREM RefusalsEnd == Spec => []RefusedNotForever
  <1>1. IInv => RefusedNotForever
    BY RefusalEnds DEF IInv
  <1> QED
    BY <1>1, Invariance, PTL

\* A pairing code pairs at most one device, and only while it was valid
\* (routes.ts 203-224, db.ts 504-524).
THEOREM OneDevicePerCode == Spec => []PairsOnce
  <1>1. IInv => PairsOnce
    BY DEF IInv
  <1> QED
    BY <1>1, Invariance, PTL

\* A token comes from the pairing whose verifier its app sent (db.ts
\* 492-513).
THEOREM TokensArePaired == Spec => []TokenIsPaired
  <1>1. IInv => TokenIsPaired
    BY DEF IInv
  <1> QED
    BY <1>1, Invariance, PTL

\* A code that was used up, by a device or by a crash, never gets another
\* device and stays used (db.ts 504-513).
THEOREM UsedStaysUsed == Spec => UsedUpForGood
  <1> DEFINE Kept == \A p \in Pairings : p \in used => p \in used' /\ devices'[p] = devices[p]
  <1>1. IInv /\ [Next]_vars => [Kept]_vars
    <2> SUFFICES ASSUME IInv, Next PROVE Kept
      OBVIOUS
    <2>1. CASE UNCHANGED <<used, devices>>
      BY <2>1
    <2>2. ASSUME NEW k \in Keys, NEW c \in Codes, NEW v \in Pairings, NEW p \in Pairings,
                 FinishPairing(k, c, v, p)
          PROVE  Kept
      BY <2>2 DEF FinishPairing, Consumes, Finds, CreateDevice, IInv, TypeOK
    <2>3. ASSUME NEW k \in Keys, NEW c \in Codes, NEW v \in Pairings, NEW p \in Pairings,
                 CrashInFinish(k, c, v, p)
          PROVE  Kept
      BY <2>3 DEF CrashInFinish
    <2> QED
      BY <2>1, <2>2, <2>3 DEF Next, Arrive, EndRequest, StartPairing, Crash, pairingVars
  <1> QED
    BY <1>1, Invariance, PTL DEF Spec, UsedUpForGood
-----------------------------------------------------------------------------
(* Pairing implements OneTimeCodes.                                        *)

\* The addresses whose app holds the device of pairing p.
HeldAt(p) == {k \in Keys : app[k].token /\ app[k].pairing = p}

\* A step that leaves the tables and the clock alone changes no code.
LEMMA NoCodeChanges ==
    ASSUME UNCHANGED <<now, code, expires, used, devices, app>>
    PROVE  UNCHANGED OneTime!codeVars
  BY DEF OneTime!codeVars, StateOf

\* What apps hold after a step, given as pairs of a pairing and an address.
LEMMA HoldsRefines ==
    ASSUME TypeOK, TypeOK', NEW new,
           \A k \in Keys : \/ app'[k] = app[k]
                           \/ ~ app'[k].token
                           \/ <<app'[k].pairing, k>> \in new
    PROVE  OneTime!Holds(new)
  <1>1. \A p \in Pairings, k \in Keys :
            k \in HeldAt(p)' => k \in HeldAt(p) \/ <<p, k>> \in new
    BY DEF HeldAt
  <1>2. [p \in Pairings |-> HeldAt(p)'] \in [Pairings -> SUBSET Keys]
    BY DEF HeldAt
  <1> QED
    BY <1>1, <1>2 DEF OneTime!Holds, HeldAt

\* pair/start makes an offer.
LEMMA StartRefines ==
    ASSUME IInv, TypeOK', NEW k \in Keys, NEW p \in Pairings, NEW c \in Codes,
           StartPairing(k, p, c)
    PROVE  OneTime!Offer(p, c)
  <1>0. TypeOK /\ now \in Nat
    BY DEF IInv, TypeOK, LimiterTypeOK
  <1>1. /\ code[p] = None /\ p \notin used
        /\ \A q \in Pairings : code[q] # c
        /\ code' = [code EXCEPT ![p] = c]
        /\ expires' = [expires EXCEPT ![p] = now + Lifetime]
        /\ UNCHANGED <<now, used, devices>>
    BY DEF StartPairing, CreatePairingCode, IInv, RowsInv, limiterVars
  <1>2. /\ StateOf(p) = "none" /\ StateOf(p)' = "valid"
        /\ \A q \in Pairings : q # p => StateOf(q)' = StateOf(q)
    <2>1. code'[p] = c /\ c # None /\ expires'[p] > now
      BY <1>0, <1>1, PairingAssumption DEF TypeOK
    <2>2. \A q \in Pairings : q # p => code'[q] = code[q] /\ expires'[q] = expires[q]
      BY <1>0, <1>1 DEF TypeOK
    <2>3. StateOf(p)' = "valid"
      <3>1. ~ now' >= expires'[p]
        BY <1>0, <1>1, PairingAssumption DEF TypeOK
      <3> QED
        BY <1>1, <2>1, <3>1 DEF StateOf
    <2> QED
      BY <1>1, <2>2, <2>3 DEF StateOf
  <1>3. [q \in Pairings |-> StateOf(q)'] = [[q \in Pairings |-> StateOf(q)] EXCEPT ![p] = "valid"]
    BY <1>2
  <1>4. OneTime!Holds({})
    <2>1. \A h \in Keys : app'[h] = app[h] \/ ~ app'[h].token
      BY <1>0 DEF StartPairing, TypeOK
    <2> QED
      BY <1>0, <2>1, HoldsRefines
  <1> QED
    BY <1>1, <1>2, <1>3, <1>4 DEF OneTime!Offer

\* A code that is consumed was valid, and is used from now on.
LEMMA UseRefines ==
    ASSUME TypeOK, NEW c \in Codes, NEW v \in Pairings, NEW p \in Pairings,
           Consumes(c, v, p), used' = used \cup {p}, UNCHANGED <<now, code, expires>>
    PROVE  /\ StateOf(p) = "valid"
           /\ [q \in Pairings |-> StateOf(q)']
                = [[q \in Pairings |-> StateOf(q)] EXCEPT ![p] = "used"]
  <1>1. code[p] # None /\ p \notin used /\ ~ now >= expires[p]
    BY PairingAssumption DEF Consumes, Finds, TypeOK, LimiterTypeOK
  <1>2. StateOf(p) = "valid" /\ StateOf(p)' = "used"
    BY <1>1 DEF StateOf
  <1>3. \A q \in Pairings : q # p => StateOf(q)' = StateOf(q)
    BY DEF StateOf
  <1> QED
    BY <1>2, <1>3

\* pair/finish gives the device of the offer, to the app that asked or to
\* nobody.
LEMMA FinishRefines ==
    ASSUME IInv, TypeOK', NEW k \in Keys, NEW c \in Codes, NEW v \in Pairings,
           NEW p \in Pairings, FinishPairing(k, c, v, p)
    PROVE  OneTime!Give(p, k)
  <1>0. TypeOK
    BY DEF IInv
  <1>1. /\ Consumes(c, v, p) /\ v = p
        /\ used' = used \cup {p}
        /\ devices' = [devices EXCEPT ![p] = @ + 1]
        /\ UNCHANGED <<now, code, expires>>
    BY DEF FinishPairing, Consumes, CreateDevice, limiterVars
  <1>2. OneTime!Holds({<<p, k>>})
    <2>1. \A h \in Keys : app'[h] = app[h] \/ <<app'[h].pairing, h>> \in {<<p, k>>}
      BY <1>0, <1>1 DEF FinishPairing, TypeOK
    <2> QED
      BY <1>0, <2>1, HoldsRefines
  <1> QED
    BY <1>0, <1>1, <1>2, UseRefines DEF OneTime!Give

\* A crash between the two statements uses an offer up for nothing.
LEMMA CrashRefines ==
    ASSUME IInv, NEW k \in Keys, NEW c \in Codes, NEW v \in Pairings, NEW p \in Pairings,
           CrashInFinish(k, c, v, p)
    PROVE  OneTime!Waste(p)
  <1>1. /\ Consumes(c, v, p)
        /\ used' = used \cup {p}
        /\ UNCHANGED <<now, code, expires, devices, app>>
    BY DEF CrashInFinish
  <1> QED
    BY <1>1, UseRefines DEF IInv, OneTime!Waste

\* The clock lets offers expire.
LEMMA TickRefines ==
    ASSUME IInv, Tick, UNCHANGED pairingVars
    PROVE  OneTime!Expire
  <1>0. TypeOK /\ now \in Nat
    BY DEF IInv, TypeOK, LimiterTypeOK
  <1>1. now' = now + 1 /\ UNCHANGED <<code, expires, used, devices, app>>
    BY DEF Tick, pairingVars
  <1>2. ASSUME NEW p \in Pairings
        PROVE  StateOf(p)' # StateOf(p) => StateOf(p) = "valid" /\ StateOf(p)' = "expired"
    <2>1. now >= expires[p] => now' >= expires'[p]
      BY <1>0, <1>1 DEF TypeOK
    <2> QED
      BY <1>1, <2>1 DEF StateOf
  <1>3. [p \in Pairings |-> StateOf(p)'] \in [Pairings -> {"none", "valid", "expired", "used"}]
    BY DEF StateOf
  <1> QED
    BY <1>1, <1>2, <1>3 DEF OneTime!Expire

\* Every step is one of OneTimeCodes or changes no code.
LEMMA NextRefines ==
    IInv /\ TypeOK' /\ [Next]_vars => [OneTime!Next]_OneTime!codeVars
  <1> SUFFICES ASSUME IInv, TypeOK', [Next]_vars PROVE [OneTime!Next]_OneTime!codeVars
    OBVIOUS
  <1> USE DEF OneTime!Next
  <1>1. ASSUME NEW k \in Keys, NEW p \in Pairings, NEW c \in Codes, StartPairing(k, p, c)
        PROVE  OneTime!Next
    BY <1>1, StartRefines
  <1>2. ASSUME NEW k \in Keys, NEW c \in Codes, NEW v \in Pairings, NEW p \in Pairings,
               FinishPairing(k, c, v, p)
        PROVE  OneTime!Next
    BY <1>2, FinishRefines
  <1>3. ASSUME NEW k \in Keys, NEW c \in Codes, NEW v \in Pairings, NEW p \in Pairings,
               CrashInFinish(k, c, v, p)
        PROVE  OneTime!Next
    BY <1>3, CrashRefines
  <1>4. CASE Tick /\ UNCHANGED pairingVars
    BY <1>4, TickRefines
  <1>5. ASSUME UNCHANGED <<now, code, expires, used, devices, app>>
        PROVE  UNCHANGED OneTime!codeVars
    BY <1>5, NoCodeChanges
  <1>6. CASE \/ \E k \in Keys : EndRequest(k) \/ \E l \in Limiters : Arrive(k, l)
             \/ Crash
             \/ Prune /\ UNCHANGED pairingVars
             \/ UNCHANGED vars
    BY <1>5, <1>6 DEF EndRequest, Arrive, Check, Crash, ForgetCounts, Prune, pairingVars,
                      limiterVars, vars
  <1> QED
    BY <1>1, <1>2, <1>3, <1>4, <1>6 DEF Next

\* Pairing implements OneTimeCodes: a code is given once, gives one device at
\* most, while it is valid, to one app at most, and is never valid again
\* (routes.ts 190-224, db.ts 492-530).
THEOREM Refinement == Spec => ImplementsOneTimeCodes
  <1>1. Init => OneTime!Init
    BY DEF Init, NoApp, OneTime!Init, StateOf
  <1>2. IInv /\ TypeOK' /\ [Next]_vars => [OneTime!Next]_OneTime!codeVars
    BY NextRefines
  <1> QED
    BY <1>1, <1>2, Invariance, TypeCorrect, PTL DEF Spec, ImplementsOneTimeCodes, OneTime!Spec
==============================================================================
