---------------------------- MODULE WidgetProofs ----------------------------
(***************************************************************************)
(* Proofs about WidgetHistory, for any applications, settings and sizes of *)
(* the window.  The sparkline windows are as long as each other and show   *)
(* what was reported, whatever is created late, dropped, cut or cleared.   *)
(* The list is the rows it was reconciled with, none of them hidden, and   *)
(* rows that were there keep their delegates.                              *)
(***************************************************************************)
EXTENDS WidgetHistory, SequenceTheorems, Induction

Rates == 0..PeakRate
Windows == Seq(Rates)

\* The i-th reading of a window from its right end; the newest is number 0.
At(w, i) == w[Len(w) - i]

\* w shows the last n readings of the log l, and nothing before them.
Shows(w, l, n) ==
    /\ n <= Len(w)
    /\ \A i \in 0..Len(w) - 1 : At(w, i) = IF i < n THEN At(l, i) ELSE 0

\* There was nothing to show in the last n readings.
Silent(l, n) == \A i \in 0..n - 1 : At(l, i) = 0

Settled ==
    /\ span \in Spans /\ interval \in Intervals \cup {0}
    /\ \A k \in DOMAIN history :
          k \in Keys /\ history[k] \in Windows /\ Len(history[k]) \in MinWindow..MaxWindow
    /\ \A k \in Keys : log[k] \in Windows /\ Len(log[k]) = MaxWindow
    /\ log = [k \in Keys |-> log[k]]
    /\ reach \in 0..MaxWindow

WindowInv ==
    /\ Settled
    /\ \A j, k \in DOMAIN history : Len(history[j]) = Len(history[k])
    /\ \A k \in DOMAIN history : Shows(history[k], log[k], reach)
    /\ \A k \in Keys \ DOMAIN history : Silent(log[k], reach)

-----------------------------------------------------------------------------
(* Sequences. *)

LEMMA ZeroesType ==
  ASSUME NEW n \in Nat
  PROVE  /\ Zeroes(n) \in Windows /\ Len(Zeroes(n)) = n
         /\ \A i \in 1..n : Zeroes(n)[i] = 0
<1>1. 0 \in Rates
  BY WidgetAssumption DEF Rates
<1>2. Zeroes(n) \in [1..n -> Rates]
  BY <1>1 DEF Zeroes
<1>3. Zeroes(n) \in Seq(Rates) /\ Len(Zeroes(n)) = n
  BY <1>2, IsASeq, LenProperties
<1>4. QED
  BY <1>3 DEF Zeroes, Windows

LEMMA HistoryLengthType ==
  ASSUME span \in Spans, interval \in Intervals \cup {0}
  PROVE  HistoryLength \in MinWindow..MaxWindow
<1> DEFINE spacing == IF interval > 0 THEN interval ELSE Refresh
           samples == (2 * span + spacing) \div (2 * spacing)
<1>1. spacing \in Nat \ {0} /\ span \in Nat
  BY WidgetAssumption
<1> HIDE DEF spacing
<1>2. 2 * span + spacing \in Int /\ 2 * spacing \in Nat /\ 2 * spacing > 0
  BY <1>1
<1>3. \A a \in Int, b \in Nat : b > 0 => a \div b \in Int
  OBVIOUS
<1>4. samples \in Int
  BY <1>2, <1>3
<1>5. HistoryLength = IF samples < MinWindow THEN MinWindow
                      ELSE IF samples > MaxWindow THEN MaxWindow ELSE samples
  BY DEF HistoryLength, spacing
<1> HIDE DEF samples
<1>6. QED
  BY <1>4, <1>5, WidgetAssumption

\* A window after a reading: as long as the setting asks for, the reading at its right
\* end, the others one further to the left, zeroes where it was not observed.
LEMMA PushedWindow ==
  ASSUME NEW k, NEW v \in Rates, Settled
  PROVE  LET w == Pushed(k, v)
             old == IF k \in DOMAIN history THEN history[k] ELSE Zeroes(HistoryLength)
         IN  /\ w \in Windows /\ Len(w) = HistoryLength
             /\ HistoryLength \in MinWindow..MaxWindow
             /\ At(w, 0) = v
             /\ \A i \in 1..HistoryLength - 1 :
                  At(w, i) = IF i - 1 < Len(old) THEN At(old, i - 1) ELSE 0
<1> DEFINE H == HistoryLength
           old == IF k \in DOMAIN history THEN history[k] ELSE Zeroes(H)
           new == Append(old, v)
           n == Len(new)
           w == Pushed(k, v)
<1>1. H \in MinWindow..MaxWindow
  BY HistoryLengthType DEF Settled
<1>2. H \in Nat \ {0}
  BY <1>1, WidgetAssumption
<1>3. old \in Windows
  BY <1>2, ZeroesType DEF Settled
<1>4. w = IF n >= H THEN SubSeq(new, n - H + 1, n) ELSE Zeroes(H - n) \o new
  BY DEF Pushed
<1> HIDE DEF H, old, w
<1>5. /\ new \in Windows /\ n = Len(old) + 1 /\ n \in Nat /\ Len(old) \in Nat
      /\ new[n] = v /\ \A i \in 1..Len(old) : new[i] = old[i]
      /\ \A i \in 1..n : new[i] \in Rates
  <2>1. new \in Windows /\ n = Len(old) + 1
    BY <1>3, AppendProperties DEF Windows
  <2>2. Len(old) \in Nat
    BY <1>3, LenProperties DEF Windows
  <2>3. new[n] = v /\ \A i \in 1..Len(old) : new[i] = old[i]
    BY <1>3, <2>1, <2>2, AppendProperties DEF Windows
  <2>4. \A i \in 1..n : new[i] \in Rates
    BY <2>1, ElementOfSeq DEF Windows
  <2>5. QED
    BY <2>1, <2>2, <2>3, <2>4
<1> HIDE DEF new, n
<1>6. /\ w \in Windows /\ Len(w) = H
      /\ \A i \in 0..H - 1 : w[H - i] = IF n - i >= 1 THEN new[n - i] ELSE 0
  <2>1. CASE n >= H
    <3>1. n - H + 1 \in 1..n /\ n - H + 1 \in Int /\ n \in Int /\ n - (n - H + 1) + 1 = H
      BY <1>2, <1>5, <2>1
    <3>2. \A i \in n - H + 1..n : new[i] \in Rates
      BY <1>5, <3>1
    <3>3. /\ SubSeq(new, n - H + 1, n) \in Windows
          /\ Len(SubSeq(new, n - H + 1, n)) = H
          /\ \A i \in 1..H : SubSeq(new, n - H + 1, n)[i] = new[n - H + 1 + i - 1]
      BY <3>1, <3>2, SubSeqProperties DEF Windows
    <3>4. \A i \in 1..H : w[i] = new[n - H + i]
      <4>1. ASSUME NEW i \in 1..H PROVE n - H + 1 + i - 1 = n - H + i
        BY <1>2, <1>5
      <4>2. QED
        BY <1>4, <2>1, <3>3, <4>1
    <3>5. ASSUME NEW i \in 0..H - 1 PROVE w[H - i] = new[n - i] /\ n - i >= 1
      <4>1. H - i \in 1..H /\ n - H + (H - i) = n - i /\ n - i >= 1
        BY <1>2, <1>5, <2>1
      <4>2. QED
        BY <3>4, <4>1
    <3>6. QED
      BY <1>4, <2>1, <3>3, <3>5
  <2>2. CASE n < H
    <3> DEFINE z == Zeroes(H - n)
    <3>1. H - n \in Nat
      BY <1>2, <1>5, <2>2
    <3>2. z \in Windows /\ Len(z) = H - n /\ \A i \in 1..H - n : z[i] = 0
      BY <3>1, ZeroesType
    <3> HIDE DEF z
    <3>3. w = z \o new
      BY <1>2, <1>4, <1>5, <2>2 DEF z
    <3>4. /\ w \in Windows /\ Len(w) = H - n + n
          /\ \A i \in 1..H - n + n : w[i] = IF i <= H - n THEN z[i] ELSE new[i - (H - n)]
      <4>1. z \in Seq(Rates) /\ new \in Seq(Rates) /\ Len(new) = n
        BY <1>5, <3>2 DEF Windows, n
      <4>2. /\ z \o new \in Seq(Rates) /\ Len(z \o new) = Len(z) + Len(new)
            /\ \A i \in 1..Len(z) + Len(new) :
                 (z \o new)[i] = IF i <= Len(z) THEN z[i] ELSE new[i - Len(z)]
        BY <4>1, ConcatProperties
      <4>3. QED
        BY <3>2, <3>3, <4>1, <4>2 DEF Windows
    <3>5. H - n + n = H
      BY <1>2, <1>5
    <3>6. ASSUME NEW i \in 0..H - 1
          PROVE  w[H - i] = IF n - i >= 1 THEN new[n - i] ELSE 0
      <4>1. /\ H - i \in 1..H /\ (H - i <= H - n <=> ~(n - i >= 1))
            /\ H - i - (H - n) = n - i
            /\ H - i <= H - n => H - i \in 1..H - n
        BY <1>2, <1>5, <2>2
      <4>2. QED
        BY <3>2, <3>4, <3>5, <4>1
    <3>7. QED
      BY <3>4, <3>5, <3>6
  <2>3. QED
    BY <1>2, <1>5, <2>1, <2>2
<1>7. At(w, 0) = v
  <2>1. 0 \in 0..H - 1 /\ H - 0 = H /\ n - 0 = n /\ n >= 1
    BY <1>2, <1>5
  <2>2. QED
    BY <1>5, <1>6, <2>1 DEF At
<1>8. ASSUME NEW i \in 1..H - 1
      PROVE  At(w, i) = IF i - 1 < Len(old) THEN At(old, i - 1) ELSE 0
  <2>1. /\ i \in 0..H - 1 /\ n - i = Len(old) - (i - 1)
        /\ (n - i >= 1 <=> i - 1 < Len(old))
        /\ n - i >= 1 => n - i \in 1..Len(old)
    BY <1>2, <1>5
  <2>2. QED
    BY <1>5, <1>6, <2>1 DEF At
<1>9. QED
  BY <1>1, <1>6, <1>7, <1>8 DEF H, old, w

\* The log after a reading.
LEMMA Logged ==
  ASSUME NEW l \in Windows, Len(l) = MaxWindow, NEW v \in Rates
  PROVE  LET new == Append(Tail(l), v) IN
         /\ new \in Windows /\ Len(new) = MaxWindow
         /\ At(new, 0) = v
         /\ \A i \in 1..MaxWindow - 1 : At(new, i) = At(l, i - 1)
<1> DEFINE t == Tail(l)
           new == Append(t, v)
<1>1. MaxWindow \in Nat \ {0}
  BY WidgetAssumption
<1>2. t \in Windows /\ Len(t) = MaxWindow - 1 /\ \A i \in 1..Len(t) : t[i] = l[i + 1]
  <2>1. l # <<>>
    BY <1>1
  <2>2. QED
    BY <2>1, HeadTailProperties DEF Windows
<1> HIDE DEF t
<1>3. /\ new \in Windows /\ Len(new) = MaxWindow
      /\ new[MaxWindow] = v /\ \A i \in 1..MaxWindow - 1 : new[i] = t[i]
  BY <1>1, <1>2, AppendProperties DEF Windows
<1> HIDE DEF new
<1>4. ASSUME NEW i \in 1..MaxWindow - 1 PROVE new[MaxWindow - i] = l[MaxWindow - (i - 1)]
  <2>1. MaxWindow - i \in 1..MaxWindow - 1 /\ (MaxWindow - i) + 1 = MaxWindow - (i - 1)
    BY <1>1
  <2>2. QED
    BY <1>2, <1>3, <2>1
<1>5. new[MaxWindow - 0] = v
  BY <1>1, <1>3
<1>6. QED
  BY <1>3, <1>4, <1>5 DEF At, new, t

-----------------------------------------------------------------------------
(* One reading of one application. *)

\* What the record holds after a reading v, and how much of it windows have room for.
Longer(l, v) == Append(Tail(l), v)
NextReach == Smallest(reach + 1, HistoryLength)

LEMMA NextReachType ==
  ASSUME Settled
  PROVE  /\ reach \in Nat /\ HistoryLength \in Nat \ {0} /\ MaxWindow \in Nat
         /\ NextReach \in 1..MaxWindow /\ NextReach <= HistoryLength
         /\ NextReach <= reach + 1
         /\ NextReach = HistoryLength \/ NextReach = reach + 1
<1>1. HistoryLength \in MinWindow..MaxWindow /\ reach \in 0..MaxWindow
  BY HistoryLengthType DEF Settled
<1>2. QED
  BY <1>1, WidgetAssumption DEF NextReach, Smallest

LEMMA ShowsNext ==
  ASSUME Settled, NEW k \in Keys, NEW v \in Rates,
         k \in DOMAIN history => Shows(history[k], log[k], reach),
         k \notin DOMAIN history => Silent(log[k], reach)
  PROVE  Shows(Pushed(k, v), Longer(log[k], v), NextReach)
<1> DEFINE H == HistoryLength
           old == IF k \in DOMAIN history THEN history[k] ELSE Zeroes(H)
           l == log[k]
           w == Pushed(k, v)
           m == Longer(l, v)
<1>1. /\ w \in Windows /\ Len(w) = H /\ At(w, 0) = v
      /\ \A i \in 1..H - 1 : At(w, i) = IF i - 1 < Len(old) THEN At(old, i - 1) ELSE 0
  BY PushedWindow
<1>2. /\ At(m, 0) = v /\ \A i \in 1..MaxWindow - 1 : At(m, i) = At(l, i - 1)
  BY Logged DEF Settled, Longer
<1>3. /\ reach \in Nat /\ H \in Nat \ {0} /\ MaxWindow \in Nat
      /\ NextReach \in 1..MaxWindow /\ NextReach <= H /\ NextReach <= reach + 1
      /\ NextReach = H \/ NextReach = reach + 1
  BY NextReachType
<1>4. /\ Len(old) \in Nat
      /\ \A i \in 0..Len(old) - 1 : At(old, i) = IF i < reach THEN At(l, i) ELSE 0
  <2>1. CASE k \in DOMAIN history
    BY <2>1, LenProperties DEF Shows, Settled, Windows
  <2>2. CASE k \notin DOMAIN history
    <3>1. old = Zeroes(H)
      BY <2>2
    <3>2. Len(old) = H /\ \A i \in 1..H : old[i] = 0
      BY <1>3, <3>1, ZeroesType
    <3>3. \A i \in 0..reach - 1 : At(l, i) = 0
      BY <2>2 DEF Silent
    <3> HIDE DEF old, l
    <3>4. ASSUME NEW i \in 0..Len(old) - 1 PROVE At(old, i) = 0
      <4>1. H - i \in 1..H
        BY <1>3, <3>2
      <4>2. QED
        BY <3>2, <4>1 DEF At
    <3>5. \A i \in 0..Len(old) - 1 : i < reach => i \in 0..reach - 1
      BY <1>3, <3>2
    <3>6. QED
      BY <1>3, <3>2, <3>3, <3>4, <3>5
  <2>3. QED
    BY <2>1, <2>2
<1>5. k \in DOMAIN history => reach <= Len(old)
  BY DEF Shows
<1>6. k \notin DOMAIN history => \A i \in 0..reach - 1 : At(l, i) = 0
  BY DEF Silent
<1> HIDE DEF H, old, l, w, m
<1>7. ASSUME NEW i \in 0..H - 1 PROVE At(w, i) = IF i < NextReach THEN At(m, i) ELSE 0
  <2>1. CASE i = 0
    BY <1>1, <1>2, <1>3, <2>1
  <2>2. CASE i > 0
    <3>1. i \in 1..H - 1 /\ i - 1 \in Nat
      BY <1>3, <2>2
    <3>2. At(w, i) = IF i - 1 < Len(old) THEN At(old, i - 1) ELSE 0
      BY <1>1, <3>1
    <3>3. i - 1 < Len(old) => i - 1 \in 0..Len(old) - 1
      BY <1>4, <3>1
    <3>4. At(w, i) = IF i - 1 < Len(old) /\ i - 1 < reach THEN At(l, i - 1) ELSE 0
      BY <1>4, <3>2, <3>3
    <3>5. CASE i < NextReach
      <4>1. i \in 1..MaxWindow - 1 /\ i - 1 < reach /\ i - 1 \in 0..reach - 1
        BY <1>3, <3>1, <3>5
      <4>2. At(m, i) = At(l, i - 1)
        BY <1>2, <4>1
      <4>3. CASE k \in DOMAIN history
        BY <1>3, <1>4, <1>5, <3>4, <3>5, <4>1, <4>2, <4>3
      <4>4. CASE k \notin DOMAIN history
        BY <1>6, <3>4, <3>5, <4>1, <4>2, <4>4
      <4>5. QED
        BY <4>3, <4>4
    <3>6. CASE ~(i < NextReach)
      <4>1. ~(i - 1 < reach)
        BY <1>3, <3>1, <3>6
      <4>2. QED
        BY <3>4, <3>6, <4>1
    <3>7. QED
      BY <3>5, <3>6
  <2>3. QED
    BY <1>3, <2>1, <2>2
<1>8. Shows(w, m, NextReach)
  BY <1>1, <1>3, <1>7 DEF Shows
<1>9. QED
  BY <1>8 DEF w, m, l

LEMMA SilentNext ==
  ASSUME Settled, NEW k \in Keys, Silent(log[k], reach)
  PROVE  Silent(Longer(log[k], 0), NextReach)
<1>1. 0 \in Rates
  BY WidgetAssumption DEF Rates
<1>2. /\ At(Longer(log[k], 0), 0) = 0
      /\ \A i \in 1..MaxWindow - 1 : At(Longer(log[k], 0), i) = At(log[k], i - 1)
  BY <1>1, Logged DEF Settled, Longer
<1>3. ASSUME NEW i \in 0..NextReach - 1 PROVE At(Longer(log[k], 0), i) = 0
  <2>1. CASE i = 0
    BY <1>2, <2>1
  <2>2. CASE i # 0
    <3>1. i \in 1..MaxWindow - 1 /\ i - 1 \in 0..reach - 1
      BY <2>2, NextReachType
    <3>2. At(log[k], i - 1) = 0
      BY <3>1 DEF Silent
    <3>3. QED
      BY <1>2, <3>1, <3>2
  <2>3. QED
    BY <2>1, <2>2
<1>4. QED
  BY <1>3 DEF Silent

\* A window in which nothing is left to draw.
LEMMA QuietIsSilent ==
  ASSUME NEW w \in Windows, NEW l, NEW n \in Nat, Shows(w, l, n), Quiet(w)
  PROVE  Silent(l, n)
<1>1. Len(w) \in Nat /\ DOMAIN w = 1..Len(w) /\ n <= Len(w)
  BY LenProperties DEF Windows, Shows
<1>2. ASSUME NEW i \in 0..n - 1 PROVE At(l, i) = 0
  <2>1. i \in 0..Len(w) - 1 /\ i < n /\ Len(w) - i \in 1..Len(w)
    BY <1>1
  <2>2. At(w, i) = At(l, i)
    BY <2>1 DEF Shows
  <2>3. At(w, i) = 0
    BY <1>1, <2>1 DEF Quiet, At
  <2>4. QED
    BY <2>2, <2>3
<1>3. QED
  BY <1>2 DEF Silent

\* What a snapshot says of an application: the rate of the row with its key.
LEMMA ReadingOfRow ==
  ASSUME NEW snapshot \in Snapshots, NEW k
  PROVE  LET shown == {i \in DOMAIN snapshot : ~IsExcluded(snapshot[i])}
             isActive == {snapshot[i].key : i \in shown}
         IN  /\ isActive \subseteq Keys
             /\ Reading(snapshot, k) \in Rates
             /\ k \in isActive =>
                  Reading(snapshot, k) = snapshot[CHOOSE i \in shown : snapshot[i].key = k].rate
             /\ k \notin isActive => Reading(snapshot, k) = 0
<1> DEFINE shown == {i \in DOMAIN snapshot : ~IsExcluded(snapshot[i])}
           isActive == {snapshot[i].key : i \in shown}
           seen == {i \in DOMAIN snapshot : snapshot[i].key = k /\ ~IsExcluded(snapshot[i])}
<1>1. PICK n \in 0..Cardinality(Keys) : snapshot \in [1..n -> App]
  BY DEF Snapshots
<1>2. \A i \in DOMAIN snapshot : snapshot[i].key \in Keys /\ snapshot[i].rate \in Rates
  <2>1. \A a \in App : a.key \in Keys /\ a.rate \in Rates
    BY DEF App, Keys, Rates
  <2>2. \A i \in DOMAIN snapshot : snapshot[i] \in App
    BY <1>1
  <2>3. QED
    BY <2>1, <2>2
<1>3. 0 \in Rates
  BY WidgetAssumption DEF Rates
<1>4. seen = {i \in shown : snapshot[i].key = k}
  OBVIOUS
<1>5. Reading(snapshot, k) = IF seen = {} THEN 0 ELSE snapshot[CHOOSE i \in seen : TRUE].rate
  BY DEF Reading
<1>6. isActive \subseteq Keys
  BY <1>2
<1>7. k \notin isActive => seen = {}
  BY <1>4
<1>8. \A i, j \in seen : i = j
  <2>1. \A i, j \in DOMAIN snapshot : i < j => snapshot[i].key # snapshot[j].key
    BY DEF Snapshots
  <2>2. \A i \in seen : i \in 1..n
    BY <1>1
  <2>3. ASSUME NEW i \in seen, NEW j \in seen PROVE i = j
    <3>1. ~(i < j) /\ ~(j < i)
      BY <2>1
    <3>2. n \in Nat /\ i \in 1..n /\ j \in 1..n
      BY <2>2
    <3>3. QED
      BY <3>1, <3>2
  <2>4. QED
    BY <2>3
<1>9. ASSUME k \in isActive
      PROVE  /\ seen # {}
             /\ (CHOOSE i \in seen : TRUE) = (CHOOSE i \in shown : snapshot[i].key = k)
             /\ (CHOOSE i \in seen : TRUE) \in DOMAIN snapshot
  <2>1. \E i \in shown : snapshot[i].key = k
    BY <1>9
  <2>2. seen # {}
    BY <1>4, <2>1
  <2>3. (CHOOSE i \in seen : TRUE) \in seen
    BY <2>2
  <2>4. (CHOOSE i \in shown : snapshot[i].key = k) \in shown
        /\ snapshot[CHOOSE i \in shown : snapshot[i].key = k].key = k
    BY <2>1
  <2>5. (CHOOSE i \in shown : snapshot[i].key = k) \in seen
    BY <1>4, <2>4
  <2>6. QED
    BY <1>8, <2>2, <2>3, <2>5
<1> HIDE DEF shown, isActive, seen
<1>10. QED
  BY <1>2, <1>3, <1>5, <1>6, <1>7, <1>9 DEF shown, isActive

-----------------------------------------------------------------------------
(* The invariant. *)

LEMMA WindowInit == Init => WindowInv
<1> SUFFICES ASSUME Init PROVE WindowInv
  OBVIOUS
<1>1. DOMAIN history = {} /\ reach = 0 /\ span \in Spans /\ interval = 0
  BY DEF Init, WidgetInit, NoEntries
<1>2. log = [k \in Keys |-> Zeroes(MaxWindow)] /\ MaxWindow \in Nat
  BY WidgetAssumption DEF Init
<1>3. \A k \in Keys : log[k] \in Windows /\ Len(log[k]) = MaxWindow
  BY <1>2, ZeroesType
<1>4. log = [k \in Keys |-> log[k]]
  BY <1>2
<1>5. Settled
  BY <1>1, <1>2, <1>3, <1>4 DEF Settled
<1>6. \A k \in Keys : Silent(log[k], reach)
  BY <1>1 DEF Silent
<1>7. QED
  BY <1>1, <1>5, <1>6 DEF WindowInv

\* A snapshot: one reading for every application, shown or not.
LEMMA WindowShown ==
  ASSUME WindowInv, NEW snapshot \in Snapshots, Shown(snapshot)
  PROVE  WindowInv'
<1> DEFINE shown == {i \in DOMAIN snapshot : ~IsExcluded(snapshot[i])}
           isActive == {snapshot[i].key : i \in shown}
           rate(k) == snapshot[CHOOSE i \in shown : snapshot[i].key = k].rate
           fading == {k \in DOMAIN history \ isActive : ~Quiet(Pushed(k, 0))}
           read(k) == Reading(snapshot, k)
<1>1. /\ history' = [k \in isActive \cup fading |->
                       IF k \in isActive THEN Pushed(k, rate(k)) ELSE Pushed(k, 0)]
      /\ UNCHANGED <<span, interval>>
  BY DEF Shown, Ingest, config
<1>2. /\ log' = [k \in Keys |-> Append(Tail(log[k]), read(k))]
      /\ reach' = NextReach
  BY DEF Shown, NextReach
<1>3. /\ isActive \subseteq Keys
      /\ \A k : /\ read(k) \in Rates
                /\ k \in isActive => read(k) = rate(k)
                /\ k \notin isActive => read(k) = 0
  BY ReadingOfRow
<1>4. Settled /\ DOMAIN history \subseteq Keys
  BY DEF WindowInv, Settled
<1> HIDE DEF shown, isActive, rate, read
<1>5. /\ DOMAIN history' = isActive \cup fading /\ DOMAIN history' \subseteq Keys
      /\ \A k \in DOMAIN history' : history'[k] = Pushed(k, read(k))
  BY <1>1, <1>3, <1>4
<1>6. \A k \in Keys : log'[k] = Longer(log[k], read(k))
  BY <1>2 DEF Longer
<1>7. ASSUME NEW k \in Keys
      PROVE  /\ Shows(Pushed(k, read(k)), log'[k], reach')
             /\ Pushed(k, read(k)) \in Windows
             /\ Len(Pushed(k, read(k))) = HistoryLength
             /\ log'[k] \in Windows /\ Len(log'[k]) = MaxWindow
  <2>1. /\ k \in DOMAIN history => Shows(history[k], log[k], reach)
        /\ k \notin DOMAIN history => Silent(log[k], reach)
    BY DEF WindowInv
  <2>2. Shows(Pushed(k, read(k)), log'[k], reach')
    BY <1>2, <1>3, <1>4, <1>6, <2>1, ShowsNext
  <2>3. Pushed(k, read(k)) \in Windows /\ Len(Pushed(k, read(k))) = HistoryLength
    BY <1>3, <1>4, PushedWindow
  <2>4. log'[k] \in Windows /\ Len(log'[k]) = MaxWindow
    <3>1. log[k] \in Windows /\ Len(log[k]) = MaxWindow /\ read(k) \in Rates
      BY <1>3, <1>4 DEF Settled
    <3>2. /\ Append(Tail(log[k]), read(k)) \in Windows
          /\ Len(Append(Tail(log[k]), read(k))) = MaxWindow
      BY <3>1, Logged
    <3>3. QED
      BY <1>6, <3>2 DEF Longer
  <2>5. QED
    BY <2>2, <2>3, <2>4
<1>8. HistoryLength \in MinWindow..MaxWindow /\ reach' \in 0..MaxWindow /\ reach' \in Nat
  BY <1>2, <1>4, HistoryLengthType, NextReachType DEF Settled
<1>9. log' = [k \in Keys |-> log'[k]]
  BY <1>2
<1>10. Settled'
  BY <1>1, <1>4, <1>5, <1>7, <1>8, <1>9 DEF Settled
<1>11. ASSUME NEW k \in Keys \ DOMAIN history' PROVE Silent(log'[k], reach')
  <2>1. k \notin isActive /\ read(k) = 0
    BY <1>3, <1>5
  <2>2. CASE k \in DOMAIN history
    <3>1. Quiet(Pushed(k, read(k)))
      BY <1>5, <2>1, <2>2
    <3>2. QED
      BY <1>7, <1>8, <3>1, QuietIsSilent
  <2>3. CASE k \notin DOMAIN history
    <3>1. Silent(log[k], reach)
      BY <2>3 DEF WindowInv
    <3>2. QED
      BY <1>2, <1>4, <1>6, <2>1, <3>1, SilentNext
  <2>4. QED
    BY <2>2, <2>3
<1>12. \A k \in DOMAIN history' :
         /\ Len(history'[k]) = HistoryLength
         /\ Shows(history'[k], log'[k], reach')
  BY <1>5, <1>7
<1>13. WindowInv'
  BY <1>10, <1>11, <1>12 DEF WindowInv, Shows, Silent, At
<1>14. QED
  BY <1>13

\* Windows are cleared: they have shown nothing yet.
LEMMA WindowCleared ==
  ASSUME WindowInv, Cleared, span' \in Spans, interval' \in Intervals \cup {0}
  PROVE  WindowInv'
<1>1. DOMAIN history' = {} /\ reach' = 0 /\ log' = log
  BY DEF Cleared, NoEntries
<1>2. Settled'
  BY <1>1, WidgetAssumption DEF WindowInv, Settled
<1>3. \A k \in Keys : Silent(log'[k], reach')
  BY <1>1 DEF Silent
<1>4. QED
  BY <1>1, <1>2, <1>3 DEF WindowInv, Silent, At

LEMMA WindowKept ==
  ASSUME WindowInv, UNCHANGED <<interval, history, log, reach>>, span' \in Spans
  PROVE  WindowInv'
BY DEF WindowInv, Settled, Shows, Silent, At

LEMMA WindowNext == WindowInv /\ [Next]_vars => WindowInv'
<1> SUFFICES ASSUME WindowInv, [Next]_vars PROVE WindowInv'
  OBVIOUS
<1>1. span \in Spans /\ interval \in Intervals \cup {0}
  BY DEF WindowInv, Settled
<1>2. CASE \E s \in Snapshots : Shown(s)
  BY <1>2, WindowShown
<1>3. CASE \E n \in Intervals \cup {0} : IntervalChanges(n) /\ Cleared
  BY <1>1, <1>3, WindowCleared DEF IntervalChanges, config
<1>4. CASE StatusChanges /\ ok /\ Cleared
  BY <1>1, <1>4, WindowCleared DEF StatusChanges, config
<1>5. CASE StatusChanges /\ ~ok /\ Kept
  BY <1>1, <1>5, WindowKept DEF StatusChanges, Kept, config
<1>6. CASE \E n \in Spans : SetSpan(n) /\ Kept
  BY <1>1, <1>6, WindowKept DEF SetSpan, Kept
<1>7. CASE \/ \E n \in TopCounts : SetTopCount(n) /\ Kept
           \/ \E n \in Lingers : SetLinger(n) /\ Kept
           \/ \E e \in Exclusions : SetExcluded(e) /\ Kept
           \/ Tick /\ Kept
           \/ UNCHANGED vars
  BY <1>1, <1>7, WindowKept
  DEF SetTopCount, SetLinger, SetExcluded, Tick, Kept, vars, widgetVars, config
<1>8. QED
  BY <1>2, <1>3, <1>4, <1>5, <1>6, <1>7 DEF Next

LEMMA WindowAlways == Spec => []WindowInv
  BY WindowInit, WindowNext, PTL DEF Spec

-----------------------------------------------------------------------------
(* Theorems. *)

\* All windows have the same number of samples at any time, so that the sparklines of
\* all rows share one time axis: also after the span, the spacing or what is hidden
\* has changed, and for applications that come late or come back
\* (WindowsAreAligned).
THEOREM AllWindowsAligned == Spec => []WindowsAreAligned
<1>1. WindowInv => WindowsAreAligned
  BY DEF WindowInv, WindowsAreAligned
<1>2. QED
  BY <1>1, WindowAlways, PTL

\* The last n readings of a sequence.
LEMMA LatestReadings ==
  ASSUME NEW s \in Windows, NEW n \in Nat, n <= Len(s)
  PROVE  /\ Latest(s, n) \in Windows /\ Len(Latest(s, n)) = n
         /\ \A i \in 1..n : Latest(s, n)[i] = At(s, n - i)
<1> DEFINE L == Len(s)
<1>1. L \in Nat /\ \A i \in 1..L : s[i] \in Rates
  BY LenProperties, ElementOfSeq DEF Windows
<1>2. /\ L - n + 1 \in Int /\ L \in Int /\ L - (L - n + 1) + 1 = n
      /\ (L - n + 1 <= L <=> n > 0) /\ L - n + 1 >= 1
  BY <1>1
<1>3. \A i \in L - n + 1..L : s[i] \in Rates
  BY <1>1, <1>2
<1>4. /\ SubSeq(s, L - n + 1, L) \in Seq(Rates)
      /\ Len(SubSeq(s, L - n + 1, L)) = n
      /\ \A i \in 1..n : SubSeq(s, L - n + 1, L)[i] = s[L - n + 1 + i - 1]
  BY <1>2, <1>3, SubSeqProperties
<1>5. \A i \in 1..n : L - n + 1 + i - 1 = L - (n - i)
  BY <1>1
<1>6. QED
  BY <1>4, <1>5 DEF Latest, At, Windows

LEMMA WindowsAreRight == WindowInv => WindowsAreTheLog
<1> SUFFICES ASSUME WindowInv, NEW k \in Keys
             PROVE  IF k \in DOMAIN history
                    THEN LET w == history[k] IN
                         /\ Len(w) >= reach
                         /\ Latest(w, reach) = Latest(log[k], reach)
                         /\ Quiet(SubSeq(w, 1, Len(w) - reach))
                    ELSE Quiet(Latest(log[k], reach))
  BY DEF WindowsAreTheLog
<1> DEFINE l == log[k]
           w == history[k]
           n == reach
<1>1. l \in Windows /\ Len(l) = MaxWindow /\ n \in Nat /\ n <= Len(l)
  BY WidgetAssumption DEF WindowInv, Settled
<1>2. /\ Latest(l, n) \in Windows /\ Len(Latest(l, n)) = n
      /\ \A i \in 1..n : Latest(l, n)[i] = At(l, n - i)
  BY <1>1, LatestReadings
<1>3. CASE k \notin DOMAIN history
  <2>1. Silent(l, n)
    BY <1>3 DEF WindowInv
  <2>2. \A i \in 1..n : Latest(l, n)[i] = 0
    <3>1. \A i \in 1..n : n - i \in 0..n - 1
      BY <1>1
    <3>2. QED
      BY <1>2, <2>1, <3>1 DEF Silent
  <2>3. DOMAIN Latest(l, n) = 1..n
    BY <1>2, LenProperties DEF Windows
  <2>4. QED
    BY <1>3, <2>2, <2>3 DEF Quiet
<1>4. CASE k \in DOMAIN history
  <2>1. w \in Windows /\ Shows(w, l, n) /\ Len(w) \in Nat
    BY <1>4, LenProperties DEF WindowInv, Settled, Windows
  <2> HIDE DEF w, l, n
  <2>2. n <= Len(w) /\ \A i \in 0..Len(w) - 1 : At(w, i) = IF i < n THEN At(l, i) ELSE 0
    BY <2>1 DEF Shows
  <2>3. /\ Latest(w, n) \in Windows /\ Len(Latest(w, n)) = n
        /\ \A i \in 1..n : Latest(w, n)[i] = At(w, n - i)
    BY <1>1, <2>1, <2>2, LatestReadings
  <2>4. \A i \in 1..n : n - i \in 0..Len(w) - 1 /\ n - i < n
    BY <1>1, <2>1, <2>2
  <2>5. \A i \in 1..n : Latest(w, n)[i] = Latest(l, n)[i]
    BY <1>2, <2>2, <2>3, <2>4
  <2>6. Latest(w, n) = Latest(l, n)
    BY <1>2, <2>3, <2>5, SeqEqual DEF Windows
  <2>7. Quiet(SubSeq(w, 1, Len(w) - n))
    <3> DEFINE m == Len(w) - n
    <3>1. m \in Nat /\ m \in Int /\ 1 \in Int /\ m - 1 + 1 = m /\ (1 <= m \/ m = 0)
      BY <1>1, <2>1, <2>2
    <3>2. \A i \in 1..m : i \in 1..Len(w)
      BY <1>1, <2>1
    <3>3. \A i \in 1..Len(w) : w[i] \in Rates
      BY <2>1, ElementOfSeq DEF Windows
    <3> HIDE DEF m
    <3>4. /\ SubSeq(w, 1, m) \in Seq(Rates) /\ Len(SubSeq(w, 1, m)) = m
          /\ \A i \in 1..m : SubSeq(w, 1, m)[i] = w[1 + i - 1]
      BY <3>1, <3>2, <3>3, SubSeqProperties
    <3>5. ASSUME NEW i \in 1..m PROVE SubSeq(w, 1, m)[i] = 0
      <4>1. /\ 1 + i - 1 = i /\ Len(w) - i \in 0..Len(w) - 1 /\ ~(Len(w) - i < n)
            /\ Len(w) - (Len(w) - i) = i
        BY <1>1, <2>1, <2>2 DEF m
      <4>2. At(w, Len(w) - i) = 0
        BY <2>2, <4>1
      <4>3. QED
        BY <3>4, <4>1, <4>2 DEF At
    <3>6. DOMAIN SubSeq(w, 1, m) = 1..m
      BY <3>4, LenProperties
    <3>7. QED
      BY <3>5, <3>6 DEF Quiet, m
  <2>8. QED
    BY <1>4, <2>1, <2>2, <2>6, <2>7 DEF w, l, n
<1>5. QED
  BY <1>3, <1>4

\* Every window shows the readings of the same stretch of time as they were, newest at
\* the right, with zeroes before it and where its application was quiet or hidden, and
\* an application without a window had nothing to show (WindowsAreTheLog).
THEOREM WindowsShowTheLog == Spec => []WindowsAreTheLog
  BY WindowAlways, WindowsAreRight, PTL

-----------------------------------------------------------------------------
(* Rows picked out of a list. *)

\* w lists s at the positions in D up to i, in their order.
Lists(w, s, D, i) ==
    \E at \in [1..Len(w) -> Nat] :
        /\ \A j \in 1..Len(w) : at[j] \in D /\ at[j] <= i /\ w[j] = s[at[j]]
        /\ \A j, l \in 1..Len(w) : j < l => at[j] < at[l]
        /\ \A d \in D : d <= i => \E j \in 1..Len(w) : at[j] = d

LEMMA ListsAppend ==
  ASSUME NEW S, NEW s \in Seq(S), NEW D, D \subseteq 1..Len(s), NEW i \in D,
         NEW w \in Seq(S), Lists(w, s, D, i - 1)
  PROVE  Append(w, s[i]) \in Seq(S) /\ Lists(Append(w, s[i]), s, D, i)
<1> DEFINE u == Append(w, s[i])
           n == Len(w)
<1>1. i \in 1..Len(s) /\ Len(s) \in Nat /\ i \in Nat /\ D \subseteq Nat
  BY LenProperties
<1>2. s[i] \in S /\ n \in Nat
  BY <1>1, ElementOfSeq, LenProperties
<1>3. /\ u \in Seq(S) /\ Len(u) = n + 1 /\ u[n + 1] = s[i]
      /\ \A j \in 1..n : u[j] = w[j]
  BY <1>2, AppendProperties
<1>4. PICK at \in [1..n -> Nat] :
        /\ \A j \in 1..n : at[j] \in D /\ at[j] <= i - 1 /\ w[j] = s[at[j]]
        /\ \A j, l \in 1..n : j < l => at[j] < at[l]
        /\ \A d \in D : d <= i - 1 => \E j \in 1..n : at[j] = d
  BY DEF Lists
<1> HIDE DEF u, n
<1> DEFINE to == [j \in 1..n + 1 |-> IF j = n + 1 THEN i ELSE at[j]]
<1>5. to[n + 1] = i /\ \A j \in 1..n : to[j] = at[j]
  BY <1>2
<1>6. to \in [1..n + 1 -> Nat]
  BY <1>1, <1>2, <1>4
<1> HIDE DEF to
<1>7. \A j \in 1..n + 1 : j = n + 1 \/ j \in 1..n
  BY <1>2
<1>8. \A j \in 1..n + 1 : to[j] \in D /\ to[j] <= i /\ u[j] = s[to[j]]
  <2>1. \A j \in 1..n : to[j] \in D /\ to[j] <= i /\ u[j] = s[to[j]]
    BY <1>1, <1>3, <1>4, <1>5
  <2>2. QED
    BY <1>1, <1>3, <1>5, <1>7, <2>1
<1>9. \A j, l \in 1..n + 1 : j < l => to[j] < to[l]
  <2>1. ASSUME NEW j \in 1..n + 1, NEW l \in 1..n + 1, j < l PROVE to[j] < to[l]
    <3>1. j \in 1..n
      BY <1>2, <2>1
    <3>2. to[j] \in Nat /\ to[j] <= i - 1
      BY <1>4, <1>5, <3>1
    <3>3. CASE l = n + 1
      BY <1>1, <1>5, <3>2, <3>3
    <3>4. CASE l \in 1..n
      BY <1>4, <1>5, <2>1, <3>1, <3>4
    <3>5. QED
      BY <1>7, <3>3, <3>4
  <2>2. QED
    BY <2>1
<1>10. \A d \in D : d <= i => \E j \in 1..n + 1 : to[j] = d
  <2>1. ASSUME NEW d \in D, d <= i PROVE \E j \in 1..n + 1 : to[j] = d
    <3>1. CASE d = i
      BY <1>2, <1>5, <3>1
    <3>2. CASE d # i
      <4>1. d <= i - 1
        BY <1>1, <2>1, <3>2
      <4>2. PICK j \in 1..n : at[j] = d
        BY <1>4, <4>1
      <4>3. j \in 1..n + 1
        BY <1>2
      <4>4. QED
        BY <1>5, <4>2, <4>3
    <3>3. QED
      BY <3>1, <3>2
  <2>2. QED
    BY <2>1
<1>11. Lists(u, s, D, i)
  <2>1. to \in [1..Len(u) -> Nat]
    BY <1>3, <1>6
  <2>2. \A j \in 1..Len(u) : to[j] \in D /\ to[j] <= i /\ u[j] = s[to[j]]
    BY <1>3, <1>8
  <2>3. \A j, l \in 1..Len(u) : j < l => to[j] < to[l]
    BY <1>3, <1>9
  <2>4. \A d \in D : d <= i => \E j \in 1..Len(u) : to[j] = d
    BY <1>3, <1>10
  <2>5. QED
    BY <2>1, <2>2, <2>3, <2>4, Zenon DEF Lists
<1>12. QED
  BY <1>3, <1>11 DEF u

\* Selected lists its sequence at the positions asked for.
LEMMA SelectedLists ==
  ASSUME NEW S, NEW s \in Seq(S), NEW D, D \subseteq 1..Len(s)
  PROVE  Selected(s, D) \in Seq(S) /\ Lists(Selected(s, D), s, D, Len(s))
<1> DEFINE n == Len(s)
           P == [i \in 0..n |-> {w \in Seq(S) : Lists(w, s, D, i)}]
           g == [i \in 1..n |-> [w \in P[i - 1] |-> IF i \in D THEN Append(w, s[i]) ELSE w]]
           sel[i \in 0..n] ==
             IF i = 0 THEN <<>> ELSE IF i \in D THEN Append(sel[i - 1], s[i]) ELSE sel[i - 1]
<1>1. n \in Nat
  BY LenProperties
<1>2. <<>> \in P[0]
  <2>1. Lists(<<>>, s, D, 0)
    <3>1. Len(<<>>) = 0 /\ \A d \in D : ~(d <= 0)
      BY <1>1
    <3>2. [j \in 1..0 |-> 0] \in [1..0 -> Nat] /\ 1..0 = {}
      OBVIOUS
    <3>3. QED
      BY <3>1, <3>2 DEF Lists
  <2>2. <<>> \in Seq(S)
    BY EmptySeq
  <2>3. QED
    BY <1>1, <2>1, <2>2
<1>3. ASSUME NEW i \in 1..n, NEW w \in P[i - 1]
      PROVE  (IF i \in D THEN Append(w, s[i]) ELSE w) \in P[i]
  <2>1. i - 1 \in 0..n /\ i \in 0..n /\ i \in Nat
    BY <1>1
  <2>2. w \in Seq(S) /\ Lists(w, s, D, i - 1)
    BY <2>1
  <2>3. CASE i \in D
    <3>1. Append(w, s[i]) \in Seq(S) /\ Lists(Append(w, s[i]), s, D, i)
      BY <2>2, <2>3, ListsAppend
    <3>2. QED
      BY <2>1, <2>3, <3>1
  <2>4. CASE i \notin D
    <3>1. \A d \in D : d <= i => d <= i - 1
      BY <1>1, <2>1, <2>4
    <3>2. \A d \in Nat : d <= i - 1 => d <= i
      BY <2>1
    <3>3. Lists(w, s, D, i)
      BY <2>2, <3>1, <3>2 DEF Lists
    <3>4. QED
      BY <2>1, <2>2, <2>4, <3>3
  <2>5. QED
    BY <2>3, <2>4
<1> HIDE DEF P
<1>4. \A i \in 1..n : \A w \in P[i - 1] :
        g[i][w] = (IF i \in D THEN Append(w, s[i]) ELSE w) /\ g[i][w] \in P[i]
  BY <1>3
<1> HIDE DEF g, n
<1>5. PICK f : Unrolled(f, n, <<>>, g) /\ \A i \in 0..n : f[i] \in P[i]
  <2>1. \A i \in 1..n : \A w \in P[i - 1] : g[i][w] \in P[i]
    BY <1>4
  <2>2. QED
    BY <1>1, <1>2, <2>1, Recursion, Zenon
<1>6. f = [i \in 0..n |->
             IF i = 0 THEN <<>> ELSE IF i \in D THEN Append(f[i - 1], s[i]) ELSE f[i - 1]]
  <2>1. \A i \in 0..n : f[i] =
             IF i = 0 THEN <<>> ELSE IF i \in D THEN Append(f[i - 1], s[i]) ELSE f[i - 1]
    <3>1. ASSUME NEW i \in 0..n PROVE f[i] =
             IF i = 0 THEN <<>> ELSE IF i \in D THEN Append(f[i - 1], s[i]) ELSE f[i - 1]
      <4>1. f[i] = IF i = 0 THEN <<>> ELSE g[i][f[i - 1]]
        BY <1>5 DEF Unrolled
      <4>2. i # 0 => i \in 1..n /\ i - 1 \in 0..n
        BY <1>1
      <4>3. i # 0 => f[i - 1] \in P[i - 1]
        BY <1>5, <4>2
      <4>4. QED
        BY <1>4, <4>1, <4>2, <4>3
    <3>2. QED
      BY <3>1
  <2>2. f = [i \in 0..n |-> f[i]]
    BY <1>5 DEF Unrolled
  <2>3. QED
    BY <2>1, <2>2
<1>7. sel = [i \in 0..n |->
               IF i = 0 THEN <<>> ELSE IF i \in D THEN Append(sel[i - 1], s[i]) ELSE sel[i - 1]]
  BY <1>6
<1>8. Selected(s, D) = sel[n]
  BY DEF Selected, n
<1> HIDE DEF sel
<1>9. 0..n \subseteq {i \in 0..n : sel[i] \in P[i]}
  <2> DEFINE T == {i \in 0..n : sel[i] \in P[i]}
  <2>1. 0 \in T
    BY <1>1, <1>2, <1>7
  <2>2. ASSUME NEW i \in 1..n, i - 1 \in T PROVE i \in T
    <3>1. i \in 0..n /\ i # 0 /\ sel[i - 1] \in P[i - 1]
      BY <1>1, <2>2
    <3>2. sel[i] = g[i][sel[i - 1]]
      BY <1>4, <1>7, <3>1
    <3>3. QED
      BY <1>4, <3>1, <3>2
  <2> HIDE DEF T
  <2>3. 0..n \subseteq T
    BY <1>1, <2>1, <2>2, Reaches
  <2>4. QED
    BY <2>3 DEF T
<1>10. sel[n] \in P[n]
  BY <1>1, <1>9
<1>11. QED
  BY <1>1, <1>8, <1>10 DEF P, n

-----------------------------------------------------------------------------
(* An element put into a sequence and one taken out of it. *)

LEMMA Joined ==
  ASSUME NEW S, NEW s \in Seq(S), NEW t \in Seq(S), NEW n, NEW m, Len(s) = n, Len(t) = m
  PROVE  /\ s \o t \in Seq(S) /\ Len(s \o t) = n + m
         /\ \A j \in 1..n + m : (s \o t)[j] = IF j <= n THEN s[j] ELSE t[j - n]
BY ConcatProperties

LEMMA Inserted ==
  ASSUME NEW S, NEW s \in Seq(S), NEW i \in 1..Len(s) + 1, NEW e \in S
  PROVE  /\ InsertAt(s, i, e) \in Seq(S) /\ Len(InsertAt(s, i, e)) = Len(s) + 1
         /\ \A j \in 1..Len(s) + 1 : InsertAt(s, i, e)[j] =
              IF j < i THEN s[j] ELSE IF j = i THEN e ELSE s[j - 1]
<1> DEFINE n == Len(s)
           a == SubSeq(s, 1, i - 1)
           b == SubSeq(s, i, n)
           c == a \o <<e>>
<1>1. n \in Nat /\ i \in Int /\ 1 <= i /\ i <= n + 1 /\ \A j \in 1..n : s[j] \in S
  BY LenProperties, ElementOfSeq
<1>2. a \in Seq(S) /\ Len(a) = i - 1 /\ \A j \in 1..i - 1 : a[j] = s[j]
  <2>1. i - 1 \in Int /\ \A j \in 1..i - 1 : s[j] \in S
    BY <1>1
  <2>2. /\ a \in Seq(S) /\ Len(a) = IF 1 <= i - 1 THEN (i - 1) - 1 + 1 ELSE 0
        /\ \A j \in 1..(i - 1) - 1 + 1 : a[j] = s[1 + j - 1]
    BY <2>1, SubSeqProperties
  <2>3. (IF 1 <= i - 1 THEN (i - 1) - 1 + 1 ELSE 0) = i - 1 /\ (i - 1) - 1 + 1 = i - 1
    BY <1>1
  <2>4. \A j \in 1..i - 1 : 1 + j - 1 = j
    BY <1>1
  <2>5. QED
    BY <2>2, <2>3, <2>4
<1>3. b \in Seq(S) /\ Len(b) = n - i + 1 /\ \A j \in 1..n - i + 1 : b[j] = s[i + j - 1]
  <2>1. n \in Int /\ \A j \in i..n : s[j] \in S
    BY <1>1
  <2>2. /\ b \in Seq(S) /\ Len(b) = IF i <= n THEN n - i + 1 ELSE 0
        /\ \A j \in 1..n - i + 1 : b[j] = s[i + j - 1]
    BY <1>1, <2>1, SubSeqProperties
  <2>3. (IF i <= n THEN n - i + 1 ELSE 0) = n - i + 1
    BY <1>1
  <2>4. QED
    BY <2>2, <2>3
<1>4. <<e>> \in Seq(S) /\ Len(<<e>>) = 1 /\ <<e>>[1] = e
  OBVIOUS
<1>5. InsertAt(s, i, e) = c \o b
  BY DEF InsertAt
<1> HIDE DEF a, b, n
<1>6. /\ c \in Seq(S) /\ Len(c) = i
      /\ \A j \in 1..i : c[j] = IF j <= i - 1 THEN a[j] ELSE <<e>>[j - (i - 1)]
  <2>1. /\ c \in Seq(S) /\ Len(c) = (i - 1) + 1
        /\ \A j \in 1..(i - 1) + 1 : c[j] = IF j <= i - 1 THEN a[j] ELSE <<e>>[j - (i - 1)]
    BY <1>2, <1>4, ConcatProperties
  <2>2. (i - 1) + 1 = i
    BY <1>1
  <2>3. QED
    BY <2>1, <2>2
<1>7. \A j \in 1..i : c[j] = IF j < i THEN s[j] ELSE e
  <2>1. ASSUME NEW j \in 1..i PROVE c[j] = IF j < i THEN s[j] ELSE e
    <3>1. CASE j < i
      <4>1. j <= i - 1 /\ j \in 1..i - 1
        BY <1>1, <3>1
      <4>2. QED
        BY <1>2, <1>6, <3>1, <4>1
    <3>2. CASE ~(j < i)
      <4>1. j = i /\ ~(j <= i - 1) /\ j - (i - 1) = 1
        BY <1>1, <3>2
      <4>2. c[j] = <<e>>[j - (i - 1)]
        BY <1>6, <4>1
      <4>3. QED
        BY <1>4, <3>2, <4>1, <4>2
    <3>3. QED
      BY <3>1, <3>2
  <2>2. QED
    BY <2>1
<1> HIDE DEF c
<1>8. /\ c \o b \in Seq(S) /\ Len(c \o b) = n + 1
      /\ \A j \in 1..n + 1 : (c \o b)[j] = IF j <= i THEN c[j] ELSE b[j - i]
  <2>1. /\ c \o b \in Seq(S) /\ Len(c \o b) = i + (n - i + 1)
        /\ \A j \in 1..i + (n - i + 1) : (c \o b)[j] = IF j <= i THEN c[j] ELSE b[j - i]
    <3>1. Len(c) = i /\ Len(b) = n - i + 1 /\ b \in Seq(S) /\ c \in Seq(S)
      BY <1>3, <1>6
    <3>2. QED
      BY <3>1, Joined
  <2>2. i + (n - i + 1) = n + 1
    BY <1>1
  <2>3. QED
    BY <2>1, <2>2
<1>9. \A j \in 1..n + 1 : (c \o b)[j] = IF j < i THEN s[j] ELSE IF j = i THEN e ELSE s[j - 1]
  <2>1. ASSUME NEW j \in 1..n + 1
        PROVE  (c \o b)[j] = IF j < i THEN s[j] ELSE IF j = i THEN e ELSE s[j - 1]
    <3>1. CASE j <= i
      <4>1. j \in 1..i /\ (j < i \/ j = i) /\ (j = i => ~(j < i))
        BY <1>1, <3>1
      <4>2. QED
        BY <1>7, <1>8, <3>1, <4>1
    <3>2. CASE ~(j <= i)
      <4>1. j - i \in 1..n - i + 1 /\ i + (j - i) - 1 = j - 1 /\ ~(j < i) /\ j # i
        BY <1>1, <3>2
      <4>2. QED
        BY <1>3, <1>8, <3>2, <4>1
    <3>3. QED
      BY <3>1, <3>2
  <2>2. QED
    BY <2>1
<1>10. QED
  BY <1>5, <1>8, <1>9 DEF n

LEMMA Removed ==
  ASSUME NEW S, NEW s \in Seq(S), NEW i \in 1..Len(s)
  PROVE  /\ RemoveAt(s, i) \in Seq(S) /\ Len(RemoveAt(s, i)) = Len(s) - 1
         /\ \A j \in 1..Len(s) - 1 : RemoveAt(s, i)[j] = IF j < i THEN s[j] ELSE s[j + 1]
<1> DEFINE n == Len(s)
           a == SubSeq(s, 1, i - 1)
           b == SubSeq(s, i + 1, n)
<1>1. n \in Nat /\ i \in Int /\ 1 <= i /\ i <= n /\ \A j \in 1..n : s[j] \in S
  BY LenProperties, ElementOfSeq
<1>2. a \in Seq(S) /\ Len(a) = i - 1 /\ \A j \in 1..i - 1 : a[j] = s[j]
  <2>1. i - 1 \in Int /\ \A j \in 1..i - 1 : s[j] \in S
    BY <1>1
  <2>2. /\ a \in Seq(S) /\ Len(a) = IF 1 <= i - 1 THEN (i - 1) - 1 + 1 ELSE 0
        /\ \A j \in 1..(i - 1) - 1 + 1 : a[j] = s[1 + j - 1]
    BY <2>1, SubSeqProperties
  <2>3. (IF 1 <= i - 1 THEN (i - 1) - 1 + 1 ELSE 0) = i - 1 /\ (i - 1) - 1 + 1 = i - 1
    BY <1>1
  <2>4. \A j \in 1..i - 1 : 1 + j - 1 = j
    BY <1>1
  <2>5. QED
    BY <2>2, <2>3, <2>4
<1>3. b \in Seq(S) /\ Len(b) = n - i /\ \A j \in 1..n - i : b[j] = s[i + j]
  <2>1. i + 1 \in Int /\ n \in Int /\ \A j \in i + 1..n : s[j] \in S
    BY <1>1
  <2>2. /\ b \in Seq(S) /\ Len(b) = IF i + 1 <= n THEN n - (i + 1) + 1 ELSE 0
        /\ \A j \in 1..n - (i + 1) + 1 : b[j] = s[i + 1 + j - 1]
    BY <2>1, SubSeqProperties
  <2>3. (IF i + 1 <= n THEN n - (i + 1) + 1 ELSE 0) = n - i /\ n - (i + 1) + 1 = n - i
    BY <1>1
  <2>4. \A j \in 1..n - i : i + 1 + j - 1 = i + j
    BY <1>1
  <2>5. QED
    BY <2>2, <2>3, <2>4
<1>4. RemoveAt(s, i) = a \o b
  BY DEF RemoveAt
<1> HIDE DEF a, b, n
<1>5. /\ a \o b \in Seq(S) /\ Len(a \o b) = n - 1
      /\ \A j \in 1..n - 1 : (a \o b)[j] = IF j <= i - 1 THEN a[j] ELSE b[j - (i - 1)]
  <2>1. /\ a \o b \in Seq(S) /\ Len(a \o b) = (i - 1) + (n - i)
        /\ \A j \in 1..(i - 1) + (n - i) :
             (a \o b)[j] = IF j <= i - 1 THEN a[j] ELSE b[j - (i - 1)]
    <3>1. Len(a) = i - 1 /\ Len(b) = n - i /\ a \in Seq(S) /\ b \in Seq(S)
      BY <1>2, <1>3
    <3>2. QED
      BY <3>1, Joined
  <2>2. (i - 1) + (n - i) = n - 1
    BY <1>1
  <2>3. QED
    BY <2>1, <2>2
<1>6. \A j \in 1..n - 1 : (a \o b)[j] = IF j < i THEN s[j] ELSE s[j + 1]
  <2>1. ASSUME NEW j \in 1..n - 1 PROVE (a \o b)[j] = IF j < i THEN s[j] ELSE s[j + 1]
    <3>1. CASE j < i
      <4>1. j \in 1..i - 1 /\ j <= i - 1
        BY <1>1, <3>1
      <4>2. QED
        BY <1>2, <1>5, <3>1, <4>1
    <3>2. CASE ~(j < i)
      <4>1. j - (i - 1) \in 1..n - i /\ ~(j <= i - 1) /\ i + (j - (i - 1)) = j + 1
        BY <1>1, <3>2
      <4>2. QED
        BY <1>3, <1>5, <3>2, <4>1
    <3>3. QED
      BY <3>1, <3>2
  <2>2. QED
    BY <2>1
<1>7. QED
  BY <1>4, <1>5, <1>6 DEF n

-----------------------------------------------------------------------------
(* The reconciled list. *)

Entries == [key : Keys, name : Names, idle : BOOLEAN, fresh : BOOLEAN]
RowsIn == [key : Keys, name : Names, idle : BOOLEAN]

\* The entry a row becomes, with a new delegate or the one it had.
Entry(row, new) == [key |-> row.key, name |-> row.name, idle |-> row.idle, fresh |-> new]

Distinct(s) == \A i, j \in 1..Len(s) : i # j => s[i].key # s[j].key

HasKey(s, k) == \E j \in 1..Len(s) : s[j].key = k

\* After i passes over a list that had the keys in K: the first i rows are in place,
\* behind them are rows that stay, and none of those is missing.
InShape(m, rows, K, i) ==
    /\ m \in Seq(Entries)
    /\ i <= Len(m)
    /\ \A j \in 1..i : m[j] = Entry(rows[j], rows[j].key \notin K)
    /\ \A j \in 1..Len(m) : i < j => m[j].key \in K /\ HasKey(rows, m[j].key)
    /\ Distinct(m)
    /\ \A k \in K : HasKey(rows, k) => HasKey(m, k)

\* u is m without the row of key k, and something at i instead: what was before i
\* stays where it was, and what was behind it stays behind it.
Rearranged(u, m, old, k, i) ==
    /\ \A j \in 1..i - 1 : old[j] = j
    /\ \A j \in 1..Len(u) : j # i =>
          /\ old[j] \in 1..Len(m) /\ u[j] = m[old[j]] /\ m[old[j]].key # k
          /\ i < j => i <= old[j]
    /\ \A j, l \in 1..Len(u) : j # i /\ l # i /\ j # l => old[j] # old[l]
    /\ \A l \in 1..Len(m) : m[l].key # k => \E j \in 1..Len(u) : j # i /\ old[j] = l

LEMMA RearrangedIsInShape ==
  ASSUME NEW rows \in Seq(RowsIn), Distinct(rows), NEW K, NEW i \in 1..Len(rows),
         NEW m, InShape(m, rows, K, i - 1),
         NEW u \in Seq(Entries), i <= Len(u), NEW old,
         Rearranged(u, m, old, rows[i].key, i),
         u[i] = Entry(rows[i], rows[i].key \notin K)
  PROVE  InShape(u, rows, K, i)
<1>1. i \in Nat /\ 1 <= i /\ Len(u) \in Nat /\ Len(m) \in Nat
  BY LenProperties DEF InShape
<1>2. u[i].key = rows[i].key
  BY DEF Entry
<1>3. \A j \in 1..i : u[j] = Entry(rows[j], rows[j].key \notin K)
  <2>1. ASSUME NEW j \in 1..i PROVE u[j] = Entry(rows[j], rows[j].key \notin K)
    <3>1. CASE j = i
      BY <3>1
    <3>2. CASE j # i
      <4>1. j \in 1..i - 1 /\ j \in 1..Len(u)
        BY <1>1, <3>2
      <4>2. u[j] = m[j]
        BY <3>2, <4>1 DEF Rearranged
      <4>3. QED
        BY <4>1, <4>2 DEF InShape
    <3>3. QED
      BY <3>1, <3>2
  <2>2. QED
    BY <2>1
<1>4. \A j \in 1..Len(u) : i < j => u[j].key \in K /\ HasKey(rows, u[j].key)
  <2>1. ASSUME NEW j \in 1..Len(u), i < j PROVE u[j].key \in K /\ HasKey(rows, u[j].key)
    <3>1. j # i
      BY <1>1, <2>1
    <3>2. old[j] \in 1..Len(m) /\ u[j] = m[old[j]] /\ i <= old[j]
      BY <2>1, <3>1 DEF Rearranged
    <3>3. i - 1 < old[j]
      BY <1>1, <3>2
    <3>4. QED
      BY <3>2, <3>3 DEF InShape
  <2>2. QED
    BY <2>1
<1>5. Distinct(u)
  <2>1. ASSUME NEW j \in 1..Len(u), NEW l \in 1..Len(u), j # l
        PROVE  u[j].key # u[l].key
    <3>1. \A n \in 1..Len(u) : n # i => u[n].key # u[i].key
      BY <1>2 DEF Rearranged
    <3>2. CASE j = i \/ l = i
      BY <2>1, <3>1, <3>2
    <3>3. CASE j # i /\ l # i
      <4>1. old[j] # old[l] /\ old[j] \in 1..Len(m) /\ old[l] \in 1..Len(m)
            /\ u[j] = m[old[j]] /\ u[l] = m[old[l]]
        BY <2>1, <3>3 DEF Rearranged
      <4>2. QED
        BY <4>1 DEF InShape, Distinct
    <3>4. QED
      BY <3>2, <3>3
  <2>2. QED
    BY <2>1 DEF Distinct
<1>6. \A k \in K : HasKey(rows, k) => HasKey(u, k)
  <2>1. ASSUME NEW k \in K, HasKey(rows, k) PROVE HasKey(u, k)
    <3>1. CASE k = rows[i].key
      <4>1. i \in 1..Len(u)
        BY <1>1
      <4>2. QED
        BY <1>2, <3>1, <4>1 DEF HasKey
    <3>2. CASE k # rows[i].key
      <4>1. PICK l \in 1..Len(m) : m[l].key = k
        BY <2>1 DEF InShape, HasKey
      <4>2. PICK j \in 1..Len(u) : j # i /\ old[j] = l
        BY <3>2, <4>1 DEF Rearranged
      <4>3. u[j] = m[l]
        BY <4>2 DEF Rearranged
      <4>4. QED
        BY <4>1, <4>3 DEF HasKey
    <3>3. QED
      BY <3>1, <3>2
  <2>2. QED
    BY <2>1
<1>7. QED
  BY <1>3, <1>4, <1>5, <1>6 DEF InShape

\* One pass puts one more row in its place.
LEMMA PlacedIsInShape ==
  ASSUME NEW rows \in Seq(RowsIn), Distinct(rows), NEW K, NEW i \in 1..Len(rows),
         NEW m, InShape(m, rows, K, i - 1)
  PROVE  InShape(Placed(m, i, rows[i]), rows, K, i)
<1> DEFINE n == Len(m)
           k == rows[i].key
           further == {j \in i..n : m[j].key = k}
           from == CHOOSE j \in further : \A l \in further : j <= l
<1>1. /\ i \in Nat /\ 1 <= i /\ i <= n + 1 /\ n \in Nat /\ m \in Seq(Entries)
      /\ rows[i] \in RowsIn
  <2>1. m \in Seq(Entries) /\ i - 1 <= n /\ n \in Nat
    BY LenProperties DEF InShape
  <2>2. rows[i] \in RowsIn
    BY ElementOfSeq
  <2>3. QED
    BY <2>1, <2>2, LenProperties
<1>2. Entry(rows[i], TRUE) \in Entries /\ Entry(rows[i], FALSE) \in Entries
  BY <1>1 DEF Entry, Entries, RowsIn
<1>3. \A j \in 1..i - 1 : m[j].key # k
  <2>1. ASSUME NEW j \in 1..i - 1 PROVE m[j].key # k
    <3>1. m[j] = Entry(rows[j], rows[j].key \notin K)
      BY DEF InShape
    <3>2. j \in 1..Len(rows) /\ j # i
      BY <1>1
    <3>3. QED
      BY <3>1, <3>2 DEF Distinct, Entry
  <2>2. QED
    BY <2>1
<1>4. HasKey(rows, k)
  BY DEF HasKey
<1>5. CASE further = {}
  <2> DEFINE e == Entry(rows[i], TRUE)
             u == InsertAt(m, i, e)
             old == [j \in 1..n + 1 |-> IF j < i THEN j ELSE j - 1]
  <2>1. Placed(m, i, rows[i]) = u
    BY <1>5 DEF Placed, Entry
  <2>0. e \in Entries
    BY <1>2
  <2> HIDE DEF e
  <2>2. \A j \in 1..n : m[j].key # k
    <3>1. \A j \in 1..n : j \in 1..i - 1 \/ j \in i..n
      BY <1>1
    <3>2. QED
      BY <1>3, <1>5, <3>1
  <2>3. k \notin K
    BY <1>4, <2>2 DEF InShape, HasKey
  <2>4. /\ u \in Seq(Entries) /\ Len(u) = n + 1
        /\ \A j \in 1..n + 1 : u[j] =
             IF j < i THEN m[j] ELSE IF j = i THEN e ELSE m[j - 1]
    <3>1. i \in 1..n + 1
      BY <1>1
    <3>2. QED
      BY <1>1, <2>0, <3>1, Inserted
  <2>5. \A j \in 1..n + 1 : old[j] = IF j < i THEN j ELSE j - 1
    OBVIOUS
  <2> HIDE DEF u, old
  <2>6. u[i] = e /\ i <= Len(u)
    <3>1. i \in 1..n + 1 /\ ~(i < i) /\ i <= n + 1
      BY <1>1
    <3>2. QED
      BY <2>4, <3>1
  <2>7. \A j \in 1..i - 1 : old[j] = j
    BY <1>1, <2>5
  <2>8. \A j \in 1..n + 1 : j # i =>
          /\ old[j] \in 1..n /\ u[j] = m[old[j]] /\ m[old[j]].key # k
          /\ i < j => i <= old[j]
    <3>1. ASSUME NEW j \in 1..n + 1, j # i
          PROVE  /\ old[j] \in 1..n /\ u[j] = m[old[j]] /\ m[old[j]].key # k
                 /\ i < j => i <= old[j]
      <4>1. old[j] \in 1..n /\ (i < j => i <= old[j])
        BY <1>1, <2>5, <3>1
      <4>2. u[j] = m[old[j]]
        BY <2>4, <2>5, <3>1
      <4>3. QED
        BY <2>2, <4>1, <4>2
    <3>2. QED
      BY <3>1
  <2>9. \A j, l \in 1..n + 1 : j # i /\ l # i /\ j # l => old[j] # old[l]
    BY <1>1, <2>5
  <2>10. \A l \in 1..n : \E j \in 1..n + 1 : j # i /\ old[j] = l
    <3>1. ASSUME NEW l \in 1..n PROVE \E j \in 1..n + 1 : j # i /\ old[j] = l
      <4>1. CASE l < i
        BY <1>1, <2>5, <4>1
      <4>2. CASE ~(l < i)
        <5>1. l + 1 \in 1..n + 1 /\ l + 1 # i /\ ~(l + 1 < i) /\ l + 1 - 1 = l
          BY <1>1, <4>2
        <5>2. old[l + 1] = l
          BY <2>5, <5>1
        <5>3. QED
          BY <5>1, <5>2, Zenon
      <4>3. QED
        BY <4>1, <4>2
    <3>2. QED
      BY <3>1
  <2>11. Rearranged(u, m, old, k, i)
    BY <2>4, <2>7, <2>8, <2>9, <2>10, Zenon DEF Rearranged, n
  <2>12. QED
    BY <2>1, <2>3, <2>4, <2>6, <2>11, RearrangedIsInShape DEF e
<1>6. CASE further # {}
  <2> DEFINE e == Entry(rows[i], FALSE)
             v == RemoveAt(m, from)
             u == InsertAt(v, i, e)
             old == [j \in 1..n |-> IF j < i THEN j ELSE IF j <= from THEN j - 1 ELSE j]
  <2>1. Placed(m, i, rows[i]) = u
    BY <1>6 DEF Placed, Entry
  <2>0. e \in Entries
    BY <1>2
  <2> HIDE DEF e
  <2>2. from \in i..n /\ m[from].key = k
    <3>1. PICK j \in further : TRUE
      BY <1>6
    <3>2. \A a, b \in further : a = b
      <4>1. \A a \in further : a \in 1..Len(m) /\ m[a].key = k
        BY <1>1
      <4>2. QED
        BY <4>1 DEF InShape, Distinct
    <3>3. \A l \in further : j <= l
      BY <1>1, <3>2
    <3>4. from \in further
      BY <3>3
    <3>5. QED
      BY <3>4
  <2> HIDE DEF from
  <2>3. from \in Nat /\ i <= from /\ from <= n /\ from \in 1..n
    BY <1>1, <2>2
  <2>4. \A j \in 1..n : j # from => m[j].key # k
    BY <2>2, <2>3 DEF InShape, Distinct
  <2>5. k \in K
    <3>1. i - 1 < from
      BY <1>1, <2>3
    <3>2. m[from].key \in K
      BY <2>3, <3>1 DEF InShape
    <3>3. QED
      BY <2>2, <3>2
  <2>6. /\ v \in Seq(Entries) /\ Len(v) = n - 1
        /\ \A j \in 1..n - 1 : v[j] = IF j < from THEN m[j] ELSE m[j + 1]
    BY <1>1, <2>3, Removed
  <2> HIDE DEF v
  <2>7. n - 1 + 1 = n /\ i \in 1..n
    BY <1>1, <2>3
  <2>8. /\ u \in Seq(Entries) /\ Len(u) = n
        /\ \A j \in 1..n : u[j] =
             IF j < i THEN v[j] ELSE IF j = i THEN e ELSE v[j - 1]
    <3>1. i \in 1..Len(v) + 1
      BY <2>6, <2>7
    <3>2. /\ u \in Seq(Entries) /\ Len(u) = Len(v) + 1
          /\ \A j \in 1..Len(v) + 1 : u[j] =
               IF j < i THEN v[j] ELSE IF j = i THEN e ELSE v[j - 1]
      BY <2>0, <2>6, <3>1, Inserted
    <3>3. Len(v) + 1 = n
      BY <2>6, <2>7
    <3>4. QED
      BY <3>2, <3>3
  <2>9. \A j \in 1..n : old[j] = IF j < i THEN j ELSE IF j <= from THEN j - 1 ELSE j
    OBVIOUS
  <2> HIDE DEF u, old
  <2>10. u[i] = e /\ i <= Len(u)
    <3>1. ~(i < i) /\ i <= n
      BY <1>1, <2>7
    <3>2. QED
      BY <2>7, <2>8, <3>1
  <2>11. \A j \in 1..i - 1 : old[j] = j
    BY <1>1, <2>7, <2>9
  <2>12. \A j \in 1..n : j # i =>
          /\ old[j] \in 1..n /\ u[j] = m[old[j]] /\ m[old[j]].key # k
          /\ i < j => i <= old[j]
    <3>1. ASSUME NEW j \in 1..n, j # i
          PROVE  /\ old[j] \in 1..n /\ u[j] = m[old[j]] /\ m[old[j]].key # k
                 /\ i < j => i <= old[j]
      <4>1. old[j] \in 1..n /\ (i < j => i <= old[j]) /\ old[j] # from
        BY <1>1, <2>3, <2>9, <3>1
      <4>2. u[j] = m[old[j]]
        <5>1. CASE j < i
          <6>1. j \in 1..n - 1 /\ j < from
            BY <1>1, <2>3, <5>1
          <6>2. QED
            BY <2>6, <2>8, <2>9, <5>1, <6>1
        <5>2. CASE ~(j < i) /\ j <= from
          <6>1. j - 1 \in 1..n - 1 /\ j - 1 < from
            BY <1>1, <2>3, <3>1, <5>2
          <6>2. QED
            BY <2>6, <2>8, <2>9, <3>1, <5>2, <6>1
        <5>3. CASE ~(j < i) /\ ~(j <= from)
          <6>1. j - 1 \in 1..n - 1 /\ ~(j - 1 < from) /\ j - 1 + 1 = j
            BY <1>1, <2>3, <3>1, <5>3
          <6>2. QED
            BY <2>6, <2>8, <2>9, <3>1, <5>3, <6>1
        <5>4. QED
          BY <5>1, <5>2, <5>3
      <4>3. QED
        BY <2>4, <4>1, <4>2
    <3>2. QED
      BY <3>1
  <2>13. \A j, l \in 1..n : j # i /\ l # i /\ j # l => old[j] # old[l]
    BY <1>1, <2>3, <2>9
  <2>14. \A l \in 1..n : m[l].key # k => \E j \in 1..n : j # i /\ old[j] = l
    <3>1. ASSUME NEW l \in 1..n, l # from PROVE \E j \in 1..n : j # i /\ old[j] = l
      <4>1. CASE l < i
        BY <1>1, <2>9, <4>1
      <4>2. CASE ~(l < i) /\ l < from
        <5>1. l + 1 \in 1..n /\ l + 1 # i /\ ~(l + 1 < i) /\ l + 1 - 1 = l /\ l + 1 <= from
          BY <1>1, <2>3, <4>2
        <5>2. QED
          BY <2>9, <5>1
      <4>3. CASE ~(l < i) /\ ~(l < from)
        <5>1. l # i /\ ~(l <= from)
          BY <1>1, <2>3, <3>1, <4>3
        <5>2. QED
          BY <2>9, <4>3, <5>1
      <4>4. QED
        BY <4>1, <4>2, <4>3
    <3>2. QED
      BY <2>2, <3>1
  <2>15. Rearranged(u, m, old, k, i)
    BY <2>8, <2>11, <2>12, <2>13, <2>14, Zenon DEF Rearranged, n
  <2>16. QED
    BY <2>1, <2>5, <2>8, <2>10, <2>15, RearrangedIsInShape DEF e
<1>7. QED
  BY <1>5, <1>6

LEMMA KeysAreHad ==
  ASSUME NEW S, NEW s \in Seq(S), NEW k
  PROVE  k \in KeysOf(s) <=> HasKey(s, k)
<1>1. DOMAIN s = 1..Len(s)
  BY LenProperties
<1>2. QED
  BY <1>1 DEF KeysOf, HasKey

\* What is left before the first pass.
LEMMA SurvivingIsInShape ==
  ASSUME model \in Seq(Entries), Distinct(model), NEW rows \in Seq(RowsIn)
  PROVE  InShape(Surviving(rows), rows, KeysOf(model), 0)
<1> DEFINE D == {i \in DOMAIN model : model[i].key \in KeysOf(rows)}
           w == Surviving(rows)
           n == Len(w)
<1>1. DOMAIN model = 1..Len(model) /\ Len(model) \in Nat
  BY LenProperties
<1>2. D \subseteq 1..Len(model)
  BY <1>1
<1>3. w = Selected(model, D)
  BY DEF Surviving
<1> HIDE DEF w, D
<1>4. w \in Seq(Entries) /\ Lists(w, model, D, Len(model))
  BY <1>2, <1>3, SelectedLists
<1>5. PICK at \in [1..n -> Nat] :
        /\ \A j \in 1..n : at[j] \in D /\ at[j] <= Len(model) /\ w[j] = model[at[j]]
        /\ \A j, l \in 1..n : j < l => at[j] < at[l]
        /\ \A d \in D : d <= Len(model) => \E j \in 1..n : at[j] = d
  BY <1>4 DEF Lists
<1>6. n \in Nat
  BY <1>4, LenProperties
<1> HIDE DEF n
<1>7. \A j \in 1..n : w[j].key \in KeysOf(model) /\ HasKey(rows, w[j].key)
  <2>1. \A d \in D : model[d].key \in KeysOf(model) /\ model[d].key \in KeysOf(rows)
    BY DEF D, KeysOf
  <2>2. QED
    BY <1>5, <2>1, KeysAreHad
<1>8. \A j, l \in 1..n : j # l => w[j].key # w[l].key
  <2>1. ASSUME NEW j \in 1..n, NEW l \in 1..n, j # l PROVE w[j].key # w[l].key
    <3>1. j < l \/ l < j
      BY <1>6, <2>1
    <3>2. at[j] # at[l]
      <4>1. at[j] \in Nat /\ at[l] \in Nat /\ (at[j] < at[l] \/ at[l] < at[j])
        BY <1>5, <3>1
      <4>2. QED
        BY <4>1
    <3>3. at[j] \in 1..Len(model) /\ at[l] \in 1..Len(model)
      BY <1>2, <1>5
    <3>4. model[at[j]].key # model[at[l]].key
      BY <3>2, <3>3 DEF Distinct
    <3>5. QED
      BY <1>5, <3>4
  <2>2. QED
    BY <2>1
<1>9. \A k \in KeysOf(model) : HasKey(rows, k) => \E j \in 1..n : w[j].key = k
  <2>1. ASSUME NEW k \in KeysOf(model), HasKey(rows, k)
        PROVE  \E j \in 1..n : w[j].key = k
    <3>1. k \in KeysOf(rows)
      BY <2>1, KeysAreHad
    <3>2. PICK d \in DOMAIN model : model[d].key = k
      BY DEF KeysOf
    <3>3. d \in D /\ d <= Len(model)
      BY <1>1, <3>1, <3>2 DEF D
    <3>4. PICK j \in 1..n : at[j] = d
      BY <1>5, <3>3
    <3>5. w[j].key = k
      BY <1>5, <3>2, <3>4
    <3>6. QED
      BY <3>5
  <2>2. QED
    BY <2>1
<1>10. InShape(w, rows, KeysOf(model), 0)
  <2>1. w \in Seq(Entries) /\ 0 <= Len(w) /\ 1..0 = {}
    BY <1>4, <1>6 DEF n
  <2>2. \A j \in 1..Len(w) : 0 < j => w[j].key \in KeysOf(model) /\ HasKey(rows, w[j].key)
    BY <1>7 DEF n
  <2>3. Distinct(w)
    BY <1>8 DEF Distinct, n
  <2>4. \A k \in KeysOf(model) : HasKey(rows, k) => HasKey(w, k)
    BY <1>9 DEF HasKey, n
  <2>5. QED
    BY <2>1, <2>2, <2>3, <2>4 DEF InShape
<1>11. QED
  BY <1>10 DEF w

\* The reconciled list is the rows, one for one; those that were there keep their
\* delegates.
LEMMA SyncedIsRows ==
  ASSUME model \in Seq(Entries), Distinct(model), NEW rows \in Seq(RowsIn), Distinct(rows)
  PROVE  /\ Synced(rows) \in Seq(Entries) /\ Len(Synced(rows)) = Len(rows)
         /\ \A j \in 1..Len(rows) :
              Synced(rows)[j] = Entry(rows[j], rows[j].key \notin KeysOf(model))
<1> DEFINE n == Len(rows)
           v == Surviving(rows)
           P == [i \in 0..n |-> {m \in Seq(Entries) : InShape(m, rows, KeysOf(model), i)}]
           g == [i \in 1..n |-> [m \in P[i - 1] |-> Placed(m, i, rows[i])]]
           pass[i \in 0..n] == IF i = 0 THEN v ELSE Placed(pass[i - 1], i, rows[i])
<1>1. n \in Nat
  BY LenProperties
<1>2. v \in P[0]
  <2>1. InShape(v, rows, KeysOf(model), 0)
    BY SurvivingIsInShape
  <2>2. v \in Seq(Entries)
    BY <2>1 DEF InShape
  <2>3. QED
    BY <1>1, <2>1, <2>2
<1>3. ASSUME NEW i \in 1..n, NEW m \in P[i - 1]
      PROVE  Placed(m, i, rows[i]) \in P[i]
  <2>1. i - 1 \in 0..n /\ i \in 0..n
    BY <1>1
  <2>2. InShape(m, rows, KeysOf(model), i - 1)
    BY <2>1
  <2>3. InShape(Placed(m, i, rows[i]), rows, KeysOf(model), i)
    BY <2>2, PlacedIsInShape
  <2>4. Placed(m, i, rows[i]) \in Seq(Entries)
    BY <2>3 DEF InShape
  <2>5. QED
    BY <2>1, <2>3, <2>4
<1>4. Synced(rows) = pass[n]
  BY DEF Synced
<1>5. \A m \in P[n] : InShape(m, rows, KeysOf(model), n)
  BY <1>1
<1> HIDE DEF P
<1>6. \A i \in 1..n : \A m \in P[i - 1] :
        g[i][m] = Placed(m, i, rows[i]) /\ g[i][m] \in P[i]
  BY <1>3
<1> HIDE DEF g, n, v
<1>7. PICK f : Unrolled(f, n, v, g) /\ \A i \in 0..n : f[i] \in P[i]
  <2>1. \A i \in 1..n : \A m \in P[i - 1] : g[i][m] \in P[i]
    BY <1>6
  <2>2. QED
    BY <1>1, <1>2, <2>1, Recursion, Zenon
<1>8. f = [i \in 0..n |-> IF i = 0 THEN v ELSE Placed(f[i - 1], i, rows[i])]
  <2>1. \A i \in 0..n : f[i] = IF i = 0 THEN v ELSE Placed(f[i - 1], i, rows[i])
    <3>1. ASSUME NEW i \in 0..n
          PROVE  f[i] = IF i = 0 THEN v ELSE Placed(f[i - 1], i, rows[i])
      <4>1. f[i] = IF i = 0 THEN v ELSE g[i][f[i - 1]]
        BY <1>7 DEF Unrolled
      <4>2. i # 0 => i \in 1..n /\ i - 1 \in 0..n
        BY <1>1
      <4>3. i # 0 => f[i - 1] \in P[i - 1]
        BY <1>7, <4>2
      <4>4. QED
        BY <1>6, <4>1, <4>2, <4>3
    <3>2. QED
      BY <3>1
  <2>2. f = [i \in 0..n |-> f[i]]
    BY <1>7 DEF Unrolled
  <2>3. QED
    BY <2>1, <2>2
<1>9. pass = [i \in 0..n |-> IF i = 0 THEN v ELSE Placed(pass[i - 1], i, rows[i])]
  BY <1>8
<1> HIDE DEF pass
<1>10. 0..n \subseteq {i \in 0..n : pass[i] \in P[i]}
  <2> DEFINE T == {i \in 0..n : pass[i] \in P[i]}
  <2>1. 0 \in T
    BY <1>1, <1>2, <1>9
  <2>2. ASSUME NEW i \in 1..n, i - 1 \in T PROVE i \in T
    <3>1. i \in 0..n /\ i # 0 /\ pass[i - 1] \in P[i - 1]
      BY <1>1, <2>2
    <3>2. pass[i] = g[i][pass[i - 1]]
      BY <1>6, <1>9, <3>1
    <3>3. QED
      BY <1>6, <3>1, <3>2
  <2> HIDE DEF T
  <2>3. 0..n \subseteq T
    BY <1>1, <2>1, <2>2, Reaches
  <2>4. QED
    BY <2>3 DEF T
<1>11. InShape(pass[n], rows, KeysOf(model), n)
  BY <1>1, <1>5, <1>10
<1>12. n = Len(pass[n])
  <2> DEFINE m == pass[n]
  <2>1. m \in Seq(Entries) /\ Len(m) \in Nat /\ n <= Len(m)
    BY <1>11, LenProperties DEF InShape
  <2> HIDE DEF m
  <2>2. SUFFICES ASSUME n # Len(m) PROVE FALSE
    BY DEF m
  <2>3. n + 1 \in 1..Len(m) /\ n < n + 1
    BY <1>1, <2>1, <2>2
  <2>4. HasKey(rows, m[n + 1].key)
    BY <1>11, <2>3 DEF InShape, m
  <2>5. PICK j \in 1..n : rows[j].key = m[n + 1].key
    BY <2>4 DEF HasKey, n
  <2>6. m[j].key = rows[j].key
    <3>1. m[j] = Entry(rows[j], rows[j].key \notin KeysOf(model))
      BY <1>11 DEF InShape, m
    <3>2. QED
      BY <3>1 DEF Entry
  <2>7. j \in 1..Len(m) /\ j # n + 1
    BY <1>1, <2>3
  <2>8. QED
    BY <1>11, <2>3, <2>5, <2>6, <2>7 DEF InShape, Distinct, m
<1>13. QED
  BY <1>4, <1>11, <1>12 DEF InShape, n

-----------------------------------------------------------------------------
(* The rows ingest() asks for. *)

\* Rows for the list: each key once, and no name that is to be hidden.
Wanted(s) ==
    /\ s \in Seq(RowsIn)
    /\ Distinct(s)
    /\ \A i \in 1..Len(s) : s[i].name \notin excluded

LEMMA JoinedAreWanted ==
  ASSUME NEW s, Wanted(s), NEW t, Wanted(t),
         \A i \in 1..Len(s) : \A j \in 1..Len(t) : s[i].key # t[j].key
  PROVE  Wanted(s \o t)
<1> DEFINE n == Len(s)
           m == Len(t)
           u == s \o t
<1>1. s \in Seq(RowsIn) /\ t \in Seq(RowsIn) /\ n \in Nat /\ m \in Nat
  BY LenProperties DEF Wanted
<1>2. /\ u \in Seq(RowsIn) /\ Len(u) = n + m
      /\ \A j \in 1..n + m : u[j] = IF j <= n THEN s[j] ELSE t[j - n]
  BY <1>1, Joined
<1> HIDE DEF u
<1>3. \A j \in 1..n + m : \/ j <= n /\ j \in 1..n
                          \/ ~(j <= n) /\ j - n \in 1..m
  BY <1>1
<1>4. \A j, l \in 1..n + m : j # l => u[j].key # u[l].key
  <2>1. ASSUME NEW j \in 1..n + m, NEW l \in 1..n + m, j # l
        PROVE  u[j].key # u[l].key
    <3>1. CASE j \in 1..n /\ l \in 1..n /\ j <= n /\ l <= n
      BY <1>2, <2>1, <3>1 DEF Wanted, Distinct
    <3>2. CASE j \in 1..n /\ j <= n /\ ~(l <= n) /\ l - n \in 1..m
      BY <1>2, <3>2
    <3>3. CASE ~(j <= n) /\ j - n \in 1..m /\ l \in 1..n /\ l <= n
      BY <1>2, <3>3
    <3>4. CASE ~(j <= n) /\ j - n \in 1..m /\ ~(l <= n) /\ l - n \in 1..m
      <4>1. j - n # l - n
        BY <1>1, <2>1
      <4>2. t[j - n].key # t[l - n].key
        BY <3>4, <4>1 DEF Wanted, Distinct
      <4>3. QED
        BY <1>2, <3>4, <4>2
    <3>5. QED
      BY <1>3, <3>1, <3>2, <3>3, <3>4
  <2>2. QED
    BY <2>1
<1>5. \A j \in 1..n + m : u[j].name \notin excluded
  BY <1>2, <1>3 DEF Wanted
<1>6. Wanted(u)
  BY <1>2, <1>4, <1>5 DEF Wanted, Distinct
<1>7. QED
  BY <1>6 DEF u

LEMMA FirstAreWanted ==
  ASSUME NEW s, Wanted(s), NEW n \in 0..Len(s)
  PROVE  Wanted(SubSeq(s, 1, n))
<1> DEFINE u == SubSeq(s, 1, n)
<1>1. s \in Seq(RowsIn) /\ Len(s) \in Nat /\ n \in Nat /\ n <= Len(s)
  BY LenProperties DEF Wanted
<1>2. u \in Seq(RowsIn) /\ Len(u) = n /\ \A i \in 1..n : u[i] = s[i]
  <2>1. n \in Int /\ \A i \in 1..n : s[i] \in RowsIn
    BY <1>1, ElementOfSeq
  <2>2. /\ u \in Seq(RowsIn) /\ Len(u) = IF 1 <= n THEN n - 1 + 1 ELSE 0
        /\ \A i \in 1..n - 1 + 1 : u[i] = s[1 + i - 1]
    BY <2>1, SubSeqProperties
  <2>3. (IF 1 <= n THEN n - 1 + 1 ELSE 0) = n /\ n - 1 + 1 = n
        /\ \A i \in 1..n : 1 + i - 1 = i
    BY <1>1
  <2>4. QED
    BY <2>2, <2>3
<1> HIDE DEF u
<1>3. \A i \in 1..n : i \in 1..Len(s)
  BY <1>1
<1>4. Wanted(u)
  BY <1>2, <1>3 DEF Wanted, Distinct
<1>5. QED
  BY <1>4 DEF u

\* A row for every application in the snapshot that is not hidden.
LEMMA BusyAreWanted ==
  ASSUME NEW snapshot \in Snapshots
  PROVE  LET shown  == {i \in DOMAIN snapshot : ~IsExcluded(snapshot[i])}
             active == Selected(snapshot, shown)
             busy   == [i \in DOMAIN active |-> RowOf(active[i].key, active[i].name, FALSE)]
         IN  /\ Wanted(busy)
             /\ \A i \in 1..Len(busy) : busy[i].key \in {snapshot[j].key : j \in shown}
<1> DEFINE shown == {i \in DOMAIN snapshot : ~IsExcluded(snapshot[i])}
           active == Selected(snapshot, shown)
           busy == [i \in DOMAIN active |-> RowOf(active[i].key, active[i].name, FALSE)]
           n == Len(active)
<1>1. snapshot \in Seq(App)
  <2>1. PICK l \in 0..Cardinality(Keys) : snapshot \in [1..l -> App]
    BY DEF Snapshots
  <2>2. QED
    BY <2>1
<1>2. DOMAIN snapshot = 1..Len(snapshot) /\ Len(snapshot) \in Nat
  BY <1>1, LenProperties
<1>3. shown \subseteq 1..Len(snapshot)
  BY <1>2
<1>4. \A i, j \in shown : i # j => snapshot[i].key # snapshot[j].key
  <2>1. \A i, j \in DOMAIN snapshot : i < j => snapshot[i].key # snapshot[j].key
    BY DEF Snapshots
  <2>2. \A i, j \in shown : i # j => i < j \/ j < i
    BY <1>2, <1>3
  <2>3. shown \subseteq DOMAIN snapshot
    OBVIOUS
  <2> HIDE DEF shown
  <2>4. ASSUME NEW i \in shown, NEW j \in shown, i # j PROVE snapshot[i].key # snapshot[j].key
    <3>1. CASE i < j
      BY <2>1, <2>3, <3>1
    <3>2. CASE j < i
      BY <2>1, <2>3, <3>2
    <3>3. QED
      BY <2>2, <2>4, <3>1, <3>2
  <2>5. QED
    BY <2>4
<1>5. \A i \in shown : /\ snapshot[i].key \in Keys /\ snapshot[i].name \in Names
                       /\ snapshot[i].name \notin excluded
  <2>1. \A i \in 1..Len(snapshot) : snapshot[i] \in App
    BY <1>1, ElementOfSeq
  <2>2. \A a \in App : a.key \in Keys /\ a.name \in Names
    BY DEF App, Keys, Names
  <2>3. QED
    BY <1>3, <2>1, <2>2 DEF IsExcluded
<1> HIDE DEF shown
<1>6. active \in Seq(App) /\ Lists(active, snapshot, shown, Len(snapshot))
  BY <1>1, <1>3, SelectedLists
<1> HIDE DEF active
<1>7. PICK at \in [1..n -> Nat] :
        /\ \A j \in 1..n : at[j] \in shown /\ active[j] = snapshot[at[j]]
        /\ \A j, l \in 1..n : j < l => at[j] < at[l]
  BY <1>6 DEF Lists
<1>8. n \in Nat /\ DOMAIN active = 1..n
  BY <1>6, LenProperties
<1>9. \A j, l \in 1..n : j # l => at[j] # at[l]
  <2>1. ASSUME NEW j \in 1..n, NEW l \in 1..n, j # l PROVE at[j] # at[l]
    <3>1. j < l \/ l < j
      BY <1>8, <2>1
    <3>2. at[j] \in Nat /\ at[l] \in Nat /\ (at[j] < at[l] \/ at[l] < at[j])
      BY <1>7, <3>1
    <3>3. QED
      BY <3>2
  <2>2. QED
    BY <2>1
<1> HIDE DEF n
<1>10. \A j \in 1..n : busy[j] \in RowsIn
  BY <1>5, <1>7, <1>8 DEF RowOf, RowsIn
<1>11. \A j \in 1..n : busy[j].key = active[j].key /\ busy[j].name = active[j].name
  BY <1>8 DEF RowOf
<1>12. busy \in Seq(RowsIn) /\ Len(busy) = n
  <2>1. busy \in [1..n -> RowsIn]
    BY <1>8, <1>10
  <2> HIDE DEF busy
  <2>2. busy \in Seq(RowsIn)
    BY <1>8, <2>1
  <2>3. QED
    BY <1>8, <2>1, <2>2, LenProperties
<1> HIDE DEF busy
<1>13. Distinct(busy)
  <2>1. ASSUME NEW j \in 1..n, NEW l \in 1..n, j # l PROVE busy[j].key # busy[l].key
    <3>1. at[j] \in shown /\ at[l] \in shown /\ at[j] # at[l]
      BY <1>7, <1>9, <2>1
    <3>2. snapshot[at[j]].key # snapshot[at[l]].key
      BY <1>4, <3>1
    <3>3. QED
      BY <1>7, <1>11, <3>2
  <2>2. QED
    BY <1>12, <2>1 DEF Distinct
<1>14. \A j \in 1..n : busy[j].name \notin excluded
  BY <1>5, <1>7, <1>11
<1>15. \A j \in 1..n : busy[j].key \in {snapshot[i].key : i \in shown}
  BY <1>7, <1>11
<1>16. Wanted(busy) /\ \A j \in 1..Len(busy) : busy[j].key \in {snapshot[i].key : i \in shown}
  BY <1>12, <1>13, <1>14, <1>15 DEF Wanted
<1>17. QED
  BY <1>16 DEF busy, active, shown

-----------------------------------------------------------------------------
(* The list and what lingers. *)

ListInv ==
    /\ linger \in Lingers /\ topCount \in TopCounts /\ excluded \in Exclusions
    /\ ok \in BOOLEAN
    /\ model \in Seq(Entries) /\ Distinct(model)
    /\ DOMAIN lingering \subseteq Keys
    /\ \A k \in DOMAIN lingering :
          /\ lingering[k] \in [name : Names, age : 0..LongestLinger + 1]
          /\ lingering[k].name \notin excluded

LEMMA LongestLingerType == LongestLinger \in Nat
<1>1. LongestLinger \in Lingers
  BY LingersAssumption DEF LongestLinger
<1>2. QED
  BY <1>1, WidgetAssumption

LEMMA KeysAreFinite == IsFiniteSet(Keys)
<1> DEFINE f == [a \in Apps |-> a[1]]
<1>1. f \in Surjection(Apps, Keys)
  BY DEF Keys, Surjection
<1>2. QED
  BY <1>1, AppsAssumption, FS_Surjection

\* A row for every application that lingers, in any order.
LEMMA IdleAreWanted ==
  ASSUME ListInv, NEW waiting, waiting \subseteq DOMAIN lingering,
         NEW idle \in SetToSeqs(waiting)
  PROVE  LET rest == [i \in DOMAIN idle |-> RowOf(idle[i], lingering[idle[i]].name, TRUE)]
         IN  Wanted(rest) /\ \A i \in 1..Len(rest) : rest[i].key \in waiting
<1> DEFINE rest == [i \in DOMAIN idle |-> RowOf(idle[i], lingering[idle[i]].name, TRUE)]
           n == Cardinality(waiting)
<1>1. n \in Nat
  <2>1. waiting \subseteq Keys
    BY DEF ListInv
  <2>2. IsFiniteSet(waiting)
    BY <2>1, KeysAreFinite, FS_Subset
  <2>3. QED
    BY <2>2, FS_CardinalityType
<1>2. idle \in [1..n -> waiting] /\ \A i, j \in 1..n : i # j => idle[i] # idle[j]
  BY DEF SetToSeqs
<1> HIDE DEF n
<1>3. \A i \in 1..n : /\ idle[i] \in waiting
                      /\ idle[i] \in Keys /\ lingering[idle[i]].name \in Names
                      /\ lingering[idle[i]].name \notin excluded
  BY <1>2 DEF ListInv
<1>4. \A i \in 1..n : rest[i] \in RowsIn
  BY <1>2, <1>3 DEF RowOf, RowsIn
<1>5. \A i \in 1..n : rest[i].key = idle[i] /\ rest[i].name = lingering[idle[i]].name
  BY <1>2 DEF RowOf
<1>6. rest \in Seq(RowsIn) /\ Len(rest) = n
  <2>1. rest \in [1..n -> RowsIn]
    BY <1>2, <1>4
  <2> HIDE DEF rest
  <2>2. rest \in Seq(RowsIn)
    BY <1>1, <2>1
  <2>3. QED
    BY <1>1, <2>1, <2>2, LenProperties
<1> HIDE DEF rest
<1>7. Wanted(rest) /\ \A i \in 1..Len(rest) : rest[i].key \in waiting
  BY <1>2, <1>3, <1>5, <1>6 DEF Wanted, Distinct
<1>8. QED
  BY <1>7 DEF rest

\* ingest() reconciles the list with rows that may be shown.
LEMMA IngestSyncs ==
  ASSUME ListInv, NEW snapshot \in Snapshots, Ingest(snapshot)
  PROVE  \E rows : Wanted(rows) /\ model' = Synced(rows)
<1> DEFINE shown == {i \in DOMAIN snapshot : ~IsExcluded(snapshot[i])}
           active == Selected(snapshot, shown)
           isActive == {snapshot[i].key : i \in shown}
           waiting == {k \in DOMAIN lingering \ isActive : ~Expired(k)}
           busy == [i \in DOMAIN active |-> RowOf(active[i].key, active[i].name, FALSE)]
           rest(idle) == [i \in DOMAIN idle |-> RowOf(idle[i], lingering[idle[i]].name, TRUE)]
           cut(rows) == IF Len(rows) < topCount THEN Len(rows) ELSE topCount
<1>1. PICK idle \in SetToSeqs(waiting) :
        model' = Synced(SubSeq(busy \o rest(idle), 1, cut(busy \o rest(idle))))
  BY DEF Ingest
<1>2. Wanted(busy) /\ \A i \in 1..Len(busy) : busy[i].key \in isActive
  BY BusyAreWanted
<1>3. Wanted(rest(idle)) /\ \A i \in 1..Len(rest(idle)) : rest(idle)[i].key \in waiting
  BY IdleAreWanted
<1>4. \A k \in waiting : k \notin isActive
  OBVIOUS
<1> DEFINE t == rest(idle)
           rows == busy \o t
<1> HIDE DEF busy, rest, isActive, waiting
<1>5. Wanted(rows)
  BY <1>2, <1>3, <1>4, JoinedAreWanted
<1>6. topCount \in Nat /\ Len(rows) \in Nat
  BY <1>5, LenProperties, WidgetAssumption DEF ListInv, Wanted
<1> HIDE DEF rows
<1>7. cut(rows) \in 0..Len(rows)
  BY <1>6
<1> HIDE DEF cut
<1>8. Wanted(SubSeq(rows, 1, cut(rows)))
  BY <1>5, <1>7, FirstAreWanted
<1>9. model' = Synced(SubSeq(rows, 1, cut(rows)))
  BY <1>1 DEF rows
<1>10. QED
  BY <1>8, <1>9

\* What the list becomes when it is reconciled.
LEMMA Reconciled ==
  ASSUME ListInv, NEW rows, Wanted(rows)
  PROVE  /\ Synced(rows) \in Seq(Entries) /\ Distinct(Synced(rows))
         /\ \A i \in DOMAIN Synced(rows) :
              /\ Synced(rows)[i].name \notin excluded
              /\ Synced(rows)[i].fresh <=> Synced(rows)[i].key \notin KeysOf(model)
<1> DEFINE m == Synced(rows)
<1>1. /\ m \in Seq(Entries) /\ Len(m) = Len(rows)
      /\ \A j \in 1..Len(rows) : m[j] = Entry(rows[j], rows[j].key \notin KeysOf(model))
  BY SyncedIsRows DEF ListInv, Wanted
<1>2. DOMAIN m = 1..Len(rows)
  BY <1>1, LenProperties
<1> HIDE DEF m
<1>3. \A j \in 1..Len(rows) :
        /\ m[j].key = rows[j].key /\ m[j].name = rows[j].name
        /\ m[j].fresh <=> rows[j].key \notin KeysOf(model)
  <2>1. ASSUME NEW j \in 1..Len(rows)
        PROVE  /\ m[j].key = rows[j].key /\ m[j].name = rows[j].name
               /\ m[j].fresh <=> rows[j].key \notin KeysOf(model)
    <3> DEFINE new == rows[j].key \notin KeysOf(model)
    <3>1. m[j] = Entry(rows[j], new)
      BY <1>1
    <3> HIDE DEF new
    <3>2. m[j].key = rows[j].key /\ m[j].name = rows[j].name /\ m[j].fresh = new
      BY <3>1 DEF Entry
    <3>3. QED
      BY <3>2, Zenon DEF new
  <2>2. QED
    BY <2>1
<1>4. Distinct(m)
  BY <1>1, <1>3 DEF Distinct, Wanted
<1>5. \A i \in DOMAIN m : m[i].name \notin excluded
  BY <1>2, <1>3 DEF Wanted
<1>6. \A i \in DOMAIN m : m[i].fresh <=> m[i].key \notin KeysOf(model)
  <2>1. ASSUME NEW i \in DOMAIN m PROVE m[i].fresh <=> m[i].key \notin KeysOf(model)
    <3>1. m[i].key = rows[i].key
      BY <1>2, <1>3
    <3>2. m[i].fresh <=> rows[i].key \notin KeysOf(model)
      BY <1>2, <1>3
    <3>3. QED
      BY <3>1, <3>2, Zenon
  <2>2. QED
    BY <2>1, Zenon
<1>7. /\ m \in Seq(Entries) /\ Distinct(m)
      /\ \A i \in DOMAIN m : /\ m[i].name \notin excluded
                             /\ m[i].fresh <=> m[i].key \notin KeysOf(model)
  BY <1>1, <1>4, <1>5, <1>6, Zenon
<1>8. QED
  BY <1>7, Zenon DEF m

LEMMA ListInit == Init => ListInv
<1> SUFFICES ASSUME Init PROVE ListInv
  OBVIOUS
<1>1. /\ linger \in Lingers /\ topCount \in TopCounts /\ excluded \in Exclusions
      /\ ok = FALSE /\ model = <<>> /\ DOMAIN lingering = {}
  BY DEF Init, WidgetInit, NoEntries
<1>2. <<>> \in Seq(Entries) /\ Distinct(<<>>)
  BY EmptySeq DEF Distinct
<1>3. QED
  BY <1>1, <1>2 DEF ListInv

LEMMA ListShown ==
  ASSUME ListInv, NEW snapshot \in Snapshots, Ingest(snapshot)
  PROVE  ListInv'
<1> DEFINE shown == {i \in DOMAIN snapshot : ~IsExcluded(snapshot[i])}
           isActive == {snapshot[i].key : i \in shown}
           appOf(k) == snapshot[CHOOSE i \in shown : snapshot[i].key = k]
           waiting == {k \in DOMAIN lingering \ isActive : ~Expired(k)}
<1>1. /\ lingering' = [k \in isActive \cup waiting |->
             IF k \in isActive THEN [name |-> appOf(k).name, age |-> 0] ELSE lingering[k]]
      /\ UNCHANGED <<linger, topCount, excluded, ok>>
  BY DEF Ingest, config
<1>2. \A i \in shown : /\ snapshot[i].key \in Keys /\ snapshot[i].name \in Names
                       /\ snapshot[i].name \notin excluded
  <2>1. PICK n \in 0..Cardinality(Keys) : snapshot \in [1..n -> App]
    BY DEF Snapshots
  <2>2. \A a \in App : a.key \in Keys /\ a.name \in Names
    BY DEF App, Keys, Names
  <2>3. QED
    BY <2>1, <2>2 DEF IsExcluded
<1>3. \A k \in isActive : appOf(k).name \in Names /\ appOf(k).name \notin excluded
  BY <1>2
<1>4. isActive \subseteq Keys
  BY <1>2
<1>5. waiting \subseteq DOMAIN lingering
  OBVIOUS
<1> HIDE DEF shown, isActive, appOf, waiting
<1>6. \A k \in DOMAIN lingering' :
        /\ lingering'[k] \in [name : Names, age : 0..LongestLinger + 1]
        /\ lingering'[k].name \notin excluded
  <2>1. ASSUME NEW k \in isActive \cup waiting
        PROVE  /\ lingering'[k] \in [name : Names, age : 0..LongestLinger + 1]
               /\ lingering'[k].name \notin excluded
    <3>1. CASE k \in isActive
      <4>1. lingering'[k] = [name |-> appOf(k).name, age |-> 0]
        BY <1>1, <3>1
      <4>2. 0 \in 0..LongestLinger + 1
        BY LongestLingerType
      <4>3. QED
        BY <1>3, <3>1, <4>1, <4>2
    <3>2. CASE k \notin isActive
      BY <1>1, <1>5, <2>1, <3>2 DEF ListInv
    <3>3. QED
      BY <3>1, <3>2
  <2>2. QED
    BY <1>1, <2>1
<1>7. DOMAIN lingering' \subseteq Keys
  BY <1>1, <1>4, <1>5 DEF ListInv
<1>8. PICK rows : Wanted(rows) /\ model' = Synced(rows)
  BY IngestSyncs
<1>9. model' \in Seq(Entries) /\ Distinct(model')
  BY <1>8, Reconciled
<1>10. Distinct(model)'
  BY <1>9 DEF Distinct
<1>11. QED
  BY <1>1, <1>6, <1>7, <1>9, <1>10 DEF ListInv, LongestLinger, Entries

LEMMA ListNext == ListInv /\ [Next]_vars => ListInv'
<1> SUFFICES ASSUME ListInv, [Next]_vars PROVE ListInv'
  OBVIOUS
<1>1. CASE \E s \in Snapshots : Shown(s)
  BY <1>1, ListShown DEF Shown
<1>2. CASE \E n \in Intervals \cup {0} : IntervalChanges(n) /\ Cleared
  BY <1>2 DEF IntervalChanges, config, ListInv, LongestLinger, Distinct, Entries
<1>3. CASE StatusChanges
  <2>1. ok' \in BOOLEAN /\ UNCHANGED <<linger, topCount, excluded>>
    BY <1>3 DEF StatusChanges, config, ListInv
  <2>2. CASE UNCHANGED <<lingering, model>>
    BY <2>1, <2>2 DEF ListInv, LongestLinger, Distinct, Entries
  <2>3. CASE lingering' = NoEntries /\ model' = <<>>
    <3>1. <<>> \in Seq(Entries) /\ Len(<<>>) = 0 /\ DOMAIN NoEntries = {}
      BY EmptySeq DEF NoEntries
    <3>2. QED
      BY <2>1, <2>3, <3>1 DEF ListInv, LongestLinger, Distinct, Entries
  <2>4. QED
    BY <1>3, <2>2, <2>3 DEF StatusChanges
<1>4. CASE \E n \in Spans : SetSpan(n) /\ Kept
  BY <1>4 DEF SetSpan, ListInv, LongestLinger, Distinct, Entries
<1>5. CASE \E n \in TopCounts : SetTopCount(n) /\ Kept
  BY <1>5 DEF SetTopCount, ListInv, LongestLinger, Distinct, Entries
<1>6. CASE \E n \in Lingers : SetLinger(n) /\ Kept
  <2>1. /\ lingering' = NoEntries /\ linger' \in Lingers
        /\ UNCHANGED <<topCount, excluded, ok, model>>
    BY <1>6 DEF SetLinger
  <2>2. DOMAIN NoEntries = {}
    BY DEF NoEntries
  <2>3. QED
    BY <2>1, <2>2 DEF ListInv, LongestLinger, Distinct, Entries
<1>7. CASE \E e \in Exclusions : SetExcluded(e) /\ Kept
  <2>1. /\ lingering' = NoEntries /\ excluded' \in Exclusions
        /\ UNCHANGED <<linger, topCount, ok, model>>
    BY <1>7 DEF SetExcluded
  <2>2. DOMAIN NoEntries = {}
    BY DEF NoEntries
  <2>3. QED
    BY <2>1, <2>2 DEF ListInv, LongestLinger, Distinct, Entries
<1>8. CASE Tick /\ Kept
  <2> DEFINE older(k) == [lingering[k] EXCEPT !.age = @ + 1]
  <2>1. /\ lingering' = [k \in DOMAIN lingering |->
             IF lingering[k].age <= LongestLinger THEN older(k) ELSE lingering[k]]
        /\ UNCHANGED <<linger, topCount, excluded, ok, model>>
    BY <1>8 DEF Tick, config
  <2>2. \A r \in [name : Names, age : 0..LongestLinger + 1] : r.age <= LongestLinger =>
          /\ [r EXCEPT !.age = @ + 1] \in [name : Names, age : 0..LongestLinger + 1]
          /\ [r EXCEPT !.age = @ + 1].name = r.name
    BY LongestLingerType
  <2>3. \A k \in DOMAIN lingering : lingering[k].age <= LongestLinger =>
          /\ older(k) \in [name : Names, age : 0..LongestLinger + 1]
          /\ older(k).name = lingering[k].name
    BY <2>2 DEF ListInv
  <2> HIDE DEF older
  <2>4. \A k \in DOMAIN lingering' :
          /\ lingering'[k] \in [name : Names, age : 0..LongestLinger + 1]
          /\ lingering'[k].name \notin excluded
    BY <2>1, <2>3 DEF ListInv
  <2>5. DOMAIN lingering' = DOMAIN lingering
    BY <2>1
  <2>6. QED
    BY <2>1, <2>4, <2>5 DEF ListInv, LongestLinger, Distinct, Entries
<1>9. CASE UNCHANGED vars
  BY <1>9 DEF vars, widgetVars, config, ListInv, LongestLinger, Distinct, Entries
<1>10. QED
  BY <1>1, <1>2, <1>3, <1>4, <1>5, <1>6, <1>7, <1>8, <1>9 DEF Next

LEMMA ListAlways == Spec => []ListInv
BY ListInit, ListNext, PTL DEF Spec

\* Every variable of the widget keeps its type; in particular the list holds whole
\* rows of known applications, whatever has been inserted, moved and removed.
THEOREM TypeCorrect == Spec => []TypeOK
<1>1. ListInv /\ WindowInv => TypeOK
  <2> SUFFICES ASSUME ListInv, WindowInv PROVE TypeOK
    OBVIOUS
  <2>1. DOMAIN history \subseteq Keys
    BY DEF WindowInv, Settled
  <2>2. \A k \in DOMAIN history :
          /\ Len(history[k]) \in MinWindow..MaxWindow
          /\ history[k] \in Seq(0..PeakRate)
    BY DEF WindowInv, Settled, Windows, Rates
  <2>3. QED
    BY <2>1, <2>2 DEF WindowInv, Settled, ListInv, TypeOK, Entries
<1>2. QED
  BY <1>1, ListAlways, WindowAlways, PTL

\* Only a snapshot fills the list.
LEMMA OnlySnapshotsFill ==
  ASSUME ListInv, [Next]_vars, model' # model
  PROVE  \/ model' = <<>>
         \/ UNCHANGED excluded /\ \E rows : Wanted(rows) /\ model' = Synced(rows)
<1>1. CASE \E s \in Snapshots : Shown(s)
  <2>1. PICK s \in Snapshots : Ingest(s)
    BY <1>1 DEF Shown
  <2>2. UNCHANGED excluded
    BY <2>1 DEF Ingest, config
  <2>3. QED
    BY <2>1, <2>2, IngestSyncs
<1>2. CASE StatusChanges
  BY <1>2 DEF StatusChanges
<1>3. QED
  BY <1>1, <1>2
  DEF Next, IntervalChanges, SetSpan, SetTopCount, SetLinger, SetExcluded, Tick, vars, widgetVars

\* What the user asked to hide is never put in the list again, neither by a snapshot
\* nor because it is still lingering (HiddenIsNotShown).
THEOREM HiddenStaysHidden == Spec => HiddenIsNotShown
<1>1. ListInv /\ [Next]_vars
      => [model' # model => \A i \in DOMAIN model' : model'[i].name \notin excluded]_vars
  <2> SUFFICES ASSUME ListInv, [Next]_vars, model' # model
               PROVE  \A i \in DOMAIN model' : model'[i].name \notin excluded
    OBVIOUS
  <2>1. CASE model' = <<>>
    BY <2>1
  <2>2. CASE \E rows : Wanted(rows) /\ model' = Synced(rows)
    BY <2>2, Reconciled
  <2>3. QED
    BY <2>1, <2>2, OnlySnapshotsFill
<1>2. QED
  BY <1>1, ListAlways, PTL DEF Spec, HiddenIsNotShown

\* Reconciling leaves every row once, keeps the delegate of each row that was there
\* and makes one for each that was not, for lists of any length and any order of
\* the rows (DelegatesSurvive).
THEOREM DelegatesAreKept == Spec => DelegatesSurvive
<1> DEFINE Sound == model' # model /\ model' # <<>> =>
             /\ \A i, j \in DOMAIN model' : i # j => model'[i].key # model'[j].key
             /\ \A i \in DOMAIN model' : model'[i].fresh <=> model'[i].key \notin KeysOf(model)
<1>1. ListInv /\ [Next]_vars => Sound
  <2> SUFFICES ASSUME ListInv, [Next]_vars, model' # model, model' # <<>> PROVE Sound
    OBVIOUS
  <2>1. PICK rows : Wanted(rows) /\ model' = Synced(rows)
    BY OnlySnapshotsFill
  <2>2. /\ model' \in Seq(Entries) /\ Distinct(model')
        /\ \A i \in DOMAIN model' : model'[i].fresh <=> model'[i].key \notin KeysOf(model)
    <3>1. /\ Synced(rows) \in Seq(Entries) /\ Distinct(Synced(rows))
          /\ \A i \in DOMAIN Synced(rows) :
               Synced(rows)[i].fresh <=> Synced(rows)[i].key \notin KeysOf(model)
      BY <2>1, Reconciled, Zenon
    <3>2. QED
      BY <2>1, <3>1, Zenon
  <2>3. DOMAIN model' = 1..Len(model')
    BY <2>2, LenProperties
  <2>4. \A i, j \in DOMAIN model' : i # j => model'[i].key # model'[j].key
    BY <2>2, <2>3 DEF Distinct
  <2>5. QED
    BY <2>2, <2>4, Zenon
<1>2. ListInv /\ [Next]_vars => [Sound]_vars
  BY <1>1
<1> HIDE DEF Sound
<1>3. Spec => [][Sound]_vars
  BY <1>2, ListAlways, PTL DEF Spec
<1>4. QED
  BY <1>3 DEF Sound, DelegatesSurvive
=============================================================================
