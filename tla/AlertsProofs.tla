----------------------------- MODULE AlertsProofs -----------------------------
(***************************************************************************)
(* Proofs about Alerts: for any rules, thresholds, histories and requests, *)
(* a metric has one open alert at a time, and an alert is opened on a run  *)
(* of samples as long as its rule asks for.                                *)
(*                                                                         *)
(* Both rest on IInv, which follows the one poll under way: it holds the   *)
(* last place of the history, and finds no open alert when it is to open   *)
(* one.  What the history keeps is a recursive function of it; the lemmas  *)
(* of the first section unfold it, by the least place that would not obey. *)
(***************************************************************************)
EXTENDS Alerts, FiniteSetTheorems, SequenceTheorems, WellFoundedInduction, TLAPS

(* A set of numbers has a least one.                                       *)
LEMMA LeastNumber ==
  ASSUME NEW S, S \subseteq Nat, S # {}
  PROVE  \E a \in S : \A b \in S : a <= b
<1>1. PICK a \in S : \A b \in S : ~ (<<b, a>> \in OpToRel(<, Nat))
  BY NatLessThanWellFounded, WFMin
<1>2. \A b \in S : ~ (b < a) BY <1>1 DEF OpToRel
<1> QED BY <1>2

LEMMA MinBelongs ==
  ASSUME NEW S, S \subseteq Nat, S # {}
  PROVE  Min(S) \in S
BY LeastNumber DEF Min

-------------------------------------------------------------------------------
(* The elements of a sequence in a set.                                    *)

(* One more element, kept when it is in T.                                 *)
OneMore(kept, e, T) == IF e \in T THEN Append(kept, e) ELSE kept

(* The function that Where unfolds to, up to place n.                      *)
Unfolds(f, s, T, n) ==
  f = [i \in 0..n |-> IF i = 0 THEN <<>> ELSE OneMore(f[i - 1], s[i], T)]

LEMMA Unfolding ==
  ASSUME NEW s, NEW T, NEW n \in Nat
  PROVE  \E f : Unfolds(f, s, T, n)
<1> DEFINE Bad == {k \in Nat : ~\E f : Unfolds(f, s, T, k)}
<1>1. ASSUME Bad # {} PROVE FALSE
  <2>1. PICK k \in Bad : \A b \in Bad : k <= b BY <1>1, LeastNumber
  <2>2. CASE k = 0
    <3> DEFINE f == [i \in 0..0 |-> <<>>]
    <3>1. Unfolds(f, s, T, 0) BY DEF Unfolds
    <3> QED BY <2>2, <3>1
  <2>3. CASE k # 0
    <3>1. k - 1 \in Nat /\ k \in Nat BY <2>3
    <3>2. k - 1 \notin Bad BY <2>1, <3>1
    <3>3. PICK f : Unfolds(f, s, T, k - 1) BY <3>1, <3>2
    <3> DEFINE g == [i \in 0..k |-> IF i = k THEN OneMore(f[k - 1], s[k], T) ELSE f[i]]
    <3>4. \A i \in 0..k - 1 : f[i] = IF i = 0 THEN <<>> ELSE OneMore(f[i - 1], s[i], T)
      BY <3>1, <3>3 DEF Unfolds
    <3>5. \A i \in 0..k : g[i] = IF i = 0 THEN <<>> ELSE OneMore(g[i - 1], s[i], T)
      BY <2>3, <3>1, <3>4
    <3>6. Unfolds(g, s, T, k) BY <3>5 DEF Unfolds
    <3> QED BY <3>6
  <2> QED BY <2>2, <2>3
<1> QED BY <1>1

LEMMA WhereUnfolds ==
  ASSUME NEW s, NEW T, Len(s) \in Nat
  PROVE  \E f : Unfolds(f, s, T, Len(s)) /\ Where(s, T) = f[Len(s)]
<1> DEFINE f == CHOOSE g : Unfolds(g, s, T, Len(s))
<1>1. Unfolds(f, s, T, Len(s)) BY Unfolding
<1>2. Where(s, T) = f[Len(s)] BY DEF Where, Unfolds, OneMore
<1> QED BY <1>1, <1>2

(* The elements kept are elements of the sequence, and in the set.         *)
Elements(s, T) == {e \in T : \E i \in 1..Len(s) : e = s[i]}

LEMMA UnfoldsType ==
  ASSUME NEW s, NEW T, Len(s) \in Nat, NEW f, Unfolds(f, s, T, Len(s))
  PROVE  \A k \in 0..Len(s) : f[k] \in Seq(Elements(s, T))
<1> DEFINE n == Len(s)
<1>1. n \in Nat OBVIOUS
<1>2. \A i \in 0..n : f[i] = IF i = 0 THEN <<>> ELSE OneMore(f[i - 1], s[i], T)
  BY DEF Unfolds
<1>3. \A i \in 1..n : s[i] \in T => s[i] \in Elements(s, T) BY DEF Elements
<1> HIDE DEF n
<1> DEFINE Bad == {k \in Nat : k <= n /\ f[k] \notin Seq(Elements(s, T))}
<1>4. ASSUME Bad # {} PROVE FALSE
  <2>1. PICK k \in Bad : \A b \in Bad : k <= b BY <1>4, LeastNumber
  <2>2. f[0] \in Seq(Elements(s, T))
    <3>1. f[0] = <<>> BY <1>1, <1>2
    <3> QED BY <3>1, EmptySeq
  <2>3. k # 0 /\ k \in Nat /\ k <= n BY <2>1, <2>2
  <2>4. k - 1 \in Nat /\ ~(k <= k - 1) /\ k \in 1..n /\ k - 1 <= n BY <1>1, <2>3
  <2>5. f[k - 1] \in Seq(Elements(s, T)) BY <2>1, <2>4
  <2>6. OneMore(f[k - 1], s[k], T) \in Seq(Elements(s, T))
    BY <1>3, <2>4, <2>5, AppendProperties DEF OneMore
  <2>7. f[k] = OneMore(f[k - 1], s[k], T) BY <1>2, <2>3, <2>4
  <2> QED BY <2>1, <2>6, <2>7
<1> QED BY <1>1, <1>4 DEF n

LEMMA WhereType ==
  ASSUME NEW s, NEW T, Len(s) \in Nat
  PROVE  Where(s, T) \in Seq(Elements(s, T))
BY WhereUnfolds, UnfoldsType

(* A last element in the set is kept, as the last one.                     *)
LEMMA WhereLast ==
  ASSUME NEW s, NEW T, Len(s) \in Nat \ {0}, s[Len(s)] \in T
  PROVE  LET kept == Where(s, T) IN Len(kept) \in Nat \ {0} /\ kept[Len(kept)] = s[Len(s)]
<1> DEFINE n == Len(s)
<1>1. PICK f : Unfolds(f, s, T, n) /\ Where(s, T) = f[n] BY WhereUnfolds
<1>2. n \in 0..n /\ n - 1 \in 0..n /\ n # 0 /\ n \in 1..n OBVIOUS
<1>3. f[n] = OneMore(f[n - 1], s[n], T) BY <1>1, <1>2 DEF Unfolds
<1>4. Where(s, T) = Append(f[n - 1], s[n]) BY <1>1, <1>3 DEF OneMore
<1>5. f[n - 1] \in Seq(Elements(s, T)) BY <1>1, <1>2, UnfoldsType
<1>6. s[n] \in Elements(s, T) BY <1>2 DEF Elements
<1>7. Len(f[n - 1]) \in Nat BY <1>5, LenProperties
<1> QED BY <1>4, <1>5, <1>6, <1>7, AppendProperties

-------------------------------------------------------------------------------
(* Types.                                                                  *)

(* A function over 1..n is as long as that.                                *)
LEMMA LenOf ==
  ASSUME NEW n \in Nat, NEW S, NEW s \in [1..n -> S]
  PROVE  s \in Seq(S) /\ Len(s) = n
OBVIOUS

LEMMA SeqMonotone ==
  ASSUME NEW S, NEW T, S \subseteq T, NEW s \in Seq(S)
  PROVE  s \in Seq(T)
OBVIOUS

(* What the history keeps are places it had, none of them given up.        *)
LEMMA RecentType ==
  ASSUME NEW h \in Seq(Place)
  PROVE  /\ Recent(h) \in Seq(Place)
         /\ (\A i \in 1..Len(h) : h[i].of = Nobody) =>
              \A i \in 1..Len(Recent(h)) : Recent(h)[i].of = Nobody
<1> DEFINE n == Len(h)
           s == [i \in 1..n |-> IF Needed(h, i) THEN h[i] ELSE Nothing]
           T == Place \ {Nothing}
<1>1. n \in Nat BY LenProperties
<1>2. \A i \in 1..n : h[i] \in Place BY ElementOfSeq
<1>3. s \in [1..n -> Place]
  BY <1>2 DEF Nothing, Place
<1>4. Len(s) = n BY <1>1, <1>3, LenOf
<1>5. \A i \in 1..n : s[i] = h[i] \/ s[i] = Nothing OBVIOUS
<1>6. Recent(h) = Where(s, T) BY DEF Recent
<1> HIDE DEF n, s
<1>7. Recent(h) \in Seq(Elements(s, T)) BY <1>1, <1>4, <1>6, WhereType
<1>8. Elements(s, T) \subseteq Place BY DEF Elements
<1>9. Recent(h) \in Seq(Place) BY <1>7, <1>8, SeqMonotone
<1>10. ASSUME \A i \in 1..n : h[i].of = Nobody, NEW i \in 1..Len(Recent(h))
       PROVE  Recent(h)[i].of = Nobody
  <2>1. Recent(h)[i] \in Elements(s, T) BY <1>7, ElementOfSeq
  <2> QED BY <1>4, <1>5, <1>10, <2>1 DEF Elements, Nothing
<1> QED BY <1>9, <1>10 DEF n

(* A poll that ends leaves a history of places, and holds none of them.    *)
LEMMA EndedType ==
  ASSUME history \in Seq(Place), NEW p
  PROVE  /\ Ended(p) \in Seq(Place)
         /\ (\A i \in 1..Len(history) : history[i].of \in {p, Nobody}) =>
              \A i \in 1..Len(Ended(p)) : Ended(p)[i].of = Nobody
<1> DEFINE n == Len(history)
           h == [i \in 1..n |-> IF history[i].of = p THEN [history[i] EXCEPT !.of = Nobody]
                                ELSE history[i]]
<1>1. n \in Nat BY LenProperties
<1>2. \A i \in 1..n : history[i] \in Place BY ElementOfSeq
<1>3. h \in [1..n -> Place] BY <1>2 DEF Place
<1>4. \A i \in 1..n : history[i].of \in {p, Nobody} => h[i].of = Nobody
  BY <1>2 DEF Place
<1>5. Ended(p) = Recent(h) BY DEF Ended
<1> HIDE DEF n, h
<1>6. h \in Seq(Place) /\ Len(h) = n BY <1>1, <1>3, LenOf
<1> QED BY <1>4, <1>5, <1>6, RecentType DEF n

(* The verdict on a sample, and what it writes.                            *)
LEMMA FiringType ==
  ASSUME TypeOK, NEW pct, NEW r \in Firing(pct)
  PROVE  r # NoRule => r \in AlertRule /\ pct >= r.threshold
BY DEF Firing, RulesFor, Breached, TypeOK

LEMMA VerdictType ==
  ASSUME TypeOK, NEW h, NEW p, NEW pct, NEW r \in Firing(pct), NEW a \in Existing
  PROVE  /\ Verdict(h, p, pct, r, a) \in Work
         /\ Verdict(h, p, pct, r, a).at = "open" =>
              /\ Verdict(h, p, pct, r, a).rule = r /\ r # NoRule
              /\ OpenAlerts = {} /\ _breach_is_sustained(h, p, r)
         /\ Verdict(h, p, pct, r, a) # Idle
<1> DEFINE breach == _breach_is_sustained(h, p, r)
<1>1. r # NoRule => r \in AlertRule BY FiringType
<1>2. a # NoAlert => a \in Alert BY DEF Existing, OpenAlerts, TypeOK
<1>3. OpenAlerts # {} => a # NoAlert BY DEF Existing, OpenAlerts, TypeOK, Alert, NoAlert
<1>4. CASE r # NoRule /\ a # NoAlert
  <2>1. Verdict(h, p, pct, r, a) = [at |-> "update", was |-> a, rule |-> r]
    BY <1>4 DEF Verdict
  <2> QED BY <1>1, <1>2, <1>4, <2>1 DEF Work, Idle
<1>5. CASE r # NoRule /\ a = NoAlert /\ breach
  <2>1. Verdict(h, p, pct, r, a) = [at |-> "open", rule |-> r]
    BY <1>5 DEF Verdict
  <2> QED BY <1>1, <1>3, <1>5, <2>1 DEF Work, Idle
<1>6. CASE r = NoRule /\ a # NoAlert /\ pct < a.threshold - HYSTERESIS_PCT
  <2>1. Verdict(h, p, pct, r, a) = [at |-> "clear", was |-> a]
    BY <1>6 DEF Verdict
  <2> QED BY <1>2, <1>6, <2>1 DEF Work, Idle
<1>7. CASE ~(r # NoRule /\ a # NoAlert) /\ ~(r # NoRule /\ a = NoAlert /\ breach)
           /\ ~(r = NoRule /\ a # NoAlert /\ pct < a.threshold - HYSTERESIS_PCT)
  <2>1. Verdict(h, p, pct, r, a) = [at |-> "nothing"]
    BY <1>7 DEF Verdict
  <2> QED BY <2>1 DEF Work, Idle
<1> QED BY <1>4, <1>5, <1>6, <1>7

LEMMA WrittenType ==
  ASSUME TypeOK, NEW q \in Work, q.at = "open" => FreeAlert # {}
  PROVE  /\ Written(q) \subseteq Alert
         /\ q.at = "open" => \E new \in Alert : Written(q) = alerts \cup {new}
         /\ q.at # "open" =>
              \E f \in [alerts -> Alert] : /\ Written(q) = {f[a] : a \in alerts}
                                          /\ \A a \in alerts : f[a].open => a.open
<1>1. CASE q.at = "open"
  <2>1. q.rule \in AlertRule BY <1>1 DEF Work, Idle
  <2>2. Min(FreeAlert) \in AlertIds
    <3>1. FreeAlert \subseteq AlertIds /\ AlertIds \subseteq Nat
      BY AlertsAssumption DEF FreeAlert
    <3> QED BY <1>1, <3>1, MinBelongs
  <2> DEFINE new == [id |-> Min(FreeAlert), sev |-> q.rule.sev,
                     threshold |-> q.rule.threshold, open |-> TRUE]
  <2>3. new \in Alert BY <2>1, <2>2 DEF AlertRule, Alert
  <2>4. Written(q) = alerts \cup {new} BY <1>1 DEF Written
  <2> HIDE DEF new
  <2> QED BY <1>1, <2>3, <2>4 DEF TypeOK
<1>2. CASE q.at = "update"
  <2>1. q.rule \in AlertRule /\ q.was \in Alert BY <1>2 DEF Work, Idle
  <2> DEFINE f == [a \in alerts |-> IF a.id = q.was.id THEN Updated(a, q) ELSE a]
  <2>2. \A a \in alerts : Updated(a, q) \in Alert /\ Updated(a, q).open = a.open
    BY <2>1 DEF Updated, TypeOK, Alert, AlertRule
  <2>3. f \in [alerts -> Alert] /\ \A a \in alerts : f[a].open => a.open
    BY <2>2 DEF TypeOK
  <2>4. Written(q) = {f[a] : a \in alerts} BY <1>2 DEF Written
  <2> HIDE DEF f
  <2> QED BY <1>2, <2>3, <2>4
<1>3. CASE q.at = "clear"
  <2> DEFINE f == [a \in alerts |-> IF a.id = q.was.id THEN [a EXCEPT !.open = FALSE] ELSE a]
  <2>1. f \in [alerts -> Alert] /\ \A a \in alerts : f[a].open => a.open
    BY DEF TypeOK, Alert
  <2>2. Written(q) = {f[a] : a \in alerts} BY <1>3 DEF Written
  <2> HIDE DEF f
  <2> QED BY <1>3, <2>1, <2>2
<1>4. CASE q.at \notin {"open", "update", "clear"}
  <2> DEFINE f == [a \in alerts |-> a]
  <2>1. f \in [alerts -> Alert] /\ \A a \in alerts : f[a].open => a.open
    BY DEF TypeOK
  <2>2. Written(q) = {f[a] : a \in alerts} BY <1>4 DEF Written
  <2> QED BY <1>4, <2>1, <2>2
<1> QED BY <1>1, <1>2, <1>3, <1>4

LEMMA TypeInit == Init => TypeOK
<1> SUFFICES ASSUME Init PROVE TypeOK OBVIOUS
<1>1. rules \subseteq AlertRule /\ 0 \in 0..MaxUpsets BY AlertsAssumption DEF Init
<1>2. <<>> \in Seq(Place) BY EmptySeq
<1>3. polls \in [Pollers -> Work] BY DEF Init, Work
<1> QED BY <1>1, <1>2, <1>3 DEF Init, TypeOK

(* The samples a step leaves or writes are in their places.                *)
LEMMA EvaluateHistory ==
  ASSUME history \in Seq(Place), NEW p, NEW pct \in Levels
  PROVE  LET h == [history EXCEPT ![Own(history, p)].pct = pct] IN
         /\ h \in Seq(Place) /\ Len(h) = Len(history)
         /\ \A i \in 1..Len(history) : h[i].of = history[i].of
         /\ Own(history, p) \in 1..Len(history) => h[Own(history, p)].pct = pct
<1> DEFINE n == Len(history)
           o == Own(history, p)
           h == [history EXCEPT ![o].pct = pct]
<1>1. n \in Nat /\ history \in [1..n -> Place] BY LenProperties
<1> HIDE DEF n, o
<1>2. \A e \in Place : [e EXCEPT !.pct = pct] \in Place BY DEF Place
<1>3. h \in [1..n -> Place] BY <1>1, <1>2
<1>4. h \in Seq(Place) /\ Len(h) = n BY <1>1, <1>3, LenOf
<1>5. \A i \in 1..n : h[i].of = history[i].of BY <1>1 DEF Place
<1>6. o \in 1..n => h[o].pct = pct BY <1>1 DEF Place
<1> QED BY <1>4, <1>5, <1>6 DEF n, o

LEMMA TypeStep ==
  ASSUME TypeOK, [Next]_vars
  PROVE  TypeOK'
<1>0. ASSUME Upset PROVE upsets' \in 0..MaxUpsets
  BY <1>0, AlertsAssumption DEF Upset, TypeOK
<1>1. ASSUME NEW p \in Pollers, Begin(p) PROVE TypeOK'
  <2>1. [at |-> "polling"] \in Work BY DEF Work
  <2>2. [of |-> p, pct |-> Unread] \in Place BY DEF Place
  <2>3. history' \in Seq(Place) BY <1>1, <2>2, AppendProperties DEF Begin, TypeOK
  <2> QED BY <1>1, <2>1, <2>3 DEF Begin, TypeOK
<1>2. ASSUME NEW p \in Pollers, Evaluate(p) PROVE TypeOK'
  <2>1. PICK pct \in Levels :
          LET h == [history EXCEPT ![Own(history, p)].pct = pct] IN
          /\ history' = h
          /\ \E r \in Firing(pct), a \in Existing :
               polls' = [polls EXCEPT ![p] = Verdict(h, p, pct, r, a)]
    BY <1>2 DEF Evaluate
  <2>2. history' \in Seq(Place) BY <2>1, EvaluateHistory DEF TypeOK
  <2>3. PICK r \in Firing(pct), a \in Existing :
          polls' = [polls EXCEPT ![p] = Verdict(history', p, pct, r, a)]
    BY <2>1
  <2>4. Verdict(history', p, pct, r, a) \in Work BY VerdictType
  <2> QED BY <1>2, <2>2, <2>3, <2>4 DEF Evaluate, TypeOK
<1>3. ASSUME NEW p \in Pollers, Commit(p) PROVE TypeOK'
  <2>1. polls[p] \in Work /\ Written(polls[p]) \subseteq Alert
    BY <1>3, WrittenType DEF Commit, TypeOK
  <2>2. history' \in Seq(Place) BY <1>3, EndedType DEF Commit, TypeOK
  <2>3. polls' \in [Pollers -> Work] BY <1>3 DEF Commit, TypeOK, Work
  <2> QED BY <1>3, <2>1, <2>2, <2>3 DEF Commit, TypeOK
<1>4. ASSUME NEW p \in Pollers, Break(p) PROVE TypeOK'
  <2>1. history' \in Seq(Place) BY <1>4, EndedType DEF Break, TypeOK
  <2>2. polls' \in [Pollers -> Work] BY <1>4 DEF Break, TypeOK, Work
  <2> QED BY <1>0, <1>4, <2>1, <2>2 DEF Break, TypeOK
<1>5. ASSUME NEW p \in Pollers, Orphaned(p) PROVE TypeOK'
  BY <1>5 DEF Orphaned, TypeOK, Work
<1>6. CASE CreateRule
  <2>1. Min(FreeRule) \in RuleIds
    <3>1. FreeRule \subseteq Nat BY AlertsAssumption DEF FreeRule
    <3> QED BY <1>6, <3>1, MinBelongs DEF CreateRule, FreeRule
  <2>2. \A new \in NewRules : [new EXCEPT !.id = Min(FreeRule)] \in AlertRule
    BY <2>1, AlertsAssumption DEF AlertRule
  <2>3. rules' \subseteq AlertRule BY <1>6, <2>2 DEF CreateRule, TypeOK
  <2> QED BY <1>0, <1>6, <2>3 DEF CreateRule, Edited, TypeOK
<1>7. CASE UpdateRule
  <2>1. \A r \in AlertRule, s \in Settings :
          [r EXCEPT !.threshold = s.threshold, !.sustained = s.sustained,
                    !.enabled = s.enabled] \in AlertRule
    <3> SUFFICES ASSUME NEW r \in AlertRule, NEW s \in Settings
                 PROVE  [r EXCEPT !.threshold = s.threshold, !.sustained = s.sustained,
                                  !.enabled = s.enabled] \in AlertRule
      OBVIOUS
    <3>1. s.threshold \in Thresholds /\ s.sustained \in Sustains /\ s.enabled \in BOOLEAN
      BY AlertsAssumption
    <3> QED BY <3>1 DEF AlertRule
  <2>2. rules' \subseteq AlertRule BY <1>7, <2>1 DEF UpdateRule, TypeOK
  <2> QED BY <1>0, <1>7, <2>2 DEF UpdateRule, Edited, TypeOK
<1>8. CASE DeleteRule BY <1>0, <1>8 DEF DeleteRule, Edited, TypeOK
<1>9. CASE DeleteDevice BY <1>9, EmptySeq DEF DeleteDevice, TypeOK
<1>10. CASE Absorb
  <2>1. PICK pct \in Levels, r \in rules :
          /\ history' = Recent(Append(history, [of |-> Nobody, pct |-> pct]))
          /\ alerts' \in {alerts, alerts \cup {[id |-> Min(FreeAlert), sev |-> r.sev,
                              threshold |-> r.threshold, open |-> TRUE]}}
    BY <1>10 DEF Absorb
  <2>2. history' \in Seq(Place)
    <3>1. [of |-> Nobody, pct |-> pct] \in Place BY DEF Place
    <3> QED BY <2>1, <3>1, AppendProperties, RecentType DEF TypeOK
  <2>3. Min(FreeAlert) \in AlertIds
    <3>1. FreeAlert \subseteq Nat BY AlertsAssumption DEF FreeAlert
    <3> QED BY <1>10, <3>1, MinBelongs DEF Absorb, FreeAlert
  <2>4. [id |-> Min(FreeAlert), sev |-> r.sev, threshold |-> r.threshold, open |-> TRUE]
          \in Alert
    BY <2>3 DEF TypeOK, AlertRule, Alert
  <2>5. alerts' \subseteq Alert BY <2>1, <2>4 DEF TypeOK
  <2> QED BY <1>0, <1>10, <2>2, <2>5 DEF Absorb, TypeOK
<1>11. CASE UNCHANGED vars BY <1>11 DEF vars, TypeOK
<1> QED
  BY <1>1, <1>2, <1>3, <1>4, <1>5, <1>6, <1>7, <1>8, <1>9, <1>10, <1>11 DEF Next, Works

-------------------------------------------------------------------------------
(* The one poll under way.                                                 *)

(* Two busy polls are one.                                                 *)
Alone == \A p, q \in Busy : p = q
(* Two open alerts are one, and there is none when a poll is to open one.  *)
OneOpen ==
  /\ \A a, b \in OpenAlerts : a = b
  /\ \A p \in Pollers : present /\ polls[p].at = "open" => OpenAlerts = {}
(* Only a busy poll holds a place: the last one of the history.            *)
HeldLast ==
  present =>
    /\ \A i \in 1..Len(history) : history[i].of # Nobody => i = Len(history) /\ history[i].of \in Busy
    /\ \A p \in Busy : Len(history) # 0 /\ history[Len(history)].of = p
(* A poll that is to open an alert stands on the samples its rule asks for. *)
Breaching(seen, t) == {i \in 1..Len(seen) : \A j \in i..Len(seen) : seen[j].pct >= t}
StandsOnSamples ==
  \A p \in Pollers : present /\ polls[p].at = "open" =>
    Cardinality(Breaching(Seen(history, p), polls[p].rule.threshold)) >= polls[p].rule.sustained
IInv == TypeOK /\ (~overlapped => Alone /\ OneOpen /\ HeldLast /\ StandsOnSamples)

LEMMA InvInit == Init => IInv
<1> SUFFICES ASSUME Init PROVE IInv OBVIOUS
<1>1. TypeOK BY TypeInit
<1>2. Busy = {} /\ OpenAlerts = {} BY DEF Init, Busy, OpenAlerts
<1>3. \A p \in Pollers : polls[p].at # "open" BY DEF Init, Idle
<1>4. Len(history) = 0 BY DEF Init
<1> QED BY <1>1, <1>2, <1>3, <1>4 DEF IInv, Alone, OneOpen, HeldLast, StandsOnSamples

(* What two polls have mixed up stays so.                                  *)
LEMMA OverlapStays == [Next]_vars /\ overlapped => overlapped'
BY DEF Next, vars, Begin, Works, Evaluate, Commit, Orphaned, Break, CreateRule, UpdateRule,
       DeleteRule, Edited, DeleteDevice, Absorb

(* The steps that leave the polls, the history and the alerts alone.       *)
Elsewhere == CreateRule \/ UpdateRule \/ DeleteRule \/ UNCHANGED vars

LEMMA ElsewhereFrame == Elsewhere => UNCHANGED <<present, history, alerts, polls, overlapped>>
BY DEF Elsewhere, CreateRule, UpdateRule, DeleteRule, Edited, vars

LEMMA Steps ==
  ASSUME [Next]_vars, ~overlapped'
  PROVE  \/ \E p \in Pollers : Begin(p) \/ Evaluate(p) \/ Commit(p) \/ Break(p) \/ Orphaned(p)
         \/ DeleteDevice \/ Elsewhere
BY DEF Next, Works, Elsewhere, Absorb

LEMMA AloneKept ==
  ASSUME TypeOK, Alone, [Next]_vars, ~overlapped'
  PROVE  Alone'
<1>1. ASSUME NEW p \in Pollers, Begin(p) PROVE Alone'
  <2>1. Busy = {} BY <1>1 DEF Begin
  <2>2. Busy' \subseteq {p} BY <1>1, <2>1 DEF Begin, Busy, TypeOK
  <2> QED BY <2>2 DEF Alone
<1>2. ASSUME NEW p \in Pollers, Evaluate(p) PROVE Alone'
  <2>1. p \in Busy BY <1>2 DEF Evaluate, Busy, Idle
  <2>2. Busy' \subseteq Busy BY <1>2, <2>1 DEF Evaluate, Busy, TypeOK
  <2> QED BY <2>2 DEF Alone
<1>3. ASSUME NEW p \in Pollers, Commit(p) \/ Break(p) \/ Orphaned(p) PROVE Alone'
  <2>1. Busy' \subseteq Busy BY <1>3 DEF Commit, Break, Orphaned, Busy, TypeOK
  <2> QED BY <2>1 DEF Alone
<1>4. CASE DeleteDevice BY <1>4 DEF DeleteDevice, Alone, Busy
<1>5. CASE Elsewhere BY <1>5, ElsewhereFrame DEF Alone, Busy
<1> QED BY <1>1, <1>2, <1>3, <1>4, <1>5, Steps

LEMMA HeldKept ==
  ASSUME TypeOK, Alone, HeldLast, [Next]_vars, ~overlapped'
  PROVE  HeldLast'
<1>0. history \in Seq(Place) /\ Nobody \notin Pollers BY AlertsAssumption DEF TypeOK
<1>1. ASSUME NEW p \in Pollers, Begin(p) PROVE HeldLast'
  <2>1. Busy = {} /\ present BY <1>1 DEF Begin
  <2>2. Busy' = {p} BY <1>1, <2>1 DEF Begin, Busy, TypeOK, Idle
  <2>3. \A i \in 1..Len(history) : history[i].of = Nobody BY <2>1 DEF HeldLast
  <2> DEFINE place == [of |-> p, pct |-> Unread]
  <2>4. place \in Place /\ history' = Append(history, place) BY <1>1 DEF Begin, Place
  <2>5. /\ Len(history') = Len(history) + 1 /\ history'[Len(history) + 1].of = p
        /\ \A i \in 1..Len(history) : history'[i] = history[i]
    BY <1>0, <2>4, AppendProperties
  <2>6. Len(history) \in Nat BY <1>0, LenProperties
  <2> QED BY <2>2, <2>3, <2>5, <2>6 DEF HeldLast
<1>2. ASSUME NEW p \in Pollers, Evaluate(p) PROVE HeldLast'
  <2>1. PICK pct \in Levels : history' = [history EXCEPT ![Own(history, p)].pct = pct]
    BY <1>2 DEF Evaluate
  <2>2. Len(history') = Len(history)
        /\ \A i \in 1..Len(history) : history'[i].of = history[i].of
    BY <1>0, <2>1, EvaluateHistory
  <2>3. p \in Busy BY <1>2 DEF Evaluate, Busy, Idle
  <2>4. Busy' = Busy
    <3>1. PICK c \in Levels : \E r \in Firing(c), a \in Existing :
             polls' = [polls EXCEPT ![p] = Verdict(history', p, c, r, a)]
      BY <1>2 DEF Evaluate
    <3>2. PICK r \in Firing(c), a \in Existing :
             polls' = [polls EXCEPT ![p] = Verdict(history', p, c, r, a)]
      BY <3>1
    <3>3. Verdict(history', p, c, r, a) # Idle BY VerdictType
    <3> QED BY <2>3, <3>2, <3>3 DEF Busy, TypeOK
  <2>5. present BY <1>2 DEF Evaluate
  <2>6. Len(history) # 0 => Len(history) \in 1..Len(history) BY <1>0, LenProperties
  <2> QED BY <2>2, <2>4, <2>5, <2>6 DEF HeldLast
<1>3. ASSUME NEW p \in Pollers, Commit(p) \/ Break(p) PROVE HeldLast'
  <2>1. p \in Busy /\ present /\ history' = Ended(p) /\ polls' = [polls EXCEPT ![p] = Idle]
    BY <1>3 DEF Commit, Break, Busy, Verdicts, Idle
  <2>2. Busy' = {} BY <2>1 DEF Alone, Busy, TypeOK
  <2>3. \A i \in 1..Len(history) : history[i].of \in {p, Nobody}
    BY <2>1 DEF HeldLast, Alone
  <2>4. \A i \in 1..Len(history') : history'[i].of = Nobody
    BY <1>0, <2>1, <2>3, EndedType
  <2> QED BY <2>2, <2>4 DEF HeldLast
<1>4. CASE ~present'
  BY <1>4 DEF HeldLast
<1>5. CASE Elsewhere
  BY <1>5, ElsewhereFrame DEF HeldLast, Busy
<1>6. ASSUME NEW p \in Pollers, Orphaned(p) PROVE ~present'
  BY <1>6 DEF Orphaned
<1>7. DeleteDevice => ~present' BY DEF DeleteDevice
<1> QED BY <1>1, <1>2, <1>3, <1>4, <1>5, <1>6, <1>7, Steps

LEMMA OneOpenKept ==
  ASSUME TypeOK, Alone, OneOpen, [Next]_vars, ~overlapped'
  PROVE  OneOpen'
<1>1. ASSUME NEW p \in Pollers, Begin(p) PROVE OneOpen'
  <2>1. \A q \in Pollers : polls'[q].at = "open" => polls[q].at = "open"
    BY <1>1 DEF Begin, TypeOK
  <2> QED BY <1>1, <2>1 DEF Begin, OneOpen, OpenAlerts
<1>2. ASSUME NEW p \in Pollers, Evaluate(p) PROVE OneOpen'
  <2>1. OpenAlerts' = OpenAlerts /\ present' = present BY <1>2 DEF Evaluate, OpenAlerts
  <2>2. PICK c \in Levels : \E r \in Firing(c), a \in Existing :
           polls' = [polls EXCEPT ![p] = Verdict(history', p, c, r, a)]
    BY <1>2 DEF Evaluate
  <2>3. PICK r \in Firing(c), a \in Existing :
           polls' = [polls EXCEPT ![p] = Verdict(history', p, c, r, a)]
    BY <2>2
  <2>4. Verdict(history', p, c, r, a).at = "open" => OpenAlerts = {} BY VerdictType
  <2>5. \A q \in Pollers : polls'[q].at = "open" => polls[q].at = "open" \/ OpenAlerts = {}
    BY <2>3, <2>4 DEF TypeOK
  <2> QED BY <2>1, <2>5 DEF OneOpen
<1>3. ASSUME NEW p \in Pollers, Commit(p) PROVE OneOpen'
  <2>1. \A q \in Pollers : polls'[q] = Idle
    BY <1>3 DEF Commit, Alone, Busy, TypeOK, Verdicts, Idle
  <2>2. polls[p] \in Work /\ present /\ (polls[p].at = "open" => FreeAlert # {})
    BY <1>3 DEF Commit, TypeOK
  <2>3. OpenAlerts' \subseteq {a \in Written(polls[p]) : a.open}
    BY <1>3 DEF Commit, OpenAlerts
  <2>4. ASSUME polls[p].at = "open" PROVE \A a, b \in OpenAlerts' : a = b
    <3>1. OpenAlerts = {} BY <2>2, <2>4 DEF OneOpen
    <3>2. PICK new \in Alert : Written(polls[p]) = alerts \cup {new}
      BY <2>2, <2>4, WrittenType
    <3> QED BY <2>3, <3>1, <3>2 DEF OpenAlerts
  <2>5. ASSUME polls[p].at # "open" PROVE \A a, b \in OpenAlerts' : a = b
    <3>1. PICK f \in [alerts -> Alert] :
             /\ Written(polls[p]) = {f[a] : a \in alerts}
             /\ \A a \in alerts : f[a].open => a.open
      BY <2>2, <2>5, WrittenType
    <3>2. \A a \in OpenAlerts' : \E b \in OpenAlerts : a = f[b]
      BY <2>3, <3>1 DEF OpenAlerts
    <3> QED BY <3>2 DEF OneOpen
  <2> QED BY <2>1, <2>4, <2>5 DEF OneOpen, Idle
<1>4. ASSUME NEW p \in Pollers, Break(p) \/ Orphaned(p) PROVE OneOpen'
  <2>1. \A q \in Pollers : polls'[q].at = "open" => polls[q].at = "open"
    BY <1>4 DEF Break, Orphaned, TypeOK, Idle
  <2>2. OpenAlerts' \subseteq OpenAlerts /\ present' = present
    BY <1>4 DEF Break, Orphaned, OpenAlerts
  <2> QED BY <2>1, <2>2 DEF OneOpen
<1>5. CASE DeleteDevice
  BY <1>5 DEF DeleteDevice, OneOpen, OpenAlerts
<1>6. CASE Elsewhere
  BY <1>6, ElsewhereFrame DEF OneOpen, OpenAlerts
<1> QED BY <1>1, <1>2, <1>3, <1>4, <1>5, <1>6, Steps

(* The samples of a run of k breach, the latest k of those the history has. *)
LEMMA LongEnough ==
  ASSUME NEW seen \in Seq(Place), NEW t, NEW k \in Nat, k <= Len(seen),
         \A i \in Len(seen) - k + 1..Len(seen) : seen[i].pct >= t
  PROVE  Cardinality(Breaching(seen, t)) >= k
<1> DEFINE n == Len(seen)
           run == n - k + 1..n
<1>1. n \in Nat BY LenProperties
<1>2. run \subseteq Breaching(seen, t) BY <1>1 DEF Breaching
<1>3. IsFiniteSet(1..n) /\ IsFiniteSet(run) /\ Cardinality(run) = k
  <2>1. n - k + 1 \in Int /\ n \in Int BY <1>1
  <2>2. Cardinality(run) = IF n - k + 1 > n THEN 0 ELSE n - (n - k + 1) + 1
    BY <2>1, FS_Interval
  <2> QED BY <1>1, <2>1, <2>2, FS_Interval
<1>4. Breaching(seen, t) \subseteq 1..n BY DEF Breaching
<1>5. IsFiniteSet(Breaching(seen, t)) BY <1>3, <1>4, FS_Subset
<1>6. Cardinality(run) <= Cardinality(Breaching(seen, t)) BY <1>2, <1>5, FS_Subset
<1>7. Cardinality(Breaching(seen, t)) \in Nat BY <1>5, FS_CardinalityType
<1> QED BY <1>3, <1>6, <1>7

(* A poll that holds the last place sees the whole history, its own sample *)
(* last.                                                                   *)
LEMMA SeenWhole ==
  ASSUME NEW h \in Seq(Place), NEW p, Len(h) # 0, h[Len(h)].of = p, IsRead(h[Len(h)]),
         \A i \in 1..Len(h) : h[i].of = p => i = Len(h)
  PROVE  /\ Seen(h, p) \in Seq(Place)
         /\ Len(Seen(h, p)) \in Nat \ {0}
         /\ Seen(h, p)[Len(Seen(h, p))] = h[Len(h)]
<1> DEFINE T == {e \in Place : IsRead(e)}
<1>1. Len(h) \in Nat \ {0} /\ Len(h) \in 1..Len(h) BY LenProperties
<1>2. Own(h, p) = Len(h) BY <1>1 DEF Own
<1>3. SubSeq(h, 1, Len(h)) = h BY SubSeqFull
<1>4. Seen(h, p) = Where(h, T) BY <1>2, <1>3 DEF Seen
<1>5. h[Len(h)] \in T BY <1>1, ElementOfSeq
<1>6. Where(h, T) \in Seq(Elements(h, T)) BY <1>1, WhereType
<1>7. Elements(h, T) \subseteq Place BY DEF Elements
<1>8. Where(h, T) \in Seq(Place) BY <1>6, <1>7, SeqMonotone
<1>9. LET kept == Where(h, T) IN Len(kept) \in Nat \ {0} /\ kept[Len(kept)] = h[Len(h)]
  BY <1>1, <1>5, WhereLast
<1> QED BY <1>4, <1>8, <1>9

(* A sustained breach that the poll's own sample ends is as long as its    *)
(* rule asks for.                                                          *)
LEMMA SustainedStands ==
  ASSUME NEW h \in Seq(Place), NEW p, NEW r \in AlertRule,
         Len(h) # 0, h[Len(h)].of = p, IsRead(h[Len(h)]),
         \A i \in 1..Len(h) : h[i].of = p => i = Len(h),
         h[Len(h)].pct >= r.threshold, _breach_is_sustained(h, p, r)
  PROVE  Cardinality(Breaching(Seen(h, p), r.threshold)) >= r.sustained
<1> DEFINE seen == Seen(h, p)
<1>1. seen \in Seq(Place) /\ Len(seen) \in Nat \ {0} /\ seen[Len(seen)] = h[Len(h)]
  BY SeenWhole
<1>2. r.sustained \in 1..20 BY AlertsAssumption DEF AlertRule
<1>3. \/ r.sustained <= 1
      \/ /\ Len(seen) >= r.sustained
         /\ \A i \in Len(seen) - r.sustained + 1..Len(seen) : seen[i].pct >= r.threshold
  BY DEF _breach_is_sustained
<1> HIDE DEF seen
<1>4. r.sustained \in Nat /\ r.sustained <= Len(seen) BY <1>1, <1>2, <1>3
<1>5. \A i \in Len(seen) - r.sustained + 1..Len(seen) : seen[i].pct >= r.threshold
  <2>1. CASE r.sustained <= 1
    <3>1. r.sustained = 1 BY <1>2, <2>1
    <3>2. \A i \in Len(seen) - 1 + 1..Len(seen) : i = Len(seen) BY <1>1
    <3> QED BY <1>1, <3>1, <3>2
  <2> QED BY <1>3, <2>1
<1> QED BY <1>1, <1>4, <1>5, LongEnough DEF seen

LEMMA StandsKept ==
  ASSUME TypeOK, Alone, HeldLast, StandsOnSamples, [Next]_vars, ~overlapped'
  PROVE  StandsOnSamples'
<1>0. history \in Seq(Place) /\ Nobody \notin Pollers BY AlertsAssumption DEF TypeOK
<1>1. ASSUME NEW p \in Pollers, Begin(p) PROVE StandsOnSamples'
  <2>1. Busy = {} BY <1>1 DEF Begin
  <2>2. \A q \in Pollers : polls'[q].at # "open"
    BY <1>1, <2>1 DEF Begin, Busy, TypeOK, Idle
  <2> QED BY <2>2 DEF StandsOnSamples
<1>2. ASSUME NEW p \in Pollers, Evaluate(p) PROVE StandsOnSamples'
  <2>1. p \in Busy /\ present /\ p \in Pollers BY <1>2 DEF Evaluate, Busy, Idle
  <2>2. PICK pct \in Levels :
          LET h == [history EXCEPT ![Own(history, p)].pct = pct] IN
          /\ history' = h
          /\ \E r \in Firing(pct), a \in Existing :
               polls' = [polls EXCEPT ![p] = Verdict(h, p, pct, r, a)]
    BY <1>2 DEF Evaluate
  <2>3. PICK r \in Firing(pct), a \in Existing :
          polls' = [polls EXCEPT ![p] = Verdict(history', p, pct, r, a)]
    BY <2>2
  <2>4. /\ Len(history) # 0 /\ history[Len(history)].of = p
        /\ \A i \in 1..Len(history) : history[i].of = p => i = Len(history)
    BY <1>0, <2>1 DEF HeldLast
  <2>5. Len(history) \in 1..Len(history) BY <1>0, <2>4, LenProperties
  <2>6. Own(history, p) = Len(history) BY <2>4, <2>5 DEF Own
  <2>7. /\ history' \in Seq(Place) /\ Len(history') = Len(history)
        /\ \A i \in 1..Len(history) : history'[i].of = history[i].of
        /\ history'[Len(history)].pct = pct
    BY <1>0, <2>2, <2>5, <2>6, EvaluateHistory
  <2>8. pct # Unread
    <3>1. pct \in 0..100 BY AlertsAssumption
    <3> QED BY <3>1 DEF Unread
  <2>9. IsRead(history'[Len(history)]) BY <2>7, <2>8 DEF IsRead
  <2>10. ASSUME NEW q \in Pollers, polls'[q].at = "open"
         PROVE  Cardinality(Breaching(Seen(history', q), polls'[q].rule.threshold))
                  >= polls'[q].rule.sustained
    <3>1. q = p BY <2>1, <2>3, <2>10 DEF Alone, Busy, TypeOK, Idle
    <3>2. polls'[p] = Verdict(history', p, pct, r, a) BY <2>1, <2>3 DEF TypeOK
    <3>3. polls'[p].rule = r /\ r # NoRule /\ _breach_is_sustained(history', p, r)
      BY <2>10, <3>1, <3>2, VerdictType
    <3>4. r \in AlertRule /\ pct >= r.threshold BY <3>3, FiringType
    <3>5. Cardinality(Breaching(Seen(history', p), r.threshold)) >= r.sustained
      BY <2>4, <2>5, <2>7, <2>9, <3>3, <3>4, SustainedStands
    <3> QED BY <3>1, <3>3, <3>5
  <2> QED BY <2>10 DEF StandsOnSamples
<1>3. ASSUME NEW p \in Pollers, Commit(p) \/ Break(p) PROVE StandsOnSamples'
  <2>1. p \in Busy /\ polls' = [polls EXCEPT ![p] = Idle]
    BY <1>3 DEF Commit, Break, Busy, Verdicts, Idle
  <2>2. \A q \in Pollers : polls'[q].at # "open"
    BY <2>1 DEF Alone, Busy, TypeOK, Idle
  <2> QED BY <2>2 DEF StandsOnSamples
<1>4. CASE ~present' BY <1>4 DEF StandsOnSamples
<1>5. CASE Elsewhere
  <2>1. UNCHANGED <<present, history, polls>> BY <1>5, ElsewhereFrame
  <2> QED BY <2>1 DEF StandsOnSamples
<1>6. ASSUME NEW p \in Pollers, Orphaned(p) PROVE ~present'
  BY <1>6 DEF Orphaned
<1>7. DeleteDevice => ~present' BY DEF DeleteDevice
<1> QED BY <1>1, <1>2, <1>3, <1>4, <1>5, <1>6, <1>7, Steps

LEMMA InvStep == IInv /\ [Next]_vars => IInv'
<1> SUFFICES ASSUME IInv, [Next]_vars PROVE IInv' OBVIOUS
<1>1. TypeOK' BY TypeStep DEF IInv
<1>2. ASSUME ~overlapped' PROVE (Alone /\ OneOpen /\ HeldLast /\ StandsOnSamples)'
  <2>1. Alone /\ OneOpen /\ HeldLast /\ StandsOnSamples /\ TypeOK
    BY <1>2, OverlapStays DEF IInv
  <2> QED BY <1>2, <2>1, AloneKept, OneOpenKept, HeldKept, StandsKept
<1> QED BY <1>1, <1>2 DEF IInv

-------------------------------------------------------------------------------

(* Every reachable state has its type: an alert, a rule, a sample and what *)
(* a poll is about to commit are rows the tables admit.                    *)
THEOREM AlertsTypeCorrect == Spec => []TypeOK
<1>1. TypeOK /\ [Next]_vars => TypeOK' BY TypeStep
<1> QED BY TypeInit, <1>1, PTL DEF Spec

(* Polls that do not overlap leave one open alert of the metric, whatever  *)
(* rules are edited, replaced, disabled or deleted between and under them. *)
THEOREM OneAlertOpen == Spec => []OneOpenPerMetric
<1>1. IInv => OneOpenPerMetric
  <2> SUFFICES ASSUME IInv, ~overlapped PROVE Cardinality(OpenAlerts) <= 1
    BY DEF OneOpenPerMetric
  <2>1. OpenAlerts = {} \/ \E a : OpenAlerts = {a} BY DEF IInv, OneOpen
  <2>2. CASE OpenAlerts = {}
    <3>1. Cardinality(OpenAlerts) = 0 BY <2>2, FS_EmptySet
    <3> QED BY <3>1
  <2>3. CASE \E a : OpenAlerts = {a}
    <3>1. Cardinality(OpenAlerts) = 1 BY <2>3, FS_Singleton
    <3> QED BY <3>1
  <2> QED BY <2>1, <2>2, <2>3
<1> QED BY InvInit, InvStep, <1>1, PTL DEF Spec

(* An alert is opened on as many samples in a row as its rule asked for,   *)
(* by a poll that does not overlap another, whatever a broken poll left    *)
(* out of the history and whatever the rule has become since.              *)
THEOREM AlertsAreSustained == Spec => []OpensSustained
<1>1. IInv => OpensSustained BY DEF IInv, StandsOnSamples, OpensSustained, Breaching
<1> QED BY InvInit, InvStep, <1>1, PTL DEF Spec
===============================================================================
