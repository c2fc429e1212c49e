---------------------------- MODULE ServiceProofs ----------------------------
(***************************************************************************)
(* Theorems of the SIP service's outgoing side, for all faxes, accounts,   *)
(* limits, commands and accidents.                                         *)
(***************************************************************************)
EXTENDS Service, FiniteSetTheorems, SequenceTheorems, WellFoundedInduction, TLAPS

Elements(q) == {q[n] : n \in 1..Len(q)}
Distinct(q) == \A m, n \in 1..Len(q) : q[m] = q[n] => m = n

Submitted == {s \in Sends : sender[s] \in {"ringing", "waiting"}}
Answered == {s \in Sends : answers[s] # <<>>}

(* The five places of a fax have nothing in common, and a fax is in one of *)
(* them from when its sender submitted it to when it took the answer.      *)
Places5(C, Q, P, W, A) ==
    /\ C \cap Q = {} /\ C \cap P = {} /\ C \cap W = {} /\ C \cap A = {}
    /\ Q \cap P = {} /\ Q \cap W = {} /\ Q \cap A = {}
    /\ P \cap W = {} /\ P \cap A = {}
    /\ W \cap A = {}
Placed ==
    /\ Places5(calls, OnChannel, Elements(pending), Elements(waiting), Answered)
    /\ Submitted = calls \cup OnChannel \cup Elements(pending) \cup Elements(waiting) \cup Answered

(* No fax twice in one place; only a turn that prepares has waiting ones.  *)
OnceOnChannel ==
    \A m, n \in 1..Len(queue) : queue[m].of \in Sends /\ queue[m].of = queue[n].of => m = n
Once ==
    /\ OnceOnChannel
    /\ Distinct(pending) /\ Distinct(waiting)
    /\ loop # "prepares" => waiting = <<>>
    /\ \A s \in Sends : account[s] = None => sender[s] = "over"

(* The senders at work are as few as the limit says, and none was refused. *)
Room ==
    /\ Cardinality(Engaged) <= limit
    /\ \A s \in Sends : answers[s] # <<"refused">>

(* A connector without a result has a thread that was not told to stop, at *)
(* most one, and one with a result has none.                               *)
At(w) == workers[w] # None /\ workers[w].stage = "running" /\ ~workers[w].stop
Linked ==
    /\ \A w \in Slots : At(w) =>
          connectors[workers[w].of] # None /\ connectors[workers[w].of].result = None
    /\ \A v, w \in Slots : At(v) /\ At(w) /\ workers[v].of = workers[w].of => v = w

(* A free slot is one of the receiver's own connection, and what is shown  *)
(* while an attempt is put off is its error.                               *)
Shown ==
    /\ available => desired # None /\ Listened(connections)
    /\ retry # "now" => status # "ready"
    /\ StatusHonest

Inv == TypeOK /\ Placed /\ Once /\ Room /\ Linked /\ Shown
------------------------------------------------------------------------------
(* What replaces induction over the positions of a sequence: a set of     *)
(* numbers has a least one.                                                *)
LEMMA LeastOf ==
    ASSUME NEW T, T \subseteq Nat, T # {}
    PROVE  \E x \in T : \A y \in T : ~(y < x)
<1> DEFINE R == {ss \in Nat \X Nat : ss[1] < ss[2]}
<1>1. IsWellFoundedOn(R, Nat)
  BY NatLessThanWellFounded, Zenon DEF OpToRel
<1>2. \E x \in T : \A y \in T : ~ (<<y, x>> \in R)
  <2> HIDE DEF R
  <2> QED BY <1>1, WFMin
<1> QED BY <1>2

(* The recursive function in Retain exists, one step for each element.     *)
LEMMA RetainSteps ==
    ASSUME NEW S, NEW q \in Seq(S), NEW gone
    PROVE  \E f : /\ Retain(q, gone) = f[Len(q)]
                  /\ f[0] = <<>>
                  /\ \A n \in 1..Len(q) :
                        f[n] = IF q[n] \in gone THEN f[n - 1] ELSE Append(f[n - 1], q[n])
<1> DEFINE Solves(f, m) == f = [n \in 0..m |-> IF n = 0 THEN <<>>
                       ELSE IF q[n] \in gone THEN f[n - 1] ELSE Append(f[n - 1], q[n])]
           Lacking == {m \in 0..Len(q) : \A f : ~Solves(f, m)}
<1>0. Len(q) \in Nat OBVIOUS
<1> DEFINE k == CHOOSE f : Solves(f, Len(q))
<1>1. SUFFICES Lacking = {}
  <2>1. Len(q) \in 0..Len(q) BY <1>0
  <2> SUFFICES ASSUME Lacking = {} PROVE Solves(k, Len(q)) /\ Retain(q, gone) = k[Len(q)]
    <3>1. ASSUME Solves(k, Len(q))
          PROVE  /\ k[0] = <<>>
                 /\ \A n \in 1..Len(q) :
                       k[n] = IF q[n] \in gone THEN k[n - 1] ELSE Append(k[n - 1], q[n])
      <4> HIDE DEF k
      <4>1. 0 \in 0..Len(q) /\ \A n \in 1..Len(q) : n \in 0..Len(q) /\ n # 0
        BY <1>0
      <4> QED BY <3>1, <4>1
    <3> HIDE DEF k, Solves
    <3> QED BY <3>1
  <2>2. Solves(k, Len(q))
    <3> HIDE DEF Solves
    <3> QED BY <2>1
  <2>3. Retain(q, gone) = k[Len(q)]  BY Zenon DEF Retain
  <2> QED BY <2>2, <2>3
<1>2. SUFFICES ASSUME Lacking # {} PROVE FALSE OBVIOUS
<1>3. PICK m \in Lacking : \A y \in Lacking : ~(y < m)
  <2>1. Lacking \subseteq Nat BY <1>0
  <2> HIDE DEF Lacking
  <2> QED BY <2>1, <1>2, LeastOf
<1>4. m \in 0..Len(q) OBVIOUS
<1>5. m # 0
  <2>1. Solves([n \in 0..0 |-> <<>>], 0)  OBVIOUS
  <2> HIDE DEF Solves
  <2> QED BY <2>1
<1>6. m - 1 \in 0..Len(q) /\ m - 1 < m BY <1>4, <1>5, <1>0
<1>7. PICK g : Solves(g, m - 1)
  <2>1. m - 1 \notin Lacking BY <1>6, <1>3
  <2> HIDE DEF Solves
  <2> QED BY <2>1, <1>6
<1> DEFINE v == IF q[m] \in gone THEN g[m - 1] ELSE Append(g[m - 1], q[m])
           h == [n \in 0..m |-> IF n = m THEN v ELSE g[n]]
<1>8. Solves(h, m)
  <2>1. \A n \in 0..(m - 1) : h[n] = g[n]
    BY <1>4, <1>6, <1>0
  <2>2. h[m] = v BY <1>4, <1>0
  <2>3. \A n \in 0..(m-1) : g[n] = IF n = 0 THEN <<>>
                       ELSE IF q[n] \in gone THEN g[n - 1] ELSE Append(g[n - 1], q[n])
    BY <1>7
  <2> DEFINE D(n) == IF n = 0 THEN <<>>
                       ELSE IF q[n] \in gone THEN h[n - 1] ELSE Append(h[n - 1], q[n])
  <2>4. ASSUME NEW n \in 0..m PROVE h[n] = D(n)
    <3>1. CASE n = m
      <4>1. h[m-1] = g[m-1] BY <2>1, <1>6, <1>4, <1>0
      <4> QED BY <4>1, <3>1, <2>2, <1>5
    <3>2. CASE n # m
      <4>1. n \in 0..(m-1) BY <3>2, <1>4, <1>0
      <4>2. n # 0 => n - 1 \in 0..(m-1) BY <4>1, <1>6
      <4>3. n # 0 => h[n-1] = g[n-1] BY <2>1, <4>2
      <4>4. h[n] = g[n] BY <2>1, <4>1
      <4> HIDE DEF h
      <4> QED BY <2>3, <4>1, <4>3, <4>4
    <3> QED BY <3>1, <3>2
  <2>5. h = [n \in 0..m |-> D(n)]
    <3>1. h = [n \in 0..m |-> h[n]] OBVIOUS
    <3> HIDE DEF D, h
    <3> QED BY <3>1, <2>4
  <2> HIDE DEF h
  <2> QED BY <2>5
<1> HIDE DEF Solves
<1> QED BY <1>8, <1>3


(* Retain keeps the elements that are not lost, and repeats none.          *)
LEMMA Retained ==
    ASSUME NEW S, NEW q \in Seq(S), NEW gone
    PROVE  /\ Retain(q, gone) \in Seq(S)
           /\ \A k \in 1..Len(Retain(q, gone)) :
                 \E j \in 1..Len(q) : Retain(q, gone)[k] = q[j] /\ q[j] \notin gone
           /\ \A j \in 1..Len(q) : q[j] \notin gone =>
                 \E k \in 1..Len(Retain(q, gone)) : Retain(q, gone)[k] = q[j]
           /\ (\A i, j \in 1..Len(q) : q[i] = q[j] => i = j) =>
                 \A i, j \in 1..Len(Retain(q, gone)) :
                    Retain(q, gone)[i] = Retain(q, gone)[j] => i = j
<1>1. PICK f : /\ Retain(q, gone) = f[Len(q)]
               /\ f[0] = <<>>
               /\ \A n \in 1..Len(q) :
                     f[n] = IF q[n] \in gone THEN f[n - 1] ELSE Append(f[n - 1], q[n])
  BY RetainSteps
<1> DEFINE Apart(s, n) == \A i, j \in 1..n : s[i] = s[j] => i = j
           Holds(n) ==
              /\ f[n] \in Seq(S)
              /\ \A k \in 1..Len(f[n]) : \E j \in 1..n : f[n][k] = q[j] /\ q[j] \notin gone
              /\ \A j \in 1..n : q[j] \notin gone => \E k \in 1..Len(f[n]) : f[n][k] = q[j]
              /\ Apart(q, n) => Apart(f[n], Len(f[n]))
           Failing == {n \in 0..Len(q) : ~Holds(n)}
<1>2. Len(q) \in Nat OBVIOUS
<1>3. SUFFICES Failing = {}
  <2>1. ASSUME Failing = {} PROVE Holds(Len(q))
    <3>1. Len(q) \in 0..Len(q) BY <1>2
    <3> HIDE DEF Holds
    <3> QED BY <2>1, <3>1
  <2> QED BY <2>1, <1>1
<1>4. SUFFICES ASSUME Failing # {} PROVE FALSE OBVIOUS
<1>5. PICK m \in Failing : \A n \in Failing : ~(n < m)
  <2>1. Failing \subseteq Nat BY <1>2
  <2> HIDE DEF Failing
  <2> QED BY <2>1, <1>4, LeastOf
<1>6. m \in 0..Len(q) OBVIOUS
<1>7. Holds(0) BY <1>1
<1>8. m # 0
  <2> HIDE DEF Holds
  <2> QED BY <1>7
<1>9. m \in 1..Len(q) /\ m - 1 \in 0..Len(q) /\ m - 1 < m BY <1>6, <1>8, <1>2
<1> DEFINE l == m - 1
<1>10. Holds(l)
  <2>1. l \notin Failing BY <1>9, <1>5
  <2> HIDE DEF Holds
  <2> QED BY <2>1, <1>9
<1>11. l \in Nat /\ m = l + 1 /\ m \in 1..Len(q) BY <1>9
<1>12. f[m] = IF q[m] \in gone THEN f[l] ELSE Append(f[l], q[m]) BY <1>1, <1>9
<1> HIDE DEF l
<1> DEFINE p == f[l]
<1>13. /\ p \in Seq(S)
       /\ \A k \in 1..Len(p) : \E j \in 1..l : p[k] = q[j] /\ q[j] \notin gone
       /\ \A j \in 1..l : q[j] \notin gone => \E k \in 1..Len(p) : p[k] = q[j]
       /\ Apart(q, l) => Apart(p, Len(p))
  BY <1>10
<1>14. f[m] = IF q[m] \in gone THEN p ELSE Append(p, q[m]) BY <1>12
<1>15. q[m] \in S BY <1>11
<1> HIDE DEF p
<1>16. \A j \in 1..m : j \in 1..l \/ j = m BY <1>11
<1>17. \A j \in 1..l : j \in 1..m /\ j # m BY <1>11
<1>18. m \in 1..m BY <1>11
<1>19. Apart(q, m) => Apart(q, l) BY <1>17
<1>20. CASE q[m] \in gone
  <2>1. f[m] = p BY <1>20, <1>14
  <2>2. \A k \in 1..Len(p) : \E j \in 1..m : p[k] = q[j] /\ q[j] \notin gone
    BY <1>13, <1>17
  <2>3. \A j \in 1..m : q[j] \notin gone => \E k \in 1..Len(p) : p[k] = q[j]
    BY <1>13, <1>16, <1>20
  <2>4. Apart(q, m) => Apart(p, Len(p)) BY <1>13, <1>19
  <2>5. Holds(m)
    <3> HIDE DEF Apart
    <3> QED BY <2>1, <2>2, <2>3, <2>4, <1>13
  <2> QED BY <2>5
<1>21. CASE q[m] \notin gone
  <2> DEFINE r == Append(p, q[m])
  <2>1. f[m] = r BY <1>21, <1>14
  <2>2. /\ r \in Seq(S) /\ Len(r) = Len(p) + 1 /\ r[Len(p) + 1] = q[m]
        /\ \A k \in 1..Len(p) : r[k] = p[k]
        /\ Len(p) \in Nat
    BY <1>13, <1>15
  <2> HIDE DEF r
  <2>3. \A k \in 1..Len(r) : k \in 1..Len(p) \/ k = Len(p) + 1 BY <2>2
  <2>4. \A k \in 1..Len(p) : k \in 1..Len(r) /\ k # Len(p) + 1 BY <2>2
  <2>5. Len(p) + 1 \in 1..Len(r) BY <2>2
  <2>6. \A k \in 1..Len(r) : \E j \in 1..m : r[k] = q[j] /\ q[j] \notin gone
    <3>1. TAKE k \in 1..Len(r)
    <3>2. CASE k \in 1..Len(p)
      <4>1. PICK j \in 1..l : p[k] = q[j] /\ q[j] \notin gone BY <1>13, <3>2
      <4> QED BY <4>1, <1>17, <2>2, <3>2
    <3>3. CASE k = Len(p) + 1 BY <3>3, <2>2, <1>18, <1>21
    <3> QED BY <3>2, <3>3, <2>3
  <2>7. \A j \in 1..m : q[j] \notin gone => \E k \in 1..Len(r) : r[k] = q[j]
    <3>1. SUFFICES ASSUME NEW j \in 1..m, q[j] \notin gone
                   PROVE  \E k \in 1..Len(r) : r[k] = q[j]
      OBVIOUS
    <3>2. CASE j \in 1..l
      <4>1. PICK k \in 1..Len(p) : p[k] = q[j] BY <3>1, <3>2, <1>13
      <4> QED BY <4>1, <2>2, <2>4
    <3>3. CASE j = m BY <3>3, <2>2, <2>5
    <3> QED BY <3>2, <3>3, <1>16
  <2>8. ASSUME Apart(q, m) PROVE Apart(r, Len(r))
    <3>1. Apart(p, Len(p))
      <4> HIDE DEF Apart
      <4> QED BY <2>8, <1>19, <1>13
    <3>2. \A k \in 1..Len(p) : p[k] # q[m]
      <4>1. TAKE k \in 1..Len(p)
      <4>2. PICK j \in 1..l : p[k] = q[j] BY <1>13
      <4> QED BY <4>2, <1>17, <1>18, <2>8
    <3>3. TAKE i, j \in 1..Len(r)
    <3>4. CASE i \in 1..Len(p) /\ j \in 1..Len(p) BY <3>4, <3>1, <2>2
    <3>5. CASE i = Len(p) + 1 /\ j = Len(p) + 1 BY <3>5
    <3>6. CASE i \in 1..Len(p) /\ j = Len(p) + 1 BY <3>6, <3>2, <2>2
    <3>7. CASE i = Len(p) + 1 /\ j \in 1..Len(p) BY <3>7, <3>2, <2>2
    <3> QED BY <3>4, <3>5, <3>6, <3>7, <2>3
  <2>9. Holds(m)
    <3> HIDE DEF Apart
    <3> QED BY <2>1, <2>2, <2>6, <2>7, <2>8
  <2> QED BY <2>9
<1> QED BY <1>20, <1>21

(* Retain in terms of Elements and Distinct. *)
LEMMA RetainIs ==
    ASSUME NEW S, NEW q \in Seq(S), NEW gone
    PROVE  /\ Retain(q, gone) \in Seq(S)
           /\ Elements(Retain(q, gone)) = Elements(q) \ gone
           /\ Distinct(q) => Distinct(Retain(q, gone))
<1> DEFINE r == Retain(q, gone)
<1>1. /\ r \in Seq(S)
      /\ \A k \in 1..Len(r) : \E j \in 1..Len(q) : r[k] = q[j] /\ q[j] \notin gone
      /\ \A j \in 1..Len(q) : q[j] \notin gone => \E k \in 1..Len(r) : r[k] = q[j]
      /\ (\A i, j \in 1..Len(q) : q[i] = q[j] => i = j) =>
            \A i, j \in 1..Len(r) : r[i] = r[j] => i = j
  BY Retained
<1> HIDE DEF r
<1>2. Elements(r) = Elements(q) \ gone
  <2>1. ASSUME NEW x \in Elements(r) PROVE x \in Elements(q) \ gone
    <3>1. PICK k \in 1..Len(r) : x = r[k] BY <2>1 DEF Elements
    <3>2. PICK j \in 1..Len(q) : r[k] = q[j] /\ q[j] \notin gone BY <1>1
    <3> QED BY <3>1, <3>2 DEF Elements
  <2>2. ASSUME NEW x \in Elements(q) \ gone PROVE x \in Elements(r)
    <3>1. PICK j \in 1..Len(q) : x = q[j] BY <2>2 DEF Elements
    <3>2. PICK k \in 1..Len(r) : r[k] = q[j] BY <1>1, <3>1, <2>2
    <3> QED BY <3>1, <3>2 DEF Elements
  <2> QED BY <2>1, <2>2
<1>3. Distinct(q) => Distinct(r) BY <1>1 DEF Distinct
<1> QED BY <1>1, <1>2, <1>3 DEF r

LEMMA AppendIs ==
    ASSUME NEW S, NEW q \in Seq(S), NEW x \in S
    PROVE  /\ Append(q, x) \in Seq(S)
           /\ Elements(Append(q, x)) = Elements(q) \cup {x}
           /\ Distinct(q) /\ x \notin Elements(q) => Distinct(Append(q, x))
<1> DEFINE r == Append(q, x)
           l == Len(q)
<1>1. /\ r \in Seq(S) /\ Len(r) = l + 1 /\ r[l + 1] = x /\ l \in Nat
      /\ \A n \in 1..l : r[n] = q[n]
  OBVIOUS
<1> HIDE DEF r
<1>2. \A n \in 1..Len(r) : n \in 1..l \/ n = l + 1 BY <1>1
<1>3. \A n \in 1..l : n \in 1..Len(r) BY <1>1
<1>4. l + 1 \in 1..Len(r) BY <1>1
<1>5. Elements(r) = Elements(q) \cup {x}
  BY <1>1, <1>2, <1>3, <1>4 DEF Elements
<1>6. ASSUME Distinct(q), x \notin Elements(q) PROVE Distinct(r)
  <2>1. \A m, n \in 1..l : q[m] = q[n] => m = n BY <1>6 DEF Distinct
  <2>2. \A n \in 1..l : q[n] # x BY <1>6 DEF Elements
  <2>3. SUFFICES ASSUME NEW m \in 1..Len(r), NEW n \in 1..Len(r), r[m] = r[n] PROVE m = n
    BY DEF Distinct
  <2> QED BY <2>1, <2>2, <2>3, <1>1, <1>2
<1> QED BY <1>1, <1>5, <1>6 DEF r

LEMMA TailIs ==
    ASSUME NEW S, NEW q \in Seq(S), q # <<>>
    PROVE  /\ Tail(q) \in Seq(S) /\ Head(q) \in S /\ Len(Tail(q)) + 1 = Len(q)
           /\ Elements(q) = {Head(q)} \cup Elements(Tail(q))
           /\ Distinct(q) => Distinct(Tail(q)) /\ Head(q) \notin Elements(Tail(q))
<1> DEFINE r == Tail(q)
           l == Len(q)
<1>1. /\ r \in Seq(S) /\ Len(r) + 1 = l /\ l \in Nat /\ Len(r) \in Nat
      /\ Head(q) = q[1] /\ q[1] \in S /\ l # 0
      /\ \A n \in 1..Len(r) : r[n] = q[n + 1]
  OBVIOUS
<1> HIDE DEF r
<1>2. \A n \in 1..l : n = 1 \/ (n - 1 \in 1..Len(r) /\ n = (n - 1) + 1) BY <1>1
<1>3. \A n \in 1..Len(r) : n + 1 \in 1..l /\ n + 1 # 1 BY <1>1
<1>4. 1 \in 1..l BY <1>1
<1>5. \A n \in 1..l : n = 1 \/ \E k \in 1..Len(r) : q[n] = r[k]
  <2>1. TAKE n \in 1..l
  <2> QED BY <1>2, <1>1
<1>6. Elements(q) = {Head(q)} \cup Elements(r)
  <2>1. ASSUME NEW x \in Elements(q) PROVE x \in {Head(q)} \cup Elements(r)
    <3>1. PICK n \in 1..l : x = q[n] BY <2>1 DEF Elements
    <3> QED BY <3>1, <1>5, <1>1 DEF Elements
  <2>2. ASSUME NEW k \in 1..Len(r) PROVE r[k] \in Elements(q)
    <3> DEFINE b == k + 1
    <3>1. b \in 1..l /\ r[k] = q[b] BY <1>1, <1>3
    <3> HIDE DEF b
    <3> QED BY <3>1 DEF Elements
  <2>3. Head(q) \in Elements(q) BY <1>1, <1>4 DEF Elements
  <2> HIDE DEF l
  <2> QED BY <2>1, <2>2, <2>3 DEF Elements
<1>7. ASSUME Distinct(q) PROVE Distinct(r) /\ Head(q) \notin Elements(r)
  <2>1. ASSUME NEW m \in 1..Len(r), NEW n \in 1..Len(r), r[m] = r[n] PROVE m = n
    <3> DEFINE a == m + 1
               b == n + 1
    <3>1. a \in 1..l /\ b \in 1..l BY <1>3
    <3>2. q[a] = q[b] BY <2>1, <1>1
    <3>3. a = b
      <4> HIDE DEF a, b
      <4> QED BY <3>1, <3>2, <1>7 DEF Distinct
    <3> QED BY <3>3, <1>1
  <2>2. ASSUME NEW n \in 1..Len(r) PROVE r[n] # Head(q)
    <3> DEFINE b == n + 1
    <3>1. b \in 1..l /\ b # 1 BY <1>3
    <3>2. r[n] = q[b] BY <1>1
    <3> HIDE DEF b
    <3> QED BY <3>1, <3>2, <1>1, <1>4, <1>7 DEF Distinct
  <2> QED BY <2>1, <2>2 DEF Distinct, Elements
<1> QED BY <1>1, <1>6, <1>7 DEF r

(* A sequence without repetitions is as long as the set of its elements.   *)
LEMMA DistinctIsAsLong ==
    ASSUME NEW S, NEW q \in Seq(S), Distinct(q)
    PROVE  IsFiniteSet(Elements(q)) /\ Cardinality(Elements(q)) = Len(q)
<1> DEFINE l == Len(q)
<1>1. l \in Nat /\ q \in [1..l -> S] OBVIOUS
<1>2. q \in Bijection(1..l, Elements(q))
  BY <1>1 DEF Elements, Distinct, Bijection, Injection, Surjection, IsInjective
<1>3. ExistsBijection(1..l, Elements(q)) BY <1>2 DEF ExistsBijection
<1>4. l = Len(q) OBVIOUS
<1> HIDE DEF l
<1>5. IsFiniteSet(Elements(q)) BY <1>1, <1>3, FS_NatBijection
<1>6. Cardinality(Elements(q)) = l BY <1>1, <1>3, FS_CountingElements
<1> QED BY <1>4, <1>5, <1>6

-----------------------------------------------------------------------------
(* Only a Send command names a fax. *)
LEMMA CommandIs ==
    ASSUME NEW c \in Commands
    PROVE  /\ c.what \in {"send", "configure", "reconnect", "stop"}
           /\ c.what = "send" => c.of \in Sends
           /\ c.what # "send" => c.of \notin Sends
           /\ c.what = "configure" => c.of \in Accounts \cup {None}
           /\ c \in Orders => c.what # "send"
  BY ServiceAssumption DEF Commands, Orders, ServiceAssumption

LEMMA ChannelIs ==
    ASSUME TypeOK
    PROVE  OnChannel = {s \in Sends : \E n \in 1..Len(queue) : queue[n].of = s}
<1>1. DOMAIN queue = 1..Len(queue) BY DEF TypeOK
<1> QED BY <1>1 DEF OnChannel

(* The first command leaves the channel. *)
LEMMA ChannelTail ==
    ASSUME TypeOK, OnceOnChannel, queue # <<>>, queue' = Tail(queue)
    PROVE  /\ queue' \in Seq(Commands) /\ Head(queue) \in Commands
           /\ OnceOnChannel'
           /\ OnChannel' = OnChannel \ {Head(queue).of}
           /\ Head(queue).of \in Sends => Head(queue).of \in OnChannel
<1> DEFINE l == Len(queue)
<1>1. /\ queue' \in Seq(Commands) /\ Len(queue') + 1 = l /\ l \in Nat /\ Len(queue') \in Nat
      /\ Head(queue) = queue[1] /\ queue[1] \in Commands /\ l # 0
      /\ \A n \in 1..Len(queue') : queue'[n] = queue[n + 1]
  BY DEF TypeOK
<1>2. DOMAIN queue = 1..l /\ DOMAIN queue' = 1..Len(queue') BY <1>1 DEF TypeOK
<1>3. \A n \in 1..l : n = 1 \/ (n - 1 \in 1..Len(queue') /\ n = (n - 1) + 1) BY <1>1
<1>4. \A n \in 1..Len(queue') : n + 1 \in 1..l /\ n + 1 # 1 BY <1>1
<1>5. 1 \in 1..l BY <1>1
<1>6. ASSUME NEW m \in 1..Len(queue'), NEW n \in 1..Len(queue'),
             queue'[m].of \in Sends, queue'[m].of = queue'[n].of
      PROVE  m = n
  <2> DEFINE a == m + 1
             b == n + 1
  <2>1. a \in 1..l /\ b \in 1..l BY <1>4
  <2>2. queue[a].of \in Sends /\ queue[a].of = queue[b].of BY <1>6, <1>1
  <2>3. a = b
    <3> HIDE DEF a, b
    <3> QED BY <2>1, <2>2 DEF OnceOnChannel
  <2> QED BY <2>3, <1>1
<1>7. ASSUME NEW s \in Sends, NEW n \in 1..Len(queue'), queue'[n].of = s
      PROVE  s # Head(queue).of /\ \E k \in 1..l : queue[k].of = s
  <2> DEFINE b == n + 1
  <2>1. b \in 1..l /\ b # 1 /\ queue[b].of = s BY <1>4, <1>7, <1>1
  <2> HIDE DEF b
  <2>2. queue[1].of # s BY <2>1, <1>5 DEF OnceOnChannel
  <2> QED BY <2>1, <2>2, <1>1
<1>8. ASSUME NEW s \in Sends, NEW n \in 1..l, queue[n].of = s, s # Head(queue).of
      PROVE  \E k \in 1..Len(queue') : queue'[k].of = s
  <2>1. n # 1 BY <1>8, <1>1
  <2>2. n - 1 \in 1..Len(queue') /\ n = (n - 1) + 1 BY <2>1, <1>3
  <2> QED BY <2>2, <1>8, <1>1
<1>9. OnChannel' = OnChannel \ {Head(queue).of}
  <2>1. OnChannel = {s \in Sends : \E n \in 1..l : queue[n].of = s} BY <1>2 DEF OnChannel
  <2>2. OnChannel' = {s \in Sends : \E n \in 1..Len(queue') : queue'[n].of = s}
    BY <1>2 DEF OnChannel
  <2> QED BY <2>1, <2>2, <1>7, <1>8
<1>10. Head(queue).of \in Sends => Head(queue).of \in OnChannel
  BY <1>1, <1>2, <1>5 DEF OnChannel
<1> QED BY <1>1, <1>6, <1>9, <1>10 DEF OnceOnChannel

(* A command is added to the channel. *)
LEMMA ChannelAppend ==
    ASSUME TypeOK, OnceOnChannel, NEW c \in Commands, queue' = Append(queue, c),
           c.of \notin OnChannel
    PROVE  /\ queue' \in Seq(Commands)
           /\ OnceOnChannel'
           /\ OnChannel' = OnChannel \cup (Sends \cap {c.of})
<1> DEFINE l == Len(queue)
<1>1. /\ queue' \in Seq(Commands) /\ Len(queue') = l + 1 /\ l \in Nat
      /\ queue'[l + 1] = c /\ \A n \in 1..l : queue'[n] = queue[n]
  BY DEF TypeOK
<1>2. DOMAIN queue = 1..l /\ DOMAIN queue' = 1..Len(queue') BY <1>1 DEF TypeOK
<1>3. \A n \in 1..Len(queue') : n \in 1..l \/ n = l + 1 BY <1>1
<1>4. l + 1 \in 1..Len(queue') /\ \A n \in 1..l : n \in 1..Len(queue') BY <1>1
<1>5. OnChannel = {s \in Sends : \E n \in 1..l : queue[n].of = s} BY <1>2 DEF OnChannel
<1>6. OnChannel' = {s \in Sends : \E n \in 1..Len(queue') : queue'[n].of = s}
  BY <1>2 DEF OnChannel
<1> DEFINE e == l + 1
<1>7. /\ \A n \in 1..Len(queue') : n \in 1..l \/ n = e
      /\ e \in 1..Len(queue') /\ queue'[e] = c
  BY <1>1, <1>3, <1>4
<1> HIDE DEF e, l
<1>8. OnChannel' = OnChannel \cup (Sends \cap {c.of})
  BY <1>1, <1>4, <1>5, <1>6, <1>7
<1>9. \A n \in 1..l : queue[n].of \in Sends => queue[n].of # c.of BY <1>5
<1>10. ASSUME NEW m \in 1..Len(queue'), NEW n \in 1..Len(queue'),
              queue'[m].of \in Sends, queue'[m].of = queue'[n].of
       PROVE  m = n
  <2>1. CASE m \in 1..l /\ n \in 1..l BY <2>1, <1>10, <1>1 DEF OnceOnChannel, l
  <2>2. CASE m \in 1..l /\ n = e BY <2>2, <1>10, <1>1, <1>7, <1>9
  <2>3. CASE m = e /\ n \in 1..l BY <2>3, <1>10, <1>1, <1>7, <1>9
  <2>4. CASE m = e /\ n = e BY <2>4
  <2> QED BY <2>1, <2>2, <2>3, <2>4, <1>7
<1> QED BY <1>1, <1>8, <1>10 DEF OnceOnChannel

(* Answers are given to faxes that have none. *)
LEMMA AnswerIs ==
    ASSUME TypeOK, NEW set \in SUBSET Sends, set \cap Answered = {},
           NEW how \in {"failed", "refused", "finished"}, Answer(set, how)
    PROVE  /\ answers' \in [Sends -> Seq({"failed", "refused", "finished"})]
           /\ \A s \in Sends : Len(answers'[s]) <= 1
           /\ Answered' = Answered \cup set
           /\ \A s \in Sends : answers'[s] = answers[s] \/ answers'[s] = <<how>>
<1>1. answers \in [Sends -> Seq({"failed", "refused", "finished"})] BY DEF TypeOK
<1>2. answers' = [s \in Sends |-> IF s \in set THEN Append(answers[s], how) ELSE answers[s]]
  BY DEF Answer
<1>3. \A s \in set : answers[s] = <<>> BY DEF Answered
<1>4. \A s \in set : answers'[s] = <<how>>
  <2>1. Append(<<>>, how) = <<how>> OBVIOUS
  <2> QED BY <2>1, <1>2, <1>3
<1>5. \A s \in Sends \ set : answers'[s] = answers[s] BY <1>2
<1>6. <<how>> \in Seq({"failed", "refused", "finished"}) /\ <<how>> # <<>> /\ Len(<<how>>) = 1
  OBVIOUS
<1>7. \A s \in Sends : answers'[s] \in Seq({"failed", "refused", "finished"})
  BY <1>1, <1>4, <1>5, <1>6
<1>8. answers' \in [Sends -> Seq({"failed", "refused", "finished"})]
  <2>1. answers' = [s \in Sends |-> answers'[s]] BY <1>2
  <2> QED BY <2>1, <1>7
<1>9. \A s \in Sends : Len(answers'[s]) <= 1
  <2>1. TAKE s \in Sends
  <2>2. CASE s \in set
    <3>1. answers'[s] = <<how>> BY <2>2, <1>4
    <3>2. Len(answers'[s]) = 1 BY <3>1
    <3> QED BY <3>2
  <2>3. CASE s \notin set BY <2>3, <1>5 DEF TypeOK
  <2> QED BY <2>2, <2>3
<1>10. Answered' = Answered \cup set BY <1>4, <1>5, <1>6 DEF Answered
<1> QED BY <1>4, <1>5, <1>8, <1>9, <1>10
-----------------------------------------------------------------------------
(* What a step leaves alone. *)
LEMMA PlacesStay ==
    ASSUME Placed, Once, UNCHANGED <<account, queue, pending, waiting, calls, answers>>,
           Submitted' = Submitted,
           \A s \in Sends : sender[s] = "over" => sender'[s] = "over",
           loop' # "prepares" => loop # "prepares" \/ waiting = <<>>
    PROVE  Placed' /\ Once'
<1>1. /\ OnChannel' = OnChannel /\ Answered' = Answered
      /\ Elements(pending)' = Elements(pending) /\ Elements(waiting)' = Elements(waiting)
  BY DEF OnChannel, Answered, Elements
<1>2. Placed' BY <1>1 DEF Placed, Places5
<1>3. Once' BY DEF Once, OnceOnChannel, Distinct
<1> QED BY <1>2, <1>3

LEMMA RoomStays ==
    ASSUME TypeOK, Room, limit' = limit, Engaged' \subseteq Engaged,
           \A s \in Sends : answers'[s] # <<"refused">>
    PROVE  Room'
<1>1. IsFiniteSet(Engaged) BY ServiceAssumption, FS_Subset DEF ServiceAssumption, Engaged
<1>2. /\ Cardinality(Engaged') <= Cardinality(Engaged)
      /\ Cardinality(Engaged) \in Nat /\ Cardinality(Engaged') \in Nat
  BY <1>1, FS_Subset, FS_CardinalityType
<1>3. Cardinality(Engaged') <= limit BY <1>2 DEF TypeOK, Room
<1> QED BY <1>3 DEF Room

LEMMA LinkedStays ==
    ASSUME Linked, UNCHANGED <<connectors, workers>>
    PROVE  Linked'
  BY DEF Linked, At

LEMMA ShownStays ==
    ASSUME Shown, UNCHANGED <<desired, retry, available, connections, status>>,
           loop' \in Sleeping => loop = loop' /\ incoming' = incoming
    PROVE  Shown'
<1>1. Listened(connections)' <=> Listened(connections) BY DEF Listened
<1>2. StatusHonest' BY <1>1 DEF Shown, StatusHonest
<1> QED BY <1>1, <1>2 DEF Shown

(* A step of somebody else than the loop: only senders and answers move.   *)
LEMMA OthersKeep ==
    ASSUME Inv, UNCHANGED <<given, receiver, loop, incoming, network>>,
           UNCHANGED <<queue, pending, waiting, calls, answers>>,
           Submitted' = Submitted, Engaged' \subseteq Engaged,
           \A s \in Sends : sender[s] = "over" => sender'[s] = "over"
    PROVE  (Placed /\ Once /\ Room /\ Linked /\ Shown)'
<1>1. Placed' /\ Once' BY PlacesStay DEF Inv, given
<1>2. Room' BY RoomStays DEF Inv, given, Room
<1>3. Linked' BY LinkedStays DEF Inv, network
<1>4. Shown' BY ShownStays DEF Inv, receiver, network
<1> QED BY <1>1, <1>2, <1>3, <1>4
-----------------------------------------------------------------------------
(* The sender threads. *)
LEMMA SendStartsKeeps ==
    ASSUME Inv, NEW s \in Sends, SendStarts(s)
    PROVE  Inv'
<1>1. sender' = [sender EXCEPT ![s] = "hooking"] /\ sender[s] = "idle" BY DEF SendStarts
<1>2. UNCHANGED <<given, canceller, client, queue, bell, loop, receiver, reconnect,
                  incoming, network, sends>>
  BY DEF SendStarts
<1>3. \A t \in Sends : sender'[t] = IF t = s THEN "hooking" ELSE sender[t]
  BY <1>1 DEF Inv, TypeOK
<1>4. Submitted' = Submitted BY <1>1, <1>3 DEF Submitted
<1>5. TypeOK'
  <2>1. sender' \in [Sends -> {"idle", "hooking", "submitting", "ringing", "waiting", "over"}]
    BY <1>1 DEF Inv, TypeOK
  <2> QED BY <2>1, <1>2 DEF Inv, TypeOK, given, client, receiver, network, sends
<1>6. Placed' /\ Once'
  BY <1>1, <1>2, <1>3, <1>4, PlacesStay DEF Inv, given, sends
<1>7. Room'
  <2>1. IsFiniteSet(Engaged) BY ServiceAssumption, FS_Subset DEF ServiceAssumption, Engaged
  <2>2. Engaged' = Engaged \cup {s} /\ s \notin Engaged BY <1>1, <1>3 DEF Engaged
  <2>3. Cardinality(Engaged') = Cardinality(Engaged) + 1 /\ Cardinality(Engaged) \in Nat
    BY <2>1, <2>2, FS_AddElement, FS_CardinalityType
  <2>4. Cardinality(Engaged) < limit BY DEF SendStarts
  <2>5. Cardinality(Engaged') <= limit' BY <2>3, <2>4, <1>2 DEF Inv, TypeOK, given
  <2> QED BY <2>5, <1>2 DEF Inv, Room, sends
<1>8. Linked' BY <1>2, LinkedStays DEF Inv, network
<1>9. Shown' BY <1>2, ShownStays DEF Inv, receiver, network
<1> QED BY <1>5, <1>6, <1>7, <1>8, <1>9 DEF Inv

LEMMA SendHookedKeeps ==
    ASSUME Inv, NEW s \in Sends, SendHooked(s)
    PROVE  Inv'
<1>1. sender' = [sender EXCEPT ![s] = "submitting"] /\ sender[s] = "hooking" BY DEF SendHooked
<1>2. UNCHANGED <<given, canceller, client, queue, loop, receiver, reconnect,
                  incoming, network, sends>>
  BY DEF SendHooked
<1>3. \A t \in Sends : sender'[t] = IF t = s THEN "submitting" ELSE sender[t]
  BY <1>1 DEF Inv, TypeOK
<1>4. Submitted' = Submitted /\ Engaged' \subseteq Engaged
  BY <1>1, <1>3 DEF Submitted, Engaged
<1>5. TypeOK'
  <2>1. sender' \in [Sends -> {"idle", "hooking", "submitting", "ringing", "waiting", "over"}]
    BY <1>1 DEF Inv, TypeOK
  <2>2. bell' \in BOOLEAN BY DEF SendHooked, Inv, TypeOK
  <2> QED BY <2>1, <2>2, <1>2 DEF Inv, TypeOK, given, client, receiver, network, sends
<1> QED BY <1>1, <1>2, <1>3, <1>4, <1>5, OthersKeep DEF Inv, sends

LEMMA SubmitKeeps ==
    ASSUME Inv, NEW s \in Sends, Submit(s)
    PROVE  Inv'
<1>1. UNCHANGED <<given, canceller, client, bell, loop, receiver, reconnect,
                  incoming, network, sends>>
  BY DEF Submit
<1>2. sender[s] = "submitting" BY DEF Submit
<1>3. CASE sender' = [sender EXCEPT ![s] = "over"] /\ UNCHANGED queue
  <2>1. \A t \in Sends : sender'[t] = IF t = s THEN "over" ELSE sender[t]
    BY <1>3 DEF Inv, TypeOK
  <2>2. Submitted' = Submitted /\ Engaged' \subseteq Engaged
    BY <1>2, <2>1 DEF Submitted, Engaged
  <2>3. TypeOK'
    <3>1. sender' \in [Sends -> {"idle", "hooking", "submitting", "ringing", "waiting", "over"}]
      BY <1>3 DEF Inv, TypeOK
    <3> QED BY <3>1, <1>3, <1>1 DEF Inv, TypeOK, given, client, receiver, network, sends
  <2> QED BY <1>1, <1>3, <2>1, <2>2, <2>3, OthersKeep DEF Inv, sends
<1>4. CASE /\ sender' = [sender EXCEPT ![s] = "ringing"]
           /\ queue' = Append(queue, [what |-> "send", of |-> s])
  <2> DEFINE c == [what |-> "send", of |-> s]
  <2>1. \A t \in Sends : sender'[t] = IF t = s THEN "ringing" ELSE sender[t]
    BY <1>4 DEF Inv, TypeOK
  <2>2. s \notin Submitted /\ Submitted' = Submitted \cup {s} /\ Engaged' \subseteq Engaged
    BY <1>2, <2>1 DEF Submitted, Engaged
  <2>3. c \in Commands /\ c.of = s BY DEF Commands
  <2>4. s \notin OnChannel BY <2>2 DEF Inv, Placed
  <2>5. queue' = Append(queue, c) BY <1>4
  <2> HIDE DEF c
  <2>6. queue' \in Seq(Commands) /\ OnceOnChannel' /\ OnChannel' = OnChannel \cup {s}
    BY <2>3, <2>4, <2>5, ChannelAppend DEF Inv, Once
  <2>7. TypeOK'
    <3>1. sender' \in [Sends -> {"idle", "hooking", "submitting", "ringing", "waiting", "over"}]
      BY <1>4 DEF Inv, TypeOK
    <3> QED BY <3>1, <2>6, <1>1 DEF Inv, TypeOK, given, client, receiver, network, sends
  <2>8. Placed'
    <3>1. Answered' = Answered /\ calls' = calls /\ Elements(pending)' = Elements(pending)
             /\ Elements(waiting)' = Elements(waiting)
      BY <1>1 DEF Answered, Elements, sends
    <3> QED BY <3>1, <2>2, <2>6 DEF Inv, Placed, Places5
  <2>9. Once' BY <2>1, <2>6, <1>1, <1>2 DEF Inv, Once, Distinct, given, sends
  <2>10. Room' BY <2>2, <1>1, RoomStays DEF Inv, Room, given, sends
  <2>11. Linked' BY <1>1, LinkedStays DEF Inv, network
  <2>12. Shown' BY <1>1, ShownStays DEF Inv, receiver, network
  <2> QED BY <2>7, <2>8, <2>9, <2>10, <2>11, <2>12 DEF Inv
<1> QED BY <1>3, <1>4 DEF Submit

LEMMA SubmitRingsKeeps ==
    ASSUME Inv, NEW s \in Sends, SubmitRings(s)
    PROVE  Inv'
<1>1. sender' = [sender EXCEPT ![s] = "waiting"] /\ sender[s] = "ringing" BY DEF SubmitRings
<1>2. UNCHANGED <<given, canceller, client, queue, loop, receiver, reconnect,
                  incoming, network, sends>>
  BY DEF SubmitRings
<1>3. \A t \in Sends : sender'[t] = IF t = s THEN "waiting" ELSE sender[t]
  BY <1>1 DEF Inv, TypeOK
<1>4. Submitted' = Submitted /\ Engaged' \subseteq Engaged
  BY <1>1, <1>3 DEF Submitted, Engaged
<1>5. TypeOK'
  <2>1. sender' \in [Sends -> {"idle", "hooking", "submitting", "ringing", "waiting", "over"}]
    BY <1>1 DEF Inv, TypeOK
  <2>2. bell' \in BOOLEAN BY DEF SubmitRings
  <2> QED BY <2>1, <2>2, <1>2 DEF Inv, TypeOK, given, client, receiver, network, sends
<1> QED BY <1>1, <1>2, <1>3, <1>4, <1>5, OthersKeep DEF Inv, sends

LEMMA SendReturnsKeeps ==
    ASSUME Inv, NEW s \in Sends, SendReturns(s)
    PROVE  Inv'
<1>1. /\ sender' = [sender EXCEPT ![s] = "over"] /\ sender[s] = "waiting"
      /\ answers' = [answers EXCEPT ![s] = Tail(answers[s])] /\ answers[s] # <<>>
  BY DEF SendReturns
<1>2. UNCHANGED <<given, canceller, client, queue, bell, loop, receiver, reconnect,
                  incoming, network, pending, waiting, mapping, calls>>
  BY DEF SendReturns
<1>3. \A t \in Sends : sender'[t] = IF t = s THEN "over" ELSE sender[t]
  BY <1>1 DEF Inv, TypeOK
<1>4. Submitted' = Submitted \ {s} /\ Engaged' \subseteq Engaged
  BY <1>1, <1>3 DEF Submitted, Engaged
<1>5. Tail(answers[s]) = <<>>
  <2> DEFINE q == answers[s]
  <2>1. q \in Seq({"failed", "refused", "finished"}) /\ Len(q) <= 1 /\ q # <<>>
    BY <1>1 DEF Inv, TypeOK
  <2> HIDE DEF q
  <2>2. Tail(q) \in Seq({"failed", "refused", "finished"}) /\ Len(Tail(q)) + 1 = Len(q)
    BY <2>1, TailIs
  <2>3. Tail(q) = <<>>
    <3> DEFINE r == Tail(q)
    <3>1. r \in Seq({"failed", "refused", "finished"}) /\ Len(r) + 1 = Len(q) BY <2>2
    <3> HIDE DEF r
    <3>2. r = <<>> BY <3>1, <2>1, EmptySeq
    <3> QED BY <3>2 DEF r
  <2> QED BY <2>3 DEF q
<1>6. \A t \in Sends : answers'[t] = IF t = s THEN <<>> ELSE answers[t]
  BY <1>1, <1>5 DEF Inv, TypeOK
<1>7. Answered' = Answered \ {s} /\ s \in Answered BY <1>1, <1>6 DEF Answered
<1>8. TypeOK'
  <2>1. sender' \in [Sends -> {"idle", "hooking", "submitting", "ringing", "waiting", "over"}]
    BY <1>1 DEF Inv, TypeOK
  <2>2. answers' \in [Sends -> Seq({"failed", "refused", "finished"})]
    BY <1>1, <1>5 DEF Inv, TypeOK
  <2>3. \A t \in Sends : Len(answers'[t]) <= 1 BY <1>6 DEF Inv, TypeOK
  <2> QED BY <2>1, <2>2, <2>3, <1>2 DEF Inv, TypeOK, given, client, receiver, network
<1>9. Placed'
  <2>1. OnChannel' = OnChannel /\ calls' = calls /\ Elements(pending)' = Elements(pending)
           /\ Elements(waiting)' = Elements(waiting)
    BY <1>2 DEF OnChannel, Elements
  <2> QED BY <2>1, <1>4, <1>7 DEF Inv, Placed, Places5
<1>10. Once' BY <1>2, <1>3 DEF Inv, Once, OnceOnChannel, Distinct, given
<1>11. Room'
  <2>1. \A t \in Sends : answers'[t] # <<"refused">> BY <1>6 DEF Inv, Room
  <2> QED BY <2>1, <1>2, <1>4, RoomStays DEF Inv, given
<1>12. Linked' BY <1>2, LinkedStays DEF Inv, network
<1>13. Shown' BY <1>2, ShownStays DEF Inv, receiver, network
<1> QED BY <1>8, <1>9, <1>10, <1>11, <1>12, <1>13 DEF Inv
-----------------------------------------------------------------------------
(* The cancelling threads and the other callers. *)
LEMMA CancelKeeps ==
    ASSUME Inv, NEW s \in Sends, Cancel(s)
    PROVE  Inv'
<1>1. /\ canceller' = [canceller EXCEPT ![s] = "flagged"]
      /\ script # <<>> /\ script' = Tail(script)
  BY DEF Cancel, Happens
<1>2. UNCHANGED <<given, sender, app, queue, bell, loop,
                  receiver, reconnect, incoming, network, sends>>
  BY DEF Cancel
<1>3. Submitted' = Submitted /\ Engaged' = Engaged BY <1>2 DEF Submitted, Engaged
<1>4. TypeOK'
  <2>1. canceller' \in [Sends -> {"idle", "flagged", "ringing", "done"}]
    BY <1>1 DEF Inv, TypeOK
  <2>2. script' \in Seq(Orders \cup Accidents) BY <1>1 DEF Inv, TypeOK
  <2> QED BY <2>1, <2>2, <1>2 DEF Inv, TypeOK, given, receiver, network, sends
<1> QED BY <1>2, <1>3, <1>4, OthersKeep DEF Inv, sends

LEMMA CancelLooksKeeps ==
    ASSUME Inv, NEW s \in Sends, CancelLooks(s)
    PROVE  Inv'
<1>1. canceller' = [canceller EXCEPT ![s] = IF s \in Engaged THEN "ringing" ELSE "done"]
  BY DEF CancelLooks
<1>2. UNCHANGED <<given, sender, client, queue, bell, loop,
                  receiver, reconnect, incoming, network, sends>>
  BY DEF CancelLooks
<1>3. Submitted' = Submitted /\ Engaged' = Engaged BY <1>2 DEF Submitted, Engaged
<1>4. TypeOK'
  <2>1. canceller' \in [Sends -> {"idle", "flagged", "ringing", "done"}]
    BY <1>1 DEF Inv, TypeOK
  <2> QED BY <2>1, <1>2 DEF Inv, TypeOK, given, client, receiver, network, sends
<1> QED BY <1>2, <1>3, <1>4, OthersKeep DEF Inv, sends

LEMMA CancelRingsKeeps ==
    ASSUME Inv, NEW s \in Sends, CancelRings(s)
    PROVE  Inv'
<1>1. canceller' = [canceller EXCEPT ![s] = "done"] /\ bell' = TRUE BY DEF CancelRings
<1>2. UNCHANGED <<given, sender, client, queue, loop,
                  receiver, reconnect, incoming, network, sends>>
  BY DEF CancelRings
<1>3. Submitted' = Submitted /\ Engaged' = Engaged BY <1>2 DEF Submitted, Engaged
<1>4. TypeOK'
  <2>1. canceller' \in [Sends -> {"idle", "flagged", "ringing", "done"}]
    BY <1>1 DEF Inv, TypeOK
  <2> QED BY <2>1, <1>1, <1>2 DEF Inv, TypeOK, given, client, receiver, network, sends
<1> QED BY <1>2, <1>3, <1>4, OthersKeep DEF Inv, sends

LEMMA OrderKeeps ==
    ASSUME Inv, Order
    PROVE  Inv'
<1>1. /\ script # <<>> /\ Head(script) \in Orders /\ script' = Tail(script)
      /\ queue' = Append(queue, Head(script)) /\ app' = "ringing"
  BY DEF Order
<1>2. UNCHANGED <<given, thread, bell, loop, receiver, reconnect, incoming, network, sends>>
  BY DEF Order
<1>3. PICK c : c = Head(script) OBVIOUS
<1>4. c \in Commands /\ c.of \notin Sends BY <1>1, <1>3, CommandIs DEF Commands
<1>5. queue' \in Seq(Commands) /\ OnceOnChannel' /\ OnChannel' = OnChannel
  <2>1. c.of \notin OnChannel BY <1>4 DEF OnChannel
  <2>2. queue' = Append(queue, c) BY <1>1, <1>3
  <2> QED BY <2>1, <2>2, <1>4, ChannelAppend DEF Inv, Once
<1>6. TypeOK'
  <2>1. script' \in Seq(Orders \cup Accidents) BY <1>1 DEF Inv, TypeOK
  <2> QED BY <2>1, <1>1, <1>2, <1>5 DEF Inv, TypeOK, given, thread, receiver, network, sends
<1>7. Placed'
  <2>1. /\ Answered' = Answered /\ calls' = calls /\ Elements(pending)' = Elements(pending)
        /\ Elements(waiting)' = Elements(waiting) /\ Submitted' = Submitted
    BY <1>2 DEF Answered, Elements, Submitted, sends, thread
  <2> QED BY <2>1, <1>5 DEF Inv, Placed, Places5
<1>8. Once' BY <1>2, <1>5 DEF Inv, Once, Distinct, given, thread, sends
<1>9. Room'
  <2>1. Engaged' = Engaged BY <1>2 DEF Engaged, thread
  <2> QED BY <2>1, <1>2, RoomStays DEF Inv, Room, given, sends
<1>10. Linked' BY <1>2, LinkedStays DEF Inv, network
<1>11. Shown' BY <1>2, ShownStays DEF Inv, receiver, network
<1> QED BY <1>6, <1>7, <1>8, <1>9, <1>10, <1>11 DEF Inv

LEMMA OrderRingsKeeps ==
    ASSUME Inv, OrderRings
    PROVE  Inv'
<1>1. app' = "free" /\ bell' = TRUE BY DEF OrderRings
<1>2. UNCHANGED <<given, thread, script, queue, loop, receiver,
                  reconnect, incoming, network, sends>>
  BY DEF OrderRings
<1>3. Submitted' = Submitted /\ Engaged' = Engaged BY <1>2 DEF Submitted, Engaged, thread
<1>4. TypeOK' BY <1>1, <1>2 DEF Inv, TypeOK, given, thread, receiver, network, sends
<1> QED BY <1>2, <1>3, <1>4, OthersKeep DEF Inv, sends, thread
-----------------------------------------------------------------------------
(* The faxe-connect threads.  What is not theirs stays. *)
LEMMA WorkersKeep ==
    ASSUME Inv, UNCHANGED <<given, thread, receiver, loop, incoming, connections>>,
           UNCHANGED <<queue, pending, waiting, calls, answers>>
    PROVE  (Placed /\ Once /\ Room /\ Shown)'
<1>1. Submitted' = Submitted /\ Engaged' = Engaged BY DEF Submitted, Engaged, thread
<1>2. Placed' /\ Once' BY <1>1, PlacesStay DEF Inv, given, thread
<1>3. Room' BY <1>1, RoomStays DEF Inv, given, Room
<1>4. Shown' BY ShownStays DEF Inv, receiver
<1> QED BY <1>2, <1>3, <1>4

LEMMA WorkerSendsKeeps ==
    ASSUME Inv, NEW w \in Slots, WorkerSends(w)
    PROVE  Inv'
<1>1. /\ workers[w] # None /\ workers[w].stage = "running"
      /\ workers' = [workers EXCEPT ![w].stage = "sent"]
  BY DEF WorkerSends
<1>2. UNCHANGED <<given, thread, app, queue, bell, loop, receiver,
                  reconnect, incoming, connections, sends>>
  BY DEF WorkerSends
<1>3. /\ workers[w] \in [stage : {"running", "sent", "rung", "over"}, of : Ids, stop : BOOLEAN]
      /\ workers[w].of \in Ids /\ workers[w].stop \in BOOLEAN
  BY <1>1 DEF Inv, TypeOK
<1>4. /\ workers' \in [Slots -> [stage : {"running", "sent", "rung", "over"}, of : Ids,
                              stop : BOOLEAN] \cup {None}]
      /\ workers'[w].stage = "sent"
      /\ \A v \in Slots : v # w => workers'[v] = workers[v]
  BY <1>1, <1>3 DEF Inv, TypeOK
<1>5. ~At(w)' /\ \A v \in Slots : v # w => (At(v)' <=> At(v))
  BY <1>4 DEF At
<1>6. CASE workers[w].stop
  <2>1. UNCHANGED <<connectors, script>> BY <1>6 DEF WorkerSends
  <2>2. TypeOK'
    BY <2>1, <1>2, <1>4 DEF Inv, TypeOK, given, thread, receiver, sends
  <2>3. Linked' BY <2>1, <1>4, <1>5 DEF Inv, Linked
  <2> QED BY <2>2, <2>3, <1>2, WorkersKeep DEF Inv, sends
<1>7. CASE ~workers[w].stop
  <2> DEFINE i == workers[w].of
  <2>1. PICK result \in {"good", "bad"} :
           /\ connectors' = [connectors EXCEPT ![i].result = result]
           /\ Breaks(result = "bad")
    BY <1>7 DEF WorkerSends
  <2>2. At(w) BY <1>1, <1>7 DEF At
  <2>3. i \in Ids /\ connectors[i] # None BY <2>2, <1>3 DEF Inv, Linked
  <2>4. connectors[i] \in [version : Nat, result : {None, "good", "bad"}]
    BY <2>3 DEF Inv, TypeOK
  <2> HIDE DEF i
  <2>5. /\ connectors' \in [Ids -> [version : Nat, result : {None, "good", "bad"}] \cup {None}]
        /\ \A k \in Ids : k # i => connectors'[k] = connectors[k]
    BY <2>1, <2>3, <2>4 DEF Inv, TypeOK
  <2>6. script' \in Seq(Orders \cup Accidents)
    <3>1. script' = script \/ (script # <<>> /\ script' = Tail(script))
      BY <2>1 DEF Breaks, Happens
    <3>2. script # <<>> => Tail(script) \in Seq(Orders \cup Accidents) BY DEF Inv, TypeOK
    <3> QED BY <3>1, <3>2 DEF Inv, TypeOK
  <2>7. TypeOK'
    BY <2>5, <2>6, <1>2, <1>4 DEF Inv, TypeOK, given, thread, receiver, sends
  <2>8. Linked'
    <3>1. \A v \in Slots : At(v)' => At(v) /\ v # w /\ workers'[v] = workers[v]
      BY <1>4, <1>5
    <3>2. \A v \in Slots : At(v)' => workers[v].of # i
      BY <3>1, <2>2 DEF Inv, Linked, i
    <3>3. \A v \in Slots : At(v) => workers[v].of \in Ids BY DEF At, Inv, TypeOK
    <3> QED BY <3>1, <3>2, <3>3, <2>5 DEF Inv, Linked
  <2> QED BY <2>7, <2>8, <1>2, WorkersKeep DEF Inv, sends
<1> QED BY <1>6, <1>7

LEMMA WorkerRingsKeeps ==
    ASSUME Inv, NEW w \in Slots, WorkerRings(w)
    PROVE  Inv'
<1>1. /\ workers[w] # None /\ workers[w].stage = "sent"
      /\ workers' = [workers EXCEPT ![w].stage = "rung"] /\ bell' = TRUE
  BY DEF WorkerRings
<1>2. UNCHANGED <<given, thread, client, queue, loop, receiver,
                  reconnect, incoming, connections, connectors, sends>>
  BY DEF WorkerRings
<1>3. workers[w] \in [stage : {"running", "sent", "rung", "over"}, of : Ids, stop : BOOLEAN]
  BY <1>1 DEF Inv, TypeOK
<1>4. /\ workers' \in [Slots -> [stage : {"running", "sent", "rung", "over"}, of : Ids,
                              stop : BOOLEAN] \cup {None}]
      /\ workers'[w].stage = "rung"
      /\ \A v \in Slots : v # w => workers'[v] = workers[v]
  BY <1>1, <1>3 DEF Inv, TypeOK
<1>5. \A v \in Slots : At(v)' => At(v) /\ workers'[v] = workers[v]
  BY <1>4 DEF At
<1>6. TypeOK'
  BY <1>1, <1>2, <1>4 DEF Inv, TypeOK, given, thread, client, receiver, sends
<1>7. Linked' BY <1>2, <1>5 DEF Inv, Linked
<1> QED BY <1>2, <1>6, <1>7, WorkersKeep DEF Inv, sends

LEMMA WorkerEndsKeeps ==
    ASSUME Inv, NEW w \in Slots, WorkerEnds(w)
    PROVE  Inv'
<1>1. /\ workers[w] # None /\ workers[w].stage = "rung"
      /\ workers' = [workers EXCEPT ![w].stage = "over"]
  BY DEF WorkerEnds
<1>2. UNCHANGED <<given, thread, client, queue, bell, loop, receiver,
                  reconnect, incoming, connections, connectors, sends>>
  BY DEF WorkerEnds
<1>3. workers[w] \in [stage : {"running", "sent", "rung", "over"}, of : Ids, stop : BOOLEAN]
  BY <1>1 DEF Inv, TypeOK
<1>4. /\ workers' \in [Slots -> [stage : {"running", "sent", "rung", "over"}, of : Ids,
                              stop : BOOLEAN] \cup {None}]
      /\ workers'[w].stage = "over"
      /\ \A v \in Slots : v # w => workers'[v] = workers[v]
  BY <1>1, <1>3 DEF Inv, TypeOK
<1>5. \A v \in Slots : At(v)' => At(v) /\ workers'[v] = workers[v]
  BY <1>4 DEF At
<1>6. TypeOK'
  BY <1>2, <1>4 DEF Inv, TypeOK, given, thread, client, receiver, sends
<1>7. Linked' BY <1>2, <1>5 DEF Inv, Linked
<1> QED BY <1>2, <1>6, <1>7, WorkersKeep DEF Inv, sends
-----------------------------------------------------------------------------
(* Connectors and their threads in general, for what ensure_connection     *)
(* leaves.                                                                 *)
Running(works, w) == works[w] # None /\ works[w].stage = "running" /\ ~works[w].stop
LinkedIn(cons, works) ==
    /\ \A w \in Slots : Running(works, w) =>
          cons[works[w].of] # None /\ cons[works[w].of].result = None
    /\ \A v, w \in Slots :
          Running(works, v) /\ Running(works, w) /\ works[v].of = works[w].of => v = w

TheConnections == [Ids -> [version : Nat, ready : BOOLEAN] \cup {None}]
TheConnectors == [Ids -> [version : Nat, result : {None, "good", "bad"}] \cup {None}]
TheWorkers == [Slots -> [stage : {"running", "sent", "rung", "over"}, of : Ids,
                         stop : BOOLEAN] \cup {None}]

LEMMA LinkedIs ==
    /\ Linked <=> LinkedIn(connectors, workers)
    /\ Linked' <=> LinkedIn(connectors', workers')
  BY DEF Linked, LinkedIn, At, Running

LEMMA NetworkIs ==
    TypeOK => /\ connections \in TheConnections
              /\ connectors \in TheConnectors
              /\ workers \in TheWorkers
  BY DEF TypeOK, TheConnections, TheConnectors, TheWorkers

(* A connector is dropped together with the order to its thread to stop.   *)
LEMMA CutIs ==
    ASSUME TypeOK, Linked, NEW set \in SUBSET Ids, NEW cons,
           \A i \in Ids \ set : cons[i] = connectors[i]
    PROVE  /\ Cut(set) \in TheWorkers
           /\ LinkedIn(cons, Cut(set))
<1> DEFINE works == Cut(set)
<1>1. \A w \in Slots : works[w] = IF workers[w] # None /\ workers[w].of \in set
                                    THEN [workers[w] EXCEPT !.stop = TRUE] ELSE workers[w]
  BY DEF Cut
<1>2. \A w \in Slots : workers[w] # None =>
         workers[w] \in [stage : {"running", "sent", "rung", "over"}, of : Ids, stop : BOOLEAN]
  BY DEF TypeOK
<1>3. works \in TheWorkers
  <2>1. \A w \in Slots : works[w] \in [stage : {"running", "sent", "rung", "over"}, of : Ids,
                                       stop : BOOLEAN] \cup {None}
    BY <1>1, <1>2
  <2>2. works = [w \in Slots |-> works[w]] BY DEF Cut
  <2> HIDE DEF works
  <2> QED BY <2>1, <2>2 DEF TheWorkers
<1>4. \A w \in Slots : Running(works, w) =>
         works[w] = workers[w] /\ At(w) /\ workers[w].of \in Ids \ set
  BY <1>1, <1>2 DEF Running, At
<1> HIDE DEF works
<1>5. LinkedIn(cons, works) BY <1>4 DEF LinkedIn, Linked
<1> QED BY <1>3, <1>5 DEF works

LEMMA ReapedIs ==
    ASSUME NEW works \in TheWorkers, NEW cons, LinkedIn(cons, works)
    PROVE  Reaped(works) \in TheWorkers /\ LinkedIn(cons, Reaped(works))
<1> DEFINE left == Reaped(works)
<1>1. \A w \in Slots : left[w] = IF works[w] # None /\ works[w].stage = "over"
                                   THEN None ELSE works[w]
  BY DEF Reaped
<1>2. left \in TheWorkers BY DEF Reaped, TheWorkers
<1>3. \A w \in Slots : Running(left, w) => left[w] = works[w] /\ Running(works, w)
  BY <1>1 DEF Running
<1> HIDE DEF left
<1>4. LinkedIn(cons, left) BY <1>3 DEF LinkedIn
<1> QED BY <1>2, <1>4 DEF left

(* Accounts have ids and versions. *)
LEMMA AccountIs ==
    ASSUME NEW a \in Accounts
    PROVE  a.id \in Ids /\ a.version \in Nat /\ a.register \in BOOLEAN /\ a # None
  BY ServiceAssumption DEF ServiceAssumption, Ids

LEMMA SpawnedIs ==
    ASSUME TypeOK, NEW a \in Accounts, NEW cons \in TheConnectors, NEW works \in TheWorkers,
           LinkedIn(cons, works), cons[a.id] = None,
           NEW e, e = Spawned(a, cons, works)
    PROVE  /\ e.connections = connections /\ e.ok = TRUE
           /\ e.connectors \in TheConnectors /\ e.workers \in TheWorkers
           /\ LinkedIn(e.connectors, e.workers)
<1> DEFINE free == {w \in Slots : works[w] = None}
           x == CHOOSE w \in free : \A v \in free : w <= v
           con == [version |-> a.version, result |-> None]
           work == [stage |-> "running", of |-> a.id, stop |-> FALSE]
<1>1. CASE free = {}
  <2>1. e = Left(connections, cons, works, TRUE) BY <1>1 DEF Spawned
  <2> QED BY <2>1 DEF Left
<1>2. CASE free # {}
  <2>1. e = Left(connections, [cons EXCEPT ![a.id] = con], [works EXCEPT ![x] = work], TRUE)
    BY <1>2 DEF Spawned
  <2>2. x \in free
    <3>1. \E w \in free : \A v \in free : w <= v
      <4>1. free \subseteq {1, 2} BY DEF Slots
      <4> HIDE DEF free
      <4>2. CASE 1 \in free BY <4>1, <4>2
      <4>3. CASE 1 \notin free
        <5>1. free = {2} BY <4>1, <4>3, <1>2
        <5> QED BY <5>1
      <4> QED BY <4>2, <4>3
    <3> HIDE DEF free
    <3> QED BY <3>1
  <2>3. x \in Slots BY <2>2
  <2>4. a.id \in Ids /\ con \in [version : Nat, result : {None, "good", "bad"}]
           /\ con # None /\ con.result = None
    BY AccountIs, ServiceAssumption DEF ServiceAssumption
  <2>5. work \in [stage : {"running", "sent", "rung", "over"}, of : Ids, stop : BOOLEAN]
    BY <2>4
  <2>6. work.of = a.id OBVIOUS
  <2> HIDE DEF free, x, con, work
  <2>7. /\ e.connections = connections /\ e.ok = TRUE
        /\ e.connectors = [cons EXCEPT ![a.id] = con]
        /\ e.workers = [works EXCEPT ![x] = work]
    BY <2>1 DEF Left
  <2>8. /\ e.connectors \in TheConnectors
        /\ e.connectors[a.id] = con
        /\ \A i \in Ids : i # a.id => e.connectors[i] = cons[i]
    BY <2>4, <2>7 DEF TheConnectors
  <2>9. /\ e.workers \in TheWorkers
        /\ e.workers[x] = work
        /\ \A w \in Slots : w # x => e.workers[w] = works[w]
    BY <2>3, <2>5, <2>7 DEF TheWorkers
  <2>10. \A w \in Slots : Running(works, w) => works[w].of \in Ids /\ works[w].of # a.id
    BY DEF Running, LinkedIn, TheWorkers
  <2>11. \A w \in Slots : Running(e.workers, w) =>
            w = x \/ (Running(works, w) /\ e.workers[w] = works[w] /\ w # x)
    BY <2>9 DEF Running
  <2>12. LinkedIn(e.connectors, e.workers)
    BY <2>4, <2>6, <2>8, <2>9, <2>10, <2>11 DEF LinkedIn
  <2> QED BY <2>7, <2>8, <2>9, <2>12
<1> QED BY <1>1, <1>2

(* What ensure_connection leaves: nobody's connection is taken away.       *)
LEMMA EnsuredIs ==
    ASSUME TypeOK, Linked, NEW a \in Accounts, NEW e, e = Ensured(a)
    PROVE  /\ e.connections \in TheConnections
           /\ e.connectors \in TheConnectors
           /\ e.workers \in TheWorkers
           /\ e.ok \in BOOLEAN
           /\ LinkedIn(e.connectors, e.workers)
           /\ \A i \in Ids : connections[i] # None => e.connections[i] = connections[i]
<1>1. /\ connections \in TheConnections /\ connectors \in TheConnectors
      /\ workers \in TheWorkers /\ LinkedIn(connectors, workers) /\ a.id \in Ids
  BY NetworkIs, LinkedIs, AccountIs
<1>2. Reaped(workers) \in TheWorkers /\ LinkedIn(connectors, Reaped(workers))
  BY <1>1, ReapedIs
<1>3. CASE connections[a.id] # None
  <2>1. e = Left(connections, connectors, Reaped(workers), TRUE) BY <1>3 DEF Ensured
  <2> QED BY <2>1, <1>1, <1>2 DEF Left
<1>4. CASE connections[a.id] = None /\ connectors[a.id] = None
  <2>1. e = Spawned(a, connectors, Reaped(workers)) BY <1>4 DEF Ensured
  <2> QED BY <2>1, <1>1, <1>2, <1>4, SpawnedIs
<1>5. CASE /\ connections[a.id] = None /\ connectors[a.id] # None
           /\ connectors[a.id].version # a.version
  <2> DEFINE cons == [connectors EXCEPT ![a.id] = None]
  <2>1. e = Spawned(a, cons, Reaped(Cut({a.id}))) BY <1>5 DEF Ensured
  <2>2. /\ cons \in TheConnectors /\ cons[a.id] = None
        /\ \A i \in Ids \ {a.id} : cons[i] = connectors[i]
    BY <1>1 DEF TheConnectors
  <2> HIDE DEF cons
  <2>3. Cut({a.id}) \in TheWorkers /\ LinkedIn(cons, Cut({a.id})) BY <1>1, <2>2, CutIs
  <2>4. Reaped(Cut({a.id})) \in TheWorkers /\ LinkedIn(cons, Reaped(Cut({a.id})))
    BY <2>3, ReapedIs
  <2> QED BY <2>1, <2>2, <2>4, <1>1, SpawnedIs
<1>6. CASE /\ connections[a.id] = None /\ connectors[a.id] # None
           /\ connectors[a.id].version = a.version
  <2> DEFINE works == Reaped(workers)
             cons == [connectors EXCEPT ![a.id] = None]
             found == connectors[a.id].result
  <2>1. e = Taken(a, works) BY <1>6 DEF Ensured
  <2>2. /\ cons \in TheConnectors
        /\ \A i \in Ids \ {a.id} : cons[i] = connectors[i]
    BY <1>1 DEF TheConnectors
  <2>3. found \in {None, "good", "bad"} BY <1>1, <1>6 DEF TheConnectors
  <2>4. New(a) \in [version : Nat, ready : BOOLEAN] BY AccountIs DEF New
  <2>5. found # None => LinkedIn(cons, works)
    <3>1. \A w \in Slots : Running(works, w) => works[w].of \in Ids
      BY <1>2 DEF Running, TheWorkers
    <3> HIDE DEF cons, works
    <3> QED BY <1>2, <2>2, <3>1 DEF LinkedIn, works
  <2>6. CASE found = None
    <3>1. found # "good" /\ found # "bad"
      BY <2>6, ServiceAssumption DEF ServiceAssumption
    <3>2. e = Left(connections, connectors, works, TRUE) BY <2>1, <2>6, <3>1 DEF Taken
    <3> QED BY <3>2, <1>1, <1>2 DEF Left
  <2>7. CASE found = "bad" /\ found # None
    <3>1. e = Left(connections, cons, works, FALSE) BY <2>1, <2>7 DEF Taken
    <3> HIDE DEF cons, works
    <3> QED BY <3>1, <1>1, <1>2, <2>2, <2>5, <2>7 DEF Left, works
  <2>8. CASE found = "good" /\ found # None
    <3>1. e = Left([connections EXCEPT ![a.id] = New(a)], cons, works, TRUE)
      BY <2>1, <2>8 DEF Taken
    <3>2. /\ [connections EXCEPT ![a.id] = New(a)] \in TheConnections
          /\ \A i \in Ids : connections[i] # None =>
                [connections EXCEPT ![a.id] = New(a)][i] = connections[i]
      BY <1>1, <1>6, <2>4 DEF TheConnections
    <3> HIDE DEF cons, works
    <3> QED BY <3>1, <3>2, <1>1, <1>2, <2>2, <2>5, <2>8 DEF Left, works
  <2> QED BY <2>3, <2>6, <2>7, <2>8
<1> QED BY <1>3, <1>4, <1>5, <1>6
-----------------------------------------------------------------------------
(* The loop. *)
LEMMA LoopKeeps ==
    ASSUME Inv, UNCHANGED <<given, thread, desired, retry, available, status, connections>>,
           UNCHANGED <<queue, pending, waiting, calls, answers>>,
           loop' \notin Sleeping, loop' # "prepares" => loop # "prepares" \/ waiting = <<>>
    PROVE  (Placed /\ Once /\ Room /\ Shown)'
<1>1. Submitted' = Submitted /\ Engaged' = Engaged BY DEF Submitted, Engaged, thread
<1>2. Placed' /\ Once' BY <1>1, PlacesStay DEF Inv, given, thread
<1>3. Room' BY <1>1, RoomStays DEF Inv, given, Room
<1>4. Shown' BY ShownStays DEF Inv
<1> QED BY <1>2, <1>3, <1>4

LEMMA RoomAnswers ==
    ASSUME Inv, UNCHANGED <<limit, sender>>,
           \A s \in Sends : answers'[s] = answers[s] \/ answers'[s] = <<"failed">>
                                \/ answers'[s] = <<"finished">>
    PROVE  Room'
<1>1. Engaged' = Engaged BY DEF Engaged
<1>2. <<"failed">> # <<"refused">> /\ <<"finished">> # <<"refused">> OBVIOUS
<1>3. \A s \in Sends : answers'[s] # <<"refused">> BY <1>2 DEF Inv, Room
<1> QED BY <1>1, <1>3, RoomStays DEF Inv

LEMMA QueuedIs ==
    ASSUME TypeOK
    PROVE  Queued = Elements(pending) \cup Elements(waiting)
<1>1. DOMAIN pending = 1..Len(pending) /\ DOMAIN waiting = 1..Len(waiting) BY DEF TypeOK
<1> QED BY <1>1 DEF Queued, Elements

LEMMA ElementsTyped ==
    ASSUME TypeOK
    PROVE  Elements(pending) \subseteq Sends /\ Elements(waiting) \subseteq Sends
           /\ OnChannel \subseteq Sends /\ calls \subseteq Sends
  BY DEF Elements, TypeOK, OnChannel

LEMMA NoElements ==
    /\ Elements(<<>>) = {} /\ Distinct(<<>>)
    /\ \A S : <<>> \in Seq(S)
    /\ queue' = <<>> => OnChannel' = {} /\ OnceOnChannel'
  BY DEF Elements, Distinct, OnChannel, OnceOnChannel

LEMMA StartsKeeps ==
    ASSUME Inv, Starts
    PROVE  Inv'
<1>1. loop = "starting" /\ loop' \in {"commands", "refused"} BY DEF Starts
<1>2. UNCHANGED <<given, thread, client, queue, bell, receiver, reconnect,
                  incoming, network, sends>>
  BY DEF Starts
<1>3. TypeOK' BY <1>1, <1>2 DEF Inv, TypeOK, given, thread, client, receiver, network, sends
<1>4. Linked' BY <1>2, LinkedStays DEF Inv, network
<1>5. loop' \notin Sleeping BY <1>1 DEF Sleeping
<1> QED BY <1>1, <1>2, <1>3, <1>4, <1>5, LoopKeeps DEF Inv, receiver, network, sends

LEMMA InterruptKeeps ==
    ASSUME Inv, Interrupt
    PROVE  Inv'
<1>1. /\ loop \in {"late", "resumed"} /\ loop' = "commands" /\ Answer(calls, "failed")
      /\ calls' = {} /\ incoming' = None /\ reconnect' = TRUE
  BY DEF Interrupt
<1>2. UNCHANGED <<given, thread, client, queue, bell, receiver,
                  network, pending, waiting, mapping>>
  BY DEF Interrupt
<1>3. /\ answers' \in [Sends -> Seq({"failed", "refused", "finished"})]
      /\ \A s \in Sends : Len(answers'[s]) <= 1
      /\ Answered' = Answered \cup calls
      /\ \A s \in Sends : answers'[s] = answers[s] \/ answers'[s] = <<"failed">>
  <2>1. calls \subseteq Sends /\ calls \cap Answered = {}
    BY DEF Inv, TypeOK, Placed, Places5
  <2> QED BY <2>1, <1>1, AnswerIs DEF Inv
<1>4. TypeOK'
  BY <1>1, <1>2, <1>3 DEF Inv, TypeOK, given, thread, client, receiver, network
<1>5. Placed'
  <2>1. /\ OnChannel' = OnChannel /\ Submitted' = Submitted
        /\ Elements(pending)' = Elements(pending) /\ Elements(waiting)' = Elements(waiting)
    BY <1>2 DEF OnChannel, Elements, Submitted, thread
  <2> QED BY <2>1, <1>1, <1>3 DEF Inv, Placed, Places5
<1>6. Once' BY <1>1, <1>2 DEF Inv, Once, OnceOnChannel, Distinct, given, thread
<1>7. Room' BY <1>2, <1>3, RoomAnswers DEF given, thread
<1>8. Linked' BY <1>2, LinkedStays DEF Inv, network
<1>9. Shown' BY <1>1, <1>2, ShownStays DEF Inv, receiver, network, Sleeping
<1> QED BY <1>4, <1>5, <1>6, <1>7, <1>8, <1>9 DEF Inv

LEMMA TakeConfigureKeeps ==
    ASSUME Inv, TakeConfigure
    PROVE  Inv'
<1>1. /\ loop = "commands" /\ queue # <<>> /\ Head(queue).what = "configure"
      /\ queue' = Tail(queue) /\ desired' = Head(queue).of
      /\ available' = FALSE /\ retry' = "now"
  BY DEF TakeConfigure, Takes
<1>2. UNCHANGED <<given, thread, client, bell, loop, status, reconnect,
                  incoming, network, sends>>
  BY DEF TakeConfigure
<1>3. /\ queue' \in Seq(Commands) /\ Head(queue) \in Commands
      /\ OnceOnChannel' /\ OnChannel' = OnChannel \ {Head(queue).of}
  BY <1>1, ChannelTail DEF Inv, Once
<1>4. Head(queue).of \in Accounts \cup {None} /\ Head(queue).of \notin Sends
  <2>1. PICK c \in Commands : c = Head(queue) BY <1>3
  <2> QED BY <2>1, <1>1, CommandIs
<1>5. OnChannel' = OnChannel BY <1>3, <1>4 DEF OnChannel
<1>6. TypeOK'
  BY <1>1, <1>2, <1>3, <1>4 DEF Inv, TypeOK, given, thread, client, network, sends
<1>7. Placed'
  <2>1. /\ Answered' = Answered /\ Submitted' = Submitted /\ calls' = calls
        /\ Elements(pending)' = Elements(pending) /\ Elements(waiting)' = Elements(waiting)
    BY <1>2 DEF Answered, Elements, Submitted, thread, sends
  <2> QED BY <2>1, <1>5 DEF Inv, Placed, Places5
<1>8. Once' BY <1>2, <1>3 DEF Inv, Once, Distinct, given, thread, sends
<1>9. Room' BY <1>2, RoomAnswers DEF given, thread, sends
<1>10. Linked' BY <1>2, LinkedStays DEF Inv, network
<1>11. Shown' BY <1>1, <1>2 DEF Shown, StatusHonest, Sleeping
<1> QED BY <1>6, <1>7, <1>8, <1>9, <1>10, <1>11 DEF Inv

LEMMA TakeReconnectKeeps ==
    ASSUME Inv, TakeReconnect
    PROVE  Inv'
<1>1. /\ loop = "commands" /\ queue # <<>> /\ Head(queue).what = "reconnect"
      /\ queue' = Tail(queue) /\ reconnect' = TRUE
  BY DEF TakeReconnect, Takes
<1>2. UNCHANGED <<given, thread, client, bell, loop, receiver, incoming, network, sends>>
  BY DEF TakeReconnect
<1>3. /\ queue' \in Seq(Commands) /\ Head(queue) \in Commands
      /\ OnceOnChannel' /\ OnChannel' = OnChannel \ {Head(queue).of}
  BY <1>1, ChannelTail DEF Inv, Once
<1>4. Head(queue).of \notin Sends
  <2>1. PICK c \in Commands : c = Head(queue) BY <1>3
  <2> QED BY <2>1, <1>1, CommandIs
<1>5. OnChannel' = OnChannel BY <1>3, <1>4 DEF OnChannel
<1>6. TypeOK'
  BY <1>1, <1>2, <1>3 DEF Inv, TypeOK, given, thread, client, receiver, network, sends
<1>7. Placed'
  <2>1. /\ Answered' = Answered /\ Submitted' = Submitted /\ calls' = calls
        /\ Elements(pending)' = Elements(pending) /\ Elements(waiting)' = Elements(waiting)
    BY <1>2 DEF Answered, Elements, Submitted, thread, sends
  <2> QED BY <2>1, <1>5 DEF Inv, Placed, Places5
<1>8. Once' BY <1>2, <1>3 DEF Inv, Once, Distinct, given, thread, sends
<1>9. Room' BY <1>2, RoomAnswers DEF given, thread, sends
<1>10. Linked' BY <1>2, LinkedStays DEF Inv, network
<1>11. Shown' BY <1>1, <1>2, ShownStays DEF Inv, receiver, network
<1> QED BY <1>6, <1>7, <1>8, <1>9, <1>10, <1>11 DEF Inv

(* The engine's limit leaves room for the fax that it has just submitted.  *)
LEMMA RoomForOne ==
    ASSUME Inv, NEW s \in OnChannel
    PROVE  Cardinality(calls) + Len(pending) < limit
<1> DEFINE E == Elements(pending)
<1>1. /\ calls \subseteq Submitted /\ E \subseteq Submitted /\ s \in Submitted
      /\ calls \cap E = {} /\ s \notin calls /\ s \notin E
  BY DEF Inv, Placed, Places5
<1>2. Submitted \subseteq Engaged BY DEF Submitted, Engaged
<1>3. IsFiniteSet(Engaged) BY ServiceAssumption, FS_Subset DEF ServiceAssumption, Engaged
<1>4. Cardinality(E) = Len(pending)
  BY DistinctIsAsLong DEF Inv, TypeOK, Once
<1> HIDE DEF E
<1>5. IsFiniteSet(calls) /\ IsFiniteSet(E) BY <1>1, <1>2, <1>3, FS_Subset
<1>6. Cardinality(calls \cup E) = Cardinality(calls) + Cardinality(E)
  <2>1. Cardinality(calls \cup E)
           = Cardinality(calls) + Cardinality(E) - Cardinality(calls \cap E)
    BY <1>5, FS_Union
  <2>2. Cardinality(calls \cap E) = 0 BY <1>1, FS_EmptySet
  <2>3. Cardinality(calls) \in Nat /\ Cardinality(E) \in Nat BY <1>5, FS_CardinalityType
  <2> QED BY <2>1, <2>2, <2>3
<1>7. IsFiniteSet(calls \cup E) BY <1>5, FS_Union
<1>8. Cardinality((calls \cup E) \cup {s}) = Cardinality(calls \cup E) + 1
  BY <1>1, <1>7, FS_AddElement
<1>9. Cardinality((calls \cup E) \cup {s}) <= Cardinality(Engaged)
  BY <1>1, <1>2, <1>3, FS_Subset
<1>10. /\ Cardinality(calls) \in Nat /\ Cardinality(E) \in Nat /\ Cardinality(Engaged) \in Nat
       /\ Cardinality(calls \cup E) \in Nat /\ limit \in Nat
  BY <1>3, <1>5, <1>7, FS_CardinalityType DEF Inv, TypeOK
<1>11. Cardinality(Engaged) <= limit BY DEF Inv, Room
<1> QED BY <1>4, <1>6, <1>8, <1>9, <1>10, <1>11

LEMMA TakeSendKeeps ==
    ASSUME Inv, TakeSend
    PROVE  Inv'
<1> DEFINE h == Head(queue).of
<1>1. /\ loop = "commands" /\ queue # <<>> /\ Head(queue).what = "send" /\ queue' = Tail(queue)
  BY DEF TakeSend, Takes
<1>2. UNCHANGED <<given, thread, client, bell, loop, receiver, reconnect,
                  incoming, network, waiting, mapping, calls>>
  BY DEF TakeSend
<1>3. /\ queue' \in Seq(Commands) /\ Head(queue) \in Commands
      /\ OnceOnChannel' /\ OnChannel' = OnChannel \ {h} /\ (h \in Sends => h \in OnChannel)
  BY <1>1, ChannelTail DEF Inv, Once
<1>4. h \in Sends /\ h \in OnChannel
  <2>1. PICK c \in Commands : c = Head(queue) BY <1>3
  <2>2. c.of \in Sends BY <2>1, <1>1, CommandIs
  <2> QED BY <2>1, <2>2, <1>3
<1>5. pending' = Append(pending, h) /\ UNCHANGED answers
  <2>1. Cardinality(calls) + Len(pending) < limit BY <1>4, RoomForOne
  <2>2. IsFiniteSet(calls)
    BY ServiceAssumption, FS_Subset DEF ServiceAssumption, Inv, TypeOK
  <2>3. Cardinality(calls) \in Nat /\ Len(pending) \in Nat /\ limit \in Nat
    BY <2>2, FS_CardinalityType DEF Inv, TypeOK
  <2>4. ~(Cardinality(calls) + Len(pending) >= limit) BY <2>1, <2>3
  <2> QED BY <2>4 DEF TakeSend
<1>6. h \notin Elements(pending) BY <1>4 DEF Inv, Placed, Places5
<1>7. pending' \in Seq(Sends) /\ Elements(pending)' = Elements(pending) \cup {h}
         /\ Distinct(pending')
  <2>1. pending \in Seq(Sends) /\ Distinct(pending) BY DEF Inv, TypeOK, Once
  <2> HIDE DEF h
  <2>2. /\ Append(pending, h) \in Seq(Sends)
        /\ Elements(Append(pending, h)) = Elements(pending) \cup {h}
        /\ Distinct(Append(pending, h))
    BY <2>1, <1>4, <1>6, AppendIs
  <2> QED BY <2>2, <1>5
<1>8. TypeOK'
  BY <1>2, <1>3, <1>5, <1>7 DEF Inv, TypeOK, given, thread, client, receiver, network
<1>9. Placed'
  <2>1. /\ Answered' = Answered /\ Submitted' = Submitted /\ calls' = calls
        /\ Elements(waiting)' = Elements(waiting)
    BY <1>2, <1>5 DEF Answered, Elements, Submitted, thread
  <2> HIDE DEF h
  <2> QED BY <2>1, <1>3, <1>4, <1>7 DEF Inv, Placed, Places5
<1>10. Once' BY <1>2, <1>3, <1>7 DEF Inv, Once, Distinct, given, thread
<1>11. Room' BY <1>2, <1>5, RoomAnswers DEF given, thread
<1>12. Linked' BY <1>2, LinkedStays DEF Inv, network
<1>13. Shown' BY <1>1, <1>2, ShownStays DEF Inv, receiver, network
<1> QED BY <1>8, <1>9, <1>10, <1>11, <1>12, <1>13 DEF Inv

(* A stop or an error answers all that is somewhere. *)
LEMMA TearDownKeeps ==
    ASSUME Inv, TearDown, loop # "prepares", script' \in Seq(Orders \cup Accidents)
    PROVE  Inv'
<1> DEFINE set == calls \cup Queued \cup OnChannel
<1>1. /\ loop' = "down" /\ Answer(set, "failed")
      /\ queue' = <<>> /\ pending' = <<>> /\ waiting' = <<>>
      /\ calls' = {} /\ incoming' = None /\ available' = FALSE
      /\ mapping' = [s \in Sends |-> None]
      /\ connections' = [i \in Ids |-> None]
      /\ connectors' = [i \in Ids |-> None]
      /\ workers' = Cut(Ids)
  BY DEF TearDown
<1>2. UNCHANGED <<given, thread, app, bell, desired, retry, status, reconnect>>
  BY DEF TearDown
<1>3. set = calls \cup Elements(pending) \cup Elements(waiting) \cup OnChannel
  BY QueuedIs DEF Inv
<1>4. set \subseteq Sends /\ set \cap Answered = {}
  BY <1>3, ElementsTyped DEF Inv, Placed, Places5
<1> HIDE DEF set
<1>5. /\ answers' \in [Sends -> Seq({"failed", "refused", "finished"})]
      /\ \A s \in Sends : Len(answers'[s]) <= 1
      /\ Answered' = Answered \cup set
      /\ \A s \in Sends : answers'[s] = answers[s] \/ answers'[s] = <<"failed">>
  BY <1>1, <1>4, AnswerIs DEF Inv
<1>6. workers' \in TheWorkers /\ LinkedIn(connectors', workers')
  BY <1>1, CutIs DEF Inv
<1>7. /\ \A S : <<>> \in Seq(S)
      /\ OnChannel' = {} /\ OnceOnChannel'
      /\ Elements(pending)' = {} /\ Elements(waiting)' = {}
      /\ Distinct(pending)' /\ Distinct(waiting)'
  BY <1>1, NoElements
<1>8. TypeOK'
  <2>1. queue' \in Seq(Commands) /\ pending' \in Seq(Sends) /\ waiting' \in Seq(Sends)
    BY <1>1, <1>7
  <2>2. /\ connections' \in [Ids -> [version : Nat, ready : BOOLEAN] \cup {None}]
        /\ connectors' \in [Ids -> [version : Nat, result : {None, "good", "bad"}] \cup {None}]
        /\ mapping' \in [Sends -> {None, "asked"}]
    BY <1>1
  <2> QED BY <1>1, <1>2, <1>5, <1>6, <2>1, <2>2 DEF Inv, TypeOK, TheWorkers, given, thread
<1>9. Placed'
  <2>1. Submitted' = Submitted BY <1>2 DEF Submitted, thread
  <2> QED BY <2>1, <1>1, <1>3, <1>5, <1>7 DEF Inv, Placed, Places5
<1>10. Once' BY <1>1, <1>2, <1>7 DEF Inv, Once, given, thread
<1>11. Room' BY <1>2, <1>5, RoomAnswers DEF given, thread
<1>12. Linked' BY <1>6, LinkedIs
<1>13. Shown' BY <1>1, <1>2 DEF Inv, Shown, StatusHonest, Sleeping
<1> QED BY <1>8, <1>9, <1>10, <1>11, <1>12, <1>13 DEF Inv

LEMMA TakeStopKeeps ==
    ASSUME Inv, TakeStop
    PROVE  Inv'
<1>1. TearDown /\ loop # "prepares" /\ script' = script BY DEF TakeStop, Takes
<1> QED BY <1>1, TearDownKeeps DEF Inv, TypeOK

(* Something happens by the script, or nothing does. *)
LEMMA ScriptIs ==
    ASSUME TypeOK
    PROVE  /\ \A what : Happens(what) => script' \in Seq(Orders \cup Accidents)
           /\ \A bad : Breaks(bad) => script' \in Seq(Orders \cup Accidents)
<1>1. script # <<>> => Tail(script) \in Seq(Orders \cup Accidents) BY DEF TypeOK
<1> QED BY <1>1 DEF Happens, Breaks, TypeOK

LEMMA LoopBreaksKeeps ==
    ASSUME Inv, LoopBreaks
    PROVE  Inv'
<1>1. TearDown /\ loop # "prepares" /\ Happens("break") BY DEF LoopBreaks
<1> QED BY <1>1, TearDownKeeps, ScriptIs DEF Inv

LEMMA GoneKeeps ==
    ASSUME Inv, Gone
    PROVE  Inv'
<1>1. /\ loop = "down" /\ loop' = "gone" /\ workers' = [w \in Slots |-> None]
      /\ queue' = <<>> /\ Answer(OnChannel, "failed")
  BY DEF Gone
<1>2. UNCHANGED <<given, thread, client, bell, receiver, reconnect, incoming,
                  connections, connectors, pending, waiting, mapping, calls>>
  BY DEF Gone
<1>3. /\ answers' \in [Sends -> Seq({"failed", "refused", "finished"})]
      /\ \A s \in Sends : Len(answers'[s]) <= 1
      /\ Answered' = Answered \cup OnChannel
      /\ \A s \in Sends : answers'[s] = answers[s] \/ answers'[s] = <<"failed">>
  <2>1. OnChannel \subseteq Sends /\ OnChannel \cap Answered = {}
    BY ElementsTyped DEF Inv, Placed, Places5
  <2> QED BY <2>1, <1>1, AnswerIs DEF Inv
<1>4. /\ queue' \in Seq(Commands) /\ OnChannel' = {} /\ OnceOnChannel'
  BY <1>1, NoElements
<1>5. TypeOK'
  <2>1. workers' \in [Slots -> [stage : {"running", "sent", "rung", "over"}, of : Ids,
                              stop : BOOLEAN] \cup {None}]
    BY <1>1
  <2> QED BY <2>1, <1>1, <1>2, <1>3, <1>4 DEF Inv, TypeOK, given, thread, client, receiver
<1>6. Placed'
  <2>1. /\ Submitted' = Submitted /\ calls' = calls
        /\ Elements(pending)' = Elements(pending) /\ Elements(waiting)' = Elements(waiting)
    BY <1>2 DEF Elements, Submitted, thread
  <2> QED BY <2>1, <1>3, <1>4 DEF Inv, Placed, Places5
<1>7. Once' BY <1>1, <1>2, <1>4 DEF Inv, Once, Distinct, given, thread
<1>8. Room' BY <1>2, <1>3, RoomAnswers DEF given, thread
<1>9. Linked' BY <1>1 DEF Linked, At
<1>10. Shown' BY <1>1, <1>2, ShownStays DEF Inv, receiver, Sleeping
<1> QED BY <1>5, <1>6, <1>7, <1>8, <1>9, <1>10 DEF Inv

LEMMA CommandsEndKeeps ==
    ASSUME Inv, CommandsEnd
    PROVE  Inv'
<1>1. loop = "commands" /\ loop' = "polls" BY DEF CommandsEnd
<1>2. UNCHANGED <<given, thread, client, queue, bell, desired, status, incoming, sends>>
  BY DEF CommandsEnd
<1>3. Submitted' = Submitted /\ Engaged' = Engaged
  BY <1>2 DEF Submitted, Engaged, thread
<1>4. Placed' /\ Once' BY <1>1, <1>2, <1>3, PlacesStay DEF Inv, given, thread, sends
<1>5. Room' BY <1>2, <1>3, RoomStays DEF Inv, given, Room, sends
<1>6. CASE UNCHANGED <<reconnect, available, retry, network>>
  <2>1. TypeOK' BY <1>1, <1>2, <1>6 DEF Inv, TypeOK, given, thread, client, network, sends
  <2>2. Linked' BY <1>6, LinkedStays DEF Inv, network
  <2>3. Shown' BY <1>1, <1>2, <1>6, ShownStays DEF Inv, network, Sleeping
  <2> QED BY <1>4, <1>5, <2>1, <2>2, <2>3 DEF Inv
<1>7. CASE /\ reconnect' = FALSE /\ available' = FALSE /\ retry' = "now"
           /\ connections' = [i \in Ids |-> None]
           /\ connectors' = [i \in Ids |-> None]
           /\ workers' = Cut(Ids)
  <2>1. workers' \in TheWorkers /\ LinkedIn(connectors', workers')
    BY <1>7, CutIs DEF Inv
  <2>2. /\ connections' \in [Ids -> [version : Nat, ready : BOOLEAN] \cup {None}]
        /\ connectors' \in [Ids -> [version : Nat, result : {None, "good", "bad"}] \cup {None}]
    BY <1>7
  <2>3. TypeOK'
    BY <1>1, <1>2, <1>7, <2>1, <2>2 DEF Inv, TypeOK, TheWorkers, given, thread, client, sends
  <2>4. Linked' BY <2>1, LinkedIs
  <2>5. Shown' BY <1>1, <1>2, <1>7 DEF Inv, Shown, StatusHonest, Sleeping
  <2> QED BY <1>4, <1>5, <2>3, <2>4, <2>5 DEF Inv
<1> QED BY <1>6, <1>7 DEF CommandsEnd

(* The connections that failed go, with all that depended on them.         *)
LEMMA PollKeeps ==
    ASSUME Inv, Poll
    PROVE  Inv'
<1> DEFINE Rest(bad, good) ==
      /\ connections' = [i \in Ids |->
            CASE i \in bad -> None
              [] i \in good -> [connections[i] EXCEPT !.ready = TRUE]
              [] OTHER -> connections[i]]
      /\ LET lost == {s \in calls \cup Queued : account[s].id \in bad}
         IN /\ Answer(lost, "failed")
            /\ pending' = Retain(pending, lost)
            /\ mapping' = [s \in Sends |-> IF s \in lost THEN None ELSE mapping[s]]
            /\ calls' = calls \ lost
      /\ incoming' = IF incoming # None /\ incoming.of \in bad THEN None ELSE incoming
      /\ IF desired # None /\ desired.id \in bad
           THEN available' = FALSE /\ status' = "error" /\ retry' \in {"short", "day"}
           ELSE UNCHANGED <<available, status, retry>>
<1>0. PICK failed \in SUBSET (Connected \ {Direct}) :
         /\ Breaks(failed # {})
         /\ \E good \in SUBSET {i \in Connected \ failed : ~connections[i].ready} :
               Rest(failed, good)
  BY Zenon DEF Poll
<1>1. PICK registered \in SUBSET {i \in Connected \ failed : ~connections[i].ready} :
         Rest(failed, registered)
  BY <1>0
<1>2. /\ loop = "polls" /\ loop' = "listens"
      /\ UNCHANGED <<given, thread, app, queue, bell, desired, reconnect,
                     connectors, workers, waiting>>
  BY DEF Poll
<1> DEFINE lost == {s \in calls \cup Queued : account[s].id \in failed}
<1>3. /\ Answer(lost, "failed")
      /\ pending' = Retain(pending, lost)
      /\ mapping' = [s \in Sends |-> IF s \in lost THEN None ELSE mapping[s]]
      /\ calls' = calls \ lost
  BY <1>1
<1>4. waiting = <<>> /\ Elements(waiting) = {} BY <1>2, NoElements DEF Inv, Once
<1>5. lost \subseteq calls \cup Elements(pending) BY <1>4, QueuedIs DEF Inv
<1> HIDE DEF lost
<1>6. lost \subseteq Sends /\ lost \cap Answered = {}
  BY <1>5, ElementsTyped DEF Inv, Placed, Places5
<1>7. /\ answers' \in [Sends -> Seq({"failed", "refused", "finished"})]
      /\ \A s \in Sends : Len(answers'[s]) <= 1
      /\ Answered' = Answered \cup lost
      /\ \A s \in Sends : answers'[s] = answers[s] \/ answers'[s] = <<"failed">>
  BY <1>3, <1>6, AnswerIs DEF Inv
<1>8. /\ pending' \in Seq(Sends) /\ Elements(pending)' = Elements(pending) \ lost
      /\ Distinct(pending)'
  <2>1. pending \in Seq(Sends) /\ Distinct(pending) BY DEF Inv, TypeOK, Once
  <2>2. /\ Retain(pending, lost) \in Seq(Sends)
        /\ Elements(Retain(pending, lost)) = Elements(pending) \ lost
        /\ Distinct(Retain(pending, lost))
    BY <2>1, RetainIs
  <2> QED BY <2>2, <1>3
<1>9. \A i \in Ids : connections[i] # None =>
         connections[i] \in [version : Nat, ready : BOOLEAN]
  BY DEF Inv, TypeOK
<1>10. \A i \in registered : i \in Ids /\ i \notin failed /\ connections[i] # None
  BY DEF Connected
<1>11. \A i \in Ids :
          /\ i \in failed => connections'[i] = None
          /\ i \in registered => connections'[i] = [connections[i] EXCEPT !.ready = TRUE]
          /\ i \notin failed \cup registered => connections'[i] = connections[i]
  BY <1>1, <1>10
<1>12. \A i \in registered :
          /\ connections'[i] \in [version : Nat, ready : BOOLEAN]
          /\ connections'[i].ready /\ connections'[i].version = connections[i].version
  <2>1. TAKE i \in registered
  <2>2. connections[i] \in [version : Nat, ready : BOOLEAN] BY <1>9, <1>10
  <2>3. connections'[i] = [connections[i] EXCEPT !.ready = TRUE] BY <1>10, <1>11
  <2> QED BY <2>2, <2>3
<1>13. connections' \in [Ids -> [version : Nat, ready : BOOLEAN] \cup {None}]
  <2>1. \A i \in Ids : connections'[i] \in [version : Nat, ready : BOOLEAN] \cup {None}
    BY <1>9, <1>11, <1>12
  <2>2. connections' = [i \in Ids |-> connections'[i]] BY <1>1
  <2> QED BY <2>1, <2>2
<1>14. TypeOK'
  <2>1. mapping' \in [Sends -> {None, "asked"}] BY <1>3 DEF Inv, TypeOK
  <2>2. calls' \subseteq Sends BY <1>3 DEF Inv, TypeOK
  <2>3. script' \in Seq(Orders \cup Accidents) BY <1>0, ScriptIs DEF Inv
  <2>4. incoming' \in [of : Ids, stage : {"offered", "running"}] \cup {None}
    BY <1>1 DEF Inv, TypeOK
  <2>5. /\ available' \in BOOLEAN /\ retry' \in {"now", "short", "day"}
        /\ status' \in {None, "error", "receiving", "off", "ready", "registering"}
    BY <1>1 DEF Inv, TypeOK
  <2> QED BY <2>1, <2>2, <2>3, <2>4, <2>5, <1>2, <1>7, <1>8, <1>13 DEF Inv, TypeOK, given, thread
<1>15. Placed'
  <2>1. /\ OnChannel' = OnChannel /\ Submitted' = Submitted
        /\ Elements(waiting)' = Elements(waiting)
    BY <1>2 DEF OnChannel, Submitted, Elements, thread
  <2> QED BY <2>1, <1>3, <1>4, <1>5, <1>7, <1>8 DEF Inv, Placed, Places5
<1>16. Once' BY <1>2, <1>4, <1>8 DEF Inv, Once, OnceOnChannel, Distinct, given, thread
<1>17. Room' BY <1>2, <1>7, RoomAnswers DEF given, thread
<1>18. Linked' BY <1>2, LinkedStays DEF Inv
<1>19. Shown'
  <2>1. ASSUME available' PROVE desired' # None /\ Listened(connections)'
    <3>1. ~(desired # None /\ desired.id \in failed) /\ available BY <1>1, <2>1
    <3>2. desired # None /\ Listened(connections) /\ desired' = desired
      BY <3>1, <1>2 DEF Inv, Shown
    <3>3. desired.id \in Ids /\ desired.id \notin failed
      BY <3>1, <3>2, AccountIs DEF Inv, TypeOK
    <3>4. CASE desired.id \in registered
      <4>1. connections'[desired.id] # None
        BY <3>4, <1>12, ServiceAssumption DEF ServiceAssumption
      <4> QED BY <4>1, <3>2, <3>4, <1>12 DEF Listened
    <3>5. CASE desired.id \notin registered
      <4>1. connections'[desired.id] = connections[desired.id] BY <3>3, <3>5, <1>11
      <4> QED BY <4>1, <3>2 DEF Listened
    <3> QED BY <3>4, <3>5
  <2>2. retry' # "now" => status' # "ready" BY <1>1 DEF Inv, Shown
  <2>3. StatusHonest' BY <1>2 DEF StatusHonest, Sleeping
  <2> QED BY <2>1, <2>2, <2>3 DEF Shown
<1> QED BY <1>14, <1>15, <1>16, <1>17, <1>18, <1>19 DEF Inv

LEMMA ListenLaterKeeps ==
    ASSUME Inv, ListenLater
    PROVE  Inv'
<1>1. loop = "listens" /\ loop' = "prepares" BY DEF ListenLater
<1>2. UNCHANGED <<given, thread, client, queue, bell, receiver, reconnect,
                  incoming, network, sends>>
  BY DEF ListenLater
<1>3. TypeOK' BY <1>1, <1>2 DEF Inv, TypeOK, given, thread, client, receiver, network, sends
<1>4. Linked' BY <1>2, LinkedStays DEF Inv, network
<1>5. loop' \notin Sleeping BY <1>1 DEF Sleeping
<1> QED BY <1>1, <1>2, <1>3, <1>4, <1>5, LoopKeeps DEF Inv, receiver, network, sends

LEMMA WithdrawKeeps ==
    ASSUME Inv, Withdraw
    PROVE  Inv'
<1>1. /\ loop = "listens" /\ desired # None
      /\ connections' = [connections EXCEPT ![desired.id] = None] /\ available' = FALSE
  BY DEF Withdraw, Listens
<1>2. UNCHANGED <<given, thread, client, queue, bell, loop, desired, retry, status,
                  reconnect, incoming, connectors, workers, sends>>
  BY DEF Withdraw
<1>3. Submitted' = Submitted /\ Engaged' = Engaged
  BY <1>2 DEF Submitted, Engaged, thread
<1>4. TypeOK'
  <2>1. connections' \in [Ids -> [version : Nat, ready : BOOLEAN] \cup {None}]
    BY <1>1 DEF Inv, TypeOK
  <2> QED BY <2>1, <1>1, <1>2 DEF Inv, TypeOK, given, thread, client, sends
<1>5. Placed' /\ Once' BY <1>2, <1>3, PlacesStay DEF Inv, given, thread, sends
<1>6. Room' BY <1>2, <1>3, RoomStays DEF Inv, given, Room, sends
<1>7. Linked' BY <1>2, LinkedStays DEF Inv
<1>8. Shown' BY <1>1, <1>2 DEF Inv, Shown, StatusHonest, Sleeping
<1> QED BY <1>4, <1>5, <1>6, <1>7, <1>8 DEF Inv

(* The receiver's connection: what is there is left alone, but for a       *)
(* direct listener, which is bound again.                                  *)
LEMMA ListenKeeps ==
    ASSUME Inv, Listen
    PROVE  Inv'
<1>1. loop = "listens" /\ loop' = "prepares" /\ desired # None BY DEF Listen, Listens
<1>2. UNCHANGED <<given, thread, app, queue, bell, desired, reconnect, incoming, sends>>
  BY DEF Listen
<1>3. PICK e :
         /\ ListenWith(e) /\ script' \in Seq(Orders \cup Accidents)
         /\ e.connections \in TheConnections /\ e.connectors \in TheConnectors
         /\ e.workers \in TheWorkers /\ LinkedIn(e.connectors, e.workers)
         /\ Listened(connections) => Listened(e.connections)
  <2>1. CASE desired.id = Direct
    <3>1. PICK ok \in BOOLEAN :
             Breaks(~ok) /\ (connections[Direct] # None => ok) /\ ListenWith(Opened(ok))
      BY <2>1 DEF Listen
    <3> DEFINE rec == [version |-> desired.version, ready |-> TRUE]
               e == Opened(ok)
    <3>2. Direct \in Ids /\ rec \in [version : Nat, ready : BOOLEAN] /\ rec # None
      <4>1. desired \in Accounts BY <1>1 DEF Inv, TypeOK
      <4>2. Direct \in Ids /\ desired.version \in Nat BY <4>1, <2>1, AccountIs
      <4>3. rec \in [version : Nat, ready : BOOLEAN] BY <4>2
      <4> HIDE DEF rec
      <4> QED BY <4>2, <4>3, ServiceAssumption DEF ServiceAssumption
    <3>3. /\ e.connections = [connections EXCEPT ![Direct] = IF ok THEN rec ELSE None]
          /\ e.connectors = connectors /\ e.workers = workers
      BY DEF Opened, Left
    <3>4. rec.version = desired.version /\ rec.ready = TRUE OBVIOUS
    <3> HIDE DEF rec, e
    <3>5. e.connections \in TheConnections
      BY <3>2, <3>3, NetworkIs DEF TheConnections, Inv
    <3>6. e.connectors \in TheConnectors /\ e.workers \in TheWorkers
             /\ LinkedIn(e.connectors, e.workers)
      BY <3>3, NetworkIs, LinkedIs DEF Inv
    <3>7. Listened(connections) => Listened(e.connections)
      <4>1. ASSUME ok PROVE e.connections[Direct] = rec
        BY <4>1, <3>2, <3>3, NetworkIs DEF TheConnections, Inv
      <4> QED BY <4>1, <3>1, <3>2, <3>4, <2>1 DEF Listened
    <3>8. script' \in Seq(Orders \cup Accidents) BY <3>1, ScriptIs DEF Inv
    <3>9. ListenWith(e) BY <3>1 DEF e
    <3> QED BY <3>5, <3>6, <3>7, <3>8, <3>9
  <2>2. CASE desired.id # Direct
    <3> DEFINE e == Ensured(desired)
    <3>1. ListenWith(e) /\ UNCHANGED script BY <2>2 DEF Listen
    <3>2. desired \in Accounts BY <1>1 DEF Inv, TypeOK
    <3> HIDE DEF e
    <3>3. /\ e.connections \in TheConnections /\ e.connectors \in TheConnectors
          /\ e.workers \in TheWorkers /\ LinkedIn(e.connectors, e.workers)
          /\ \A i \in Ids : connections[i] # None => e.connections[i] = connections[i]
      BY <3>2, EnsuredIs DEF Inv, e
    <3>4. Listened(connections) => Listened(e.connections)
      BY <3>2, <3>3, AccountIs DEF Listened
    <3>5. script' \in Seq(Orders \cup Accidents) BY <3>1 DEF Inv, TypeOK
    <3> QED BY <3>1, <3>3, <3>4, <3>5
  <2> QED BY <2>1, <2>2
<1>4. /\ connections' = e.connections /\ connectors' = e.connectors /\ workers' = e.workers
      /\ UNCHANGED <<retry, status>> \/ (retry' \in {"short", "day"} /\ status' = "error")
      /\ available' = (available \/ (Listened(e.connections) /\ incoming = None))
  BY <1>3 DEF ListenWith, Leaves
<1>5. TypeOK'
  <2>1. available' \in BOOLEAN BY <1>4 DEF Listened
  <2> QED BY <2>1, <1>1, <1>2, <1>3, <1>4
          DEF Inv, TypeOK, TheConnections, TheConnectors, TheWorkers, given, thread, sends
<1>6. Submitted' = Submitted /\ Engaged' = Engaged
  BY <1>2 DEF Submitted, Engaged, thread
<1>7. waiting = <<>> BY <1>1 DEF Inv, Once
<1>8. Placed' /\ Once' BY <1>2, <1>6, <1>7, PlacesStay DEF Inv, given, thread, sends
<1>9. Room' BY <1>2, <1>6, RoomStays DEF Inv, given, Room, sends
<1>10. Linked' BY <1>3, <1>4, LinkedIs
<1>11. Shown'
  <2>1. Listened(connections)' <=> Listened(e.connections) BY <1>2, <1>4 DEF Listened
  <2>2. available' => desired' # None /\ Listened(connections)'
    BY <2>1, <1>1, <1>2, <1>3, <1>4 DEF Inv, Shown
  <2>3. retry' # "now" => status' # "ready" BY <1>4 DEF Inv, Shown
  <2>4. StatusHonest' BY <1>1 DEF StatusHonest, Sleeping
  <2> QED BY <2>2, <2>3, <2>4 DEF Shown
<1> QED BY <1>5, <1>8, <1>9, <1>10, <1>11 DEF Inv
-----------------------------------------------------------------------------
(* The pending sends: the first one is looked at and finds another place.  *)
LEMMA FirstPending ==
    ASSUME Inv, pending # <<>>, NEW s, s = Head(pending), pending' = Tail(pending)
    PROVE  /\ s \in Sends /\ s \in Submitted /\ account[s] \in Accounts
           /\ pending' \in Seq(Sends) /\ Distinct(pending)'
           /\ Elements(pending) = {s} \cup Elements(pending)' /\ s \notin Elements(pending)'
<1>1. /\ Tail(pending) \in Seq(Sends) /\ s \in Sends
      /\ Elements(pending) = {s} \cup Elements(Tail(pending))
      /\ Distinct(Tail(pending)) /\ s \notin Elements(Tail(pending))
  BY TailIs DEF Inv, TypeOK, Once
<1>2. s \in Submitted BY <1>1 DEF Inv, Placed
<1>3. account[s] \in Accounts
  BY <1>1, <1>2 DEF Inv, TypeOK, Once, Submitted
<1> QED BY <1>1, <1>2, <1>3

LEMMA SendMoves ==
    ASSUME Inv, loop = "prepares", pending # <<>>, NEW s, s = Head(pending),
           pending' = Tail(pending), NEW nat \in {None, "asked"},
           Fails(s) \/ Waits(s, nat) \/ Calls(s),
           UNCHANGED <<given, thread, queue, loop>>
    PROVE  /\ answers' \in [Sends -> Seq({"failed", "refused", "finished"})]
           /\ \A t \in Sends : Len(answers'[t]) <= 1
           /\ mapping' \in [Sends -> {None, "asked"}]
           /\ pending' \in Seq(Sends) /\ waiting' \in Seq(Sends) /\ calls' \subseteq Sends
           /\ (Placed /\ Once /\ Room)'
<1>1. /\ s \in Sends /\ s \in Submitted
      /\ pending' \in Seq(Sends) /\ Distinct(pending)'
      /\ Elements(pending) = {s} \cup Elements(pending)' /\ s \notin Elements(pending)'
  BY FirstPending
<1>2. OnChannel' = OnChannel /\ Submitted' = Submitted /\ OnceOnChannel'
  BY DEF OnChannel, Submitted, thread, Inv, Once, OnceOnChannel
<1>3. /\ s \notin calls /\ s \notin OnChannel /\ s \notin Elements(waiting) /\ s \notin Answered
  BY <1>1 DEF Inv, Placed, Places5
<1>4. \A t \in Sends : account'[t] = None => sender'[t] = "over"
  BY DEF Inv, Once, given, thread
<1>5. CASE Fails(s)
  <2>1. /\ Answer({s}, "failed") /\ mapping' = [mapping EXCEPT ![s] = None]
        /\ UNCHANGED <<waiting, calls>>
    BY <1>5 DEF Fails
  <2>2. /\ answers' \in [Sends -> Seq({"failed", "refused", "finished"})]
        /\ \A t \in Sends : Len(answers'[t]) <= 1
        /\ Answered' = Answered \cup {s}
        /\ \A t \in Sends : answers'[t] = answers[t] \/ answers'[t] = <<"failed">>
    BY <2>1, <1>1, <1>3, AnswerIs DEF Inv
  <2>3. Elements(waiting)' = Elements(waiting) /\ Distinct(waiting)'
    BY <2>1 DEF Elements, Distinct, Inv, Once
  <2>4. mapping' \in [Sends -> {None, "asked"}] BY <2>1 DEF Inv, TypeOK
  <2>5. Placed' BY <1>1, <1>2, <1>3, <2>1, <2>2, <2>3 DEF Inv, Placed, Places5
  <2>6. Once' BY <1>1, <1>2, <1>4, <2>3 DEF Once
  <2>7. Room' BY <2>2, RoomAnswers DEF given, thread
  <2> QED BY <1>1, <2>1, <2>2, <2>4, <2>5, <2>6, <2>7 DEF Inv, TypeOK
<1>6. CASE Waits(s, nat)
  <2>1. /\ waiting' = Append(waiting, s) /\ mapping' = [mapping EXCEPT ![s] = nat]
        /\ UNCHANGED <<calls, answers>>
    BY <1>6 DEF Waits
  <2>2. waiting' \in Seq(Sends) /\ Elements(waiting)' = Elements(waiting) \cup {s}
           /\ Distinct(waiting)'
    <3>1. waiting \in Seq(Sends) /\ Distinct(waiting) BY DEF Inv, TypeOK, Once
    <3>2. /\ Append(waiting, s) \in Seq(Sends)
          /\ Elements(Append(waiting, s)) = Elements(waiting) \cup {s}
          /\ Distinct(Append(waiting, s))
      BY <3>1, <1>1, <1>3, AppendIs
    <3> QED BY <3>2, <2>1
  <2>3. Answered' = Answered BY <2>1 DEF Answered
  <2>4. mapping' \in [Sends -> {None, "asked"}] BY <2>1 DEF Inv, TypeOK
  <2>5. Placed' BY <1>1, <1>2, <1>3, <2>1, <2>2, <2>3 DEF Inv, Placed, Places5
  <2>6. Once' BY <1>1, <1>2, <1>4, <2>2 DEF Once
  <2>7. Room' BY <2>1, RoomAnswers DEF given, thread
  <2> QED BY <1>1, <2>1, <2>2, <2>4, <2>5, <2>6, <2>7 DEF Inv, TypeOK
<1>7. CASE Calls(s)
  <2>1. /\ calls' = calls \cup {s} /\ mapping' = [mapping EXCEPT ![s] = None]
        /\ UNCHANGED <<waiting, answers>>
    BY <1>7 DEF Calls
  <2>2. Elements(waiting)' = Elements(waiting) /\ Distinct(waiting)' /\ Answered' = Answered
    BY <2>1 DEF Elements, Distinct, Inv, Once, Answered
  <2>3. mapping' \in [Sends -> {None, "asked"}] BY <2>1 DEF Inv, TypeOK
  <2>4. Placed' BY <1>1, <1>2, <1>3, <2>1, <2>2 DEF Inv, Placed, Places5
  <2>5. Once' BY <1>1, <1>2, <1>4, <2>2 DEF Once
  <2>6. Room' BY <2>1, RoomAnswers DEF given, thread
  <2> QED BY <1>1, <2>1, <2>3, <2>4, <2>5, <2>6 DEF Inv, TypeOK
<1> QED BY <1>5, <1>6, <1>7

LEMMA PrepareCancelledKeeps ==
    ASSUME Inv, NEW s \in Sends, PrepareCancelled(s)
    PROVE  Inv'
<1>1. /\ loop = "prepares" /\ pending # <<>> /\ s = Head(pending)
      /\ pending' = Tail(pending) /\ Fails(s)
  BY DEF PrepareCancelled
<1>2. UNCHANGED <<given, thread, client, queue, bell, loop, receiver, reconnect,
                  incoming, network>>
  BY DEF PrepareCancelled
<1>3. /\ answers' \in [Sends -> Seq({"failed", "refused", "finished"})]
      /\ \A t \in Sends : Len(answers'[t]) <= 1
      /\ mapping' \in [Sends -> {None, "asked"}]
      /\ pending' \in Seq(Sends) /\ waiting' \in Seq(Sends) /\ calls' \subseteq Sends
      /\ (Placed /\ Once /\ Room)'
  BY <1>1, <1>2, SendMoves
<1>4. TypeOK' BY <1>2, <1>3 DEF Inv, TypeOK, given, thread, client, receiver, network
<1>5. Linked' BY <1>2, LinkedStays DEF Inv, network
<1>6. Shown' BY <1>2, ShownStays DEF Inv, receiver, network
<1> QED BY <1>3, <1>4, <1>5, <1>6 DEF Inv

LEMMA PrepareKeeps ==
    ASSUME Inv, NEW s \in Sends, Prepare(s)
    PROVE  Inv'
<1>1. loop = "prepares" /\ pending # <<>> /\ s = Head(pending) /\ pending' = Tail(pending)
  BY DEF Prepare
<1>2. UNCHANGED <<given, thread, app, queue, bell, loop, receiver, reconnect, incoming>>
  BY DEF Prepare
<1>3. PICK e : e = Ensured(account[s]) /\ Leaves(e) /\ Prepared(s, e) BY DEF Prepare
<1>4. account[s] \in Accounts BY <1>1, FirstPending
<1>5. /\ e.connections \in TheConnections /\ e.connectors \in TheConnectors
      /\ e.workers \in TheWorkers /\ e.ok \in BOOLEAN
      /\ LinkedIn(e.connectors, e.workers)
      /\ \A i \in Ids : connections[i] # None => e.connections[i] = connections[i]
  BY <1>3, <1>4, EnsuredIs DEF Inv
<1>6. connections' = e.connections /\ connectors' = e.connectors /\ workers' = e.workers
  BY <1>3 DEF Leaves
<1>7. /\ Fails(s) \/ Waits(s, "asked") \/ Waits(s, mapping[s]) \/ Calls(s)
      /\ script' = script \/ Breaks(TRUE)
  <2> DEFINE c == e.connections[account[s].id]
             v == account[s].version
  <2>1. CASE ~e.ok BY <2>1, <1>3, <1>5 DEF Prepared
  <2>2. CASE e.ok /\ c # None /\ c.version # v BY <2>2, <1>3, <1>5 DEF Prepared
  <2>3. CASE e.ok /\ c # None /\ c.version = v /\ c.ready BY <2>3, <1>3, <1>5 DEF Prepared
  <2>4. CASE e.ok /\ ~(c # None /\ c.version # v) /\ ~(c # None /\ c.version = v /\ c.ready)
    BY <2>4, <1>3, <1>5 DEF Prepared
  <2> QED BY <2>1, <2>2, <2>3, <2>4, <1>5
<1>8. mapping[s] \in {None, "asked"} BY DEF Inv, TypeOK
<1>9. \E nat \in {None, "asked"} : Fails(s) \/ Waits(s, nat) \/ Calls(s) BY <1>7, <1>8
<1>10. /\ answers' \in [Sends -> Seq({"failed", "refused", "finished"})]
       /\ \A t \in Sends : Len(answers'[t]) <= 1
       /\ mapping' \in [Sends -> {None, "asked"}]
       /\ pending' \in Seq(Sends) /\ waiting' \in Seq(Sends) /\ calls' \subseteq Sends
       /\ (Placed /\ Once /\ Room)'
  BY <1>1, <1>2, <1>9, SendMoves
<1>11. TypeOK'
  <2>1. script' \in Seq(Orders \cup Accidents) BY <1>7, ScriptIs DEF Inv, TypeOK
  <2> QED BY <2>1, <1>2, <1>5, <1>6, <1>10
          DEF Inv, TypeOK, TheConnections, TheConnectors, TheWorkers, given, thread, receiver
<1>12. Linked' BY <1>5, <1>6, LinkedIs
<1>13. Shown'
  <2>1. available => Listened(connections)'
    <3>1. SUFFICES ASSUME available PROVE Listened(connections)' OBVIOUS
    <3>2. desired # None /\ Listened(connections) BY <3>1 DEF Inv, Shown
    <3>3. desired.id \in Ids BY <3>2, AccountIs DEF Inv, TypeOK
    <3>4. connections'[desired.id] = connections[desired.id]
      BY <3>2, <3>3, <1>5, <1>6 DEF Listened
    <3>5. desired' = desired BY <1>2 DEF receiver
    <3> QED BY <3>2, <3>4, <3>5 DEF Listened
  <2>2. StatusHonest' BY <1>1, <1>2 DEF StatusHonest, Sleeping
  <2> QED BY <2>1, <2>2, <1>2 DEF Inv, Shown, receiver
<1> QED BY <1>10, <1>11, <1>12, <1>13 DEF Inv

LEMMA PrepareEndsKeeps ==
    ASSUME Inv, PrepareEnds
    PROVE  Inv'
<1>1. /\ loop = "prepares" /\ loop' = "ticks" /\ pending = <<>>
      /\ pending' = waiting /\ waiting' = <<>>
  BY DEF PrepareEnds
<1>2. UNCHANGED <<given, thread, client, queue, bell, receiver, reconnect,
                  incoming, network, mapping, calls, answers>>
  BY DEF PrepareEnds
<1>3. /\ Elements(pending) = {} /\ Elements(pending)' = Elements(waiting)
      /\ Elements(waiting)' = {} /\ Distinct(pending)' /\ Distinct(waiting)'
      /\ waiting' \in Seq(Sends)
  BY <1>1, NoElements DEF Inv, Once
<1>4. TypeOK'
  BY <1>1, <1>2, <1>3 DEF Inv, TypeOK, given, thread, client, receiver, network
<1>5. Placed'
  <2>1. OnChannel' = OnChannel /\ Submitted' = Submitted /\ Answered' = Answered
           /\ calls' = calls
    BY <1>2 DEF OnChannel, Submitted, Answered, thread
  <2> QED BY <2>1, <1>3 DEF Inv, Placed, Places5
<1>6. Once' BY <1>1, <1>2, <1>3 DEF Inv, Once, OnceOnChannel, given, thread
<1>7. Room' BY <1>2, RoomAnswers DEF given, thread
<1>8. Linked' BY <1>2, LinkedStays DEF Inv, network
<1>9. Shown' BY <1>1, <1>2, ShownStays DEF Inv, receiver, network, Sleeping
<1> QED BY <1>4, <1>5, <1>6, <1>7, <1>8, <1>9 DEF Inv

LEMMA FinishKeeps ==
    ASSUME Inv, NEW s \in Sends, Finish(s)
    PROVE  Inv'
<1>1. loop = "ticks" /\ s \in calls /\ calls' = calls \ {s} /\ Answer({s}, "finished")
  BY DEF Finish
<1>2. UNCHANGED <<given, thread, client, queue, bell, loop, receiver, reconnect,
                  incoming, network, pending, waiting, mapping>>
  BY DEF Finish
<1>3. /\ answers' \in [Sends -> Seq({"failed", "refused", "finished"})]
      /\ \A t \in Sends : Len(answers'[t]) <= 1
      /\ Answered' = Answered \cup {s}
      /\ \A t \in Sends : answers'[t] = answers[t] \/ answers'[t] = <<"finished">>
  <2>1. {s} \cap Answered = {} BY <1>1 DEF Inv, Placed, Places5
  <2> QED BY <2>1, <1>1, AnswerIs DEF Inv
<1>4. TypeOK'
  BY <1>1, <1>2, <1>3 DEF Inv, TypeOK, given, thread, client, receiver, network
<1>5. Placed'
  <2>1. /\ OnChannel' = OnChannel /\ Submitted' = Submitted
        /\ Elements(pending)' = Elements(pending) /\ Elements(waiting)' = Elements(waiting)
    BY <1>2 DEF OnChannel, Submitted, Elements, thread
  <2> QED BY <2>1, <1>1, <1>3 DEF Inv, Placed, Places5
<1>6. Once' BY <1>2 DEF Inv, Once, OnceOnChannel, Distinct, given, thread
<1>7. Room' BY <1>2, <1>3, RoomAnswers DEF given, thread
<1>8. Linked' BY <1>2, LinkedStays DEF Inv, network
<1>9. Shown' BY <1>1, <1>2, ShownStays DEF Inv, receiver, network
<1> QED BY <1>4, <1>5, <1>6, <1>7, <1>8, <1>9 DEF Inv

LEMMA IncomingGoesOnKeeps ==
    ASSUME Inv, IncomingGoesOn
    PROVE  Inv'
<1>1. loop = "ticks" /\ incoming # None BY DEF IncomingGoesOn
<1>2. UNCHANGED <<given, thread, client, queue, bell, loop, receiver, reconnect,
                  network, sends>>
  BY DEF IncomingGoesOn
<1>3. incoming' \in [of : Ids, stage : {"offered", "running"}] \cup {None}
  <2>1. incoming \in [of : Ids, stage : {"offered", "running"}] BY <1>1 DEF Inv, TypeOK
  <2> QED BY <2>1 DEF IncomingGoesOn
<1>4. TypeOK' BY <1>2, <1>3 DEF Inv, TypeOK, given, thread, client, receiver, network, sends
<1>5. Linked' BY <1>2, LinkedStays DEF Inv, network
<1>6. loop' \notin Sleeping BY <1>1, <1>2 DEF Sleeping
<1> QED BY <1>1, <1>2, <1>4, <1>5, <1>6, LoopKeeps DEF Inv, receiver, network, sends

(* What is shown is ready only with a free slot, and a free slot is one of *)
(* a connection in use, which is kept.                                     *)
LEMMA StateIs ==
    ASSUME Inv
    PROVE  /\ State \in {None, "error", "receiving", "off", "ready", "registering"}
           /\ State = "ready" => retry = "now" /\ (incoming = None => available)
           /\ desired = None /\ incoming = None => State = "off"
<1>1. CASE incoming # None
  <2>1. State = "receiving" BY <1>1 DEF State
  <2> QED BY <2>1, <1>1
<1>2. CASE incoming = None /\ desired = None
  <2>1. State = "off" BY <1>2 DEF State
  <2> QED BY <2>1
<1>3. CASE incoming = None /\ desired # None /\ retry # "now"
  <2>1. State = status BY <1>3 DEF State
  <2> QED BY <2>1, <1>3 DEF Inv, TypeOK, Shown
<1>4. CASE incoming = None /\ desired # None /\ retry = "now" /\ available
  <2>1. State = "ready" BY <1>4 DEF State
  <2> QED BY <2>1, <1>4
<1>5. CASE incoming = None /\ desired # None /\ retry = "now" /\ ~available
  <2>1. State = "registering" BY <1>5 DEF State
  <2> QED BY <2>1, <1>5
<1> QED BY <1>1, <1>2, <1>3, <1>4, <1>5

LEMMA TidyUpKeeps ==
    ASSUME Inv, TidyUp
    PROVE  Inv'
<1>1. /\ loop = "ticks" /\ status' = State
      /\ connectors' = [i \in Ids |-> IF i \in Forsaken THEN None ELSE connectors[i]]
      /\ workers' = Cut(Forsaken)
      /\ connections' = [i \in Ids |-> IF Busy(i) THEN connections[i] ELSE None]
      /\ loop' = Depth'
  BY DEF TidyUp
<1>2. UNCHANGED <<given, thread, client, queue, bell, desired, retry, available,
                  reconnect, incoming, sends>>
  BY DEF TidyUp
<1>3. Submitted' = Submitted /\ Engaged' = Engaged
  BY <1>2 DEF Submitted, Engaged, thread
<1>4. loop' \in {"rests", "dozes", "sleeps"} BY <1>1 DEF Depth
<1>5. workers' \in TheWorkers /\ LinkedIn(connectors', workers')
  <2>1. Forsaken \in SUBSET Ids BY DEF Forsaken
  <2>2. \A i \in Ids \ Forsaken : connectors'[i] = connectors[i] BY <1>1
  <2> QED BY <2>1, <2>2, <1>1, CutIs DEF Inv
<1>6. TypeOK'
  <2>1. connections' \in [Ids -> [version : Nat, ready : BOOLEAN] \cup {None}]
    BY <1>1 DEF Inv, TypeOK
  <2>2. connectors' \in [Ids -> [version : Nat, result : {None, "good", "bad"}] \cup {None}]
    BY <1>1 DEF Inv, TypeOK
  <2>3. status' \in {None, "error", "receiving", "off", "ready", "registering"}
    BY <1>1, StateIs
  <2> QED BY <2>1, <2>2, <2>3, <1>2, <1>4, <1>5
          DEF Inv, TypeOK, TheWorkers, given, thread, client, sends
<1>7. Placed' /\ Once'
  BY <1>1, <1>2, <1>3, PlacesStay DEF Inv, given, thread, sends
<1>8. Room' BY <1>2, <1>3, RoomStays DEF Inv, given, Room, sends
<1>9. Linked' BY <1>5, LinkedIs
<1>10. Shown'
  <2>1. available => desired # None /\ Listened(connections')
    <3>1. ASSUME available
          PROVE  desired # None /\ connections'[desired.id] = connections[desired.id]
      <4>1. desired # None BY <3>1 DEF Inv, Shown
      <4>2. desired.id \in Ids BY <4>1, AccountIs DEF Inv, TypeOK
      <4>3. Busy(desired.id) BY <4>1 DEF Busy, Used
      <4> QED BY <4>1, <4>2, <4>3, <1>1
    <3> QED BY <3>1 DEF Inv, Shown, Listened
  <2>2. Listened(connections)' <=> Listened(connections')
    BY <1>2 DEF Listened
  <2>3. /\ status' = "ready" => retry = "now" /\ (incoming = None => available)
        /\ desired = None /\ incoming = None => status' = "off"
    BY <1>1, StateIs
  <2> QED BY <2>1, <2>2, <2>3, <1>2 DEF Shown, StatusHonest
<1> QED BY <1>6, <1>7, <1>8, <1>9, <1>10 DEF Inv
-----------------------------------------------------------------------------
(* Asleep and awake. *)
LEMMA ResumeKeeps ==
    ASSUME Inv, Resume
    PROVE  Inv'
<1>1. loop = "rests" /\ loop' = "commands" BY DEF Resume
<1>2. UNCHANGED <<given, thread, client, queue, bell, receiver, reconnect,
                  incoming, network, sends>>
  BY DEF Resume
<1>3. TypeOK' BY <1>1, <1>2 DEF Inv, TypeOK, given, thread, client, receiver, network, sends
<1>4. Linked' BY <1>2, LinkedStays DEF Inv, network
<1>5. loop' \notin Sleeping BY <1>1 DEF Sleeping
<1> QED BY <1>1, <1>2, <1>3, <1>4, <1>5, LoopKeeps DEF Inv, receiver, network, sends

(* Whatever wakes the loop, it does not sleep afterwards.                  *)
LEMMA WakesUpKeeps ==
    ASSUME Inv, WakesUp, available' => available, bell' \in BOOLEAN,
           retry' = retry \/ (loop = "dozes" /\ retry' \in {"short", "now"} /\ retry = "short"),
           incoming' \in [of : Ids, stage : {"offered", "running"}] \cup {None},
           available' \in BOOLEAN, script' \in Seq(Orders \cup Accidents)
    PROVE  Inv'
<1>1. loop \in Sleeping /\ loop' \in {"commands", "late"} BY DEF WakesUp, Sleeping
<1>2. UNCHANGED <<given, thread, app, queue, desired, status, reconnect, network, sends>>
  BY DEF WakesUp
<1>3. Submitted' = Submitted /\ Engaged' = Engaged
  BY <1>2 DEF Submitted, Engaged, thread
<1>4. loop # "prepares" /\ loop' \notin Sleeping BY <1>1 DEF Sleeping
<1>5. TypeOK' BY <1>1, <1>2 DEF Inv, TypeOK, given, thread, network, sends
<1>6. Placed' /\ Once'
  BY <1>2, <1>3, <1>4, PlacesStay DEF Inv, given, thread, sends
<1>7. Room' BY <1>2, <1>3, RoomStays DEF Inv, given, Room, sends
<1>8. Linked' BY <1>2, LinkedStays DEF Inv, network
<1>9. Shown'
  <2>1. Listened(connections)' <=> Listened(connections) BY <1>2 DEF Listened, network
  <2>2. retry' # "now" => retry # "now" OBVIOUS
  <2>3. StatusHonest' BY <1>4 DEF StatusHonest
  <2> QED BY <2>1, <2>2, <2>3, <1>2 DEF Inv, Shown
<1> QED BY <1>5, <1>6, <1>7, <1>8, <1>9 DEF Inv

LEMMA WokenByBellKeeps ==
    ASSUME Inv, WokenByBell
    PROVE  Inv'
<1>1. WakesUp /\ bell' = FALSE /\ UNCHANGED <<retry, available, incoming, script>>
  BY DEF WokenByBell
<1> QED BY <1>1, WakesUpKeeps DEF Inv, TypeOK

LEMMA WokenByDeadlineKeeps ==
    ASSUME Inv, WokenByDeadline
    PROVE  Inv'
<1>1. /\ loop = "dozes" /\ WakesUp /\ UNCHANGED <<bell, available, incoming, script>>
      /\ retry' \in IF retry = "short" THEN {"short", "now"} ELSE {retry}
  BY DEF WokenByDeadline
<1> QED BY <1>1, WakesUpKeeps DEF Inv, TypeOK

LEMMA InviteKeeps ==
    ASSUME Inv, Invite
    PROVE  Inv'
<1>1. /\ Happens("invite") /\ available /\ WakesUp /\ available' \in BOOLEAN
      /\ incoming' = [of |-> desired.id, stage |-> "offered"]
      /\ UNCHANGED <<bell, retry>>
  BY DEF Invite
<1>2. desired \in Accounts BY <1>1 DEF Inv, Shown, TypeOK
<1>3. incoming' \in [of : Ids, stage : {"offered", "running"}]
  BY <1>1, <1>2, AccountIs
<1>4. script' \in Seq(Orders \cup Accidents) BY <1>1, ScriptIs DEF Inv
<1> QED BY <1>1, <1>3, <1>4, WakesUpKeeps DEF Inv, TypeOK

LEMMA SuspendKeeps ==
    ASSUME Inv, Suspend
    PROVE  Inv'
<1>1. Happens("suspend") /\ loop \in Sleeping /\ loop' = "resumed" BY DEF Suspend
<1>2. UNCHANGED <<given, thread, app, queue, bell, receiver, reconnect,
                  incoming, network, sends>>
  BY DEF Suspend
<1>3. script' \in Seq(Orders \cup Accidents) BY <1>1, ScriptIs DEF Inv
<1>4. TypeOK' BY <1>1, <1>2, <1>3 DEF Inv, TypeOK, given, thread, receiver, network, sends
<1>5. Linked' BY <1>2, LinkedStays DEF Inv, network
<1>6. loop' \notin Sleeping /\ loop # "prepares" BY <1>1 DEF Sleeping
<1> QED BY <1>2, <1>4, <1>5, <1>6, LoopKeeps DEF Inv, receiver, network, sends
-----------------------------------------------------------------------------
(* The invariant holds to begin with, and every step keeps it.             *)
LEMMA InitInv ==
    ASSUME Init
    PROVE  Inv
<1>1. PICK c \in Cases :
         /\ limit = c.limit /\ account = c.account /\ script = c.script
         /\ desired = c.receiver
         /\ loop = IF c.receiver = None THEN "starting" ELSE "commands"
  BY DEF Init
<1>2. /\ limit \in Nat \ {0} /\ account \in [Sends -> Accounts \cup {None}]
      /\ script \in Seq(Orders \cup Accidents) /\ desired \in Accounts \cup {None}
      /\ loop \in {"starting", "commands"}
  BY <1>1, ServiceAssumption DEF ServiceAssumption
<1>3. /\ sender = [s \in Sends |-> IF account[s] = None THEN "over" ELSE "idle"]
      /\ answers = [s \in Sends |-> <<>>]
      /\ calls = {} /\ queue = <<>> /\ pending = <<>> /\ waiting = <<>>
      /\ retry = "now" /\ reconnect = FALSE /\ available = FALSE /\ incoming = None
      /\ status = None /\ app = "free" /\ bell = FALSE
      /\ connections = [i \in Ids |-> None] /\ connectors = [i \in Ids |-> None]
      /\ workers = [w \in Slots |-> None] /\ mapping = [s \in Sends |-> None]
      /\ canceller = [s \in Sends |-> "idle"]
  BY DEF Init
<1>4. TypeOK
  <2>1. /\ queue \in Seq(Commands) /\ pending \in Seq(Sends) /\ waiting \in Seq(Sends)
        /\ answers \in [Sends -> Seq({"failed", "refused", "finished"})]
        /\ \A s \in Sends : Len(answers[s]) <= 1
    BY <1>3
  <2>2. sender \in [Sends -> {"idle", "hooking", "submitting", "ringing", "waiting", "over"}]
    BY <1>3
  <2>3. /\ connections \in [Ids -> [version : Nat, ready : BOOLEAN] \cup {None}]
        /\ connectors \in [Ids -> [version : Nat, result : {None, "good", "bad"}] \cup {None}]
    BY <1>3
  <2>4. workers \in [Slots -> [stage : {"running", "sent", "rung", "over"}, of : Ids,
                              stop : BOOLEAN] \cup {None}]
    BY <1>3
  <2>5. mapping \in [Sends -> {None, "asked"}]
    BY <1>3
  <2>6. canceller \in [Sends -> {"idle", "flagged", "ringing", "done"}]
    BY <1>3
  <2> QED BY <1>2, <1>3, <2>1, <2>2, <2>3, <2>4, <2>5, <2>6 DEF TypeOK
<1>5. \A s \in Sends : sender[s] = (IF account[s] = None THEN "over" ELSE "idle")
                          /\ answers[s] = <<>>
  BY <1>3
<1>6. Placed
  <2>1. Submitted = {} /\ Answered = {} BY <1>5 DEF Submitted, Answered
  <2>2. OnChannel = {} BY <1>3 DEF OnChannel
  <2> QED BY <2>1, <2>2, <1>3 DEF Placed, Places5, Elements
<1>7. Once BY <1>3, <1>5 DEF Once, OnceOnChannel, Distinct
<1>8. Room
  <2>1. Engaged = {} BY <1>5 DEF Engaged
  <2>2. Cardinality(Engaged) <= limit BY <2>1, <1>2, FS_EmptySet
  <2>3. <<>> # <<"refused">> OBVIOUS
  <2> QED BY <1>5, <2>2, <2>3 DEF Room
<1>9. Linked BY <1>3 DEF Linked, At
<1>10. Shown BY <1>2, <1>3 DEF Shown, StatusHonest, Sleeping
<1> QED BY <1>4, <1>6, <1>7, <1>8, <1>9, <1>10 DEF Inv

LEMMA NothingKeeps ==
    ASSUME Inv, UNCHANGED vars
    PROVE  Inv'
<1>1. UNCHANGED <<given, thread, client, queue, bell, loop, receiver, reconnect,
                  incoming, network, sends>>
  BY DEF vars
<1>2. TypeOK' BY <1>1 DEF Inv, TypeOK, given, thread, client, receiver, network, sends
<1>3. Submitted' = Submitted /\ Engaged' \subseteq Engaged
         /\ \A s \in Sends : sender[s] = "over" => sender'[s] = "over"
  BY <1>1 DEF Submitted, Engaged, thread
<1> QED BY <1>1, <1>2, <1>3, OthersKeep DEF Inv, sends

LEMMA NextInv ==
    ASSUME Inv, [Next]_vars
    PROVE  Inv'
<1>1. CASE UNCHANGED vars BY <1>1, NothingKeeps
<1>2. ASSUME NEW s \in Sends, Sender(s) PROVE Inv'
  BY <1>2, SendStartsKeeps, SendHookedKeeps, SubmitKeeps, SubmitRingsKeeps, SendReturnsKeeps
     DEF Sender
<1>3. ASSUME NEW s \in Sends, Cancel(s) \/ Canceller(s) PROVE Inv'
  BY <1>3, CancelKeeps, CancelLooksKeeps, CancelRingsKeeps DEF Canceller
<1>4. ASSUME NEW w \in Slots, Worker(w) PROVE Inv'
  BY <1>4, WorkerSendsKeeps, WorkerRingsKeeps, WorkerEndsKeeps DEF Worker
<1>5. CASE Loop
  <2>1. CASE Starts \/ Interrupt \/ TakeConfigure \/ TakeReconnect \/ TakeSend \/ TakeStop
    BY <2>1, StartsKeeps, InterruptKeeps, TakeConfigureKeeps, TakeReconnectKeeps,
       TakeSendKeeps, TakeStopKeeps
  <2>2. CASE Gone \/ CommandsEnd \/ Poll \/ ListenLater \/ Withdraw \/ Listen
    BY <2>2, GoneKeeps, CommandsEndKeeps, PollKeeps, ListenLaterKeeps, WithdrawKeeps,
       ListenKeeps
  <2>3. CASE \E s \in Sends : PrepareCancelled(s) \/ Prepare(s)
    BY <2>3, PrepareCancelledKeeps, PrepareKeeps
  <2>4. CASE PrepareEnds \/ TidyUp \/ Resume \/ WokenByBell \/ WokenByDeadline
    BY <2>4, PrepareEndsKeeps, TidyUpKeeps, ResumeKeeps, WokenByBellKeeps,
       WokenByDeadlineKeeps
  <2> QED BY <1>5, <2>1, <2>2, <2>3, <2>4 DEF Loop
<1>6. ASSUME NEW s \in Sends, Finish(s) PROVE Inv' BY <1>6, FinishKeeps
<1>7. CASE LoopBreaks \/ IncomingGoesOn \/ Invite \/ Suspend
  BY <1>7, LoopBreaksKeeps, IncomingGoesOnKeeps, InviteKeeps, SuspendKeeps
<1>8. CASE Order \/ OrderRings BY <1>8, OrderKeeps, OrderRingsKeeps
<1> QED BY <1>1, <1>2, <1>3, <1>4, <1>5, <1>6, <1>7, <1>8 DEF Next

(* How often a fax is in a sequence that holds nothing twice.              *)
LEMMA TimesIn ==
    ASSUME NEW S, NEW q \in Seq(S), Distinct(q), NEW s
    PROVE  Cardinality({n \in DOMAIN q : q[n] = s}) = IF s \in Elements(q) THEN 1 ELSE 0
<1> DEFINE places == {n \in DOMAIN q : q[n] = s}
<1>1. DOMAIN q = 1..Len(q) OBVIOUS
<1>2. CASE s \in Elements(q)
  <2>1. PICK m \in 1..Len(q) : q[m] = s BY <1>2 DEF Elements
  <2>2. places = {m} BY <2>1, <1>1 DEF Distinct
  <2> HIDE DEF places
  <2>3. Cardinality(places) = 1 BY <2>2, FS_Singleton
  <2> QED BY <2>3, <1>2 DEF places
<1>3. CASE s \notin Elements(q)
  <2>1. places = {} BY <1>3, <1>1 DEF Elements
  <2> HIDE DEF places
  <2>2. Cardinality(places) = 0 BY <2>1, FS_EmptySet
  <2> QED BY <2>2, <1>3 DEF places
<1> QED BY <1>2, <1>3

LEMMA TimesOnChannel ==
    ASSUME TypeOK, OnceOnChannel, NEW s \in Sends
    PROVE  Cardinality({n \in DOMAIN queue : queue[n].of = s}) = IF s \in OnChannel THEN 1 ELSE 0
<1> DEFINE places == {n \in DOMAIN queue : queue[n].of = s}
<1>1. DOMAIN queue = 1..Len(queue) BY DEF TypeOK
<1>2. CASE s \in OnChannel
  <2>1. PICK m \in 1..Len(queue) : queue[m].of = s BY <1>1, <1>2 DEF OnChannel
  <2>2. places = {m} BY <2>1, <1>1 DEF OnceOnChannel
  <2> HIDE DEF places
  <2>3. Cardinality(places) = 1 BY <2>2, FS_Singleton
  <2> QED BY <2>3, <1>2 DEF places
<1>3. CASE s \notin OnChannel
  <2>1. places = {} BY <1>3, <1>1 DEF OnChannel
  <2> HIDE DEF places
  <2>2. Cardinality(places) = 0 BY <2>1, FS_EmptySet
  <2> QED BY <2>2, <1>3 DEF places
<1> QED BY <1>2, <1>3

LEMMA PlacesAreOne ==
    ASSUME Inv, NEW s \in Sends, sender[s] \in {"ringing", "waiting"}
    PROVE  Places(s) = 1
<1> DEFINE a == Len(answers[s])
           c == IF s \in calls THEN 1 ELSE 0
           q == Cardinality({n \in DOMAIN queue : queue[n].of = s})
           p == Cardinality({n \in DOMAIN pending : pending[n] = s})
           w == Cardinality({n \in DOMAIN waiting : waiting[n] = s})
<1>1. q = IF s \in OnChannel THEN 1 ELSE 0 BY TimesOnChannel DEF Inv, Once
<1>2. p = IF s \in Elements(pending) THEN 1 ELSE 0 BY TimesIn DEF Inv, Once, TypeOK
<1>3. w = IF s \in Elements(waiting) THEN 1 ELSE 0 BY TimesIn DEF Inv, Once, TypeOK
<1>4. a = IF s \in Answered THEN 1 ELSE 0
  <2>1. a \in Nat /\ a <= 1 /\ (a = 0 <=> answers[s] = <<>>) BY DEF Inv, TypeOK
  <2> HIDE DEF a
  <2> QED BY <2>1 DEF Answered
<1>5. c = IF s \in calls THEN 1 ELSE 0 OBVIOUS
<1>6. Places(s) = a + c + q + p + w BY DEF Places
<1>7. s \in Submitted BY DEF Submitted
<1> HIDE DEF a, c, q, p, w
<1>8. a + c + q + p + w = 1
  BY <1>1, <1>2, <1>3, <1>4, <1>5, <1>7 DEF Inv, Placed, Places5
<1> QED BY <1>6, <1>8
-----------------------------------------------------------------------------
(* Where the submitted faxes are, how many senders are at work, whose the  *)
(* connectors and the free slots are: the invariant that the theorems      *)
(* below rest on.                                                          *)
THEOREM Invariant == Spec => []Inv
<1>1. Init => Inv BY InitInv
<1>2. Inv /\ [Next]_vars => Inv' BY NextInv
<1> QED BY <1>1, <1>2, PTL DEF Spec

(* Every variable of the service keeps its type; no fax is answered twice. *)
THEOREM TypeCorrect == Spec => []TypeOK
<1>1. Inv => TypeOK BY DEF Inv
<1> QED BY <1>1, Invariant, PTL

(* service_loop and SipSender::send: whatever fails, stops, is cancelled   *)
(* or interrupted, a submitted fax is in exactly one place, on the         *)
(* channel, among the pending or the waiting ones, in a call or answered,  *)
(* for any number of faxes, accounts and commands.                         *)
THEOREM SendsAreKept == Spec => []SendKept
<1>1. Inv => SendKept BY PlacesAreOne DEF Inv, SendKept
<1> QED BY <1>1, Invariant, PTL

(* Command::Send: as long as the engine counts its transmissions, the      *)
(* service, which counts its calls, never lacks the room for one of them,  *)
(* for any limit.                                                          *)
THEOREM RoomForAll == Spec => []CapacityAgrees
<1>1. Inv => CapacityAgrees BY DEF Inv, Room, CapacityAgrees
<1> QED BY <1>1, Invariant, PTL

(* The Status events: a receiver that is shown as ready while the loop     *)
(* sleeps has a free slot on the registered connection of its own account. *)
THEOREM StatusIsHonest == Spec => []StatusHonest
<1>1. Inv => StatusHonest BY DEF Inv, Shown
<1> QED BY <1>1, Invariant, PTL
-----------------------------------------------------------------------------
(* What service_loop promises those who send (module Transmission): how a  *)
(* step may move a fax, and that every step moves every fax like that.     *)
Moves(s) ==
    /\ sender[s] = "over" => sender'[s] = "over"
    /\ s \in Submitted => s \in Submitted' \/ (s \in Answered /\ sender'[s] = "over")
    /\ s \in Submitted' => s \in Submitted \/ s \in OnChannel'
    /\ s \in calls => s \in calls' \/ s \in Answered'
    /\ s \in Answered /\ s \in Submitted' => answers'[s] = answers[s]
    /\ s \in Answered' /\ s \notin calls \cup Answered => answers'[s] = <<"failed">>

(* The only answers are that a call has ended and that a fax failed.       *)
LEMMA AnswerHead ==
    ASSUME TypeOK, Room, NEW s \in Sends, s \in Answered
    PROVE  answers[s] = <<Head(answers[s])>> /\ Head(answers[s]) \in {"failed", "finished"}
<1> DEFINE q == answers[s]
<1>1. /\ q \in Seq({"failed", "refused", "finished"}) /\ Len(q) <= 1 /\ q # <<>>
      /\ q # <<"refused">>
  BY DEF TypeOK, Room, Answered
<1> HIDE DEF q
<1>2. Len(q) = 1 /\ q[1] \in {"failed", "refused", "finished"} /\ Head(q) = q[1] BY <1>1
<1>3. q = <<q[1]>> BY <1>1, <1>2
<1>4. q[1] # "refused" BY <1>1, <1>3
<1> QED BY <1>2, <1>3, <1>4 DEF q

(* Where a fax is, by the place it is in.                                  *)
StageFits(s) ==
    /\ sender[s] = "over" => Stage(s) = "over"
    /\ sender[s] # "over" /\ s \notin Submitted => Stage(s) = "idle"
    /\ s \in Submitted => sender[s] # "over" /\ (s \in calls => s \notin Answered)
    /\ s \in calls => Stage(s) = "calling"
    /\ s \in Answered /\ s \in Submitted =>
          answers[s] = <<Stage(s)>> /\ Stage(s) \in {"failed", "finished"}
    /\ s \in Submitted \ (calls \cup Answered) => Stage(s) = "submitted"
    /\ s \in calls \cup Answered \cup OnChannel => s \in Submitted
    /\ s \in OnChannel => s \notin calls \cup Answered

LEMMA StageOf ==
    ASSUME Inv, NEW s \in Sends
    PROVE  StageFits(s)
<1>1. s \in calls \cup Answered \cup OnChannel => s \in Submitted BY DEF Inv, Placed
<1>2. /\ s \in Answered => s \notin calls
      /\ s \in OnChannel => s \notin calls \cup Answered
  BY DEF Inv, Placed, Places5
<1>3. s \in Submitted \ (calls \cup Answered) => s \in OnChannel \cup Queued
  BY QueuedIs DEF Inv, Placed
<1>4. s \in Submitted <=> sender[s] \in {"ringing", "waiting"} BY DEF Submitted
<1>5. s \in Answered => answers[s] = <<Head(answers[s])>>
                          /\ Head(answers[s]) \in {"failed", "finished"}
  BY AnswerHead DEF Inv
<1>6. s \in Answered <=> answers[s] # <<>> BY DEF Answered
<1>7. CASE s \notin Submitted BY <1>1, <1>4, <1>7 DEF Stage, StageFits
<1>8. CASE s \in calls BY <1>1, <1>2, <1>4, <1>8 DEF Stage, StageFits
<1>9. CASE s \in Submitted /\ s \in Answered
  BY <1>1, <1>2, <1>4, <1>5, <1>6, <1>9 DEF Stage, StageFits
<1>10. CASE s \in Submitted \ (calls \cup Answered)
  BY <1>1, <1>2, <1>3, <1>4, <1>6, <1>10 DEF Stage, StageFits
<1> QED BY <1>7, <1>8, <1>9, <1>10

(* Moved like that, a fax goes where Transmission lets it go.              *)
LEMMA MovesFollow ==
    ASSUME NEW s \in Sends, StageFits(s), StageFits(s)', Moves(s)
    PROVE  Stage(s)' \in Promise!Follows(Stage(s))
<1> DEFINE a == Stage(s)
           b == Stage(s)'
<1>1. CASE sender[s] = "over"
  <2>1. a = "over" /\ b = "over" BY <1>1 DEF StageFits, Moves
  <2> QED BY <2>1 DEF Promise!Follows
<1>2. CASE sender[s] # "over" /\ s \notin Submitted
  <2>1. a = "idle" /\ b \in {"idle", "submitted", "over"} BY <1>2 DEF StageFits, Moves
  <2> QED BY <2>1 DEF Promise!Follows
<1>3. CASE s \in calls
  <2>1. a = "calling" /\ b \in {"calling", "finished", "failed"} BY <1>3 DEF StageFits, Moves
  <2> QED BY <2>1 DEF Promise!Follows
<1>4. CASE s \in Submitted /\ s \in Answered
  <2>1. a \in {"failed", "finished"} /\ answers[s] = <<a>> BY <1>4 DEF StageFits
  <2>2. b \in {a, "over"}
    <3>1. CASE s \in Submitted'
      <4>1. answers'[s] = <<a>> /\ s \in Answered'
        BY <1>4, <2>1, <3>1 DEF Moves, Answered
      <4>2. answers'[s] = <<b>> BY <3>1, <4>1 DEF StageFits
      <4>3. a = b BY <4>1, <4>2
      <4> QED BY <4>3
    <3>2. CASE s \notin Submitted' BY <1>4, <3>2 DEF StageFits, Moves
    <3> QED BY <3>1, <3>2
  <2> QED BY <2>1, <2>2 DEF Promise!Follows
<1>5. CASE s \in Submitted \ (calls \cup Answered)
  <2>1. a = "submitted" BY <1>5 DEF StageFits
  <2>2. s \in Submitted' BY <1>5 DEF Moves
  <2>3. CASE s \in Answered'
    <3>1. answers'[s] = <<"failed">> /\ answers'[s] = <<b>>
      BY <1>5, <2>2, <2>3 DEF StageFits, Moves
    <3>2. b = "failed" BY <3>1
    <3> QED BY <2>1, <3>2 DEF Promise!Follows
  <2>4. CASE s \notin Answered'
    <3>1. b \in {"calling", "submitted"} BY <2>2, <2>4 DEF StageFits
    <3> QED BY <2>1, <3>1 DEF Promise!Follows
  <2> QED BY <2>3, <2>4
<1> QED BY <1>1, <1>2, <1>3, <1>4, <1>5 DEF StageFits

(* Steps that answer nobody and end no call. *)
LEMMA MovesQuietly ==
    ASSUME Inv, NEW s \in Sends, UNCHANGED answers, calls \subseteq calls',
           Submitted' = Submitted, sender[s] = "over" => sender'[s] = "over"
    PROVE  Moves(s)
  BY DEF Moves, Answered

(* Steps that answer some of those who have no answer, or end calls.       *)
LEMMA MovesAnswered ==
    ASSUME Inv, NEW s \in Sends, NEW set \in SUBSET Sends, set \cap Answered = {},
           NEW how \in {"failed", "finished"}, Answer(set, how),
           how = "finished" => set \subseteq calls,
           calls \subseteq calls' \cup set, UNCHANGED sender
    PROVE  Moves(s)
<1>1. Answered' = Answered \cup set
         /\ \A t \in Sends : answers'[t] = answers[t] \/ answers'[t] = <<how>>
  BY AnswerIs DEF Inv
<1>2. Submitted' = Submitted BY DEF Submitted
<1>3. \A t \in Sends \ set : answers'[t] = answers[t] BY DEF Answer
<1>4. s \in Answered => answers'[s] = answers[s] BY <1>3
<1>5. s \in Answered' /\ s \notin calls \cup Answered => answers'[s] = <<"failed">>
  <2> SUFFICES ASSUME s \in set, s \notin calls \cup Answered PROVE answers'[s] = <<"failed">>
    BY <1>1
  <2>1. how = "failed" /\ answers[s] = <<>> BY DEF Answered
  <2>2. answers'[s] = Append(<<>>, how) BY <2>1 DEF Answer
  <2>3. Append(<<>>, how) = <<how>> OBVIOUS
  <2> QED BY <2>1, <2>2, <2>3
<1> QED BY <1>1, <1>2, <1>4, <1>5 DEF Moves

LEMMA MovesSender ==
    ASSUME Inv, NEW s \in Sends, NEW t \in Sends, Sender(t)
    PROVE  Moves(s)
<1>1. CASE SendStarts(t) \/ SendHooked(t) \/ SubmitRings(t)
  <2>1. /\ \E w \in {"hooking", "submitting", "waiting"} : sender' = [sender EXCEPT ![t] = w]
        /\ sender[t] # "over" /\ UNCHANGED <<calls, answers>>
    BY <1>1 DEF SendStarts, SendHooked, SubmitRings, sends
  <2>2. Submitted' = Submitted
    <3>1. CASE SendStarts(t)
      <4>1. sender' = [sender EXCEPT ![t] = "hooking"] /\ sender[t] = "idle"
        BY <3>1 DEF SendStarts
      <4> QED BY <4>1 DEF Submitted, Inv, TypeOK
    <3>2. CASE SendHooked(t)
      <4>1. sender' = [sender EXCEPT ![t] = "submitting"] /\ sender[t] = "hooking"
        BY <3>2 DEF SendHooked
      <4> QED BY <4>1 DEF Submitted, Inv, TypeOK
    <3>3. CASE SubmitRings(t)
      <4>1. sender' = [sender EXCEPT ![t] = "waiting"] /\ sender[t] = "ringing"
        BY <3>3 DEF SubmitRings
      <4> QED BY <4>1 DEF Submitted, Inv, TypeOK
    <3> QED BY <1>1, <3>1, <3>2, <3>3
  <2>3. sender[s] = "over" => sender'[s] = "over" BY <2>1 DEF Inv, TypeOK
  <2> QED BY <2>1, <2>2, <2>3, MovesQuietly
<1>2. CASE Submit(t)
  <2>1. UNCHANGED <<calls, answers>> /\ sender[t] = "submitting" BY <1>2 DEF Submit, sends
  <2>2. CASE sender' = [sender EXCEPT ![t] = "over"]
    <3>1. Submitted' = Submitted /\ (sender[s] = "over" => sender'[s] = "over")
      BY <2>1, <2>2 DEF Submitted, Inv, TypeOK
    <3> QED BY <2>1, <3>1, MovesQuietly
  <2>3. CASE /\ sender' = [sender EXCEPT ![t] = "ringing"]
             /\ queue' = Append(queue, [what |-> "send", of |-> t])
    <3> DEFINE c == [what |-> "send", of |-> t]
    <3>1. t \notin Submitted /\ Submitted' = Submitted \cup {t}
             /\ (sender[s] = "over" => sender'[s] = "over")
      BY <2>1, <2>3 DEF Submitted, Inv, TypeOK
    <3>2. c \in Commands /\ c.of = t BY DEF Commands
    <3>3. t \notin OnChannel /\ t \notin Answered BY <3>1 DEF Inv, Placed
    <3>4. queue' = Append(queue, c) BY <2>3
    <3> HIDE DEF c
    <3>5. OnChannel' = OnChannel \cup {t}
      BY <3>2, <3>3, <3>4, ChannelAppend DEF Inv, Once
    <3>6. Answered' = Answered BY <2>1 DEF Answered
    <3> QED BY <2>1, <3>1, <3>5, <3>6 DEF Moves
  <2> QED BY <1>2, <2>2, <2>3 DEF Submit
<1>3. CASE SendReturns(t)
  <2>1. /\ sender' = [sender EXCEPT ![t] = "over"] /\ sender[t] = "waiting"
        /\ answers' = [answers EXCEPT ![t] = Tail(answers[t])] /\ answers[t] # <<>>
        /\ calls' = calls
    BY <1>3 DEF SendReturns
  <2>2. /\ Submitted' = Submitted \ {t} /\ t \in Submitted /\ t \in Answered
        /\ sender[s] = "over" => sender'[s] = "over"
        /\ sender'[t] = "over"
    BY <2>1 DEF Submitted, Answered, Inv, TypeOK
  <2>3. \A u \in Sends \ {t} : answers'[u] = answers[u] BY <2>1 DEF Inv, TypeOK
  <2>4. s # t => (s \in Answered <=> s \in Answered') /\ answers'[s] = answers[s]
    BY <2>3 DEF Answered
  <2> QED BY <2>1, <2>2, <2>4 DEF Moves
<1> QED BY <1>1, <1>2, <1>3 DEF Sender

LEMMA MovesTaken ==
    ASSUME Inv, NEW s \in Sends, TakeSend
    PROVE  Moves(s)
<1> DEFINE h == Head(queue).of
<1>1. queue # <<>> /\ Head(queue).what = "send" /\ queue' = Tail(queue) BY DEF TakeSend, Takes
<1>2. UNCHANGED <<sender, calls>> BY DEF TakeSend, thread
<1>3. Head(queue) \in Commands /\ (h \in Sends => h \in OnChannel)
  BY <1>1, ChannelTail DEF Inv, Once
<1>4. h \in OnChannel
  <2>1. PICK c \in Commands : c = Head(queue) BY <1>3
  <2>2. c.of \in Sends BY <2>1, <1>1, CommandIs
  <2> QED BY <2>1, <2>2, <1>3
<1>5. UNCHANGED answers
  <2>1. Cardinality(calls) + Len(pending) < limit BY <1>4, RoomForOne
  <2>2. IsFiniteSet(calls)
    BY ServiceAssumption, FS_Subset DEF ServiceAssumption, Inv, TypeOK
  <2>3. Cardinality(calls) \in Nat /\ Len(pending) \in Nat /\ limit \in Nat
    BY <2>2, FS_CardinalityType DEF Inv, TypeOK
  <2>4. ~(Cardinality(calls) + Len(pending) >= limit) BY <2>1, <2>3
  <2> QED BY <2>4 DEF TakeSend
<1>6. Submitted' = Submitted BY <1>2 DEF Submitted
<1> QED BY <1>2, <1>5, <1>6, MovesQuietly

LEMMA MovesDown ==
    ASSUME Inv, NEW s \in Sends, TearDown
    PROVE  Moves(s)
<1> DEFINE set == calls \cup Queued \cup OnChannel
<1>1. Answer(set, "failed") /\ calls' = {} /\ UNCHANGED sender BY DEF TearDown, thread
<1>2. set = calls \cup Elements(pending) \cup Elements(waiting) \cup OnChannel
  BY QueuedIs DEF Inv
<1>3. set \subseteq Sends /\ set \cap Answered = {} /\ calls \subseteq set
  BY <1>2, ElementsTyped DEF Inv, Placed, Places5
<1> HIDE DEF set
<1> QED BY <1>1, <1>3, MovesAnswered

LEMMA MovesPolled ==
    ASSUME Inv, NEW s \in Sends, Poll
    PROVE  Moves(s)
<1>1. PICK failed : LET lost == {t \in calls \cup Queued : account[t].id \in failed}
                    IN Answer(lost, "failed") /\ calls' = calls \ lost
  BY DEF Poll
<1> DEFINE lost == {t \in calls \cup Queued : account[t].id \in failed}
<1>2. Answer(lost, "failed") /\ calls' = calls \ lost BY <1>1
<1>3. lost \subseteq calls \cup Elements(pending) \cup Elements(waiting) BY QueuedIs DEF Inv
<1> HIDE DEF lost
<1>4. lost \subseteq Sends /\ lost \cap Answered = {}
  BY <1>3, ElementsTyped DEF Inv, Placed, Places5
<1>5. UNCHANGED sender BY DEF Poll, thread
<1> QED BY <1>2, <1>4, <1>5, MovesAnswered

LEMMA MovesPrepared ==
    ASSUME Inv, NEW s \in Sends, NEW t \in Sends, PrepareCancelled(t) \/ Prepare(t)
    PROVE  Moves(s)
<1>1. /\ pending # <<>> /\ t = Head(pending) /\ pending' = Tail(pending) /\ UNCHANGED sender
  BY DEF PrepareCancelled, Prepare, thread
<1>2. t \in Elements(pending) BY <1>1, FirstPending
<1>3. t \notin Answered BY <1>2 DEF Inv, Placed, Places5
<1>4. CASE Fails(t)
  <2> DEFINE set == {t}
  <2>1. Answer(set, "failed") /\ calls' = calls BY <1>4 DEF Fails
  <2>2. set \subseteq Sends /\ set \cap Answered = {} BY <1>3
  <2> HIDE DEF set
  <2> QED BY <1>1, <2>1, <2>2, MovesAnswered
<1>5. CASE UNCHANGED answers /\ calls \subseteq calls'
  <2>1. Submitted' = Submitted BY <1>1 DEF Submitted
  <2> QED BY <1>1, <1>5, <2>1, MovesQuietly
<1>6. CASE PrepareCancelled(t) BY <1>4, <1>6 DEF PrepareCancelled
<1>7. CASE Prepare(t)
  <2>1. PICK e : e = Ensured(account[t]) /\ Prepared(t, e) BY <1>7 DEF Prepare
  <2>2. Fails(t) \/ (UNCHANGED answers /\ calls \subseteq calls')
    BY <2>1 DEF Prepared, Waits, Calls
  <2> QED BY <2>2, <1>4, <1>5
<1> QED BY <1>6, <1>7

LEMMA MovesNext ==
    ASSUME Inv, [Next]_vars, NEW s \in Sends
    PROVE  Moves(s)
<1>1. CASE UNCHANGED <<sender, calls, answers>>
  <2>1. Submitted' = Submitted BY <1>1 DEF Submitted
  <2> QED BY <1>1, <2>1, MovesQuietly
<1>2. CASE UNCHANGED vars BY <1>1, <1>2 DEF vars, thread, sends
<1>3. ASSUME NEW t \in Sends, Sender(t) PROVE Moves(s) BY <1>3, MovesSender
<1>4. ASSUME NEW t \in Sends, Cancel(t) \/ Canceller(t) PROVE Moves(s)
  BY <1>1, <1>4 DEF Cancel, Canceller, CancelLooks, CancelRings, sends
<1>5. ASSUME NEW w \in Slots, Worker(w) PROVE Moves(s)
  BY <1>1, <1>5 DEF Worker, WorkerSends, WorkerRings, WorkerEnds, thread, sends
<1>6. CASE Order \/ OrderRings BY <1>1, <1>6 DEF Order, OrderRings, thread, sends
<1>7. ASSUME NEW t \in Sends, Finish(t) PROVE Moves(s)
  <2> DEFINE set == {t}
  <2>1. /\ Answer(set, "finished") /\ set \subseteq calls /\ calls' = calls \ set
        /\ UNCHANGED sender
    BY <1>7 DEF Finish, thread
  <2>2. set \subseteq Sends /\ set \cap Answered = {} BY <2>1 DEF Inv, Placed, Places5
  <2> HIDE DEF set
  <2> QED BY <2>1, <2>2, MovesAnswered
<1>8. CASE LoopBreaks BY <1>8, MovesDown DEF LoopBreaks
<1>9. CASE IncomingGoesOn \/ Invite \/ Suspend
  BY <1>1, <1>9 DEF IncomingGoesOn, Invite, Suspend, WakesUp, thread, sends
<1>10. CASE Loop
  <2>1. CASE Starts \/ TakeConfigure \/ TakeReconnect \/ CommandsEnd
    BY <1>1, <2>1 DEF Starts, TakeConfigure, TakeReconnect, CommandsEnd, thread, sends
  <2>2. CASE ListenLater \/ Withdraw \/ Listen
    BY <1>1, <2>2 DEF ListenLater, Withdraw, Listen, thread, sends
  <2>3. CASE PrepareEnds \/ TidyUp \/ Resume \/ WokenByBell \/ WokenByDeadline
    BY <1>1, <2>3
       DEF PrepareEnds, TidyUp, Resume, WokenByBell, WokenByDeadline, WakesUp, thread, sends
  <2>4. CASE Interrupt
    <3>1. Answer(calls, "failed") /\ calls' = {} /\ UNCHANGED sender
      BY <2>4 DEF Interrupt, thread
    <3>2. calls \subseteq Sends /\ calls \cap Answered = {}
      BY DEF Inv, TypeOK, Placed, Places5
    <3> QED BY <3>1, <3>2, MovesAnswered
  <2>5. CASE TakeStop BY <2>5, MovesDown DEF TakeStop
  <2>6. CASE Gone
    <3>1. Answer(OnChannel, "failed") /\ UNCHANGED <<sender, calls>>
      BY <2>6 DEF Gone, thread
    <3>2. OnChannel \subseteq Sends /\ OnChannel \cap Answered = {}
      BY ElementsTyped DEF Inv, Placed, Places5
    <3> QED BY <3>1, <3>2, MovesAnswered
  <2> QED BY <1>10, <2>1, <2>2, <2>3, <2>4, <2>5, <2>6, MovesTaken, MovesPolled, MovesPrepared
          DEF Loop
<1> QED BY <1>2, <1>3, <1>4, <1>5, <1>6, <1>7, <1>8, <1>9, <1>10 DEF Next

(* What was agreed is never changed. *)
LEMMA NextLimit == [Next]_vars => limit' = limit
<1> SUFFICES ASSUME [Next]_vars PROVE UNCHANGED given
  BY DEF given
<1>1. CASE \E s \in Sends : Sender(s) \/ Cancel(s) \/ Canceller(s) \/ Finish(s)
  BY <1>1 DEF Sender, SendStarts, SendHooked, Submit, SubmitRings, SendReturns, Cancel,
              Canceller, CancelLooks, CancelRings, Finish
<1>2. CASE \E w \in Slots : Worker(w)
  BY <1>2 DEF Worker, WorkerSends, WorkerRings, WorkerEnds
<1>3. CASE LoopBreaks \/ IncomingGoesOn \/ Invite \/ Suspend \/ Order \/ OrderRings
  BY <1>3 DEF LoopBreaks, TearDown, IncomingGoesOn, Invite, Suspend, WakesUp, Order, OrderRings
<1>4. CASE Loop
  <2>1. CASE Starts \/ Interrupt \/ TakeConfigure \/ TakeReconnect \/ TakeSend \/ TakeStop \/ Gone
    BY <2>1 DEF Starts, Interrupt, TakeConfigure, TakeReconnect, TakeSend, TakeStop, TearDown, Gone
  <2>2. CASE CommandsEnd \/ Poll \/ ListenLater \/ Withdraw \/ Listen
    BY <2>2 DEF CommandsEnd, Poll, ListenLater, Withdraw, Listen
  <2>3. CASE (\E s \in Sends : PrepareCancelled(s) \/ Prepare(s)) \/ PrepareEnds
    BY <2>3 DEF PrepareCancelled, Prepare, PrepareEnds
  <2>4. CASE TidyUp \/ Resume \/ WokenByBell \/ WokenByDeadline
    BY <2>4 DEF TidyUp, Resume, WokenByBell, WokenByDeadline, WakesUp
  <2> QED BY <1>4, <2>1, <2>2, <2>3, <2>4 DEF Loop
<1> QED BY <1>1, <1>2, <1>3, <1>4 DEF Next, vars

(* What a state has of the promise: no more calls than were agreed.        *)
Promised ==
    /\ \A s \in Sends : StageFits(s)
    /\ Cardinality({s \in Sends : Stage(s) = "calling"}) <= limit

LEMMA KeepsPromise == Inv => Promised
<1> SUFFICES ASSUME Inv PROVE Promised OBVIOUS
<1>1. \A s \in Sends : StageFits(s) BY StageOf
<1> DEFINE calling == {s \in Sends : Stage(s) = "calling"}
<1>2. calling \subseteq Engaged
  <2> SUFFICES ASSUME NEW s \in Sends, Stage(s) = "calling" PROVE s \in Engaged OBVIOUS
  <2>1. s \in Submitted BY <1>1 DEF StageFits
  <2> QED BY <2>1 DEF Submitted, Engaged
<1>3. IsFiniteSet(Engaged) BY ServiceAssumption, FS_Subset DEF ServiceAssumption, Engaged
<1> HIDE DEF calling
<1>4. /\ Cardinality(calling) <= Cardinality(Engaged)
      /\ Cardinality(calling) \in Nat /\ Cardinality(Engaged) \in Nat
  BY <1>2, <1>3, FS_Subset, FS_CardinalityType
<1>5. Cardinality(calling) <= limit BY <1>4 DEF Inv, TypeOK, Room
<1> QED BY <1>1, <1>5 DEF Promised, calling

(* service_loop, its threads and the senders implement Transmission, for   *)
(* any faxes, accounts, limit, commands and accidents: whatever breaks,    *)
(* stops or is cancelled, a submitted fax is called once at most, no more  *)
(* faxes are called at a time than were agreed, and its sender goes on     *)
(* with the end of its call or with a failure, and with nothing else.      *)
THEOREM ServiceImplementsTransmission == Spec => ImplementsTransmission
<1>1. Init => Promise!Init
  <2> SUFFICES ASSUME Init PROVE Promise!Init OBVIOUS
  <2>1. \A s \in Sends : sender[s] \in {"over", "idle"} BY DEF Init
  <2>2. \A s \in Sends : Stage(s) \in {"idle", "over"} BY <2>1 DEF Stage
  <2> QED BY <2>2 DEF Promise!Init
<1>2. Inv => Promised BY KeepsPromise
<1>3. Inv /\ Promised /\ Promised' /\ [Next]_vars => Promise!Next
  <2> SUFFICES ASSUME Inv, Promised, Promised', [Next]_vars PROVE Promise!Next
    OBVIOUS
  <2> DEFINE stages == [s \in Sends |-> Stage(s)]
  <2>1. \A s \in Sends : Moves(s) BY MovesNext
  <2>2. \A s \in Sends : StageFits(s) /\ StageFits(s)' BY DEF Promised
  <2>3. \A s \in Sends : Stage(s)' \in Promise!Follows(Stage(s)) BY <2>1, <2>2, MovesFollow
  <2>4. DOMAIN stages' = Sends /\ \A s \in Sends : stages'[s] = Stage(s)' /\ stages[s] = Stage(s)
    OBVIOUS
  <2>5. \A s \in Sends : stages'[s] \in Promise!Follows(stages[s]) BY <2>3, <2>4
  <2>6. Promise!Calling' = {s \in Sends : Stage(s)' = "calling"}
    BY <2>4 DEF Promise!Calling
  <2>7. Promise!Cardinality(Promise!Calling') <= limit'
    BY <2>6 DEF Promised, Promise!Cardinality, Cardinality
  <2>8. limit' = limit
    BY NextLimit
  <2> QED BY <2>4, <2>5, <2>7, <2>8 DEF Promise!Next
<1> QED BY <1>1, <1>2, <1>3, Invariant, PTL DEF Spec, ImplementsTransmission, Promise!Spec
=============================================================================
