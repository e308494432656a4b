-------------------------- MODULE Preparation_proofs --------------------------
(* Proofs about what prepares an operator's work and reports on it: the plan  *)
(* of a site, the two wizards, the folders they write, the status of a node   *)
(* and the command, each by an invariant of its own, then of all of them as   *)
(* they stand side by side in Operator.                                       *)
EXTENDS Operator, SequenceTheorems, WellFoundedInduction, TLAPS


-----------------------------------------------------------------------------
(* The plan of a site.                                                      *)
\* Zones are ten /24 apart, so that their subnets are disjoint, end inside the /16 and hold
\* the offsets that gateways and guests have; no two guests share an offset and a zone.
LEMMA Layout ==
    ASSUME NEW base \in Nat, NEW first \in Nat
    PROVE  LET p == Prepared(base, first) IN
           /\ \A z \in Zones : p.net[z].high < 65536
           /\ \A z \in Zones : Usable(p.gateway[z], p.net[z])
           /\ \A y, z \in Zones : y # z => ~Overlaps(p.net[y], p.net[z])
           /\ \A r \in Roles : Usable(p.address[r], p.net[Zone[r]])
           /\ \A r \in Roles, z \in Zones : p.address[r] # p.gateway[z]
           /\ \A q, r \in Roles : q # r => p.id[q] # p.id[r] /\ p.address[q] # p.address[r]
<1> DEFINE p == Prepared(base, first)
<1>1. \A z \in Zones : p.net[z].high < 65536
  BY SMT DEF Prepared, Zones, ZoneStart, ZoneIndex
<1>2. \A z \in Zones : Usable(p.gateway[z], p.net[z])
  BY SMT DEF Prepared, Zones, ZoneStart, ZoneIndex, Usable
<1>3. \A y, z \in Zones : y # z => ~Overlaps(p.net[y], p.net[z])
  BY SMT DEF Prepared, Zones, ZoneStart, ZoneIndex, Overlaps
<1>4. \A r \in Roles : Usable(p.address[r], p.net[Zone[r]])
  BY SMT DEF Prepared, Roles, Zones, Zone, ZoneStart, ZoneIndex, Usable, Offset
<1>5. \A r \in Roles, z \in Zones : p.address[r] # p.gateway[z]
  BY SMT DEF Prepared, Roles, Zones, Zone, ZoneStart, ZoneIndex, Offset
<1>6. \A q, r \in Roles : q # r => p.id[q] # p.id[r]
  BY SMT DEF Prepared, Roles, RoleIndex
<1>7. \A q, r \in Roles : q # r => p.address[q] # p.address[r]
  BY SMT DEF Prepared, Roles, Zone, ZoneStart, ZoneIndex, Offset
<1> HIDE DEF p
<1> QED BY <1>1, <1>2, <1>3, <1>4, <1>5, <1>6, <1>7 DEF p

\* portable_wizard.prepare() makes a plan that portable_plan.validate() accepts from every
\* private /16 and every first number with room for six guests.
THEOREM PreparedValid ==
    ASSUME NEW base \in Nat, base \in PRIVATE,
           NEW first \in Nat, 100 <= first, first + 5 <= LastId
    PROVE  Valid(Prepared(base, first))
<1> DEFINE p == Prepared(base, first)
<1>1. \A z \in Zones : p.net[z].base \in PRIVATE
  BY DEF Prepared
<1>2. \A r \in Roles : 100 <= p.id[r] /\ p.id[r] <= LastId
  <2> SUFFICES ASSUME NEW r \in Roles PROVE 100 <= p.id[r] /\ p.id[r] <= LastId
    OBVIOUS
  <2>1. RoleIndex[r] \in 0..5
    BY SMT DEF Roles, RoleIndex
  <2>2. p.id[r] = first + RoleIndex[r]
    BY DEF Prepared
  <2>3. LastId \in Nat
    BY SMT DEF LastId
  <2> QED BY <2>1, <2>2, <2>3, SMT
<1> QED BY <1>1, <1>2, Layout DEF Valid

\* The answers are numbers.
LayoutTyped == plan.base \in Nat /\ plan.first \in Nat

LEMMA LayoutInit == PlanInit => LayoutTyped
  BY SMT DEF PlanInit, LayoutTyped

LEMMA LayoutStep == LayoutTyped /\ [PlanNext]_plan => LayoutTyped'
  BY SMT, BasesAssumption, FirstIdsAssumption DEF PlanNext, Prepare, LayoutTyped

\* Nothing else is needed of them.
LEMMA LayoutSound == LayoutTyped => LayoutValid
  BY PreparedValid DEF LayoutValid, LayoutTyped

\* Along every behaviour of the wizard, whatever was answered.
THEOREM LayoutsValid == PlanSpec => []LayoutValid
  BY LayoutInit, LayoutStep, LayoutSound, PTL DEF PlanSpec

-----------------------------------------------------------------------------
(* The wizard of an installation (scripts/setup_wizard.py).                *)

\* Answers that are all acceptable.
Proper(a) ==
    /\ DOMAIN a = Setup!Fields
    /\ \A f \in Setup!Fields : a[f] # None => a[f] \in Setup!Acceptable(f)

\* The fields that the questions name.
LEMMA FieldsHold ==
    /\ \A n \in {"purpose", "network", "servers", "tls_mode", "acme", "certificates",
                 "relay_count", "artifact", "node_count", "node"} : <<n, 0>> \in Setup!Fields
    /\ \A i \in 2..MaxRelays : <<"relay", i>> \in Setup!Fields /\ <<"relay-certificate", i>> \in Setup!Fields
    /\ \A i \in 1..MaxNodes : <<"node", i>> \in Setup!Fields
  BY DEF Setup!Fields, Setup!F

\* The counts stay within what the wizard accepts, also before they are answered.
LEMMA Counts ==
    ASSUME NEW a, Proper(a)
    PROVE  /\ Setup!Count(a, Setup!F("relay_count"), 1) \in 1..MaxRelays
           /\ Setup!Count(a, Setup!F("node_count"), 0) \in 0..MaxNodes
<1>1. <<"relay_count", 0>> \in Setup!Fields /\ <<"node_count", 0>> \in Setup!Fields
  BY FieldsHold
<1>2. /\ Setup!Acceptable(<<"relay_count", 0>>) = 1..MaxRelays
      /\ Setup!Acceptable(<<"node_count", 0>>) = 1..MaxNodes
  BY DEF Setup!Acceptable, Setup!F
<1>3. 1 \in 1..MaxRelays /\ 0 \in 0..MaxNodes /\ 1..MaxNodes \subseteq 0..MaxNodes
  BY WizardBoundsAssumption
<1> QED BY <1>1, <1>2, <1>3 DEF Setup!Count, Setup!F, Proper

\* What is asked of relays is fields of relays.
LEMMA RelayQuestionsShape ==
    ASSUME NEW a, Proper(a)
    PROVE  /\ Setup!RelayQuestions(a) \in Seq(Setup!Fields)
           /\ \A i \in 1..Len(Setup!RelayQuestions(a)) :
                  \E k \in 2..MaxRelays :
                      Setup!RelayQuestions(a)[i] \in {<<"relay", k>>, <<"relay-certificate", k>>}
<1> DEFINE more == Setup!Count(a, Setup!F("relay_count"), 1) - 1
<1>1. more \in Nat /\ more < MaxRelays
  BY Counts, WizardBoundsAssumption
<1> HIDE DEF more
<1>2. CASE a[Setup!F("tls_mode")] = "managed-acme"
  <2> DEFINE r == [i \in 1..more |-> <<"relay", i + 1>>]
  <2>1. Setup!RelayQuestions(a) = r
    BY <1>2 DEF Setup!RelayQuestions, more
  <2>2. \A i \in 1..more : i + 1 \in 2..MaxRelays /\ r[i] = <<"relay", i + 1>>
    BY <1>1, WizardBoundsAssumption
  <2>3. \A i \in 1..more : r[i] \in Setup!Fields
    BY <2>2, FieldsHold
  <2>4. r \in Seq(Setup!Fields) /\ Len(r) = more
    BY <1>1, <2>3
  <2> HIDE DEF r
  <2> QED BY <2>1, <2>2, <2>4
<1>3. CASE a[Setup!F("tls_mode")] # "managed-acme"
  <2> DEFINE r == [i \in 1..(2 * more) |->
                     <<IF i % 2 = 1 THEN "relay" ELSE "relay-certificate", (i + 3) \div 2>>]
  <2>1. Setup!RelayQuestions(a) = r
    BY <1>3 DEF Setup!RelayQuestions, more
  <2>2. \A i \in 1..(2 * more) : (i + 3) \div 2 \in 2..MaxRelays
    BY <1>1, WizardBoundsAssumption
  <2>3. \A i \in 1..(2 * more) :
            r[i] \in {<<"relay", (i + 3) \div 2>>, <<"relay-certificate", (i + 3) \div 2>>}
    OBVIOUS
  <2>4. \A i \in 1..(2 * more) : r[i] \in Setup!Fields
    BY <2>2, FieldsHold
  <2>5. r \in Seq(Setup!Fields) /\ Len(r) = 2 * more
    BY <1>1, <2>4
  <2> HIDE DEF r
  <2> QED BY <2>1, <2>2, <2>3, <2>5
<1> QED BY <1>2, <1>3

\* What is asked of further nodes is one field of each.
LEMMA NodeQuestionsShape ==
    ASSUME NEW a, Proper(a)
    PROVE  LET n == Setup!Count(a, Setup!F("node_count"), 0)
               s == [i \in 1..n |-> <<"node", i>>]
           IN  s \in Seq(Setup!Fields) /\ Len(s) = n
<1> DEFINE n == Setup!Count(a, Setup!F("node_count"), 0)
           s == [i \in 1..n |-> <<"node", i>>]
<1>1. n \in Nat /\ n <= MaxNodes
  BY Counts
<1> HIDE DEF n
<1>2. \A i \in 1..n : s[i] \in Setup!Fields
  <2>1. \A i \in 1..n : i \in 1..MaxNodes
    BY <1>1, WizardBoundsAssumption
  <2> QED BY <2>1, FieldsHold
<1>3. s \in Seq(Setup!Fields) /\ Len(s) = n
  BY <1>1, <1>2
<1> QED BY <1>3 DEF n

\* Where the elements of two sequences are in their concatenation.
LEMMA Joined ==
    ASSUME NEW S, NEW s \in Seq(S), NEW t \in Seq(S)
    PROVE  /\ s \o t \in Seq(S) /\ Len(s \o t) = Len(s) + Len(t)
           /\ \A i \in 1..Len(s) : (s \o t)[i] = s[i]
           /\ \A i \in 1..Len(t) : (s \o t)[Len(s) + i] = t[i]
<1>1. Len(s) \in Nat /\ Len(t) \in Nat
  BY LenProperties
<1>2. /\ s \o t \in Seq(S) /\ Len(s \o t) = Len(s) + Len(t)
      /\ \A i \in 1..(Len(s) + Len(t)) :
             (s \o t)[i] = IF i <= Len(s) THEN s[i] ELSE t[i - Len(s)]
  BY ConcatProperties
<1>3. \A i \in 1..Len(s) : (s \o t)[i] = s[i]
  BY <1>2
<1>4. ASSUME NEW i \in 1..Len(t) PROVE (s \o t)[Len(s) + i] = t[i]
  <2>1. Len(s) + i \in 1..(Len(s) + Len(t)) /\ ~(Len(s) + i <= Len(s)) /\ Len(s) + i - Len(s) = i
    BY <1>1
  <2> QED BY <2>1, <1>2
<1> QED BY <1>2, <1>3, <1>4

\* What is asked in which place, of a network that is set up and of one that is joined.
LEMMA QuestionsShape ==
    ASSUME NEW a, Proper(a)
    PROVE  LET q == Setup!Questions(a)
               r == Setup!RelayQuestions(a)
               n == Setup!Count(a, Setup!F("node_count"), 0)
           IN  /\ q \in Seq(Setup!Fields) /\ r \in Seq(Setup!Fields) /\ n \in Nat
               /\ q[1] = <<"purpose", 0>> /\ q[2] = <<"network", 0>>
               /\ a[<<"purpose", 0>>] # "independent" => Len(q) = 3 /\ q[3] = <<"node", 0>>
               /\ a[<<"purpose", 0>>] = "independent" =>
                      /\ Len(q) = 8 + Len(r) + n
                      /\ q[3] = <<"servers", 0>> /\ q[4] = <<"tls_mode", 0>>
                      /\ q[5] = IF a[<<"tls_mode", 0>>] = "managed-acme" THEN <<"acme", 0>>
                                ELSE <<"certificates", 0>>
                      /\ q[6] = <<"relay_count", 0>>
                      /\ \A i \in 1..Len(r) : q[6 + i] = r[i]
                      /\ q[7 + Len(r)] = <<"artifact", 0>> /\ q[8 + Len(r)] = <<"node_count", 0>>
                      /\ \A i \in 1..n : q[8 + Len(r) + i] = <<"node", i>>
<1> DEFINE F(name) == <<name, 0>>
           q == Setup!Questions(a)
           r == Setup!RelayQuestions(a)
           n == Setup!Count(a, Setup!F("node_count"), 0)
           s == [i \in 1..n |-> <<"node", i>>]
           first == <<F("purpose"), F("network")>>
           front == <<F("servers"), F("tls_mode"),
                      IF a[F("tls_mode")] = "managed-acme" THEN F("acme") ELSE F("certificates"),
                      F("relay_count")>>
           middle == <<F("artifact"), F("node_count")>>
<1>1. r \in Seq(Setup!Fields)
  BY RelayQuestionsShape
<1>2. n \in Nat
  BY Counts
<1>3. s \in Seq(Setup!Fields) /\ Len(s) = n /\ \A i \in 1..n : s[i] = <<"node", i>>
  BY NodeQuestionsShape
<1>4. /\ first \in Seq(Setup!Fields) /\ front \in Seq(Setup!Fields) /\ middle \in Seq(Setup!Fields)
      /\ Len(first) = 2 /\ Len(front) = 4 /\ Len(middle) = 2
      /\ <<F("node")>> \in Seq(Setup!Fields) /\ Len(<<F("node")>>) = 1
  BY FieldsHold
<1>5. CASE a[F("purpose")] # "independent"
  <2>1. q = first \o <<F("node")>>
    BY <1>5 DEF Setup!Questions, Setup!F
  <2> QED BY <2>1, <1>1, <1>2, <1>4, <1>5
<1>6. CASE a[F("purpose")] = "independent"
  <2>1. q = first \o (front \o r \o middle \o s)
    BY <1>6 DEF Setup!Questions, Setup!F
  <2>2. /\ first[1] = F("purpose") /\ first[2] = F("network")
        /\ front[1] = F("servers") /\ front[2] = F("tls_mode") /\ front[4] = F("relay_count")
        /\ front[3] = IF a[F("tls_mode")] = "managed-acme" THEN F("acme") ELSE F("certificates")
        /\ middle[1] = F("artifact") /\ middle[2] = F("node_count")
    OBVIOUS
  <2> HIDE DEF q, r, n, s, first, front, middle
  <2>3. /\ front \o r \in Seq(Setup!Fields) /\ Len(front \o r) = 4 + Len(r) /\ Len(r) \in Nat
        /\ \A i \in 1..4 : (front \o r)[i] = front[i]
        /\ \A i \in 1..Len(r) : (front \o r)[4 + i] = r[i]
    <3>1. front \in Seq(Setup!Fields) /\ r \in Seq(Setup!Fields)
      BY <1>1, <1>4
    <3>2. Len(front) = 4
      BY <1>4
    <3>3. /\ front \o r \in Seq(Setup!Fields) /\ Len(front \o r) = Len(front) + Len(r)
          /\ \A i \in 1..Len(front) : (front \o r)[i] = front[i]
          /\ \A i \in 1..Len(r) : (front \o r)[Len(front) + i] = r[i]
      BY ONLY <3>1, Joined
    <3>4. Len(r) \in Nat
      BY ONLY <3>1, LenProperties
    <3> QED BY ONLY <3>2, <3>3, <3>4
  <2> DEFINE t == front \o r
             u == t \o middle
             v == u \o s
  <2> HIDE DEF t
  <2>4. /\ u \in Seq(Setup!Fields) /\ Len(u) = 6 + Len(r)
        /\ \A i \in 1..(4 + Len(r)) : u[i] = t[i]
        /\ \A i \in 1..2 : u[4 + Len(r) + i] = middle[i]
    <3>1. t \in Seq(Setup!Fields) /\ Len(t) = 4 + Len(r) /\ Len(r) \in Nat
      BY <2>3 DEF t
    <3>2. /\ u \in Seq(Setup!Fields) /\ Len(u) = Len(t) + Len(middle)
          /\ \A i \in 1..Len(t) : u[i] = t[i]
          /\ \A i \in 1..Len(middle) : u[Len(t) + i] = middle[i]
      <4>1. t \in Seq(Setup!Fields) /\ middle \in Seq(Setup!Fields)
        BY <1>4, <3>1
      <4> QED BY ONLY <4>1, Joined
    <3> QED BY <3>1, <3>2, <1>4
  <2> HIDE DEF u
  <2>5. /\ v \in Seq(Setup!Fields) /\ Len(v) = 6 + Len(r) + n
        /\ \A i \in 1..(6 + Len(r)) : v[i] = u[i]
        /\ \A i \in 1..n : v[6 + Len(r) + i] = s[i]
    <3>1. /\ v \in Seq(Setup!Fields) /\ Len(v) = Len(u) + Len(s)
          /\ \A i \in 1..Len(u) : v[i] = u[i]
          /\ \A i \in 1..Len(s) : v[Len(u) + i] = s[i]
      <4>1. u \in Seq(Setup!Fields) /\ s \in Seq(Setup!Fields)
        BY <1>3, <2>4
      <4> QED BY ONLY <4>1, Joined
    <3> QED BY <3>1, <1>3, <2>4
  <2> HIDE DEF v
  <2>6. q = first \o v
    BY <2>1 DEF t, u, v
  <2>7. /\ q \in Seq(Setup!Fields) /\ Len(q) = 8 + Len(r) + n
        /\ \A i \in 1..2 : q[i] = first[i]
        /\ \A i \in 1..(6 + Len(r) + n) : q[2 + i] = v[i]
    <3>1. /\ q \in Seq(Setup!Fields) /\ Len(q) = Len(first) + Len(v)
          /\ \A i \in 1..Len(first) : q[i] = first[i]
          /\ \A i \in 1..Len(v) : q[Len(first) + i] = v[i]
      <4>1. v \in Seq(Setup!Fields) /\ first \in Seq(Setup!Fields)
        BY <1>4, <2>5
      <4> QED BY ONLY <4>1, <2>6, Joined
    <3> QED BY <3>1, <1>2, <1>4, <2>3, <2>5
  <2>8. \A i \in 1..(4 + Len(r)) : q[2 + i] = t[i]
    <3> SUFFICES ASSUME NEW i \in 1..(4 + Len(r)) PROVE q[2 + i] = t[i]
      OBVIOUS
    <3>1. i \in 1..(6 + Len(r)) /\ i \in 1..(6 + Len(r) + n)
      BY <1>2
    <3> QED BY <3>1, <2>4, <2>5, <2>7
  <2>9. \A i \in 1..Len(r) : q[6 + i] = r[i]
    <3> SUFFICES ASSUME NEW i \in 1..Len(r) PROVE q[6 + i] = r[i]
      OBVIOUS
    <3>1. t[4 + i] = r[i]
      BY <2>3 DEF t
    <3>2. 4 + i \in 1..(4 + Len(r)) /\ 2 + (4 + i) = 6 + i
      BY <2>3
    <3>3. q[2 + (4 + i)] = t[4 + i]
      BY <2>8
    <3> QED BY <3>1, <3>2, <3>3
  <2>10. q[7 + Len(r)] = middle[1] /\ q[8 + Len(r)] = middle[2]
    <3>1. ASSUME NEW i \in 1..2 PROVE q[6 + Len(r) + i] = middle[i]
      <4>1. /\ 4 + Len(r) + i \in 1..(6 + Len(r)) /\ 4 + Len(r) + i \in 1..(6 + Len(r) + n)
            /\ 2 + (4 + Len(r) + i) = 6 + Len(r) + i
        BY <1>2
      <4>2. q[2 + (4 + Len(r) + i)] = v[4 + Len(r) + i]
        BY <4>1, <2>7
      <4> QED BY <4>1, <4>2, <2>4, <2>5
    <3>2. 6 + Len(r) + 1 = 7 + Len(r) /\ 6 + Len(r) + 2 = 8 + Len(r)
      BY <2>3
    <3>3. q[6 + Len(r) + 1] = middle[1] /\ q[6 + Len(r) + 2] = middle[2]
      BY <3>1
    <3> QED BY <3>2, <3>3
  <2>11. \A i \in 1..n : q[8 + Len(r) + i] = s[i]
    <3> SUFFICES ASSUME NEW i \in 1..n PROVE q[8 + Len(r) + i] = s[i]
      OBVIOUS
    <3>1. 6 + Len(r) + i \in 1..(6 + Len(r) + n) /\ 2 + (6 + Len(r) + i) = 8 + Len(r) + i
      BY <1>2
    <3>2. q[2 + (6 + Len(r) + i)] = v[6 + Len(r) + i]
      BY <3>1, <2>7
    <3> QED BY <3>1, <3>2, <2>5
  <2>12. q[3] = front[1] /\ q[4] = front[2] /\ q[5] = front[3] /\ q[6] = front[4]
    <3>1. ASSUME NEW i \in 1..4 PROVE q[2 + i] = front[i]
      <4>1. i \in 1..(4 + Len(r))
        BY <2>3
      <4> QED BY <4>1, <2>3, <2>8 DEF t
    <3>2. q[2 + 1] = front[1] /\ q[2 + 2] = front[2] /\ q[2 + 3] = front[3] /\ q[2 + 4] = front[4]
      BY <3>1
    <3> QED BY <3>2
  <2>13. \A i \in 1..n : q[8 + Len(r) + i] = <<"node", i>>
    BY <2>11, <1>3
  <2>14. q[1] = first[1] /\ q[2] = first[2]
    BY <2>7
  <2> QED BY <2>2, <2>7, <2>9, <2>10, <2>12, <2>13, <2>14, <1>1, <1>2, <1>6
        DEF q, r, n
<1> QED BY <1>5, <1>6

\* The questions depend on these answers alone.
LEMMA SameQuestions ==
    ASSUME NEW a, NEW b,
           \A n \in {"purpose", "tls_mode", "relay_count", "node_count"} : b[<<n, 0>>] = a[<<n, 0>>]
    PROVE  Setup!Questions(b) = Setup!Questions(a)
<1>1. /\ b[<<"purpose", 0>>] = a[<<"purpose", 0>>] /\ b[<<"tls_mode", 0>>] = a[<<"tls_mode", 0>>]
      /\ b[<<"relay_count", 0>>] = a[<<"relay_count", 0>>]
      /\ b[<<"node_count", 0>>] = a[<<"node_count", 0>>]
  OBVIOUS
<1> QED BY <1>1 DEF Setup!Questions, Setup!RelayQuestions, Setup!Count, Setup!F

\* Where the four questions that decide are asked, and what is asked.
LEMMA WhereAsked ==
    ASSUME NEW a, Proper(a), NEW i \in 1..Len(Setup!Questions(a))
    PROVE  LET q == Setup!Questions(a)
           IN  /\ q[i] \in Setup!Fields /\ Len(q) \in Nat
               /\ q[i] = <<"purpose", 0>> => i = 1
               /\ q[i] \in {<<"tls_mode", 0>>, <<"relay_count", 0>>, <<"node_count", 0>>} =>
                      a[<<"purpose", 0>>] = "independent"
               /\ q[i] = <<"tls_mode", 0>> => i = 4
               /\ q[i] = <<"relay_count", 0>> => i = 6
               /\ q[i] = <<"node_count", 0>> => i = 8 + Len(Setup!RelayQuestions(a))
<1> DEFINE q == Setup!Questions(a)
           r == Setup!RelayQuestions(a)
           n == Setup!Count(a, Setup!F("node_count"), 0)
           Plain(f) == f
                   \notin {<<"purpose", 0>>, <<"tls_mode", 0>>, <<"relay_count", 0>>, <<"node_count", 0>>}
<1>1. q \in Seq(Setup!Fields) /\ r \in Seq(Setup!Fields) /\ n \in Nat
  BY QuestionsShape
<1>2. q[i] \in Setup!Fields /\ Len(q) \in Nat /\ Len(r) \in Nat
  BY <1>1
<1>3. CASE a[<<"purpose", 0>>] # "independent"
  <2>1. Len(q) = 3 /\ q[1] = <<"purpose", 0>> /\ q[2] = <<"network", 0>> /\ q[3] = <<"node", 0>>
    BY <1>3, QuestionsShape
  <2>2. i = 1 \/ i = 2 \/ i = 3
    BY <2>1
  <2> QED BY <1>2, <1>3, <2>1, <2>2
<1>4. CASE a[<<"purpose", 0>>] = "independent"
  <2>1. /\ Len(q) = 8 + Len(r) + n
        /\ q[1] = <<"purpose", 0>> /\ q[2] = <<"network", 0>> /\ q[3] = <<"servers", 0>>
        /\ q[4] = <<"tls_mode", 0>> /\ q[5] \in {<<"acme", 0>>, <<"certificates", 0>>}
        /\ q[6] = <<"relay_count", 0>>
        /\ q[7 + Len(r)] = <<"artifact", 0>> /\ q[8 + Len(r)] = <<"node_count", 0>>
    <3>1. q[5] = IF a[<<"tls_mode", 0>>] = "managed-acme" THEN <<"acme", 0>> ELSE <<"certificates", 0>>
      BY <1>4, QuestionsShape
    <3>2. q[5] \in {<<"acme", 0>>, <<"certificates", 0>>}
      BY <3>1
    <3> QED BY <1>4, <3>2, QuestionsShape
  <2>2. \A k \in 1..Len(r) : Plain(q[6 + k])
    <3> SUFFICES ASSUME NEW k \in 1..Len(r) PROVE Plain(q[6 + k])
      OBVIOUS
    <3>1. q[6 + k] = r[k]
      BY <1>4, QuestionsShape
    <3>2. PICK j \in 2..MaxRelays : r[k] \in {<<"relay", j>>, <<"relay-certificate", j>>}
      BY RelayQuestionsShape
    <3> QED BY <3>1, <3>2
  <2>3. \A k \in 1..n : Plain(q[8 + Len(r) + k])
    <3>1. \A k \in 1..n : q[8 + Len(r) + k] = <<"node", k>>
      BY <1>4, QuestionsShape
    <3> HIDE DEF q, r, n
    <3> QED BY <3>1
  <2> HIDE DEF Plain, q, r, n
  <2>4. \/ i \in 1..6 \/ i = 7 + Len(r) \/ i = 8 + Len(r)
        \/ \E k \in 1..Len(r) : i = 6 + k
        \/ \E k \in 1..n : i = 8 + Len(r) + k
    <3>1. i \in 1..(8 + Len(r) + n)
      BY <2>1 DEF q
    <3>2. i \in 7..(6 + Len(r)) => i - 6 \in 1..Len(r) /\ i = 6 + (i - 6)
      BY <1>2
    <3>3. i > 8 + Len(r) => i - (8 + Len(r)) \in 1..n /\ i = 8 + Len(r) + (i - (8 + Len(r)))
      BY <1>1, <3>1
    <3>4. \/ i \in 1..6 \/ i \in 7..(6 + Len(r)) \/ i = 7 + Len(r) \/ i = 8 + Len(r) \/ i > 8 + Len(r)
      BY <3>1
    <3> QED BY <3>2, <3>3, <3>4
  <2>5. Plain(q[2]) /\ Plain(q[3]) /\ Plain(q[5]) /\ Plain(q[7 + Len(r)])
    BY <2>1 DEF Plain
  <2>6. Plain(q[i]) \/ i \in {1, 4, 6, 8 + Len(r)}
    BY <2>2, <2>3, <2>4, <2>5
  <2>7. ASSUME Plain(q[i])
        PROVE  q[i]
                \notin {<<"purpose", 0>>, <<"tls_mode", 0>>, <<"relay_count", 0>>, <<"node_count", 0>>}
    BY <2>7 DEF Plain
  <2>8. ASSUME i \in {1, 4, 6, 8 + Len(r)}
        PROVE  /\ q[i] = <<"purpose", 0>> => i = 1
               /\ q[i] = <<"tls_mode", 0>> => i = 4
               /\ q[i] = <<"relay_count", 0>> => i = 6
               /\ q[i] = <<"node_count", 0>> => i = 8 + Len(r)
    BY <2>1, <2>8
  <2>9. /\ q[i] = <<"purpose", 0>> => i = 1
        /\ q[i] = <<"tls_mode", 0>> => i = 4
        /\ q[i] = <<"relay_count", 0>> => i = 6
        /\ q[i] = <<"node_count", 0>> => i = 8 + Len(r)
    BY <2>6, <2>7, <2>8
  <2> QED BY <1>2, <1>4, <2>9 DEF q, r
<1> QED BY <1>3, <1>4

\* The fields asked for are those in the list of questions.
LEMMA AskedAt ==
    ASSUME NEW a, Proper(a)
    PROVE  /\ Setup!Asked(a) = {Setup!Questions(a)[i] : i \in 1..Len(Setup!Questions(a))}
           /\ Setup!Asked(a) \subseteq Setup!Fields
<1>1. Setup!Questions(a) \in Seq(Setup!Fields)
  BY QuestionsShape
<1>3. Setup!Asked(a) = {Setup!Questions(a)[i] : i \in 1..Len(Setup!Questions(a))}
  BY DEF Setup!Asked, Setup!ToSet
<1>4. \A i \in 1..Len(Setup!Questions(a)) : Setup!Questions(a)[i] \in Setup!Fields
  BY <1>1
<1> QED BY <1>3, <1>4

\* Of a network that is set up the four answers that decide are asked for, of one that is
\* joined the first of them, and there are no other questions.
LEMMA DecidersAsked ==
    ASSUME NEW a, Proper(a)
    PROVE  /\ <<"purpose", 0>> \in Setup!Asked(a)
           /\ a[<<"purpose", 0>>] = "independent" =>
                  \A n \in {"tls_mode", "relay_count", "node_count"} : <<n, 0>> \in Setup!Asked(a)
<1> DEFINE q == Setup!Questions(a)
           r == Setup!RelayQuestions(a)
<1>1. q[1] = <<"purpose", 0>> /\ 1 \in 1..Len(q)
  <2>1. CASE a[<<"purpose", 0>>] # "independent"
    BY <2>1, QuestionsShape
  <2>2. CASE a[<<"purpose", 0>>] = "independent"
    <3>1. r \in Seq(Setup!Fields) /\ Setup!Count(a, Setup!F("node_count"), 0) \in Nat
      BY QuestionsShape
    <3>2. Len(r) \in Nat
      BY LenProperties
    <3>3. Len(q) = 8 + Len(r) + Setup!Count(a, Setup!F("node_count"), 0) /\ q[1] = <<"purpose", 0>>
      BY <2>2, QuestionsShape
    <3> HIDE DEF q, r
    <3> QED BY <3>1, <3>2, <3>3
  <2> QED BY <2>1, <2>2
<1>2. ASSUME a[<<"purpose", 0>>] = "independent"
      PROVE  /\ q[4] = <<"tls_mode", 0>> /\ q[6] = <<"relay_count", 0>>
             /\ q[8 + Len(r)] = <<"node_count", 0>>
             /\ 4 \in 1..Len(q) /\ 6 \in 1..Len(q) /\ 8 + Len(r) \in 1..Len(q)
  <2>1. r \in Seq(Setup!Fields) /\ Setup!Count(a, Setup!F("node_count"), 0) \in Nat
    BY QuestionsShape
  <2>2. Len(r) \in Nat
    BY LenProperties
  <2>3. /\ Len(q) = 8 + Len(r) + Setup!Count(a, Setup!F("node_count"), 0)
        /\ q[4] = <<"tls_mode", 0>> /\ q[6] = <<"relay_count", 0>>
        /\ q[8 + Len(r)] = <<"node_count", 0>>
    BY <1>2, QuestionsShape
  <2> HIDE DEF q, r
  <2> QED BY <2>1, <2>2, <2>3
<1> HIDE DEF r
<1>3. Setup!Asked(a) = {q[i] : i \in 1..Len(q)}
  BY AskedAt
<1> HIDE DEF q
<1> QED BY <1>1, <1>2, <1>3

\* The answers that are kept are those to questions that are asked, which stay the same.
LEMMA PermittedShape ==
    ASSUME NEW a, Proper(a)
    PROVE  /\ Proper(Setup!Permitted(a))
           /\ Setup!Questions(Setup!Permitted(a)) = Setup!Questions(a)
           /\ Setup!Given(Setup!Permitted(a)) \subseteq Setup!Asked(Setup!Permitted(a))
           /\ \A f \in Setup!Asked(a) : Setup!Permitted(a)[f] = a[f]
<1> DEFINE p == Setup!Permitted(a)
<1>1. DOMAIN p = Setup!Fields
      /\ \A f \in Setup!Fields : p[f] = IF f \in Setup!Asked(a) THEN a[f] ELSE None
  BY DEF Setup!Permitted
<1>2. Proper(p)
  BY <1>1 DEF Proper
<1>3. \A f \in Setup!Asked(a) : p[f] = a[f]
  BY <1>1, AskedAt
<1>4. Setup!Questions(p) = Setup!Questions(a)
  <2>1. p[<<"purpose", 0>>] = a[<<"purpose", 0>>]
    BY <1>3, DecidersAsked
  <2>2. CASE a[<<"purpose", 0>>] # "independent"
    BY <2>1, <2>2 DEF Setup!Questions, Setup!F
  <2>3. CASE a[<<"purpose", 0>>] = "independent"
    <3>1. \A n \in {"purpose", "tls_mode", "relay_count", "node_count"} : p[<<n, 0>>] = a[<<n, 0>>]
      BY <1>3, <2>3, DecidersAsked
    <3> HIDE DEF p
    <3> QED BY <3>1, SameQuestions
  <2> QED BY <2>2, <2>3
<1>5. Setup!Asked(p) = Setup!Asked(a)
  BY <1>4 DEF Setup!Asked
<1>6. Setup!Given(p) \subseteq Setup!Asked(a)
  BY <1>1 DEF Setup!Given
<1> QED BY <1>2, <1>3, <1>4, <1>5, <1>6

\* An answer leaves the questions as they are up to the one it answers.
LEMMA PrefixKept ==
    ASSUME NEW a, NEW b, Proper(a), Proper(b), NEW i \in 1..Len(Setup!Questions(a)),
           \A f \in Setup!Fields : f # Setup!Questions(a)[i] => b[f] = a[f]
    PROVE  /\ i <= Len(Setup!Questions(b))
           /\ \A j \in 1..i : Setup!Questions(b)[j] = Setup!Questions(a)[j]
<1> DEFINE q == Setup!Questions(a)
           p == Setup!Questions(b)
           r == Setup!RelayQuestions(a)
           m == Setup!Count(b, Setup!F("node_count"), 0)
           indep == a[<<"purpose", 0>>] = "independent"
<1>0. \A n \in {"purpose", "tls_mode", "relay_count", "node_count"} : <<n, 0>> \in Setup!Fields
  BY FieldsHold
<1>1. Len(q) \in Nat /\ Len(r) \in Nat /\ m \in Nat /\ Len(p) \in Nat /\ i \in 1..Len(q)
  <2>1. q \in Seq(Setup!Fields) /\ r \in Seq(Setup!Fields) /\ p \in Seq(Setup!Fields) /\ m \in Nat
    BY QuestionsShape
  <2> QED BY <2>1, LenProperties
<1>2. /\ q[i] = <<"purpose", 0>> => i = 1
      /\ q[i] \in {<<"tls_mode", 0>>, <<"relay_count", 0>>, <<"node_count", 0>>} => indep
      /\ q[i] = <<"tls_mode", 0>> => i = 4
      /\ q[i] = <<"relay_count", 0>> => i = 6
      /\ q[i] = <<"node_count", 0>> => i = 8 + Len(r)
  BY WhereAsked
<1>3. q[1] = <<"purpose", 0>> /\ p[1] = <<"purpose", 0>> /\ p[2] = q[2]
  <2>1. p[2] = <<"network", 0>> /\ q[2] = <<"network", 0>>
    BY QuestionsShape
  <2> QED BY <2>1, QuestionsShape
<1>4. 1 <= Len(p)
  <2>1. p[1] = <<"purpose", 0>> /\ 1 \in 1..Len(p)
    <3>1. <<"purpose", 0>> \in {p[j] : j \in 1..Len(p)}
      BY AskedAt, DecidersAsked
    <3> HIDE DEF p
    <3> QED BY <1>1, <1>3, <3>1
  <2> HIDE DEF p
  <2> QED BY <1>1, <2>1
<1>5. CASE q[i]
              \notin {<<"purpose", 0>>, <<"tls_mode", 0>>, <<"relay_count", 0>>, <<"node_count", 0>>}
  <2>1. \A n \in {"purpose", "tls_mode", "relay_count", "node_count"} : b[<<n, 0>>] = a[<<n, 0>>]
    BY <1>0, <1>5
  <2>2. p = q
    BY <2>1, SameQuestions
  <2> HIDE DEF p, q
  <2> QED BY <1>1, <2>2 DEF p, q
<1>6. CASE q[i] = <<"purpose", 0>>
  <2>1. i = 1
    BY <1>2, <1>6
  <2> QED BY <1>3, <1>4, <2>1
<1>7. CASE q[i] = <<"tls_mode", 0>> \/ q[i] = <<"relay_count", 0>> \/ q[i] = <<"node_count", 0>>
  <2>1. indep /\ b[<<"purpose", 0>>] = "independent"
    <3>1. indep /\ q[i] # <<"purpose", 0>>
      BY <1>2, <1>7
    <3> QED BY <3>1, <1>0
  <2>2. /\ Len(p) = 8 + Len(Setup!RelayQuestions(b)) + m
        /\ p[3] = q[3] /\ p[4] = q[4] /\ p[6] = q[6]
    BY <2>1, QuestionsShape
  <2>3. Len(Setup!RelayQuestions(b)) \in Nat
    BY LenProperties
  <2>4. CASE q[i] = <<"tls_mode", 0>>
    <3>1. i = 4
      BY <1>2, <2>4
    <3> HIDE DEF p, q
    <3>3. \A j \in 1..4 : p[j] = q[j]
      BY <1>3, <2>2
    <3> QED BY <1>1, <2>2, <2>3, <3>1, <3>3 DEF p, q
  <2>5. ASSUME q[i] # <<"tls_mode", 0>> PROVE p[5] = q[5]
    <3>1. b[<<"tls_mode", 0>>] = a[<<"tls_mode", 0>>]
      BY <1>0, <2>5
    <3>2. /\ p[5] = IF b[<<"tls_mode", 0>>] = "managed-acme" THEN <<"acme", 0>> ELSE <<"certificates", 0>>
          /\ q[5] = IF a[<<"tls_mode", 0>>] = "managed-acme" THEN <<"acme", 0>> ELSE <<"certificates", 0>>
      BY <2>1, QuestionsShape
    <3> HIDE DEF p, q
    <3> QED BY <3>1, <3>2
  <2>6. ASSUME p[5] = q[5] PROVE \A j \in 1..6 : p[j] = q[j]
    <3>1. \A j \in 1..6 : j = 1 \/ j = 2 \/ j = 3 \/ j = 4 \/ j = 5 \/ j = 6
      OBVIOUS
    <3> HIDE DEF p, q
    <3> QED BY <1>3, <2>2, <2>6, <3>1
  <2>7. CASE q[i] = <<"relay_count", 0>>
    <3>1. i = 6 /\ q[i] # <<"tls_mode", 0>>
      BY <1>2, <2>7
    <3>2. \A j \in 1..6 : p[j] = q[j]
      BY <3>1, <2>5, <2>6
    <3> HIDE DEF p, q
    <3> QED BY <1>1, <2>2, <2>3, <3>1, <3>2 DEF p, q
  <2>8. CASE q[i] = <<"node_count", 0>>
    <3>1. i = 8 + Len(r) /\ q[i] # <<"tls_mode", 0>> /\ q[i] # <<"relay_count", 0>>
      BY <1>2, <2>8
    <3>2. \A j \in 1..6 : p[j] = q[j]
      BY <3>1, <2>5, <2>6
    <3>3. b[<<"tls_mode", 0>>] = a[<<"tls_mode", 0>>] /\ b[<<"relay_count", 0>>] = a[<<"relay_count", 0>>]
      BY <1>0, <3>1
    <3>4. Setup!RelayQuestions(b) = r
      BY <3>3 DEF Setup!RelayQuestions, Setup!Count, Setup!F
    <3>5. /\ \A k \in 1..Len(r) : q[6 + k] = r[k]
          /\ q[7 + Len(r)] = <<"artifact", 0>> /\ q[8 + Len(r)] = <<"node_count", 0>>
      BY <2>1, QuestionsShape
    <3>6. LET o == Setup!RelayQuestions(b) IN
          /\ \A k \in 1..Len(o) : p[6 + k] = o[k]
          /\ p[7 + Len(o)] = <<"artifact", 0>> /\ p[8 + Len(o)] = <<"node_count", 0>>
      BY <2>1, QuestionsShape
    <3> HIDE DEF p, q, r, m
    <3>7. \A k \in 1..Len(r) : p[6 + k] = q[6 + k]
      BY <3>4, <3>5, <3>6
    <3>8. ASSUME NEW j \in 1..i PROVE p[j] = q[j]
      <4>1. j \in 1..6 \/ (j - 6 \in 1..Len(r) /\ j = 6 + (j - 6)) \/ j = 7 + Len(r) \/ j = 8 + Len(r)
        BY <3>1
      <4> QED BY <3>2, <3>4, <3>5, <3>6, <3>7, <4>1
    <3>9. i <= Len(p)
      BY <1>1, <2>2, <3>1, <3>4
    <3> QED BY <3>8, <3>9 DEF p, q
  <2> QED BY <1>7, <2>4, <2>7, <2>8
<1> QED BY <1>5, <1>6, <1>7

\* What is answered is acceptable and still asked, in the draft as well, and the questions
\* before the one that is asked have their answers.
SetupInv ==
    /\ Proper(answers) /\ Proper(draft)
    /\ Setup!Given(answers) \subseteq Setup!Asked(answers)
    /\ Setup!Given(draft) \subseteq Setup!Asked(draft)
    /\ index \in 1..(Len(Setup!Questions(answers)) + 1)
    /\ \A i \in 1..Len(Setup!Questions(answers)) :
           i < index => answers[Setup!Questions(answers)[i]] # None

\* A new draft has no answer and a question to begin with.
LEMMA NoAnswersShape ==
    /\ Proper(Setup!NoAnswers) /\ Setup!Given(Setup!NoAnswers) = {}
    /\ 1 \in 1..(Len(Setup!Questions(Setup!NoAnswers)) + 1)
<1>1. Proper(Setup!NoAnswers) /\ Setup!Given(Setup!NoAnswers) = {}
  BY DEF Proper, Setup!NoAnswers, Setup!Given
<1>3. Len(Setup!Questions(Setup!NoAnswers)) \in Nat
  BY LenProperties
<1> QED BY <1>1, <1>3

LEMMA SetupInitInv == Setup!Init => SetupInv
<1> SUFFICES ASSUME Setup!Init PROVE SetupInv
  OBVIOUS
<1>1. answers = Setup!NoAnswers /\ draft = Setup!NoAnswers /\ index = 1
  BY DEF Setup!Init
<1> QED BY <1>1, NoAnswersShape DEF SetupInv

\* The wizard begins with the answers of a draft or none.
LEMMA SetupBegins ==
    ASSUME SetupInv, answers' \in {Setup!NoAnswers, draft}, index' = 1, draft' \in {draft, answers}
    PROVE  SetupInv'
<1> DEFINE n == Len(Setup!Questions(answers'))
<1>1. Proper(answers') /\ Setup!Given(answers') \subseteq Setup!Asked(answers')
  BY NoAnswersShape DEF SetupInv
<1>3. n \in Nat
  BY LenProperties
<1>4. Proper(draft') /\ Setup!Given(draft') \subseteq Setup!Asked(draft')
  BY DEF SetupInv
<1>5. index' \in 1..(n + 1) /\ \A i \in 1..n : ~(i < index')
  BY <1>3
<1> QED BY <1>1, <1>4, <1>5 DEF SetupInv

\* An answer changes the later questions only, so that the earlier ones stay answered.
LEMMA SetupAnswers == SetupInv /\ Setup!Answer => SetupInv'
<1> SUFFICES ASSUME SetupInv, Setup!Answer PROVE SetupInv'
  OBVIOUS
<1> DEFINE q == Setup!Questions(answers)
           f == q[index]
<1>1. index \in 1..Len(q) /\ Len(q) \in Nat /\ f \in Setup!Fields
  <2>1. q \in Seq(Setup!Fields)
    BY QuestionsShape DEF SetupInv
  <2>2. Len(q) \in Nat
    BY LenProperties
  <2>3. index \in 1..(Len(q) + 1) /\ ~(index > Len(q))
    BY DEF SetupInv, Setup!Answer, Setup!AtReview
  <2>4. index \in 1..Len(q)
    BY <2>3
  <2> QED BY <2>1, <2>2, <2>4, ElementOfSeq
<1>2. PICK v \in Setup!Acceptable(f) : answers' = Setup!Record(answers, f, v)
  BY DEF Setup!Answer, Setup!Question
<1> DEFINE b == [answers EXCEPT ![f] = v]
           p == Setup!Questions(b)
<1>3. b[f] = v /\ \A g \in Setup!Fields : g # f => b[g] = answers[g]
  BY <1>1 DEF SetupInv, Proper
<1>4. Proper(b)
  BY DEF SetupInv, Proper
<1>5. v # None
  <2>1. \A g : Setup!Acceptable(g) \subseteq
            {"join", "independent", "supplied", "managed-acme", "given"} \union Nat
    BY DEF Setup!Acceptable
  <2> QED BY <2>1, NoAnswerAssumption
<1> HIDE DEF b
<1>6. index <= Len(p) /\ \A j \in 1..index : p[j] = q[j]
  BY <1>1, <1>3, <1>4, PrefixKept DEF SetupInv
<1>7. /\ Proper(answers') /\ Setup!Questions(answers') = p
      /\ Setup!Given(answers') \subseteq Setup!Asked(answers')
      /\ \A g \in Setup!Asked(b) : answers'[g] = b[g]
  <2>1. CASE f \in {Setup!F("purpose"), Setup!F("tls_mode"), Setup!F("node_count"), Setup!F("relay_count")}
    <3>1. answers' = Setup!Permitted(b)
      BY <1>2, <2>1 DEF Setup!Record, b
    <3> QED BY <3>1, <1>4, PermittedShape
  <2>2. CASE f
                \notin {Setup!F("purpose"), Setup!F("tls_mode"), Setup!F("node_count"), Setup!F("relay_count")}
    <3>1. answers' = b
      BY <1>2, <2>2 DEF Setup!Record, b
    <3>2. \A n \in {"purpose", "tls_mode", "relay_count", "node_count"} :
              b[<<n, 0>>] = answers[<<n, 0>>]
      BY <1>3, <2>2, FieldsHold DEF Setup!F
    <3>3. p = q
      BY <3>2, SameQuestions
    <3>4. Setup!Asked(b) = Setup!Asked(answers)
      BY <3>3 DEF Setup!Asked
    <3>5. f \in Setup!Asked(answers)
      BY <1>1, AskedAt DEF SetupInv
    <3>6. Setup!Given(b) \subseteq Setup!Given(answers) \union {f}
      BY <1>3 DEF Setup!Given
    <3>7. Setup!Given(answers) \subseteq Setup!Asked(answers)
      BY DEF SetupInv
    <3>8. Setup!Given(b) \subseteq Setup!Asked(b)
      BY <3>4, <3>5, <3>6, <3>7
    <3> QED BY <1>4, <3>1, <3>8
  <2> QED BY <2>1, <2>2
<1>8. index' = index + 1 /\ draft' = draft
  BY DEF Setup!Answer
<1>11. index' \in 1..(Len(p) + 1)
  BY <1>1, <1>6, <1>8
<1>12. ASSUME NEW i \in 1..Len(p), i < index' PROVE answers'[p[i]] # None
  <2>1. i \in 1..index /\ i \in 1..Len(q)
    BY <1>1, <1>8, <1>12
  <2>2. p[i] = q[i] /\ p[i] \in Setup!Asked(b) /\ p[i] \in Setup!Fields
    BY <1>4, <1>6, <2>1, AskedAt
  <2>3. CASE p[i] = f
    BY <1>3, <1>5, <1>7, <2>2, <2>3
  <2>4. CASE p[i] # f
    <3>1. i < index
      BY <1>1, <2>1, <2>2, <2>4
    <3>2. answers[q[i]] # None
      BY <3>1 DEF SetupInv
    <3> QED BY <1>3, <1>7, <2>2, <2>4, <3>2
  <2> QED BY <2>3, <2>4
<1>13. Proper(draft) /\ Setup!Given(draft) \subseteq Setup!Asked(draft)
  BY DEF SetupInv
<1> HIDE DEF p, q, f
<1> QED BY <1>7, <1>8, <1>11, <1>12, <1>13 DEF SetupInv

LEMMA SetupStepInv == SetupInv /\ [Setup!Next]_setupVars => SetupInv'
<1> SUFFICES ASSUME SetupInv, [Setup!Next]_setupVars PROVE SetupInv'
  OBVIOUS
<1>1. CASE Setup!Answer
  BY <1>1, SetupAnswers
<1>2. CASE Setup!Back
  <2> DEFINE n == Len(Setup!Questions(answers))
  <2>2. n \in Nat
    BY LenProperties
  <2>3. index \in 1..(n + 1) /\ index > 1 /\ index' = IF index > n THEN n ELSE index - 1
    BY <1>2 DEF Setup!Back, Setup!AtReview, SetupInv
  <2>4. UNCHANGED <<answers, draft>>
    BY <1>2 DEF Setup!Back
  <2> HIDE DEF n
  <2>5. index' \in 1..(n + 1) /\ index' <= index
    BY <2>2, <2>3
  <2>6. \A i \in 1..n : i < index' => i < index
    BY <2>3, <2>5
  <2> QED BY <2>4, <2>5, <2>6 DEF SetupInv, n
<1>3. CASE Setup!SaveDraft \/ Setup!Cancel \/ Setup!Prepare \/ Setup!Start
  BY <1>3, SetupBegins DEF Setup!SaveDraft, Setup!Cancel, Setup!Prepare, Setup!Start, Setup!Ended
<1>4. CASE Setup!Resume
  BY <1>4, SetupBegins DEF Setup!Resume
<1>5. CASE UNCHANGED setupVars
  BY <1>5 DEF setupVars, SetupInv
<1> QED BY <1>1, <1>2, <1>3, <1>4, <1>5 DEF Setup!Next

\* What is resumed was accepted question by question.
LEMMA SetupResumes == SetupInv => Setup!DraftsResume
<1> SUFFICES ASSUME SetupInv PROVE Setup!DraftsResume
  OBVIOUS
<1>1. Setup!Resumable(draft)
  BY DEF SetupInv, Setup!Resumable, Proper, Setup!Given
<1>2. ASSUME Setup!AtReview PROVE Setup!Given(answers) = Setup!Asked(answers)
  <2> DEFINE q == Setup!Questions(answers)
  <2>3. \A i \in 1..Len(q) : i < index
    BY <1>2 DEF Setup!AtReview, SetupInv
  <2>4. \A i \in 1..Len(q) : answers[q[i]] # None
    BY <2>3 DEF SetupInv
  <2>5. Setup!Asked(answers) = {q[i] : i \in 1..Len(q)} /\ Setup!Asked(answers) \subseteq Setup!Fields
    BY AskedAt DEF SetupInv
  <2>6. Setup!Asked(answers) \subseteq Setup!Given(answers)
    BY <2>4, <2>5 DEF Setup!Given
  <2> QED BY <2>6 DEF SetupInv
<1> QED BY <1>1, <1>2 DEF Setup!DraftsResume

-----------------------------------------------------------------------------
(* The journey (scripts/journey_wizard.py).                                *)

\* The answers to the questions before the one that is asked have been given, and past its
\* question the second location is not the first.
JourneyInv ==
    /\ question \in 1..8
    /\ DOMAIN given = Journey!Names /\ DOMAIN saved = Journey!Names
    /\ journey = "asking" =>
          /\ \A i \in 1..7 : i < question => given[Journey!FIELDS[i]] \in Journey!Values(Journey!FIELDS[i])
          /\ question > 6 => given["recovery_location"] # given["primary_location"]

\* The seven fields of a journey.
LEMMA JourneyNames ==
    Journey!Names = {"purpose", "institution_id", "services", "responsible_operator",
                     "primary_location", "recovery_location", "network"}
<1>1. DOMAIN Journey!FIELDS = 1..7
  BY DEF Journey!FIELDS
<1>2. \A i \in 1..7 : i = 1 \/ i = 2 \/ i = 3 \/ i = 4 \/ i = 5 \/ i = 6 \/ i = 7
  OBVIOUS
<1> QED BY <1>1, <1>2 DEF Journey!Names, Journey!FIELDS

LEMMA JourneyInitInv == Journey!Init => JourneyInv
<1> SUFFICES ASSUME Journey!Init PROVE JourneyInv
  OBVIOUS
<1> QED BY DEF Journey!Init, JourneyInv, Journey!NoAnswers

LEMMA JourneyStepInv == JourneyInv /\ [Journey!Next]_journeyVars => JourneyInv'
<1> SUFFICES ASSUME JourneyInv, [Journey!Next]_journeyVars PROVE JourneyInv'
  OBVIOUS
<1>1. CASE Journey!Answer
  <2> DEFINE f == Journey!FIELDS[question]
  <2>1. PICK v \in Journey!Values(f) : Journey!Takes(f, v) /\ given' = [given EXCEPT ![f] = v]
    BY <1>1 DEF Journey!Answer
  <2>2. journey = "asking" /\ question \in 1..7 /\ question' = question + 1 /\ journey' = "asking" /\ saved' = saved
    BY <1>1 DEF Journey!Answer, Journey!Asking, Journey!FIELDS
  <2>4. f \in Journey!Names
    BY <2>2 DEF Journey!Names, Journey!FIELDS
  <2>5. \A i \in 1..7 : i < question' =>
            given'[Journey!FIELDS[i]] \in Journey!Values(Journey!FIELDS[i])
    BY <2>1, <2>2, <2>4 DEF JourneyInv
  <2>6. question' > 6 => given'["recovery_location"] # given'["primary_location"]
    <3>1. CASE question = 6
      BY <3>1, <2>1, <2>4 DEF Journey!FIELDS, Journey!Takes, JourneyInv
    <3>2. CASE question = 7
      BY <3>2, <2>1, <2>2 DEF Journey!FIELDS, JourneyInv
    <3> QED BY <3>1, <3>2, <2>2
  <2>7. DOMAIN given' = Journey!Names /\ DOMAIN saved' = Journey!Names
    BY <2>1, <2>2 DEF JourneyInv
  <2>8. question' \in 1..8
    BY <2>2
  <2> QED BY <2>5, <2>6, <2>7, <2>8 DEF JourneyInv
<1>2. CASE Journey!Back
  BY <1>2 DEF Journey!Back, JourneyInv
<1>3. CASE Journey!SaveDraft \/ Journey!SavePlan \/ Journey!Cancel
  BY <1>3 DEF Journey!SaveDraft, Journey!SavePlan, Journey!Cancel, JourneyInv
<1>4. CASE Journey!Start
  <2>1. given' \in {Journey!NoAnswers, saved} /\ question' = 1 /\ saved' = saved
    BY <1>4 DEF Journey!Start
  <2>2. DOMAIN Journey!NoAnswers = Journey!Names
    BY DEF Journey!NoAnswers
  <2> QED BY <2>1, <2>2 DEF JourneyInv
<1>5. CASE UNCHANGED journeyVars
  BY <1>5 DEF journeyVars, JourneyInv
<1> QED BY <1>1, <1>2, <1>3, <1>4, <1>5 DEF Journey!Next

\* At the review every field has been answered.
LEMMA JourneyReview == JourneyInv => Journey!ReviewValid
<1> SUFFICES ASSUME JourneyInv, Journey!AtReview PROVE
        /\ Journey!Valid(given, FALSE)
        /\ \A m \in Journey!Machines(given) :
               m.location = given["primary_location"] =>
                   \E r, b \in Journey!Machines(given) :
                       /\ r.role = m.role /\ r.use = "replacement" /\ b.use = "backup"
                       /\ {r.network, b.network} = {m.network}
                       /\ m.location \notin {r.location, b.location}
  BY DEF Journey!ReviewValid
<1> DEFINE primary == given["primary_location"]
           recovery == given["recovery_location"]
<1>1. question = 8 /\ journey = "asking"
  BY DEF Journey!AtReview, Journey!FIELDS, JourneyInv
<1>2. \A i \in 1..7 : given[Journey!FIELDS[i]] \in Journey!Values(Journey!FIELDS[i])
  BY <1>1 DEF JourneyInv
<1>3. /\ given["purpose"] \in {"personal", "institution", "regional"}
      /\ given["institution_id"] = "institution_id"
      /\ given["services"] \in {"matrix", "nextcloud", "both"}
      /\ given["responsible_operator"] = "responsible_operator"
      /\ primary \in Places
      /\ recovery \in Places
      /\ given["network"] \in {"new", "existing"}
  BY <1>2 DEF Journey!FIELDS, Journey!Values
<1>4. primary # recovery /\ primary # None
  BY <1>1, <1>3, PlacesAssumption DEF JourneyInv
<1>5. Journey!Valid(given, FALSE)
  BY <1>3, <1>4, JourneyNames, PlacesAssumption, NoAnswerAssumption DEF Journey!Valid
<1>6. ASSUME NEW m \in Journey!Machines(given), m.location = primary
      PROVE  \E r, b \in Journey!Machines(given) :
                 /\ r.role = m.role /\ r.use = "replacement" /\ b.use = "backup"
                 /\ {r.network, b.network} = {m.network}
                 /\ m.location \notin {r.location, b.location}
  <2> DEFINE Stands(role, use, network, location) ==
                 [role |-> role, use |-> use, network |-> network, location |-> location]
  <2>1. CASE \E s \in Journey!Selected(given) : m = Stands(s, "active", "institutional", primary)
    <3> PICK s \in Journey!Selected(given) : m = Stands(s, "active", "institutional", primary)
      BY <2>1
    <3>1. Stands(s, "replacement", "institutional", recovery) \in Journey!Machines(given)
      BY DEF Journey!Machines, Journey!Machine, Journey!Spare
    <3>2. Stands("applications", "backup", "institutional", recovery) \in Journey!Machines(given)
      BY DEF Journey!Machines, Journey!Machine
    <3> QED BY <3>1, <3>2, <1>4
  <2>2. CASE given["purpose"] = "regional" /\ m = Stands("gateway", "active", "regional", primary)
    <3>1. Stands("gateway", "replacement", "regional", recovery) \in Journey!Machines(given)
      BY <2>2 DEF Journey!Machines, Journey!Machine
    <3>2. Stands("gateway", "backup", "regional", recovery) \in Journey!Machines(given)
      BY <2>2 DEF Journey!Machines, Journey!Machine
    <3> QED BY <3>1, <3>2, <2>2, <1>4
  <2>3. \/ \E s \in Journey!Selected(given) : m = Stands(s, "active", "institutional", primary)
        \/ given["purpose"] = "regional" /\ m = Stands("gateway", "active", "regional", primary)
        \/ m.location \in {None, recovery}
    BY DEF Journey!Machines, Journey!Machine, Journey!Spare
  <2> QED BY <2>1, <2>2, <2>3, <1>6, <1>4
<1> QED BY <1>5, <1>6

-----------------------------------------------------------------------------
(* A folder of prepared files.                                             *)

\* The types of a folder, its record and the commands that write it.
FolderTypeOK ==
    /\ kind \in {"setup", "journey", "kit"} /\ claimed \in BOOLEAN /\ overlap \in BOOLEAN
    /\ files \in [Folder!Names -> Contents \union {"absent", "partial"}]
    /\ record \in [outputs : SUBSET Folder!Names, version : Contents \union {None}]
    /\ writer \in [Preparers -> [pc : {"idle", "invalidate", "unlink", "write", "fill"},
                                 outputs : SUBSET Folder!Names, left : SUBSET Folder!Names,
                                 version : Contents \union {None}, replace : BOOLEAN]]

\* The names a command has written so far.
Done(w) == writer[w].outputs \ writer[w].left

\* A command that works has something to write, and between two files what it wrote is whole;
\* it is what it wrote unless a replacement is not alone.
WrittenWhole ==
    \A w \in Preparers :
        /\ Folder!Working(w) => writer[w].version \in Contents
        /\ writer[w].pc = "write" =>
               /\ \A n \in Done(w) : files[n] \in Contents
               /\ ~overlap => \A n \in Done(w) : files[n] = writer[w].version
        /\ writer[w].pc = "fill" =>
               \A n \in Done(w) : files[n] \in {writer[w].version, "partial"}

\* A replacement begins by the record and so does not write beside one; it is alone unless
\* commands have overlapped.
ReplacesAlone ==
    \A w \in Preparers :
        /\ writer[w].replace => Folder!Working(w) /\ kind # "kit"
        /\ writer[w].pc \in {"invalidate", "unlink"} =>
               writer[w].replace /\ writer[w].left = writer[w].outputs
        /\ writer[w].replace /\ ~overlap =>
               /\ \A x \in Preparers : x # w => ~Folder!Working(x)
               /\ writer[w].pc = "write" => record = Folder!NoRecord

\* A kit's preparation is alone in its folder and happens once.
KitAlone ==
    /\ \A w \in Preparers : writer[w].pc = "fill" => kind = "kit"
    /\ kind = "kit" =>
           /\ ~overlap
           /\ \A w \in Preparers : Folder!Working(w) =>
                  /\ writer[w].outputs = Folder!Names /\ record = Folder!NoRecord
                  /\ \A x \in Preparers : x # w => ~Folder!Working(x)
           /\ ~claimed => record = Folder!NoRecord /\ \A w \in Preparers : ~Folder!Working(w)

\* A record is of files that are whole, and of contents which the folder has.
RecordHeld ==
    record # Folder!NoRecord =>
        /\ record.version \in Contents
        /\ \A n \in record.outputs : files[n] \in Contents
        /\ ~overlap => \A n \in record.outputs : files[n] = record.version
        /\ kind = "kit" => record.outputs = Folder!Names

\* A bundle's files are whole at any time.
NeverPartial == kind # "kit" => \A n \in Folder!Names : files[n] # "partial"

FolderInv ==
    FolderTypeOK /\ WrittenWhole /\ ReplacesAlone /\ KitAlone /\ RecordHeld /\ NeverPartial

LEMMA FolderInitInv == Folder!Init => FolderInv
<1> SUFFICES ASSUME Folder!Init PROVE FolderInv
  OBVIOUS
<1> USE DEF Folder!Init, Folder!Idle, Folder!NoRecord, Folder!Absent
<1>1. FolderTypeOK
  BY DEF FolderTypeOK
<1>2. WrittenWhole /\ ReplacesAlone /\ KitAlone /\ RecordHeld /\ NeverPartial
  BY DEF WrittenWhole, ReplacesAlone, KitAlone, RecordHeld, NeverPartial, Folder!Working
<1> QED BY <1>1, <1>2 DEF FolderInv

\* A command starts to write: a bundle's, or the first of a kit.
LEMMA FolderEnters ==
    ASSUME FolderInv, NEW w \in Preparers, NEW v \in Contents, NEW r \in BOOLEAN,
           NEW outputs \in SUBSET Folder!Names, UNCHANGED <<kind, files, record>>,
           Folder!Enter(w, outputs, v, r), ~writer[w].replace,
           IF kind = "kit" THEN ~r /\ ~claimed /\ claimed' = TRUE /\ outputs = Folder!Names
                           ELSE claimed' = claimed
    PROVE  FolderInv'
<1> USE DEF FolderInv, Folder!Enter
<1>1. /\ writer'[w] = [pc |-> IF r THEN "invalidate" ELSE "write", outputs |-> outputs,
                       left |-> outputs, version |-> v, replace |-> r]
      /\ \A x \in Preparers : x # w => writer'[x] = writer[x]
  BY DEF FolderTypeOK
<1>2. ~overlap' => ~overlap /\ \A x \in Preparers : x # w /\ Folder!Working(x) =>
                                                        ~r /\ ~writer[x].replace
  OBVIOUS
<1>3. FolderTypeOK'
  BY DEF FolderTypeOK
<1>4. WrittenWhole'
  BY <1>1, <1>2 DEF WrittenWhole, Folder!Working, Done
<1>5. ReplacesAlone'
  BY <1>1, <1>2 DEF ReplacesAlone, Folder!Working
<1>6. KitAlone'
  <2>1. CASE kind = "kit"
    <3>1. record = Folder!NoRecord /\ \A x \in Preparers : ~Folder!Working(x)
      BY <2>1 DEF KitAlone
    <3>2. ~overlap'
      BY <2>1, <3>1 DEF KitAlone
    <3> QED BY <1>1, <2>1, <3>1, <3>2 DEF KitAlone, Folder!Working, Folder!NoRecord
  <2>2. CASE kind # "kit"
    BY <1>1, <2>2 DEF KitAlone
  <2> QED BY <2>1, <2>2
<1>7. RecordHeld' /\ NeverPartial'
  BY <1>2, <1>6 DEF RecordHeld, NeverPartial, Folder!NoRecord
<1> QED BY <1>3, <1>4, <1>5, <1>6, <1>7

\* A command ends, with a record or without one.
LEMMA FolderRests ==
    ASSUME FolderInv, NEW w \in Preparers, UNCHANGED <<kind, claimed, files, overlap>>,
           writer' = [writer EXCEPT ![w] = Folder!Idle],
           record' \in [outputs : SUBSET Folder!Names, version : Contents \union {None}],
           RecordHeld',
           \/ record' = record
           \/ /\ kind = "kit" => claimed /\ \A x \in Preparers : x # w => ~Folder!Working(x)
              /\ ~overlap => \A x \in Preparers : x # w => ~writer[x].replace
    PROVE  FolderInv'
<1> USE DEF FolderInv
<1>1. /\ writer'[w].pc = "idle" /\ ~writer'[w].replace
      /\ \A x \in Preparers : x # w => writer'[x] = writer[x]
  BY DEF FolderTypeOK, Folder!Idle
<1>2. FolderTypeOK'
  BY DEF FolderTypeOK, Folder!Idle
<1>3. WrittenWhole'
  BY <1>1 DEF WrittenWhole, Folder!Working, Done
<1>4. ReplacesAlone'
  BY <1>1 DEF ReplacesAlone, Folder!Working, Folder!NoRecord
<1>5. KitAlone'
  BY <1>1 DEF KitAlone, Folder!Working, Folder!NoRecord
<1>6. NeverPartial'
  BY DEF NeverPartial
<1> QED BY <1>2, <1>3, <1>4, <1>5, <1>6

\* A replacement has no record before it any more and goes on to its files.
LEMMA FolderInvalidates ==
    ASSUME FolderInv, NEW w \in Preparers, UNCHANGED <<kind, claimed, files>>,
           writer[w].pc \in {"invalidate", "unlink"}, record' = Folder!NoRecord,
           writer' = [writer EXCEPT ![w].pc = "write"], overlap' = Folder!Beside(w)
    PROVE  FolderInv'
<1> USE DEF FolderInv
<1>1. /\ writer'[w].pc = "write" /\ writer'[w].outputs = writer[w].outputs
      /\ writer'[w].left = writer[w].left /\ writer'[w].version = writer[w].version
      /\ writer'[w].replace = writer[w].replace
      /\ \A x \in Preparers : x # w => writer'[x] = writer[x]
  BY DEF FolderTypeOK
<1>2. writer[w].replace /\ kind # "kit" /\ Done(w) = {} /\ writer[w].version \in Contents
  BY DEF ReplacesAlone, WrittenWhole, Done, Folder!Working
<1>3. ~overlap' => \A x \in Preparers : x # w => ~Folder!Working(x)
  BY DEF Folder!Beside
<1>4. FolderTypeOK'
  BY DEF FolderTypeOK, Folder!NoRecord, Folder!Beside
<1>5. WrittenWhole'
  BY <1>1, <1>2, <1>3 DEF WrittenWhole, Folder!Working, Done
<1>6. ReplacesAlone'
  BY <1>1, <1>2, <1>3 DEF ReplacesAlone, Folder!Working, Folder!NoRecord
<1>7. KitAlone'
  BY <1>1, <1>2 DEF KitAlone
<1>8. RecordHeld' /\ NeverPartial'
  BY DEF RecordHeld, NeverPartial, Folder!NoRecord
<1> QED BY <1>4, <1>5, <1>6, <1>7, <1>8

\* A bundle's file appears whole.
LEMMA FolderWrites ==
    ASSUME FolderInv, NEW w \in Preparers, NEW n \in Folder!Names, Folder!WriteFile(w, n)
    PROVE  FolderInv'
<1> USE DEF FolderInv, Folder!WriteFile
<1>1. /\ writer'[w].pc = "write" /\ writer'[w].outputs = writer[w].outputs
      /\ writer'[w].left = writer[w].left \ {n} /\ writer'[w].version = writer[w].version
      /\ writer'[w].replace = writer[w].replace
      /\ \A x \in Preparers : x # w => writer'[x] = writer[x]
  BY DEF FolderTypeOK
<1>2. files'[n] = writer[w].version /\ \A o \in Folder!Names : o # n => files'[o] = files[o]
  BY DEF FolderTypeOK
<1>3. writer[w].version \in Contents /\ kind # "kit"
  BY DEF WrittenWhole, Folder!Working
<1>4. \A x \in Preparers : Folder!Working(x)' <=> Folder!Working(x)
  BY <1>1 DEF Folder!Working
<1>5. FolderTypeOK'
  BY <1>3 DEF FolderTypeOK
<1>6. ReplacesAlone'
  BY <1>1, <1>4 DEF ReplacesAlone, Folder!NoRecord
<1>7. KitAlone'
  BY <1>1, <1>3 DEF KitAlone
<1>8. \A o \in Folder!Names : files[o] \in Contents => files'[o] \in Contents
  BY <1>2, <1>3
<1>9. ~overlap => \/ writer[w].replace /\ record = Folder!NoRecord
                     /\ \A x \in Preparers : x # w => ~Folder!Working(x)
                  \/ files[n] \notin Contents
  BY ContentsAssumption DEF ReplacesAlone, Folder!Absent
<1>10. WrittenWhole'
  <2>1. \A x \in Preparers : Folder!Working(x)' => writer'[x].version \in Contents
    BY <1>1, <1>4 DEF WrittenWhole
  <2>2. \A x \in Preparers : writer'[x].pc # "fill"
    BY <1>1, <1>3 DEF KitAlone
  <2>3. ASSUME NEW x \in Preparers, x # w, writer'[x].pc = "write", NEW o \in Done(x)'
        PROVE  files'[o] \in Contents /\ (~overlap' => files'[o] = writer'[x].version)
    <3>1. writer[x].pc = "write" /\ o \in Done(x) /\ Folder!Working(x) /\ o \in Folder!Names
      BY <2>3, <1>1 DEF Done, Folder!Working, FolderTypeOK
    <3>2. files[o] \in Contents /\ (~overlap => files[o] = writer[x].version)
      BY <3>1 DEF WrittenWhole
    <3> QED BY <2>3, <3>1, <3>2, <1>1, <1>2, <1>8, <1>9
  <2>4. ASSUME NEW o \in Done(w)'
        PROVE  files'[o] \in Contents /\ (~overlap' => files'[o] = writer'[w].version)
    <3>1. o = n \/ (o # n /\ o \in Done(w) /\ o \in Folder!Names)
      BY <2>4, <1>1 DEF Done, FolderTypeOK
    <3> QED BY <3>1, <1>1, <1>2, <1>3 DEF WrittenWhole
  <2> QED BY <2>1, <2>2, <2>3, <2>4 DEF WrittenWhole
<1>11. RecordHeld'
  <2>1. ASSUME record # Folder!NoRecord, NEW o \in record.outputs
        PROVE  files'[o] \in Contents /\ (~overlap' => files'[o] = record.version)
    <3>1. files[o] \in Contents /\ (~overlap => files[o] = record.version) /\ o \in Folder!Names
      BY <2>1 DEF RecordHeld, FolderTypeOK
    <3> QED BY <2>1, <3>1, <1>2, <1>8, <1>9
  <2> QED BY <2>1, <1>3 DEF RecordHeld, Folder!NoRecord
<1>12. NeverPartial'
  BY <1>2, <1>3, ContentsAssumption DEF NeverPartial
<1> QED BY <1>5, <1>6, <1>7, <1>10, <1>11, <1>12

\* A kit's file is created or filled by the only command that works in its directory.
LEMMA FolderFills ==
    ASSUME FolderInv, NEW w \in Preparers,
           Folder!FillFile(w) \/ \E n \in Folder!Names : Folder!CreateFile(w, n)
    PROVE  FolderInv'
<1> USE DEF FolderInv, Folder!Partial
<1>1. /\ kind = "kit" /\ writer[w].pc \in {"write", "fill"} /\ Folder!Working(w)
      /\ UNCHANGED <<kind, claimed, record, overlap>>
  BY DEF Folder!FillFile, Folder!CreateFile, KitAlone, Folder!Working
<1>2. /\ record = Folder!NoRecord /\ ~overlap /\ claimed /\ writer[w].outputs = Folder!Names
      /\ \A x \in Preparers : x # w => ~Folder!Working(x)
      /\ ~writer[w].replace /\ writer[w].version \in Contents
  BY <1>1 DEF KitAlone, ReplacesAlone, WrittenWhole
<1>3. ASSUME writer'[w].pc \in {"write", "fill"}, writer'[w].outputs = writer[w].outputs,
             writer'[w].version = writer[w].version, ~writer'[w].replace,
             \A x \in Preparers : x # w => writer'[x] = writer[x],
             \A n \in Done(w)' : files'[n] \in {writer[w].version, "partial"},
             writer'[w].pc = "write" => \A n \in Done(w)' : files'[n] = writer[w].version
      PROVE  FolderInv'
  <2>1. \A x \in Preparers : Folder!Working(x)' <=> x = w
    BY <1>2, <1>3 DEF Folder!Working
  <2>2. ReplacesAlone'
    BY <1>2, <1>3, <2>1 DEF ReplacesAlone, Folder!Working
  <2>3. KitAlone'
    BY <1>1, <1>2, <1>3, <2>1 DEF KitAlone, Folder!NoRecord
  <2>4. RecordHeld' /\ NeverPartial'
    BY <1>1, <1>2 DEF RecordHeld, NeverPartial, Folder!NoRecord
  <2>5. WrittenWhole'
    BY <1>2, <1>3, <2>1 DEF WrittenWhole, Folder!Working
  <2>6. FolderTypeOK'
    BY <1>1, <1>2 DEF Folder!FillFile, Folder!CreateFile, FolderTypeOK
  <2> QED BY <2>2, <2>3, <2>4, <2>5, <2>6
<1>4. CASE Folder!FillFile(w)
  <2>1. /\ writer[w].pc = "fill" /\ writer' = [writer EXCEPT ![w].pc = "write"]
        /\ files' = [n \in Folder!Names |->
                        IF files[n] = "partial" THEN writer[w].version ELSE files[n]]
    BY <1>4 DEF Folder!FillFile
  <2>2. /\ writer'[w].pc = "write" /\ writer'[w].left = writer[w].left
        /\ writer'[w].outputs = writer[w].outputs /\ writer'[w].version = writer[w].version
        /\ writer'[w].replace = writer[w].replace
        /\ \A x \in Preparers : x # w => writer'[x] = writer[x]
    BY <2>1 DEF FolderTypeOK
  <2>4. \A n \in Done(w)' : files'[n] = writer[w].version
    BY <2>1, <2>2 DEF WrittenWhole, Done, FolderTypeOK
  <2> QED BY <1>2, <1>3, <2>2, <2>4
<1>5. ASSUME NEW n \in Folder!Names, Folder!CreateFile(w, n) PROVE FolderInv'
  <2>1. /\ writer[w].pc = "write"
        /\ writer' = [writer EXCEPT ![w].pc = "fill", ![w].left = @ \ {n}]
        /\ files' = [files EXCEPT ![n] = "partial"]
    BY <1>5 DEF Folder!CreateFile
  <2>2. /\ writer'[w].pc = "fill" /\ writer'[w].left = writer[w].left \ {n}
        /\ writer'[w].outputs = writer[w].outputs /\ writer'[w].version = writer[w].version
        /\ writer'[w].replace = writer[w].replace
        /\ \A x \in Preparers : x # w => writer'[x] = writer[x]
    BY <2>1 DEF FolderTypeOK
  <2>4. \A o \in Done(w)' : files'[o] \in {writer[w].version, "partial"}
    BY <1>2, <2>1, <2>2 DEF WrittenWhole, Done, FolderTypeOK
  <2> QED BY <1>2, <1>3, <2>2, <2>4
<1> QED BY <1>4, <1>5

LEMMA FolderStepInv == FolderInv /\ [Folder!Next]_folderVars => FolderInv'
<1> SUFFICES ASSUME FolderInv, [Folder!Next]_folderVars PROVE FolderInv'
  OBVIOUS
<1> USE DEF FolderInv
<1>0. /\ record \in [outputs : SUBSET Folder!Names, version : Contents \union {None}]
      /\ UNCHANGED <<kind, files, record, overlap>> => RecordHeld'
  BY DEF FolderTypeOK, RecordHeld, Folder!NoRecord
<1>1. ASSUME NEW w \in Preparers, NEW outputs \in OutputSets, NEW v \in Contents,
             Folder!BeginBundle(w, outputs, v)
      PROVE  FolderInv'
  <2>1. outputs \in SUBSET Folder!Names
    BY DEF Folder!Names
  <2>2. Folder!Asks(outputs) \in BOOLEAN /\ ~writer[w].replace
    BY <1>1 DEF Folder!BeginBundle, Folder!Asks, Folder!Taken, ReplacesAlone
  <2> QED BY <1>1, <2>1, <2>2, FolderEnters DEF Folder!BeginBundle
<1>2. ASSUME NEW w \in Preparers, NEW v \in Contents, Folder!BeginKit(w, v) PROVE FolderInv'
  <2>1. ~writer[w].replace
    BY <1>2 DEF Folder!BeginKit, ReplacesAlone
  <2> QED BY <1>2, <2>1, FolderEnters DEF Folder!BeginKit
<1>3. ASSUME NEW w \in Preparers, Folder!FindRecord(w) PROVE FolderInv'
  <2>1. CASE record = Folder!NoRecord
    BY <1>3, <2>1, FolderInvalidates DEF Folder!FindRecord
  <2>2. CASE record # Folder!NoRecord
    <3>1. /\ UNCHANGED <<kind, claimed, files, record, overlap>> /\ writer[w].pc = "invalidate"
          /\ writer' = [writer EXCEPT ![w].pc = "unlink"]
      BY <1>3, <2>2 DEF Folder!FindRecord
    <3>2. /\ writer'[w].pc = "unlink" /\ writer'[w].outputs = writer[w].outputs
          /\ writer'[w].left = writer[w].left /\ writer'[w].version = writer[w].version
          /\ writer'[w].replace = writer[w].replace
          /\ \A x \in Preparers : x # w => writer'[x] = writer[x]
      BY <3>1 DEF FolderTypeOK
    <3>3. FolderTypeOK' /\ NeverPartial'
      BY <3>1 DEF FolderTypeOK, NeverPartial
    <3>4. WrittenWhole'
      BY <3>1, <3>2 DEF WrittenWhole, Done, Folder!Working
    <3>5. ReplacesAlone' /\ KitAlone'
      BY <3>1, <3>2 DEF ReplacesAlone, KitAlone, Folder!Working, Folder!NoRecord
    <3> QED BY <1>0, <3>1, <3>3, <3>4, <3>5
  <2> QED BY <2>1, <2>2
<1>4. ASSUME NEW w \in Preparers, Folder!Invalidate(w) PROVE FolderInv'
  BY <1>4, FolderInvalidates DEF Folder!Invalidate, Folder!DropRecord
<1>5. ASSUME NEW w \in Preparers, Folder!RecordGone(w) PROVE FolderInv'
  BY <1>0, <1>5, FolderRests DEF Folder!RecordGone
<1>6. ASSUME NEW w \in Preparers, NEW n \in Folder!Names, Folder!WriteFile(w, n) PROVE FolderInv'
  BY <1>6, FolderWrites
<1>7. ASSUME NEW w \in Preparers, NEW n \in Folder!Names, Folder!CreateFile(w, n) PROVE FolderInv'
  BY <1>7, FolderFills
<1>8. ASSUME NEW w \in Preparers, Folder!FillFile(w) PROVE FolderInv'
  BY <1>8, FolderFills
<1>9. ASSUME NEW w \in Preparers, Folder!Refused(w) PROVE FolderInv'
  <2>1. CASE writer' = [writer EXCEPT ![w] = Folder!Idle] /\ UNCHANGED overlap
    BY <1>0, <1>9, <2>1, FolderRests DEF Folder!Refused
  <2>2. CASE Folder!Enter(w, writer[w].outputs, writer[w].version, TRUE)
    <3>1. writer[w].outputs \in SUBSET Folder!Names /\ writer[w].version \in Contents
      BY <1>9 DEF Folder!Refused, FolderTypeOK, WrittenWhole, Folder!Working
    <3> QED BY <1>9, <2>2, <3>1, FolderEnters DEF Folder!Refused
  <2> QED BY <1>9, <2>1, <2>2 DEF Folder!Refused
<1>10. ASSUME NEW w \in Preparers, Folder!WriteRecord(w) PROVE FolderInv'
  <2>1. /\ writer[w].version \in Contents /\ Folder!Working(w)
        /\ \A n \in writer[w].outputs : files[n] \in Contents
        /\ ~overlap => \A n \in writer[w].outputs : files[n] = writer[w].version
        /\ kind = "kit" => writer[w].outputs = Folder!Names
    BY <1>10 DEF Folder!WriteRecord, WrittenWhole, KitAlone, Folder!Working, Done
  <2>2. RecordHeld'
    BY <1>10, <2>1 DEF Folder!WriteRecord, RecordHeld
  <2>3. record' \in [outputs : SUBSET Folder!Names, version : Contents \union {None}]
    BY <1>10 DEF Folder!WriteRecord, FolderTypeOK
  <2>4. /\ kind = "kit" => claimed /\ \A x \in Preparers : x # w => ~Folder!Working(x)
        /\ ~overlap => \A x \in Preparers : x # w => ~writer[x].replace
    BY <2>1 DEF KitAlone, ReplacesAlone
  <2> QED BY <1>10, <2>2, <2>3, <2>4, FolderRests DEF Folder!WriteRecord
<1>11. ASSUME NEW w \in Preparers, Folder!Kill(w) PROVE FolderInv'
  BY <1>0, <1>11, FolderRests DEF Folder!Kill
<1>12. CASE UNCHANGED folderVars
  BY <1>12 DEF folderVars, FolderTypeOK, WrittenWhole, ReplacesAlone, KitAlone, RecordHeld,
               NeverPartial, Folder!Working, Done, Folder!NoRecord
<1> HIDE DEF FolderInv
<1> QED
  BY <1>1, <1>2, <1>3, <1>4, <1>5, <1>6, <1>7, <1>8, <1>9, <1>10, <1>11, <1>12 DEF Folder!Next

\* What is recorded is whole.
LEMMA FolderGenuine == FolderInv => Folder!RecordGenuine
  BY DEF FolderInv, RecordHeld, KitAlone, Folder!RecordGenuine, Folder!Genuine

-----------------------------------------------------------------------------

\* The order of the numbers as a relation, for the library's theorem of least elements.
Less == {ss \in Nat \X Nat : ss[1] < ss[2]}
\* The library proves it for the operator; here it is a set.
LEMMA LessWF == IsWellFoundedOn(Less, Nat)
  BY NatLessThanWellFounded DEF OpToRel, Less
\* A nonempty set of numbers has a least one: it makes First's choice exist.
LEMMA HasLeast ==
    ASSUME NEW S \in SUBSET Nat, S # {}
    PROVE  \E i \in S : \A j \in S : i <= j
<1>1. PICK i \in S : \A j \in S : <<j, i>> \notin Less
  BY LessWF, WFMin
<1>2. ASSUME NEW j \in S PROVE i <= j
  <2>1. <<j, i>> \notin Less
    BY <1>1
  <2>3. ~(j < i)
    BY <2>1 DEF Less
  <2> QED BY <2>3
<1> QED BY <1>2

-----------------------------------------------------------------------------
(* A report of a node's status.  Every row of every table names a state that *)
(* needs attention, and every condition is in a table of some worker.        *)

\* All the conditions and what they are reported as: no state that passes for fine.
Causes ==
    {"upgrade", "restore", "unowned", "absent", "address", "client-stopped", "not-approved",
     "no-controller", "unit-stopped", "unconfigured", "other-scope", "no-storage", "empty",
     "attempt-failed", "overdue", "untested", "other-identity", "clock", "upgraded", "not-served",
     "expired", "expiring", "renewal", "replacement", "container-stopped", "not-listening", "review",
     "transition", "unguarded", "approved", "link-pending", "attached", "suspended"}
Verdicts ==
    {"upgrade-pending", "restore-pending", "unknown", "not-configured", "stopped",
     "awaiting-enrollment", "enrolled-controller-unreachable", "certificate-invalid",
     "certificate-expiring", "renewal-failed", "change-pending", "backup-scope-missing",
     "backup-unreachable", "no-backup", "backup-failed", "backup-overdue", "untested",
     "different-scope", "verified-on-prior-components", "partner-review-required",
     "partners-suspended"}
Row == Causes \X Verdicts

\* A worker with this table looks for the condition.
Finds(table, c) == \E i \in DOMAIN table : table[i][1] = c

\* What one of two tables finds is found by the one that joins them.
LEMMA FindsJoined ==
    ASSUME NEW s \in Seq(Row), NEW t \in Seq(Row)
    PROVE  /\ s \o t \in Seq(Row)
           /\ \A c : Finds(s, c) \/ Finds(t, c) => Finds(s \o t, c)
<1>1. /\ s \o t \in Seq(Row) /\ Len(s \o t) = Len(s) + Len(t)
      /\ \A i \in 1..Len(s) + Len(t) : (s \o t)[i] = IF i <= Len(s) THEN s[i] ELSE t[i - Len(s)]
  BY ConcatProperties
<1>2. /\ DOMAIN s = 1..Len(s) /\ DOMAIN t = 1..Len(t) /\ DOMAIN (s \o t) = 1..Len(s \o t)
      /\ Len(s) \in Nat /\ Len(t) \in Nat
  BY <1>1
<1>3. ASSUME NEW c, NEW i \in DOMAIN s, s[i][1] = c
      PROVE  Finds(s \o t, c)
  <2>1. i \in 1..Len(s) + Len(t) /\ i <= Len(s)
    BY <1>2
  <2>2. (s \o t)[i] = s[i]
    BY <2>1
  <2> QED BY <1>1, <1>2, <1>3, <2>1, <2>2 DEF Finds
<1>4. ASSUME NEW c, NEW i \in DOMAIN t, t[i][1] = c
      PROVE  Finds(s \o t, c)
  <2>1. /\ Len(s) + i \in 1..Len(s) + Len(t) /\ ~(Len(s) + i <= Len(s))
        /\ (Len(s) + i) - Len(s) = i
    BY <1>2
  <2>2. (s \o t)[Len(s) + i] = t[i]
    BY <2>1
  <2> QED BY <1>1, <1>2, <1>4, <2>1, <2>2 DEF Finds
<1> QED BY <1>1, <1>3, <1>4 DEF Finds

\* The first condition of a table that holds names the state; with none it is the other one.
LEMMA FirstNames ==
    ASSUME NEW t \in Seq(Row), NEW o
    PROVE  /\ (\E c \in wrong : Finds(t, c)) => Status!First(t, o) \in Verdicts
           /\ (\A c \in wrong : ~Finds(t, c)) => Status!First(t, o) = o
<1> DEFINE hits == {i \in DOMAIN t : t[i][1] \in wrong}
           least == CHOOSE i \in hits : \A j \in hits : i <= j
<1>1. Status!First(t, o) = IF hits = {} THEN o ELSE t[least][2]
  BY DEF Status!First
<1>2. DOMAIN t \subseteq Nat /\ \A i \in DOMAIN t : t[i] \in Row
  OBVIOUS
<1>3. CASE hits # {}
  <2>1. hits \in SUBSET Nat
    BY <1>2
  <2>2. least \in hits
    <3>1. \E i \in hits : \A j \in hits : i <= j
      <4> HIDE DEF hits
      <4> QED BY <1>3, <2>1, HasLeast
    <3> HIDE DEF hits
    <3> QED BY <3>1
  <2>3. t[least] \in Row /\ t[least][1] \in wrong /\ least \in DOMAIN t
    <3> HIDE DEF least
    <3> QED BY <1>2, <2>2
  <2>4. t[least][2] \in Verdicts
    <3> HIDE DEF least
    <3> QED BY <2>3 DEF Row
  <2> HIDE DEF least, hits
  <2> QED BY <1>1, <1>3, <2>3, <2>4 DEF Finds
<1>4. CASE hits = {}
  <2>1. \A i \in DOMAIN t : t[i][1] \notin wrong
    BY <1>4
  <2> HIDE DEF hits, least
  <2> QED BY <1>1, <1>4, <2>1 DEF Finds
<1> QED BY <1>3, <1>4

-----------------------------------------------------------------------------

\* What is installed, by the fields of the node.
LEMMA NodeKinds ==
    ASSUME NEW n \in Status!Nodes
    PROVE  \/ n.role = "controller" /\ n.package = "none" /\ ~n.issuer
           \/ n.role = "peer" /\ n.package \in {"none", "gateway"} /\ ~n.issuer
           \/ n.role = "peer" /\ n.package = "service" /\ n.issuer
           \/ n.role = "portable" /\ n.package = "service" /\ ~n.issuer
<1>1. \/ n = [role |-> "controller", package |-> "none", issuer |-> FALSE]
      \/ n = [role |-> "peer", package |-> "none", issuer |-> FALSE]
      \/ n = [role |-> "peer", package |-> "gateway", issuer |-> FALSE]
      \/ n \in [role : {"peer"}, package : {"service"}, issuer : {TRUE}]
      \/ n \in [role : {"portable"}, package : {"service"}, issuer : {FALSE}]
  BY DEF Status!Nodes
<1>2. n \in [role : {"peer"}, package : {"service"}, issuer : {TRUE}]
          => n.role = "peer" /\ n.package = "service" /\ n.issuer
  OBVIOUS
<1>3. n \in [role : {"portable"}, package : {"service"}, issuer : {FALSE}]
          => n.role = "portable" /\ n.package = "service" /\ ~n.issuer
  OBVIOUS
<1>4. n = [role |-> "controller", package |-> "none", issuer |-> FALSE]
          => n.role = "controller" /\ n.package = "none" /\ ~n.issuer
  OBVIOUS
<1>5. ASSUME NEW p, n = [role |-> "peer", package |-> p, issuer |-> FALSE]
      PROVE  n.role = "peer" /\ n.package = p /\ ~n.issuer
  BY <1>5
<1> QED BY <1>1, <1>2, <1>3, <1>4, <1>5

\* What every worker looks for first.
LEMMA CommonTables ==
    /\ Status!Pending \in Seq(Row) /\ Status!Discover \in Seq(Row)
    /\ \A c \in {"upgrade", "restore"} : Finds(Status!Pending, c)
    /\ \A c \in {"unowned", "absent"} : Finds(Status!Discover, c)
  BY DEF Status!Pending, Status!Discover, Finds, Row, Causes, Verdicts

\* The tables, by what is installed: each finds all of a group of conditions.
LEMMA NetworkTable ==
    ASSUME NEW n \in Status!Nodes
    PROVE  /\ Status!Network(n) \in Seq(Row)
           /\ n.role = "portable" => Finds(Status!Network(n), "address")
           /\ n.role = "peer" => \A c \in {"client-stopped", "not-approved", "no-controller"} :
                                     Finds(Status!Network(n), c)
           /\ n.role \notin {"portable", "peer"} => Finds(Status!Network(n), "unit-stopped")
<1>1. CASE n.role = "portable"
  BY <1>1 DEF Status!Network, Finds, Row, Causes, Verdicts
<1>2. CASE n.role = "peer"
  BY <1>2 DEF Status!Network, Finds, Row, Causes, Verdicts
<1>3. CASE n.role \notin {"portable", "peer"}
  <2>1. Status!Network(n) = <<<<"unit-stopped", "stopped">>>>
    BY <1>3 DEF Status!Network
  <2> DEFINE t == <<<<"unit-stopped", "stopped">>>>
  <2>2. t \in Seq(Row) /\ Finds(t, "unit-stopped")
    BY DEF Finds, Row, Causes, Verdicts
  <2> QED BY <1>3, <2>1, <2>2
<1> QED BY <1>1, <1>2, <1>3

LEMMA ApplicationsTable ==
    ASSUME NEW n \in Status!Nodes
    PROVE  /\ Status!Applications(n) \in Seq(Row)
           /\ n.package # "none" => \A c \in {"container-stopped", "not-listening"} :
                                        Finds(Status!Applications(n), c)
<1>1. CASE n.package = "none"
  BY <1>1 DEF Status!Applications
<1>2. CASE n.package # "none"
  BY <1>2 DEF Status!Applications, Finds, Row, Causes, Verdicts
<1> QED BY <1>1, <1>2

LEMMA ValidityTable ==
    /\ Status!Validity \in Seq(Row)
    /\ \A c \in {"not-served", "expired", "expiring"} : Finds(Status!Validity, c)
  BY DEF Status!Validity, Finds, Row, Causes, Verdicts

LEMMA CertificatesTable ==
    ASSUME NEW n \in Status!Nodes
    PROVE  /\ Status!Certificates(n) \in Seq(Row)
           /\ n.package # "none" \/ n.role = "controller" =>
                  \A c \in Status!Certificate(n) : Finds(Status!Certificates(n), c)
<1> DEFINE renewal == <<<<"renewal", "renewal-failed">>>>
           replacement == <<<<"replacement", "change-pending">>>>
           plain == {"not-served", "expired", "expiring"}
<1>1. renewal \in Seq(Row) /\ Finds(renewal, "renewal")
  BY DEF Finds, Row, Causes, Verdicts
<1>2. replacement \in Seq(Row) /\ Finds(replacement, "replacement")
  BY DEF Finds, Row, Causes, Verdicts
<1>3. /\ renewal \o Status!Validity \in Seq(Row)
      /\ \A c \in plain \union {"renewal"} : Finds(renewal \o Status!Validity, c)
  <2> HIDE DEF renewal
  <2> QED BY <1>1, FindsJoined, ValidityTable
<1>4. /\ replacement \o Status!Validity \in Seq(Row)
      /\ \A c \in plain \union {"replacement"} : Finds(replacement \o Status!Validity, c)
  <2> HIDE DEF replacement
  <2> QED BY <1>2, FindsJoined, ValidityTable
<1>5. /\ Status!SuppliedCertificate \in Seq(Row)
      /\ \A c \in plain : Finds(Status!SuppliedCertificate, c)
  BY DEF Status!SuppliedCertificate, Finds, Row, Causes, Verdicts
<1>6. CASE n.issuer \/ n.role = "controller"
  <2>1. Status!Certificates(n) = renewal \o Status!Validity
    <3>1. CASE n.issuer
      BY <3>1, NodeKinds DEF Status!Certificates, Status!IssuerCertificate
    <3>2. CASE ~n.issuer
      BY <1>6, <3>2, NodeKinds DEF Status!Certificates, Status!InfrastructureCertificate
    <3> QED BY <3>1, <3>2
  <2>2. Status!Certificate(n) \subseteq plain \union {"renewal"}
    BY <1>6, NodeKinds DEF Status!Certificate
  <2> HIDE DEF renewal, plain
  <2> QED BY <1>3, <2>1, <2>2
<1>7. CASE n.package = "gateway"
  <2>1. Status!Certificates(n) = replacement \o Status!Validity
    BY <1>7 DEF Status!Certificates, Status!GatewayCertificate
  <2>2. Status!Certificate(n) \subseteq plain \union {"replacement"}
    BY <1>7, NodeKinds DEF Status!Certificate
  <2> HIDE DEF replacement, plain
  <2> QED BY <1>4, <2>1, <2>2
<1>8. CASE n.package = "service" /\ ~n.issuer
  <2>1. Status!Certificates(n) = Status!SuppliedCertificate
    BY <1>8 DEF Status!Certificates
  <2>2. Status!Certificate(n) \subseteq plain
    BY <1>8, NodeKinds DEF Status!Certificate
  <2> HIDE DEF plain
  <2> QED BY <1>5, <2>1, <2>2
<1>9. CASE n.package = "none" /\ n.role # "controller"
  <2>1. ~n.issuer
    BY <1>9, NodeKinds
  <2>2. Status!Certificates(n) = <<>>
    BY <1>9, <2>1 DEF Status!Certificates
  <2> QED BY <1>9, <2>2
<1>10. n.package \in {"none", "gateway", "service"}
  BY NodeKinds
<1> QED BY <1>6, <1>7, <1>8, <1>9, <1>10

LEMMA BackupTable ==
    /\ Status!Backup \in Seq(Row)
    /\ \A c \in {"unconfigured", "other-scope", "no-storage", "empty", "attempt-failed", "overdue"} :
           Finds(Status!Backup, c)
<1> DEFINE failed == <<<<"attempt-failed", "backup-failed">>>>
<1>1. /\ Status!Configured \in Seq(Row)
      /\ Finds(Status!Configured, "unconfigured") /\ Finds(Status!Configured, "other-scope")
  BY DEF Status!Configured, Finds, Row, Causes, Verdicts
<1>2. /\ Status!Snapshots \in Seq(Row)
      /\ Finds(Status!Snapshots, "no-storage") /\ Finds(Status!Snapshots, "empty")
  BY DEF Status!Snapshots, Finds, Row, Causes, Verdicts
<1>3. failed \in Seq(Row) /\ Finds(failed, "attempt-failed")
  BY DEF Finds, Row, Causes, Verdicts
<1>4. Status!Overdue \in Seq(Row) /\ Finds(Status!Overdue, "overdue")
  BY DEF Status!Overdue, Finds, Row, Causes, Verdicts
<1>5. Status!Backup = ((Status!Configured \o Status!Snapshots) \o failed) \o Status!Overdue
  BY DEF Status!Backup
<1> HIDE DEF failed
<1>6. /\ Status!Configured \o Status!Snapshots \in Seq(Row)
      /\ \A c \in {"unconfigured", "other-scope", "no-storage", "empty"} :
             Finds(Status!Configured \o Status!Snapshots, c)
  BY <1>1, <1>2, FindsJoined
<1>7. /\ (Status!Configured \o Status!Snapshots) \o failed \in Seq(Row)
      /\ \A c \in {"unconfigured", "other-scope", "no-storage", "empty", "attempt-failed"} :
             Finds((Status!Configured \o Status!Snapshots) \o failed, c)
  BY <1>3, <1>6, FindsJoined
<1> QED BY <1>4, <1>5, <1>7, FindsJoined

LEMMA RecoveryTable ==
    /\ Status!Recovery \in Seq(Row)
    /\ \A c \in {"untested", "other-identity", "clock", "upgraded"} : Finds(Status!Recovery, c)
  BY DEF Status!Recovery, Finds, Row, Causes, Verdicts

LEMMA PartnersTable ==
    ASSUME NEW n \in Status!Nodes
    PROVE  /\ Status!Partners(n) \in Seq(Row)
           /\ n.package # "none" =>
                  \A c \in Status!Partnership(n) : Finds(Status!Partners(n), c)
<1>1. CASE n.package = "gateway"
  <2>1. /\ Status!GatewayPartners \in Seq(Row)
        /\ \A c \in {"review", "transition", "unguarded", "approved"} :
               Finds(Status!GatewayPartners, c)
    BY DEF Status!GatewayPartners, Finds, Row, Causes, Verdicts
  <2>2. /\ Status!Partners(n) = Status!GatewayPartners
        /\ Status!Partnership(n) = {"review", "transition", "unguarded", "approved"}
    BY <1>1 DEF Status!Partners, Status!Partnership
  <2> QED BY <2>1, <2>2
<1>2. CASE n.package = "service"
  <2>1. /\ Status!ServicePartners \in Seq(Row)
        /\ \A c \in {"review", "link-pending", "attached", "suspended"} :
               Finds(Status!ServicePartners, c)
    BY DEF Status!ServicePartners, Finds, Row, Causes, Verdicts
  <2>2. /\ Status!Partners(n) = Status!ServicePartners
        /\ Status!Partnership(n) = {"review", "link-pending", "attached", "suspended"}
    BY <1>2 DEF Status!Partners, Status!Partnership
  <2> QED BY <2>1, <2>2
<1>3. CASE n.package = "none"
  BY <1>3 DEF Status!Partners
<1>4. n.package \in {"none", "gateway", "service"}
  BY NodeKinds
<1> QED BY <1>1, <1>2, <1>3, <1>4

\* What a worker goes through: what is pending, what is installed, its own evidence.
LEMMA TablesLoud ==
    ASSUME NEW n \in Status!Nodes, NEW d \in Status!Dimensions
    PROVE  /\ Status!Probe(d, n) \in Seq(Row)
           /\ \A c : \/ Finds(Status!Pending, c) \/ Finds(Status!Discover, c)
                     \/ Finds(Status!Table(d, n), c)
                     => Finds(Status!Probe(d, n), c)
<1>1. Status!Table(d, n) \in Seq(Row)
  BY NetworkTable, ApplicationsTable, CertificatesTable, BackupTable, RecoveryTable, PartnersTable
  DEF Status!Table, Status!Dimensions
<1>2. /\ Status!Pending \o Status!Discover \in Seq(Row)
      /\ \A c : Finds(Status!Pending, c) \/ Finds(Status!Discover, c)
                => Finds(Status!Pending \o Status!Discover, c)
  BY CommonTables, FindsJoined
<1>3. Status!Probe(d, n) = (Status!Pending \o Status!Discover) \o Status!Table(d, n)
  BY DEF Status!Probe
<1> QED BY <1>1, <1>2, <1>3, FindsJoined

\* Each condition of a node is one that some worker looks for.
LEMMA SomeoneLooks ==
    ASSUME NEW n \in Status!Nodes, NEW c \in Status!Conditions(n)
    PROVE  \E d \in Status!Dimensions : Finds(Status!Probe(d, n), c)
<1> DEFINE Asks(d) == Finds(Status!Table(d, n), c)
<1>1. {"network", "applications", "certificates", "backup", "recovery", "partners"}
          = Status!Dimensions
  BY DEF Status!Dimensions
<1>2. ASSUME NEW d \in Status!Dimensions, Asks(d)
      PROVE  \E e \in Status!Dimensions : Finds(Status!Probe(e, n), c)
  BY <1>2, TablesLoud
<1>3. CASE c \in {"upgrade", "restore", "unowned", "absent"}
  BY <1>1, <1>3, CommonTables, TablesLoud
<1>4. CASE c \in CASE n.role = "portable" -> {"address"}
                   [] n.role = "peer"     -> {"client-stopped", "not-approved", "no-controller"}
                   [] OTHER               -> {"unit-stopped"}
  <2>1. Finds(Status!Network(n), c)
    BY <1>4, NetworkTable
  <2>2. Asks("network")
    BY <2>1 DEF Status!Table
  <2> QED BY <1>1, <1>2, <2>2
<1>5. CASE c \in {"unconfigured", "other-scope", "no-storage", "empty", "attempt-failed", "overdue"}
  <2>1. Asks("backup")
    BY <1>5, BackupTable DEF Status!Table
  <2> QED BY <1>1, <1>2, <2>1
<1>6. CASE c \in {"untested", "other-identity", "clock", "upgraded"}
  <2>1. Asks("recovery")
    BY <1>6, RecoveryTable DEF Status!Table
  <2> QED BY <1>1, <1>2, <2>1
<1>7. CASE (n.package # "none" \/ n.role = "controller") /\ c \in Status!Certificate(n)
  <2>1. Asks("certificates")
    BY <1>7, CertificatesTable DEF Status!Table
  <2> QED BY <1>1, <1>2, <2>1
<1>8. CASE n.package # "none" /\ c \in {"container-stopped", "not-listening"}
  <2>1. Asks("applications")
    BY <1>8, ApplicationsTable DEF Status!Table
  <2> QED BY <1>1, <1>2, <2>1
<1>9. CASE n.package # "none" /\ c \in Status!Partnership(n)
  <2>1. Asks("partners")
    BY <1>9, PartnersTable DEF Status!Table
  <2> QED BY <1>1, <1>2, <2>1
<1> HIDE DEF Asks
<1>10. PICK g \in Status!Groups(n) : c \in g
  BY DEF Status!Conditions
<1>11. \/ g = {"upgrade", "restore", "unowned", "absent"}
       \/ g = CASE n.role = "portable" -> {"address"}
                [] n.role = "peer"     -> {"client-stopped", "not-approved", "no-controller"}
                [] OTHER               -> {"unit-stopped"}
       \/ g = {"unconfigured", "other-scope", "no-storage", "empty", "attempt-failed", "overdue"}
       \/ g = {"untested", "other-identity", "clock", "upgraded"}
       \/ (n.package # "none" \/ n.role = "controller") /\ g = Status!Certificate(n)
       \/ n.package # "none" /\ g \in {{"container-stopped", "not-listening"}, Status!Partnership(n)}
  <2>1. g \in Status!Groups(n)
    OBVIOUS
  <2> QED BY <2>1 DEF Status!Groups
<1> QED BY <1>3, <1>4, <1>5, <1>6, <1>7, <1>8, <1>9, <1>10, <1>11

\* With nothing found no dimension needs attention.
LEMMA FineIsFine ==
    ASSUME NEW n \in Status!Nodes, NEW d \in Status!Dimensions
    PROVE  Status!Sanitized(d, Status!Fine(d, n)) \in Status!Informational
<1>2. CASE d = "network"
  BY <1>2 DEF Status!Fine, Status!Sanitized, Status!States, Status!Common, Status!Informational
<1>3. CASE d = "applications"
  BY <1>3 DEF Status!Fine, Status!Sanitized, Status!States, Status!Informational
<1>4. CASE d = "certificates"
  BY <1>4 DEF Status!Fine, Status!Sanitized, Status!States, Status!Informational
<1>5. CASE d = "backup"
  BY <1>5 DEF Status!Fine, Status!Sanitized, Status!States, Status!Common, Status!Informational
<1>6. CASE d = "recovery"
  BY <1>6 DEF Status!Fine, Status!Sanitized, Status!States, Status!Common, Status!Informational
<1>7. CASE d = "partners"
  BY <1>7 DEF Status!Fine, Status!Sanitized, Status!States, Status!Informational
<1> QED BY <1>2, <1>3, <1>4, <1>5, <1>6, <1>7 DEF Status!Dimensions

-----------------------------------------------------------------------------

\* What a dimension reports that needs no attention says that no condition lasted that its
\* worker looks for; and as long as nothing was wrong no dimension needs attention.
StatusInv ==
    /\ node \in Status!Nodes
    /\ report = [d \in Status!Dimensions |-> report[d]]
    /\ lasting \subseteq wrong /\ wrong \subseteq Status!Conditions(node)
    /\ \A d \in Status!Dimensions : report[d] \in Status!Informational =>
           \A c \in lasting : ~Finds(Status!Probe(d, node), c)
    /\ clean => /\ wrong = {}
                /\ \A d \in Status!Dimensions :
                       report[d] \in Status!Informational \union {"reading"}

LEMMA StatusInitInv == Status!Init => StatusInv
<1> SUFFICES ASSUME Status!Init PROVE StatusInv
  OBVIOUS
<1>1. wrong \subseteq Status!Conditions(node)
  BY DEF Status!Init, Status!Conditions
<1>2. \A d \in Status!Dimensions : report[d] = "reading"
  BY DEF Status!Init
<1>3. "reading" \notin Status!Informational
  BY DEF Status!Informational
<1>4. report = [d \in Status!Dimensions |-> report[d]]
  BY DEF Status!Init
<1>5. node \in Status!Nodes /\ lasting \subseteq wrong /\ (clean => wrong = {})
  BY DEF Status!Init
<1> QED BY <1>1, <1>2, <1>3, <1>4, <1>5 DEF StatusInv

LEMMA StatusStepInv == StatusInv /\ [Status!Next]_statusVars => StatusInv'
<1> SUFFICES ASSUME StatusInv, [Status!Next]_statusVars PROVE StatusInv'
  OBVIOUS
<1> USE DEF StatusInv
<1>1. ASSUME NEW d \in Status!Dimensions, Status!Answer(d) PROVE StatusInv'
  <2> DEFINE state == Status!First(Status!Probe(d, node), Status!Fine(d, node))
  <2>1. /\ report' = [report EXCEPT ![d] = Status!Sanitized(d, state)]
        /\ node' = node /\ wrong' = wrong /\ lasting' = lasting /\ clean' = clean
    BY <1>1 DEF Status!Answer
  <2>2. /\ (\E c \in wrong : Finds(Status!Probe(d, node), c)) => state \in Verdicts
        /\ (\A c \in wrong : ~Finds(Status!Probe(d, node), c)) => state = Status!Fine(d, node)
    BY FirstNames, TablesLoud
  <2> HIDE DEF state
  <2>3. state \in Verdicts => Status!Sanitized(d, state) \notin Status!Informational
    BY DEF Verdicts, Status!Sanitized, Status!Informational
  <2>4. state = Status!Fine(d, node) => Status!Sanitized(d, state) \in Status!Informational
    BY FineIsFine
  <2>5. /\ report'[d] = Status!Sanitized(d, state)
        /\ \A e \in Status!Dimensions : e # d => report'[e] = report[e]
        /\ report' = [e \in Status!Dimensions |-> report'[e]]
    BY <2>1
  <2>6. \A e \in Status!Dimensions : report'[e] \in Status!Informational =>
            \A c \in lasting : ~Finds(Status!Probe(e, node), c)
    BY <2>2, <2>3, <2>5
  <2>7. clean => \A e \in Status!Dimensions :
                     report'[e] \in Status!Informational \union {"reading"}
    BY <2>2, <2>4, <2>5
  <2> QED BY <2>1, <2>5, <2>6, <2>7
<1>2. ASSUME NEW d \in Status!Dimensions, Status!WorkerFails(d) PROVE StatusInv'
  <2>1. /\ report' = [report EXCEPT ![d] = "unknown"] /\ ~clean'
        /\ node' = node /\ wrong' = wrong /\ lasting' = lasting
    BY <1>2 DEF Status!WorkerFails
  <2>2. "unknown" \notin Status!Informational
    BY DEF Status!Informational
  <2>3. /\ report'[d] = "unknown"
        /\ \A e \in Status!Dimensions : e # d => report'[e] = report[e]
        /\ report' = [e \in Status!Dimensions |-> report'[e]]
    BY <2>1
  <2> QED BY <2>1, <2>2, <2>3
<1>3. ASSUME NEW c \in Status!Conditions(node), Status!Goes(c) PROVE StatusInv'
  BY <1>3 DEF Status!Goes
<1>4. ASSUME NEW c \in Status!Conditions(node), Status!Comes(c) PROVE StatusInv'
  BY <1>4 DEF Status!Comes
<1>5. CASE UNCHANGED statusVars
  BY <1>5 DEF statusVars
<1> QED BY <1>1, <1>2, <1>3, <1>4, <1>5 DEF Status!Next

\* When every worker has answered, some of them looked for what lasted.
LEMMA StatusHonest == StatusInv => Status!QuietHonest
<1> SUFFICES ASSUME StatusInv, ~Status!Reading PROVE Status!QuietHonest
  BY DEF Status!QuietHonest
<1>1. ASSUME ~Status!needs_attention, NEW c \in lasting PROVE FALSE
  <2>1. PICK d \in Status!Dimensions : Finds(Status!Probe(d, node), c)
    BY SomeoneLooks DEF StatusInv
  <2>2. report[d] \in Status!Informational
    BY <1>1 DEF Status!needs_attention
  <2> QED BY <2>1, <2>2 DEF StatusInv
<1>2. clean => ~Status!needs_attention
  BY DEF StatusInv, Status!needs_attention, Status!Reading
<1> QED BY <1>1, <1>2 DEF Status!QuietHonest

-----------------------------------------------------------------------------
(* The command: what the menu and the guide put together, and the exit status. *)

\* Certificates are issued for the two applications and for a gateway.
IssuerHead(w) == Len(w) = 3 /\ w[2] = "issuer" => w[1] \in {"services", "files", "gateway"}

\* No other command has a certificate issuer.
LEMMA IssuerForms == \A f \in Line!Forms : IssuerHead(f.words)
<1>1. /\ \A x : IssuerHead(<<x>>)
      /\ \A x, y : IssuerHead(<<x, y>>)
      /\ \A x, y, z : y # "issuer" \/ x \in {"services", "files", "gateway"} => IssuerHead(<<x, y, z>>)
  BY DEF IssuerHead
<1>2. \A f \in Line!PortableForms : IssuerHead(f.words)
  BY <1>1 DEF Line!PortableForms, Line!Form, Line!Each
<1>3. \A f \in Line!PlainForms : IssuerHead(f.words)
  BY <1>1 DEF Line!PlainForms, Line!Form, Line!Each
<1>4. \A f \in Line!BackupForms : IssuerHead(f.words)
  BY <1>1 DEF Line!BackupForms, Line!Form, Line!Each, Line!EachOf
<1>5. ASSUME NEW c \in {"services", "files"}
      PROVE \A f \in Line!ApplicationForms(c) : IssuerHead(f.words)
  BY <1>1 DEF Line!ApplicationForms, Line!Form, Line!Each, Line!EachOf
<1>6. \A f \in Line!GatewayForms : IssuerHead(f.words)
  BY <1>1 DEF Line!GatewayForms, Line!Form, Line!Each, Line!EachOf
<1>7. \A f \in Line!RegionalForms : IssuerHead(f.words)
  BY <1>1 DEF Line!RegionalForms, Line!Form, Line!Each
<1>8. \A f \in Line!ReleaseForms : IssuerHead(f.words)
  BY <1>1 DEF Line!ReleaseForms, Line!Form
<1> QED BY <1>2, <1>3, <1>4, <1>5, <1>6, <1>7, <1>8 DEF Line!Forms

\* A task is a command when its words are those of a form and what it gives fits.
LEMMA TaskAccepted ==
    ASSUME NEW w, NEW given_, NEW pick, NEW must, NEW may, Line!Form(w, must, may) \in Line!Forms,
           pick \in Line!Choices(w), must \subseteq given_, given_ \subseteq must \union may
    PROVE  Line!Accepted([words |-> w, given |-> given_, pick |-> pick])
  BY DEF Line!Accepted, Line!Form

\* The commands with an argument that is restricted to a list.
Listed ==
    {<<"backup", "bootstrap-stage">>, <<"gateway", "service-link">>, <<"regional", "offer">>,
     <<"access", "prepare">>, <<"backup", "schedule", "enable">>}

\* Of most commands the parser restricts no value.
LEMMA PlainAccepted ==
    ASSUME NEW w, NEW given_, NEW must, NEW may, Line!Form(w, must, may) \in Line!Forms,
           w \notin Listed, must \subseteq given_, given_ \subseteq must \union may
    PROVE  Line!Accepted(Line!Task(w, given_))
<1>1. "any" \in Line!Choices(w)
  BY DEF Line!Choices, Listed
<1> QED BY <1>1, TaskAccepted DEF Line!Task

LEMMA ListedChoices ==
    /\ Line!Choices(<<"backup", "bootstrap-stage">>) = {"matrix", "nextcloud", "gateway"}
    /\ Line!Choices(<<"gateway", "service-link">>) = {"matrix", "nextcloud"}
    /\ Line!Choices(<<"regional", "offer">>) = {"matrix", "nextcloud"}
    /\ Line!Choices(<<"backup", "schedule", "enable">>) = {"hourly", "daily"}
  BY DEF Line!Choices

\* What the menu puts together.
LEMMA MenuAccepted ==
    ASSUME NEW c \in Line!MenuLines
    PROVE  Line!Accepted(c)
<1>1. Line!Accepted(Line!Task(<<"setup">>, {}))
  <2>1. Line!Form(<<"setup">>, {}, {"resume", "output-dir"}) \in Line!Forms
    BY DEF Line!Forms, Line!PlainForms
  <2> QED BY <2>1, PlainAccepted DEF Listed
<1>2. Line!Accepted(Line!Task(<<"version">>, {}))
  <2>1. Line!Form(<<"version">>, {}, {}) \in Line!Forms
    BY DEF Line!Forms, Line!ReleaseForms
  <2> QED BY <2>1, PlainAccepted DEF Listed
<1>3. Line!Accepted(Line!Task(<<"status">>, {}))
  <2>1. Line!Form(<<"status">>, {}, {"json"}) \in Line!Forms
    BY DEF Line!Forms, Line!PlainForms
  <2> QED BY <2>1, PlainAccepted DEF Listed
<1>4. Line!Accepted(Line!Task(<<"start">>, {}))
  <2>1. Line!Form(<<"start">>, {}, {"platform", "resume", "output-dir"}) \in Line!Forms
    BY DEF Line!Forms, Line!PlainForms
  <2> QED BY <2>1, PlainAccepted DEF Listed
<1>5. Line!Accepted(Line!Task(<<"guide">>, {"journey"}))
  <2>1. Line!Form(<<"guide">>, {"journey"}, {}) \in Line!Forms
    BY DEF Line!Forms, Line!PlainForms
  <2> QED BY <2>1, PlainAccepted DEF Listed
<1>6. Line!Accepted(Line!Task(<<"infrastructure", "check">>, {"inventory"}))
  <2>1. Line!Form(<<"infrastructure", "check">>, {"inventory"}, {}) \in Line!Forms
    BY DEF Line!Forms, Line!PlainForms
  <2> QED BY <2>1, PlainAccepted DEF Listed
<1>7. Line!Accepted(Line!Task(<<"infrastructure", "apply">>, {"inventory"}))
  <2>1. Line!Form(<<"infrastructure", "apply">>, {"inventory"}, {"ask-become-pass"}) \in Line!Forms
    BY DEF Line!Forms, Line!PlainForms
  <2> QED BY <2>1, PlainAccepted DEF Listed
<1>8. Line!Accepted(Line!Task(<<"infrastructure", "apply">>, {"inventory", "ask-become-pass"}))
  <2>1. Line!Form(<<"infrastructure", "apply">>, {"inventory"}, {"ask-become-pass"}) \in Line!Forms
    BY DEF Line!Forms, Line!PlainForms
  <2> QED BY <2>1, PlainAccepted DEF Listed
<1>9. Line!Accepted(Line!Task(<<"doctor">>, {"manifest"}))
  <2>1. Line!Form(<<"doctor">>, {"manifest"}, {"report"}) \in Line!Forms
    BY DEF Line!Forms, Line!PlainForms
  <2> QED BY <2>1, PlainAccepted DEF Listed
<1>10. \A a \in {"check", "apply", "enroll", "status"} :
          Line!Accepted(Line!Task(<<"node", a>>, {"manifest"}))
  <2>1. \A a \in {"check", "apply", "enroll", "status"} :
            Line!Form(<<"node", a>>, {"manifest"}, {}) \in Line!Forms
    BY DEF Line!Forms, Line!PlainForms, Line!Each
  <2> QED BY <2>1, PlainAccepted DEF Listed
<1> QED BY <1>1, <1>2, <1>3, <1>4, <1>5, <1>6, <1>7, <1>8, <1>9, <1>10 DEF Line!MenuLines

\* The tasks of a journey, in groups.
LEMMA NetworkAccepted ==
    ASSUME NEW j \in Line!Journeys, NEW c \in Line!NetworkTasks(j)
    PROVE  Line!Accepted(c)
<1>1. Line!Accepted(Line!Task(<<"setup">>, {"output-dir"}))
  <2>1. Line!Form(<<"setup">>, {}, {"resume", "output-dir"}) \in Line!Forms
    BY DEF Line!Forms, Line!PlainForms
  <2> QED BY <2>1, PlainAccepted DEF Listed
<1>2. Line!Accepted(Line!Task(<<"doctor">>, {"manifest"}))
  <2>1. Line!Form(<<"doctor">>, {"manifest"}, {"report"}) \in Line!Forms
    BY DEF Line!Forms, Line!PlainForms
  <2> QED BY <2>1, PlainAccepted DEF Listed
<1>3. Line!Accepted(Line!Task(<<"infrastructure", "check">>, {"inventory"}))
  <2>1. Line!Form(<<"infrastructure", "check">>, {"inventory"}, {}) \in Line!Forms
    BY DEF Line!Forms, Line!PlainForms
  <2> QED BY <2>1, PlainAccepted DEF Listed
<1>4. Line!Accepted(Line!Task(<<"infrastructure", "apply">>, {"inventory"}))
  <2>1. Line!Form(<<"infrastructure", "apply">>, {"inventory"}, {"ask-become-pass"}) \in Line!Forms
    BY DEF Line!Forms, Line!PlainForms
  <2> QED BY <2>1, PlainAccepted DEF Listed
<1>5. \A a \in {"check", "apply", "enroll", "status"} :
          Line!Accepted(Line!Task(<<"node", a>>, {"manifest"}))
  <2>1. \A a \in {"check", "apply", "enroll", "status"} :
            Line!Form(<<"node", a>>, {"manifest"}, {}) \in Line!Forms
    BY DEF Line!Forms, Line!PlainForms, Line!Each
  <2> QED BY <2>1, PlainAccepted DEF Listed
<1> QED BY <1>1, <1>2, <1>3, <1>4, <1>5 DEF Line!NetworkTasks

LEMMA ServiceAccepted ==
    ASSUME NEW command \in {"services", "files"}, NEW j \in Line!Journeys,
           NEW c \in Line!ServiceTasks(command, j)
    PROVE  Line!Accepted(c)
<1>1. Line!Accepted(Line!Task(<<command, "setup">>, {"output-file"}))
  <2>1. Line!Form(<<command, "setup">>, {"output-file"}, {}) \in Line!Forms
    BY DEF Line!Forms, Line!ApplicationForms
  <2> QED BY <2>1, PlainAccepted DEF Listed
<1>2. \A a \in {"check", "apply"} : Line!Accepted(Line!Task(<<command, a>>, {"profile"}))
  <2>1. \A a \in {"check", "apply"} : Line!Form(<<command, a>>, {"profile"}, {}) \in Line!Forms
    BY DEF Line!Forms, Line!ApplicationForms, Line!Each
  <2> QED BY <2>1, PlainAccepted DEF Listed
<1>3. Line!Accepted(Line!Task(<<command, "account">>, {}))
  <2>1. Line!Form(<<command, "account">>, {}, (IF command = "services" THEN {"admin"} ELSE {}))
            \in Line!Forms
    BY DEF Line!Forms, Line!ApplicationForms
  <2> QED BY <2>1, PlainAccepted DEF Listed
<1>4. Line!Accepted(Line!Task(<<command, "status">>, {}))
  <2>1. Line!Form(<<command, "status">>, {}, {}) \in Line!Forms
    BY DEF Line!Forms, Line!ApplicationForms
  <2> QED BY <2>1, PlainAccepted DEF Listed
<1>5. Line!Accepted(Line!Task(<<command, "issuer", "setup">>, {"output-file"}))
  <2>1. Line!Form(<<command, "issuer", "setup">>, {"output-file"}, {}) \in Line!Forms
    BY DEF Line!Forms, Line!ApplicationForms
  <2> QED BY <2>1, PlainAccepted DEF Listed
<1>6. Line!Accepted(Line!Task(<<command, "issuer", "issue">>, {"profile"}))
  <2>1. Line!Form(<<command, "issuer", "issue">>, {"profile"}, {"token-file"}) \in Line!Forms
    BY DEF Line!Forms, Line!ApplicationForms
  <2> QED BY <2>1, PlainAccepted DEF Listed
<1>7. \A a \in {"enable", "status"} : Line!Accepted(Line!Task(<<command, "issuer", a>>, {}))
  <2>1. \A a \in {"enable", "status"} : Line!Form(<<command, "issuer", a>>, {}, {}) \in Line!Forms
    BY DEF Line!Forms, Line!ApplicationForms, Line!EachOf
  <2> QED BY <2>1, PlainAccepted DEF Listed
<1>8. Line!Accepted(Line!Task(<<command, "regional", "attach">>, {"document"}))
  <2>1. Line!Form(<<command, "regional", "attach">>, {"document"}, {}) \in Line!Forms
    BY DEF Line!Forms, Line!ApplicationForms
  <2> QED BY <2>1, PlainAccepted DEF Listed
<1>9. \A a \in {"status", "disable"} : Line!Accepted(Line!Task(<<command, "regional", a>>, {}))
  <2>1. \A a \in {"status", "disable"} :
            Line!Form(<<command, "regional", a>>, {}, {}) \in Line!Forms
    BY DEF Line!Forms, Line!ApplicationForms, Line!EachOf
  <2> QED BY <2>1, PlainAccepted DEF Listed
<1> QED BY <1>1, <1>2, <1>3, <1>4, <1>5, <1>6, <1>7, <1>8, <1>9 DEF Line!ServiceTasks

LEMMA BackupAccepted ==
    ASSUME NEW c \in Line!BackupTasks
    PROVE  Line!Accepted(c)
<1>1. Line!Accepted(Line!Task(<<"backup", "target", "prepare">>, {"manifest"}))
  <2>1. Line!Form(<<"backup", "target", "prepare">>, {"manifest"}, {}) \in Line!Forms
    BY DEF Line!Forms, Line!BackupForms
  <2> QED BY <2>1, PlainAccepted DEF Listed
<1>2. Line!Accepted(Line!Task(<<"backup", "target", "authorize">>, {"public_key"}))
  <2>1. Line!Form(<<"backup", "target", "authorize">>, {"public_key"}, {}) \in Line!Forms
    BY DEF Line!Forms, Line!BackupForms
  <2> QED BY <2>1, PlainAccepted DEF Listed
<1>3. Line!Accepted(Line!Task(<<"backup", "setup">>, {"output-file"}))
  <2>1. Line!Form(<<"backup", "setup">>, {"output-file"}, {}) \in Line!Forms
    BY DEF Line!Forms, Line!BackupForms
  <2> QED BY <2>1, PlainAccepted DEF Listed
<1>4. Line!Accepted(Line!Task(<<"backup", "configure">>, {"profile"}))
  <2>1. Line!Form(<<"backup", "configure">>, {"profile"}, {"recovery-password-file", "recovery-ssh-key-file"})
            \in Line!Forms
    BY DEF Line!Forms, Line!BackupForms
  <2> QED BY <2>1, PlainAccepted DEF Listed
<1>5.
          Line!Accepted(Line!Task(<<"backup", "configure">>,
                                  {"profile", "recovery-password-file", "recovery-ssh-key-file"}))
  <2>1. Line!Form(<<"backup", "configure">>, {"profile"}, {"recovery-password-file", "recovery-ssh-key-file"})
            \in Line!Forms
    BY DEF Line!Forms, Line!BackupForms
  <2> QED BY <2>1, PlainAccepted DEF Listed
<1>6. Line!Accepted(Line!Task(<<"backup", "schedule", "disable">>, {}))
  <2>1. Line!Form(<<"backup", "schedule", "disable">>, {}, {}) \in Line!Forms
    BY DEF Line!Forms, Line!BackupForms, Line!EachOf
  <2> QED BY <2>1, PlainAccepted DEF Listed
<1>7. \A a \in {"initialize", "include-services", "run", "status", "restore-recover"} :
          Line!Accepted(Line!Task(<<"backup", a>>, {}))
  <2>1. \A a \in {"initialize", "include-services", "run", "status", "restore-recover"} :
            Line!Form(<<"backup", a>>, {}, {}) \in Line!Forms
    BY DEF Line!Forms, Line!BackupForms, Line!Each
  <2> QED BY <2>1, PlainAccepted DEF Listed
<1>8. \A a \in {"bootstrap-plan", "bootstrap-apply", "restore-stage", "restore-plan", "restore-apply"} :
          Line!Accepted(Line!Task(<<"backup", a>>, {"snapshot"}))
  <2>1. \A a \in {"bootstrap-plan", "bootstrap-apply", "restore-stage", "restore-plan", "restore-apply"} :
            Line!Form(<<"backup", a>>, {"snapshot"}, {}) \in Line!Forms
    BY DEF Line!Forms, Line!BackupForms, Line!Each
  <2> QED BY <2>1, PlainAccepted DEF Listed
<1>9. \A p \in {"daily"} :
          Line!Accepted([words |-> <<"backup", "schedule", "enable">>,
                         given |-> {"frequency"}, pick |-> p])
  <2>1. Line!Form(<<"backup", "schedule", "enable">>, {"frequency"}, {}) \in Line!Forms
    BY DEF Line!Forms, Line!BackupForms
  <2> QED BY <2>1, TaskAccepted, ListedChoices
<1>10. \A p \in {"matrix", "nextcloud", "gateway"} :
          Line!Accepted([words |-> <<"backup", "bootstrap-stage">>,
                         given |-> {"snapshot", "package"}, pick |-> p])
  <2>1. Line!Form(<<"backup", "bootstrap-stage">>, {"snapshot", "package"}, {}) \in Line!Forms
    BY DEF Line!Forms, Line!BackupForms
  <2> QED BY <2>1, TaskAccepted, ListedChoices
<1>11. \A a \in {"check", "apply", "recover"} : Line!Accepted(Line!Task(<<"upgrade", a>>, {}))
  <2>1. \A a \in {"check", "apply", "recover"} : Line!Form(<<"upgrade", a>>, {}, {}) \in Line!Forms
    BY DEF Line!Forms, Line!PlainForms, Line!Each
  <2> QED BY <2>1, PlainAccepted DEF Listed
<1> QED BY <1>1, <1>2, <1>3, <1>4, <1>5, <1>6, <1>7, <1>8, <1>9, <1>10, <1>11
    DEF Line!BackupTasks, Line!Picked, Line!RecoveryPackages

LEMMA RegionalAccepted ==
    ASSUME NEW j \in Line!Journeys, NEW c \in Line!RegionalTasks(j)
    PROVE  Line!Accepted(c)
<1>1. Line!Accepted(Line!Task(<<"regional", "setup">>, {"output-file"}))
  <2>1. Line!Form(<<"regional", "setup">>, {"output-file"}, {}) \in Line!Forms
    BY DEF Line!Forms, Line!RegionalForms
  <2> QED BY <2>1, PlainAccepted DEF Listed
<1>2. Line!Accepted(Line!Task(<<"regional", "init">>, {"workspace", "profile"}))
  <2>1. Line!Form(<<"regional", "init">>, {"workspace", "profile"}, {}) \in Line!Forms
    BY DEF Line!Forms, Line!RegionalForms
  <2> QED BY <2>1, PlainAccepted DEF Listed
<1>3. Line!Accepted(Line!Task(<<"regional", "export-identity">>, {"workspace", "output-file"}))
  <2>1. Line!Form(<<"regional", "export-identity">>, {"workspace", "output-file"}, {})
            \in Line!Forms
    BY DEF Line!Forms, Line!RegionalForms
  <2> QED BY <2>1, PlainAccepted DEF Listed
<1>4. Line!Accepted(Line!Task(<<"regional", "inspect">>, {"document"}))
  <2>1. Line!Form(<<"regional", "inspect">>, {"document"}, {}) \in Line!Forms
    BY DEF Line!Forms, Line!RegionalForms
  <2> QED BY <2>1, PlainAccepted DEF Listed
<1>5. Line!Accepted(Line!Task(<<"regional", "status">>, {"workspace"}))
  <2>1. Line!Form(<<"regional", "status">>, {"workspace"}, {}) \in Line!Forms
    BY DEF Line!Forms, Line!RegionalForms
  <2> QED BY <2>1, PlainAccepted DEF Listed
<1>6. \A a \in {"approve", "import-agreement"} :
          Line!Accepted(Line!Task(<<"regional", a>>, {"workspace", "document"}))
  <2>1. \A a \in {"approve", "import-agreement"} :
            Line!Form(<<"regional", a>>, {"workspace", "document"}, {}) \in Line!Forms
    BY DEF Line!Forms, Line!RegionalForms, Line!Each
  <2> QED BY <2>1, PlainAccepted DEF Listed
<1>7. Line!Accepted(Line!Task(<<"regional", "accept">>, {"workspace", "document", "output-file"}))
  <2>1. Line!Form(<<"regional", "accept">>, {"workspace", "document", "output-file"}, {})
            \in Line!Forms
    BY DEF Line!Forms, Line!RegionalForms
  <2> QED BY <2>1, PlainAccepted DEF Listed
<1>8. \A p \in {"matrix", "nextcloud"} :
          Line!Accepted([words |-> <<"regional", "offer">>,
                         given |-> {"workspace", "peer-fingerprint", "services", "output-file"}, pick |-> p])
  <2>1. Line!Form(<<"regional", "offer">>, {"workspace", "output-file", "peer-fingerprint", "services"}, {"days"})
            \in Line!Forms
    BY DEF Line!Forms, Line!RegionalForms
  <2> QED BY <2>1, TaskAccepted, ListedChoices
<1> QED BY <1>1, <1>2, <1>3, <1>4, <1>5, <1>6, <1>7, <1>8
    DEF Line!RegionalTasks, Line!Picked, Line!Selected, Line!Journeys

LEMMA GatewayAccepted ==
    ASSUME NEW c \in Line!GatewayTasks
    PROVE  Line!Accepted(c)
<1>1. Line!Accepted(Line!Task(<<"gateway", "setup">>, {"identity", "output-file"}))
  <2>1. Line!Form(<<"gateway", "setup">>, {"identity", "output-file"}, {}) \in Line!Forms
    BY DEF Line!Forms, Line!GatewayForms
  <2> QED BY <2>1, PlainAccepted DEF Listed
<1>2. Line!Accepted(Line!Task(<<"gateway", "issuer", "setup">>, {"identity", "output-file"}))
  <2>1. Line!Form(<<"gateway", "issuer", "setup">>, {"identity", "output-file"}, {}) \in Line!Forms
    BY DEF Line!Forms, Line!GatewayForms
  <2> QED BY <2>1, PlainAccepted DEF Listed
<1>3. Line!Accepted(Line!Task(<<"gateway", "issuer", "issue">>, {"profile"}))
  <2>1. Line!Form(<<"gateway", "issuer", "issue">>, {"profile"}, {"token-file"}) \in Line!Forms
    BY DEF Line!Forms, Line!GatewayForms
  <2> QED BY <2>1, PlainAccepted DEF Listed
<1>4. \A a \in {"enable", "status"} : Line!Accepted(Line!Task(<<"gateway", "issuer", a>>, {}))
  <2>1. \A a \in {"enable", "status"} : Line!Form(<<"gateway", "issuer", a>>, {}, {}) \in Line!Forms
    BY DEF Line!Forms, Line!GatewayForms, Line!EachOf
  <2> QED BY <2>1, PlainAccepted DEF Listed
<1>5. \A a \in {"check", "apply"} : Line!Accepted(Line!Task(<<"gateway", a>>, {"profile"}))
  <2>1. \A a \in {"check", "apply"} : Line!Form(<<"gateway", a>>, {"profile"}, {}) \in Line!Forms
    BY DEF Line!Forms, Line!GatewayForms, Line!Each
  <2> QED BY <2>1, PlainAccepted DEF Listed
<1>6. Line!Accepted(Line!Task(<<"gateway", "policy">>, {}))
  <2>1. Line!Form(<<"gateway", "policy">>, {}, {"agreement"}) \in Line!Forms
    BY DEF Line!Forms, Line!GatewayForms
  <2> QED BY <2>1, PlainAccepted DEF Listed
<1>7. Line!Accepted(Line!Task(<<"gateway", "policy">>, {"agreement"}))
  <2>1. Line!Form(<<"gateway", "policy">>, {}, {"agreement"}) \in Line!Forms
    BY DEF Line!Forms, Line!GatewayForms
  <2> QED BY <2>1, PlainAccepted DEF Listed
<1>8. Line!Accepted(Line!Task(<<"gateway", "revoke">>, {"agreement_id"}))
  <2>1. Line!Form(<<"gateway", "revoke">>, {"agreement_id"}, {}) \in Line!Forms
    BY DEF Line!Forms, Line!GatewayForms
  <2> QED BY <2>1, PlainAccepted DEF Listed
<1>9. \A a \in {"resume", "status"} : Line!Accepted(Line!Task(<<"gateway", a>>, {}))
  <2>1. \A a \in {"resume", "status"} : Line!Form(<<"gateway", a>>, {}, {}) \in Line!Forms
    BY DEF Line!Forms, Line!GatewayForms, Line!Each
  <2> QED BY <2>1, PlainAccepted DEF Listed
<1>10. \A p \in {"matrix", "nextcloud"} :
          Line!Accepted([words |-> <<"gateway", "service-link">>,
                         given |-> {"package", "output-file"}, pick |-> p])
  <2>1. Line!Form(<<"gateway", "service-link">>, {"output-file"}, {"package"}) \in Line!Forms
    BY DEF Line!Forms, Line!GatewayForms
  <2> QED BY <2>1, TaskAccepted, ListedChoices
<1> QED BY <1>1, <1>2, <1>3, <1>4, <1>5, <1>6, <1>7, <1>8, <1>9, <1>10
    DEF Line!GatewayTasks, Line!Picked, Line!LinkPackages, Line!RecoveryPackages

\* What the guide of a journey offers is a command, and not a guide.
LEMMA TasksFit ==
    ASSUME NEW j \in Line!Journeys, NEW c \in Line!Tasks(j)
    PROVE  Line!Accepted(c) /\ c.words # <<"guide">>
<1>1. CASE c \in Line!NetworkTasks(j)
  BY <1>1, NetworkAccepted DEF Line!NetworkTasks, Line!Task
<1>2. CASE c \in Line!BackupTasks
  BY <1>2, BackupAccepted DEF Line!BackupTasks, Line!Task, Line!Picked
<1>3. ASSUME NEW s \in {"services", "files"}, c \in Line!ServiceTasks(s, j)
      PROVE  Line!Accepted(c) /\ c.words # <<"guide">>
  BY <1>3, ServiceAccepted DEF Line!ServiceTasks, Line!Task
<1>4. CASE c \in Line!RegionalTasks(j)
  BY <1>4, RegionalAccepted DEF Line!RegionalTasks, Line!Task, Line!Picked
<1>5. CASE c \in Line!GatewayTasks
  BY <1>5, GatewayAccepted DEF Line!GatewayTasks, Line!Task, Line!Picked
<1>6. \/ c \in Line!NetworkTasks(j) \/ c \in Line!BackupTasks
      \/ c \in Line!RegionalTasks(j) \/ c \in Line!GatewayTasks
      \/ \E s \in Line!Selected(j) :
             c \in Line!ServiceTasks(IF s = "matrix" THEN "services" ELSE "files", j)
  <2> DEFINE services == {Line!ServiceTasks(IF s = "matrix" THEN "services" ELSE "files", j) :
                             s \in Line!Selected(j)}
  <2>1. CASE c \in UNION services
    BY <2>1
  <2>2. \/ c \in Line!NetworkTasks(j) \/ c \in Line!BackupTasks \/ c \in UNION services
        \/ c \in Line!RegionalTasks(j) \/ c \in Line!GatewayTasks
    <3> DEFINE regional == IF j.purpose = "regional" THEN Line!RegionalTasks(j) \union Line!GatewayTasks
                           ELSE {}
    <3>1. Line!Tasks(j) = ((Line!NetworkTasks(j) \union Line!BackupTasks) \union UNION services)
                          \union regional
      BY DEF Line!Tasks
    <3>2. c \in regional => c \in Line!RegionalTasks(j) \/ c \in Line!GatewayTasks
      OBVIOUS
    <3> HIDE DEF regional, services
    <3> QED BY <3>1, <3>2
  <2> QED BY <2>1, <2>2
<1>7. \A s : (IF s = "matrix" THEN "services" ELSE "files") \in {"services", "files"}
  OBVIOUS
<1> QED BY <1>1, <1>2, <1>3, <1>4, <1>5, <1>6, <1>7

\* Of trouble a command answers with only what its exit status tells or what is overlooked.
Tells(words, a) ==
    \/ a \notin Line!Trouble
    \/ a \in Line!Blocking(words[1]) \/ words[1] \in Line!Stated
    \/ words[1] = "gateway" /\ a \in Line!CertificateTrouble \union {"gateway-certificate-pending"}
    \/ a = "cancelled"

\* No action answers with trouble that its command passes over.
LEMMA AnswersTell ==
    ASSUME NEW words, IssuerHead(words), NEW a \in Line!Answers(words)
    PROVE  Tells(words, a) /\ a # "misused"
<1> USE DEF Tells, Line!Trouble, Line!CertificateTrouble, Line!BackupTrouble, Line!Raised,
            Line!Blocking, Line!Stated
<1>1. CASE Len(words) = 3 /\ words[2] = "regional"
  BY <1>1 DEF Line!Answers, Line!ConnectorAnswers
<1>2. CASE Len(words) = 3 /\ words[2] = "issuer"
  BY <1>2 DEF Line!Answers, Line!IssuerAnswers, IssuerHead
<1>3. CASE a \in Line!ShortAnswers(words)
  <2>1. CASE words[1] = "portable"
    BY <1>3, <2>1 DEF Line!ShortAnswers, Line!PortableAnswers, Line!PortableInstallAnswers
  <2>2. CASE words[1] = "upgrade"
    BY <1>3, <2>2 DEF Line!ShortAnswers, Line!UpgradeAnswers, Line!ReviewAnswers
  <2>3. CASE words[1] = "gateway"
    BY <1>3, <2>3 DEF Line!ShortAnswers, Line!GatewayAnswers
  <2>4. CASE words[1] = "files"
    BY <1>3, <2>4 DEF Line!ShortAnswers, Line!FilesAnswers
  <2>5. CASE words[1] = "services"
    BY <1>3, <2>5 DEF Line!ShortAnswers, Line!ServicesAnswers
  <2>6. CASE words[1] = "backup"
    BY <1>3, <2>6 DEF Line!ShortAnswers, Line!BackupAnswers
  <2>7. CASE words[1] = "regional"
    BY <1>3, <2>7 DEF Line!ShortAnswers, Line!RegionalAnswers
  <2>8. CASE words[1] \in {"infrastructure", "node", "doctor"}
    BY <1>3, <2>8
    DEF Line!ShortAnswers, Line!InfrastructureAnswers, Line!NodeAnswers, Line!DoctorAnswers
  <2>9. CASE words[1] \in {"status", "start", "setup", "access"}
    BY <1>3, <2>9 DEF Line!ShortAnswers, Line!AccessAnswers
  <2>10. CASE words[1] \notin {"portable", "upgrade", "gateway", "files", "services", "backup",
                                "regional", "infrastructure", "node", "doctor", "status",
                                "start", "setup", "access"}
    BY <1>3, <2>10 DEF Line!ShortAnswers
  <2> QED BY <2>1, <2>2, <2>3, <2>4, <2>5, <2>6, <2>7, <2>8, <2>9, <2>10
<1>4. \/ Len(words) = 3 /\ words[2] \in {"regional", "issuer"}
      \/ a \in Line!ShortAnswers(words)
  BY DEF Line!Answers
<1> QED BY <1>1, <1>2, <1>3, <1>4

\* The exit status of what a command answers.
LEMMA AnswersExit ==
    ASSUME NEW words, IssuerHead(words), NEW a \in Line!Answers(words),
           argv.words = words, argv' = argv, answer' = a, code' = Line!ExitOf(words[1], a)
    PROVE  Line!ExitTruthful'
<1>1. Tells(words, a)
  BY AnswersTell
<1> USE DEF Line!ExitOf, Line!result_for_state, Line!SUCCESS, Line!FAILED, Line!INVALID,
            Line!BLOCKED, Line!PENDING
<1>2. code' = 0 => a \notin Line!Trouble \/ Line!Overlooked'
  <2>1. CASE words[1] \in Line!Stated
    <3>1. code' = 0 => a \in {"prepared", "draft", "checks-passed", "installed", "enrolled"}
      BY <2>1
    <3> QED BY <3>1 DEF Line!Trouble, Line!CertificateTrouble, Line!BackupTrouble, Line!Raised
  <2>2. CASE words[1] \notin Line!Stated
    <3>1. code' = 0 => a \notin Line!Blocking(words[1]) /\ (a = "cancelled" => words[1] = "portable")
      BY <2>2
    <3> QED BY <1>1, <2>2, <3>1 DEF Tells, Line!Overlooked
  <2> QED BY <2>1, <2>2
<1>3. code' = 4 => a \in {"cancelled", "awaiting_enrollment"}
  OBVIOUS
<1>4. code' # 2
  OBVIOUS
<1> QED BY <1>2, <1>3, <1>4 DEF Line!ExitTruthful

\* What is parsed was typed, or is a command; and no action ran before its arguments were taken.
LineInv ==
    /\ origin \in {"line", "menu", "guide"}
    /\ phase = "parse" /\ origin # "line" => Line!Accepted(argv)
    /\ phase = "parse" /\ origin = "guide" => argv.words # <<"guide">>
    /\ phase = "guide" => origin # "guide"
    /\ phase = "run" => Line!Accepted(argv)
    /\ answer = "misused" => origin = "line" /\ phase = "done"
    /\ phase \in {"begin", "parse", "guide", "run", "done"}
    /\ Line!ExitTruthful

LEMMA LineInitInv == Line!Init => LineInv
  BY DEF Line!Init, LineInv, Line!ExitTruthful

LEMMA LineStepInv == LineInv /\ [Line!Next]_commandVars => LineInv'
<1> SUFFICES ASSUME LineInv, [Line!Next]_commandVars PROVE LineInv'
  OBVIOUS
<1> USE DEF LineInv, Line!SUCCESS, Line!FAILED, Line!INVALID, Line!BLOCKED, Line!PENDING
<1>1. CASE Line!Type
  BY <1>1 DEF Line!Type, Line!ExitTruthful
<1>2. CASE Line!Help
  BY <1>2
  DEF Line!Help, Line!End, Line!ExitTruthful, Line!Trouble, Line!CertificateTrouble,
     Line!BackupTrouble, Line!Raised
<1>3. CASE Line!Menu
  BY <1>3, MenuAccepted DEF Line!Menu, Line!End, Line!ExitTruthful
<1>4. CASE Line!Parse
  BY <1>4 DEF Line!Parse, Line!End, Line!ExitTruthful
<1>5. CASE Line!OpenGuide
  BY <1>5, TasksFit DEF Line!OpenGuide, Line!End, Line!ExitTruthful
<1>6. CASE Line!Run
  <2>1. phase' = "done" /\ origin' = origin /\ argv' = argv /\ Line!Accepted(argv)
    BY <1>6 DEF Line!Run, Line!End
  <2>2. IssuerHead(argv.words)
    BY <2>1, IssuerForms DEF Line!Accepted
  <2>3. CASE \E a \in Line!Answers(argv.words) : Line!End(a, Line!ExitOf(argv.words[1], a))
    <3>1. PICK a \in Line!Answers(argv.words) : answer' = a /\ code' = Line!ExitOf(argv.words[1], a)
      BY <2>3 DEF Line!End
    <3>2. Line!ExitTruthful'
      BY <2>1, <2>2, <3>1, AnswersExit
    <3>3. answer' # "misused"
      BY <2>2, <3>1, AnswersTell
    <3> QED BY <2>1, <3>2, <3>3
  <2>4. CASE \E e \in Line!RaisedBy(argv.words) : Line!End(e, Line!ExitRaised(argv.words[1], e))
    <3>1. PICK e \in Line!RaisedBy(argv.words) : answer' = e /\ code' = Line!ExitRaised(argv.words[1], e)
      BY <2>4 DEF Line!End
    <3>2. e \in {"refused", "failure", "interrupted", "invalid"}
      BY DEF Line!RaisedBy, Line!Raised
    <3>3. Line!ExitTruthful'
      BY <3>1 DEF Line!ExitRaised, Line!ExitTruthful
    <3> QED BY <2>1, <3>1, <3>2, <3>3
  <2> QED BY <1>6, <2>3, <2>4 DEF Line!Run
<1>7. CASE UNCHANGED commandVars
  BY <1>7 DEF commandVars, Line!ExitTruthful, Line!Overlooked
<1> HIDE DEF LineInv
<1> QED BY <1>1, <1>2, <1>3, <1>4, <1>5, <1>6, <1>7 DEF Line!Next

LEMMA LineSound == LineInv => Line!TasksAccepted /\ Line!ExitTruthful
  BY DEF LineInv, Line!TasksAccepted

-----------------------------------------------------------------------------
(* All of them.                                                            *)

\* What each part of the operator's side keeps.
OperatorInv == LayoutTyped /\ SetupInv /\ JourneyInv /\ FolderInv /\ StatusInv /\ LineInv

LEMMA OperatorInitInv == OperatorInit => OperatorInv
  BY LayoutInit, SetupInitInv, JourneyInitInv, FolderInitInv, StatusInitInv, LineInitInv
  DEF OperatorInit, OperatorInv

\* In each step one part moves, and the others stay as they are.
LEMMA OperatorStepInv == OperatorInv /\ [OperatorNext]_operatorVars => OperatorInv'
<1> SUFFICES ASSUME OperatorInv, [OperatorNext]_operatorVars PROVE OperatorInv'
  OBVIOUS
<1>1. [PlanNext]_plan
  BY DEF OperatorNext, operatorVars
<1>2. [Setup!Next]_setupVars
  BY DEF OperatorNext, operatorVars
<1>3. [Journey!Next]_journeyVars
  BY DEF OperatorNext, operatorVars
<1>4. [Folder!Next]_folderVars
  BY DEF OperatorNext, operatorVars
<1>5. [Status!Next]_statusVars
  BY DEF OperatorNext, operatorVars
<1>6. [Line!Next]_commandVars
  BY DEF OperatorNext, operatorVars
<1> QED BY <1>1, <1>2, <1>3, <1>4, <1>5, <1>6, LayoutStep, SetupStepInv, JourneyStepInv,
           FolderStepInv, StatusStepInv, LineStepInv DEF OperatorInv

\* The invariant holds whatever part moves.
THEOREM PreparationInvariance == OperatorSpec => []OperatorInv
  BY OperatorInitInv, OperatorStepInv, PTL DEF OperatorSpec

\* Whatever operators answer, in which order they go back and resume, and wherever a command
\* is killed: what they are led to is valid.
THEOREM PreparationIsSound == OperatorSpec => []PreparationSound
<1>1. OperatorInv => PreparationSound
  BY LayoutSound, SetupResumes, JourneyReview, FolderGenuine, LineSound
  DEF OperatorInv, PreparationSound
<1> QED BY <1>1, PreparationInvariance, PTL

\* Whatever changes while a status is collected, it asks for attention if something was wrong
\* all along; and no command hides trouble behind the exit status 0.
THEOREM ReadingsAreHonest == OperatorSpec => []QuietHonest
<1>1. OperatorInv => QuietHonest
  BY StatusHonest, LineSound DEF OperatorInv, QuietHonest
<1> QED BY <1>1, PreparationInvariance, PTL
=============================================================================
