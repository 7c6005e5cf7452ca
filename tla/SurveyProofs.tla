---------------------------- MODULE SurveyProofs ----------------------------
(***************************************************************************)
(* Proofs about surveys, however long and however often they are edited:   *)
(* rules stay sound, memories stay behind and edits keep what rules mean;  *)
(* in an interview, no decision to ask or to skip is taken too early, and  *)
(* in the end those asked are the questions the navigator asks.            *)
(*                                                                         *)
(* Sound says of one survey what every edit keeps.  That rules are sound   *)
(* is not enough for itself: a new rule is of its own priority because     *)
(* priorities are bounded, so that there is a highest, and a memory stays  *)
(* behind when a question is deleted because no question is there twice.   *)
(* Two parts serve the later sections: a default rule leads at most to the *)
(* place after the last question, and a rule with the priority of a        *)
(* default is no rule for before its question.                             *)
(***************************************************************************)
EXTENDS SurveyInterview, WellFoundedInduction, SequenceTheorems, FiniteSetTheorems, TLAPS

-----------------------------------------------------------------------------
(***************************************************************************)
(* The highest priority.                                                   *)
(***************************************************************************)

Less == {p \in Nat \X Nat : p[1] < p[2]}

LEMMA LessWellFounded == IsWellFoundedOn(Less, Nat)
<1>1. Less = OpToRel(<, Nat)
  BY DEF Less, OpToRel
<1> QED
  BY <1>1, NatLessThanWellFounded

LEMMA Least ==
  ASSUME NEW T \in SUBSET Nat, T # {}
  PROVE  \E x \in T : \A y \in T : x <= y
<1>1. PICK x \in T : \A y \in T : <<y, x>> \notin Less
  BY LessWellFounded, WFMin
<1>2. \A y \in Nat : y < x => <<y, x>> \in Less
  <2> SUFFICES ASSUME NEW y \in Nat, y < x
               PROVE  <<y, x>> \in Less
    OBVIOUS
  <2> QED
    BY DEF Less
<1>3. \A y \in T : ~(y < x) /\ y \in Nat /\ x \in Nat
  BY <1>1, <1>2
<1> QED
  BY <1>3

\* A set of numbers with an upper bound has a greatest element.
LEMMA Greatest ==
  ASSUME NEW S \in SUBSET Int, S # {}, NEW n \in Int, \A x \in S : x <= n
  PROVE  Max(S) \in S /\ \A y \in S : Max(S) >= y
<1> DEFINE T == {n - x : x \in S}
<1>1. T \in SUBSET Nat /\ T # {}
  <2>1. \A x \in S : n - x \in Nat
    OBVIOUS
  <2> QED
    BY <2>1
<1>2. PICK z \in T : \A y \in T : z <= y
  BY <1>1, Least
<1>3. PICK x \in S : z = n - x
  OBVIOUS
<1>4. \A y \in S : n - x <= n - y
  BY <1>2, <1>3
<1>5. \A y \in S : x >= y
  BY <1>4
<1> QED
  BY <1>5 DEF Max

-----------------------------------------------------------------------------
(***************************************************************************)
(* Lists of questions.                                                     *)
(***************************************************************************)

\* List p is o with q inserted at index i, counted from 0.
IsInserted(p, o, i, q) ==
  /\ p \in Seq(Questions)
  /\ Len(p) = Len(o) + 1
  /\ \A k \in 1..Len(o) + 1 :
       p[k] = IF k <= i THEN o[k] ELSE IF k = i + 1 THEN q ELSE o[k - 1]

\* List p is o without what is at index i.
IsRemoved(p, o, i) ==
  /\ p \in Seq(Questions)
  /\ Len(p) = Len(o) - 1
  /\ \A k \in 1..Len(o) - 1 : p[k] = IF k <= i THEN o[k] ELSE o[k + 1]

LEMMA Inserted ==
  ASSUME NEW o \in Seq(Questions), NEW i \in 0..Len(o), NEW q \in Questions
  PROVE  IsInserted(InsertAt(o, i + 1, q), o, i, q)
<1> DEFINE p == InsertAt(o, i + 1, q)
<1> DEFINE a == SubSeq(o, 1, i)
           z == SubSeq(o, i + 1, Len(o))
<1>1. a \in Seq(Questions) /\ Len(a) = i /\ \A k \in 1..i : a[k] = o[k]
  BY SubSeqProperties
<1>2. z \in Seq(Questions) /\ Len(z) = Len(o) - i /\ \A k \in 1..Len(o) - i : z[k] = o[i + k]
  BY SubSeqProperties
<1>3. p = a \o <<q>> \o z
  <2>1. (i + 1) - 1 = i
    OBVIOUS
  <2> QED
    BY <2>1 DEF InsertAt
<1>4. <<q>> \in Seq(Questions) /\ Len(<<q>>) = 1 /\ <<q>>[1] = q
  OBVIOUS
<1> DEFINE b == a \o <<q>>
<1> HIDE DEF a, z, p
<1>5. /\ b \in Seq(Questions) /\ Len(b) = i + 1
      /\ \A k \in 1..i + 1 : b[k] = IF k <= i THEN o[k] ELSE q
  BY <1>1, <1>4, ConcatProperties
<1> HIDE DEF b
<1>6. /\ p \in Seq(Questions) /\ Len(p) = Len(o) + 1
      /\ \A k \in 1..Len(o) + 1 : p[k] = IF k <= i + 1 THEN b[k] ELSE z[k - (i + 1)]
  <2>1. /\ b \o z \in Seq(Questions) /\ Len(b \o z) = Len(b) + Len(z)
        /\ \A k \in 1..Len(b) + Len(z) :
             (b \o z)[k] = IF k <= Len(b) THEN b[k] ELSE z[k - Len(b)]
    BY <1>2, <1>5, ConcatProperties
  <2>2. Len(b) = i + 1 /\ Len(b) + Len(z) = Len(o) + 1
    BY <1>2, <1>5
  <2>3. p = b \o z
    BY <1>3 DEF b
  <2> QED
    BY <2>1, <2>2, <2>3
<1>7. \A k \in i + 2..Len(o) + 1 : z[k - (i + 1)] = o[k - 1]
  BY <1>2
<1>8. ASSUME NEW k \in 1..Len(o) + 1
      PROVE  p[k] = IF k <= i THEN o[k] ELSE IF k = i + 1 THEN q ELSE o[k - 1]
  <2>1. CASE k <= i + 1
    BY <1>5, <1>6, <2>1
  <2>2. CASE k \in i + 2..Len(o) + 1
    <3>1. k \in 1..Len(o) + 1 /\ ~(k <= i + 1) /\ ~(k <= i) /\ k # i + 1
      BY <2>2
    <3>2. p[k] = z[k - (i + 1)]
      BY <1>6, <3>1
    <3>3. z[k - (i + 1)] = o[k - 1]
      BY <1>7, <2>2
    <3> QED
      BY <3>1, <3>2, <3>3
  <2> QED
    BY <2>1, <2>2
<1> QED
  BY <1>6, <1>8 DEF IsInserted, p

LEMMA Removed ==
  ASSUME NEW o \in Seq(Questions), NEW i \in 0..Len(o) - 1
  PROVE  IsRemoved(RemoveAt(o, i + 1), o, i)
<1> DEFINE p == RemoveAt(o, i + 1)
<1> DEFINE a == SubSeq(o, 1, i)
           z == SubSeq(o, i + 2, Len(o))
<1>1. a \in Seq(Questions) /\ Len(a) = i /\ \A k \in 1..i : a[k] = o[k]
  BY SubSeqProperties
<1>2. z \in Seq(Questions) /\ Len(z) = Len(o) - i - 1
      /\ \A k \in 1..Len(o) - i - 1 : z[k] = o[i + 1 + k]
  BY SubSeqProperties
<1>3. p = a \o z
  <2>1. (i + 1) - 1 = i /\ (i + 1) + 1 = i + 2
    OBVIOUS
  <2> QED
    BY <2>1 DEF RemoveAt
<1> HIDE DEF a, z, p
<1>4. /\ p \in Seq(Questions) /\ Len(p) = Len(o) - 1
      /\ \A k \in 1..Len(o) - 1 : p[k] = IF k <= i THEN a[k] ELSE z[k - i]
  <2>1. /\ a \o z \in Seq(Questions) /\ Len(a \o z) = Len(a) + Len(z)
        /\ \A k \in 1..Len(a) + Len(z) :
             (a \o z)[k] = IF k <= Len(a) THEN a[k] ELSE z[k - Len(a)]
    BY <1>1, <1>2, ConcatProperties
  <2>2. Len(a) = i /\ Len(a) + Len(z) = Len(o) - 1
    BY <1>1, <1>2
  <2> QED
    BY <1>3, <2>1, <2>2
<1>5. \A k \in i + 1..Len(o) - 1 : z[k - i] = o[k + 1]
  BY <1>2
<1>7. ASSUME NEW k \in 1..Len(o) - 1
      PROVE  p[k] = IF k <= i THEN o[k] ELSE o[k + 1]
  <2>1. CASE k <= i
    BY <1>1, <1>4, <2>1
  <2>2. CASE k \in i + 1..Len(o) - 1
    BY <1>4, <1>5, <2>2
  <2> QED
    BY <2>1, <2>2
<1> QED
  BY <1>4, <1>7 DEF IsRemoved, p

-----------------------------------------------------------------------------
(***************************************************************************)
(* What every edit keeps of a survey.                                      *)
(***************************************************************************)

Distinct(o) == \A k, l \in 1..Len(o) : o[k] = o[l] => k = l

\* Question p comes before question q.
Before(o, p, q) == \E k, l \in 1..Len(o) : k < l /\ o[k] = p /\ o[l] = q

DefaultAt(s, i) ==
  \E r \in s.rules : r.current_q = i /\ r.reads = Always /\ IsDefault(r) /\ ~r.before_rule

\* The parts of RulesSound, and the bound on priorities.
RulesInside(s)   ==
  \A r \in s.rules :
    r.current_q < Len(s.order) /\ (r.next_q # EndOfSurvey => r.current_q < r.next_q)
DefaultsNear(s)  ==
  \A r \in s.rules : IsDefault(r) /\ r.next_q # EndOfSurvey => r.next_q <= Len(s.order)
DefaultsThere(s) == \A i \in 0..Len(s.order) - 1 : DefaultAt(s, i)
RulesApart(s)    ==
  \A r, x \in s.rules :
    r.current_q = x.current_q /\ r.before_rule = x.before_rule /\ r.priority = x.priority => r = x
RulesBounded(s)  == \E n \in Nat : \A r \in s.rules : r.priority <= n

\* A rule with the priority of a default reads nothing and is followed afterwards.
PlainDefault(r)  == r.priority >= 0 \/ (r.priority = -1 /\ r.reads = Always /\ ~r.before_rule)
DefaultsPlain(s) == \A r \in s.rules : PlainDefault(r)

MemoriesBefore(s) == \A q \in Questions : \A p \in s.memory[q] : Before(s.order, p, q)

Sound(s) ==
  /\ s \in Surveys /\ Distinct(s.order)
  /\ RulesInside(s) /\ DefaultsThere(s) /\ RulesApart(s) /\ RulesBounded(s)
  /\ DefaultsNear(s) /\ DefaultsPlain(s) /\ MemoriesBefore(s)

LEMMA IndexOfPlace ==
  ASSUME NEW s, s.order \in Seq(Questions), Distinct(s.order), NEW k \in 1..Len(s.order)
  PROVE  IndexOf(s, s.order[k]) = k - 1
<1> DEFINE j == CHOOSE x \in DOMAIN s.order : s.order[x] = s.order[k]
<1>1. j \in 1..Len(s.order) /\ s.order[j] = s.order[k]
  <2>1. DOMAIN s.order = 1..Len(s.order)
    OBVIOUS
  <2> QED
    BY <2>1
<1>2. j = k
  BY <1>1 DEF Distinct
<1> QED
  BY <1>2 DEF IndexOf

\* Sound says what the properties say.
LEMMA SoundMeans ==
  ASSUME Sound(survey)
  PROVE  RulesSound /\ MemoryBehind
<1>1. RulesSound
  BY DEF Sound, RulesInside, DefaultsNear, DefaultsThere, DefaultAt, RulesApart, RulesSound
<1>2. MemoryBehind
  <2> SUFFICES ASSUME NEW q \in Questions, NEW p \in survey.memory[q]
               PROVE  /\ {p, q} \subseteq Range(survey.order)
                      /\ IndexOf(survey, p) < IndexOf(survey, q)
    BY DEF MemoryBehind
  <2>1. PICK k \in 1..Len(survey.order), l \in 1..Len(survey.order) :
          k < l /\ survey.order[k] = p /\ survey.order[l] = q
    BY DEF Sound, MemoriesBefore, Before
  <2>2. survey.order \in Seq(Questions) /\ Distinct(survey.order)
    BY DEF Sound, Surveys
  <2>3. IndexOf(survey, p) = k - 1 /\ IndexOf(survey, q) = l - 1
    BY <2>1, <2>2, IndexOfPlace
  <2>4. DOMAIN survey.order = 1..Len(survey.order)
    BY <2>2
  <2> QED
    BY <2>1, <2>3, <2>4 DEF Range
<1> QED
  BY <1>1, <1>2

\* The map from names to indices holds indices.
LEMMA NamesTyped ==
  ASSUME NEW names \in [Questions -> Nat \cup {Unknown}], NEW o \in Seq(Questions)
  PROVE  NameIndexWith(names, o) \in [Questions -> Nat \cup {Unknown}]
<1>1. DOMAIN o = 1..Len(o)
  OBVIOUS
<1>2. ASSUME NEW q \in Range(o)
      PROVE  (CHOOSE k \in DOMAIN o : o[k] = q) - 1 \in Nat
  <2>1. \E k \in DOMAIN o : o[k] = q
    BY <1>2 DEF Range
  <2>2. (CHOOSE k \in DOMAIN o : o[k] = q) \in 1..Len(o)
    BY <1>1, <2>1
  <2> QED
    BY <2>2
<1> QED
  BY <1>2 DEF NameIndexWith

LEMMA DefaultTyped ==
  ASSUME NEW i \in Nat
  PROVE  DefaultRule(i) \in Rules
BY DEF DefaultRule, Rules

LEMMA DefaultServes ==
  ASSUME NEW s, NEW i, DefaultRule(i) \in s.rules
  PROVE  DefaultAt(s, i)
BY DEF DefaultAt, DefaultRule, IsDefault

LEMMA ConstructedSound ==
  ASSUME NEW o \in Seq(Questions), IsInjective(o)
  PROVE  Sound(Constructed(o))
<1> DEFINE s == Constructed(o)
<1>1. /\ s.order = o
      /\ s.rules = {DefaultRule(i) : i \in 0..Len(o) - 1}
      /\ s.nameIndex = NameIndexWith(NoNames, o)
      /\ s.numQuestions = IF o = <<>> THEN Unknown ELSE Len(o)
      /\ s.memory = [q \in Questions |-> {}]
      /\ s = [order |-> s.order, rules |-> s.rules, nameIndex |-> s.nameIndex,
              numQuestions |-> s.numQuestions, memory |-> s.memory]
  BY DEF Constructed
<1> HIDE DEF s
<1>2. Len(o) \in Nat /\ DOMAIN o = 1..Len(o)
  OBVIOUS
<1>3. s \in Surveys
  <2>1. s.rules \in SUBSET Rules
    BY <1>1, <1>2, DefaultTyped
  <2>2. NoNames \in [Questions -> Nat \cup {Unknown}]
    BY DEF NoNames
  <2>3. s.nameIndex \in [Questions -> Nat \cup {Unknown}]
    BY <1>1, <2>2, NamesTyped
  <2>4. s.numQuestions \in Nat \cup {Unknown} /\ s.memory \in [Questions -> SUBSET Questions]
    BY <1>1, <1>2
  <2> QED
    BY <1>1, <2>1, <2>3, <2>4 DEF Surveys
<1>4. Distinct(s.order)
  BY <1>1, <1>2 DEF Distinct, IsInjective
<1>5. \A r \in s.rules : /\ r.current_q \in 0..Len(o) - 1 /\ r.next_q = r.current_q + 1
                         /\ r.reads = Always /\ r.priority = -1 /\ r.before_rule = FALSE
                         /\ r = DefaultRule(r.current_q)
  BY <1>1, <1>2 DEF DefaultRule
<1>6. RulesInside(s)
  BY <1>1, <1>2, <1>5 DEF RulesInside
<1>7. DefaultsThere(s)
  <2>1. \A i \in 0..Len(o) - 1 : DefaultRule(i) \in s.rules
    BY <1>1
  <2> QED
    BY <1>1, <2>1, DefaultServes DEF DefaultsThere
<1>8. RulesApart(s)
  BY <1>5 DEF RulesApart
<1>9. RulesBounded(s)
  <2>1. \A r \in s.rules : r.priority <= 0
    BY <1>5
  <2> QED
    BY <2>1 DEF RulesBounded
<1>10. DefaultsPlain(s)
  BY <1>5 DEF DefaultsPlain, PlainDefault
<1>11. MemoriesBefore(s)
  BY <1>1 DEF MemoriesBefore
<1>12. DefaultsNear(s)
  BY <1>1, <1>2, <1>5 DEF DefaultsNear
<1> QED
  BY <1>3, <1>4, <1>6, <1>7, <1>8, <1>9, <1>10, <1>11, <1>12 DEF Sound, s

-----------------------------------------------------------------------------
(***************************************************************************)
(* Inserting a question.                                                   *)
(***************************************************************************)

\* The places of questions before and after an insertion at place i + 1.
Shifted(k, i) == IF k <= i THEN k ELSE k + 1

LEMMA InsertedKeeps ==
  ASSUME NEW o \in Seq(Questions), Distinct(o), NEW i \in 0..Len(o), NEW q \in Questions,
         q \notin Range(o), NEW p, IsInserted(p, o, i, q)
  PROVE  /\ Distinct(p)
         /\ \A x, y : Before(o, x, y) => Before(p, x, y)
<1>1. /\ p \in Seq(Questions) /\ Len(p) = Len(o) + 1
      /\ \A k \in 1..Len(o) + 1 :
           p[k] = IF k <= i THEN o[k] ELSE IF k = i + 1 THEN q ELSE o[k - 1]
  BY DEF IsInserted
<1>2. \A k \in 1..Len(o) : o[k] # q
  <2>1. DOMAIN o = 1..Len(o)
    OBVIOUS
  <2> QED
    BY <2>1 DEF Range
<1>3. Distinct(p)
  <2> SUFFICES ASSUME NEW k \in 1..Len(o) + 1, NEW l \in 1..Len(o) + 1, k < l, p[k] = p[l]
               PROVE  FALSE
    <3>1. ASSUME \A k, l \in 1..Len(o) + 1 : k < l => p[k] # p[l]
          PROVE  \A k, l \in 1..Len(o) + 1 : p[k] = p[l] => k = l
      <4>1. \A k, l \in 1..Len(o) + 1 : k < l \/ l < k \/ k = l
        OBVIOUS
      <4> QED
        BY <3>1, <4>1
    <3> QED
      BY <1>1, <3>1 DEF Distinct
  <2>1. CASE k <= i /\ l <= i
    BY <1>1, <2>1 DEF Distinct
  <2>2. CASE k <= i /\ l > i + 1
    <3>1. p[k] = o[k] /\ p[l] = o[l - 1] /\ k \in 1..Len(o) /\ l - 1 \in 1..Len(o)
      BY <1>1, <2>2
    <3>2. o[k] = o[l - 1]
      BY <3>1
    <3>3. k = l - 1
      BY <3>1, <3>2 DEF Distinct
    <3> QED
      BY <2>2, <3>3
  <2>3. CASE k > i + 1
    <3>1. /\ p[k] = o[k - 1] /\ p[l] = o[l - 1]
          /\ k - 1 \in 1..Len(o) /\ l - 1 \in 1..Len(o)
      BY <1>1, <2>3
    <3>2. k - 1 = l - 1
      BY <3>1 DEF Distinct
    <3> QED
      BY <3>2
  <2>4. CASE k = i + 1
    <3>1. p[k] = q /\ p[l] = o[l - 1] /\ l - 1 \in 1..Len(o)
      BY <1>1, <2>4
    <3> QED
      BY <1>2, <3>1
  <2>5. CASE l = i + 1
    <3>1. p[l] = q /\ p[k] = o[k] /\ k \in 1..Len(o)
      BY <1>1, <2>5
    <3> QED
      BY <1>2, <3>1
  <2> QED
    BY <2>1, <2>2, <2>3, <2>4, <2>5
<1>4. \A k \in 1..Len(o) : /\ Shifted(k, i) \in 1..Len(p) /\ p[Shifted(k, i)] = o[k]
                           /\ \A l \in 1..Len(o) : k < l => Shifted(k, i) < Shifted(l, i)
  BY <1>1 DEF Shifted
<1>5. \A x, y : Before(o, x, y) => Before(p, x, y)
  BY <1>4 DEF Before
<1> QED
  BY <1>3, <1>5

LEMMA RuleFields ==
  ASSUME NEW r \in Rules
  PROVE  /\ r = [current_q |-> r.current_q, next_q |-> r.next_q, reads |-> r.reads,
                 priority |-> r.priority, before_rule |-> r.before_rule]
         /\ r.current_q \in Nat /\ r.next_q \in Nat \cup {EndOfSurvey}
         /\ r.reads \in Questions \cup {Always} /\ r.priority \in Int /\ r.before_rule \in BOOLEAN
BY DEF Rules

\* Rules that agree in every field are one rule.
LEMMA SameRule ==
  ASSUME NEW r \in Rules, NEW x \in Rules,
         r.current_q = x.current_q, r.next_q = x.next_q, r.reads = x.reads,
         r.priority = x.priority, r.before_rule = x.before_rule
  PROVE  r = x
BY RuleFields

LEMMA MovedUpRule ==
  ASSUME NEW r \in Rules, NEW i \in Nat, NEW m, m = MovedUp(r, i)
  PROVE  /\ m \in Rules
         /\ m.current_q = IF r.current_q >= i THEN r.current_q + 1 ELSE r.current_q
         /\ m.next_q = IF r.next_q # EndOfSurvey /\ r.next_q >= i THEN r.next_q + 1 ELSE r.next_q
         /\ m.reads = r.reads /\ m.priority = r.priority /\ m.before_rule = r.before_rule
<1> DEFINE c == r.current_q
           n == r.next_q
           c2 == IF c >= i THEN c + 1 ELSE c
           n2 == IF n # EndOfSurvey /\ n >= i THEN n + 1 ELSE n
<1>1. r = [current_q |-> c, next_q |-> n, reads |-> r.reads,
           priority |-> r.priority, before_rule |-> r.before_rule]
  BY RuleFields
<1>2. m = [r EXCEPT !.current_q = c2, !.next_q = n2]
  BY DEF MovedUp
<1>3. c2 \in Nat /\ n2 \in Nat \cup {EndOfSurvey}
  BY RuleFields
<1> HIDE DEF c, n, c2, n2
<1>4. m = [current_q |-> c2, next_q |-> n2, reads |-> r.reads,
           priority |-> r.priority, before_rule |-> r.before_rule]
  BY <1>1, <1>2
<1>5. m \in Rules
  BY <1>3, <1>4, RuleFields DEF Rules
<1>6. m.current_q = c2 /\ m.next_q = n2
      /\ m.reads = r.reads /\ m.priority = r.priority /\ m.before_rule = r.before_rule
  BY <1>4
<1> QED
  BY <1>5, <1>6 DEF c, n, c2, n2

\* Rule m is r after the question at index i is deleted, which leaves n.
IsMovedDown(m, r, i, n) ==
  LET moved == IF r.next_q # EndOfSurvey /\ r.next_q > i THEN r.next_q - 1 ELSE r.next_q
  IN  /\ m \in Rules
      /\ m.current_q = IF r.current_q > i THEN r.current_q - 1 ELSE r.current_q
      /\ m.next_q = IF moved = i /\ i = n THEN EndOfSurvey ELSE moved
      /\ m.reads = r.reads /\ m.priority = r.priority /\ m.before_rule = r.before_rule

LEMMA MovedDownRule ==
  ASSUME NEW r \in Rules, NEW i \in Nat, NEW n \in Nat
  PROVE  IsMovedDown(MovedDown(r, i, n), r, i, n)
<1> DEFINE m == MovedDown(r, i, n)
<1> DEFINE c == r.current_q
           to == r.next_q
           moved == IF to # EndOfSurvey /\ to > i THEN to - 1 ELSE to
           c2 == IF c > i THEN c - 1 ELSE c
           n2 == IF moved = i /\ i = n THEN EndOfSurvey ELSE moved
<1>1. r = [current_q |-> c, next_q |-> to, reads |-> r.reads,
           priority |-> r.priority, before_rule |-> r.before_rule]
  BY RuleFields
<1>2. m = [r EXCEPT !.current_q = c2, !.next_q = n2]
  BY DEF MovedDown
<1>3. c2 \in Nat /\ n2 \in Nat \cup {EndOfSurvey}
  BY RuleFields
<1> HIDE DEF c, to, moved, c2, n2, m
<1>4. m = [current_q |-> c2, next_q |-> n2, reads |-> r.reads,
           priority |-> r.priority, before_rule |-> r.before_rule]
  BY <1>1, <1>2
<1>5. m \in Rules
  BY <1>3, <1>4, RuleFields DEF Rules
<1>6. m.current_q = c2 /\ m.next_q = n2
      /\ m.reads = r.reads /\ m.priority = r.priority /\ m.before_rule = r.before_rule
  BY <1>4
<1> QED
  BY <1>5, <1>6 DEF c, to, moved, c2, n2, m, IsMovedDown

-----------------------------------------------------------------------------
(***************************************************************************)
(* Taking a question out.                                                  *)
(***************************************************************************)

LEMMA RemovedKeeps ==
  ASSUME NEW o \in Seq(Questions), Distinct(o), NEW i \in 0..Len(o) - 1,
         NEW p, IsRemoved(p, o, i)
  PROVE  /\ Distinct(p)
         /\ o[i + 1] \notin Range(p)
         /\ \A x, y : Before(o, x, y) /\ x # o[i + 1] /\ y # o[i + 1] => Before(p, x, y)
<1>1. /\ p \in Seq(Questions) /\ Len(p) = Len(o) - 1
      /\ \A k \in 1..Len(o) - 1 : p[k] = IF k <= i THEN o[k] ELSE o[k + 1]
  BY DEF IsRemoved
<1>2. \A k \in 1..Len(p) : /\ Shifted(k, i) \in 1..Len(o) /\ Shifted(k, i) # i + 1
                           /\ p[k] = o[Shifted(k, i)]
                           /\ \A l \in 1..Len(p) : Shifted(k, i) = Shifted(l, i) => k = l
  BY <1>1 DEF Shifted
<1>3. Distinct(p)
  BY <1>2 DEF Distinct
<1>4. o[i + 1] \notin Range(p)
  <2>1. DOMAIN p = 1..Len(p) /\ i + 1 \in 1..Len(o)
    BY <1>1
  <2> QED
    BY ZenonT(30), <1>2, <2>1 DEF Range, Distinct
<1>5. \A k \in 1..Len(o) : k # i + 1 =>
        LET b == IF k <= i THEN k ELSE k - 1 IN b \in 1..Len(p) /\ p[b] = o[k]
  BY <1>1
<1>6. ASSUME NEW x, NEW y, Before(o, x, y), x # o[i + 1], y # o[i + 1]
      PROVE  Before(p, x, y)
  <2>1. PICK k \in 1..Len(o), l \in 1..Len(o) : k < l /\ o[k] = x /\ o[l] = y
    BY <1>6 DEF Before
  <2> DEFINE b == IF k <= i THEN k ELSE k - 1
             c == IF l <= i THEN l ELSE l - 1
  <2>2. k # i + 1 /\ l # i + 1
    BY <1>6, <2>1
  <2>3. b < c
    BY <2>1, <2>2
  <2>4. b \in 1..Len(p) /\ c \in 1..Len(p) /\ p[b] = x /\ p[c] = y
    BY <1>5, <2>1, <2>2
  <2> QED
    BY <2>3, <2>4 DEF Before
<1> QED
  BY <1>3, <1>4, <1>6

-----------------------------------------------------------------------------
(***************************************************************************)
(* Every edit keeps a survey sound.                                        *)
(***************************************************************************)

\* What is known of the rules of a sound survey.
LEMMA SoundRules ==
  ASSUME NEW s, Sound(s)
  PROVE  /\ s.order \in Seq(Questions) /\ Len(s.order) \in Nat /\ Distinct(s.order)
         /\ s.nameIndex \in [Questions -> Nat \cup {Unknown}]
         /\ s.numQuestions \in Nat \cup {Unknown}
         /\ s.memory \in [Questions -> SUBSET Questions]
         /\ s = [order |-> s.order, rules |-> s.rules, nameIndex |-> s.nameIndex,
                 numQuestions |-> s.numQuestions, memory |-> s.memory]
         /\ \A r \in s.rules :
              /\ r \in Rules
              /\ r.current_q \in 0..Len(s.order) - 1
              /\ \/ r.next_q = EndOfSurvey
                 \/ (r.next_q \in Nat /\ r.next_q > r.current_q)
<1>1. s \in Surveys /\ RulesInside(s)
  BY DEF Sound
<1>2. s.order \in Seq(Questions) /\ Len(s.order) \in Nat /\ s.rules \in SUBSET Rules
  BY <1>1 DEF Surveys
<1>3. ASSUME NEW r \in s.rules
      PROVE  /\ r \in Rules
             /\ r.current_q \in 0..Len(s.order) - 1
             /\ r.next_q = EndOfSurvey \/ (r.next_q \in Nat /\ r.next_q > r.current_q)
  <2>1. /\ r \in Rules /\ r.current_q < Len(s.order)
        /\ r.next_q # EndOfSurvey => r.current_q < r.next_q
    BY <1>1, <1>2 DEF RulesInside
  <2>2. r.current_q \in Nat /\ r.next_q \in Nat \cup {EndOfSurvey}
    BY <2>1, RuleFields
  <2> QED
    BY <1>2, <2>1, <2>2
<1> QED
  BY <1>1, <1>2, <1>3 DEF Surveys, Sound

\* The survey with a question inserted, field by field.
LEMMA WithQuestionFields ==
  ASSUME NEW s, Sound(s), NEW q, NEW i
  PROVE  LET o == InsertAt(s.order, i + 1, q)
             w == WithQuestion(s, q, i)
         IN  /\ w.order = o
             /\ w.rules = (IF i # Len(s.order) THEN {MovedUp(x, i) : x \in s.rules} ELSE s.rules)
                            \cup {DefaultRule(i)}
             /\ w.nameIndex = NameIndexWith(s.nameIndex, o)
             /\ w.numQuestions = s.numQuestions /\ w.memory = s.memory
             /\ w = [order |-> w.order, rules |-> w.rules, nameIndex |-> w.nameIndex,
                     numQuestions |-> w.numQuestions, memory |-> w.memory]
<1> DEFINE o == InsertAt(s.order, i + 1, q)
           w == WithQuestion(s, q, i)
           names == NameIndexWith(s.nameIndex, o)
           rules == (IF i # Len(s.order) THEN {MovedUp(x, i) : x \in s.rules} ELSE s.rules)
                      \cup {DefaultRule(i)}
<1>1. w = [s EXCEPT !.order = o, !.rules = rules, !.nameIndex = names]
  BY DEF WithQuestion
<1>2. s = [order |-> s.order, rules |-> s.rules, nameIndex |-> s.nameIndex,
           numQuestions |-> s.numQuestions, memory |-> s.memory]
  BY SoundRules
<1> HIDE DEF names, rules, o, w
<1>3. w = [order |-> o, rules |-> rules, nameIndex |-> names,
           numQuestions |-> s.numQuestions, memory |-> s.memory]
  BY <1>1, <1>2
<1> QED
  BY <1>3 DEF names, rules, o, w

LEMMA WithQuestionSound ==
  ASSUME NEW s, Sound(s), NEW q \in Questions, q \notin Range(s.order),
         NEW i \in 0..Len(s.order)
  PROVE  Sound(WithQuestion(s, q, i))
<1> DEFINE n == Len(s.order)
           o == InsertAt(s.order, i + 1, q)
           interior == i # n
           f(x) == IF interior THEN MovedUp(x, i) ELSE x
           kept == IF interior THEN {MovedUp(x, i) : x \in s.rules} ELSE s.rules
           w == WithQuestion(s, q, i)
<1>1. /\ w.order = o /\ w.rules = kept \cup {DefaultRule(i)}
      /\ w.nameIndex = NameIndexWith(s.nameIndex, o)
      /\ w.numQuestions = s.numQuestions /\ w.memory = s.memory
      /\ w = [order |-> w.order, rules |-> w.rules, nameIndex |-> w.nameIndex,
              numQuestions |-> w.numQuestions, memory |-> w.memory]
  BY WithQuestionFields
<1>2. kept = {f(x) : x \in s.rules}
  <2>1. CASE interior
    BY <2>1
  <2>2. CASE ~interior
    BY <2>2
  <2> QED
    BY <2>1, <2>2
<1>3. /\ n \in Nat /\ s.order \in Seq(Questions) /\ Distinct(s.order)
      /\ IsInserted(o, s.order, i, q) /\ o \in Seq(Questions) /\ Len(o) = n + 1
  <2>1. n \in Nat /\ s.order \in Seq(Questions) /\ Distinct(s.order)
    BY SoundRules
  <2>2. IsInserted(o, s.order, i, q)
    BY <2>1, Inserted
  <2> HIDE DEF o
  <2> QED
    BY <2>1, <2>2 DEF IsInserted
<1>4. ASSUME NEW x \in s.rules
      PROVE  /\ f(x) \in Rules
             /\ f(x).current_q = IF x.current_q >= i THEN x.current_q + 1 ELSE x.current_q
             /\ x.current_q \in 0..n - 1
             /\ \/ f(x).next_q = EndOfSurvey
                \/ (f(x).next_q \in Nat /\ f(x).next_q > f(x).current_q)
             /\ x.next_q # EndOfSurvey /\ x.next_q <= n => f(x).next_q <= n + 1
             /\ f(x).next_q = IF interior /\ x.next_q # EndOfSurvey /\ x.next_q >= i
                               THEN x.next_q + 1 ELSE x.next_q
             /\ f(x).reads = x.reads /\ f(x).priority = x.priority
             /\ f(x).before_rule = x.before_rule
             /\ x.priority \in Int
  <2>1. /\ x \in Rules /\ x.current_q \in 0..n - 1 /\ x.priority \in Int
        /\ x.next_q = EndOfSurvey \/ (x.next_q \in Nat /\ x.next_q > x.current_q)
    BY SoundRules, RuleFields
  <2>2. CASE interior
    <3> DEFINE m == MovedUp(x, i)
    <3>1. /\ m \in Rules
          /\ m.current_q = IF x.current_q >= i THEN x.current_q + 1 ELSE x.current_q
          /\ m.next_q = IF x.next_q # EndOfSurvey /\ x.next_q >= i THEN x.next_q + 1 ELSE x.next_q
          /\ m.reads = x.reads /\ m.priority = x.priority /\ m.before_rule = x.before_rule
      BY <2>1, MovedUpRule
    <3>2. f(x) = m
      BY <2>2
    <3> HIDE DEF m, f
    <3>3. m.next_q = EndOfSurvey \/ (m.next_q \in Nat /\ m.next_q > m.current_q)
      <4>1. CASE x.next_q = EndOfSurvey
        BY <3>1, <4>1
      <4>2. CASE x.next_q # EndOfSurvey
        <5> DEFINE c == x.current_q
                   to == x.next_q
        <5>1. c \in 0..n - 1 /\ to \in Nat /\ to > c /\ n \in Nat /\ i \in 0..n
          BY <1>3, <2>1, <4>2
        <5>2. /\ m.current_q = IF c >= i THEN c + 1 ELSE c
              /\ m.next_q = IF to >= i THEN to + 1 ELSE to
          BY <3>1, <4>2
        <5> HIDE DEF c, to, n
        <5> QED
          BY <5>1, <5>2
      <4> QED
        BY <4>1, <4>2
    <3>4. x.next_q # EndOfSurvey /\ x.next_q <= n => m.next_q <= n + 1
      <4> HIDE DEF n
      <4> QED
        BY <1>3, <2>1, <3>1
    <3>5. m.next_q = IF interior /\ x.next_q # EndOfSurvey /\ x.next_q >= i
                     THEN x.next_q + 1 ELSE x.next_q
      BY <2>2, <3>1
    <3> HIDE DEF n, interior
    <3> QED
      BY <2>1, <3>1, <3>2, <3>3, <3>4, <3>5
  <2>3. CASE ~interior
    <3>1. f(x) = x
      BY <2>3
    <3>2. x.next_q # EndOfSurvey /\ x.next_q <= n => x.next_q <= n + 1
      <4> HIDE DEF n
      <4> QED
        BY <1>3, <2>1
    <3> HIDE DEF f
    <3> QED
      BY <1>3, <2>1, <2>3, <3>1, <3>2
  <2> QED
    BY <2>2, <2>3
<1> DEFINE d == DefaultRule(i)
<1>5. /\ d \in Rules /\ d.current_q = i /\ d.next_q = i + 1 /\ d.priority = -1
      /\ d.reads = Always /\ d.before_rule = FALSE
  BY DefaultTyped DEF DefaultRule
<1>6. \A x \in s.rules : f(x).current_q # i
  BY <1>3, <1>4
<1> HIDE DEF w, o, f, kept, d, interior, n
<1>7. w \in Surveys
  <2>1. w.rules \in SUBSET Rules
    BY <1>1, <1>2, <1>4, <1>5 DEF d
  <2>2. w.nameIndex \in [Questions -> Nat \cup {Unknown}]
    BY <1>1, <1>3, SoundRules, NamesTyped
  <2>3. w.numQuestions \in Nat \cup {Unknown} /\ w.memory \in [Questions -> SUBSET Questions]
    BY <1>1, SoundRules
  <2> QED
    BY <1>1, <1>3, <2>1, <2>2, <2>3 DEF Surveys
<1>8. Distinct(w.order) /\ \A x, y : Before(s.order, x, y) => Before(w.order, x, y)
  BY <1>1, <1>3, InsertedKeeps
<1>9. RulesInside(w) /\ DefaultsNear(w)
  <2>1. ASSUME NEW r \in w.rules
        PROVE  /\ r.current_q < n + 1 /\ (r.next_q # EndOfSurvey => r.current_q < r.next_q)
               /\ IsDefault(r) /\ r.next_q # EndOfSurvey => r.next_q <= n + 1
    <3>1. CASE r = d
      BY <1>1, <1>3, <1>5, <3>1 DEF n
    <3>2. CASE r \in kept
      <4>1. PICK x \in s.rules : r = f(x)
        BY <1>2, <3>2
      <4>2. IsDefault(x) /\ x.next_q # EndOfSurvey => x.next_q <= n
        BY DEF Sound, DefaultsNear, n
      <4>3. r.current_q < n + 1 /\ (r.next_q # EndOfSurvey => r.current_q < r.next_q)
        BY <1>3, <1>4, <4>1
      <4>4. IsDefault(r) /\ r.next_q # EndOfSurvey => IsDefault(x) /\ x.next_q # EndOfSurvey
        BY <1>4, <4>1 DEF IsDefault
      <4> QED
        BY <1>4, <4>1, <4>2, <4>3, <4>4
    <3> QED
      BY <1>1, <2>1, <3>1, <3>2 DEF d
  <2> QED
    BY <1>1, <1>3, <2>1 DEF RulesInside, DefaultsNear
<1>10. DefaultsThere(w)
  <2>1. ASSUME NEW k \in 0..n
        PROVE  DefaultAt(w, k)
    <3>1. CASE k = i
      BY <1>1, <3>1, DefaultServes DEF d
    <3>2. CASE k # i
      <4> DEFINE c == IF k < i THEN k ELSE k - 1
      <4>1. c \in 0..n - 1 /\ k = IF c >= i THEN c + 1 ELSE c
        BY <1>3, <3>2 DEF n
      <4>2. PICK x \in s.rules : /\ x.current_q = c /\ x.reads = Always /\ IsDefault(x)
                                 /\ ~x.before_rule
        BY <4>1 DEF Sound, DefaultsThere, DefaultAt, n
      <4>3. /\ f(x) \in w.rules /\ f(x).current_q = k /\ f(x).reads = Always
            /\ f(x).priority = -1 /\ f(x).before_rule = FALSE
        <5>1. f(x) \in w.rules
          BY <1>1, <1>2
        <5>2. f(x).current_q = k
          BY <1>4, <4>1, <4>2
        <5>3. f(x).before_rule = x.before_rule /\ x.before_rule \in BOOLEAN
          BY <1>4, SoundRules, RuleFields
        <5> QED
          BY <1>4, <4>2, <5>1, <5>2, <5>3 DEF IsDefault
      <4> QED
        BY <4>3 DEF DefaultAt, IsDefault
    <3> QED
      BY <3>1, <3>2
  <2> QED
    BY <1>1, <1>3, <2>1 DEF DefaultsThere
<1>11. RulesApart(w)
  <2>1. ASSUME NEW r \in w.rules, NEW x \in w.rules, r.current_q = x.current_q,
               r.before_rule = x.before_rule, r.priority = x.priority
        PROVE  r = x
    <3>1. CASE r = d \/ x = d
      BY <1>1, <1>2, <1>5, <1>6, <2>1, <3>1 DEF d
    <3>2. CASE r \in kept /\ x \in kept
      <4>1. PICK a \in s.rules, b \in s.rules : r = f(a) /\ x = f(b)
        BY <1>2, <3>2
      <4>2. a.current_q = b.current_q
        BY <1>3, <1>4, <2>1, <4>1, SMTT(30)
      <4>3. a = b
        BY <1>4, <2>1, <4>1, <4>2 DEF Sound, RulesApart
      <4> QED
        BY <4>1, <4>3
    <3> QED
      BY <1>1, <2>1, <3>1, <3>2 DEF d
  <2> QED
    BY <2>1 DEF RulesApart
<1>12. RulesBounded(w)
  <2>1. PICK b \in Nat : \A x \in s.rules : x.priority <= b
    BY DEF Sound, RulesBounded
  <2>2. \A x \in s.rules : f(x).priority <= b
    BY <1>4, <2>1
  <2>3. \A r \in w.rules : r.priority <= b
    BY <1>1, <1>2, <1>5, <2>2 DEF d
  <2> QED
    BY <2>3 DEF RulesBounded
<1>13. DefaultsPlain(w)
  <2>1. ASSUME NEW x \in s.rules
        PROVE  PlainDefault(f(x))
    <3>1. PlainDefault(x)
      BY DEF Sound, DefaultsPlain
    <3> QED
      BY <1>4, <3>1 DEF PlainDefault
  <2>2. PlainDefault(d)
    BY <1>5 DEF PlainDefault
  <2> QED
    BY <1>1, <1>2, <2>1, <2>2 DEF DefaultsPlain, d
<1>14. MemoriesBefore(w)
  BY <1>1, <1>8 DEF Sound, MemoriesBefore
<1> QED
  BY <1>7, <1>8, <1>9, <1>10, <1>11, <1>12, <1>13, <1>14 DEF Sound, w

LEMMA WithoutQuestionSound ==
  ASSUME NEW s, Sound(s), NEW i \in 0..Len(s.order) - 1
  PROVE  /\ Sound(WithoutQuestion(s, i))
         /\ s.order[i + 1] \in Questions
         /\ s.order[i + 1] \notin Range(WithoutQuestion(s, i).order)
<1> DEFINE n == Len(s.order)
           o == RemoveAt(s.order, i + 1)
           q == s.order[i + 1]
           others == {x \in s.rules : x.current_q # i}
           f(x) == MovedDown(x, i, Len(o))
           kept == {f(x) : x \in others}
           w == WithoutQuestion(s, i)
<1>1. /\ w.order = o /\ w.rules = kept
      /\ w.nameIndex = IF kept = {} THEN NoNames ELSE s.nameIndex
      /\ w.numQuestions = Len(o)
      /\ w.memory = [x \in Questions |-> IF x = q THEN {} ELSE s.memory[x] \ {q}]
      /\ w = [order |-> w.order, rules |-> w.rules, nameIndex |-> w.nameIndex,
              numQuestions |-> w.numQuestions, memory |-> w.memory]
  BY DEF WithoutQuestion
<1>2. /\ n \in Nat /\ s.order \in Seq(Questions) /\ Distinct(s.order)
      /\ q \in Questions
      /\ IsRemoved(o, s.order, i) /\ o \in Seq(Questions) /\ Len(o) = n - 1 /\ Len(o) \in Nat
      /\ i \in Nat /\ i \in 0..n - 1
  <2>1. n \in Nat /\ s.order \in Seq(Questions) /\ Distinct(s.order)
    BY SoundRules
  <2>2. IsRemoved(o, s.order, i)
    BY <2>1, Removed
  <2>3. q \in Questions
    BY <2>1
  <2> HIDE DEF o
  <2>4. o \in Seq(Questions) /\ Len(o) = n - 1
    BY <2>2 DEF IsRemoved
  <2>5. Len(o) \in Nat /\ i \in Nat /\ i \in 0..n - 1
    BY <2>1, <2>4, LenProperties
  <2> QED
    BY <2>1, <2>2, <2>3, <2>4, <2>5
<1>3. ASSUME NEW x \in others
      PROVE  /\ f(x) \in Rules
             /\ f(x).current_q = IF x.current_q > i THEN x.current_q - 1 ELSE x.current_q
             /\ x.current_q \in 0..n - 1 /\ x.current_q # i
             /\ x.next_q = EndOfSurvey \/ (x.next_q \in Nat /\ x.next_q > x.current_q)
             /\ f(x).next_q = LET moved == IF x.next_q # EndOfSurvey /\ x.next_q > i
                                           THEN x.next_q - 1 ELSE x.next_q
                              IN IF moved = i /\ i = n - 1 THEN EndOfSurvey ELSE moved
             /\ f(x).current_q \in 0..n - 2
             /\ \/ f(x).next_q = EndOfSurvey
                \/ (f(x).next_q \in Nat /\ f(x).next_q > f(x).current_q)
             /\ x.next_q = EndOfSurvey => f(x).next_q = EndOfSurvey
             /\ x.next_q <= n /\ f(x).next_q # EndOfSurvey => f(x).next_q <= n - 1
             /\ f(x).reads = x.reads /\ f(x).priority = x.priority
             /\ f(x).before_rule = x.before_rule
             /\ x.priority \in Int /\ x.before_rule \in BOOLEAN
  <2> DEFINE m == f(x)
             c == x.current_q
             to == x.next_q
             moved == IF to # EndOfSurvey /\ to > i THEN to - 1 ELSE to
  <2>1. /\ x \in Rules /\ c \in 0..n - 1 /\ x.priority \in Int /\ x.before_rule \in BOOLEAN
        /\ to = EndOfSurvey \/ (to \in Nat /\ to > c)
        /\ c # i
    BY SoundRules, RuleFields
  <2>2. /\ m \in Rules
        /\ m.current_q = IF c > i THEN c - 1 ELSE c
        /\ m.next_q = IF moved = i /\ i = Len(o) THEN EndOfSurvey ELSE moved
        /\ m.reads = x.reads /\ m.priority = x.priority /\ m.before_rule = x.before_rule
    <3>1. x \in Rules /\ i \in Nat /\ Len(o) \in Nat 
      BY <1>2, <2>1
    <3>2. IsMovedDown(m, x, i, Len(o))
      BY <3>1, MovedDownRule
    <3> HIDE DEF o, m, f, n
    <3> QED
      BY <3>2 DEF IsMovedDown
  <2> HIDE DEF m, f, n, o
  <2>3. m.current_q \in 0..n - 2
    BY <1>2, <2>1, <2>2
  <2>4. m.next_q = EndOfSurvey \/ (m.next_q \in Nat /\ m.next_q > m.current_q)
    <3>1. CASE to = EndOfSurvey
      BY <2>2, <3>1
    <3>2. CASE to # EndOfSurvey
      <4>1. /\ c \in 0..n - 1 /\ to \in Nat /\ to > c /\ c # i /\ n \in Nat /\ Len(o) = n - 1
            /\ i \in 0..n - 1
        BY <1>2, <2>1, <3>2
      <4>2. m.next_q = EndOfSurvey \/ m.next_q = IF to > i THEN to - 1 ELSE to
        BY <2>2, <3>2
      <4> HIDE DEF c, to
      <4> QED
        BY <2>2, <4>1, <4>2 DEF n
    <3> QED
      BY <3>1, <3>2
  <2>5. to = EndOfSurvey => m.next_q = EndOfSurvey
    BY <1>2, <2>2, SurveyConstants
  <2>6. to <= n /\ m.next_q # EndOfSurvey => m.next_q <= n - 1
    <3>1. CASE to = EndOfSurvey
      BY <2>5, <3>1
    <3>2. CASE to # EndOfSurvey
      <4>1. to \in Nat /\ n \in Nat /\ i \in 0..n - 1 /\ Len(o) = n - 1
        BY <1>2, <2>1, <3>2
      <4>2. /\ moved = IF to > i THEN to - 1 ELSE to
            /\ m.next_q = IF moved = i /\ i = n - 1 THEN EndOfSurvey ELSE moved
        BY <1>2, <2>2, <3>2
      <4> HIDE DEF to, moved, n
      <4> QED
        BY <4>1, <4>2
    <3> QED
      BY <3>1, <3>2
  <2> QED
    BY <1>2, <2>1, <2>2, <2>3, <2>4, <2>5, <2>6 DEF m
<1> HIDE DEF w, o, f, kept, n, others, q
<1>4. \A r \in kept : \E x \in others : r = f(x)
  BY DEF kept
<1>5. others \subseteq s.rules
  BY DEF others
<1>6. w \in Surveys
  <2>1. w.rules \in SUBSET Rules
    BY <1>1, <1>3, <1>4
  <2>2. w.nameIndex \in [Questions -> Nat \cup {Unknown}]
    BY <1>1, SoundRules DEF NoNames
  <2>3. w.numQuestions \in Nat \cup {Unknown}
    BY <1>1, <1>2
  <2>4. w.memory \in [Questions -> SUBSET Questions]
    BY <1>1, SoundRules
  <2> QED
    BY <1>1, <1>2, <2>1, <2>2, <2>3, <2>4 DEF Surveys
<1>7. /\ Distinct(w.order) /\ q \notin Range(w.order)
      /\ \A x, y : Before(s.order, x, y) /\ x # q /\ y # q => Before(w.order, x, y)
  <2>1. IsRemoved(w.order, s.order, i) /\ i \in 0..Len(s.order) - 1
    BY <1>1, <1>2
  <2> QED
    BY <1>2, <2>1, RemovedKeeps DEF q
<1>8. RulesInside(w) /\ DefaultsNear(w)
  <2>1. ASSUME NEW r \in w.rules
        PROVE  /\ r.current_q < n - 1 /\ (r.next_q # EndOfSurvey => r.current_q < r.next_q)
               /\ IsDefault(r) /\ r.next_q # EndOfSurvey => r.next_q <= n - 1
    <3>1. PICK x \in others : r = f(x)
      BY <1>1, <1>4
    <3>2. r.current_q < n - 1 /\ (r.next_q # EndOfSurvey => r.current_q < r.next_q)
      BY <1>2, <1>3, <3>1
    <3>3. IsDefault(r) /\ r.next_q # EndOfSurvey => IsDefault(x) /\ x.next_q # EndOfSurvey
      BY <1>3, <3>1 DEF IsDefault
    <3>4. IsDefault(x) /\ x.next_q # EndOfSurvey => x.next_q <= n
      BY <1>5 DEF Sound, DefaultsNear, n
    <3> QED
      BY <1>3, <3>1, <3>2, <3>3, <3>4
  <2> QED
    BY <1>1, <1>2, <2>1 DEF RulesInside, DefaultsNear
<1>9. DefaultsThere(w)
  <2>1. ASSUME NEW k \in 0..n - 2
        PROVE  DefaultAt(w, k)
    <3> DEFINE c == IF k < i THEN k ELSE k + 1
    <3>1. c \in 0..n - 1 /\ c # i /\ k = IF c > i THEN c - 1 ELSE c
      BY <1>2 DEF n
    <3>2. PICK x \in s.rules : /\ x.current_q = c /\ x.reads = Always /\ IsDefault(x)
                               /\ ~x.before_rule
      BY <3>1 DEF Sound, DefaultsThere, DefaultAt, n
    <3>3. x \in others
      BY <3>1, <3>2 DEF others
    <3>4. f(x) \in w.rules
      BY <1>1, <3>3 DEF kept
    <3>5. f(x).current_q = k
      BY <1>3, <3>1, <3>2, <3>3
    <3>6. f(x).reads = Always /\ f(x).priority = -1 /\ f(x).before_rule = FALSE
      BY <1>3, <3>2, <3>3 DEF IsDefault
    <3> QED
      BY <3>4, <3>5, <3>6 DEF DefaultAt, IsDefault
  <2>2. Len(w.order) - 1 = n - 2
    BY <1>1, <1>2
  <2> QED
    BY <2>1, <2>2 DEF DefaultsThere
<1>10. RulesApart(w)
  <2>1. ASSUME NEW r \in w.rules, NEW x \in w.rules, r.current_q = x.current_q,
               r.before_rule = x.before_rule, r.priority = x.priority
        PROVE  r = x
    <3>1. PICK a \in others, b \in others : r = f(a) /\ x = f(b)
      BY <1>1, <1>4
    <3>2. a.current_q = b.current_q
      BY SMTT(30), <1>2, <1>3, <2>1, <3>1
    <3>3. a = b
      BY <1>3, <1>5, <2>1, <3>1, <3>2 DEF Sound, RulesApart
    <3> QED
      BY <3>1, <3>3
  <2> QED
    BY <2>1 DEF RulesApart
<1>11. RulesBounded(w)
  <2>1. PICK b \in Nat : \A x \in s.rules : x.priority <= b
    BY DEF Sound, RulesBounded
  <2>2. \A r \in w.rules : r.priority <= b
    BY <1>1, <1>3, <1>4, <1>5, <2>1
  <2> QED
    BY <2>2 DEF RulesBounded
<1>12. MemoriesBefore(w)
  <2>1. ASSUME NEW y \in Questions, NEW x \in w.memory[y]
        PROVE  Before(w.order, x, y)
    <3>1. y # q /\ x \in s.memory[y] /\ x # q
      BY <1>1, <2>1
    <3>2. Before(s.order, x, y)
      BY <3>1 DEF Sound, MemoriesBefore
    <3> QED
      BY <1>7, <3>1, <3>2
  <2> QED
    BY <2>1 DEF MemoriesBefore
<1>13. DefaultsPlain(w)
  <2>1. ASSUME NEW x \in others
        PROVE  PlainDefault(f(x))
    <3>1. PlainDefault(x)
      BY <1>5 DEF Sound, DefaultsPlain
    <3> QED
      BY <1>3, <3>1 DEF PlainDefault
  <2> QED
    BY <1>1, <1>4, <2>1 DEF DefaultsPlain
<1>14. Sound(w)
  BY <1>6, <1>7, <1>8, <1>9, <1>10, <1>11, <1>12, <1>13 DEF Sound
<1> QED
  BY <1>2, <1>7, <1>14 DEF w, q

\* A new rule's priority is above that of every rule of its kind, and not a default's.
LEMMA NewPriorityAbove ==
  ASSUME NEW s, Sound(s), NEW i, NEW before
  PROVE  /\ NewPriority(s, i, before) \in Nat
         /\ \A r \in ApplicableRules(s, i, before) : r.priority < NewPriority(s, i, before)
<1> DEFINE applicable == ApplicableRules(s, i, before)
           priorities == {r.priority : r \in applicable}
           p == NewPriority(s, i, before)
<1>1. applicable \subseteq s.rules
  BY DEF ApplicableRules
<1>2. PICK b \in Nat : \A r \in s.rules : r.priority <= b
  BY DEF Sound, RulesBounded
<1>3. \A r \in s.rules : r.priority \in Int /\ r.priority >= -1
  <2>1. \A r \in s.rules : r.priority \in Int
    BY SoundRules, RuleFields
  <2>2. \A r \in s.rules : PlainDefault(r)
    BY DEF Sound, DefaultsPlain
  <2> QED
    BY <2>1, <2>2 DEF PlainDefault
<1>4. p = IF priorities = {} THEN 0 ELSE Max(priorities) + 1
  BY DEF NewPriority
<1> HIDE DEF p, applicable
<1>5. priorities \in SUBSET Int /\ b \in Int /\ \A x \in priorities : -1 <= x /\ x <= b
  BY <1>1, <1>2, <1>3
<1>6. \A r \in applicable : r.priority \in priorities
  OBVIOUS
<1> HIDE DEF priorities
<1>7. CASE priorities = {}
  BY <1>4, <1>6, <1>7 DEF p, applicable
<1>8. CASE priorities # {}
  <2>1. Max(priorities) \in priorities /\ \A x \in priorities : Max(priorities) >= x
    BY <1>5, <1>8, Greatest
  <2>2. p = Max(priorities) + 1 /\ Max(priorities) \in Int /\ p \in Nat
    <3>1. Max(priorities) \in Int /\ -1 <= Max(priorities)
      BY <1>5, <2>1
    <3>2. p = Max(priorities) + 1
      BY <1>4, <1>8
    <3> QED
      BY <3>1, <3>2
  <2>3. \A x \in priorities : x \in Int /\ x < p
    BY <1>5, <2>1, <2>2
  <2> QED
    BY <1>6, <2>2, <2>3 DEF p, applicable
<1> QED
  BY <1>7, <1>8

LEMMA WithRuleSound ==
  ASSUME NEW s, Sound(s), NEW i \in 0..Len(s.order) - 1, NEW reads \in Questions \cup {Always},
         NEW next, next = EndOfSurvey \/ (next \in Nat /\ next > i), NEW before \in BOOLEAN
  PROVE  Sound(WithRule(s, i, reads, next, before))
<1> DEFINE p == NewPriority(s, i, before)
           x == [current_q |-> i, next_q |-> next, reads |-> reads,
                 priority |-> p, before_rule |-> before]
           names == NameIndexWith(s.nameIndex, s.order)
           w == WithRule(s, i, reads, next, before)
<1>1. p \in Nat /\ \A r \in ApplicableRules(s, i, before) : r.priority < p
  BY NewPriorityAbove
<1> HIDE DEF p
<1>2. Len(s.order) \in Nat /\ i \in Nat
  <2>1. Len(s.order) \in Nat
    BY SoundRules
  <2> QED
    BY <2>1
<1>3. /\ x \in Rules /\ x.current_q = i /\ x.next_q = next /\ x.priority = p
      /\ x.before_rule = before
  BY <1>1, <1>2 DEF Rules
<1>4. w = [order |-> s.order, rules |-> s.rules \cup {x}, nameIndex |-> names,
           numQuestions |-> s.numQuestions, memory |-> s.memory]
  <2> DEFINE rules == s.rules \cup {x}
  <2>1. w = [s EXCEPT !.rules = rules, !.nameIndex = names]
    BY DEF WithRule, p
  <2>2. s = [order |-> s.order, rules |-> s.rules, nameIndex |-> s.nameIndex,
             numQuestions |-> s.numQuestions, memory |-> s.memory]
    BY SoundRules
  <2> HIDE DEF rules, names, w
  <2>3. w = [order |-> s.order, rules |-> rules, nameIndex |-> names,
             numQuestions |-> s.numQuestions, memory |-> s.memory]
    BY <2>1, <2>2
  <2> QED
    BY <2>3 DEF rules
<1> HIDE DEF w, x, names
<1>5. /\ w.order = s.order /\ w.rules = s.rules \cup {x} /\ w.nameIndex = names
      /\ w.numQuestions = s.numQuestions /\ w.memory = s.memory
  BY <1>4
<1>6. w \in Surveys
  <2>1. names \in [Questions -> Nat \cup {Unknown}]
    BY SoundRules, NamesTyped DEF names
  <2>2. s.rules \cup {x} \in SUBSET Rules
    BY <1>3, SoundRules
  <2> QED
    BY <1>4, <2>1, <2>2, SoundRules DEF Surveys
<1>7. Distinct(w.order)
  BY <1>5, SoundRules
<1>8. RulesInside(w) /\ DefaultsNear(w)
  <2>1. RulesInside(w)
    BY <1>2, <1>3, <1>5 DEF Sound, RulesInside
  <2>2. ~IsDefault(x)
    BY <1>1, <1>3 DEF IsDefault
  <2>3. DefaultsNear(w)
    BY <1>5, <2>2 DEF Sound, DefaultsNear
  <2> QED
    BY <2>1, <2>3
<1>9. DefaultsThere(w)
  BY <1>5 DEF Sound, DefaultsThere, DefaultAt
<1>10. RulesApart(w)
  <2>1. \A r \in s.rules : r.current_q = i /\ r.before_rule = before => r.priority < p /\ r.priority \in Int
    BY <1>1, SoundRules, RuleFields DEF ApplicableRules
  <2>2. \A r \in s.rules :
          ~(r.current_q = x.current_q /\ r.before_rule = x.before_rule /\ r.priority = x.priority)
    BY <1>1, <1>3, <2>1
  <2> QED
    BY <1>5, <2>2 DEF Sound, RulesApart
<1>11. RulesBounded(w)
  <2>1. PICK b \in Nat : \A r \in s.rules : r.priority <= b
    BY DEF Sound, RulesBounded
  <2>2. \A r \in s.rules : r.priority \in Int
    BY SoundRules, RuleFields
  <2> DEFINE c == IF p > b THEN p ELSE b
  <2>3. c \in Nat /\ p <= c /\ \A r \in s.rules : r.priority <= c
    BY <1>1, <2>1, <2>2
  <2> HIDE DEF c
  <2>4. \A r \in w.rules : r.priority <= c
    BY <1>3, <1>5, <2>3
  <2> QED
    BY <2>3, <2>4 DEF RulesBounded
<1>12. DefaultsPlain(w)
  BY <1>1, <1>3, <1>5 DEF Sound, DefaultsPlain, PlainDefault
<1>13. MemoriesBefore(w)
  BY <1>5 DEF Sound, MemoriesBefore
<1> QED
  BY <1>6, <1>7, <1>8, <1>9, <1>10, <1>11, <1>12, <1>13 DEF Sound, w

LEMMA WithMemorySound ==
  ASSUME NEW s, Sound(s), NEW i \in 0..Len(s.order) - 1, NEW j \in 0..Len(s.order) - 1, j < i
  PROVE  Sound([s EXCEPT !.memory[s.order[i + 1]] = @ \cup {s.order[j + 1]}])
<1> DEFINE q == s.order[i + 1]
           prior == s.order[j + 1]
           memory == [s.memory EXCEPT ![q] = @ \cup {prior}]
           w == [s EXCEPT !.memory[s.order[i + 1]] = @ \cup {s.order[j + 1]}]
<1>1. /\ s.order \in Seq(Questions) /\ Len(s.order) \in Nat
      /\ i + 1 \in 1..Len(s.order) /\ j + 1 \in 1..Len(s.order) /\ j + 1 < i + 1
  <2>1. s.order \in Seq(Questions) /\ Len(s.order) \in Nat
    BY SoundRules
  <2> QED
    BY <2>1
<1>2. q \in Questions /\ prior \in Questions /\ Before(s.order, prior, q)
  BY <1>1 DEF Before
<1>3. w = [order |-> s.order, rules |-> s.rules, nameIndex |-> s.nameIndex,
           numQuestions |-> s.numQuestions, memory |-> memory]
  <2>1. w = [s EXCEPT !.memory = memory]
    OBVIOUS
  <2>2. s = [order |-> s.order, rules |-> s.rules, nameIndex |-> s.nameIndex,
             numQuestions |-> s.numQuestions, memory |-> s.memory]
    BY SoundRules
  <2> HIDE DEF memory, w
  <2> QED
    BY <2>1, <2>2
<1>4. memory \in [Questions -> SUBSET Questions]
  BY <1>2, SoundRules
<1>5. \A x \in Questions : memory[x] \subseteq s.memory[x] \cup (IF x = q THEN {prior} ELSE {})
  BY <1>2, SoundRules
<1> HIDE DEF w, memory, q, prior
<1>6. /\ w.order = s.order /\ w.rules = s.rules /\ w.nameIndex = s.nameIndex
      /\ w.numQuestions = s.numQuestions /\ w.memory = memory
  BY <1>3
<1>7. w \in Surveys
  <2>1. s.rules \in SUBSET Rules
    BY SoundRules
  <2> QED
    BY <1>3, <1>4, <2>1, SoundRules DEF Surveys
<1>8. Distinct(w.order)
  BY <1>6, SoundRules
<1>9. /\ RulesInside(w) /\ DefaultsThere(w) /\ RulesApart(w) /\ RulesBounded(w)
      /\ DefaultsNear(w) /\ DefaultsPlain(w)
  BY <1>6 DEF Sound, RulesInside, DefaultsThere, DefaultAt, RulesApart, RulesBounded,
              DefaultsNear, DefaultsPlain
<1>10. MemoriesBefore(w)
  BY <1>2, <1>5, <1>6 DEF Sound, MemoriesBefore
<1> QED
  BY <1>7, <1>8, <1>9, <1>10 DEF Sound, w

-----------------------------------------------------------------------------
(***************************************************************************)
(* The invariant: the survey is sound, and what an interview adds is       *)
(* typed.  Editing is the only action that changes the survey.             *)
(***************************************************************************)

SurveyInv == Sound(survey) /\ InterviewTypeOK

\* Each edit makes a sound survey of a sound one.
LEMMA EditKeeps ==
  ASSUME Sound(survey), edits \in 0..MaxEdits, Next
  PROVE  Sound(survey)' /\ edits' \in 0..MaxEdits
<1> DEFINE n == Len(survey.order)
<1>1. n \in Nat /\ survey.order \in Seq(Questions)
  BY SoundRules
<1>2. ASSUME NEW s, Sound(s), Edit(s)
      PROVE  Sound(survey)' /\ edits' \in 0..MaxEdits
  <2>1. Sound(survey') /\ edits' \in 0..MaxEdits
    BY <1>2, SurveyConstants DEF Edit
  <2> QED
    BY <2>1 DEF Sound, Distinct, RulesInside, DefaultsThere, DefaultAt, RulesApart,
                RulesBounded, DefaultsNear, DefaultsPlain, MemoriesBefore, Before
<1>3. ASSUME NEW q \in Questions, NEW i \in 0..n, AddQuestion(q, i)
      PROVE  Sound(survey)' /\ edits' \in 0..MaxEdits
  <2>1. Sound(WithQuestion(survey, q, i))
    BY <1>3, WithQuestionSound DEF AddQuestion
  <2> QED
    BY <1>2, <1>3, <2>1 DEF AddQuestion
<1>4. ASSUME NEW i \in 0..n - 1, DeleteQuestion(i)
      PROVE  Sound(survey)' /\ edits' \in 0..MaxEdits
  <2>1. Sound(WithoutQuestion(survey, i))
    BY WithoutQuestionSound
  <2> QED
    BY <1>2, <1>4, <2>1 DEF DeleteQuestion
<1>5. ASSUME NEW i \in 0..n - 1, NEW j \in 0..n, MoveQuestion(i, j)
      PROVE  Sound(survey)' /\ edits' \in 0..MaxEdits
  <2> DEFINE rest == WithoutQuestion(survey, i)
             q == survey.order[i + 1]
  <2>1. Sound(rest) /\ q \in Questions /\ q \notin Range(rest.order)
    BY WithoutQuestionSound
  <2>2. CASE j <= Len(rest.order)
    <3>1. Edit(WithQuestion(rest, q, j))
      BY <1>5, <2>2 DEF MoveQuestion
    <3> HIDE DEF rest, q
    <3>2. j \in 0..Len(rest.order)
      <4>1. Len(rest.order) \in Nat
        BY <2>1, SoundRules
      <4> QED
        BY <1>1, <2>2, <4>1
    <3>3. Sound(WithQuestion(rest, q, j))
      BY <2>1, <3>2, WithQuestionSound
    <3> QED
      BY <1>2, <3>1, <3>3
  <2>3. CASE ~(j <= Len(rest.order))
    <3>1. Edit(rest)
      BY <1>5, <2>3 DEF MoveQuestion
    <3> HIDE DEF rest
    <3> QED
      BY <1>2, <2>1, <3>1
  <2> QED
    BY <2>2, <2>3
<1>6. ASSUME NEW i \in 0..n - 1, NEW reads \in Questions \cup {Always},
             NEW next \in Nat \cup {EndOfSurvey}, NEW before \in BOOLEAN,
             AddRule(i, reads, next, before)
      PROVE  Sound(survey)' /\ edits' \in 0..MaxEdits
  <2>1. next # EndOfSurvey => next > i
    BY <1>6 DEF AddRule, CanAddRule
  <2>2. Sound(WithRule(survey, i, reads, next, before))
    BY <2>1, WithRuleSound
  <2> QED
    BY <1>2, <1>6, <2>2 DEF AddRule
<1>7. (0..n + MaxBehind) \cup {EndOfSurvey} \subseteq Nat \cup {EndOfSurvey}
  OBVIOUS
<1>8. ASSUME NEW i \in 0..n - 1, NEW reads \in Questions \cup {Always}, AddStopRule(i, reads)
      PROVE  Sound(survey)' /\ edits' \in 0..MaxEdits
  <2>1. AddRule(i, reads, EndOfSurvey, FALSE)
    BY <1>8 DEF AddStopRule
  <2> QED
    BY <1>6, <2>1
<1>9. ASSUME NEW i \in 0..n - 1, NEW reads \in Questions \cup {Always}, AddSkipRule(i, reads)
      PROVE  Sound(survey)' /\ edits' \in 0..MaxEdits
  <2>1. AddRule(i, reads, i + 1, TRUE)
    BY <1>9 DEF AddSkipRule
  <2>2. i + 1 \in Nat
    <3> HIDE DEF n
    <3> QED
      BY <1>1
  <2> QED
    BY <1>6, <2>1, <2>2
<1>10. ASSUME NEW i \in 0..n - 1, NEW j \in 0..n - 1, AddTargetedMemory(i, j)
       PROVE  Sound(survey)' /\ edits' \in 0..MaxEdits
  <2> DEFINE s == [survey EXCEPT !.memory[survey.order[i + 1]] = @ \cup {survey.order[j + 1]}]
  <2>1. j < i /\ Edit(s)
    BY <1>10 DEF AddTargetedMemory
  <2>2. Sound(s)
    BY <2>1, WithMemorySound
  <2> HIDE DEF s
  <2> QED
    BY <1>2, <2>1, <2>2
<1>11. Conditions \cup {Always} \subseteq Questions \cup {Always}
  BY SurveyConstants
<1> HIDE DEF n
<1> QED
  BY <1>3, <1>4, <1>5, <1>6, <1>7, <1>8, <1>9, <1>10, <1>11 DEF Next, n

LEMMA SurveyStart == InterviewInit => SurveyInv
<1> SUFFICES ASSUME InterviewInit
             PROVE  SurveyInv
  OBVIOUS
<1>1. PICK o \in Starts : survey = Constructed(o)
  BY DEF InterviewInit, Init
<1>2. Sound(survey)
  BY <1>1, ConstructedSound, SurveyConstants
<1>3. edits \in 0..MaxEdits
  BY SurveyConstants DEF InterviewInit, Init
<1> QED
  BY <1>2, <1>3 DEF SurveyInv, InterviewTypeOK, TypeOK, InterviewInit, Sound

LEMMA SurveyStep == SurveyInv /\ [InterviewNext]_vars => SurveyInv'
<1> SUFFICES ASSUME SurveyInv, [InterviewNext]_vars
             PROVE  SurveyInv'
  OBVIOUS
<1>1. ASSUME Sound(survey)', edits' \in 0..MaxEdits, asking' \in BOOLEAN,
             status' \in [Questions -> {"pending", "asked", "skipped"}],
             answers' \in [Questions -> {Yes, No, NoAnswer}]
      PROVE  SurveyInv'
  BY <1>1 DEF SurveyInv, InterviewTypeOK, TypeOK, Sound
<1>2. ASSUME UNCHANGED survey
      PROVE  Sound(survey)'
  BY <1>2, SMTT(30) DEF SurveyInv, Sound, Distinct, RulesInside, DefaultsThere, DefaultAt,
              RulesApart, RulesBounded, DefaultsNear, DefaultsPlain, MemoriesBefore, Before
<1>3. /\ Sound(survey) /\ edits \in 0..MaxEdits /\ asking \in BOOLEAN
      /\ status \in [Questions -> {"pending", "asked", "skipped"}]
      /\ answers \in [Questions -> {Yes, No, NoAnswer}]
  BY DEF SurveyInv, InterviewTypeOK, TypeOK
<1>4. CASE Editing
  <2>1. Sound(survey)' /\ edits' \in 0..MaxEdits
    BY <1>3, <1>4, EditKeeps DEF Editing
  <2> QED
    BY <1>1, <1>3, <1>4, <2>1 DEF Editing
<1>5. CASE Submit
  BY <1>1, <1>2, <1>3, <1>5 DEF Submit
<1>6. CASE Interviewing
  <2>1. PICK i \in 0..Len(survey.order) - 1 : Decide(i) \/ Answer(survey.order[i + 1])
    BY <1>6 DEF Interviewing
  <2>2. CASE Decide(i)
    <3>1. status' \in [Questions -> {"pending", "asked", "skipped"}]
      BY <1>3, <2>2 DEF Decide
    <3> QED
      BY <1>1, <1>2, <1>3, <2>2, <3>1 DEF Decide
  <2>3. CASE Answer(survey.order[i + 1])
    <3>1. answers' \in [Questions -> {Yes, No, NoAnswer}]
      BY <1>3, <2>3 DEF Answer
    <3> QED
      BY <1>1, <1>2, <1>3, <2>3, <3>1 DEF Answer
  <2> QED
    BY <2>1, <2>2, <2>3
<1>7. CASE UNCHANGED vars
  BY <1>1, <1>2, <1>3, <1>7 DEF vars
<1> QED
  BY <1>4, <1>5, <1>6, <1>7 DEF InterviewNext

\* The survey is sound and typed, whatever is edited and asked.
THEOREM SurveyInvariant == InterviewSpec => []SurveyInv
BY SurveyStart, SurveyStep, PTL DEF InterviewSpec

\* An interview is conducted with a survey of the types of SurveyEditing, every task is
\* pending, asked or skipped, and every answer is one of those rules can tell apart.
THEOREM InterviewTypeCorrect == InterviewSpec => []InterviewTypeOK
<1>1. SurveyInv => InterviewTypeOK
  BY DEF SurveyInv
<1> QED
  BY <1>1, SurveyInvariant, PTL

\* In every survey that edits produce, with rules to any later place, after questions and
\* before them, the rules belong to its questions and lead on from them, each question has
\* a default and no two rules of a kind one priority: next_question finds a rule to follow
\* after each question, and following rules ends.
THEOREM RulesSoundCorrect == InterviewSpec => []RulesSound
<1>1. SurveyInv => RulesSound
  BY SoundMeans DEF SurveyInv
<1> QED
  BY <1>1, SurveyInvariant, PTL

\* In every survey that edits produce, what a question remembers comes before it.
THEOREM MemoryBehindCorrect == InterviewSpec => []MemoryBehind
<1>1. SurveyInv => MemoryBehind
  BY SoundMeans DEF SurveyInv
<1> QED
  BY <1>1, SurveyInvariant, PTL

-----------------------------------------------------------------------------
(***************************************************************************)
(* No decision is taken too early.  A question waits for those with rules  *)
(* before it, and if it has a skip rule for all before it; what a rule     *)
(* reads is then answered or skipped, or it is the question the rule is    *)
(* followed after, which is waited for itself.  So none of the rules that  *)
(* should_skip_task looked at reads an answer that is still to come.       *)
(***************************************************************************)

\* What should_skip_task does at the question at j on its way.
StepFrom(s, j, ans) ==
  IF SkippedBefore(s, j, ans) THEN SkipsTo(s, j, ans) ELSE NextQuestion(s, j, ans)

\* A decision depends on the rules that hold on the way to the question, no others.
LEMMA SameDecision ==
  ASSUME NEW s, NEW i \in Nat, NEW a, NEW b,
         \A j \in 0..i : /\ Holding(s, j, TRUE, a) = Holding(s, j, TRUE, b)
                         /\ j # i => Holding(s, j, FALSE, a) = Holding(s, j, FALSE, b)
  PROVE  ShouldSkip(s, i, a) <=> ShouldSkip(s, i, b)
<1>1. \A j \in 0..i : SkippedBefore(s, j, a) <=> SkippedBefore(s, j, b)
  BY DEF SkippedBefore
<1>2. ASSUME NEW j \in 0..i, j # i
      PROVE  StepFrom(s, j, a) = StepFrom(s, j, b)
  <2>1. SkipsTo(s, j, a) = SkipsTo(s, j, b)
    BY <1>2 DEF SkipsTo
  <2>2. NextQuestion(s, j, a) = NextQuestion(s, j, b)
    BY <1>2 DEF NextQuestion
  <2> QED
    BY <1>1, <2>1, <2>2 DEF StepFrom
<1> DEFINE Body(c, f, j) == \/ j = i
                            \/ /\ StepFrom(s, j, c) # EndOfSurvey /\ StepFrom(s, j, c) <= i
                               /\ f[StepFrom(s, j, c)]
           F(f) == [j \in 0..i |-> Body(a, f, j)]
           G(f) == [j \in 0..i |-> Body(b, f, j)]
<1>3. \A f : F(f) = G(f)
  BY <1>2
<1> HIDE DEF F, G
<1>4. (CHOOSE f : f = F(f)) = (CHOOSE f : f = G(f))
  <2>1. \A f : f = F(f) <=> f = G(f)
    BY <1>3
  <2> QED
    BY <2>1
<1>5. Reached(s, i, a) <=> Reached(s, i, b)
  BY <1>4 DEF Reached, StepFrom, F, G
<1> QED
  BY <1>1, <1>5 DEF ShouldSkip

Positions   == 0..Len(survey.order) - 1
QuestionAt(i) == survey.order[i + 1]
Decided(i)  == status[QuestionAt(i)] # "pending"

\* Only what was asked is answered, and nothing is before the survey is submitted.
OnlyAsked  == \A q \in Questions : Answered(q) => status[q] = "asked"
NotStarted == ~asking => \A q \in Questions : status[q] = "pending" /\ answers[q] = NoAnswer

\* What a question had to wait for stays finished.
Waited == \A i \in Positions : Decided(i) => \A j \in DependsOn(survey, i) : Finished(QuestionAt(j))

DecisionInv == SurveyInv /\ OnlyAsked /\ NotStarted /\ (asking => Waited) /\ DecisionFinal

LEMMA PositionsTyped ==
  ASSUME Sound(survey)
  PROVE  /\ \A i \in Positions : i \in Nat /\ QuestionAt(i) \in Questions
                                 /\ QuestionAt(i) \in Range(survey.order)
                                 /\ IndexOf(survey, QuestionAt(i)) = i
         /\ \A i, j \in Positions : QuestionAt(i) = QuestionAt(j) => i = j
<1>1. survey.order \in Seq(Questions) /\ Len(survey.order) \in Nat /\ Distinct(survey.order)
  BY SoundRules
<1>2. ASSUME NEW i \in Positions
      PROVE  /\ i \in Nat /\ i + 1 \in 1..Len(survey.order) /\ QuestionAt(i) \in Questions
             /\ QuestionAt(i) \in Range(survey.order) /\ (i + 1) - 1 = i
  BY <1>1 DEF Positions, QuestionAt, Range
<1>3. ASSUME NEW i \in Positions
      PROVE  IndexOf(survey, QuestionAt(i)) = i
  BY <1>1, <1>2, IndexOfPlace DEF QuestionAt
<1> QED
  BY <1>2, <1>3

\* No rule on the way to a decided question, nor one before it, reads a question that
\* was asked and has no answer yet.
LEMMA NothingUnread ==
  ASSUME Sound(survey), Local, Waited, OnlyAsked,
         NEW m \in Positions, status[QuestionAt(m)] = "asked", ~Answered(QuestionAt(m)),
         NEW i \in Positions, Decided(i),
         NEW r \in survey.rules, r.current_q < i \/ (r.current_q = i /\ r.before_rule)
  PROVE  r.reads # QuestionAt(m)
<1> SUFFICES ASSUME r.reads = QuestionAt(m)
             PROVE  FALSE
  OBVIOUS
<1> DEFINE j == r.current_q
<1>1. /\ r \in Rules /\ j \in Positions /\ r.before_rule \in BOOLEAN /\ r.priority \in Int
      /\ \A k \in Positions : k \in Nat
  BY SoundRules, RuleFields, PositionsTyped DEF Positions
<1>2. /\ QuestionAt(m) \in Range(survey.order) /\ IndexOf(survey, QuestionAt(m)) = m
      /\ QuestionAt(m) # Always
  BY PositionsTyped, SurveyConstants
<1>3. r \in UserRules(survey)
  <2>1. PlainDefault(r)
    BY DEF Sound, DefaultsPlain
  <2> QED
    BY <1>1, <1>2, <2>1 DEF PlainDefault, UserRules, IsDefault
<1>4. \A k \in Positions : Decided(k) => m \notin DependsOn(survey, k)
  BY DEF Waited, Finished
<1>5. j < i => j \in DependsOn(survey, i)
  BY <1>3 DEF DependsOn
<1>6. ASSUME NEW k \in Positions, k = j, r.before_rule, m < j
      PROVE  m \in DependsOn(survey, k)
  <2>1. m \in 0..k - 1
    BY <1>1, <1>6
  <2> QED
    BY <1>3, <1>6, <2>1 DEF DependsOn
<1>7. CASE r.before_rule
  <2>1. m < j
    BY <1>2, <1>3, <1>7 DEF Local, ReadsBehind
  <2>2. Decided(j)
    <3>1. CASE j = i
      BY <3>1
    <3>2. CASE j < i
      <4>1. Finished(QuestionAt(j))
        BY <1>5, <3>2 DEF Waited
      <4> QED
        BY <1>1, <4>1, PositionsTyped DEF Finished, OnlyAsked, Decided
    <3> QED
      BY <3>1, <3>2
  <2> QED
    BY <1>1, <1>4, <1>6, <1>7, <2>1, <2>2
<1>8. CASE ~r.before_rule
  <2>1. m = j
    BY <1>2, <1>3, <1>8 DEF Local
  <2> QED
    BY <1>4, <1>5, <1>8, <2>1
<1> QED
  BY <1>7, <1>8

\* An answer changes no decision that was taken.
LEMMA AnswerChangesNone ==
  ASSUME Sound(survey), Local, Waited, OnlyAsked, answers \in [Questions -> {Yes, No, NoAnswer}],
         NEW m \in Positions, status[QuestionAt(m)] = "asked", ~Answered(QuestionAt(m)),
         NEW i \in Positions, Decided(i), NEW value
  PROVE  ShouldSkip(survey, i, answers)
           <=> ShouldSkip(survey, i, [answers EXCEPT ![QuestionAt(m)] = value])
<1> DEFINE q == QuestionAt(m)
           b == [answers EXCEPT ![q] = value]
<1>1. i \in Nat
  BY PositionsTyped
<1>2. ASSUME NEW r \in survey.rules, r.current_q < i \/ (r.current_q = i /\ r.before_rule)
      PROVE  Holds(r, answers) <=> Holds(r, b)
  <2>1. r.reads # q
    BY <1>2, NothingUnread
  <2>2. r.reads = Always \/ r.reads \in Questions
    BY SoundRules, RuleFields
  <2> QED
    BY <2>1, <2>2 DEF Holds
<1>3. ASSUME NEW j \in 0..i, NEW before \in BOOLEAN, before \/ j # i
      PROVE  Holding(survey, j, before, answers) = Holding(survey, j, before, b)
  <2>1. \A r \in ApplicableRules(survey, j, before) :
          r \in survey.rules /\ (r.current_q < i \/ (r.current_q = i /\ r.before_rule))
    BY <1>1, <1>3 DEF ApplicableRules
  <2> QED
    BY <1>2, <2>1 DEF Holding
<1> HIDE DEF b
<1>4. ShouldSkip(survey, i, answers) <=> ShouldSkip(survey, i, b)
  BY <1>1, <1>3, SameDecision
<1> QED
  BY <1>4 DEF b

\* Three values are three when they are pairwise different.
LEMMA TripleApart ==
  ASSUME NEW x, NEW y, NEW z, Cardinality({x, y, z}) = 3
  PROVE  x # z /\ y # z /\ x # y
<1>1. \A u, v : IsFiniteSet({u, v}) /\ Cardinality({u, v}) <= 2
  <2> SUFFICES ASSUME NEW u, NEW v
               PROVE  IsFiniteSet({u, v}) /\ Cardinality({u, v}) <= 2
    OBVIOUS
  <2>1. IsFiniteSet({u}) /\ Cardinality({u}) = 1
    BY FS_Singleton
  <2>2. /\ IsFiniteSet({u} \cup {v})
        /\ Cardinality({u} \cup {v}) = IF v \in {u} THEN Cardinality({u}) ELSE Cardinality({u}) + 1
    BY <2>1, FS_AddElement
  <2>3. {u, v} = {u} \cup {v}
    OBVIOUS
  <2> QED
    BY <2>1, <2>2, <2>3
<1>2. \A u, v : Cardinality({u, v}) # 3
  <2>1. ASSUME NEW u, NEW v
        PROVE  Cardinality({u, v}) # 3
    <3>1. IsFiniteSet({u, v}) /\ Cardinality({u, v}) <= 2
      BY <1>1
    <3> QED
      BY <3>1
  <2> QED
    BY <2>1
<1>3. x = z => {x, y, z} = {x, y}
  OBVIOUS
<1>4. y = z => {x, y, z} = {x, y}
  OBVIOUS
<1>5. x = y => {x, y, z} = {x, z}
  OBVIOUS
<1> QED
  BY <1>2, <1>3, <1>4, <1>5

LEMMA DecisionStart == InterviewInit => DecisionInv
<1> SUFFICES ASSUME InterviewInit
             PROVE  DecisionInv
  OBVIOUS
<1>1. SurveyInv
  BY SurveyStart
<1> QED
  BY <1>1 DEF DecisionInv, InterviewInit, OnlyAsked, NotStarted, Answered, DecisionFinal

LEMMA DecisionStep == DecisionInv /\ [InterviewNext]_vars => DecisionInv'
<1> SUFFICES ASSUME DecisionInv, [InterviewNext]_vars
             PROVE  DecisionInv'
  OBVIOUS
<1>1. SurveyInv /\ Sound(survey) /\ InterviewTypeOK /\ OnlyAsked /\ SurveyInv'
  BY SurveyStep DEF DecisionInv, SurveyInv
<1>2. /\ \A i \in Positions : i \in Nat /\ QuestionAt(i) \in Questions
      /\ \A i, j \in Positions : QuestionAt(i) = QuestionAt(j) => i = j
  BY <1>1, PositionsTyped
<1>3. ASSUME UNCHANGED survey
      PROVE  /\ Local' <=> Local
             /\ Positions' = Positions /\ \A i : QuestionAt(i)' = QuestionAt(i)
             /\ \A i : DependsOn(survey, i)' = DependsOn(survey, i)
  BY <1>3 DEF Local, ReadsBehind, UserRules, Positions, QuestionAt
<1>4. ASSUME UNCHANGED survey,
             \A i \in Positions : status'[QuestionAt(i)] # "pending" =>
               \A j \in DependsOn(survey, i) : Finished(QuestionAt(j))'
      PROVE  Waited'
  BY <1>3, <1>4 DEF Waited, Decided
<1>5. ASSUME UNCHANGED survey, asking,
             Local => \A i \in Positions : status'[QuestionAt(i)] # "pending" =>
               (status'[QuestionAt(i)] = "skipped" <=> ShouldSkip(survey, i, answers'))
      PROVE  DecisionFinal'
  <2>1. \A i : ShouldSkip(survey, i, answers') \in BOOLEAN
    BY DEF ShouldSkip
  <2>2. Local => \A i \in Positions : status'[QuestionAt(i)] # "pending" =>
          (status'[QuestionAt(i)] = "skipped") = ShouldSkip(survey, i, answers')
    BY <1>5, <2>1
  <2> QED
    BY <1>3, <1>5, <2>2 DEF DecisionFinal, Decision, Positions, QuestionAt
<1>6. CASE Editing
  BY <1>1, <1>6 DEF DecisionInv, Editing, OnlyAsked, NotStarted, Answered, DecisionFinal
<1>7. CASE Submit
  <2>1. \A q \in Questions : status[q] = "pending" /\ answers[q] = NoAnswer
    BY <1>7 DEF DecisionInv, NotStarted, Submit
  <2>2. OnlyAsked' /\ NotStarted'
    BY <1>7, <2>1 DEF Submit, OnlyAsked, NotStarted, Answered
  <2>3. Waited'
    BY <1>2, <1>4, <1>7, <2>1 DEF Submit
  <2>4. DecisionFinal'
    BY <1>2, <1>3, <1>7, <2>1 DEF Submit, DecisionFinal, Positions, QuestionAt
  <2> QED
    BY <1>1, <2>2, <2>3, <2>4 DEF DecisionInv
<1>8. ASSUME asking, NEW k \in Positions, Decide(k)
      PROVE  DecisionInv'
  <2> DEFINE q == QuestionAt(k)
  <2>1. /\ status[q] = "pending" /\ \A j \in DependsOn(survey, k) : Finished(QuestionAt(j))
        /\ status' = [status EXCEPT ![q] = IF ShouldSkip(survey, k, answers) THEN "skipped"
                                           ELSE "asked"]
        /\ UNCHANGED <<survey, edits, asking, answers>>
    BY <1>8 DEF Decide, QuestionAt
  <2>2. /\ status'[q] = IF ShouldSkip(survey, k, answers) THEN "skipped" ELSE "asked"
        /\ \A x \in Questions : x # q => status'[x] = status[x]
    BY <1>1, <1>2, <2>1 DEF InterviewTypeOK
  <2>3. \A x : Finished(x) => Finished(x)'
    <3> SUFFICES ASSUME NEW x, Finished(x)
                 PROVE  Finished(x)'
      OBVIOUS
    <3>1. CASE Answered(x)
      BY <2>1, <3>1 DEF Finished, Answered
    <3>2. CASE status[x] = "skipped"
      <4>1. x # q
        BY <2>1, <3>2
      <4>2. status'[x] = status[x]
        BY <2>1, <4>1
      <4> QED
        BY <3>2, <4>2 DEF Finished
    <3> QED
      BY <3>1, <3>2 DEF Finished
  <2>4. OnlyAsked' /\ NotStarted'
    <3>1. ~Answered(q)
      BY <1>1, <1>2, <2>1 DEF OnlyAsked
    <3> QED
      BY <1>1, <1>8, <2>1, <2>2, <3>1 DEF OnlyAsked, NotStarted, Answered
  <2>5. Waited'
    <3> SUFFICES ASSUME NEW i \in Positions, status'[QuestionAt(i)] # "pending",
                        NEW j \in DependsOn(survey, i)
                 PROVE  Finished(QuestionAt(j))'
      BY <1>4, <2>1
    <3>1. Finished(QuestionAt(j))
      <4>1. CASE i = k
        BY <2>1, <4>1
      <4>2. CASE i # k
        <5>1. Decided(i)
          BY <1>2, <2>2, <4>2 DEF Decided
        <5> QED
          BY <1>8, <5>1 DEF DecisionInv, Waited
      <4> QED
        BY <4>1, <4>2
    <3>2. \A x : Finished(x) => (status'[x] = "skipped" \/ answers'[x] # NoAnswer)
      BY <2>3 DEF Finished, Answered
    <3> QED
      BY <1>3, <2>1, <3>1, <3>2 DEF Finished, Answered
  <2>6. DecisionFinal'
    <3> SUFFICES ASSUME Local, NEW i \in Positions, status'[QuestionAt(i)] # "pending"
                 PROVE  status'[QuestionAt(i)] = "skipped" <=> ShouldSkip(survey, i, answers')
      BY <1>5, <1>8, <2>1
    <3>1. CASE i = k
      BY <2>1, <2>2, <3>1
    <3>2. CASE i # k
      <4>1. status'[QuestionAt(i)] = status[QuestionAt(i)]
        BY <1>2, <2>2, <3>2
      <4> QED
        BY <1>8, <2>1, <4>1 DEF DecisionInv, DecisionFinal, Decision, Positions, QuestionAt
    <3> QED
      BY <3>1, <3>2
  <2> QED
    BY <1>1, <2>4, <2>5, <2>6 DEF DecisionInv
<1>9. ASSUME asking, NEW m \in Positions, Answer(QuestionAt(m))
      PROVE  DecisionInv'
  <2> DEFINE q == QuestionAt(m)
  <2>1. PICK value \in {Yes, No} : answers' = [answers EXCEPT ![q] = value]
    BY <1>9 DEF Answer
  <2>2. /\ status[q] = "asked" /\ ~Answered(q) /\ q \in Questions
        /\ UNCHANGED <<survey, edits, asking, status>>
    BY <1>2, <1>9 DEF Answer
  <2>3. /\ answers \in [Questions -> {Yes, No, NoAnswer}]
        /\ value # NoAnswer
    BY <1>1, InterviewConstants, TripleApart DEF InterviewTypeOK
  <2>4. \A x : Finished(x) => Finished(x)'
    <3> SUFFICES ASSUME NEW x, Finished(x)
                 PROVE  Finished(x)'
      OBVIOUS
    <3>1. CASE status[x] = "skipped"
      BY <2>2, <3>1 DEF Finished
    <3>2. CASE Answered(x)
      <4>1. x # q
        BY <2>2, <3>2
      <4>2. answers'[x] = answers[x]
        BY <2>1, <2>3, <4>1
      <4> QED
        BY <3>2, <4>2 DEF Finished, Answered
    <3> QED
      BY <3>1, <3>2 DEF Finished
  <2>5. OnlyAsked' /\ NotStarted'
    BY <1>1, <1>9, <2>1, <2>2, <2>3 DEF OnlyAsked, NotStarted, Answered
  <2>6. Waited'
    <3> SUFFICES ASSUME NEW i \in Positions, status'[QuestionAt(i)] # "pending",
                        NEW j \in DependsOn(survey, i)
                 PROVE  Finished(QuestionAt(j))'
      BY <1>4, <2>2
    <3>1. Finished(QuestionAt(j))
      BY <1>9, <2>2 DEF DecisionInv, Waited, Decided
    <3>2. \A x : Finished(x) => (status'[x] = "skipped" \/ answers'[x] # NoAnswer)
      BY <2>4 DEF Finished, Answered
    <3> QED
      BY <1>3, <2>2, <3>1, <3>2 DEF Finished, Answered
  <2>7. DecisionFinal'
    <3> SUFFICES ASSUME Local, NEW i \in Positions, status'[QuestionAt(i)] # "pending"
                 PROVE  status'[QuestionAt(i)] = "skipped" <=> ShouldSkip(survey, i, answers')
      BY <1>5, <1>9, <2>2
    <3>1. Decided(i) /\ Waited
      BY <1>9, <2>2 DEF DecisionInv, Decided
    <3>2. status[QuestionAt(i)] = "skipped" <=> ShouldSkip(survey, i, answers)
      BY <1>9, <3>1 DEF DecisionInv, DecisionFinal, Decision, Decided, Positions, QuestionAt
    <3>3. ShouldSkip(survey, i, answers) <=> ShouldSkip(survey, i, [answers EXCEPT ![q] = value])
      BY <1>1, <2>2, <2>3, <3>1, AnswerChangesNone
    <3> QED
      BY <2>1, <2>2, <3>2, <3>3
  <2> QED
    BY <1>1, <2>5, <2>6, <2>7 DEF DecisionInv
<1>10. CASE Interviewing
  BY <1>8, <1>9, <1>10 DEF Interviewing, Positions, QuestionAt
<1>11. CASE UNCHANGED vars
  <2>1. OnlyAsked' /\ NotStarted'
    BY <1>1, <1>11 DEF DecisionInv, vars, OnlyAsked, NotStarted, Answered
  <2>2. asking' => Waited'
    BY <1>4, <1>11 DEF DecisionInv, vars, Waited, Decided, Finished, Answered, QuestionAt
  <2>3. DecisionFinal'
    BY <1>3, <1>11 DEF DecisionInv, vars, DecisionFinal, Decision, Positions, QuestionAt
  <2> QED
    BY <1>1, <2>1, <2>2, <2>3 DEF DecisionInv
<1> QED
  BY <1>6, <1>7, <1>10, <1>11 DEF InterviewNext

\* For surveys of any length, edited in any way that leaves each rule behind its own
\* question, and for tasks that run in any order: whether a question is asked or skipped
\* is decided when its task is rendered, and no answer that comes later would have
\* changed it.
THEOREM DecisionFinalCorrect == InterviewSpec => []DecisionFinal
<1>1. DecisionInv => DecisionFinal
  BY DEF DecisionInv
<1> QED
  BY <1>1, DecisionStart, DecisionStep, PTL DEF InterviewSpec

-----------------------------------------------------------------------------
(***************************************************************************)
(* Rules by name.  An insertion shifts the ends of rules and the questions *)
(* they stand for alike.  Behind the last question a rule keeps its place  *)
(* as the survey grows, so a question appended takes in the rules to the   *)
(* place after the last one; and a deletion moves all those behind along.  *)
(***************************************************************************)

NamedIn(s, i) ==
  IF i = EndOfSurvey THEN EndOfSurvey
  ELSE IF i >= Len(s.order) THEN i - Len(s.order) ELSE s.order[i + 1]

LinkIn(s, r) == [from |-> s.order[r.current_q + 1], to |-> NamedIn(s, r.next_q),
                 reads |-> r.reads, priority |-> r.priority, before_rule |-> r.before_rule]

LinksOf(s) == {LinkIn(s, r) : r \in s.rules}

LEMMA LinksAre == {Link(r) : r \in survey.rules} = LinksOf(survey)
BY DEF Link, Named, LinksOf, LinkIn, NamedIn

\* The link of rule r, sent elsewhere if it leads to one of from.
SentIn(s, r, from, to) ==
  [LinkIn(s, r) EXCEPT !.to = IF NamedIn(s, r.next_q) \in from THEN to ELSE NamedIn(s, r.next_q)]

LEMMA LinksSent ==
  ASSUME NEW s, NEW R, NEW from, NEW to
  PROVE  ByName!Send({LinkIn(s, r) : r \in R}, from, to) = {SentIn(s, r, from, to) : r \in R}
<1> DEFINE E(l) == [l EXCEPT !.to = IF @ \in from THEN to ELSE @]
           L    == {LinkIn(s, r) : r \in R}
<1>1. \A r : E(LinkIn(s, r)) = SentIn(s, r, from, to)
  BY DEF LinkIn, SentIn
<1>2. ByName!Send(L, from, to) = {E(l) : l \in L}
  BY DEF ByName!Send
<1> HIDE DEF E
<1>3. {E(l) : l \in L} = {E(LinkIn(s, r)) : r \in R}
  OBVIOUS
<1> QED
  BY <1>1, <1>2, <1>3

\* The link of rule r, once q takes the place after the last question.
Nearer(to, q) == IF to \notin Nat THEN to ELSE IF to = 0 THEN q ELSE to - 1

NearerIn(s, r, q) == [LinkIn(s, r) EXCEPT !.to = Nearer(NamedIn(s, r.next_q), q)]

LEMMA LinksNearer ==
  ASSUME NEW s, NEW R, NEW q
  PROVE  ByName!Approach({LinkIn(s, r) : r \in R}, q) = {NearerIn(s, r, q) : r \in R}
<1> DEFINE E(l) == [l EXCEPT !.to = IF @ \notin Nat THEN @ ELSE IF @ = 0 THEN q ELSE @ - 1]
           L    == {LinkIn(s, r) : r \in R}
<1>1. \A r : E(LinkIn(s, r)) = NearerIn(s, r, q)
  BY DEF LinkIn, NearerIn, Nearer
<1>2. ByName!Approach(L, q) = {E(l) : l \in L}
  BY DEF ByName!Approach
<1> HIDE DEF E
<1>3. {E(l) : l \in L} = {E(LinkIn(s, r)) : r \in R}
  OBVIOUS
<1> QED
  BY <1>1, <1>2, <1>3

\* Links are the same if their ends and their rules' conditions are.
LEMMA SameLink ==
  ASSUME NEW s, NEW r, NEW w, NEW x, NEW to,
         w.order[x.current_q + 1] = s.order[r.current_q + 1], NamedIn(w, x.next_q) = to,
         x.reads = r.reads, x.priority = r.priority, x.before_rule = r.before_rule
  PROVE  LinkIn(w, x) = [LinkIn(s, r) EXCEPT !.to = to]
BY DEF LinkIn

LEMMA SameEnd ==
  ASSUME NEW s, NEW r
  PROVE  [LinkIn(s, r) EXCEPT !.to = NamedIn(s, r.next_q)] = LinkIn(s, r)
BY DEF LinkIn

LEMMA InsertedLinks ==
  ASSUME NEW s, Sound(s), NEW q \in Questions, q \notin Range(s.order), NEW i \in 0..Len(s.order)
  PROVE  LinksOf(WithQuestion(s, q, i)) = ByName!LinksWith(s.order, LinksOf(s), q, i + 1)
<1> DEFINE n == Len(s.order)
           o == InsertAt(s.order, i + 1, q)
           w == WithQuestion(s, q, i)
           d == DefaultRule(i)
<1>1. /\ n \in Nat /\ s.order \in Seq(Questions) /\ i \in 0..n
      /\ w.order = o /\ Len(o) = n + 1
      /\ \A k \in 1..n + 1 :
           o[k] = IF k <= i THEN s.order[k] ELSE IF k = i + 1 THEN q ELSE s.order[k - 1]
      /\ w.rules = (IF i # n THEN {MovedUp(r, i) : r \in s.rules} ELSE s.rules) \cup {d}
  <2>1. n \in Nat /\ s.order \in Seq(Questions)
    BY SoundRules
  <2>2. IsInserted(o, s.order, i, q)
    BY <2>1, Inserted
  <2>3. w.order = o /\ w.rules = (IF i # n THEN {MovedUp(r, i) : r \in s.rules} ELSE s.rules) \cup {d}
    BY WithQuestionFields
  <2> HIDE DEF o, w
  <2> QED
    BY <2>1, <2>2, <2>3 DEF IsInserted
<1>2. \A r \in s.rules : /\ r \in Rules /\ r.current_q \in 0..n - 1
                         /\ r.next_q = EndOfSurvey \/ r.next_q \in Nat
  BY SoundRules
<1>3. LinkIn(w, d) = ByName!Default(q, ByName!At(s.order, i + 1))
  <2>1. /\ d.current_q = i /\ d.next_q = i + 1 /\ d.reads = Always /\ d.priority = -1
        /\ d.before_rule = FALSE
    BY DEF DefaultRule
  <2>2. w.order[i + 1] = q
    BY <1>1
  <2>3. NamedIn(w, i + 1) = ByName!At(s.order, i + 1)
    <3>1. i + 1 # EndOfSurvey
      BY SurveyConstants
    <3> HIDE DEF w, o, d
    <3>2. CASE i = n
      <4>1. i + 1 >= n + 1 /\ (i + 1) - (n + 1) = 0 /\ ~(i + 1 <= n) /\ (i + 1) - n - 1 = 0
        <5> HIDE DEF n
        <5> QED
          BY <1>1, <3>2
      <4>2. NamedIn(w, i + 1) = 0
        BY <1>1, <3>1, <4>1 DEF NamedIn
      <4> QED
        BY <4>1, <4>2 DEF ByName!At
    <3>3. CASE i # n
      <4>1. ~(i + 1 >= n + 1) /\ i + 1 <= n /\ w.order[(i + 1) + 1] = s.order[i + 1]
        <5>1. /\ ~(i + 1 >= n + 1) /\ i + 1 <= n /\ (i + 1) + 1 \in 1..n + 1
              /\ ~((i + 1) + 1 <= i) /\ (i + 1) + 1 # i + 1 /\ ((i + 1) + 1) - 1 = i + 1
          <6> HIDE DEF n
          <6> QED
            BY <1>1, <3>3
        <5> QED
          BY <1>1, <5>1
      <4>2. NamedIn(w, i + 1) = s.order[i + 1]
        BY <1>1, <3>1, <4>1 DEF NamedIn
      <4> QED
        BY <4>1, <4>2 DEF ByName!At
    <3> QED
      BY <3>2, <3>3
  <2> QED
    BY <2>1, <2>2, <2>3 DEF LinkIn, ByName!Default
<1> HIDE DEF o, w, d, n
<1>4. CASE i # n
  <2>1. ASSUME NEW r \in s.rules
        PROVE  LinkIn(w, MovedUp(r, i)) = LinkIn(s, r)
    <3> DEFINE m == MovedUp(r, i)
               c == r.current_q
               to == r.next_q
    <3>1. /\ m.current_q = IF c >= i THEN c + 1 ELSE c
          /\ m.next_q = IF to # EndOfSurvey /\ to >= i THEN to + 1 ELSE to
          /\ m.reads = r.reads /\ m.priority = r.priority /\ m.before_rule = r.before_rule
      <4>1. r \in Rules /\ i \in Nat
        BY <1>1, <1>2
      <4> QED
        BY <4>1, MovedUpRule
    <3>2. c \in 0..n - 1 /\ (to = EndOfSurvey \/ to \in Nat)
      BY <1>2
    <3> HIDE DEF m, c, to
    <3>3. w.order[m.current_q + 1] = s.order[c + 1]
      BY <1>1, <3>1, <3>2
    <3>4. NamedIn(w, m.next_q) = NamedIn(s, to)
      <4>1. CASE to = EndOfSurvey
        BY <3>1, <4>1 DEF NamedIn
      <4>2. CASE to # EndOfSurvey
        <5>1. to \in Nat /\ m.next_q = IF to >= i THEN to + 1 ELSE to
          BY <1>1, <3>1, <3>2, <4>2
        <5>2. m.next_q \in Nat /\ m.next_q # EndOfSurvey
          BY <5>1, SurveyConstants
        <5>3. CASE to >= n
          <6>1. m.next_q = to + 1 /\ to + 1 >= n + 1 /\ (to + 1) - (n + 1) = to - n
            BY <1>1, <1>4, <5>1, <5>3
          <6>2. NamedIn(w, m.next_q) = (to + 1) - (n + 1)
            BY <1>1, <5>2, <6>1 DEF NamedIn
          <6> QED
            BY <4>2, <5>3, <6>1, <6>2 DEF NamedIn, n
        <5>4. CASE ~(to >= n)
          <6>1. NamedIn(s, to) = s.order[to + 1]
            BY <4>2, <5>4 DEF NamedIn, n
          <6>2. ~(m.next_q >= n + 1) /\ w.order[m.next_q + 1] = s.order[to + 1]
            <7>1. to \in 0..n - 1 /\ n \in Nat /\ i \in 0..n
              BY <1>1, <5>1, <5>4
            <7>2. CASE to >= i
              <8>1. m.next_q + 1 = to + 2 /\ to + 2 \in 1..n + 1 /\ to + 2 # i + 1 /\ ~(to + 2 <= i)
                BY <5>1, <7>1, <7>2
              <8> QED
                BY <1>1, <5>1, <7>1, <7>2, <8>1
            <7>3. CASE ~(to >= i)
              <8>1. m.next_q = to /\ to + 1 \in 1..n + 1 /\ to + 1 <= i
                BY <5>1, <7>1, <7>3
              <8> QED
                BY <1>1, <7>1, <8>1
            <7> QED
              BY <7>2, <7>3
          <6> QED
            BY <1>1, <5>2, <6>1, <6>2 DEF NamedIn
        <5> QED
          BY <5>3, <5>4
      <4> QED
        BY <4>1, <4>2
    <3> QED
      BY <3>1, <3>3, <3>4 DEF LinkIn, m, c, to
  <2>2. LinksOf(w) = LinksOf(s) \cup {LinkIn(w, d)}
    BY <1>1, <1>4, <2>1 DEF LinksOf
  <2>3. i + 1 # Len(s.order) + 1
    BY <1>1, <1>4 DEF n
  <2> QED
    BY <1>3, <2>2, <2>3 DEF ByName!LinksWith, w
<1>5. CASE i = n
  <2>1. ASSUME NEW r \in s.rules
        PROVE  LinkIn(w, r) = NearerIn(s, r, q)
    <3> DEFINE c == r.current_q
               to == r.next_q
    <3>1. c \in 0..n - 1 /\ (to = EndOfSurvey \/ to \in Nat)
      BY <1>2
    <3> HIDE DEF c, to
    <3>2. w.order[c + 1] = s.order[c + 1]
      BY <1>1, <1>5, <3>1
    <3>3. NamedIn(w, to) = Nearer(NamedIn(s, to), q)
      <4>1. CASE to = EndOfSurvey
        BY <4>1, SurveyConstants DEF NamedIn, Nearer
      <4>2. CASE to # EndOfSurvey /\ to = n
        <5>1. NamedIn(s, to) = 0
          BY <1>1, <4>2 DEF NamedIn, n
        <5>2. ~(to >= n + 1) /\ w.order[to + 1] = q
          BY <1>1, <1>5, <4>2
        <5>3. NamedIn(w, to) = q
          BY <1>1, <4>2, <5>2 DEF NamedIn
        <5> QED
          BY <5>1, <5>3 DEF Nearer
      <4>3. CASE to # EndOfSurvey /\ to \in Nat /\ to > n
        <5>1. NamedIn(s, to) = to - n
          BY <1>1, <4>3 DEF NamedIn, n
        <5>2. to >= n + 1 /\ to - n \in Nat /\ to - n # 0 /\ (to - n) - 1 = to - (n + 1)
          BY <1>1, <4>3
        <5>3. NamedIn(w, to) = to - (n + 1)
          BY <1>1, <4>3, <5>2 DEF NamedIn
        <5> QED
          BY <5>1, <5>2, <5>3 DEF Nearer
      <4>4. CASE to # EndOfSurvey /\ to \in 0..n - 1
        <5>1. to + 1 \in 1..n /\ ~(to >= n) /\ ~(to >= n + 1)
          BY <1>1, <4>4
        <5>2. NamedIn(s, to) = s.order[to + 1]
          BY <4>4, <5>1 DEF NamedIn, n
        <5>3. s.order[to + 1] \in Questions
          BY <1>1, <5>1 DEF n
        <5>4. s.order[to + 1] \notin Nat
          BY <5>3, SurveyConstants
        <5>5. NamedIn(w, to) = w.order[to + 1] /\ w.order[to + 1] = s.order[to + 1]
          BY <1>1, <1>5, <4>4, <5>1 DEF NamedIn
        <5> QED
          BY <5>2, <5>4, <5>5 DEF Nearer
      <4>5. \/ to = EndOfSurvey
            \/ to # EndOfSurvey /\ to = n
            \/ to # EndOfSurvey /\ to \in Nat /\ to > n
            \/ to # EndOfSurvey /\ to \in 0..n - 1
        BY <1>1, <3>1
      <4> QED
        BY <4>1, <4>2, <4>3, <4>4, <4>5
    <3> QED
      BY <3>2, <3>3, SameLink DEF NearerIn, c, to
  <2>2. {LinkIn(w, r) : r \in s.rules} = ByName!Approach(LinksOf(s), q)
    <3>1. {LinkIn(w, r) : r \in s.rules} = {NearerIn(s, r, q) : r \in s.rules}
      BY <2>1
    <3>2. ByName!Approach({LinkIn(s, r) : r \in s.rules}, q) = {NearerIn(s, r, q) : r \in s.rules}
      BY LinksNearer, SMTT(30)
    <3> QED
      BY <3>1, <3>2 DEF LinksOf
  <2>3. LinksOf(w) = {LinkIn(w, r) : r \in s.rules} \cup {LinkIn(w, d)}
    BY <1>1, <1>5 DEF LinksOf
  <2>4. i + 1 = Len(s.order) + 1
    BY <1>1, <1>5 DEF n
  <2> QED
    BY <1>3, <2>2, <2>3, <2>4 DEF ByName!LinksWith, w
<1> QED
  BY <1>4, <1>5

LEMMA RemovedLinks ==
  ASSUME NEW s, Sound(s), NEW i \in 0..Len(s.order) - 1
  PROVE  LinksOf(WithoutQuestion(s, i)) = ByName!LinksWithout(s.order, LinksOf(s), i + 1)
<1> DEFINE n == Len(s.order)
           o == RemoveAt(s.order, i + 1)
           q == s.order[i + 1]
           others == {x \in s.rules : x.current_q # i}
           w == WithoutQuestion(s, i)
           from == IF i + 1 = n THEN {q, 0} ELSE {q}
           next == IF i + 1 = n THEN EndOfSurvey ELSE s.order[i + 2]
<1>1. /\ n \in Nat /\ s.order \in Seq(Questions) /\ Distinct(s.order) /\ i \in 0..n - 1
      /\ w.order = o /\ Len(o) = n - 1
      /\ \A k \in 1..n - 1 : o[k] = IF k <= i THEN s.order[k] ELSE s.order[k + 1]
      /\ w.rules = {MovedDown(r, i, n - 1) : r \in others}
  <2>1. n \in Nat /\ s.order \in Seq(Questions) /\ Distinct(s.order)
    BY SoundRules
  <2>2. IsRemoved(o, s.order, i)
    BY <2>1, Removed
  <2>3. w.order = o /\ w.rules = {MovedDown(r, i, Len(o)) : r \in others}
    BY DEF WithoutQuestion
  <2> HIDE DEF o, w
  <2> QED
    BY <2>1, <2>2, <2>3 DEF IsRemoved
<1>2. \A r \in s.rules : /\ r \in Rules /\ r.current_q \in 0..n - 1
                         /\ r.next_q = EndOfSurvey \/ r.next_q \in Nat
  BY SoundRules
<1>3. /\ q \in Questions /\ \A k \in 1..n : s.order[k] = q => k = i + 1
      /\ \A k \in 1..n : s.order[k] \in Questions
      /\ EndOfSurvey \notin Questions /\ EndOfSurvey \notin Int
      /\ \A x \in Questions : x \notin Int
  BY <1>1, SurveyConstants DEF Distinct
<1> HIDE DEF o, w, n, q
<1>4. ASSUME NEW r \in others
      PROVE  LinkIn(w, MovedDown(r, i, n - 1)) = SentIn(s, r, from, next)
  <2> DEFINE m == MovedDown(r, i, n - 1)
             c == r.current_q
             to == r.next_q
             moved == IF to # EndOfSurvey /\ to > i THEN to - 1 ELSE to
  <2>1. /\ m.current_q = IF c > i THEN c - 1 ELSE c
        /\ m.next_q = IF moved = i /\ i = n - 1 THEN EndOfSurvey ELSE moved
        /\ m.reads = r.reads /\ m.priority = r.priority /\ m.before_rule = r.before_rule
    <3>1. r \in Rules /\ i \in Nat /\ n - 1 \in Nat
      BY <1>1, <1>2
    <3>2. IsMovedDown(MovedDown(r, i, n - 1), r, i, n - 1)
      BY <3>1, MovedDownRule
    <3> QED
      BY <3>2 DEF IsMovedDown
  <2>2. c \in 0..n - 1 /\ c # i /\ (to = EndOfSurvey \/ to \in Nat)
    BY <1>2
  <2>3. from \subseteq {q, 0} /\ q \in from /\ (0 \in from <=> i = n - 1)
    <3>1. q # 0 /\ (i + 1 = n <=> i = n - 1)
      BY <1>1, <1>3
    <3> QED
      BY <3>1
  <2> HIDE DEF m, c, to, next, from
  <2>4. w.order[m.current_q + 1] = s.order[c + 1]
    BY <1>1, <2>1, <2>2
  <2>5. NamedIn(w, m.next_q) = IF NamedIn(s, to) \in from THEN next ELSE NamedIn(s, to)
    <3>1. CASE to = EndOfSurvey
      <4>1. m.next_q = EndOfSurvey
        BY <1>1, <1>3, <2>1, <3>1
      <4>2. EndOfSurvey \notin from
        BY <1>3, <2>3
      <4> QED
        BY <3>1, <4>1, <4>2 DEF NamedIn
    <3>2. CASE to # EndOfSurvey /\ to \in Nat /\ to >= n
      <4>1. NamedIn(s, to) = to - n /\ to - n \in Nat
        BY <1>1, <3>2 DEF NamedIn, n
      <4>2. moved = to - 1
        BY <1>1, <3>2
      <4>3. CASE to = n /\ i = n - 1
        <5>1. m.next_q = EndOfSurvey /\ i + 1 = n /\ to - n = 0
          BY <1>1, <2>1, <4>2, <4>3
        <5> QED
          BY <2>3, <4>1, <4>3, <5>1 DEF NamedIn, next
      <4>4. CASE ~(to = n /\ i = n - 1)
        <5>1. m.next_q = to - 1 /\ to - 1 \in Int /\ to - 1 >= n - 1 /\ (to - 1) - (n - 1) = to - n
          BY <1>1, <2>1, <3>2, <4>2, <4>4
        <5>2. NamedIn(w, m.next_q) = to - n
          BY <1>1, <1>3, <5>1 DEF NamedIn
        <5>3. to - n \notin from
          <6>1. to - n = 0 => i # n - 1
            BY <1>1, <3>2, <4>4
          <6>2. to - n # q
            BY <1>3, <4>1
          <6> QED
            BY <2>3, <6>1, <6>2
        <5> QED
          BY <4>1, <5>2, <5>3
      <4> QED
        BY <4>3, <4>4
    <3>3. CASE to # EndOfSurvey /\ to \in 0..n - 1 /\ to # i
      <4>1. NamedIn(s, to) = s.order[to + 1]
        BY <1>1, <3>3 DEF NamedIn, n
      <4>2. s.order[to + 1] \notin from
        <5>1. s.order[to + 1] # q /\ s.order[to + 1] # 0
          BY <1>1, <1>3, <3>3
        <5> QED
          BY <2>3, <5>1
      <4>3. moved \in 0..n - 2 /\ ~(moved = i /\ i = n - 1)
        BY <1>1, <3>3
      <4>4. m.next_q = moved /\ moved # EndOfSurvey /\ ~(moved >= n - 1)
        BY <1>1, <1>3, <2>1, <4>3
      <4>5. w.order[moved + 1] = s.order[to + 1]
        <5>1. moved + 1 \in 1..n - 1
          BY <1>1, <4>3
        <5>2. w.order[moved + 1] = IF moved + 1 <= i THEN s.order[moved + 1] ELSE s.order[(moved + 1) + 1]
          BY <1>1, <5>1
        <5>3. IF to > i THEN ~(moved + 1 <= i) /\ (moved + 1) + 1 = to + 1
                        ELSE moved + 1 <= i /\ moved = to
          BY <1>1, <3>3
        <5> QED
          BY <5>2, <5>3
      <4> HIDE DEF moved
      <4> QED
        BY <1>1, <4>1, <4>2, <4>4, <4>5 DEF NamedIn
    <3>4. CASE to = i
      <4>1. NamedIn(s, to) = q /\ moved = i
        BY <1>1, <1>3, <3>4 DEF NamedIn, n, q
      <4>2. CASE i = n - 1
        <5>1. m.next_q = EndOfSurvey /\ i + 1 = n
          BY <1>1, <2>1, <4>1, <4>2
        <5> QED
          BY <2>3, <4>1, <5>1 DEF NamedIn, next
      <4>3. CASE i # n - 1
        <5>1. m.next_q = i /\ i # EndOfSurvey /\ i + 1 # n /\ w.order[i + 1] = s.order[i + 2]
          BY <1>1, <1>3, <2>1, <4>1, <4>3
        <5>2. ~(i >= n - 1)
          BY <1>1, <4>3
        <5> QED
          BY <1>1, <2>3, <4>1, <5>1, <5>2 DEF NamedIn, next
      <4> QED
        BY <4>2, <4>3
    <3>5. \/ to = EndOfSurvey
          \/ to # EndOfSurvey /\ to \in Nat /\ to >= n
          \/ to # EndOfSurvey /\ to \in 0..n - 1 /\ to # i
          \/ to = i
      BY <1>1, <2>2
    <3> QED
      BY <3>1, <3>2, <3>3, <3>4, <3>5
  <2> QED
    BY <2>1, <2>4, <2>5, SameLink DEF SentIn, m, c, to
<1>5. {l \in LinksOf(s) : l.from # q} = {LinkIn(s, r) : r \in others}
  <2>1. \A r \in s.rules : LinkIn(s, r).from = q <=> r.current_q = i
    <3> SUFFICES ASSUME NEW r \in s.rules
                 PROVE  LinkIn(s, r).from = q <=> r.current_q = i
      OBVIOUS
    <3>1. LinkIn(s, r).from = s.order[r.current_q + 1] /\ r.current_q + 1 \in 1..n
      BY <1>1, <1>2 DEF LinkIn
    <3>2. r.current_q + 1 = i + 1 <=> r.current_q = i
      BY <1>1, <1>2
    <3> QED
      BY <1>3, <3>1, <3>2 DEF q
  <2> QED
    BY <2>1 DEF LinksOf
<1>6. LinksOf(w) = {LinkIn(w, MovedDown(r, i, n - 1)) : r \in others}
  BY <1>1 DEF LinksOf
<1> HIDE DEF others
<1>7. ByName!LinksWithout(s.order, LinksOf(s), i + 1)
        = ByName!Send({l \in LinksOf(s) : l.from # q}, from, next)
  <2>1. (i + 1) + 1 = i + 2
    BY <1>1
  <2> QED
    BY <2>1 DEF ByName!LinksWithout, q, n
<1> HIDE DEF from, next
<1>8. LinksOf(w) = {SentIn(s, r, from, next) : r \in others}
  BY <1>4, <1>6
<1>9. ByName!Send({LinkIn(s, r) : r \in others}, from, next)
        = {SentIn(s, r, from, next) : r \in others}
  BY LinksSent, SMTT(30)
<1>10. LinksOf(w) = ByName!LinksWithout(s.order, LinksOf(s), i + 1)
  BY <1>5, <1>7, <1>8, <1>9
<1>11. w = WithoutQuestion(s, i)
  BY DEF w
<1> QED
  BY <1>10, <1>11, Zenon

\* The abstract step of each edit.
ByNameNext == [ByName!Next]_(ByName!vars)

\* The operators on sequences that both specifications take from the same modules.
LEMMA SameOperators ==
  /\ \A f : ByName!Range(f) = Range(f) /\ (ByName!IsInjective(f) <=> IsInjective(f))
  /\ \A o, k, q : ByName!InsertAt(o, k, q) = InsertAt(o, k, q)
  /\ \A o, k : ByName!RemoveAt(o, k) = RemoveAt(o, k)
BY DEF Range, ByName!Range, IsInjective, ByName!IsInjective, InsertAt, ByName!InsertAt,
       RemoveAt, ByName!RemoveAt

LEMMA PlaceIs ==
  ASSUME Sound(survey), NEW i \in 0..Len(survey.order) - 1
  PROVE  /\ ByName!Place(survey.order, survey.order[i + 1]) = i + 1
         /\ survey.order[i + 1] \in Questions /\ survey.order[i + 1] \in Range(survey.order)
         /\ i + 1 \in 1..Len(survey.order) /\ DOMAIN survey.order = 1..Len(survey.order)
<1>1. survey.order \in Seq(Questions) /\ Len(survey.order) \in Nat /\ Distinct(survey.order)
  BY SoundRules
<1>2. DOMAIN survey.order = 1..Len(survey.order) /\ i + 1 \in 1..Len(survey.order)
  BY <1>1
<1> DEFINE k == ByName!Place(survey.order, survey.order[i + 1])
<1>3. k = CHOOSE x \in DOMAIN survey.order : survey.order[x] = survey.order[i + 1]
  BY DEF ByName!Place
<1>4. k \in 1..Len(survey.order) /\ survey.order[k] = survey.order[i + 1]
  BY <1>2, <1>3
<1> HIDE DEF k
<1>5. k = i + 1
  BY <1>1, <1>2, <1>4 DEF Distinct
<1> QED
  BY <1>1, <1>2, <1>5 DEF k, Range

\* An edit changes what the specification by name sees to what it sees of the survey
\* that is the result.
LEMMA EditSeen ==
  ASSUME NEW s, Edit(s)
  PROVE  /\ survey' = s
         /\ {Link(r) : r \in survey.rules} = LinksOf(survey)
         /\ {Link(r) : r \in survey.rules}' = LinksOf(s)
<1>1. survey' = s
  BY DEF Edit
<1>2. {Link(r) : r \in survey.rules}' = LinksOf(survey)'
  BY DEF Link, Named, LinksOf, LinkIn, NamedIn
<1> QED
  BY <1>1, <1>2, LinksAre DEF LinksOf, LinkIn, NamedIn

LEMMA EditByName ==
  ASSUME Sound(survey), Next
  PROVE  ByNameNext
<1> DEFINE n == Len(survey.order)
<1>1. /\ n \in Nat /\ survey.order \in Seq(Questions)
      /\ survey.memory \in [Questions -> SUBSET Questions]
  BY SoundRules
<1>2. ASSUME NEW q \in Questions, NEW i \in 0..n, AddQuestion(q, i)
      PROVE  ByNameNext
  <2> DEFINE w == WithQuestion(survey, q, i)
  <2>1. q \notin Range(survey.order) /\ Edit(w)
    BY <1>2 DEF AddQuestion
  <2>2. w.order = InsertAt(survey.order, i + 1, q) /\ w.memory = survey.memory
    BY WithQuestionFields
  <2>3. LinksOf(w) = ByName!LinksWith(survey.order, LinksOf(survey), q, i + 1)
    BY <2>1, InsertedLinks
  <2> HIDE DEF w
  <2>4. ByName!Add(q, i + 1)
    BY <2>1, <2>2, <2>3, EditSeen, SameOperators DEF ByName!Add
  <2>5. i + 1 \in 1..n + 1
    BY <1>1
  <2> QED
    BY <2>1, <2>4, <2>5, SameOperators DEF ByName!Next, ByNameNext
<1>3. ASSUME NEW i \in 0..n - 1
      PROVE  /\ WithoutQuestion(survey, i).order = RemoveAt(survey.order, i + 1)
             /\ WithoutQuestion(survey, i).memory = ByName!Forget(survey.order[i + 1])
             /\ LinksOf(WithoutQuestion(survey, i))
                  = ByName!LinksWithout(survey.order, LinksOf(survey), i + 1)
             /\ Sound(WithoutQuestion(survey, i))
             /\ survey.order[i + 1] \notin Range(WithoutQuestion(survey, i).order)
  <2>1. /\ WithoutQuestion(survey, i).order = RemoveAt(survey.order, i + 1)
        /\ WithoutQuestion(survey, i).memory
             = [f \in Questions |-> IF f = survey.order[i + 1] THEN {}
                                    ELSE survey.memory[f] \ {survey.order[i + 1]}]
    BY DEF WithoutQuestion
  <2> QED
    BY <2>1, RemovedLinks, WithoutQuestionSound DEF ByName!Forget
<1>4. ASSUME NEW i \in 0..n - 1, Edit(WithoutQuestion(survey, i))
      PROVE  ByNameNext
  <2> DEFINE w == WithoutQuestion(survey, i)
             q == survey.order[i + 1]
  <2>1. /\ w.order = RemoveAt(survey.order, i + 1) /\ w.memory = ByName!Forget(q)
        /\ LinksOf(w) = ByName!LinksWithout(survey.order, LinksOf(survey), i + 1)
    BY <1>3
  <2>2. ByName!Place(survey.order, q) = i + 1 /\ q \in Range(survey.order)
    BY PlaceIs
  <2> HIDE DEF w, q
  <2>3. Edit(w)
    BY <1>4 DEF w
  <2>4. ByName!Delete(q)
    BY <2>1, <2>2, <2>3, EditSeen, SameOperators DEF ByName!Delete
  <2> QED
    BY <2>2, <2>4, SameOperators DEF ByName!Next, ByNameNext
<1>5. ASSUME NEW i \in 0..n - 1, NEW j \in 0..n, MoveQuestion(i, j)
      PROVE  ByNameNext
  <2> DEFINE rest == WithoutQuestion(survey, i)
             q == survey.order[i + 1]
             w == WithQuestion(rest, q, j)
  <2>1. /\ rest.order = RemoveAt(survey.order, i + 1) /\ rest.memory = ByName!Forget(q)
        /\ LinksOf(rest) = ByName!LinksWithout(survey.order, LinksOf(survey), i + 1)
        /\ Sound(rest) /\ q \notin Range(rest.order)
    BY <1>3
  <2>2. /\ ByName!Place(survey.order, q) = i + 1 /\ q \in Range(survey.order)
        /\ q \in Questions
    BY PlaceIs
  <2>3. CASE j <= Len(rest.order)
    <3>1. Edit(w)
      BY <1>5, <2>3 DEF MoveQuestion
    <3> HIDE DEF rest, q
    <3>2. Len(rest.order) = n - 1
      <4>1. IsRemoved(rest.order, survey.order, i)
        BY <1>1, <2>1, Removed
      <4> QED
        BY <4>1 DEF IsRemoved
    <3>3. j \in 0..Len(rest.order) /\ j + 1 \in 1..n
      <4> HIDE DEF n
      <4> QED
        BY <1>1, <2>3, <3>2
    <3>4. w.order = InsertAt(rest.order, j + 1, q) /\ w.memory = rest.memory
      BY <2>1, WithQuestionFields
    <3>5. LinksOf(w) = ByName!LinksWith(rest.order, LinksOf(rest), q, j + 1)
      BY <2>1, <2>2, <3>3, InsertedLinks
    <3> HIDE DEF w
    <3>6. ByName!Move(q, j + 1)
      BY <2>1, <2>2, <3>1, <3>4, <3>5, EditSeen, SameOperators DEF ByName!Move
    <3> QED
      BY <2>2, <3>3, <3>6, SameOperators DEF ByName!Next, ByNameNext
  <2>4. CASE ~(j <= Len(rest.order))
    <3>1. Edit(rest)
      BY <1>5, <2>4 DEF MoveQuestion
    <3> QED
      BY <1>4, <3>1
  <2> QED
    BY <2>3, <2>4
<1>6. ASSUME NEW i \in 0..n - 1, NEW reads \in Questions \cup {Always},
             NEW next \in Nat \cup {EndOfSurvey}, NEW before \in BOOLEAN,
             AddRule(i, reads, next, before)
      PROVE  ByNameNext
  <2> DEFINE p == NewPriority(survey, i, before)
             x == [current_q |-> i, next_q |-> next, reads |-> reads,
                   priority |-> p, before_rule |-> before]
             w == WithRule(survey, i, reads, next, before)
             q == survey.order[i + 1]
             l == LinkIn(survey, x)
  <2>1. p \in Nat
    BY NewPriorityAbove
  <2>2. w.order = survey.order /\ w.memory = survey.memory /\ w.rules = survey.rules \cup {x}
    <3>1. survey = [order |-> survey.order, rules |-> survey.rules,
                    nameIndex |-> survey.nameIndex, numQuestions |-> survey.numQuestions,
                    memory |-> survey.memory]
      BY SoundRules
    <3>2. w = [survey EXCEPT !.rules = @ \cup {x},
                             !.nameIndex = NameIndexWith(@, survey.order)]
      BY DEF WithRule
    <3> HIDE DEF w, x
    <3> QED
      BY <3>1, <3>2
  <2>3. l.from = q /\ l.reads = reads /\ l.priority = p /\ l.to = NamedIn(survey, next)
    BY DEF LinkIn
  <2> HIDE DEF w, x, p
  <2>4. LinksOf(w) = LinksOf(survey) \cup {l}
    <3>1. \A r : LinkIn(w, r) = LinkIn(survey, r)
      BY <2>2 DEF LinkIn, NamedIn
    <3> QED
      BY <2>2, <3>1 DEF LinksOf
  <2>5. l.to \in {survey.order[k] : k \in (i + 1) + 1..n} \cup Nat \cup {EndOfSurvey}
    <3>1. CASE next = EndOfSurvey
      BY <2>3, <3>1 DEF NamedIn
    <3>2. CASE next # EndOfSurvey /\ next >= n
      <4>1. next - n \in Nat
        <5> HIDE DEF n
        <5> QED
          BY <1>1, <3>2
      <4> QED
        BY <2>3, <3>2, <4>1 DEF NamedIn
    <3>3. CASE next # EndOfSurvey /\ ~(next >= n)
      <4>1. next > i
        BY <1>6, <3>3 DEF AddRule, CanAddRule
      <4>2. next + 1 \in (i + 1) + 1..n
        <5> HIDE DEF n
        <5> QED
          BY <1>1, <3>3, <4>1
      <4>3. NamedIn(survey, next) = survey.order[next + 1]
        BY <3>3 DEF NamedIn
      <4> QED
        BY <2>3, <4>2, <4>3
    <3> QED
      BY <3>1, <3>2, <3>3
  <2>6. ByName!Place(survey.order, q) = i + 1 /\ q \in Range(survey.order)
    BY PlaceIs
  <2> HIDE DEF l, q
  <2>7. Edit(w)
    BY <1>6 DEF w, AddRule
  <2>8. ByName!Link(q)
    <3>1. /\ {Link(r) : r \in survey.rules}' = {Link(r) : r \in survey.rules} \cup {l}
          /\ UNCHANGED <<survey.order, survey.memory>>
      BY <2>2, <2>4, <2>7, EditSeen
    <3>2. l.priority >= 0 /\ l.reads \in Questions \cup {Always} /\ l.from = q
      BY <2>1, <2>3
    <3>3. l.to \in {survey.order[k] :
                      k \in ByName!Place(survey.order, q) + 1..Len(survey.order)}
                    \cup Nat \cup {EndOfSurvey}
      BY <2>5, <2>6
    <3> QED
      BY <3>1, <3>2, <3>3 DEF ByName!Link
  <2> QED
    BY <2>6, <2>8, SameOperators DEF ByName!Next, ByNameNext
<1>7. (0..n + MaxBehind) \cup {EndOfSurvey} \subseteq Nat \cup {EndOfSurvey}
  OBVIOUS
<1>8. ASSUME NEW i \in 0..n - 1, NEW reads \in Questions \cup {Always}, AddStopRule(i, reads)
      PROVE  ByNameNext
  <2>1. AddRule(i, reads, EndOfSurvey, FALSE)
    BY <1>8 DEF AddStopRule
  <2> QED
    BY <1>6, <2>1
<1>9. ASSUME NEW i \in 0..n - 1, NEW reads \in Questions \cup {Always}, AddSkipRule(i, reads)
      PROVE  ByNameNext
  <2>1. AddRule(i, reads, i + 1, TRUE)
    BY <1>9 DEF AddSkipRule
  <2>2. i + 1 \in Nat
    <3> HIDE DEF n
    <3> QED
      BY <1>1
  <2> QED
    BY <1>6, <2>1, <2>2
<1>10. ASSUME NEW i \in 0..n - 1, NEW j \in 0..n - 1, AddTargetedMemory(i, j)
       PROVE  ByNameNext
  <2> DEFINE q == survey.order[i + 1]
             prior == survey.order[j + 1]
             s == [survey EXCEPT !.memory[q] = @ \cup {prior}]
  <2>1. j < i /\ Edit(s)
    BY <1>10 DEF AddTargetedMemory
  <2>2. /\ s.order = survey.order /\ s.rules = survey.rules
        /\ s.memory = [survey.memory EXCEPT ![q] = @ \cup {prior}]
    <3>1. survey = [order |-> survey.order, rules |-> survey.rules,
                    nameIndex |-> survey.nameIndex, numQuestions |-> survey.numQuestions,
                    memory |-> survey.memory]
      BY SoundRules
    <3> HIDE DEF q, prior
    <3> QED
      BY <3>1
  <2>3. ByName!Place(survey.order, q) = i + 1 /\ q \in Range(survey.order)
    BY PlaceIs
  <2>4. j + 1 \in 1..(i + 1) - 1
    <3> HIDE DEF n
    <3> QED
      BY <1>1, <2>1
  <2> HIDE DEF s
  <2>5. LinksOf(s) = LinksOf(survey)
    BY <2>2 DEF LinksOf, LinkIn, NamedIn
  <2>6. ByName!Remember(q)
    BY <2>1, <2>2, <2>3, <2>4, <2>5, EditSeen, SameOperators DEF ByName!Remember
  <2> QED
    BY <2>3, <2>6, SameOperators DEF ByName!Next, ByNameNext
<1>11. Conditions \cup {Always} \subseteq Questions \cup {Always}
  BY SurveyConstants
<1> HIDE DEF n
<1> QED
  BY <1>2, <1>4, <1>5, <1>6, <1>7, <1>8, <1>9, <1>10, <1>11 DEF Next, DeleteQuestion, n

LEMMA InitByName == InterviewInit => ByName!Init
<1> SUFFICES ASSUME InterviewInit
             PROVE  ByName!Init
  OBVIOUS
<1>1. PICK o \in Starts : survey = Constructed(o)
  BY DEF InterviewInit, Init
<1>2. /\ survey.order = o /\ survey.rules = {DefaultRule(i) : i \in 0..Len(o) - 1}
      /\ survey.memory = [q \in Questions |-> {}]
  BY <1>1 DEF Constructed
<1>3. o \in Seq(Questions) /\ IsInjective(o) /\ DOMAIN o = 1..Len(o) /\ Len(o) \in Nat
  BY SurveyConstants
<1>4. ASSUME NEW i \in 0..Len(o) - 1
      PROVE  LinkIn(survey, DefaultRule(i)) = ByName!Default(o[i + 1], ByName!At(o, (i + 1) + 1))
  <2> DEFINE n == Len(o)
  <2>0. n \in Nat /\ i \in 0..n - 1
    BY <1>3
  <2> HIDE DEF n
  <2>1. /\ i + 1 # EndOfSurvey /\ (i + 1 >= n <=> ~(i + 2 <= n)) /\ (i + 1) + 1 = i + 2
        /\ (i + 1) - n = (i + 2) - n - 1
    BY <2>0, SurveyConstants
  <2>2. NamedIn(survey, i + 1) = ByName!At(o, i + 2)
    BY <1>2, <2>1 DEF NamedIn, ByName!At, n
  <2> QED
    BY <1>2, <2>1, <2>2 DEF LinkIn, DefaultRule, ByName!Default
<1>5. LinksOf(survey) = {ByName!Default(o[k], ByName!At(o, k + 1)) : k \in DOMAIN o}
  <2> DEFINE D(k) == ByName!Default(o[k], ByName!At(o, k + 1))
  <2>1. LinksOf(survey) = {D(i + 1) : i \in 0..Len(o) - 1}
    <3>1. LinksOf(survey) = {LinkIn(survey, DefaultRule(i)) : i \in 0..Len(o) - 1}
      BY <1>2 DEF LinksOf
    <3> QED
      BY <1>4, <3>1
  <2> HIDE DEF D
  <2>2. \A k \in DOMAIN o : k - 1 \in 0..Len(o) - 1 /\ (k - 1) + 1 = k
    BY <1>3
  <2>3. \A i \in 0..Len(o) - 1 : i + 1 \in DOMAIN o
    BY <1>3
  <2>4. {D(i + 1) : i \in 0..Len(o) - 1} = {D(k) : k \in DOMAIN o}
    <3>1. ASSUME NEW k \in DOMAIN o
          PROVE  D(k) \in {D(i + 1) : i \in 0..Len(o) - 1}
      <4>1. D(k) = D((k - 1) + 1) /\ k - 1 \in 0..Len(o) - 1
        BY <2>2
      <4> QED
        BY <4>1
    <3>2. ASSUME NEW i \in 0..Len(o) - 1
          PROVE  D(i + 1) \in {D(k) : k \in DOMAIN o}
      BY <2>3
    <3> QED
      BY <3>1, <3>2
  <2> QED
    BY <2>1, <2>4 DEF D
<1> QED
  BY <1>2, <1>3, <1>5, LinksAre, SameOperators DEF ByName!Init

LEMMA StepByName == SurveyInv /\ [InterviewNext]_vars => ByNameNext
<1> SUFFICES ASSUME SurveyInv, [InterviewNext]_vars
             PROVE  ByNameNext
  OBVIOUS
<1>1. CASE Editing
  BY <1>1, EditByName DEF Editing, SurveyInv
<1>2. ASSUME UNCHANGED survey
      PROVE  ByNameNext
  BY <1>2 DEF ByNameNext, ByName!vars, Link, Named
<1> QED
  BY <1>1, <1>2 DEF InterviewNext, Submit, Interviewing, Decide, Answer, vars

\* Seen by name, surveys of any length are edited as SurveyByName says: indices are
\* rewritten so that no rule comes to belong to another question or lead to another one.
THEOREM EditsKeepRulesCorrect == InterviewSpec => EditsKeepRules
<1>1. SurveyInv /\ [InterviewNext]_vars => [ByName!Next]_(ByName!vars)
  BY StepByName DEF ByNameNext
<1> QED
  BY <1>1, InitByName, SurveyInvariant, PTL DEF InterviewSpec, EditsKeepRules, ByName!Spec

-----------------------------------------------------------------------------
(***************************************************************************)
(* Functions that recur forwards.  A function on 0..n whose value at j is  *)
(* either given or made of the value at a later step[j] exists: there is   *)
(* no first place, counted from the end, before which it has no values.    *)
(***************************************************************************)

Forward(n, V, stop, base, step, make) ==
  /\ n \in Nat /\ stop \in [0..n -> BOOLEAN] /\ base \in [0..n -> V]
  /\ step \in [0..n -> 0..n] /\ make \in [0..n -> [V -> V]]
  /\ \A j \in 0..n : ~stop[j] => step[j] > j

Recurs(f, n, stop, base, step, make) ==
  \A j \in 0..n : f[j] = IF stop[j] THEN base[j] ELSE make[j][f[step[j]]]

LEMMA RecursionForward ==
  ASSUME NEW n, NEW V, NEW stop, NEW base, NEW step, NEW make,
         Forward(n, V, stop, base, step, make)
  PROVE  \E f \in [0..n -> V] : Recurs(f, n, stop, base, step, make)
<1> SUFFICES ASSUME n \in Nat, stop \in [0..n -> BOOLEAN], base \in [0..n -> V],
                    step \in [0..n -> 0..n], make \in [0..n -> [V -> V]],
                    \A j \in 0..n : ~stop[j] => step[j] > j
             PROVE  \E f \in [0..n -> V] :
                      \A j \in 0..n : f[j] = IF stop[j] THEN base[j] ELSE make[j][f[step[j]]]
  BY DEF Forward, Recurs
<1> DEFINE Right(f, k) ==
             \A j \in n - k..n : f[j] = IF stop[j] THEN base[j] ELSE make[j][f[step[j]]]
           Bad == {k \in 0..n : ~\E f \in [0..n -> V] : Right(f, k)}
<1>0. /\ Bad \in SUBSET (0..n)
      /\ \A k \in 0..n : k \notin Bad => \E f \in [0..n -> V] : Right(f, k)
      /\ \A k \in Bad : ~\E f \in [0..n -> V] : Right(f, k)
  OBVIOUS
<1> HIDE DEF Bad
<1>1. CASE Bad = {}
  <2>1. n \in 0..n /\ \E f \in [0..n -> V] : Right(f, n)
    <3>1. n \in 0..n
      OBVIOUS
    <3> QED
      BY <1>0, <1>1, <3>1
  <2>2. PICK f \in [0..n -> V] : Right(f, n)
    BY <2>1
  <2>3. \A j \in 0..n : j \in n - n..n
    OBVIOUS
  <2> QED
    BY <2>2, <2>3
<1>2. CASE Bad # {}
  <2>1. PICK k \in Bad : \A x \in Bad : k <= x
    <3>1. Bad \in SUBSET Nat
      BY <1>0
    <3> QED
      BY <1>2, <3>1, Least
  <2>2. k \in 0..n /\ ~\E f \in [0..n -> V] : Right(f, k)
    BY <1>0
  <2>3. PICK g \in [0..n -> V] : \A j \in (n - k) + 1..n :
          g[j] = IF stop[j] THEN base[j] ELSE make[j][g[step[j]]]
    <3>1. CASE k = 0
      <4>1. \A j \in (n - k) + 1..n : FALSE
        BY <3>1
      <4> QED
        BY <4>1
    <3>2. CASE k > 0
      <4>1. k - 1 \in 0..n /\ k - 1 < k
        BY <2>2, <3>2
      <4>2. k - 1 \notin Bad
        <5>1. ~(k <= k - 1)
          BY <2>2
        <5> QED
          BY <2>1, <5>1
      <4>3. PICK g \in [0..n -> V] : Right(g, k - 1)
        BY <1>0, <4>1, <4>2
      <4>4. (n - k) + 1 = n - (k - 1)
        BY <2>2
      <4> QED
        BY <4>3, <4>4
    <3>3. k = 0 \/ k > 0
      BY <2>2
    <3> QED
      BY <3>1, <3>2, <3>3
  <2> DEFINE m == n - k
             v == IF stop[m] THEN base[m] ELSE make[m][g[step[m]]]
             f == [g EXCEPT ![m] = v]
  <2>4. m \in 0..n
    BY <2>2
  <2>5. v \in V
    BY <2>4
  <2>6. f \in [0..n -> V] /\ f[m] = v /\ \A j \in 0..n : j # m => f[j] = g[j]
    BY <2>4, <2>5
  <2> HIDE DEF f, v
  <2>7. \A j \in m..n : j \in 0..n /\ (~stop[j] => step[j] # m) /\ step[j] \in 0..n
    BY <2>4
  <2>8. \A j \in m..n : f[j] = IF stop[j] THEN base[j] ELSE make[j][f[step[j]]]
    <3> SUFFICES ASSUME NEW j \in m..n
                 PROVE  f[j] = IF stop[j] THEN base[j] ELSE make[j][f[step[j]]]
      OBVIOUS
    <3>1. ~stop[j] => f[step[j]] = g[step[j]]
      BY <2>6, <2>7
    <3>2. CASE j = m
      BY <2>6, <3>1, <3>2 DEF v
    <3>3. CASE j # m
      <4>1. j \in (n - k) + 1..n /\ j \in 0..n
        BY <2>4, <3>3
      <4> QED
        BY <2>3, <2>6, <3>1, <3>3, <4>1
    <3> QED
      BY <3>2, <3>3
  <2>9. Right(f, k)
    BY <2>8
  <2> QED
    BY <2>2, <2>6, <2>9
<1> QED
  BY <1>1, <1>2

-----------------------------------------------------------------------------
(***************************************************************************)
(* The rule that is followed.                                              *)
(***************************************************************************)

\* A rule is followed after each question, and one of highest priority.
LEMMA NextQuestionIs ==
  ASSUME NEW s, Sound(s), NEW i \in 0..Len(s.order) - 1, NEW ans
  PROVE  \E r \in Holding(s, i, FALSE, ans) :
           /\ r.next_q = NextQuestion(s, i, ans)
           /\ \A x \in Holding(s, i, FALSE, ans) : x.priority <= r.priority
<1> DEFINE H == Holding(s, i, FALSE, ans)
           P == {r.priority : r \in H}
<1>1. H \subseteq s.rules
  BY DEF Holding, ApplicableRules
<1>2. \E d : d \in H
  <2>1. PICK d \in s.rules : d.current_q = i /\ d.reads = Always /\ ~d.before_rule
    BY DEF Sound, DefaultsThere, DefaultAt
  <2>2. d.before_rule = FALSE
    BY <2>1, SoundRules, RuleFields
  <2> QED
    BY <2>1, <2>2 DEF Holding, ApplicableRules, Holds
<1>3. PICK b \in Nat : \A r \in s.rules : r.priority <= b /\ r.priority \in Int
  BY SoundRules, RuleFields DEF Sound, RulesBounded
<1> HIDE DEF H
<1>4. P \in SUBSET Int /\ P # {} /\ b \in Int /\ \A p \in P : p <= b
  BY <1>1, <1>2, <1>3
<1>5. Max(P) \in P /\ \A p \in P : Max(P) >= p
  BY <1>4, Greatest
<1>6. PICK r \in H : r.priority = Max(P)
  BY <1>5
<1>7. \A x \in H : x.priority <= r.priority
  BY <1>4, <1>5, <1>6
<1>8. NextQuestion(s, i, ans) = (CHOOSE y \in H : \A x \in H : x.priority <= y.priority).next_q
  BY DEF NextQuestion, H
<1> QED
  BY <1>7, <1>8 DEF H

LEMMA SkipsToIs ==
  ASSUME NEW s, Sound(s), NEW i \in 0..Len(s.order) - 1, NEW ans, SkippedBefore(s, i, ans)
  PROVE  \E r \in Holding(s, i, TRUE, ans) : r.next_q = SkipsTo(s, i, ans)
<1> DEFINE H == Holding(s, i, TRUE, ans)
           P == {r.priority : r \in H}
<1>1. H \subseteq s.rules /\ H # {} /\ \A r \in H : r.before_rule = TRUE
  BY DEF Holding, ApplicableRules, SkippedBefore
<1>2. \A r \in H : r.priority \in Nat
  <2>1. \A r \in s.rules : PlainDefault(r) /\ r.priority \in Int
    BY SoundRules, RuleFields DEF Sound, DefaultsPlain
  <2> SUFFICES ASSUME NEW r \in H
               PROVE  r.priority \in Nat
    OBVIOUS
  <2>2. r.before_rule = TRUE /\ PlainDefault(r) /\ r.priority \in Int
    BY <1>1, <2>1
  <2> QED
    BY <2>2 DEF PlainDefault
<1> HIDE DEF H
<1>3. P \in SUBSET Nat /\ P # {}
  BY <1>1, <1>2
<1>4. PICK p \in P : \A y \in P : p <= y
  BY <1>3, Least
<1>5. PICK r \in H : \A x \in H : r.priority <= x.priority
  BY <1>4
<1>6. SkipsTo(s, i, ans) = (CHOOSE y \in H : \A x \in H : y.priority <= x.priority).next_q
  BY DEF SkipsTo, H
<1> QED
  BY <1>5, <1>6 DEF H

\* The place a rule that leads on from the question at i leads to comes after i.
LEMMA PlaceAfter ==
  ASSUME NEW s, Sound(s), NEW i \in 0..Len(s.order) - 1, NEW next,
         next = EndOfSurvey \/ (next \in Nat /\ next > i)
  PROVE  PlaceOf(s, next) \in i + 1..Len(s.order)
<1> DEFINE n == Len(s.order)
<1>1. n \in Nat /\ i \in 0..n - 1
  BY SoundRules
<1>2. PlaceOf(s, next) = IF next = EndOfSurvey \/ next > n THEN n ELSE next
  BY DEF PlaceOf
<1> HIDE DEF n
<1>3. n \in i + 1..n
  BY <1>1
<1>4. CASE next = EndOfSurvey \/ next > n
  BY <1>2, <1>3, <1>4 DEF n
<1>5. CASE ~(next = EndOfSurvey \/ next > n)
  <2>1. next \in i + 1..n
    BY <1>1, <1>5
  <2> QED
    BY <1>2, <1>5, <2>1 DEF n
<1> QED
  BY <1>4, <1>5

\* Rules are followed forwards.
LEMMA LeadsForward ==
  ASSUME NEW s, Sound(s), NEW i \in 0..Len(s.order) - 1, NEW ans
  PROVE  /\ \/ StepFrom(s, i, ans) = EndOfSurvey
            \/ (StepFrom(s, i, ans) \in Nat /\ StepFrom(s, i, ans) > i)
         /\ PlaceOf(s, NextQuestion(s, i, ans)) \in i + 1..Len(s.order)
<1> DEFINE Leads(next) == next = EndOfSurvey \/ (next \in Nat /\ next > i)
<1>1. \A r \in s.rules : r.current_q = i => Leads(r.next_q)
  BY SoundRules
<1> HIDE DEF Leads
<1>2. PICK r \in Holding(s, i, FALSE, ans) : r.next_q = NextQuestion(s, i, ans)
  BY NextQuestionIs
<1>3. Leads(NextQuestion(s, i, ans))
  BY <1>1, <1>2 DEF Holding, ApplicableRules
<1>4. Leads(StepFrom(s, i, ans))
  <2>1. CASE SkippedBefore(s, i, ans)
    <3>1. PICK x \in Holding(s, i, TRUE, ans) : x.next_q = SkipsTo(s, i, ans)
      BY <2>1, SkipsToIs
    <3> QED
      BY <1>1, <2>1, <3>1 DEF Holding, ApplicableRules, StepFrom
  <2>2. CASE ~SkippedBefore(s, i, ans)
    BY <1>3, <2>2 DEF StepFrom
  <2> QED
    BY <2>1, <2>2
<1> QED
  BY <1>3, <1>4, PlaceAfter DEF Leads

-----------------------------------------------------------------------------
(***************************************************************************)
(* What should_skip_task and the navigator compute.                        *)
(***************************************************************************)

NextPlace(s, i, ans) == PlaceOf(s, NextQuestion(s, i, ans))

\* The functions that Reached and Path evaluate.
WalkTo(s, i, ans) ==
  LET walk[j \in 0..i] ==
        \/ j = i
        \/ LET k == StepFrom(s, j, ans) IN k # EndOfSurvey /\ k <= i /\ walk[k]
  IN walk

LandingOf(s, ans) ==
  LET n == Len(s.order)
      landing[i \in 0..n] ==
        IF i < n /\ SkippedBefore(s, i, ans) THEN landing[NextPlace(s, i, ans)] ELSE i
  IN landing

PathOf(s, ans) ==
  LET n == Len(s.order)
      path[i \in 0..n] ==
        IF i = n THEN {} ELSE {i} \cup path[LandingOf(s, ans)[NextPlace(s, i, ans)]]
  IN path

LEMMA WalkToIs ==
  ASSUME NEW s, Sound(s), NEW i \in 0..Len(s.order) - 1, NEW ans
  PROVE  /\ Reached(s, i, ans) <=> WalkTo(s, i, ans)[0]
         /\ \A j \in 0..i :
              WalkTo(s, i, ans)[j] <=>
                \/ j = i
                \/ /\ StepFrom(s, j, ans) # EndOfSurvey /\ StepFrom(s, j, ans) <= i
                   /\ WalkTo(s, i, ans)[StepFrom(s, j, ans)]
<1> DEFINE to(j) == StepFrom(s, j, ans)
           Body(f, j) == j = i \/ (to(j) # EndOfSurvey /\ to(j) <= i /\ f[to(j)])
           F(f) == [j \in 0..i |-> Body(f, j)]
           W == CHOOSE f : f = F(f)
<1>1. W = WalkTo(s, i, ans)
  BY DEF WalkTo
<1>2. Reached(s, i, ans) <=> W[0]
  BY DEF Reached, StepFrom
<1>3. i \in Nat /\ \A j \in 0..i : to(j) = EndOfSurvey \/ (to(j) \in Nat /\ to(j) > j)
  <2>1. Len(s.order) \in Nat
    BY SoundRules
  <2>2. \A j \in 0..i : j \in 0..Len(s.order) - 1
    BY <2>1
  <2> QED
    BY <2>1, <2>2, LeadsForward
<1> HIDE DEF to
<1> DEFINE stop == [j \in 0..i |-> j = i \/ to(j) = EndOfSurvey \/ ~(to(j) <= i)]
           base == [j \in 0..i |-> j = i]
           step == [j \in 0..i |-> IF stop[j] THEN j ELSE to(j)]
           make == [j \in 0..i |-> [v \in BOOLEAN |-> v]]
<1>4. stop \in [0..i -> BOOLEAN] /\ base \in [0..i -> BOOLEAN] /\ make \in [0..i -> [BOOLEAN -> BOOLEAN]]
  OBVIOUS
<1>5. step \in [0..i -> 0..i] /\ \A j \in 0..i : ~stop[j] => step[j] > j
  <2>1. ASSUME NEW j \in 0..i, ~stop[j]
        PROVE  to(j) \in 0..i /\ to(j) > j
    <3>1. to(j) # EndOfSurvey /\ to(j) <= i
      BY <2>1
    <3> HIDE DEF stop
    <3> QED
      BY <1>3, <3>1
  <2> HIDE DEF stop
  <2> QED
    BY <2>1
<1>6. PICK f \in [0..i -> BOOLEAN] :
        \A j \in 0..i : f[j] = IF stop[j] THEN base[j] ELSE make[j][f[step[j]]]
  <2> HIDE DEF stop, base, step, make
  <2>1. Forward(i, BOOLEAN, stop, base, step, make)
    BY <1>3, <1>4, <1>5 DEF Forward
  <2>2. \E f \in [0..i -> BOOLEAN] : Recurs(f, i, stop, base, step, make)
    BY <2>1, RecursionForward
  <2> QED
    BY <2>2 DEF Recurs
<1>7. f = F(f)
  <2>1. ASSUME NEW j \in 0..i
        PROVE  f[j] = Body(f, j)
    <3>1. CASE stop[j]
      <4>1. f[j] = (j = i)
        BY <1>6, <3>1
      <4>2. j = i \/ to(j) = EndOfSurvey \/ ~(to(j) <= i)
        BY <3>1
      <4> QED
        BY <4>1, <4>2
    <3>2. CASE ~stop[j]
      <4>1. j # i /\ to(j) # EndOfSurvey /\ to(j) <= i /\ step[j] = to(j)
        BY <3>2
      <4>2. f[step[j]] \in BOOLEAN
        BY <1>5
      <4>3. f[j] = f[to(j)] /\ f[to(j)] \in BOOLEAN
        BY <1>6, <3>2, <4>1, <4>2
      <4> QED
        BY <4>1, <4>3
    <3> QED
      BY <3>1, <3>2
  <2>2. f = [j \in 0..i |-> f[j]]
    OBVIOUS
  <2> QED
    BY <2>1, <2>2
<1>8. W = F(W)
  <2> HIDE DEF F
  <2> QED
    BY <1>7
<1>9. \A j \in 0..i : W[j] = Body(W, j)
  <2> HIDE DEF W, Body
  <2> QED
    BY <1>8
<1>10. \A j \in 0..i : W[j] <=> Body(W, j)
  BY <1>9
<1> HIDE DEF W
<1> QED
  BY <1>1, <1>2, <1>10 DEF to

LEMMA LandingIs ==
  ASSUME NEW s, Sound(s), NEW ans
  PROVE  LET L == LandingOf(s, ans) IN
         \A i \in 0..Len(s.order) :
           /\ L[i] \in 0..Len(s.order) /\ L[i] >= i
           /\ L[i] = IF i < Len(s.order) /\ SkippedBefore(s, i, ans)
                     THEN L[NextPlace(s, i, ans)] ELSE i
<1> DEFINE n == Len(s.order)
           to(j) == NextPlace(s, j, ans)
           skips(j) == j < n /\ SkippedBefore(s, j, ans)
           F(f) == [j \in 0..n |-> IF skips(j) THEN f[to(j)] ELSE j]
           L == CHOOSE f : f = F(f)
<1>1. L = LandingOf(s, ans)
  BY DEF LandingOf
<1>2. n \in Nat
  BY SoundRules
<1>3. \A j \in 0..n : j < n => to(j) \in j + 1..n
  <2> SUFFICES ASSUME NEW j \in 0..n, j < n
               PROVE  to(j) \in j + 1..n
    OBVIOUS
  <2>1. j \in 0..n - 1
    <3> HIDE DEF n
    <3> QED
      BY <1>2
  <2> QED
    BY <2>1, LeadsForward DEF NextPlace
<1> HIDE DEF n, to
<1> DEFINE stop == [j \in 0..n |-> ~skips(j)]
           base == [j \in 0..n |-> j]
           step == [j \in 0..n |-> IF stop[j] THEN j ELSE to(j)]
           make == [j \in 0..n |-> [v \in 0..n |-> v]]
<1>4. stop \in [0..n -> BOOLEAN] /\ base \in [0..n -> 0..n] /\ make \in [0..n -> [0..n -> 0..n]]
  OBVIOUS
<1>5. step \in [0..n -> 0..n] /\ \A j \in 0..n : ~stop[j] => step[j] > j
  <2>1. ASSUME NEW j \in 0..n, ~stop[j]
        PROVE  to(j) \in 0..n /\ to(j) > j
    <3>1. j < n
      BY <2>1
    <3> HIDE DEF stop
    <3> QED
      BY <1>2, <1>3, <3>1
  <2> HIDE DEF stop
  <2> QED
    BY <2>1
<1>6. PICK f \in [0..n -> 0..n] :
        \A j \in 0..n : f[j] = IF stop[j] THEN base[j] ELSE make[j][f[step[j]]]
  <2> HIDE DEF stop, base, step, make
  <2>1. Forward(n, 0..n, stop, base, step, make)
    BY <1>2, <1>4, <1>5 DEF Forward
  <2>2. \E f \in [0..n -> 0..n] : Recurs(f, n, stop, base, step, make)
    BY <2>1, RecursionForward
  <2> QED
    BY <2>2 DEF Recurs
<1>7. f = F(f)
  <2>1. ASSUME NEW j \in 0..n
        PROVE  f[j] = IF skips(j) THEN f[to(j)] ELSE j
    <3>1. CASE stop[j]
      BY <1>6, <3>1
    <3>2. CASE ~stop[j]
      <4>1. skips(j) /\ step[j] = to(j) /\ f[step[j]] \in 0..n
        BY <1>5, <3>2
      <4> QED
        BY <1>6, <3>2, <4>1
    <3> QED
      BY <3>1, <3>2
  <2>2. f = [j \in 0..n |-> f[j]]
    OBVIOUS
  <2> HIDE DEF skips
  <2> QED
    BY <2>1, <2>2
<1>8. L = F(L)
  <2> HIDE DEF F
  <2> QED
    BY <1>7
<1>9. \A j \in 0..n : L[j] = IF skips(j) THEN L[to(j)] ELSE j
  <2> HIDE DEF L, skips
  <2> QED
    BY <1>8
<1> HIDE DEF L
<1>10. \A j \in 0..n : L[j] \in j..n
  <2> DEFINE Bad == {k \in 0..n : L[n - k] \notin (n - k)..n}
  <2>1. CASE Bad = {}
    <3> SUFFICES ASSUME NEW j \in 0..n
                 PROVE  L[j] \in j..n
      OBVIOUS
    <3>1. n - j \in 0..n /\ n - (n - j) = j
      BY <1>2
    <3>2. n - j \notin Bad
      BY <2>1
    <3> QED
      BY <3>1, <3>2
  <2>2. CASE Bad # {}
    <3>1. Bad \in SUBSET Nat
      OBVIOUS
    <3>2. PICK k \in Bad : \A x \in Bad : k <= x
      BY <2>2, <3>1, Least
    <3>3. k \in 0..n /\ L[n - k] \notin (n - k)..n
      OBVIOUS
    <3> DEFINE j == n - k
    <3>4. j \in 0..n
      BY <1>2, <3>3
    <3>5. CASE ~skips(j)
      <4>1. L[j] = j
        BY <1>9, <3>4, <3>5
      <4> QED
        BY <1>2, <3>3, <3>4, <4>1
    <3>6. CASE skips(j)
      <4>1. L[j] = L[to(j)] /\ to(j) \in j + 1..n
        BY <1>3, <1>9, <3>4, <3>6
      <4>2. n - to(j) \in 0..n /\ n - to(j) < k /\ n - (n - to(j)) = to(j)
        <5> DEFINE a == to(j)
        <5>1. a \in (n - k) + 1..n /\ k \in 0..n /\ n \in Nat
          BY <1>2, <3>3, <4>1
        <5> HIDE DEF a
        <5>2. n - a \in 0..n /\ n - a < k /\ n - (n - a) = a
          BY <5>1
        <5> QED
          BY <5>2 DEF a
      <4>3. n - to(j) \notin Bad
        <5> HIDE DEF Bad
        <5>1. ~(k <= n - to(j))
          BY <3>3, <4>2
        <5> QED
          BY <3>2, <5>1
      <4>4. L[to(j)] \in to(j)..n
        BY <4>2, <4>3
      <4> QED
        <5> DEFINE a == to(j)
        <5>1. L[j] \in a..n /\ a \in j + 1..n /\ j \in 0..n /\ n \in Nat
          BY <1>2, <3>4, <4>1, <4>4
        <5> HIDE DEF a, j
        <5>2. L[j] \in j..n
          BY <5>1, SMTT(30)
        <5> QED
          BY <3>3, <5>2 DEF j
    <3> QED
      BY <3>5, <3>6
  <2> QED
    BY <2>1, <2>2
<1>11. \A j \in 0..n : L[j] \in 0..n /\ L[j] >= j
  BY <1>2, <1>10
<1> QED
  BY <1>1, <1>9, <1>11 DEF n, to

LEMMA PathOfIs ==
  ASSUME NEW s, Sound(s), NEW ans
  PROVE  /\ Path(s, ans) = PathOf(s, ans)[LandingOf(s, ans)[0]]
         /\ \A i \in 0..Len(s.order) :
              /\ i = Len(s.order) => PathOf(s, ans)[i] = {}
              /\ i # Len(s.order) =>
                   PathOf(s, ans)[i]
                     = {i} \cup PathOf(s, ans)[LandingOf(s, ans)[NextPlace(s, i, ans)]]
<1> DEFINE n == Len(s.order)
           to(j) == LandingOf(s, ans)[NextPlace(s, j, ans)]
           F(f) == [j \in 0..n |-> IF j = n THEN {} ELSE {j} \cup f[to(j)]]
           P == CHOOSE f : f = F(f)
<1>1. P = PathOf(s, ans)
  BY DEF PathOf
<1>2. Path(s, ans) = P[LandingOf(s, ans)[0]]
  BY DEF Path, LandingOf, NextPlace
<1>3. n \in Nat
  BY SoundRules
<1>4. \A j \in 0..n : j # n => to(j) \in j + 1..n
  <2> SUFFICES ASSUME NEW j \in 0..n, j # n
               PROVE  to(j) \in j + 1..n
    OBVIOUS
  <2> DEFINE k == NextPlace(s, j, ans)
  <2>1. j \in 0..n - 1
    <3> HIDE DEF n
    <3> QED
      BY <1>3
  <2>2. k \in j + 1..n
    BY <2>1, LeadsForward DEF NextPlace
  <2>3. k \in 0..n
    <3> HIDE DEF n, k
    <3> QED
      BY <1>3, <2>1, <2>2
  <2>4. to(j) \in 0..n /\ to(j) >= k
    BY <2>3, LandingIs
  <2> HIDE DEF n, k, to
  <2> QED
    BY <1>3, <2>1, <2>2, <2>4
<1> HIDE DEF n, to
<1> DEFINE stop == [j \in 0..n |-> j = n]
           base == [j \in 0..n |-> {}]
           step == [j \in 0..n |-> IF stop[j] THEN j ELSE to(j)]
           make == [j \in 0..n |-> [v \in SUBSET (0..n) |-> {j} \cup v]]
<1>5. /\ stop \in [0..n -> BOOLEAN] /\ base \in [0..n -> SUBSET (0..n)]
      /\ make \in [0..n -> [SUBSET (0..n) -> SUBSET (0..n)]]
  <2>1. stop \in [0..n -> BOOLEAN] /\ base \in [0..n -> SUBSET (0..n)]
    OBVIOUS
  <2>2. \A j \in 0..n : [v \in SUBSET (0..n) |-> {j} \cup v] \in [SUBSET (0..n) -> SUBSET (0..n)]
    OBVIOUS
  <2> QED
    BY <2>1, <2>2
<1>6. step \in [0..n -> 0..n] /\ \A j \in 0..n : ~stop[j] => step[j] > j
  <2>1. ASSUME NEW j \in 0..n, ~stop[j]
        PROVE  to(j) \in 0..n /\ to(j) > j
    <3>1. j # n
      BY <2>1
    <3> HIDE DEF stop
    <3> QED
      BY <1>3, <1>4, <3>1
  <2> HIDE DEF stop
  <2> QED
    BY <2>1
<1>7. PICK f \in [0..n -> SUBSET (0..n)] :
        \A j \in 0..n : f[j] = IF stop[j] THEN base[j] ELSE make[j][f[step[j]]]
  <2> HIDE DEF stop, base, step, make
  <2>1. Forward(n, SUBSET (0..n), stop, base, step, make)
    BY <1>3, <1>5, <1>6 DEF Forward
  <2>2. \E f \in [0..n -> SUBSET (0..n)] : Recurs(f, n, stop, base, step, make)
    BY <2>1, RecursionForward
  <2> QED
    BY <2>2 DEF Recurs
<1>8. f = F(f)
  <2>1. ASSUME NEW j \in 0..n
        PROVE  f[j] = IF j = n THEN {} ELSE {j} \cup f[to(j)]
    <3>1. CASE j = n
      BY <1>7, <3>1
    <3>2. CASE j # n
      <4>1. ~stop[j] /\ step[j] = to(j) /\ f[step[j]] \in SUBSET (0..n)
        BY <1>6, <3>2
      <4>2. f[j] = make[j][f[step[j]]]
        BY <1>7, <4>1
      <4>3. make[j][f[step[j]]] = {j} \cup f[step[j]]
        BY <4>1
      <4> QED
        BY <3>2, <4>1, <4>2, <4>3
    <3> QED
      BY <3>1, <3>2
  <2>2. f = [j \in 0..n |-> f[j]]
    OBVIOUS
  <2> QED
    BY <2>1, <2>2
<1>9. P = F(P)
  <2> HIDE DEF F
  <2> QED
    BY <1>8
<1>10. \A j \in 0..n : P[j] = IF j = n THEN {} ELSE {j} \cup P[to(j)]
  <2> HIDE DEF P
  <2> QED
    BY <1>9
<1> HIDE DEF P
<1>11. \A j \in 0..n : (j = n => P[j] = {}) /\ (j # n => P[j] = {j} \cup P[to(j)])
  BY <1>10
<1> QED
  BY <1>1, <1>2, <1>11 DEF n, to

-----------------------------------------------------------------------------
(***************************************************************************)
(* The walk of should_skip_task to a question and the path of the          *)
(* navigator through it.                                                   *)
(***************************************************************************)

\* What skips a question leads where its rules for leaving it lead.
Agreeing(s, ans) ==
  \A j \in 0..Len(s.order) - 1 : PlaceOf(s, StepFrom(s, j, ans)) = NextPlace(s, j, ans)

\* The questions that are asked by those who have come to the place j.
AsksFrom(s, j, ans) ==
  {i \in 0..Len(s.order) - 1 : i >= j /\ ~SkippedBefore(s, i, ans) /\ WalkTo(s, i, ans)[j]}

LEMMA WalkBy ==
  ASSUME NEW s, Sound(s), NEW ans, Agreeing(s, ans),
         NEW i \in 0..Len(s.order) - 1, NEW j \in 0..i
  PROVE  /\ NextPlace(s, j, ans) \in j + 1..Len(s.order)
         /\ j = i => WalkTo(s, i, ans)[j]
         /\ j # i => (WalkTo(s, i, ans)[j]
                        <=> NextPlace(s, j, ans) <= i /\ WalkTo(s, i, ans)[NextPlace(s, j, ans)])
<1> DEFINE n == Len(s.order)
           k == StepFrom(s, j, ans)
           p == NextPlace(s, j, ans)
           W == WalkTo(s, i, ans)
<1>1. n \in Nat /\ EndOfSurvey \notin Int
  BY SoundRules, SurveyConstants
<1>2. i \in 0..n - 1 /\ j \in 0..i /\ j \in 0..n - 1
  <2> HIDE DEF n
  <2>1. i \in 0..n - 1
    BY DEF n
  <2> QED
    BY <1>1, <2>1
<1>3. (k = EndOfSurvey \/ (k \in Nat /\ k > j)) /\ p \in j + 1..n
  BY <1>2, LeadsForward DEF NextPlace
<1>4. p = IF k = EndOfSurvey \/ k > n THEN n ELSE k
  <2>1. PlaceOf(s, k) = p
    BY <1>2 DEF Agreeing
  <2> QED
    BY <2>1 DEF PlaceOf
<1>5. W[j] <=> j = i \/ (k # EndOfSurvey /\ k <= i /\ W[k])
  BY WalkToIs
<1> HIDE DEF n, k, p, W
<1>6. CASE k = EndOfSurvey \/ k > n
  <2>1. ~(p <= i) /\ (k # EndOfSurvey => ~(k <= i))
    BY <1>1, <1>2, <1>3, <1>4, <1>6
  <2> QED
    BY <1>3, <1>5, <2>1 DEF n, p, W
<1>7. CASE ~(k = EndOfSurvey \/ k > n)
  <2>1. p = k
    BY <1>4, <1>7
  <2> QED
    BY <1>3, <1>5, <1>7, <2>1 DEF n, p, W
<1> QED
  BY <1>6, <1>7

\* Whoever comes to a place goes to the first question from there that is not skipped,
\* asks it, and goes on from the place it leads to.
LEMMA AsksOnward ==
  ASSUME NEW s, Sound(s), NEW ans, Agreeing(s, ans), NEW j \in 0..Len(s.order) - 1
  PROVE  AsksFrom(s, j, ans) = IF SkippedBefore(s, j, ans) THEN AsksFrom(s, NextPlace(s, j, ans), ans)
                               ELSE {j} \cup AsksFrom(s, NextPlace(s, j, ans), ans)
<1> DEFINE n == Len(s.order)
           p == NextPlace(s, j, ans)
           A == AsksFrom(s, j, ans)
           B == AsksFrom(s, p, ans)
           W(i) == WalkTo(s, i, ans)
           skip(i) == SkippedBefore(s, i, ans)
<1>1. n \in Nat /\ j \in 0..n - 1 /\ j \in 0..j
  <2> HIDE DEF n
  <2>1. n \in Nat
    BY SoundRules DEF n
  <2>2. j \in 0..n - 1
    BY DEF n
  <2> QED
    BY <2>1, <2>2
<1>2. p \in j + 1..n /\ W(j)[j]
  BY <1>1, WalkBy
<1>3. \A i : /\ i \in A <=> i \in 0..n - 1 /\ i >= j /\ ~skip(i) /\ W(i)[j]
             /\ i \in B <=> i \in 0..n - 1 /\ i >= p /\ ~skip(i) /\ W(i)[p]
  BY DEF AsksFrom
<1>4. ASSUME NEW i \in 0..n - 1, i > j
      PROVE  W(i)[j] <=> p <= i /\ W(i)[p]
  <2>1. j \in 0..i /\ j # i
    <3> HIDE DEF n
    <3> QED
      BY <1>1, <1>4
  <2> QED
    BY <2>1, WalkBy
<1> HIDE DEF n, p, A, B, W, skip
<1>5. \A i : i # j => (i \in A <=> i \in B)
  <2> SUFFICES ASSUME NEW i, i # j
               PROVE  i \in A <=> i \in B
    OBVIOUS
  <2>1. CASE i \in 0..n - 1 /\ i > j
    <3>1. (i >= j) /\ (i >= p <=> p <= i)
      BY <1>1, <1>2, <2>1
    <3> QED
      BY <1>3, <1>4, <2>1, <3>1
  <2>2. CASE ~(i \in 0..n - 1 /\ i > j)
    <3>1. i \in 0..n - 1 => ~(i >= j) /\ ~(i >= p)
      BY <1>1, <1>2, <2>2
    <3> QED
      BY <1>3, <3>1
  <2> QED
    BY <2>1, <2>2
<1>6. j \notin B /\ (j \in A <=> ~skip(j))
  <2>1. j >= j /\ ~(j >= p)
    BY <1>1, <1>2
  <2> QED
    BY <1>1, <1>2, <1>3, <2>1
<1>7. A = IF skip(j) THEN B ELSE {j} \cup B
  <2>1. CASE skip(j)
    BY <1>5, <1>6, <2>1
  <2>2. CASE ~skip(j)
    <3>1. \A i : i \in A <=> i \in {j} \cup B
      BY <1>5, <1>6, <2>2
    <3> QED
      BY <2>2, <3>1
  <2> QED
    BY <2>1, <2>2
<1> QED
  BY <1>7 DEF A, B, p, skip

\* The two ways through a survey ask the same questions.
LEMMA WaysAgree ==
  ASSUME NEW s, Sound(s), NEW ans, Agreeing(s, ans)
  PROVE  Path(s, ans) = {i \in 0..Len(s.order) - 1 : Reached(s, i, ans) /\ ~SkippedBefore(s, i, ans)}
<1> DEFINE n == Len(s.order)
           P == PathOf(s, ans)
           L == LandingOf(s, ans)
           A(j) == AsksFrom(s, j, ans)
           to(j) == NextPlace(s, j, ans)
           skip(j) == SkippedBefore(s, j, ans)
           Right(j) == P[L[j]] = A(j)
           Bad == {k \in 0..n : ~Right(n - k)}
<1>1. n \in Nat
  BY SoundRules
<1>2. ASSUME NEW j \in 0..n, j < n
      PROVE  to(j) \in j + 1..n
  <2>1. j \in 0..n - 1 /\ j \in 0..j
    <3> HIDE DEF n
    <3> QED
      BY <1>1, <1>2
  <2> QED
    BY <2>1, WalkBy
<1>3. Right(n)
  <2>1. n \in 0..n /\ ~(n < n)
    <3> HIDE DEF n
    <3> QED
      BY <1>1
  <2>2. L[n] = n
    BY <2>1, LandingIs
  <2>3. P[n] = {}
    BY <2>1, PathOfIs
  <2>4. \A i \in 0..n - 1 : ~(i >= n)
    <3> HIDE DEF n
    <3> QED
      BY <1>1
  <2>5. A(n) = {}
    BY <2>4 DEF AsksFrom
  <2> QED
    BY <2>2, <2>3, <2>5
<1>4. ASSUME NEW j \in 0..n, j < n, Right(to(j))
      PROVE  Right(j)
  <2>1. j \in 0..n - 1 /\ j # n
    <3> HIDE DEF n, Right
    <3> QED
      BY <1>1, <1>4
  <2>2. A(j) = IF skip(j) THEN A(to(j)) ELSE {j} \cup A(to(j))
    BY <2>1, AsksOnward
  <2>3. L[j] = IF skip(j) THEN L[to(j)] ELSE j
    BY <1>4, LandingIs
  <2>4. P[j] = {j} \cup P[L[to(j)]]
    BY <1>4, <2>1, PathOfIs
  <2> HIDE DEF A, L, P, to, skip
  <2> QED
    BY <1>4, <2>2, <2>3, <2>4
<1> HIDE DEF n, Right, to
<1>5. Bad = {}
  <2> SUFFICES ASSUME Bad # {}
               PROVE  FALSE
    OBVIOUS
  <2>1. Bad \in SUBSET Nat
    OBVIOUS
  <2>2. PICK k \in Bad : \A x \in Bad : k <= x
    BY <2>1, Least
  <2>3. k \in 0..n /\ ~Right(n - k)
    OBVIOUS
  <2> DEFINE j == n - k
             a == to(n - k)
  <2>4. j \in 0..n /\ n - 0 = n
    BY <1>1, <2>3
  <2>5. k # 0
    BY <1>3, <2>3, <2>4
  <2>6. j < n
    BY <1>1, <2>3, <2>5
  <2>7. a \in (n - k) + 1..n
    BY <1>2, <2>4, <2>6
  <2> HIDE DEF a, Bad
  <2>8. n - a \in 0..n /\ n - (n - a) = a /\ ~(k <= n - a)
    BY <1>1, <2>3, <2>7
  <2>9. n - a \notin Bad
    BY <2>2, <2>8
  <2>10. Right(a)
    BY <2>8, <2>9 DEF Bad
  <2>11. Right(n - k)
    BY <1>4, <2>4, <2>6, <2>10 DEF a
  <2> QED
    BY <2>3, <2>11
<1>6. Right(0)
  <2>1. n \in 0..n /\ n - n = 0
    BY <1>1
  <2> QED
    BY <1>5, <2>1
<1>7. Path(s, ans) = A(0)
  BY <1>6, PathOfIs DEF Right
<1>8. A(0) = {i \in 0..n - 1 : Reached(s, i, ans) /\ ~SkippedBefore(s, i, ans)}
  <2>1. \A i \in 0..n - 1 : Reached(s, i, ans) <=> WalkTo(s, i, ans)[0]
    BY WalkToIs DEF n
  <2>2. \A i \in 0..n - 1 : i >= 0
    BY <1>1
  <2> QED
    BY <2>1, <2>2 DEF AsksFrom, n
<1> QED
  BY <1>7, <1>8 DEF n

-----------------------------------------------------------------------------
(***************************************************************************)
(* The path that is followed.  Who is asked is final, so the answers at    *)
(* the end are those the decisions are right for; and if what is skipped   *)
(* is left alike, both ways through the survey agree with these answers.   *)
(***************************************************************************)

\* Where the rules of a question lead when no rule of the user's holds after it.
LEMMA DefaultLeads ==
  ASSUME Sound(survey), Straight, NEW j \in Positions,
         \A r \in Holding(survey, j, FALSE, answers) : IsDefault(r)
  PROVE  NextPlace(survey, j, answers) = j + 1
<1> DEFINE n == Len(survey.order)
<1>1. n \in Nat /\ j \in 0..n - 1 /\ EndOfSurvey \notin Int
  BY SoundRules, SurveyConstants DEF Positions
<1>2. PICK r \in Holding(survey, j, FALSE, answers) : r.next_q = NextQuestion(survey, j, answers)
  BY NextQuestionIs DEF Positions
<1>3. r \in survey.rules /\ r.current_q = j /\ IsDefault(r)
  BY <1>2 DEF Holding, ApplicableRules
<1>4. r.next_q = j + 1 \/ (r.next_q = EndOfSurvey /\ j = n - 1)
  BY <1>3 DEF Straight
<1>5. NextPlace(survey, j, answers)
        = IF r.next_q = EndOfSurvey \/ r.next_q > n THEN n ELSE r.next_q
  BY <1>2 DEF NextPlace, PlaceOf
<1> HIDE DEF n
<1>6. j + 1 # EndOfSurvey /\ ~(j + 1 > n) /\ (j = n - 1 => n = j + 1)
  BY <1>1
<1> QED
  BY <1>4, <1>5, <1>6

\* At the end those were asked who are not to be skipped.
LEMMA AskedAtEnd ==
  ASSUME DecisionInv, asking, Local, \A i \in Positions : Finished(QuestionAt(i)),
         NEW i \in Positions
  PROVE  Answered(QuestionAt(i)) <=> ~ShouldSkip(survey, i, answers)
<1>1. Sound(survey) /\ OnlyAsked /\ DecisionFinal
  BY DEF DecisionInv, SurveyInv
<1>2. QuestionAt(i) \in Questions
  BY <1>1, PositionsTyped
<1>3. Answered(QuestionAt(i)) <=> status[QuestionAt(i)] # "skipped"
  BY <1>1, <1>2 DEF Finished, OnlyAsked
<1>4. status[QuestionAt(i)] # "pending"
  BY <1>1, <1>2 DEF Finished, OnlyAsked
<1>5. (status[QuestionAt(i)] = "skipped") = ShouldSkip(survey, i, answers)
  BY <1>1, <1>4 DEF DecisionFinal, Decision, Positions, QuestionAt
<1> QED
  BY <1>3, <1>5

LEMMA LeftAlikeAgreeing ==
  ASSUME \A i \in Positions : LeftAlike(i)
  PROVE  Agreeing(survey, answers)
<1>1. ASSUME NEW j \in Positions
      PROVE  PlaceOf(survey, StepFrom(survey, j, answers)) = NextPlace(survey, j, answers)
  <2>1. CASE SkippedBefore(survey, j, answers)
    BY <2>1 DEF StepFrom, NextPlace, LeftAlike
  <2>2. CASE ~SkippedBefore(survey, j, answers)
    BY <2>2 DEF StepFrom, NextPlace
  <2> QED
    BY <2>1, <2>2
<1> QED
  BY <1>1 DEF Agreeing, Positions

\* With no rule but the defaults every question is reached.
LEMMA AllReached ==
  ASSUME Sound(survey), Agreeing(survey, answers), NEW i \in Positions,
         \A j \in Positions : NextPlace(survey, j, answers) = j + 1
  PROVE  Reached(survey, i, answers)
<1> DEFINE W == WalkTo(survey, i, answers)
           Bad == {k \in 0..i : ~W[i - k]}
<1>1. i \in Nat /\ \A j \in 0..i : j \in Positions
  BY SoundRules DEF Positions
<1>2. \A j \in 0..i : /\ j = i => W[j]
                      /\ j # i /\ j + 1 <= i => (W[j + 1] => W[j])
  <2> SUFFICES ASSUME NEW j \in 0..i
               PROVE  /\ j = i => W[j]
                      /\ j # i /\ j + 1 <= i => (W[j + 1] => W[j])
    OBVIOUS
  <2>1. NextPlace(survey, j, answers) = j + 1
    BY <1>1
  <2>2. i \in 0..Len(survey.order) - 1
    BY DEF Positions
  <2> QED
    BY <2>1, <2>2, WalkBy
<1> HIDE DEF W
<1>3. Bad = {}
  <2> SUFFICES ASSUME Bad # {}
               PROVE  FALSE
    OBVIOUS
  <2>1. PICK k \in Bad : \A x \in Bad : k <= x
    <3>1. Bad \in SUBSET Nat
      OBVIOUS
    <3> QED
      BY <3>1, Least
  <2>2. k \in 0..i /\ ~W[i - k]
    OBVIOUS
  <2>3. CASE k = 0
    <3>1. i - k = i /\ i \in 0..i
      BY <1>1, <2>3
    <3> QED
      BY <1>2, <2>2, <3>1
  <2>4. CASE k # 0
    <3>1. /\ i - k \in 0..i /\ i - k # i /\ (i - k) + 1 <= i /\ (i - k) + 1 = i - (k - 1)
          /\ k - 1 \in 0..i /\ ~(k <= k - 1)
      BY <1>1, <2>2, <2>4
    <3>2. W[i - (k - 1)]
      BY <2>1, <3>1
    <3> QED
      BY <1>2, <2>2, <3>1, <3>2
  <2> QED
    BY <2>3, <2>4
<1>4. W[0]
  <2>1. i \in 0..i /\ i - i = 0
    BY <1>1
  <2> QED
    BY <1>3, <2>1
<1> QED
  BY <1>4, WalkToIs DEF W, Positions

LEMMA DecisionsFollowed == DecisionInv => PathFollowed
<1> SUFFICES ASSUME DecisionInv, asking, Local, UserRules(survey) = {} => Straight,
                    \A i \in Positions : Finished(QuestionAt(i)) /\ LeftAlike(i)
             PROVE  {i \in Positions : Answered(QuestionAt(i))} = Path(survey, answers)
  BY DEF PathFollowed, Positions, QuestionAt
<1>1. Sound(survey) /\ Agreeing(survey, answers)
  BY LeftAlikeAgreeing DEF DecisionInv, SurveyInv
<1>2. Path(survey, answers)
        = {i \in Positions : Reached(survey, i, answers) /\ ~SkippedBefore(survey, i, answers)}
  BY <1>1, WaysAgree DEF Positions
<1>3. \A i \in Positions : Answered(QuestionAt(i)) <=> ~ShouldSkip(survey, i, answers)
  BY AskedAtEnd
<1>4. CASE UserRules(survey) # {}
  <2>1. \A i \in Positions :
          Answered(QuestionAt(i))
            <=> Reached(survey, i, answers) /\ ~SkippedBefore(survey, i, answers)
    BY <1>3, <1>4 DEF ShouldSkip
  <2> QED
    BY <1>2, <2>1
<1>5. CASE UserRules(survey) = {}
  <2>1. \A r \in survey.rules : IsDefault(r)
    BY <1>5 DEF UserRules
  <2>2. \A r \in survey.rules : r.before_rule # TRUE
    <3> SUFFICES ASSUME NEW r \in survey.rules
                 PROVE  r.before_rule # TRUE
      OBVIOUS
    <3>1. PlainDefault(r) /\ r.priority = -1
      BY <1>1, <2>1 DEF Sound, DefaultsPlain, IsDefault
    <3>2. ~(-1 >= 0)
      OBVIOUS
    <3>3. ~r.before_rule
      BY <3>1, <3>2 DEF PlainDefault
    <3> QED
      BY <3>3
  <2>3. \A i \in Positions : ~SkippedBefore(survey, i, answers)
    BY <2>2 DEF SkippedBefore, Holding, ApplicableRules
  <2>4. \A j \in Positions : NextPlace(survey, j, answers) = j + 1
    <3> SUFFICES ASSUME NEW j \in Positions
                 PROVE  NextPlace(survey, j, answers) = j + 1
      OBVIOUS
    <3>1. \A r \in Holding(survey, j, FALSE, answers) : IsDefault(r)
      BY <2>1 DEF Holding, ApplicableRules
    <3> QED
      BY <1>1, <1>5, <3>1, DefaultLeads
  <2>5. \A i \in Positions : Reached(survey, i, answers)
    BY <1>1, <2>4, AllReached
  <2>6. \A i \in Positions : Answered(QuestionAt(i))
    BY <1>3, <1>5 DEF ShouldSkip
  <2> QED
    BY <1>2, <2>3, <2>5, <2>6
<1> QED
  BY <1>4, <1>5

\* For surveys of any length, rules to any later place, after questions and before them,
\* and tasks that run in any order: when every question is answered or skipped, those that
\* were asked are the questions the navigator asks one after another, by rules that read
\* the question they follow, if each question that was skipped is left for the same place
\* by the runner and by the navigator.
THEOREM PathFollowedCorrect == InterviewSpec => []PathFollowed
BY DecisionStart, DecisionStep, DecisionsFollowed, PTL DEF InterviewSpec
=============================================================================
