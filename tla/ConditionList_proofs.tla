------------------------ MODULE ConditionList_proofs ------------------------
(***************************************************************************)
(* The slice of conditions keeps one entry per type, so that it acts as    *)
(* the map of JobConditions, whatever is written and however often.  What  *)
(* the loop of filterOutCondition leaves is a fact about its rounds, by    *)
(* induction on their number.                                              *)
(***************************************************************************)
EXTENDS ConditionList, WellFoundedInduction, TLAPS

(***************************************************************************)
(* Induction on a set of naturals, from the least number that is missing.  *)
(***************************************************************************)
LEMMA LessIsPair ==
  ASSUME NEW m \in Nat, NEW n \in Nat, m < n
  PROVE  <<m, n>> \in OpToRel(<, Nat)
  BY DEF OpToRel

\* A set of naturals that is not empty has a least element.
LEMMA LeastElement ==
  ASSUME NEW T, T \subseteq Nat, T # {}
  PROVE  \E n \in T : \A m \in T : n <= m
  <1>1. PICK n \in T : \A m \in T : ~(<<m, n>> \in OpToRel(<, Nat))
    BY NatLessThanWellFounded, WFMin, Zenon
  <1>2. ASSUME NEW m \in T
        PROVE  n <= m
    <2>1. m \in Nat /\ n \in Nat
      OBVIOUS
    <2>2. ~(m < n)
      BY <1>1, <2>1, LessIsPair, Zenon
    <2> QED BY <2>1, <2>2
  <1> QED BY <1>2

\* A set that has 0, and with a natural its successor, has them all.
LEMMA SetInduction ==
  ASSUME NEW S, 0 \in S, \A n \in Nat : n \in S => n + 1 \in S
  PROVE  Nat \subseteq S
  <1> SUFFICES ASSUME Nat \ S # {} PROVE FALSE
    OBVIOUS
  <1>1. PICK n \in Nat \ S : \A m \in Nat \ S : n <= m
    BY LeastElement
  <1>2. n - 1 \in Nat /\ n - 1 \in S
    BY <1>1
  <1> QED BY <1>1, <1>2

----------------------------------------------------------------------------
(***************************************************************************)
(* The rounds of filterOutCondition.                                       *)
(***************************************************************************)
\* newConditions after round n, from what it was after the one before.
Round(list, t, n, before) ==
    IF n = 0 THEN <<>>
    ELSE IF Kept(list[n], t) THEN Append(before, AfterVerdict(list[n], t))
    ELSE before

\* f is newConditions after each of the first m rounds.
AfterRounds(f, list, t, m) == f = [n \in 0..m |-> Round(list, t, n, f[n - 1])]

\* The loop of filterOutCondition has a state after each of its rounds.
LEMMA RoundsExist ==
  ASSUME NEW list, NEW t, NEW m \in Nat
  PROVE  \E f : AfterRounds(f, list, t, m)
  <1> DEFINE S == {j \in Nat : \E f : AfterRounds(f, list, t, j)}
  <1>1. 0 \in S
    <2> DEFINE f == [n \in 0..0 |-> <<>>]
    <2>1. f = [n \in 0..0 |-> Round(list, t, n, f[n - 1])]
      BY DEF Round
    <2> QED BY <2>1 DEF AfterRounds
  <1>2. ASSUME NEW j \in Nat, j \in S
        PROVE  j + 1 \in S
    <2>1. PICK f : f = [n \in 0..j |-> Round(list, t, n, f[n - 1])]
      BY <1>2 DEF AfterRounds
    <2> DEFINE g == [n \in 0..(j + 1) |-> IF n <= j THEN f[n] ELSE Round(list, t, n, f[j])]
    <2>2. ASSUME NEW n \in 0..(j + 1)
          PROVE  g[n] = Round(list, t, n, g[n - 1])
      <3>1. CASE n = 0
        <4>1. f[0] = Round(list, t, 0, f[0 - 1])
          BY <2>1
        <4> QED BY <4>1, <3>1 DEF Round
      <3>2. CASE n # 0 /\ n <= j
        <4>1. n \in 0..j /\ n - 1 \in 0..(j + 1) /\ n - 1 <= j
          BY <3>2
        <4>2. f[n] = Round(list, t, n, f[n - 1])
          BY <2>1, <4>1
        <4> QED BY <3>2, <4>1, <4>2
      <3>3. CASE n = j + 1
        <4>1. j \in 0..(j + 1) /\ j <= j /\ ~(j + 1 <= j) /\ j + 1 - 1 = j
          OBVIOUS
        <4> QED BY <3>3, <4>1
      <3> QED BY <3>1, <3>2, <3>3
    <2>3. g = [n \in 0..(j + 1) |-> Round(list, t, n, g[n - 1])]
      <3> DEFINE h == [n \in 0..(j + 1) |-> Round(list, t, n, g[n - 1])]
      <3>1. \A n \in 0..(j + 1) : g[n] = h[n]
        BY <2>2
      <3> QED BY <3>1, Zenon
    <2> HIDE DEF g
    <2>4. AfterRounds(g, list, t, j + 1)
      BY <2>3 DEF AfterRounds
    <2> QED BY <2>4
  <1>3. Nat \subseteq S
    <2> HIDE DEF S
    <2> QED BY <1>1, <1>2, SetInduction
  <1> QED BY <1>3

\* So each round is the one before, with the entry it looks at.
LEMMA RoundByRound ==
  ASSUME NEW list, Len(list) \in Nat, NEW t, NEW n \in 0..Len(list)
  PROVE  Rounds(list, t)[n] = Round(list, t, n, Rounds(list, t)[n - 1])
  <1> DEFINE f == Rounds(list, t)
  <1>1. f = CHOOSE g : AfterRounds(g, list, t, Len(list))
    BY DEF Rounds, Round, AfterRounds
  <1> HIDE DEF f
  <1>2. AfterRounds(f, list, t, Len(list))
    BY <1>1, RoundsExist, Zenon
  <1>3. f[n] = Round(list, t, n, f[n - 1])
    BY <1>2 DEF AfterRounds
  <1> QED BY <1>3 DEF f

----------------------------------------------------------------------------
\* One entry of each type, as UniqueTypes says of the slice in the API server.
OneEach(list) == \A i, k \in 1..Len(list) : list[i].type = list[k].type => i = k

\* A verdict touches nothing of an entry but the status of Running.
LEMMA VerdictOnEntry ==
  ASSUME NEW e \in Entry, NEW t
  PROVE  /\ AfterVerdict(e, t) \in Entry
         /\ AfterVerdict(e, t).type = e.type
         /\ AfterVerdict(e, t).since = e.since
         /\ AfterVerdict(e, t).status =
              IF t \in {"Failed", "Succeeded"} /\ e.type = "Running" THEN "False" ELSE e.status
  BY DEF AfterVerdict, Entry, CondStatus

\* After n rounds the loop has, of the first n entries, the ones it keeps.
LoopInv(list, t, n, new) ==
    /\ new \in Seq(Entry)
    /\ \A k \in 1..Len(new) :
         \E i \in 1..n : Kept(list[i], t) /\ new[k] = AfterVerdict(list[i], t)
    /\ \A i \in 1..n :
         Kept(list[i], t) => \E k \in 1..Len(new) : new[k] = AfterVerdict(list[i], t)
    /\ OneEach(new)

LEMMA LoopStarts ==
  ASSUME NEW list, NEW t
  PROVE  LoopInv(list, t, 0, <<>>)
  BY DEF LoopInv, OneEach

\* A round keeps an entry that is unlike those it has kept before.
LEMMA LoopGoesOn ==
  ASSUME NEW list \in Seq(Entry), OneEach(list), NEW t, NEW n \in 1..Len(list), NEW new,
         LoopInv(list, t, n - 1, new)
  PROVE  LoopInv(list, t, n, Round(list, t, n, new))
  <1> DEFINE e == AfterVerdict(list[n], t)
  <1>0. list[n] \in Entry /\ Len(list) \in Nat /\ n # 0 /\ n - 1 \in Nat
    OBVIOUS
  <1>1. CASE ~Kept(list[n], t)
    <2>1. Round(list, t, n, new) = new
      BY <1>0, <1>1 DEF Round
    <2> QED BY <1>0, <1>1, <2>1 DEF LoopInv
  <1>2. CASE Kept(list[n], t)
    <2> DEFINE more == Append(new, e)
    <2>1. Round(list, t, n, new) = more
      BY <1>0, <1>2 DEF Round
    <2>2. e \in Entry /\ e.type = list[n].type
      BY <1>0, VerdictOnEntry
    <2> HIDE DEF e
    <2>3. /\ more \in Seq(Entry) /\ Len(more) = Len(new) + 1 /\ Len(new) \in Nat
          /\ \A k \in 1..Len(new) : more[k] = new[k]
          /\ more[Len(new) + 1] = e
      BY <2>2 DEF LoopInv
    <2> HIDE DEF more
    <2>4. \A k \in 1..Len(more) :
            \E i \in 1..n : Kept(list[i], t) /\ more[k] = AfterVerdict(list[i], t)
      <3> SUFFICES ASSUME NEW k \in 1..Len(more)
                   PROVE  \E i \in 1..n : Kept(list[i], t) /\ more[k] = AfterVerdict(list[i], t)
        OBVIOUS
      <3>1. CASE k \in 1..Len(new)
        <4>1. PICK i \in 1..(n - 1) : Kept(list[i], t) /\ new[k] = AfterVerdict(list[i], t)
          BY <3>1 DEF LoopInv
        <4> QED BY <3>1, <4>1, <2>3, <1>0
      <3>2. CASE k = Len(new) + 1
        BY <3>2, <2>3, <1>0, <1>2 DEF e
      <3> QED BY <3>1, <3>2, <2>3
    <2>5. \A i \in 1..n :
            Kept(list[i], t) => \E k \in 1..Len(more) : more[k] = AfterVerdict(list[i], t)
      <3> SUFFICES ASSUME NEW i \in 1..n, Kept(list[i], t)
                   PROVE  \E k \in 1..Len(more) : more[k] = AfterVerdict(list[i], t)
        OBVIOUS
      <3>1. CASE i \in 1..(n - 1)
        <4>1. PICK k \in 1..Len(new) : new[k] = AfterVerdict(list[i], t)
          BY <3>1 DEF LoopInv
        <4> QED BY <4>1, <2>3
      <3>2. CASE i = n
        BY <3>2, <2>3 DEF e
      <3> QED BY <3>1, <3>2, <1>0
    <2>6. \A k \in 1..Len(new) : new[k].type # e.type
      <3> SUFFICES ASSUME NEW k \in 1..Len(new)
                   PROVE  new[k].type # e.type
        OBVIOUS
      <3>1. PICK i \in 1..(n - 1) : new[k] = AfterVerdict(list[i], t)
        BY DEF LoopInv
      <3>2. i \in 1..Len(list) /\ i # n /\ list[i] \in Entry
        BY <1>0
      <3>3. new[k].type = list[i].type
        BY <3>1, <3>2, VerdictOnEntry
      <3> QED BY <3>2, <3>3, <2>2 DEF OneEach
    <2>7. OneEach(more)
      <3>1. OneEach(new)
        BY DEF LoopInv
      <3> QED BY <3>1, <2>3, <2>6 DEF OneEach
    <2> QED BY <2>1, <2>3, <2>4, <2>5, <2>7 DEF LoopInv
  <1> QED BY <1>1, <1>2

\* filterOutCondition leaves the entries that are kept, one of each type.
LEMMA FilterKeeps ==
  ASSUME NEW list \in Seq(Entry), OneEach(list), NEW t
  PROVE  LoopInv(list, t, Len(list), FilterOutCondition(list, t))
  <1> DEFINE f == Rounds(list, t)
  <1> DEFINE S == {n \in Nat : n <= Len(list) => LoopInv(list, t, n, f[n])}
  <1>0. Len(list) \in Nat
    OBVIOUS
  <1> HIDE DEF f
  <1>1. 0 \in S
    <2>1. f[0] = <<>>
      BY <1>0, RoundByRound DEF f, Round
    <2> QED BY <2>1, LoopStarts
  <1>2. ASSUME NEW n \in Nat, n \in S
        PROVE  n + 1 \in S
    <2> SUFFICES ASSUME n + 1 <= Len(list)
                 PROVE  LoopInv(list, t, n + 1, f[n + 1])
      OBVIOUS
    <2>1. n + 1 \in 1..Len(list) /\ n + 1 \in 0..Len(list) /\ n + 1 - 1 = n
      BY <1>0
    <2>2. LoopInv(list, t, n, f[n])
      BY <1>2, <1>0
    <2>3. f[n + 1] = Round(list, t, n + 1, f[n])
      BY <1>0, <2>1, RoundByRound DEF f
    <2> QED BY <2>1, <2>2, <2>3, LoopGoesOn
  <1>3. Nat \subseteq S
    <2> HIDE DEF S
    <2> QED BY <1>1, <1>2, SetInduction
  <1>4. LoopInv(list, t, Len(list), f[Len(list)])
    BY <1>0, <1>3
  <1> QED BY <1>4 DEF f, FilterOutCondition

----------------------------------------------------------------------------
(***************************************************************************)
(* What a reader finds in a slice with one entry per type.                 *)
(***************************************************************************)
LEMMA FirstIsOnly ==
  ASSUME NEW list \in Seq(Entry), OneEach(list), NEW i \in 1..Len(list)
  PROVE  Has(list, list[i].type) /\ First(list, list[i].type) = list[i]
  <1> DEFINE t == list[i].type
             Is(j) == list[j].type = t /\ \A k \in 1..(j - 1) : list[k].type # t
             j == CHOOSE j \in DOMAIN list : Is(j)
  <1>0. DOMAIN list = 1..Len(list) /\ Len(list) \in Nat
    OBVIOUS
  <1>1. i \in DOMAIN list /\ Is(i)
    <2>1. \A k \in 1..(i - 1) : k \in 1..Len(list) /\ k # i
      BY <1>0
    <2> QED BY <1>0, <2>1 DEF OneEach
  <1>2. j \in DOMAIN list /\ Is(j)
    <2> HIDE DEF Is
    <2> QED BY <1>1, Zenon
  <1>3. j = i
    <2> HIDE DEF j
    <2> QED BY <1>0, <1>2 DEF OneEach
  <1>4. First(list, t) = list[j]
    BY DEF First
  <1> QED BY <1>0, <1>3, <1>4 DEF Has

LEMMA HasEntry ==
  ASSUME NEW list \in Seq(Entry), OneEach(list), NEW t, Has(list, t)
  PROVE  \E i \in 1..Len(list) : list[i].type = t /\ First(list, t) = list[i] /\ list[i] \in Entry
  <1>1. PICK i \in 1..Len(list) : list[i].type = t
    BY DEF Has
  <1> QED BY <1>1, FirstIsOnly

----------------------------------------------------------------------------
(***************************************************************************)
(* What the write of an entry leaves in the slice.                         *)
(***************************************************************************)
LEMMA SinceInRange ==
  ASSUME NEW list \in Seq(Entry), OneEach(list), NEW new \in Entry
  PROVE  Since(list, new) \in 0..MaxCalls
  <1>1. CASE Has(list, new.type)
    <2>1. First(list, new.type) \in Entry
      BY <1>1, HasEntry
    <2> QED BY <2>1 DEF Since, Entry
  <1>2. CASE ~Has(list, new.type)
    BY <1>2 DEF Since, Entry
  <1> QED BY <1>1, <1>2

\* The entry goes to the end, behind entries of other types.
LEMMA WrittenShape ==
  ASSUME NEW list \in Seq(Entry), OneEach(list), NEW new \in Entry
  PROVE  /\ Written(list, new) \in Seq(Entry)
         /\ OneEach(Written(list, new))
         /\ Has(Written(list, new), new.type)
         /\ First(Written(list, new), new.type) = [new EXCEPT !.since = Since(list, new)]
         /\ \A k \in 1..Len(FilterOutCondition(list, new.type)) :
              /\ k \in 1..Len(Written(list, new))
              /\ Written(list, new)[k] = FilterOutCondition(list, new.type)[k]
         /\ \A k \in 1..Len(Written(list, new)) :
              \/ k \in 1..Len(FilterOutCondition(list, new.type))
              \/ Written(list, new)[k].type = new.type
  <1> DEFINE t == new.type
             f == FilterOutCondition(list, t)
             e == [new EXCEPT !.since = Since(list, new)]
             w == Written(list, new)
  <1>1. e \in Entry /\ e.type = t
    BY SinceInRange DEF Entry
  <1>2. w = Append(f, e)
    BY DEF Written
  <1>3. LoopInv(list, t, Len(list), f)
    BY FilterKeeps
  <1> HIDE DEF f, e, w
  <1>4. /\ w \in Seq(Entry) /\ Len(w) = Len(f) + 1 /\ Len(f) \in Nat
        /\ \A k \in 1..Len(f) : w[k] = f[k]
        /\ w[Len(f) + 1] = e
    BY <1>1, <1>2, <1>3 DEF LoopInv
  <1>5. \A k \in 1..Len(f) : f[k].type # t
    <2> SUFFICES ASSUME NEW k \in 1..Len(f)
                 PROVE  f[k].type # t
      OBVIOUS
    <2>1. PICK i \in 1..Len(list) : Kept(list[i], t) /\ f[k] = AfterVerdict(list[i], t)
      BY <1>3 DEF LoopInv
    <2>2. list[i] \in Entry
      OBVIOUS
    <2> QED BY <2>1, <2>2, VerdictOnEntry DEF Kept
  <1>6. OneEach(w)
    <2>1. OneEach(f)
      BY <1>3 DEF LoopInv
    <2> QED BY <2>1, <1>1, <1>4, <1>5 DEF OneEach
  <1>7. Has(w, t) /\ First(w, t) = e
    <2>1. Len(f) + 1 \in 1..Len(w)
      BY <1>4
    <2> QED BY <2>1, <1>1, <1>4, <1>6, FirstIsOnly
  <1>8. \A k \in 1..Len(w) : k \in 1..Len(f) \/ w[k].type = t
    BY <1>1, <1>4
  <1>9. \A k \in 1..Len(f) : k \in 1..Len(w) /\ w[k] = f[k]
    BY <1>4
  <1> QED BY <1>4, <1>6, <1>7, <1>8, <1>9 DEF f, e, w

\* The entries of other types are those of before, but for what a verdict or
\* the conclusion of an upload does to them.
LEMMA WrittenElsewhere ==
  ASSUME NEW list \in Seq(Entry), OneEach(list), NEW new \in Entry, NEW t, t # new.type
  PROVE  /\ Has(Written(list, new), t)
              <=> Has(list, t) /\ ~(new.type = "ModelUploaded" /\ t = "ModelUploading")
         /\ Has(Written(list, new), t) =>
              First(Written(list, new), t) = AfterVerdict(First(list, t), new.type)
  <1> DEFINE f == FilterOutCondition(list, new.type)
             w == Written(list, new)
             Gone == new.type = "ModelUploaded" /\ t = "ModelUploading"
  <1>1. LoopInv(list, new.type, Len(list), f)
    BY FilterKeeps
  <1>2. /\ w \in Seq(Entry) /\ OneEach(w)
        /\ \A k \in 1..Len(f) : k \in 1..Len(w) /\ w[k] = f[k]
        /\ \A k \in 1..Len(w) : k \in 1..Len(f) \/ w[k].type = new.type
    BY WrittenShape
  <1> HIDE DEF f, w
  <1>3. ASSUME Has(w, t)
        PROVE  Has(list, t) /\ ~Gone /\ First(w, t) = AfterVerdict(First(list, t), new.type)
    <2>1. PICK k \in 1..Len(w) : w[k].type = t /\ First(w, t) = w[k]
      BY <1>2, <1>3, HasEntry
    <2>2. k \in 1..Len(f) /\ w[k] = f[k]
      BY <1>2, <2>1
    <2>3. PICK i \in 1..Len(list) :
            Kept(list[i], new.type) /\ f[k] = AfterVerdict(list[i], new.type)
      BY <1>1, <2>2 DEF LoopInv
    <2>4. list[i] \in Entry
      OBVIOUS
    <2>5. list[i].type = t
      BY <2>1, <2>2, <2>3, <2>4, VerdictOnEntry
    <2>6. Has(list, t) /\ First(list, t) = list[i]
      BY <2>5, FirstIsOnly
    <2> QED BY <2>1, <2>2, <2>3, <2>5, <2>6 DEF Kept
  <1>4. ASSUME Has(list, t), ~Gone
        PROVE  Has(w, t)
    <2>1. PICK i \in 1..Len(list) : list[i].type = t /\ list[i] \in Entry
      BY <1>4, HasEntry
    <2>2. Kept(list[i], new.type)
      BY <1>4, <2>1 DEF Kept
    <2>3. PICK k \in 1..Len(f) : f[k] = AfterVerdict(list[i], new.type)
      BY <1>1, <2>2 DEF LoopInv
    <2>4. k \in 1..Len(w) /\ w[k].type = t
      BY <1>2, <2>1, <2>3, VerdictOnEntry
    <2> QED BY <1>2, <2>4, FirstIsOnly
  <1> QED BY <1>3, <1>4 DEF w

\* The status that a reader finds of each type is the one of Overwrite.
LEMMA WrittenAsMap ==
  ASSUME NEW list \in Seq(Entry), OneEach(list), NEW new \in Entry
  PROVE  AsConds(Written(list, new)) = Overwrite(AsConds(list), new.type, new.status)
  <1> DEFINE w == Written(list, new)
             c == AsConds(list)
             d == Overwrite(c, new.type, new.status)
  <1>1. new.type \in CondType
    BY DEF Entry
  <1>2. ASSUME NEW t \in CondType
        PROVE  AsConds(w)[t] = d[t]
    <2>1. c[t] = IF Has(list, t) THEN First(list, t).status ELSE "absent"
      BY DEF AsConds
    <2>2. AsConds(w)[t] = IF Has(w, t) THEN First(w, t).status ELSE "absent"
      BY DEF AsConds
    <2>3. CASE t = new.type
      <3>1. Has(w, t) /\ First(w, t) = [new EXCEPT !.since = Since(list, new)]
        BY <2>3, WrittenShape
      <3>2. First(w, t).status = new.status
        BY <3>1 DEF Entry
      <3>3. d[t] = new.status
        BY <1>1, <2>3 DEF Overwrite, FilterOut
      <3> QED BY <2>2, <3>1, <3>2, <3>3
    <2>4. CASE t # new.type
      <3> DEFINE Gone == new.type = "ModelUploaded" /\ t = "ModelUploading"
      <3>1. /\ Has(w, t) <=> Has(list, t) /\ ~Gone
            /\ Has(w, t) => First(w, t) = AfterVerdict(First(list, t), new.type)
        BY <2>4, WrittenElsewhere
      <3>2. d[t] = IF Gone THEN "absent"
                   ELSE IF t = "Running" /\ new.type \in {"Failed", "Succeeded"} THEN Settled(c[t])
                   ELSE c[t]
        BY <1>1, <2>4 DEF Overwrite, FilterOut, Displaced
      <3>3. CASE ~Has(w, t)
        BY <3>1, <3>2, <3>3, <2>1, <2>2 DEF Settled
      <3>4. CASE Has(w, t)
        <4>1. First(list, t) \in Entry /\ First(list, t).type = t
          BY <3>1, <3>4, HasEntry
        <4>2. First(w, t).status =
                IF new.type \in {"Failed", "Succeeded"} /\ t = "Running" THEN "False"
                ELSE First(list, t).status
          BY <3>1, <3>4, <4>1, VerdictOnEntry
        <4>3. First(list, t).status # "absent"
          BY <4>1 DEF Entry, CondStatus
        <4> HIDE DEF w, d
        <4> QED BY <3>1, <3>2, <3>4, <4>2, <4>3, <2>1, <2>2 DEF Settled
      <3> QED BY <3>3, <3>4
    <2> QED BY <2>3, <2>4
  <1>3. d = [t \in CondType |-> d[t]]
    BY DEF Overwrite, FilterOut
  <1>4. AsConds(w) = [t \in CondType |-> AsConds(w)[t]]
    BY DEF AsConds
  <1> HIDE DEF w, d
  <1>5. AsConds(w) = d
    BY <1>2, <1>3, <1>4
  <1> QED BY <1>5 DEF w, d

----------------------------------------------------------------------------
(***************************************************************************)
(* The invariant: a slice of entries with one of each type.                *)
(***************************************************************************)
IInv == TypeOK /\ UniqueTypes

LEMMA InvMeans ==
  ASSUME IInv
  PROVE  conditions \in Seq(Entry) /\ OneEach(conditions)
  <1>1. conditions \in Seq(Entry)
    BY DEF IInv, TypeOK
  <1>2. DOMAIN conditions = 1..Len(conditions)
    BY <1>1
  <1> QED BY <1>1, <1>2 DEF IInv, UniqueTypes, OneEach

\* A call passes an entry of the present instant to setCondition.
LEMMA CallSetsEntry ==
  ASSUME IInv, NEW call \in Calls, NEW text \in Texts, UpdateJobConditions(call, text)
  PROVE  \E new \in Entry :
           /\ new.type = call.type /\ new.status = call.status /\ new.since = clock'
           /\ conditions' = SetEntry(conditions, new)
           /\ clock' \in 0..MaxCalls
  <1> DEFINE new == [type |-> call.type, status |-> call.status, text |-> text, since |-> clock']
  <1>1. clock' \in 0..MaxCalls
    BY MaxCallsAssumption DEF UpdateJobConditions, IInv, TypeOK
  <1>2. call.type \in CondType /\ call.status \in CondStatus
    BY DEF Calls, CondType, CondStatus
  <1>3. new \in Entry
    BY <1>1, <1>2 DEF Entry
  <1>4. conditions' = SetEntry(conditions, new)
    BY DEF UpdateJobConditions
  <1> QED BY <1>1, <1>3, <1>4

LEMMA NextSetsEntry ==
  ASSUME IInv, Next
  PROVE  \E new \in Entry : /\ conditions' = SetEntry(conditions, new) /\ clock' \in 0..MaxCalls
                            /\ new.since = clock'
  BY CallSetsEntry DEF Next

LEMMA InitInv == Init => IInv
  BY MaxCallsAssumption DEF Init, IInv, TypeOK, UniqueTypes

LEMMA StepInv == IInv /\ [Next]_vars => IInv'
  <1> SUFFICES ASSUME IInv, [Next]_vars
               PROVE  IInv'
    OBVIOUS
  <1>1. CASE UNCHANGED vars
    BY <1>1 DEF vars, IInv, TypeOK, UniqueTypes
  <1>2. CASE Next
    <2>1. PICK new \in Entry : conditions' = SetEntry(conditions, new) /\ clock' \in 0..MaxCalls
      BY <1>2, NextSetsEntry
    <2>2. conditions \in Seq(Entry) /\ OneEach(conditions)
      BY InvMeans
    <2>3. conditions' \in Seq(Entry) /\ OneEach(conditions')
      <3>1. CASE conditions' = conditions
        BY <3>1, <2>2
      <3>2. CASE conditions' = Written(conditions, new)
        BY <3>2, <2>2, WrittenShape
      <3> QED BY <2>1, <3>1, <3>2 DEF SetEntry
    <2>4. DOMAIN conditions' = 1..Len(conditions')
      BY <2>3
    <2> QED BY <2>1, <2>3, <2>4 DEF IInv, TypeOK, UniqueTypes, OneEach
  <1> QED BY <1>1, <1>2

LEMMA InvAlways == Spec => []IInv
  BY InitInv, StepInv, PTL DEF Spec

\* The slice holds entries, written at instants that have come.
THEOREM TypeCorrect == Spec => []TypeOK
  <1>1. IInv => TypeOK
    BY DEF IInv
  <1> QED BY <1>1, InvAlways, PTL

\* The slice never holds two entries of one type, whatever is written to it.
THEOREM UniqueTypesAlways == Spec => []UniqueTypes
  <1>1. IInv => UniqueTypes
    BY DEF IInv
  <1> QED BY <1>1, InvAlways, PTL

----------------------------------------------------------------------------
\* What a call does to the function of JobConditions.
MapStep(call) ==
    \/ AsConds(conditions)' = SetCondition(AsConds(conditions), call.type, call.status)
    \/ /\ ~IsFailed(AsConds(conditions))
       /\ AsConds(conditions)' = Overwrite(AsConds(conditions), call.type, call.status)

LEMMA CallIsMapStep ==
  ASSUME IInv, NEW call \in Calls, NEW text \in Texts, UpdateJobConditions(call, text)
  PROVE  MapStep(call)
  <1> DEFINE c == AsConds(conditions)
  <1>1. PICK new \in Entry : /\ new.type = call.type /\ new.status = call.status
                             /\ conditions' = SetEntry(conditions, new)
    BY CallSetsEntry
  <1>2. new.type \in CondType
    BY DEF Entry
  <1>3. conditions \in Seq(Entry) /\ OneEach(conditions)
    BY InvMeans
  <1>4. CASE IsFailed(c)
    <2>1. conditions' = conditions
      BY <1>1, <1>4 DEF SetEntry
    <2>2. AsConds(conditions)' = c
      BY <2>1
    <2> QED BY <2>2, <1>4 DEF MapStep, SetCondition
  <1>5. CASE ~IsFailed(c) /\ conditions' = conditions /\ conditions' # Written(conditions, new)
    <2>1. Has(conditions, new.type) /\ First(conditions, new.type).status = new.status
      BY <1>1, <1>5 DEF SetEntry
    <2>2. c[call.type] = call.status
      BY <2>1, <1>1, <1>2 DEF AsConds
    <2>3. AsConds(conditions)' = c
      BY <1>5
    <2> QED BY <2>2, <2>3 DEF MapStep, SetCondition
  <1>6. CASE ~IsFailed(c) /\ conditions' = Written(conditions, new)
    <2>1. AsConds(Written(conditions, new)) = Overwrite(c, call.type, call.status)
      BY <1>1, <1>3, WrittenAsMap
    <2>2. AsConds(conditions)' = Overwrite(c, call.type, call.status)
      BY <1>6, <2>1
    <2> QED BY <2>2, <1>6 DEF MapStep
  <1> QED BY <1>1, <1>4, <1>5, <1>6 DEF SetEntry

\* Every call changes the slice exactly as it changes the function of
\* JobConditions, which the other modules therefore use.
THEOREM ActsAsMapAlways == Spec => ActsAsMap
  <1>1. IInv /\ [Next]_vars =>
          [\A call \in Calls, text \in Texts : UpdateJobConditions(call, text) => MapStep(call)]_vars
    BY CallIsMapStep
  <1> QED BY <1>1, InvAlways, PTL DEF Spec, ActsAsMap, MapStep

----------------------------------------------------------------------------
TimeStep ==
    \A t \in CondType :
      Has(conditions, t) /\ Has(conditions', t)
          => TimeOfTransition(t, First(conditions, t), First(conditions', t))

LEMMA NextKeepsTime ==
  ASSUME IInv, Next
  PROVE  TimeStep
  <1>1. PICK new \in Entry : conditions' = SetEntry(conditions, new) /\ new.since = clock'
    BY NextSetsEntry
  <1>2. conditions \in Seq(Entry) /\ OneEach(conditions)
    BY InvMeans
  <1>3. CASE conditions' = conditions
    BY <1>3 DEF TimeStep, TimeOfTransition
  <1>4. CASE conditions' = Written(conditions, new)
    <2> DEFINE w == Written(conditions, new)
    <2> SUFFICES ASSUME NEW t \in CondType, Has(conditions, t), Has(w, t)
                 PROVE  TimeOfTransition(t, First(conditions, t), First(w, t))
      BY <1>4 DEF TimeStep
    <2>1. CASE t = new.type
      <3>1. First(w, t) = [new EXCEPT !.since = Since(conditions, new)]
        BY <1>2, <2>1, WrittenShape
      <3>2. First(w, t).status = new.status /\ First(w, t).since = Since(conditions, new)
        BY <3>1 DEF Entry
      <3> HIDE DEF w
      <3> QED BY <1>1, <2>1, <3>2 DEF Since, TimeOfTransition
    <2>2. CASE t # new.type
      <3>1. First(w, t) = AfterVerdict(First(conditions, t), new.type)
        BY <1>2, <2>2, WrittenElsewhere
      <3>2. First(conditions, t) \in Entry /\ First(conditions, t).type = t
        BY <1>2, HasEntry
      <3> HIDE DEF w
      <3> QED BY <3>1, <3>2, VerdictOnEntry DEF TimeOfTransition
    <2> QED BY <2>1, <2>2
  <1> QED BY <1>1, <1>3, <1>4 DEF SetEntry

\* The transition time of an entry moves only with its status, and always
\* with it but for Running, which a verdict turns False (filterOutCondition).
THEOREM TimeNeedsTransitionAlways == Spec => TimeNeedsTransition
  <1>1. IInv /\ [Next]_vars => [TimeStep]_vars
    BY NextKeepsTime
  <1> QED BY <1>1, InvAlways, PTL DEF Spec, TimeNeedsTransition, TimeStep
=============================================================================
