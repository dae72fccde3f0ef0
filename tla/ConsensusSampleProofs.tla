------------------------- MODULE ConsensusSampleProofs -------------------------
(* Theorems about ConsensusSample and their proofs.                            *)
EXTENDS ConsensusSample, FiniteSetTheorems, SequenceTheorems,
        WellFoundedInduction, TLAPS

Samples == [signers : Heights, eligible : SUBSET Validators]

\* The first n validators of a ranking.
First(s, n) == {s[i] : i \in {j \in 1..Len(s) : j <= n}}

\* The heights served since the current set is read.
Served == {h \in Heights : low <= h /\ \E e \in Endpoints : h <= head[e]}

Ever == UNION {Seated(h) : h \in Served}

Steady == \A h \in Served : seats[h] = seats[low]

-----------------------------------------------------------------------------
(* The inductive invariant. *)

(* The samples taken, and the pages the next one consists of: those before   *)
(* `page` of the set of the height whose commit was read.                    *)
Sampling ==
  /\ commits \in Seq(Samples)
  /\ pc \in {"idle", "current", "status"} => commits = <<>>
  /\ pc \in {"commit", "set", "done"} => managedRecentCommitCount <= height
  /\ pc \in {"commit", "set"} => Len(commits) < managedRecentCommitCount
  /\ pc \notin {"current", "set"} => page = 1 /\ set = {}
  /\ pc = "set" =>
       /\ signedAt = SampleHeight
       /\ set = First(seats[SampleHeight], (page - 1) * perPage)

(* What was read of the current set; when the set kept still, its first      *)
(* pages, and in the end all of it.                                          *)
CurrentReads ==
  /\ pc \in {"current", "status", "commit", "set"} =>
       \A e \in Endpoints : low <= head[e]
  /\ pc = "current" =>
       /\ set \subseteq Ever
       /\ Steady => set = First(seats[low], (page - 1) * perPage)
  /\ pc \in {"status", "commit", "set"} =>
       /\ currentSet \subseteq Ever
       /\ Steady => currentSet = Seated(low)

IInv == TypeOK /\ Sampling /\ SamplesAreExact /\ CurrentReads

-----------------------------------------------------------------------------
(* Rankings and pages. *)

\* The numbers among the constants.
LEMMA ConstantTypes ==
  /\ ValidatorCount \in Nat \ {0}
  /\ perPage \in Nat \ {0}
  /\ managedRecentCommitCount \in Nat \ {0}
  /\ MaxHeight \in Nat \ {0} /\ MaxHeight > 1
  BY SampleAssumption

\* A ranking is a sequence without repetition, no longer than there are validators.
LEMMA RankingShape ==
  ASSUME NEW s \in Rankings
  PROVE  /\ Len(s) \in 1..ValidatorCount
         /\ DOMAIN s = 1..Len(s)
         /\ \A i \in 1..Len(s) : s[i] \in Validators
  <1>1. PICK n \in Validators : s \in [1..n -> Validators]
    BY DEF Rankings
  <1>2. s \in Seq(Validators) /\ Len(s) = n
    <2>1. n \in Nat /\ n >= 1
      BY ConstantTypes DEF Validators
    <2>2. s \in Seq(Validators)
      <3>1. s \in UNION {[1..m -> Validators] : m \in Nat}
        BY <1>1, <2>1
      <3> QED
        BY <3>1, SeqDef, Zenon
    <2>3. Len(s) \in Nat /\ 1..Len(s) = 1..n
      BY <1>1, <2>2, LenProperties, Zenon
    <2>4. 1 \in 1..n /\ n \in 1..n /\ n + 1 \notin 1..n
      BY <2>1
    <2> QED
      BY <2>1, <2>2, <2>3, <2>4
  <1>3. \A i \in 1..n : s[i] \in Validators
    BY <1>1
  <1> QED
    BY <1>1, <1>2, <1>3 DEF Validators

\* A set read with Len(s) members, or past its last page, is the whole set.
LEMMA WholeSet ==
  ASSUME NEW s \in Rankings, NEW n \in Nat,
         Cardinality(First(s, n)) >= Len(s) \/ n >= Len(s)
  PROVE  First(s, n) = ToSet(s)
  <1>1. /\ Len(s) \in Nat /\ DOMAIN s = 1..Len(s)
        /\ First(s, n) \subseteq ToSet(s)
    BY RankingShape DEF First, ToSet
  <1>2. CASE n >= Len(s)
    BY <1>1, <1>2 DEF First, ToSet
  <1>3. CASE Cardinality(First(s, n)) >= Len(s)
    <2>1. s \in Surjection(1..Len(s), ToSet(s))
      <3>1. s \in [1..Len(s) -> ToSet(s)]
        BY <1>1, RankingShape DEF Rankings, ToSet
      <3>2. \A t \in ToSet(s) : \E i \in 1..Len(s) : s[i] = t
        BY <1>1 DEF ToSet
      <3> QED
        BY <3>1, <3>2 DEF Surjection
    <2>2. IsFiniteSet(1..Len(s)) /\ Cardinality(1..Len(s)) = Len(s)
      <3>1. Len(s) >= 1
        BY RankingShape
      <3>2. 1 \in Int /\ Len(s) \in Int
        BY <1>1
      <3>3. /\ IsFiniteSet(1..Len(s))
            /\ Cardinality(1..Len(s)) = IF 1 > Len(s) THEN 0 ELSE Len(s) - 1 + 1
        BY <3>2, FS_Interval, Zenon
      <3> QED
        BY <1>1, <3>1, <3>3
    <2>3. IsFiniteSet(ToSet(s)) /\ Cardinality(ToSet(s)) <= Len(s)
      BY <2>1, <2>2, FS_Surjection
    <2>4. /\ Cardinality(First(s, n)) <= Cardinality(ToSet(s))
          /\ Cardinality(ToSet(s)) = Cardinality(First(s, n)) => ToSet(s) = First(s, n)
          /\ IsFiniteSet(First(s, n))
      BY <1>1, <2>3, FS_Subset, Zenon
    <2>5. Cardinality(First(s, n)) \in Nat /\ Cardinality(ToSet(s)) \in Nat
      BY <2>3, <2>4, FS_CardinalityType
    <2> QED
      BY <1>1, <1>3, <2>3, <2>4, <2>5
  <1> QED
    BY <1>2, <1>3

\* One page more.
LEMMA NextPage ==
  ASSUME TypeOK, NEW h \in Heights
  PROVE  /\ PageAt(h) \subseteq Seated(h)
         /\ Seated(h) \subseteq Validators
         /\ First(seats[h], (page - 1) * perPage) \cup PageAt(h)
              = First(seats[h], page * perPage)
         /\ page * perPage \in Nat
         /\ PageAt(h) = {} => page * perPage >= Len(seats[h])
         /\ PageAt(h) # {} => page + 1 \in 1..(ValidatorCount \div perPage + 2)
  <1> DEFINE s == seats[h]
             a == (page - 1) * perPage
             b == page * perPage
  <1>1. s \in Rankings
    BY DEF TypeOK
  <1>2. /\ Len(s) \in 1..ValidatorCount /\ DOMAIN s = 1..Len(s)
        /\ \A i \in 1..Len(s) : s[i] \in Validators
    BY <1>1, RankingShape
  <1>3. page \in Nat /\ page >= 1 /\ perPage \in Nat /\ perPage >= 1
        /\ ValidatorCount \in Nat
    BY ConstantTypes DEF TypeOK
  <1>4. a \in Nat /\ b \in Nat /\ b = a + perPage
    BY <1>3
  <1>5. PageAt(h) = {s[i] : i \in {j \in 1..Len(s) : j > a /\ j <= b}}
    BY DEF PageAt
  <1> HIDE DEF s, a, b
  <1>6. PageAt(h) \subseteq ToSet(s) /\ ToSet(s) \subseteq Validators
    BY <1>2, <1>5 DEF ToSet
  <1>7. First(s, a) \cup PageAt(h) = First(s, b)
    BY <1>2, <1>3, <1>4, <1>5 DEF First
  <1>8. PageAt(h) = {} => b >= Len(s)
    <2> SUFFICES ASSUME b < Len(s) PROVE PageAt(h) # {}
      BY <1>2, <1>4
    <2>1. b \in {j \in 1..Len(s) : j > a /\ j <= b}
      BY <1>2, <1>3, <1>4
    <2> QED
      BY <2>1, <1>5
  <1>9. ASSUME PageAt(h) # {} PROVE page + 1 \in 1..(ValidatorCount \div perPage + 2)
    <2>1. a < ValidatorCount
      BY <1>2, <1>3, <1>4, <1>5, <1>9
    <2>2. page - 1 <= ValidatorCount \div perPage
      BY <2>1, <1>3 DEF a
    <2> QED
      BY <2>2, <1>3
  <1> QED
    BY <1>4, <1>6, <1>7, <1>8, <1>9 DEF s, a, b, Seated

-----------------------------------------------------------------------------
(* The heights of the endpoints. *)

\* A set of naturals that is not empty has a least element.
LEMMA LeastNatural ==
  ASSUME NEW S \in SUBSET Nat, S # {}
  PROVE  \E m \in S : \A n \in S : m <= n
  <1> DEFINE Less == OpToRel(<, Nat)
  <1>1. \E m \in S : \A n \in S : <<n, m>> \notin Less
    <2> HIDE DEF Less
    <2> QED
      BY NatLessThanWellFounded, WFMin DEF Less
  <1>2. \A m, n \in Nat : <<n, m>> \notin Less => m <= n
    BY DEF OpToRel
  <1> QED
    BY <1>1, <1>2

\* And, when it has a bound, a greatest one.
LEMMA GreatestNatural ==
  ASSUME NEW S \in SUBSET Nat, S # {}, NEW bound \in Nat,
         \A n \in S : n <= bound
  PROVE  \E m \in S : \A n \in S : n <= m
  <1> DEFINE gaps == {bound - n : n \in S}
  <1>1. gaps \in SUBSET Nat /\ gaps # {}
    <2>1. \A n \in S : bound - n \in Nat
      OBVIOUS
    <2>2. PICK n \in S : TRUE
      OBVIOUS
    <2>3. bound - n \in gaps
      OBVIOUS
    <2> QED
      BY <2>1, <2>3
  <1>2. PICK g \in gaps : \A d \in gaps : g <= d
    <2> HIDE DEF gaps
    <2> QED
      BY <1>1, LeastNatural, Zenon
  <1>3. PICK m \in S : g = bound - m
    OBVIOUS
  <1>4. \A n \in S : n <= m
    BY <1>2, <1>3
  <1> QED
    BY <1>4

\* The lowest and the highest of them.
LEMMA HeadExtrema ==
  ASSUME TypeOK
  PROVE  LET heads == {head[e] : e \in Endpoints}
         IN  /\ Min(heads) \in Heights /\ \A e \in Endpoints : Min(heads) <= head[e]
             /\ \E e \in Endpoints : Max(heads) = head[e]
             /\ \A e \in Endpoints : head[e] <= Max(heads)
  <1> DEFINE heads == {head[e] : e \in Endpoints}
  <1>1. heads \subseteq Heights /\ heads # {}
    BY SampleAssumption DEF TypeOK
  <1>2. heads \in SUBSET Nat /\ MaxHeight \in Nat /\ \A n \in heads : n <= MaxHeight
    BY <1>1, ConstantTypes DEF Heights
  <1>3. \A e \in Endpoints : head[e] \in heads
    OBVIOUS
  <1>4. \A x \in heads : \E e \in Endpoints : x = head[e]
    OBVIOUS
  <1> HIDE DEF heads
  <1>5. \E m \in heads : \A n \in heads : m <= n
    BY <1>1, <1>2, LeastNatural, Zenon
  <1>6. \E m \in heads : \A n \in heads : n <= m
    BY <1>1, <1>2, GreatestNatural, Zenon
  <1>7. Min(heads) \in heads /\ \A n \in heads : Min(heads) <= n
    BY <1>5 DEF Min
  <1>8. Max(heads) \in heads /\ \A n \in heads : Max(heads) >= n
    <2>1. \E m \in heads : \A n \in heads : m >= n
      BY <1>2, <1>6
    <2> QED
      BY <2>1 DEF Max
  <1> QED
    BY <1>1, <1>2, <1>3, <1>4, <1>7, <1>8 DEF heads

\* `Served` is the range CurrentSetWasSeated speaks of.
LEMMA ServedRange ==
  ASSUME TypeOK
  PROVE  Served = low..Max({head[e] : e \in Endpoints})
  <1> DEFINE top == Max({head[e] : e \in Endpoints})
  <1>1. \E e \in Endpoints : top = head[e]
    BY HeadExtrema
  <1>2. \A e \in Endpoints : head[e] <= top
    BY HeadExtrema
  <1>3. \A e \in Endpoints : head[e] \in Heights
    BY DEF TypeOK
  <1> HIDE DEF top
  <1>4. low \in Heights /\ top \in Heights
    BY <1>1, <1>3 DEF TypeOK
  <1>5. Served = low..top
    BY <1>1, <1>2, <1>3, <1>4, ConstantTypes DEF Served, Heights
  <1> QED
    BY <1>5 DEF top

\* The invariant and the properties.
LEMMA InvariantImplies ==
  IInv => SamplesAreExact /\ CurrentSetWasSeated
  <1> SUFFICES ASSUME IInv, pc \in {"status", "commit", "set"}
               PROVE  LET served == low..Max({head[e] : e \in Endpoints})
                      IN  /\ currentSet \subseteq UNION {Seated(h) : h \in served}
                          /\ (\A h \in served : seats[h] = seats[low])
                               => currentSet = Seated(low)
    BY DEF IInv, CurrentSetWasSeated
  <1>1. Served = low..Max({head[e] : e \in Endpoints})
    BY ServedRange DEF IInv
  <1>2. currentSet \subseteq Ever /\ (Steady => currentSet = Seated(low))
    BY DEF IInv, CurrentReads
  <1> QED
    BY <1>1, <1>2 DEF Ever, Steady

-----------------------------------------------------------------------------
(* The steps. *)

LEMMA InitEstablishes == Init => IInv
  <1> SUFFICES ASSUME Init PROVE IInv
    OBVIOUS
  <1>1. 1 \in Heights /\ 2 \in Heights /\ Heights \subseteq Nat
    BY ConstantTypes DEF Heights
  <1>2. TypeOK
    <2>1. head \in [Endpoints -> Heights]
      BY <1>1, ConstantTypes DEF Init, Heights
    <2>2. 1 \in 1..(ValidatorCount \div perPage + 2)
      BY ConstantTypes
    <2> QED
      BY <1>1, <2>1, <2>2, ConstantTypes DEF Init, TypeOK
  <1>3. Sampling /\ SamplesAreExact /\ CurrentReads
    BY DEF Init, Sampling, SamplesAreExact, CurrentReads
  <1> QED
    BY <1>2, <1>3 DEF IInv

\* What a scan's end leaves behind.
LEMMA ResetKeeps ==
  ASSUME IInv, Reset
  PROVE  IInv'
  <1>1. TypeOK'
    <2>1. 1 \in 1..(ValidatorCount \div perPage + 2)
      BY ConstantTypes
    <2> QED
      BY <2>1, ConstantTypes DEF IInv, Reset, TypeOK, chainVars
  <1>2. (Sampling /\ SamplesAreExact /\ CurrentReads)'
    BY DEF Reset, Sampling, SamplesAreExact, CurrentReads
  <1> QED
    BY <1>1, <1>2 DEF IInv

\* Heights are only added to those served.
LEMMA AdvanceKeeps ==
  ASSUME IInv, NEW e \in Endpoints, Advance(e)
  PROVE  IInv'
  <1>1. /\ \A f \in Endpoints : head[f] \in Heights /\ head'[f] \in Heights
        /\ \A f \in Endpoints : head[f] <= head'[f]
        /\ head' \in [Endpoints -> Heights]
    BY ConstantTypes DEF IInv, TypeOK, Advance, Heights
  <1>2. TypeOK'
    BY <1>1 DEF IInv, TypeOK, Advance
  <1>3. (Sampling /\ SamplesAreExact)'
    BY DEF IInv, Advance, Sampling, SamplesAreExact, SampleHeight, Seated
  <1>4. low \in Nat /\ Heights \subseteq Nat
    BY DEF IInv, TypeOK, Heights
  <1>5. Served \subseteq Served'
    <2> SUFFICES ASSUME NEW h \in Served PROVE h \in Served'
      OBVIOUS
    <2>1. PICK f \in Endpoints : h <= head[f]
      BY DEF Served
    <2>2. h \in Heights /\ low <= h
      BY DEF Served
    <2>3. h <= head'[f]
      <3>1. h \in Nat /\ head[f] \in Nat /\ head'[f] \in Nat /\ head[f] <= head'[f]
        BY <1>1, <1>4, <2>2
      <3> QED
        BY <2>1, <3>1
    <2>4. low' = low
      BY DEF Advance
    <2> QED
      BY <2>2, <2>3, <2>4 DEF Served
  <1>6. Ever \subseteq Ever' /\ (Steady' => Steady)
    BY <1>5 DEF Advance, Ever, Steady, Seated
  <1>7. CurrentReads'
    <2>1. UNCHANGED <<seats, low, pc, page, set, currentSet>>
      BY DEF Advance
    <2>2. Seated(low)' = Seated(low)
      BY <2>1 DEF Seated
    <2>3. ASSUME pc \in {"current", "status", "commit", "set"}, NEW f \in Endpoints
          PROVE  low <= head'[f]
      <3>1. low <= head[f]
        BY <2>3 DEF IInv, CurrentReads
      <3>2. low \in Nat /\ head[f] \in Nat /\ head'[f] \in Nat /\ head[f] <= head'[f]
        BY <1>1, <1>4
      <3> QED
        BY <3>1, <3>2
    <2>4. pc = "current" =>
            /\ set \subseteq Ever'
            /\ Steady' => set = First(seats[low], (page - 1) * perPage)
      BY <1>6 DEF IInv, CurrentReads
    <2>5. pc \in {"status", "commit", "set"} =>
            currentSet \subseteq Ever' /\ (Steady' => currentSet = Seated(low))
      BY <1>6 DEF IInv, CurrentReads
    <2> QED
      BY <2>1, <2>2, <2>3, <2>4, <2>5 DEF CurrentReads, First
  <1> QED
    BY <1>2, <1>3, <1>7 DEF IInv

LEMMA BeginKeeps ==
  ASSUME IInv, Begin
  PROVE  IInv'
  <1>1. low' \in Heights /\ \A e \in Endpoints : low' <= head[e]
    BY HeadExtrema DEF IInv, Begin
  <1>2. TypeOK'
    BY <1>1 DEF IInv, TypeOK, Begin
  <1>3. (Sampling /\ SamplesAreExact)'
    BY DEF IInv, Begin, Sampling, SamplesAreExact
  <1>4. CurrentReads'
    <2>1. page = 1 /\ set = {}
      BY DEF IInv, Begin, Sampling
    <2>2. seats'[low'] \in Rankings
      BY <1>1 DEF IInv, TypeOK, Begin
    <2>3. First(seats'[low'], 0) = {}
      BY <2>2, RankingShape DEF First
    <2>4. (page' - 1) * perPage = 0
      BY <2>1, ConstantTypes DEF Begin
    <2> QED
      BY <1>1, <2>1, <2>3, <2>4 DEF Begin, CurrentReads
  <1> QED
    BY <1>2, <1>3, <1>4 DEF IInv

LEMMA StatusKeeps ==
  ASSUME IInv, NEW e \in Endpoints, Status(e)
  PROVE  IInv'
  <1>1. head[e] \in Heights /\ Heights \subseteq Nat /\ Heights \subseteq 0..MaxHeight
    BY ConstantTypes DEF IInv, TypeOK, Heights
  <1>2. TypeOK'
    BY <1>1 DEF IInv, TypeOK, Status, chainVars
  <1>3. commits = <<>>
    BY DEF IInv, Sampling, Status
  <1>4. (Sampling /\ SamplesAreExact)'
    BY <1>1, <1>3, ConstantTypes DEF IInv, Status, Sampling, SamplesAreExact
  <1>5. CurrentReads'
    BY DEF IInv, CurrentReads, Status, chainVars, Ever, Served, Steady, Seated
  <1> QED
    BY <1>2, <1>4, <1>5 DEF IInv

\* A sample is of a block the chain has.
LEMMA SampleHeightValid ==
  ASSUME IInv, pc \in {"commit", "set"}
  PROVE  SampleHeight \in Heights /\ SampleHeight # 0 /\ Len(commits) \in Nat
  <1>1. commits \in Seq(Samples)
    BY DEF IInv, Sampling
  <1>2. Len(commits) \in Nat
    BY <1>1, LenProperties
  <1>3. /\ height \in 0..MaxHeight /\ managedRecentCommitCount <= height
        /\ Len(commits) < managedRecentCommitCount
    BY DEF IInv, TypeOK, Sampling
  <1> QED
    BY <1>2, <1>3, ConstantTypes DEF SampleHeight, Heights

LEMMA CommitKeeps ==
  ASSUME IInv, NEW e \in Endpoints, Commit(e)
  PROVE  IInv'
  <1>1. SampleHeight \in Heights /\ SampleHeight # 0 /\ signedAt' = SampleHeight
    BY SampleHeightValid DEF Commit, Accepted
  <1>2. TypeOK'
    BY <1>1 DEF IInv, TypeOK, Commit, chainVars, Heights
  <1>3. Sampling'
    <2>1. page = 1 /\ set = {}
      BY DEF IInv, Sampling, Commit
    <2>2. SampleHeight' = SampleHeight
      BY DEF Commit, SampleHeight
    <2>3. seats[SampleHeight] \in Rankings
      BY <1>1 DEF IInv, TypeOK
    <2>4. First(seats[SampleHeight], 0) = {}
      BY <2>3, RankingShape DEF First
    <2>5. (page - 1) * perPage = 0
      BY <2>1, ConstantTypes
    <2> QED
      BY <1>1, <2>1, <2>2, <2>4, <2>5 DEF IInv, Commit, chainVars, Sampling
  <1>4. SamplesAreExact'
    BY DEF IInv, Commit, chainVars, SamplesAreExact, Seated
  <1>5. CurrentReads'
    BY DEF IInv, CurrentReads, Commit, chainVars, Ever, Served, Steady, Seated
  <1> QED
    BY <1>2, <1>3, <1>4, <1>5 DEF IInv

LEMMA CurrentPageKeeps ==
  ASSUME IInv, NEW e \in Endpoints, CurrentPage(e)
  PROVE  IInv'
  <1> DEFINE h == head[e]
             members == set \cup PageAt(h)
  <1>1. /\ pc = "current"
        /\ UNCHANGED <<seats, head, low, height, signedAt, commits>>
        /\ IF LastPage(h, members)
             THEN currentSet' = members /\ pc' = "status" /\ page' = 1 /\ set' = {}
             ELSE page' = page + 1 /\ set' = members /\ UNCHANGED <<pc, currentSet>>
    BY DEF CurrentPage, ReadPage, AnswersFor, chainVars
  <1>2. h \in Heights /\ low \in Heights /\ TypeOK
    BY DEF IInv, TypeOK
  <1>3. /\ set \subseteq Validators
        /\ set \subseteq Ever
        /\ Steady => set = First(seats[low], (page - 1) * perPage)
        /\ \A f \in Endpoints : low <= head[f]
    BY <1>1 DEF IInv, TypeOK, CurrentReads
  <1>4. /\ PageAt(h) \subseteq Seated(h)
        /\ Seated(h) \subseteq Validators
        /\ First(seats[h], (page - 1) * perPage) \cup PageAt(h)
             = First(seats[h], page * perPage)
        /\ page * perPage \in Nat
        /\ PageAt(h) = {} => page * perPage >= Len(seats[h])
        /\ PageAt(h) # {} => page + 1 \in 1..(ValidatorCount \div perPage + 2)
    BY <1>2, NextPage
  <1>5. h \in Served /\ low \in Served
    BY <1>2, <1>3 DEF Served, Heights
  <1>6. members \subseteq Validators /\ members \subseteq Ever
    BY <1>3, <1>4, <1>5 DEF Ever
  <1>7. Steady => members = First(seats[low], page * perPage)
    BY <1>3, <1>4, <1>5 DEF Steady
  <1>8. LastPage(h, members) /\ Steady => members = Seated(low)
    <2> SUFFICES ASSUME LastPage(h, members), Steady PROVE members = Seated(low)
      OBVIOUS
    <2>1. seats[h] = seats[low] /\ seats[low] \in Rankings
      BY <1>2, <1>5 DEF Steady, TypeOK
    <2>2. members = First(seats[low], page * perPage)
      BY <1>7
    <2>3. Cardinality(members) >= Len(seats[low]) \/ page * perPage >= Len(seats[low])
      BY <2>1, <1>4 DEF LastPage
    <2> HIDE DEF members
    <2> QED
      BY <1>4, <2>1, <2>2, <2>3, WholeSet DEF Seated
  <1>9. ~LastPage(h, members) => page + 1 \in 1..(ValidatorCount \div perPage + 2)
    BY <1>4 DEF LastPage
  <1>10. page \in Nat
    BY <1>2, ConstantTypes DEF TypeOK
  <1> HIDE DEF members, h
  <1>11. TypeOK'
    <2>1. 1 \in 1..(ValidatorCount \div perPage + 2)
      BY ConstantTypes
    <2> QED
      BY <1>1, <1>2, <1>6, <1>9, <2>1 DEF TypeOK
  <1>12. (Sampling /\ SamplesAreExact)'
    BY <1>1 DEF IInv, Sampling, SamplesAreExact
  <1>13. Ever' = Ever /\ Steady' = Steady /\ Seated(low)' = Seated(low)
    BY <1>1 DEF Ever, Steady, Served, Seated
  <1>14. CurrentReads'
    <2>1. page' = page + 1 => (page' - 1) * perPage = page * perPage
      BY <1>10
    <2> QED
      BY <1>1, <1>3, <1>6, <1>7, <1>8, <1>13, <2>1 DEF CurrentReads
  <1> QED
    BY <1>11, <1>12, <1>14 DEF IInv

LEMMA SetPageKeeps ==
  ASSUME IInv, NEW e \in Endpoints, SetPage(e)
  PROVE  IInv'
  <1> DEFINE h == SampleHeight
             members == set \cup PageAt(h)
             sample == [signers |-> signedAt, eligible |-> members]
  <1>1. pc = "set" /\ UNCHANGED <<seats, head, low, height, signedAt, currentSet>>
    BY DEF SetPage, ReadPage, chainVars
  <1>2. h \in Heights /\ h # 0 /\ TypeOK /\ Len(commits) \in Nat
    BY <1>1, SampleHeightValid DEF IInv
  <1>3. IF LastPage(h, members)
          THEN /\ commits' = Append(commits, sample)
               /\ pc' = IF Len(commits) + 1 = managedRecentCommitCount THEN "done"
                        ELSE "commit"
               /\ page' = 1 /\ set' = {}
          ELSE page' = page + 1 /\ set' = members /\ UNCHANGED <<pc, commits>>
    BY <1>2 DEF SetPage, ReadPage, Accepted
  <1>4. /\ signedAt = h /\ set = First(seats[h], (page - 1) * perPage)
        /\ set \subseteq Validators
        /\ commits \in Seq(Samples)
        /\ managedRecentCommitCount <= height
        /\ Len(commits) < managedRecentCommitCount
    BY <1>1 DEF IInv, TypeOK, Sampling
  <1>5. /\ Seated(h) \subseteq Validators
        /\ PageAt(h) \subseteq Seated(h)
        /\ members = First(seats[h], page * perPage)
        /\ page * perPage \in Nat
        /\ PageAt(h) = {} => page * perPage >= Len(seats[h])
        /\ PageAt(h) # {} => page + 1 \in 1..(ValidatorCount \div perPage + 2)
    BY <1>2, <1>4, NextPage
  <1>6. LastPage(h, members) => members = Seated(h)
    <2> SUFFICES ASSUME LastPage(h, members) PROVE members = Seated(h)
      OBVIOUS
    <2>1. seats[h] \in Rankings
      BY <1>2 DEF TypeOK
    <2>2. Cardinality(members) >= Len(seats[h]) \/ page * perPage >= Len(seats[h])
      BY <1>5 DEF LastPage
    <2> HIDE DEF members
    <2> QED
      BY <1>5, <2>1, <2>2, WholeSet DEF Seated
  <1>7. ~LastPage(h, members) => page + 1 \in 1..(ValidatorCount \div perPage + 2)
    BY <1>5 DEF LastPage
  <1>8. members \subseteq Validators /\ sample \in Samples /\ page \in Nat
    BY <1>2, <1>4, <1>5, ConstantTypes DEF Samples, TypeOK
  <1>9. sample.signers = h /\ sample.eligible = members
    BY <1>4
  <1> HIDE DEF members, sample
  <1>10. CurrentReads'
    <2>1. Ever' = Ever /\ Steady' = Steady /\ Seated(low)' = Seated(low)
      BY <1>1 DEF Ever, Steady, Served, Seated
    <2>2. pc' \in {"set", "commit", "done"}
      BY <1>1, <1>3
    <2> QED
      BY <1>1, <2>1, <2>2 DEF IInv, CurrentReads
  <1>11. CASE ~LastPage(h, members)
    <2>1. page' = page + 1 /\ set' = members /\ UNCHANGED <<pc, commits>>
      BY <1>3, <1>11
    <2>2. TypeOK'
      BY <1>1, <1>2, <1>7, <1>8, <1>11, <2>1 DEF TypeOK
    <2>3. SampleHeight' = h
      BY <1>1, <2>1 DEF SampleHeight
    <2>4. (page' - 1) * perPage = page * perPage
      BY <1>8, <2>1
    <2>5. Sampling'
      <3> HIDE DEF h
      <3> QED
        BY <1>1, <1>4, <1>5, <2>1, <2>3, <2>4 DEF IInv, Sampling
    <2>6. SamplesAreExact'
      BY <1>1, <2>1 DEF IInv, SamplesAreExact, Seated
    <2> QED
      BY <1>10, <2>2, <2>5, <2>6 DEF IInv
  <1>12. CASE LastPage(h, members)
    <2>1. /\ commits' = Append(commits, sample)
          /\ pc' = IF Len(commits) + 1 = managedRecentCommitCount THEN "done"
                   ELSE "commit"
          /\ page' = 1 /\ set' = {}
      BY <1>3, <1>12
    <2>2. /\ commits' \in Seq(Samples)
          /\ Len(commits') = Len(commits) + 1
          /\ DOMAIN commits' = 1..(Len(commits) + 1)
          /\ commits'[Len(commits) + 1] = sample
          /\ \A i \in 1..Len(commits) : commits'[i] = commits[i]
      BY <1>4, <1>8, <2>1
    <2>3. TypeOK'
      <3>1. 1 \in 1..(ValidatorCount \div perPage + 2)
        BY ConstantTypes
      <3>2. \A i \in DOMAIN commits' : commits'[i] \in Samples
        BY <2>2
      <3>3. Len(commits') <= managedRecentCommitCount
        BY <1>2, <1>4, <2>2, ConstantTypes
      <3> QED
        BY <1>1, <1>2, <2>1, <3>1, <3>2, <3>3 DEF TypeOK, Samples
    <2>4. Sampling'
      <3>1. pc' = "commit" => Len(commits') < managedRecentCommitCount
        BY <1>2, <1>4, <2>1, <2>2, ConstantTypes
      <3> QED
        BY <1>1, <1>4, <2>1, <2>2, <3>1 DEF Sampling
    <2>5. SamplesAreExact'
      <3>1. \A i \in 1..Len(commits) :
              /\ commits[i].signers = height - i + 1
              /\ commits[i].eligible = Seated(height - i + 1)
        BY <1>4 DEF IInv, SamplesAreExact
      <3>2. h = height - (Len(commits) + 1) + 1
        BY <1>2, ConstantTypes DEF SampleHeight, TypeOK
      <3>3. sample.signers = h /\ sample.eligible = Seated(h)
        BY <1>6, <1>9, <1>12
      <3>4. \A i \in 1..(Len(commits) + 1) :
              /\ commits'[i].signers = height - i + 1
              /\ commits'[i].eligible = Seated(height - i + 1)
        <4> SUFFICES ASSUME NEW i \in 1..(Len(commits) + 1)
                     PROVE  /\ commits'[i].signers = height - i + 1
                            /\ commits'[i].eligible = Seated(height - i + 1)
          OBVIOUS
        <4>1. CASE i \in 1..Len(commits)
          BY <2>2, <3>1, <4>1
        <4>2. CASE i = Len(commits) + 1
          BY <2>2, <3>2, <3>3, <4>2
        <4> QED
          BY <1>2, <4>1, <4>2
      <3> QED
        BY <1>1, <2>2, <3>4 DEF SamplesAreExact, Seated
    <2> QED
      BY <1>10, <2>3, <2>4, <2>5 DEF IInv
  <1> QED
    BY <1>11, <1>12

-----------------------------------------------------------------------------
(* The theorems. *)

(* The invariant of the samples and of the reads holds (collect,             *)
(* queryRecentCommits).                                                      *)
THEOREM Invariance == Spec => []IInv
  <1>1. Init => IInv
    BY InitEstablishes
  <1>2. IInv /\ [Next]_vars => IInv'
    <2> SUFFICES ASSUME IInv, [Next]_vars PROVE IInv'
      OBVIOUS
    <2>1. CASE UNCHANGED vars
      BY <2>1 DEF IInv, vars, chainVars, TypeOK, Sampling, SamplesAreExact, CurrentReads,
                  SampleHeight, Ever, Steady, Served, Seated
    <2>2. CASE Begin
      BY <2>2, BeginKeeps
    <2>3. CASE Return \/ QueryFails
      BY <2>3, ResetKeeps DEF Return, QueryFails
    <2>4. ASSUME NEW e \in Endpoints,
                 Advance(e) \/ CurrentPage(e) \/ Status(e) \/ Commit(e) \/ SetPage(e)
          PROVE  IInv'
      BY <2>4, AdvanceKeeps, CurrentPageKeeps, StatusKeeps, CommitKeeps, SetPageKeeps
    <2> QED
      BY <2>1, <2>2, <2>3, <2>4 DEF Next, Scan
  <1> QED
    BY <1>1, <1>2, PTL DEF Spec

(* For any endpoints, sets and page size, a read of a set asks for one page  *)
(* at most beyond the last that any set can have                             *)
(* (QueryConsensusSetAtHeight, collector/queries.go).                        *)
THEOREM ReadsEnd == Spec => []TypeOK
  <1>1. IInv => TypeOK
    BY DEF IInv
  <1> QED
    BY <1>1, Invariance, PTL

(* For any endpoints, sets, page size and number of samples, every sample    *)
(* has the signers and the whole eligible set of one and the same block,     *)
(* consecutive blocks from the height reported (queryRecentCommits,          *)
(* collector/managed_delegation.go).                                         *)
THEOREM SamplesStayExact == Spec => []SamplesAreExact
  <1> QED
    BY InvariantImplies, Invariance, PTL

(* The current set names only validators that sat at a height served while   *)
(* it was read, and is exact over a set that kept still (collect,            *)
(* collector/managed_delegation.go).                                         *)
THEOREM CurrentSetSat == Spec => []CurrentSetWasSeated
  <1> QED
    BY InvariantImplies, Invariance, PTL
=============================================================================
