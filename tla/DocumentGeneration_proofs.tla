---------------------- MODULE DocumentGeneration_proofs ----------------------
(***************************************************************************)
(* Proofs about DocumentGeneration, for every set of requests: which       *)
(* payload a document can be made from, though the validator does not look *)
(* at the type of a request together with its payload; and that the        *)
(* sections of a Description of Work agree, for packages with any number   *)
(* of instances and of option periods.                                     *)
(*                                                                         *)
(* The sections are made by loops over arrays, by sorting, filtering and   *)
(* flattening them.  What a loop does is shown turn by turn (FoldLaws),    *)
(* and by an induction for which the numbers that have a property are      *)
(* given as a set: if it were not all of them, there were a least number   *)
(* outside of it.                                                          *)
(***************************************************************************)
EXTENDS DocumentGeneration, FiniteSetTheorems, TLAPS

-----------------------------------------------------------------------------
(***************************************************************************)
(* What the fields of a payload tell of its type.                          *)
(***************************************************************************)
\* The schema of each document type.
LEMMA SchemasOfTypes ==
  /\ SchemaOf("DESCRIPTION_OF_WORK_PDF") = DescriptionOfWork
  /\ SchemaOf("DESCRIPTION_OF_WORK_DOCX") = DescriptionOfWork
  /\ SchemaOf("INDEPENDENT_GOVERNMENT_COST_ESTIMATE") = IndependentGovernmentCostEstimate
  /\ SchemaOf("INCREMENTAL_FUNDING_PLAN") = IncrementalFundingPlan
  /\ SchemaOf("EVALUATION_PLAN") = EvalPlan
  /\ SchemaOf("EVALUATION_MEMO") = EvalMemo
  /\ SchemaOf("REQUIREMENTS_CHECKLIST") = RequirementsCheckList
  /\ SchemaOf("JUSTIFICATION_AND_APPROVAL") = JustificationAndApproval
  /\ SchemaOf("MARKET_RESEARCH_REPORT") = MarketResearchReport
BY DEF SchemaOf

\* The fields of the schemas.
LEMMA SchemasAreThese ==
  ASSUME NEW type \in DocumentTypes
  PROVE  SchemaOf(type) \in {DescriptionOfWork, IndependentGovernmentCostEstimate,
                             IncrementalFundingPlan, EvalPlan, EvalMemo, RequirementsCheckList,
                             JustificationAndApproval, MarketResearchReport}
BY SchemasOfTypes DEF DocumentTypes

\* A field of one schema only, which every document of the type needs, tells the
\* schema of a payload that has it.
LEMMA TellingFields ==
  ASSUME NEW type \in DocumentTypes
  PROVE  /\ "toTitle" \in SchemaOf(type) => SchemaOf(type) = DescriptionOfWork
         /\ "periodsEstimate" \in SchemaOf(type) => SchemaOf(type) = IndependentGovernmentCostEstimate
         /\ "requirementsTitle" \in SchemaOf(type) => SchemaOf(type) = IncrementalFundingPlan
         /\ "taskOrderTitle" \in SchemaOf(type) => SchemaOf(type) \in {EvalPlan, EvalMemo}
         /\ {"title", "exceptionToFairOpportunity"} \subseteq SchemaOf(type) => SchemaOf(type) = EvalMemo
         /\ "gtcNumber" \in SchemaOf(type) => SchemaOf(type) = RequirementsCheckList
         /\ "jwccContractNumber" \in SchemaOf(type) => SchemaOf(type) = JustificationAndApproval
         /\ "techniquesUsed" \in SchemaOf(type) => SchemaOf(type) = MarketResearchReport
<1> DEFINE s == SchemaOf(type)
<1>1. s \in {DescriptionOfWork, IndependentGovernmentCostEstimate, IncrementalFundingPlan, EvalPlan,
             EvalMemo, RequirementsCheckList, JustificationAndApproval, MarketResearchReport}
  BY SchemasAreThese
<1> HIDE DEF s
<1>2. CASE s = DescriptionOfWork
  BY <1>2 DEF DescriptionOfWork, s
<1>3. CASE s = IndependentGovernmentCostEstimate
  BY <1>3 DEF IndependentGovernmentCostEstimate, s
<1>4. CASE s = IncrementalFundingPlan
  BY <1>4 DEF IncrementalFundingPlan, s
<1>5. CASE s = EvalPlan
  BY <1>5 DEF EvalPlan, s
<1>6. CASE s = EvalMemo
  BY <1>6 DEF EvalMemo, EvalPlan, s
<1>7. CASE s = RequirementsCheckList
  BY <1>7 DEF RequirementsCheckList, s
<1>8. CASE s = JustificationAndApproval
  BY <1>8 DEF JustificationAndApproval, s
<1>9. CASE s = MarketResearchReport
  BY <1>9 DEF MarketResearchReport, s
<1> QED
  BY <1>1, <1>2, <1>3, <1>4, <1>5, <1>6, <1>7, <1>8, <1>9

\* The fields that the templates read unconditionally.
LEMMA NeedsOfTypes ==
  /\ "toTitle" \in Needs("DESCRIPTION_OF_WORK_DOCX")
  /\ "periodsEstimate" \in Needs("INDEPENDENT_GOVERNMENT_COST_ESTIMATE")
  /\ "requirementsTitle" \in Needs("INCREMENTAL_FUNDING_PLAN")
  /\ "taskOrderTitle" \in Needs("EVALUATION_PLAN")
  /\ {"title", "exceptionToFairOpportunity"} \subseteq Needs("EVALUATION_MEMO")
  /\ "gtcNumber" \in Needs("REQUIREMENTS_CHECKLIST")
  /\ "jwccContractNumber" \in Needs("JUSTIFICATION_AND_APPROVAL")
  /\ "techniquesUsed" \in Needs("MARKET_RESEARCH_REPORT")
BY DEF Needs, DescriptionOfWork, IncrementalFundingPlan, RequirementsCheckList,
       JustificationAndApproval, MarketResearchReport

\* Whatever schema let a payload through: if it has what a type's document needs,
\* it fits the schema of the type, or the memo's if the document is a plan.
LEMMA NeedsTellTheSchema ==
  ASSUME NEW type, IsFilled(type), NEW fields, Needs(type) \subseteq fields,
         NEW fitted \in DocumentTypes, fields \subseteq SchemaOf(fitted)
  PROVE  \/ fields \subseteq SchemaOf(type)
         \/ type = "EVALUATION_PLAN" /\ fields \subseteq EvalMemo
<1>1. CASE type = "DESCRIPTION_OF_WORK_DOCX"
  BY <1>1, NeedsOfTypes, TellingFields, SchemasOfTypes
<1>2. CASE type = "INDEPENDENT_GOVERNMENT_COST_ESTIMATE"
  BY <1>2, NeedsOfTypes, TellingFields, SchemasOfTypes
<1>3. CASE type = "INCREMENTAL_FUNDING_PLAN"
  BY <1>3, NeedsOfTypes, TellingFields, SchemasOfTypes
<1>4. CASE type = "EVALUATION_PLAN"
  BY <1>4, NeedsOfTypes, TellingFields, SchemasOfTypes
<1>5. CASE type = "EVALUATION_MEMO"
  BY <1>5, NeedsOfTypes, TellingFields, SchemasOfTypes
<1>6. CASE type = "REQUIREMENTS_CHECKLIST"
  BY <1>6, NeedsOfTypes, TellingFields, SchemasOfTypes
<1>7. CASE type = "JUSTIFICATION_AND_APPROVAL"
  BY <1>7, NeedsOfTypes, TellingFields, SchemasOfTypes
<1>8. CASE type = "MARKET_RESEARCH_REPORT"
  BY <1>8, NeedsOfTypes, TellingFields, SchemasOfTypes
<1> QED
  BY <1>1, <1>2, <1>3, <1>4, <1>5, <1>6, <1>7, <1>8 DEF IsFilled, DocumentTypes

\* No template reads a field that the schema of its type does not allow, and no
\* generator refuses a payload with all of them.
LEMMA SchemaHasEverything ==
  ASSUME NEW type, IsFilled(type)
  PROVE  /\ Needs(type) \subseteq SchemaOf(type)
         /\ MayNeed(type) \subseteq SchemaOf(type)
         /\ ~Refuses(type, SchemaOf(type))
         /\ type \in WorkbookTemplates \cup WordTemplates
<1>1. CASE type = "DESCRIPTION_OF_WORK_DOCX"
  BY <1>1, SchemasOfTypes DEF Needs, MayNeed, Refuses, WordTemplates, DescriptionOfWork
<1>2. CASE type = "INDEPENDENT_GOVERNMENT_COST_ESTIMATE"
  BY <1>2, SchemasOfTypes
     DEF Needs, MayNeed, Refuses, WorkbookTemplates, IndependentGovernmentCostEstimate
<1>3. CASE type = "INCREMENTAL_FUNDING_PLAN"
  BY <1>3, SchemasOfTypes DEF Needs, MayNeed, Refuses, WordTemplates, IncrementalFundingPlan
<1>4. CASE type = "EVALUATION_PLAN"
  BY <1>4, SchemasOfTypes DEF Needs, MayNeed, Refuses, WordTemplates, EvalPlan
<1>5. CASE type = "EVALUATION_MEMO"
  BY <1>5, SchemasOfTypes DEF Needs, MayNeed, Refuses, WordTemplates, EvalMemo
<1>6. CASE type = "REQUIREMENTS_CHECKLIST"
  BY <1>6, SchemasOfTypes DEF Needs, MayNeed, Refuses, WordTemplates, RequirementsCheckList
<1>7. CASE type = "JUSTIFICATION_AND_APPROVAL"
  BY <1>7, SchemasOfTypes DEF Needs, MayNeed, Refuses, WordTemplates, JustificationAndApproval
<1>8. CASE type = "MARKET_RESEARCH_REPORT"
  BY <1>8, SchemasOfTypes DEF Needs, MayNeed, Refuses, WordTemplates, MarketResearchReport
<1> QED
  BY <1>1, <1>2, <1>3, <1>4, <1>5, <1>6, <1>7, <1>8 DEF IsFilled, DocumentTypes

-----------------------------------------------------------------------------
(***************************************************************************)
(* Arrays: the numbers of their places, and the order that Filter picks    *)
(* in.                                                                     *)
(***************************************************************************)
Noting == INSTANCE FoldLaws WITH Op <- Note

\* A set of numbers that is not empty has a least one.
LEMMA Least ==
  ASSUME NEW S, S \subseteq Nat, S # {}
  PROVE  \E n \in S : \A m \in S : n <= m
BY Noting!Least

\* A property of 0 that passes from each number to the next one, given as the set of the
\* numbers that have it.
LEMMA Induction ==
  ASSUME NEW S, 0 \in S, \A n \in Nat : n \in S => n + 1 \in S
  PROVE  Nat \subseteq S
BY Noting!Induction

\* An array of the payload is a function on 1..Len.
LEMMA ArrayIs ==
  ASSUME NEW seq, IsArray(seq)
  PROVE  Len(seq) \in Nat /\ DOMAIN seq = 1..Len(seq) /\ seq = [i \in 1..Len(seq) |-> seq[i]]
BY DEF IsArray

\* The first n values of p increase.
Increasing(p, n) == \A i, j \in 1..n : i < j => p[i] < p[j]

\* A set of places has an increasing numbering.
LEMMA OrderExists ==
  ASSUME NEW n \in Nat, NEW S \in SUBSET (1..n)
  PROVE  /\ Cardinality(S) \in Nat /\ IsFiniteSet(S)
         /\ \E p \in Bijection(1..Cardinality(S), S) : Increasing(p, Cardinality(S))
<1> DEFINE E(T) == \E p \in Bijection(1..Cardinality(T), T) : Increasing(p, Cardinality(T))
           K == {k \in Nat : \A T \in SUBSET (1..k) : E(T)}
<1>0. ASSUME NEW k \in Nat, NEW T \in SUBSET (1..k)
      PROVE  IsFiniteSet(T) /\ Cardinality(T) \in Nat
  <2>1. IsFiniteSet(1..k)
    BY FS_Interval
  <2>2. IsFiniteSet(T)
    BY <2>1, FS_Subset
  <2> QED
    BY <2>2, FS_CardinalityType
<1>1. 0 \in K
  <2>1. ASSUME NEW T \in SUBSET (1..0) PROVE E(T)
    <3>1. T = {}
      OBVIOUS
    <3>2. Cardinality(T) = 0
      BY <3>1, FS_EmptySet
    <3> DEFINE p == [i \in 1..0 |-> 1]
    <3>3. p \in Bijection(1..0, T) /\ Increasing(p, 0)
      BY <3>1 DEF Bijection, Injection, Surjection, IsInjective, Increasing
    <3> QED
      BY <3>2, <3>3
  <2> HIDE DEF E
  <2> QED
    BY <2>1
<1>2. ASSUME NEW k \in Nat, k \in K PROVE k + 1 \in K
  <2>1. ASSUME NEW T \in SUBSET (1..k + 1) PROVE E(T)
    <3> DEFINE R == T \ {k + 1}
               m == Cardinality(R)
    <3>1. R \in SUBSET (1..k)
      OBVIOUS
    <3>2. PICK p \in Bijection(1..m, R) : Increasing(p, m)
      BY <1>2, <3>1
    <3>3. CASE k + 1 \notin T
      <4>1. T = R
        BY <3>3
      <4> QED
        BY <3>2, <4>1
    <3>4. CASE k + 1 \in T
      <4>1. T = R \cup {k + 1} /\ k + 1 \notin R
        BY <3>4
      <4>2. IsFiniteSet(R) /\ m \in Nat
        BY <1>0, <3>1
      <4>3. Cardinality(R \cup {k + 1}) = m + 1
        BY <4>1, <4>2, FS_AddElement
      <4> HIDE DEF R, m
      <4> DEFINE q == [i \in 1..m + 1 |-> IF i = m + 1 THEN k + 1 ELSE p[i]]
      <4>4. /\ p \in [1..m -> R]
            /\ \A i, j \in 1..m : p[i] = p[j] => i = j
            /\ \A t \in R : \E i \in 1..m : p[i] = t
        BY <3>2 DEF Bijection, Injection, Surjection, IsInjective
      <4>5. \A i \in 1..m : p[i] \in R /\ p[i] \in 1..k
        BY <3>1, <4>4
      <4>6. \A i \in 1..m : q[i] = p[i] /\ i # m + 1
        BY <4>2
      <4>7. q[m + 1] = k + 1
        BY <4>2
      <4>8. \A i \in 1..m + 1 : i \in 1..m \/ i = m + 1
        BY <4>2
      <4>9. q \in [1..m + 1 -> T]
        BY <4>1, <4>5, <4>8
      <4>10. DOMAIN q = 1..m + 1
        OBVIOUS
      <4> HIDE DEF q
      <4>11. \A i, j \in DOMAIN q : q[i] = q[j] => i = j
        BY <4>4, <4>5, <4>6, <4>7, <4>8, <4>10
      <4>12. \A t \in T : \E i \in 1..m + 1 : q[i] = t
        <5>1. ASSUME NEW t \in R PROVE \E i \in 1..m + 1 : q[i] = t
          <6>1. PICK i \in 1..m : p[i] = t
            BY <4>4
          <6>2. i \in 1..m + 1
            BY <4>2
          <6> QED
            BY <4>6, <6>1, <6>2
        <5>2. m + 1 \in 1..m + 1
          BY <4>2
        <5> QED
          BY <4>1, <4>7, <5>1, <5>2
      <4>13. q \in Bijection(1..m + 1, T)
        BY <4>9, <4>11, <4>12 DEF Bijection, Injection, Surjection, IsInjective
      <4>14. Increasing(q, m + 1)
        <5> SUFFICES ASSUME NEW i \in 1..m + 1, NEW j \in 1..m + 1, i < j PROVE q[i] < q[j]
          BY DEF Increasing
        <5>1. i \in 1..m
          BY <4>2
        <5>2. CASE j = m + 1
          BY <4>5, <4>6, <4>7, <5>1, <5>2
        <5>3. CASE j # m + 1
          <6>1. j \in 1..m
            BY <4>8, <5>3
          <6> QED
            BY <3>2, <4>6, <5>1, <6>1 DEF Increasing
        <5> QED
          BY <5>2, <5>3
      <4> QED
        BY <4>1, <4>3, <4>13, <4>14
    <3> QED
      BY <3>3, <3>4
  <2> HIDE DEF E
  <2> QED
    BY <2>1
<1> HIDE DEF K
<1>3. n \in K
  BY <1>1, <1>2, Induction
<1>4. E(S)
  BY <1>3 DEF K
<1> QED
  BY <1>0, <1>4

\* InOrder, by which Filter picks, is an increasing numbering of the places.
LEMMA InOrderIs ==
  ASSUME NEW n \in Nat, NEW S \in SUBSET (1..n)
  PROVE  /\ Cardinality(S) \in Nat
         /\ IsFiniteSet(S)
         /\ InOrder(S) \in [1..Cardinality(S) -> S]
         /\ \A t \in S : \E i \in 1..Cardinality(S) : InOrder(S)[i] = t
         /\ Increasing(InOrder(S), Cardinality(S))
<1> DEFINE P(p) == \A i, j \in 1..Cardinality(S) : i < j => p[i] < p[j]
<1>1. \E p \in Bijection(1..Cardinality(S), S) : P(p)
  BY OrderExists DEF Increasing
<1>2. InOrder(S) = CHOOSE p \in Bijection(1..Cardinality(S), S) : P(p)
  BY DEF InOrder
<1>3. InOrder(S) \in Bijection(1..Cardinality(S), S) /\ P(InOrder(S))
  BY <1>1, <1>2
<1> QED
  BY <1>3, OrderExists DEF Increasing, Bijection, Surjection

-----------------------------------------------------------------------------
(***************************************************************************)
(* Concatenation.                                                          *)
(***************************************************************************)
\* What the loop of FlattenSeq has after i parts.
Joined(seqs, f, i) == IF i = 1 THEN seqs[i] ELSE f[i - 1] \o seqs[i]

\* The function that FlattenSeq is defined by exists.
LEMMA FlattenExists ==
  ASSUME NEW seqs, NEW n \in Nat
  PROVE  \E f : f = [i \in 1..n |-> Joined(seqs, f, i)]
<1> DEFINE E(k) == \E f : f = [i \in 1..k |-> Joined(seqs, f, i)]
           K == {k \in Nat : E(k)}
<1>1. E(0)
  <2> DEFINE f == [i \in 1..0 |-> 0]
  <2>1. f = [i \in 1..0 |-> Joined(seqs, f, i)]
    OBVIOUS
  <2> QED
    BY <2>1
<1>2. ASSUME NEW k \in Nat, E(k) PROVE E(k + 1)
  <2>1. PICK f : f = [i \in 1..k |-> Joined(seqs, f, i)]
    BY <1>2
  <2> DEFINE g == [i \in 1..k + 1 |-> Joined(seqs, f, i)]
  <2>2. ASSUME NEW i \in 1..k PROVE g[i] = f[i]
    <3>1. i \in 1..k + 1
      OBVIOUS
    <3>2. g[i] = Joined(seqs, f, i)
      BY <3>1
    <3> QED
      BY <2>1, <3>2
  <2>3. ASSUME NEW i \in 1..k + 1 PROVE g[i] = Joined(seqs, g, i)
    <3>1. g[i] = Joined(seqs, f, i)
      OBVIOUS
    <3>2. CASE i = 1
      BY <3>1, <3>2 DEF Joined
    <3>3. CASE i # 1
      <4>1. i - 1 \in 1..k
        BY <3>3
      <4>2. g[i - 1] = f[i - 1]
        BY <2>2, <4>1
      <4> QED
        BY <3>1, <4>2 DEF Joined
    <3> QED
      BY <3>2, <3>3
  <2>4. g = [i \in 1..k + 1 |-> Joined(seqs, g, i)]
    BY <2>3
  <2> QED
    BY <2>4
<1> HIDE DEF E
<1>3. 0 \in K /\ \A k \in Nat : k \in K => k + 1 \in K
  BY <1>1, <1>2
<1> HIDE DEF K
<1>4. E(n)
  BY <1>3, Induction DEF K
<1> QED
  BY <1>4 DEF E

\* FlattenSeq is what its loop has after the last part.
LEMMA FlattenUnfolds ==
  ASSUME NEW seqs, Len(seqs) \in Nat, Len(seqs) # 0
  PROVE  \E f : /\ f = [i \in 1..Len(seqs) |-> Joined(seqs, f, i)]
                /\ FlattenSeq(seqs) = f[Len(seqs)]
<1> DEFINE f == CHOOSE f : f = [i \in 1..Len(seqs) |-> Joined(seqs, f, i)]
<1>1. f = [i \in 1..Len(seqs) |-> Joined(seqs, f, i)]
  BY FlattenExists
<1>2. FlattenSeq(seqs) = f[Len(seqs)]
  BY Zenon DEF FlattenSeq, Joined
<1> QED
  BY <1>1, <1>2

\* Of no parts, nothing.
LEMMA FlattenNothing == FlattenSeq(<<>>) = <<>>
BY DEF FlattenSeq

\* Of one part, that part.
LEMMA FlattenOne == ASSUME NEW s PROVE FlattenSeq(<<s>>) = s
<1>1. Len(<<s>>) = 1
  OBVIOUS
<1>2. PICK f : f = [i \in 1..1 |-> Joined(<<s>>, f, i)] /\ FlattenSeq(<<s>>) = f[1]
  BY <1>1, FlattenUnfolds
<1> QED
  BY <1>2 DEF Joined

\* One more part is put behind what there is.
LEMMA FlattenAppend ==
  ASSUME NEW T, NEW seqs \in Seq(T), NEW s \in T, seqs # <<>>
  PROVE  FlattenSeq(Append(seqs, s)) = FlattenSeq(seqs) \o s
<1> DEFINE n == Len(seqs)
           more == Append(seqs, s)
<1>1. n \in Nat /\ n # 0
  OBVIOUS
<1>2. Len(more) = n + 1 /\ (\A i \in 1..n : more[i] = seqs[i]) /\ more[n + 1] = s
  OBVIOUS
<1>3. PICK f : f = [i \in 1..n |-> Joined(seqs, f, i)] /\ FlattenSeq(seqs) = f[n]
  BY <1>1, FlattenUnfolds
<1> HIDE DEF more
<1>4. PICK g : g = [i \in 1..n + 1 |-> Joined(more, g, i)] /\ FlattenSeq(more) = g[n + 1]
  BY <1>1, <1>2, FlattenUnfolds
<1> HIDE DEF n
<1> DEFINE K == {k \in Nat : k \in 1..n => f[k] = g[k]}
<1>5. 0 \in K
  OBVIOUS
<1>6. ASSUME NEW k \in Nat, k \in K PROVE k + 1 \in K
  <2> SUFFICES ASSUME k + 1 \in 1..n PROVE f[k + 1] = g[k + 1]
    OBVIOUS
  <2>1. f[k + 1] = Joined(seqs, f, k + 1)
    BY <1>3
  <2>2. k + 1 \in 1..n + 1
    BY <1>1
  <2>3. g[k + 1] = Joined(more, g, k + 1)
    BY <1>4, <2>2
  <2>4. more[k + 1] = seqs[k + 1]
    BY <1>2
  <2>5. CASE k = 0
    BY <2>1, <2>3, <2>4, <2>5 DEF Joined
  <2>6. CASE k # 0
    <3>1. k \in 1..n /\ (k + 1) - 1 = k /\ k + 1 # 1
      BY <1>1, <2>6
    <3>2. f[k] = g[k]
      BY <1>6, <3>1
    <3> QED
      BY <2>1, <2>3, <2>4, <3>1, <3>2 DEF Joined
  <2> QED
    BY <2>5, <2>6
<1> HIDE DEF K
<1>7. n \in K
  BY <1>1, <1>5, <1>6, Induction
<1>8. f[n] = g[n]
  <2>1. n \in 1..n
    BY <1>1
  <2> QED
    BY <1>7, <2>1 DEF K
<1>9. g[n + 1] = g[n] \o s
  <2>1. n + 1 \in 1..n + 1 /\ (n + 1) - 1 = n /\ n + 1 # 1
    BY <1>1
  <2>2. g[n + 1] = Joined(more, g, n + 1)
    BY <1>4, <2>1
  <2> QED
    BY <1>2, <2>1, <2>2 DEF Joined
<1> QED
  BY <1>3, <1>4, <1>8, <1>9 DEF more

\* The members of a concatenation are those of its parts.
LEMMA ToSetOfConcatenation ==
  ASSUME NEW T, NEW a \in Seq(T), NEW b \in Seq(T)
  PROVE  ToSet(a \o b) = ToSet(a) \cup ToSet(b)
<1>1. /\ DOMAIN a = 1..Len(a) /\ DOMAIN b = 1..Len(b) /\ Len(a) \in Nat /\ Len(b) \in Nat
      /\ DOMAIN (a \o b) = 1..Len(a) + Len(b)
      /\ \A i \in 1..Len(a) + Len(b) : (a \o b)[i] = IF i <= Len(a) THEN a[i] ELSE b[i - Len(a)]
  OBVIOUS
<1>2. ASSUME NEW x \in ToSet(a \o b) PROVE x \in ToSet(a) \cup ToSet(b)
  <2>1. PICK i \in 1..Len(a) + Len(b) : x = (a \o b)[i]
    BY <1>1 DEF ToSet
  <2>2. CASE i <= Len(a)
    BY <1>1, <2>1, <2>2 DEF ToSet
  <2>3. CASE i > Len(a)
    <3>1. i - Len(a) \in 1..Len(b) /\ x = b[i - Len(a)]
      BY <1>1, <2>1, <2>3
    <3> QED
      BY <1>1, <3>1 DEF ToSet
  <2> QED
    BY <1>1, <2>1, <2>2, <2>3
<1>3. ASSUME NEW x \in ToSet(a) PROVE x \in ToSet(a \o b)
  <2>1. PICK i \in 1..Len(a) : x = a[i]
    BY <1>1 DEF ToSet
  <2>2. i \in 1..Len(a) + Len(b) /\ (a \o b)[i] = x
    BY <1>1, <2>1
  <2> QED
    BY <1>1, <2>2 DEF ToSet
<1>4. ASSUME NEW x \in ToSet(b) PROVE x \in ToSet(a \o b)
  <2>1. PICK i \in 1..Len(b) : x = b[i]
    BY <1>1 DEF ToSet
  <2>2. i + Len(a) \in 1..Len(a) + Len(b) /\ (a \o b)[i + Len(a)] = x
    BY <1>1, <2>1
  <2> QED
    BY <1>1, <2>2 DEF ToSet
<1> QED
  BY <1>2, <1>3, <1>4

\* A flattened sequence of sequences of T: its members are those of its parts.
LEMMA FlattenIs ==
  ASSUME NEW T, NEW seqs \in Seq(Seq(T))
  PROVE  /\ FlattenSeq(seqs) \in Seq(T)
         /\ ToSet(FlattenSeq(seqs)) = UNION {ToSet(seqs[i]) : i \in DOMAIN seqs}
<1> DEFINE E(qs) == /\ FlattenSeq(qs) \in Seq(T)
                    /\ ToSet(FlattenSeq(qs)) = UNION {ToSet(qs[i]) : i \in 1..Len(qs)}
           K == {k \in Nat : \A qs \in Seq(Seq(T)) : Len(qs) = k => E(qs)}
<1>1. 0 \in K
  <2>1. ASSUME NEW qs \in Seq(Seq(T)), Len(qs) = 0 PROVE E(qs)
    <3>1. qs = <<>>
      BY <2>1
    <3>2. FlattenSeq(qs) = <<>>
      BY <3>1, FlattenNothing
    <3>3. ToSet(<<>>) = {}
      BY DEF ToSet
    <3> QED
      BY <2>1, <3>2, <3>3
  <2> HIDE DEF E
  <2> QED
    BY <2>1
<1>2. ASSUME NEW k \in Nat, k \in K PROVE k + 1 \in K
  <2>1. ASSUME NEW qs \in Seq(Seq(T)), Len(qs) = k + 1 PROVE E(qs)
    <3> DEFINE rs == SubSeq(qs, 1, k)
               s == qs[k + 1]
    <3>1. /\ rs \in Seq(Seq(T)) /\ Len(rs) = k /\ s \in Seq(T) /\ qs = Append(rs, s)
          /\ \A i \in 1..k : rs[i] = qs[i]
      BY <2>1
    <3>2. E(rs)
      BY <1>2, <3>1
    <3> HIDE DEF rs, s
    <3>3. FlattenSeq(qs) = FlattenSeq(rs) \o s
      <4>1. CASE rs = <<>>
        <5>1. qs = <<s>>
          BY <3>1, <4>1
        <5> QED
          BY <3>1, <4>1, <5>1, FlattenOne, FlattenNothing
      <4>2. CASE rs # <<>>
        BY <3>1, <4>2, FlattenAppend
      <4> QED
        BY <4>1, <4>2
    <3>4. FlattenSeq(rs) \in Seq(T)
      BY <3>2
    <3>5. FlattenSeq(qs) \in Seq(T)
      BY <3>1, <3>3, <3>4
    <3>7. ToSet(FlattenSeq(qs)) = ToSet(FlattenSeq(rs)) \cup ToSet(s)
      BY <3>1, <3>3, <3>4, ToSetOfConcatenation
    <3>8. UNION {ToSet(qs[i]) : i \in 1..k + 1} = (UNION {ToSet(qs[i]) : i \in 1..k}) \cup ToSet(s)
      <4>1. 1..k + 1 = (1..k) \cup {k + 1}
        OBVIOUS
      <4> QED
        BY <4>1 DEF s
    <3>9. {ToSet(qs[i]) : i \in 1..k} = {ToSet(rs[i]) : i \in 1..k}
      BY <3>1
    <3> QED
      BY <2>1, <3>1, <3>2, <3>5, <3>7, <3>8, <3>9
  <2> HIDE DEF E
  <2> QED
    BY <2>1
<1> HIDE DEF K, E
<1>3. \A k \in Nat : k \in K
  BY <1>1, <1>2, Induction
<1>4. Len(seqs) \in Nat /\ DOMAIN seqs = 1..Len(seqs)
  OBVIOUS
<1>5. E(seqs)
  BY <1>3, <1>4 DEF K
<1> QED
  BY <1>4, <1>5 DEF E

-----------------------------------------------------------------------------
(***************************************************************************)
(* Filter and Sorted, of the methods of an array.                          *)
(***************************************************************************)
\* What is picked from an array has as many elements as places were chosen, and those
\* elements.
LEMMA PickedIs ==
  ASSUME NEW T, NEW seq \in Seq(T), NEW S \in SUBSET (DOMAIN seq)
  PROVE  /\ Picked(seq, InOrder(S)) \in Seq(T)
         /\ Len(Picked(seq, InOrder(S))) = Cardinality(S)
         /\ ToSet(Picked(seq, InOrder(S))) = {seq[i] : i \in S}
<1> DEFINE p == InOrder(S)
           m == Cardinality(S)
<1>1. Len(seq) \in Nat /\ DOMAIN seq = 1..Len(seq) /\ \A i \in 1..Len(seq) : seq[i] \in T
  OBVIOUS
<1>2. m \in Nat /\ p \in [1..m -> S] /\ \A t \in S : \E i \in 1..m : p[i] = t
  BY <1>1, InOrderIs
<1> HIDE DEF p, m
<1>3. DOMAIN p = 1..m /\ \A i \in 1..m : p[i] \in S /\ seq[p[i]] \in T
  BY <1>1, <1>2
<1>4. Picked(seq, p) = [i \in 1..m |-> seq[p[i]]]
  BY <1>3 DEF Picked
<1>5. [i \in 1..m |-> seq[p[i]]] \in Seq(T) /\ Len([i \in 1..m |-> seq[p[i]]]) = m
  BY <1>2, <1>3
<1>6. ToSet([i \in 1..m |-> seq[p[i]]]) = {seq[i] : i \in S}
  BY <1>2, <1>3 DEF ToSet
<1> QED
  BY <1>4, <1>5, <1>6 DEF p, m

\* The orders of finitely many periods have a bound.
LEMMA OrdersAreBounded ==
  ASSUME NEW n \in Nat, NEW f \in [1..n -> Nat]
  PROVE  \E m \in Nat : \A i \in 1..n : f[i] <= m
<1> DEFINE E(k) == \E m \in Nat : \A i \in 1..n : i <= k => f[i] <= m
           K == {k \in Nat : E(k)}
<1>1. E(0)
  <2>1. \A i \in 1..n : i <= 0 => f[i] <= 0
    OBVIOUS
  <2> QED
    BY <2>1
<1>2. ASSUME NEW k \in Nat, E(k) PROVE E(k + 1)
  <2>1. PICK m \in Nat : \A i \in 1..n : i <= k => f[i] <= m
    BY <1>2
  <2>2. CASE k + 1 \in 1..n
    <3> DEFINE l == IF f[k + 1] <= m THEN m ELSE f[k + 1]
    <3>1. f[k + 1] \in Nat
      BY <2>2
    <3>2. l \in Nat /\ m <= l /\ f[k + 1] <= l
      BY <3>1
    <3> HIDE DEF l
    <3>3. ASSUME NEW i \in 1..n, i <= k + 1 PROVE f[i] <= l
      <4>1. i = k + 1 \/ i <= k
        BY <3>3
      <4>2. f[i] \in Nat
        OBVIOUS
      <4> QED
        BY <2>1, <3>2, <4>1, <4>2
    <3> QED
      BY <3>2, <3>3
  <2>3. CASE k + 1 \notin 1..n
    <3>1. \A i \in 1..n : i <= k + 1 => i <= k
      BY <2>3
    <3> QED
      BY <2>1, <3>1
  <2> QED
    BY <2>2, <2>3
<1> HIDE DEF E
<1>3. 0 \in K /\ \A k \in Nat : k \in K => k + 1 \in K
  BY <1>1, <1>2
<1> HIDE DEF K
<1>4. E(n)
  BY <1>3, Induction DEF K
<1>5. PICK m \in Nat : \A i \in 1..n : i <= n => f[i] <= m
  BY <1>4 DEF E
<1> QED
  BY <1>5

\* The numbers up to n are n.
LEMMA IntervalSize ==
  ASSUME NEW n \in Nat
  PROVE  IsFiniteSet(1..n) /\ Cardinality(1..n) = n
BY FS_Interval

\* Numbers that differ can be put into their order.
LEMMA PlacesInOrder ==
  ASSUME NEW n \in Nat, NEW f \in [1..n -> Nat], \A i, j \in 1..n : f[i] = f[j] => i = j
  PROVE  \E p \in Bijection(1..n, 1..n) : \A i, j \in 1..n : i < j => f[p[i]] < f[p[j]]
<1>1. PICK m \in Nat : \A i \in 1..n : f[i] <= m
  BY OrdersAreBounded
<1> DEFINE g == [i \in 1..n |-> f[i] + 1]
           R == {g[i] : i \in 1..n}
<1>2. \A i \in 1..n : f[i] \in Nat /\ g[i] = f[i] + 1
  OBVIOUS
<1>3. R \in SUBSET (1..m + 1)
  <2>1. ASSUME NEW i \in 1..n PROVE g[i] \in 1..m + 1
    <3>1. f[i] \in Nat /\ f[i] <= m /\ g[i] = f[i] + 1
      BY <1>1, <1>2
    <3> QED
      BY <3>1
  <2> QED
    BY <2>1
<1>4. m + 1 \in Nat
  OBVIOUS
<1>5. PICK q \in Bijection(1..Cardinality(R), R) : Increasing(q, Cardinality(R))
  BY <1>3, <1>4, OrderExists
<1>6. g \in Bijection(1..n, R)
  <2>1. \A i, j \in 1..n : g[i] = g[j] => i = j
    BY <1>2
  <2> QED
    BY <2>1 DEF Bijection, Injection, Surjection, IsInjective
<1>7. Cardinality(R) = n
  <2>1. IsFiniteSet(1..n) /\ Cardinality(1..n) = n
    BY IntervalSize
  <2>2. g \in Surjection(1..n, R) /\ g \in Injection(1..n, R)
    BY <1>6 DEF Bijection
  <2>3. Cardinality(R) = Cardinality(1..n) <=> g \in Injection(1..n, R)
    BY <2>1, <2>2, FS_Surjection
  <2> QED
    BY <2>1, <2>2, <2>3
<1>8. /\ q \in [1..n -> R]
      /\ \A t \in R : \E i \in 1..n : q[i] = t
      /\ \A i, j \in 1..n : i < j => q[i] < q[j]
      /\ \A i, j \in 1..n : q[i] = q[j] => i = j
  BY <1>5, <1>7 DEF Bijection, Surjection, Injection, IsInjective, Increasing
<1>9. /\ g \in [1..n -> R]
      /\ \A t \in R : \E i \in 1..n : g[i] = t
      /\ \A i, j \in 1..n : g[i] = g[j] => i = j
  BY <1>6 DEF Bijection, Surjection, Injection, IsInjective
<1> HIDE DEF g, R
<1> DEFINE p == [k \in 1..n |-> CHOOSE i \in 1..n : g[i] = q[k]]
<1>10. ASSUME NEW k \in 1..n PROVE p[k] \in 1..n /\ g[p[k]] = q[k]
  <2>1. \E i \in 1..n : g[i] = q[k]
    BY <1>8, <1>9
  <2> QED
    BY <2>1
<1>11. p \in [1..n -> 1..n]
  BY <1>10
<1> HIDE DEF p
<1>12. \A i, j \in 1..n : p[i] = p[j] => i = j
  BY <1>8, <1>10
<1>13. ASSUME NEW t \in 1..n PROVE \E k \in 1..n : p[k] = t
  <2>1. PICK k \in 1..n : q[k] = g[t]
    BY <1>8, <1>9
  <2>2. p[k] \in 1..n /\ g[p[k]] = g[t]
    BY <1>10, <2>1
  <2> QED
    BY <1>9, <2>2
<1>14. p \in Bijection(1..n, 1..n)
  BY <1>11, <1>12, <1>13 DEF Bijection, Injection, Surjection, IsInjective
<1>15. ASSUME NEW i \in 1..n, NEW j \in 1..n, i < j PROVE f[p[i]] < f[p[j]]
  <2>1. g[p[i]] < g[p[j]]
    BY <1>8, <1>10, <1>15
  <2>2. p[i] \in 1..n /\ p[j] \in 1..n
    BY <1>10
  <2>3. g[p[i]] = f[p[i]] + 1 /\ g[p[j]] = f[p[j]] + 1 /\ f[p[i]] \in Nat /\ f[p[j]] \in Nat
    BY <1>2, <2>2
  <2> DEFINE a == f[p[i]]
             b == f[p[j]]
  <2>4. a \in Nat /\ b \in Nat /\ a + 1 < b + 1
    BY <2>1, <2>3, SMTT(30)
  <2> HIDE DEF a, b
  <2>5. a < b
    BY <2>4
  <2> QED
    BY <2>5 DEF a, b
<1> QED
  BY <1>14, <1>15

\* Of a product and a remainder, the greater one has no smaller factor.
LEMMA FactorsInOrder ==
  ASSUME NEW n \in Nat, NEW a \in Nat, NEW b \in Nat, NEW i \in 1..n, NEW j \in 1..n,
         a * (n + 1) + i <= b * (n + 1) + j
  PROVE  a <= b
<1> SUFFICES ASSUME b + 1 <= a PROVE FALSE
  OBVIOUS
<1> DEFINE d == a - b - 1
<1>1. d \in Nat /\ a = b + 1 + d
  OBVIOUS
<1>2. a * (n + 1) = b * (n + 1) + (n + 1) + d * (n + 1)
  BY <1>1
<1>3. d * (n + 1) \in Nat /\ b * (n + 1) \in Nat
  BY <1>1
<1> DEFINE x == d * (n + 1)
           y == b * (n + 1)
           z == a * (n + 1)
<1>4. z + i <= y + j /\ z = y + n + 1 + x /\ x \in Nat /\ y \in Nat
  BY <1>2, <1>3
<1> HIDE DEF x, y, z, d
<1> QED
  BY <1>4

\* An array whose elements have numbers can be sorted by them, also if some are equal.
LEMMA SortingPlaces ==
  ASSUME NEW n \in Nat, NEW f \in [1..n -> Nat]
  PROVE  \E p \in Bijection(1..n, 1..n) : \A i, j \in 1..n : i < j => f[p[i]] <= f[p[j]]
<1> DEFINE g == [i \in 1..n |-> f[i] * (n + 1) + i]
<1>1. ASSUME NEW i \in 1..n PROVE f[i] \in Nat /\ g[i] = f[i] * (n + 1) + i /\ g[i] \in Nat
  <2>1. f[i] \in Nat /\ f[i] * (n + 1) \in Nat
    OBVIOUS
  <2> QED
    BY <2>1
<1>2. g \in [1..n -> Nat]
  BY <1>1
<1> HIDE DEF g
<1>3. ASSUME NEW i \in 1..n, NEW j \in 1..n, g[i] <= g[j] PROVE f[i] <= f[j]
  <2> DEFINE a == f[i]
             b == f[j]
  <2>1. a \in Nat /\ b \in Nat /\ a * (n + 1) + i <= b * (n + 1) + j
    BY <1>1, <1>3
  <2> HIDE DEF a, b
  <2>2. a <= b
    BY <2>1, FactorsInOrder
  <2> QED
    BY <2>2 DEF a, b
<1>4. ASSUME NEW i \in 1..n, NEW j \in 1..n, g[i] = g[j] PROVE i = j
  <2>1. g[i] <= g[j] /\ g[j] <= g[i]
    BY <1>1, <1>4, SMTT(30)
  <2>2. f[i] <= f[j] /\ f[j] <= f[i]
    BY <1>3, <2>1
  <2>3. f[i] = f[j]
    BY <1>1, <2>2
  <2> DEFINE a == f[i] * (n + 1)
  <2>4. a \in Nat /\ a + i = a + j
    BY <1>1, <1>4, <2>3, SMTT(30)
  <2> HIDE DEF a
  <2> QED
    BY <2>4
<1>5. PICK p \in Bijection(1..n, 1..n) : \A i, j \in 1..n : i < j => g[p[i]] < g[p[j]]
  BY <1>2, <1>4, PlacesInOrder
<1>6. p \in [1..n -> 1..n]
  BY DEF Bijection, Injection
<1>7. ASSUME NEW i \in 1..n, NEW j \in 1..n, i < j PROVE f[p[i]] <= f[p[j]]
  <2>1. p[i] \in 1..n /\ p[j] \in 1..n /\ g[p[i]] < g[p[j]]
    BY <1>5, <1>6, <1>7
  <2>2. g[p[i]] <= g[p[j]]
    <3>1. g[p[i]] \in Nat /\ g[p[j]] \in Nat
      BY <1>2, <2>1
    <3> QED
      BY <2>1, <3>1, SMTT(30)
  <2> QED
    BY <1>3, <2>1, <2>2
<1> QED
  BY <1>7

\* Sorted periods are the same periods at places in the order of their numbers.
LEMMA OrderedIs ==
  ASSUME NEW periods, AreSelected(periods)
  PROVE  LET n == Len(periods)
         IN \E p \in Bijection(1..n, 1..n) :
              /\ Ordered(periods) = [k \in 1..n |-> periods[p[k]]]
              /\ \A i, j \in 1..n : i < j => periods[p[i]].order < periods[p[j]].order
<1> DEFINE n == Len(periods)
           P(p) == \A i, j \in 1..n : i < j => periods[p[i]].order <= periods[p[j]].order
           places == CHOOSE p \in Bijection(1..n, 1..n) : P(p)
<1>1. n \in Nat /\ DOMAIN periods = 1..n
  BY ArrayIs DEF AreSelected
<1>2. \A i \in 1..n : periods[i].order \in Nat
  BY <1>1 DEF AreSelected, IsPeriod
<1>3. \A i, j \in 1..n : periods[i].order = periods[j].order => i = j
  BY <1>1 DEF AreSelected
<1>4. Ordered(periods) = Picked(periods, places)
  BY <1>1, Zenon DEF Ordered, Sorted
<1>5. PICK p \in Bijection(1..n, 1..n) :
        \A i, j \in 1..n : i < j => periods[p[i]].order < periods[p[j]].order
  <2> DEFINE f == [i \in 1..n |-> periods[i].order]
  <2> HIDE DEF n
  <2>1. f \in [1..n -> Nat] /\ \A i \in 1..n : f[i] = periods[i].order
    BY <1>2
  <2> HIDE DEF f
  <2>2. \A i, j \in 1..n : f[i] = f[j] => i = j
    BY <1>3, <2>1
  <2>3. PICK p \in Bijection(1..n, 1..n) : \A i, j \in 1..n : i < j => f[p[i]] < f[p[j]]
    BY <1>1, <2>1, <2>2, PlacesInOrder
  <2>4. p \in [1..n -> 1..n]
    BY DEF Bijection, Injection
  <2>5. \A i, j \in 1..n : i < j => periods[p[i]].order < periods[p[j]].order
    BY <2>1, <2>3, <2>4
  <2> QED
    BY <2>5
<1> HIDE DEF n
<1>6. P(p)
  <2>1. p \in [1..n -> 1..n]
    BY DEF Bijection, Injection
  <2> SUFFICES ASSUME NEW i \in 1..n, NEW j \in 1..n, i < j
               PROVE  periods[p[i]].order <= periods[p[j]].order
    OBVIOUS
  <2> QED
    BY <1>2, <1>5, <2>1
<1> HIDE DEF P
<1>7. places \in Bijection(1..n, 1..n) /\ P(places)
  BY <1>6
<1> HIDE DEF places
<1>8. places \in [1..n -> 1..n] /\ \A i, j \in 1..n : places[i] = places[j] => i = j
  BY <1>7 DEF Bijection, Injection, IsInjective
<1>9. Ordered(periods) = [k \in 1..n |-> periods[places[k]]]
  BY <1>4, <1>8 DEF Picked
<1>10. ASSUME NEW i \in 1..n, NEW j \in 1..n, i < j
       PROVE  periods[places[i]].order < periods[places[j]].order
  <2>1. places[i] \in 1..n /\ places[j] \in 1..n /\ places[i] # places[j]
    BY <1>1, <1>8, <1>10
  <2>2. periods[places[i]].order <= periods[places[j]].order
    BY <1>7, <1>10 DEF P
  <2> QED
    BY <1>2, <1>3, <2>1, <2>2
<1> QED
  BY <1>7, <1>9, <1>10 DEF n

-----------------------------------------------------------------------------
(***************************************************************************)
(* The option periods and the columns of the PoP table.                    *)
(***************************************************************************)
\* The option periods of a package come out in the order of their numbers.
LEMMA OptionsAreOrdered ==
  ASSUME NEW options, AreOptions(options)
  PROVE  LET n == Len(options)
             s == Ordered(options)
         IN /\ n \in Nat /\ DOMAIN options = 1..n
            /\ s \in Seq(ToSet(options)) /\ Len(s) = n
            /\ \A k \in 1..n : s[k].order = k + 1
            /\ \A o \in ToSet(options) : \E k \in 1..n : o = s[k]
<1> DEFINE n == Len(options)
           s == Ordered(options)
<1>1. n \in Nat /\ DOMAIN options = 1..n
  BY ArrayIs DEF AreOptions, AreSelected
<1>2. PICK p \in Bijection(1..n, 1..n) :
        /\ s = [k \in 1..n |-> options[p[k]]]
        /\ \A i, j \in 1..n : i < j => options[p[i]].order < options[p[j]].order
  BY OrderedIs DEF AreOptions
<1>3. {options[i].order : i \in 1..n} = 2..n + 1
  BY <1>1 DEF AreOptions
<1> HIDE DEF n, s
<1>4. p \in [1..n -> 1..n] /\ \A t \in 1..n : \E k \in 1..n : p[k] = t
  BY DEF Bijection, Injection, Surjection
<1>5. \A k \in 1..n : s[k] = options[p[k]] /\ s[k] \in ToSet(options)
  BY <1>1, <1>2, <1>4 DEF ToSet
<1>6. \A k \in 1..n : s[k].order \in 2..n + 1
  <2> TAKE k \in 1..n
  <2>1. p[k] \in 1..n /\ s[k] = options[p[k]]
    BY <1>4, <1>5
  <2>2. options[p[k]].order \in {options[i].order : i \in 1..n}
    BY <2>1
  <2> QED
    BY <1>3, <2>1, <2>2
<1>7. \A t \in 2..n + 1 : \E k \in 1..n : s[k].order = t
  <2> SUFFICES ASSUME NEW t \in 2..n + 1 PROVE \E k \in 1..n : s[k].order = t
    OBVIOUS
  <2>1. PICK i \in 1..n : options[i].order = t
    BY <1>3
  <2>2. PICK k \in 1..n : p[k] = i
    BY <1>4
  <2> QED
    BY <1>5, <2>1, <2>2
<1>8. \A i, j \in 1..n : i < j => s[i].order < s[j].order
  BY <1>2, <1>5
<1>9. ASSUME NEW k \in 1..n PROVE s[k].order = k + 1
  <2> DEFINE wrong == {j \in 1..n : s[j].order # j + 1}
  <2> SUFFICES ASSUME wrong # {} PROVE FALSE
    OBVIOUS
  <2>1. wrong \subseteq Nat
    OBVIOUS
  <2>2. PICK j \in wrong : \A i \in wrong : j <= i
    BY <2>1, Least
  <2>3. j \in 1..n /\ s[j].order # j + 1 /\ j + 1 \in 2..n + 1
    BY <1>1
  <2>4. \A i \in 1..n : i < j => s[i].order = i + 1
    BY <2>2, <2>3
  <2>5. PICK i \in 1..n : s[i].order = j + 1
    BY <1>7, <2>3
  <2>6. i > j
    BY <2>3, <2>4, <2>5
  <2>7. s[j].order < j + 1
    BY <1>8, <2>3, <2>5, <2>6
  <2>8. s[j].order \in 2..n + 1
    BY <1>6, <2>3
  <2>9. PICK l \in 1..n : l + 1 = s[j].order
    <3>1. \A t \in 2..n + 1 : t - 1 \in 1..n /\ (t - 1) + 1 = t
      BY <1>1
    <3> QED
      BY <2>8, <3>1
  <2>10. l < j
    BY <2>3, <2>7, <2>9
  <2>11. s[l].order = s[j].order
    BY <2>4, <2>9, <2>10
  <2>12. s[l].order < s[j].order
    BY <1>8, <2>3, <2>10
  <2> QED
    BY <2>8, <2>11, <2>12
<1>10. ASSUME NEW o \in ToSet(options) PROVE \E k \in 1..n : o = s[k]
  <2>1. PICK i \in 1..n : o = options[i]
    BY <1>1 DEF ToSet
  <2>2. PICK k \in 1..n : p[k] = i
    BY <1>4
  <2> QED
    BY <1>5, <2>1, <2>2
<1>11. s \in Seq(ToSet(options)) /\ Len(s) = n
  <2>1. s = [k \in 1..n |-> s[k]]
    BY <1>2
  <2>2. [k \in 1..n |-> s[k]] \in Seq(ToSet(options)) /\ Len([k \in 1..n |-> s[k]]) = n
    BY <1>1, <1>5
  <2> QED
    BY <2>1, <2>2
<1> QED
  BY <1>1, <1>9, <1>10, <1>11 DEF n, s

\* getPeriods numbers the columns of the PoP table from 0, the base period, on.
LEMMA ColumnsAre ==
  ASSUME NEW options, AreOptions(options)
  PROVE  Columns(options) = [c \in 1..Len(options) + 1 |-> c - 1]
<1> DEFINE n == Len(options)
           s == Ordered(options)
<1>1. n \in Nat /\ s \in Seq(ToSet(options)) /\ Len(s) = n /\ \A k \in 1..n : s[k].order = k + 1
  BY OptionsAreOrdered
<1>2. \A o \in ToSet(options) : o.type = "BASE" <=> o.order = 1
  BY DEF AreOptions, AreSelected, IsPeriod, ToSet
<1> HIDE DEF n, s
<1>3. DOMAIN s = 1..n /\ \A k \in 1..n : s[k] \in ToSet(options)
  BY <1>1
<1>4. \A k \in 1..n : Label(s[k]) = k
  BY <1>1, <1>2, <1>3 DEF Label
<1>5. Labels(s) = [k \in 1..n |-> k]
  BY <1>3, <1>4 DEF Labels
<1>6. [k \in 1..n |-> k] \in Seq(Nat) /\ Len([k \in 1..n |-> k]) = n
  BY <1>1
<1>7. <<0>> \o [k \in 1..n |-> k] = [c \in 1..n + 1 |-> c - 1]
  <2> DEFINE ks == [k \in 1..n |-> k]
             both == <<0>> \o ks
  <2>1. ks \in Seq(Nat) /\ Len(ks) = n /\ \A k \in 1..n : ks[k] = k
    BY <1>1
  <2> HIDE DEF ks
  <2>2. both \in Seq(Nat) /\ Len(both) = n + 1 /\ \A c \in 1..n + 1 : both[c] = c - 1
    BY <1>1, <2>1
  <2>3. both = [c \in 1..n + 1 |-> both[c]]
    BY <2>2
  <2> HIDE DEF both
  <2>4. both = [c \in 1..n + 1 |-> c - 1]
    BY <2>2, <2>3
  <2> QED
    BY <2>4 DEF both, ks
<1> QED
  BY <1>5, <1>7 DEF Columns, n, s

\* The option period with k option periods up to it is the k-th in order.
LEMMA ColumnOfOption ==
  ASSUME NEW options, AreOptions(options), NEW k \in 1..Len(options)
  PROVE  Ordered(options)[k] = CHOOSE o \in ToSet(options) :
                                 Cardinality({q \in ToSet(options) : q.order <= o.order}) = k
<1> DEFINE n == Len(options)
           s == Ordered(options)
           UpTo(o) == {q \in ToSet(options) : q.order <= o.order}
<1>1. /\ n \in Nat
      /\ \A i \in 1..n : s[i].order = i + 1 /\ s[i] \in ToSet(options)
      /\ \A o \in ToSet(options) : \E i \in 1..n : o = s[i]
  <2>1. s \in Seq(ToSet(options)) /\ Len(s) = n
    BY OptionsAreOrdered
  <2>2. \A i \in 1..n : s[i] \in ToSet(options)
    BY <2>1
  <2> QED
    BY <2>2, OptionsAreOrdered
<1> HIDE DEF n, s
<1>2. ASSUME NEW j \in 1..n PROVE Cardinality(UpTo(s[j])) = j
  <2> DEFINE f == [i \in 1..j |-> s[i]]
  <2>1. \A i \in 1..j : i \in 1..n
    BY <1>1
  <2>2. \A i \in 1..j : f[i] \in UpTo(s[j])
    BY <1>1, <2>1
  <2>3. ASSUME NEW q \in UpTo(s[j]) PROVE \E i \in 1..j : f[i] = q
    <3>1. PICK i \in 1..n : q = s[i]
      BY <1>1
    <3>2. i + 1 <= j + 1
      BY <1>1, <3>1
    <3>3. i \in 1..j
      BY <1>1, <3>2
    <3> QED
      BY <3>1, <3>3
  <2>4. ASSUME NEW a \in 1..j, NEW b \in 1..j, f[a] = f[b] PROVE a = b
    <3>1. s[a] = s[b]
      BY <2>4
    <3>2. s[a].order = a + 1 /\ s[b].order = b + 1
      BY <1>1, <2>1
    <3>3. a + 1 = b + 1
      BY <3>1, <3>2
    <3> QED
      BY <3>3
  <2>5. f \in Bijection(1..j, UpTo(s[j])) /\ f \in Surjection(1..j, UpTo(s[j]))
    BY <2>2, <2>3, <2>4 DEF Bijection, Injection, Surjection, IsInjective
  <2>6. f \in Injection(1..j, UpTo(s[j]))
    BY <2>5 DEF Bijection
  <2> HIDE DEF f
  <2>7. IsFiniteSet(1..j) /\ Cardinality(1..j) = j
    BY <1>1, FS_Interval
  <2>8. Cardinality(UpTo(s[j])) = Cardinality(1..j) <=> f \in Injection(1..j, UpTo(s[j]))
    BY <2>5, <2>7, FS_Surjection
  <2> QED
    BY <2>6, <2>7, <2>8
<1> HIDE DEF UpTo
<1>3. \A o \in ToSet(options) : Cardinality(UpTo(o)) = k <=> o = s[k]
  <2> SUFFICES ASSUME NEW o \in ToSet(options) PROVE Cardinality(UpTo(o)) = k <=> o = s[k]
    OBVIOUS
  <2>1. PICK j \in 1..n : o = s[j]
    BY <1>1
  <2>2. Cardinality(UpTo(o)) = j
    BY <1>2, <2>1
  <2>3. k \in 1..n
    BY DEF n
  <2>4. s[k].order = k + 1 /\ s[j].order = j + 1
    BY <1>1, <2>3
  <2> QED
    BY <2>1, <2>2, <2>3, <2>4
<1>4. s[k] \in ToSet(options)
  BY <1>1 DEF n
<1>5. s[k] = CHOOSE o \in ToSet(options) : Cardinality(UpTo(o)) = k
  BY <1>3, <1>4
<1> QED
  BY <1>5 DEF s, UpTo

-----------------------------------------------------------------------------
(***************************************************************************)
(* The text on the period of performance (PopTextMatchesTable): its        *)
(* groups follow the loop of formatPeriodOfPerformance, of which FoldLaws  *)
(* speaks with JoinGroup for its operator.                                 *)
(***************************************************************************)
Joining == INSTANCE FoldLaws WITH Op <- JoinGroup

\* What push does to an array.
LEMMA AppendIs ==
  ASSUME NEW S, NEW seq \in Seq(S), NEW e \in S
  PROVE  /\ Append(seq, e) \in Seq(S)
         /\ Len(Append(seq, e)) = Len(seq) + 1
         /\ \A i \in 1..Len(seq) : Append(seq, e)[i] = seq[i]
         /\ Append(seq, e)[Len(seq) + 1] = e
         /\ seq = <<>> => Append(seq, e) = <<e>>
<1>1. \A x : Append(<<>>, x) = <<x>>
  OBVIOUS
<1>2. /\ Append(seq, e) \in Seq(S)
      /\ Len(Append(seq, e)) = Len(seq) + 1
      /\ \A i \in 1..Len(seq) : Append(seq, e)[i] = seq[i]
      /\ Append(seq, e)[Len(seq) + 1] = e
  OBVIOUS
<1> QED
  BY <1>1, <1>2, Zenon

\* An array without its last element, and that element.
LEMMA FrontIs ==
  ASSUME NEW S, NEW seq \in Seq(S), Len(seq) # 0
  PROVE  /\ Front(seq) \in Seq(S)
         /\ Len(Front(seq)) = Len(seq) - 1
         /\ \A i \in 1..Len(seq) - 1 : Front(seq)[i] = seq[i]
         /\ seq[Len(seq)] \in S
         /\ seq = Append(Front(seq), seq[Len(seq)])
         /\ Front(seq) = <<>> => seq = <<seq[Len(seq)]>>
<1>1. Len(seq) \in Nat /\ DOMAIN seq = 1..Len(seq) /\ \A i \in 1..Len(seq) : seq[i] \in S
  OBVIOUS
<1>2. /\ Front(seq) \in Seq(S)
      /\ Len(Front(seq)) = Len(seq) - 1
      /\ \A i \in 1..Len(seq) - 1 : Front(seq)[i] = seq[i]
  BY <1>1 DEF Front
<1>3. seq[Len(seq)] \in S
  BY <1>1
<1>4. seq = Append(Front(seq), seq[Len(seq)])
  <2> DEFINE n == Len(seq)
             k == n - 1
  <2>1. n \in Nat /\ n # 0
    BY <1>1
  <2> HIDE DEF n
  <2>2. k \in Nat /\ n = k + 1
    BY <2>1
  <2> HIDE DEF k
  <2> USE DEF n
  <2>3. Front(seq) = SubSeq(seq, 1, k)
    BY <2>2 DEF Front, k
  <2>4. seq = Append(SubSeq(seq, 1, k), seq[k + 1])
    BY <2>2
  <2> QED
    BY <2>2, <2>3, <2>4
<1>5. Front(seq) = <<>> => seq = <<seq[Len(seq)]>>
  <2>1. Append(<<>>, seq[Len(seq)]) = <<seq[Len(seq)]>>
    OBVIOUS
  <2> QED
    BY <1>4, <2>1
<1> QED
  BY <1>2, <1>3, <1>4, <1>5

\* The groups of formatPeriodOfPerformance after some of the ordered periods.
Grouped(groups, told, T) ==
  /\ groups \in Seq(Seq(T))
  /\ \A g \in 1..Len(groups) : Len(groups[g]) # 0
  /\ FlattenSeq(groups) = told
  /\ \A g \in 1..Len(groups) : \A i \in 1..Len(groups[g]) : groups[g][i].length = groups[g][1].length
  /\ \A g \in 1..Len(groups) - 1 : groups[g][1].length # groups[g + 1][1].length

\* A turn of the loop of formatPeriodOfPerformance adds the next period to the groups.
LEMMA JoinGroupKeeps ==
  ASSUME NEW T, NEW groups, NEW told \in Seq(T), Grouped(groups, told, T), NEW p \in T
  PROVE  Grouped(JoinGroup(groups, p), Append(told, p), T)
<1> DEFINE m == Len(groups)
           new == JoinGroup(groups, p)
<1>1. /\ groups \in Seq(Seq(T)) /\ m \in Nat
      /\ \A g \in 1..m : groups[g] \in Seq(T) /\ Len(groups[g]) \in Nat /\ Len(groups[g]) # 0
      /\ FlattenSeq(groups) = told
      /\ \A g \in 1..m : \A i \in 1..Len(groups[g]) : groups[g][i].length = groups[g][1].length
      /\ \A g \in 1..m - 1 : groups[g][1].length # groups[g + 1][1].length
  BY DEF Grouped
<1>2. CASE groups # <<>> /\ Last(Last(groups)).length = p.length
  <2> DEFINE front == Front(groups)
             last == groups[m]
             longer == Append(last, p)
  <2>1. m # 0 /\ m \in 1..m /\ m - 1 \in Nat
    BY <1>1, <1>2
  <2>2. new = Append(front, longer)
    BY <1>2 DEF JoinGroup, Last
  <2>3. /\ front \in Seq(Seq(T)) /\ Len(front) = m - 1
        /\ \A g \in 1..m - 1 : front[g] = groups[g]
        /\ groups = Append(front, last)
    BY <1>1, <2>1, FrontIs
  <2>4. last \in Seq(T) /\ Len(last) \in Nat /\ Len(last) # 0
    BY <1>1, <2>1
  <2>5. last[1].length = p.length
    <3>1. last[Len(last)].length = p.length
      BY <1>2 DEF Last
    <3>2. Len(last) \in 1..Len(last)
      BY <2>4
    <3> QED
      BY <1>1, <2>1, <3>1, <3>2
  <2>6. /\ longer \in Seq(T) /\ Len(longer) = Len(last) + 1
        /\ \A i \in 1..Len(last) : longer[i] = last[i]
        /\ longer[Len(last) + 1] = p
    BY <2>4
  <2>7. longer[1] = last[1] /\ \A i \in 1..Len(last) + 1 : longer[i].length = longer[1].length
    <3>1. 1 \in 1..Len(last)
      BY <2>4
    <3>2. longer[1] = last[1]
      BY <2>6, <3>1
    <3>3. ASSUME NEW i \in 1..Len(last) + 1 PROVE longer[i].length = longer[1].length
      <4>1. CASE i \in 1..Len(last)
        <5>1. last[i].length = last[1].length
          BY <1>1, <2>1, <4>1
        <5> QED
          BY <2>6, <3>2, <4>1, <5>1
      <4>2. CASE i = Len(last) + 1
        BY <2>5, <2>6, <3>2, <4>2
      <4> QED
        BY <2>4, <4>1, <4>2
    <3> QED
      BY <3>2, <3>3
  <2>8. FlattenSeq(Append(front, longer)) = Append(told, p)
    <3>1. CASE front = <<>>
      <4>1. groups = <<last>> /\ Append(front, longer) = <<longer>>
        BY <1>1, <2>1, <2>3, <2>6, <3>1, FrontIs, AppendIs
      <4>2. told = last
        BY <1>1, <4>1, FlattenOne
      <4> QED
        BY <4>1, <4>2, FlattenOne
    <3>2. CASE front # <<>>
      <4>1. told = FlattenSeq(front) \o last
        <5>1. FlattenSeq(Append(front, last)) = FlattenSeq(front) \o last
          BY <2>3, <2>4, <3>2, FlattenAppend
        <5> HIDE DEF front, last
        <5> QED
          BY <1>1, <2>3, <5>1
      <4>2. FlattenSeq(Append(front, longer)) = FlattenSeq(front) \o longer
        BY <2>3, <2>6, <3>2, FlattenAppend
      <4>3. FlattenSeq(front) \in Seq(T)
        BY <2>3, FlattenIs
      <4> HIDE DEF front, last
      <4>4. FlattenSeq(front) \o Append(last, p) = Append(FlattenSeq(front) \o last, p)
        BY <2>4, <4>3
      <4> QED
        BY <4>1, <4>2, <4>4
    <3> QED
      BY <3>1, <3>2
  <2>9. /\ Append(front, longer) \in Seq(Seq(T)) /\ Len(Append(front, longer)) = m
        /\ \A g \in 1..m - 1 : Append(front, longer)[g] = groups[g]
        /\ Append(front, longer)[m] = longer
    BY <1>1, <2>1, <2>3, <2>6
  <2> HIDE DEF new, front, longer
  <2>10. /\ new \in Seq(Seq(T)) /\ Len(new) = m /\ new[m] = longer
         /\ \A g \in 1..m - 1 : new[g] = groups[g]
    BY <2>2, <2>9
  <2>11. \A g \in 1..m : g \in 1..m - 1 \/ g = m
    BY <1>1
  <2>12. ASSUME NEW g \in 1..m
         PROVE  Len(new[g]) # 0 /\ \A i \in 1..Len(new[g]) : new[g][i].length = new[g][1].length
    <3>1. CASE g \in 1..m - 1
      BY <1>1, <2>10, <3>1
    <3>2. CASE g = m
      BY <2>4, <2>6, <2>7, <2>10, <3>2
    <3> QED
      BY <2>11, <3>1, <3>2
  <2>14. \A g \in 1..m : new[g][1].length = groups[g][1].length
    BY <2>7, <2>10, <2>11
  <2>15. \A g \in 1..m - 1 : new[g][1].length # new[g + 1][1].length
    <3>1. \A g \in 1..m - 1 : g \in 1..m /\ g + 1 \in 1..m
      BY <1>1
    <3> QED
      BY <1>1, <2>14, <3>1
  <2> QED
    BY <2>2, <2>8, <2>10, <2>12, <2>15 DEF Grouped, new
<1>3. CASE ~(groups # <<>> /\ Last(Last(groups)).length = p.length)
  <2>1. new = Append(groups, <<p>>)
    BY <1>3 DEF JoinGroup
  <2>2. /\ <<p>> \in Seq(T) /\ Len(<<p>>) = 1 /\ <<p>>[1] = p
    OBVIOUS
  <2>3. /\ Append(groups, <<p>>) \in Seq(Seq(T)) /\ Len(Append(groups, <<p>>)) = m + 1
        /\ \A g \in 1..m : Append(groups, <<p>>)[g] = groups[g]
        /\ Append(groups, <<p>>)[m + 1] = <<p>>
    BY <1>1, <2>2, AppendIs
  <2>4. FlattenSeq(Append(groups, <<p>>)) = Append(told, p)
    <3>1. CASE groups = <<>>
      <4>1. told = <<>> /\ Append(groups, <<p>>) = <<<<p>>>> /\ Append(told, p) = <<p>>
        <5>1. told = <<>>
          BY <1>1, <3>1, FlattenNothing
        <5>2. \A e : Append(<<>>, e) = <<e>>
          OBVIOUS
        <5> QED
          BY <3>1, <5>1, <5>2
      <4> QED
        BY <4>1, FlattenOne
    <3>2. CASE groups # <<>>
      <4>1. FlattenSeq(Append(groups, <<p>>)) = told \o <<p>>
        BY <1>1, <2>2, <3>2, FlattenAppend
      <4> QED
        BY <4>1
    <3> QED
      BY <3>1, <3>2
  <2> HIDE DEF new
  <2>5. /\ new \in Seq(Seq(T)) /\ Len(new) = m + 1 /\ new[m + 1] = <<p>>
        /\ \A g \in 1..m : new[g] = groups[g]
    BY <2>1, <2>3
  <2>6. \A g \in 1..m + 1 : g \in 1..m \/ g = m + 1
    BY <1>1
  <2>7. ASSUME NEW g \in 1..m + 1
        PROVE  Len(new[g]) # 0 /\ \A i \in 1..Len(new[g]) : new[g][i].length = new[g][1].length
    <3>1. CASE g \in 1..m
      BY <1>1, <2>5, <3>1, ZenonT(40)
    <3>2. CASE g = m + 1
      <4>1. new[g] = <<p>>
        BY <2>5, <3>2
      <4>2. Len(<<p>>) # 0 /\ \A i \in 1..Len(<<p>>) : <<p>>[i].length = <<p>>[1].length
        <5>1. \A i \in 1..1 : i = 1
          OBVIOUS
        <5> QED
          BY <2>2, <5>1
      <4> QED
        BY <4>1, <4>2
    <3> QED
      BY <2>6, <3>1, <3>2
  <2>9. ASSUME NEW g \in 1..m PROVE new[g][1].length # new[g + 1][1].length
    <3>1. CASE g \in 1..m - 1
      <4>1. g + 1 \in 1..m
        BY <1>1, <3>1
      <4> QED
        BY <1>1, <2>5, <3>1, <4>1
    <3>2. CASE g = m
      <4>1. groups # <<>> /\ m \in 1..m
        BY <1>1, <3>2
      <4>2. Last(Last(groups)).length = groups[m][1].length
        <5>1. Len(groups[m]) \in 1..Len(groups[m])
          BY <1>1, <4>1
        <5> QED
          BY <1>1, <4>1, <5>1 DEF Last
      <4>3. groups[m][1].length # p.length
        BY <1>3, <4>1, <4>2
      <4> QED
        BY <2>2, <2>5, <3>2, <4>3
    <3> QED
      BY <1>1, <3>1, <3>2
  <2>10. (m + 1) - 1 = m
    BY <1>1
  <2> QED
    BY <2>1, <2>4, <2>5, <2>7, <2>9, <2>10 DEF Grouped, new
<1> QED
  BY <1>2, <1>3

\* The loop of formatPeriodOfPerformance, turn by turn.
LEMMA JoiningSteps ==
  ASSUME NEW s, NEW n \in Nat, DOMAIN s = 1..n
  PROVE  \E h : /\ h[0] = <<>>
                /\ \A k \in 1..n : h[k] = JoinGroup(h[k - 1], s[k])
                /\ Joining!Fold(<<>>, s) = h[n]
BY Joining!FoldSteps

\* The groups of the text are what the loop leaves.
LEMMA OptionGroupsFold ==
  \A options : OptionGroups(options) = Joining!Fold(<<>>, Ordered(options))
BY Zenon DEF OptionGroups, Joining!Fold, FoldLeft, Joining!FoldLeft, MapThenFoldSet,
             Joining!MapThenFoldSet, Max, Joining!Max

\* The groups of the text are those of all option periods, in their order.
LEMMA OptionGroupsAre ==
  ASSUME NEW options, AreOptions(options)
  PROVE  Grouped(OptionGroups(options), Ordered(options), ToSet(options))
<1> DEFINE n == Len(options)
           s == Ordered(options)
           T == ToSet(options)
<1>1. n \in Nat /\ s \in Seq(T) /\ Len(s) = n
  BY OptionsAreOrdered
<1> HIDE DEF n, s, T
<1>2. DOMAIN s = 1..n
  BY <1>1
<1>4. PICK h : /\ h[0] = <<>>
               /\ \A k \in 1..n : h[k] = JoinGroup(h[k - 1], s[k])
               /\ Joining!Fold(<<>>, s) = h[n]
  BY <1>1, <1>2, JoiningSteps
<1> DEFINE K == {k \in Nat : k <= n => Grouped(h[k], SubSeq(s, 1, k), T)}
<1>5. 0 \in K
  <2>1. SubSeq(s, 1, 0) = <<>>
    BY <1>1
  <2>2. Grouped(<<>>, <<>>, T)
    BY FlattenNothing DEF Grouped
  <2> QED
    BY <1>4, <2>1, <2>2
<1>6. ASSUME NEW k \in Nat, k \in K PROVE k + 1 \in K
  <2> SUFFICES ASSUME k + 1 <= n PROVE Grouped(h[k + 1], SubSeq(s, 1, k + 1), T)
    OBVIOUS
  <2>1. k <= n /\ k + 1 \in 1..n /\ (k + 1) - 1 = k
    BY <1>1
  <2>2. SubSeq(s, 1, k) \in Seq(T) /\ s[k + 1] \in T
    BY <1>1, <2>1
  <2>3. SubSeq(s, 1, k + 1) = Append(SubSeq(s, 1, k), s[k + 1])
    BY <1>1, <2>1
  <2>4. h[k + 1] = JoinGroup(h[k], s[k + 1])
    BY <1>4, <2>1
  <2>5. Grouped(h[k], SubSeq(s, 1, k), T)
    BY <1>6, <2>1
  <2> QED
    BY <2>2, <2>3, <2>4, <2>5, JoinGroupKeeps
<1> HIDE DEF K
<1>7. n \in K
  BY <1>1, <1>5, <1>6, Induction
<1>8. SubSeq(s, 1, n) = s
  BY <1>1
<1>9. Grouped(h[n], s, T)
  <2>1. n <= n
    BY <1>1
  <2>2. Grouped(h[n], SubSeq(s, 1, n), T)
    BY <1>7, <2>1 DEF K
  <2> QED
    BY <1>8, <2>2
<1> QED
  BY <1>4, <1>9, OptionGroupsFold DEF s, T

\* What the text says of the period of performance, for every package.
LEMMA TextMatchesTable ==
  ASSUME NEW options, AreOptions(options)
  PROVE  LET groups == OptionGroups(options)
             InColumn(k) == CHOOSE o \in ToSet(options) :
                              Cardinality({q \in ToSet(options) : q.order <= o.order}) = k
         IN /\ Columns(options) = [c \in 1..Len(options) + 1 |-> c - 1]
            /\ FlattenSeq(groups) = [k \in DOMAIN options |-> InColumn(k)]
            /\ \A g \in DOMAIN groups : \A i \in DOMAIN groups[g] :
                 groups[g][i].length = groups[g][1].length
            /\ \A g \in 1..Len(groups) - 1 : groups[g][1].length # groups[g + 1][1].length
<1> DEFINE groups == OptionGroups(options)
           InColumn(k) == CHOOSE o \in ToSet(options) :
                            Cardinality({q \in ToSet(options) : q.order <= o.order}) = k
           s == Ordered(options)
<1>1. Grouped(groups, s, ToSet(options))
  BY OptionGroupsAre
<1>2. /\ DOMAIN options = 1..Len(options) /\ s \in Seq(ToSet(options)) /\ Len(s) = Len(options)
  BY OptionsAreOrdered
<1>3. \A k \in 1..Len(options) : s[k] = InColumn(k)
  BY ColumnOfOption
<1> HIDE DEF groups, InColumn, s
<1>4. DOMAIN s = 1..Len(options)
  BY <1>2
<1>5. s = [k \in 1..Len(options) |-> s[k]]
  BY <1>2, <1>4
<1>6. FlattenSeq(groups) = [k \in DOMAIN options |-> InColumn(k)]
  BY <1>1, <1>2, <1>3, <1>5 DEF Grouped
<1>7. DOMAIN groups = 1..Len(groups) /\ \A g \in 1..Len(groups) : DOMAIN groups[g] = 1..Len(groups[g])
  <2>1. groups \in Seq(Seq(ToSet(options)))
    BY <1>1 DEF Grouped
  <2>2. \A g \in 1..Len(groups) : groups[g] \in Seq(ToSet(options))
    BY <2>1
  <2> QED
    BY <2>1, <2>2
<1> QED
  BY <1>1, <1>6, <1>7, ColumnsAre DEF groups, InColumn, Grouped

-----------------------------------------------------------------------------
(***************************************************************************)
(* The PoP table: groupSelectedTaskPeriods gives each task a place. The    *)
(* loop keeps a numbering of the places, one for each task so far.         *)
(***************************************************************************)
\* A list of periods has each of them once.
IsDistinct(s) == s \in Seq(Nat) /\ \A i, j \in 1..Len(s) : s[i] = s[j] => i = j

\* A list without repetitions is as long as it has members.
LEMMA SizeOfDistinct ==
  ASSUME NEW s, IsDistinct(s)
  PROVE  IsFiniteSet(ToSet(s)) /\ Cardinality(ToSet(s)) = Len(s)
<1>1. Len(s) \in Nat /\ DOMAIN s = 1..Len(s)
  BY DEF IsDistinct
<1>2. s \in [1..Len(s) -> ToSet(s)]
  <2>1. s = [i \in 1..Len(s) |-> s[i]]
    BY <1>1 DEF IsDistinct
  <2>2. \A i \in 1..Len(s) : s[i] \in ToSet(s)
    BY <1>1 DEF ToSet
  <2> QED
    BY <2>1, <2>2
<1>3. s \in Surjection(1..Len(s), ToSet(s)) /\ s \in Injection(1..Len(s), ToSet(s))
  BY <1>1, <1>2 DEF Surjection, Injection, IsInjective, ToSet, IsDistinct
<1>4. IsFiniteSet(1..Len(s)) /\ Cardinality(1..Len(s)) = Len(s)
  BY <1>1, IntervalSize
<1>5. IsFiniteSet(ToSet(s))
  BY <1>3, <1>4, FS_Surjection
<1>6. Cardinality(ToSet(s)) = Cardinality(1..Len(s)) <=> s \in Injection(1..Len(s), ToSet(s))
  BY <1>3, <1>4, FS_Surjection
<1> QED
  BY <1>3, <1>4, <1>5, <1>6

\* The comparison of hasSameSelectedPeriods is that of the sets, as neither list
\* has a period twice.
LEMMA SamePeriodsAreTheSame ==
  ASSUME NEW a, IsDistinct(a), NEW b, IsDistinct(b), Len(a) = Len(b), ToSet(b) \subseteq ToSet(a)
  PROVE  ToSet(a) = ToSet(b)
<1>1. IsFiniteSet(ToSet(a)) /\ Cardinality(ToSet(a)) = Len(a) /\ Cardinality(ToSet(b)) = Len(b)
  BY SizeOfDistinct
<1>2. ToSet(b) \in SUBSET ToSet(a)
  OBVIOUS
<1>3. Cardinality(ToSet(a)) = Cardinality(ToSet(b)) => ToSet(a) = ToSet(b)
  BY <1>1, <1>2, FS_Subset
<1> QED
  BY <1>1, <1>3

\* The tasks of getTaskPeriods with their numbers in N.
PopsOf(N) == [number : N, entire : BOOLEAN, periods : {s \in Seq(Nat) : IsDistinct(s)}]

GroupsOf(N) == [numbers : Seq(N), periods : {s \in Seq(Nat) : IsDistinct(s)}]

\* The places of the task numbers in a list of groups, or of rows.
Places(rows) == {place \in (1..Len(rows)) \X Nat : place[2] \in 1..Len(rows[place[1]].numbers)}

\* Every task that is not needed for the entire duration has a place of its own in
\* a group with its periods, and no other place is taken.
Placed(groups, pops, k, at) ==
  /\ at \in Bijection({i \in 1..k : ~pops[i].entire}, Places(groups))
  /\ \A i \in 1..k : ~pops[i].entire =>
       /\ groups[at[i][1]].numbers[at[i][2]] = pops[i].number
       /\ ToSet(groups[at[i][1]].periods) = ToSet(pops[i].periods)

\* A cell is added for the next task.
LEMMA PlacedExtends ==
  ASSUME NEW N, NEW groups \in Seq(GroupsOf(N)), NEW more \in Seq(GroupsOf(N)),
         NEW pops, NEW k \in Nat, NEW at, Placed(groups, pops, k, at),
         ~pops[k + 1].entire,
         NEW cell, cell \notin Places(groups), Places(more) = Places(groups) \cup {cell},
         more[cell[1]].numbers[cell[2]] = pops[k + 1].number,
         ToSet(more[cell[1]].periods) = ToSet(pops[k + 1].periods),
         \A place \in Places(groups) :
           /\ more[place[1]].numbers[place[2]] = groups[place[1]].numbers[place[2]]
           /\ more[place[1]].periods = groups[place[1]].periods
  PROVE  \E new : Placed(more, pops, k + 1, new)
<1> DEFINE before == {i \in 1..k : ~pops[i].entire}
           after == {i \in 1..k + 1 : ~pops[i].entire}
           new == [i \in after |-> IF i = k + 1 THEN cell ELSE at[i]]
           old == Places(groups)
<1>1. after = before \cup {k + 1} /\ k + 1 \notin before
  OBVIOUS
<1>2. /\ at \in [before -> old]
      /\ \A i, j \in before : at[i] = at[j] => i = j
      /\ \A place \in old : \E i \in before : at[i] = place
  BY DEF Placed, Bijection, Injection, Surjection, IsInjective
<1>3. \A i \in before : groups[at[i][1]].numbers[at[i][2]] = pops[i].number
                        /\ ToSet(groups[at[i][1]].periods) = ToSet(pops[i].periods)
  BY DEF Placed
<1>4. \A i \in 1..k + 1 : ~pops[i].entire => i \in after
  OBVIOUS
<1> HIDE DEF before, after, old
<1>5. \A i \in before : new[i] = at[i]
  BY <1>1
<1>6. new[k + 1] = cell
  BY <1>1
<1>7. DOMAIN new = after /\ new = [i \in after |-> new[i]]
  OBVIOUS
<1> HIDE DEF new
<1>8. \A i \in after : new[i] \in old \cup {cell}
  BY <1>1, <1>2, <1>5, <1>6
<1>9. \A i, j \in after : new[i] = new[j] => i = j
  <2>1. \A i \in before : new[i] \in old /\ new[i] # cell
    BY <1>2, <1>5 DEF old
  <2> QED
    BY <1>1, <1>2, <1>5, <1>6, <2>1
<1>10. \A place \in old \cup {cell} : \E i \in after : new[i] = place
  BY <1>1, <1>2, <1>5, <1>6
<1>11. new \in Bijection(after, old \cup {cell})
  BY <1>7, <1>8, <1>9, <1>10 DEF Bijection, Injection, Surjection, IsInjective
<1>12. ASSUME NEW i \in after
       PROVE  more[new[i][1]].numbers[new[i][2]] = pops[i].number
              /\ ToSet(more[new[i][1]].periods) = ToSet(pops[i].periods)
  <2>1. CASE i = k + 1
    BY <1>6, <2>1
  <2>2. CASE i # k + 1
    <3>1. i \in before /\ at[i] \in old
      BY <1>1, <1>2, <2>2
    <3>2. more[at[i][1]].numbers[at[i][2]] = groups[at[i][1]].numbers[at[i][2]]
          /\ more[at[i][1]].periods = groups[at[i][1]].periods
      BY <3>1 DEF old
    <3> QED
      BY <1>3, <1>5, <3>1, <3>2
  <2> QED
    BY <2>1, <2>2
<1>13. Placed(more, pops, k + 1, new)
  BY <1>4, <1>11, <1>12 DEF Placed, after, old
<1> QED
  BY <1>13

\* The first group that a task with these periods may join, or 0.
FirstSame(groups, periods) == SelectInSeq(groups, LAMBDA g : SamePeriods(g, periods))

\* If a group is found, it has the same periods.
LEMMA FirstSameIs ==
  ASSUME NEW groups, Len(groups) \in Nat, NEW periods, FirstSame(groups, periods) # 0
  PROVE  /\ FirstSame(groups, periods) \in 1..Len(groups)
         /\ SamePeriods(groups[FirstSame(groups, periods)], periods)
<1> DEFINE I == {i \in 1..Len(groups) : SamePeriods(groups[i], periods)}
           first == FirstSame(groups, periods)
<1>1. first = IF I # {} THEN Min(I) ELSE 0
  BY Zenon DEF SelectInSeq, FirstSame
<1>2. first # 0
  OBVIOUS
<1> HIDE DEF first
<1>3. I # {} /\ first = Min(I)
  BY <1>1, <1>2
<1>4. I \subseteq Nat
  OBVIOUS
<1>5. \E i \in I : \A j \in I : i <= j
  BY <1>3, <1>4, Least
<1> HIDE DEF I
<1>6. Min(I) \in I
  BY <1>5 DEF Min
<1> QED
  BY <1>3, <1>6 DEF I, first

\* A group is its numbers and its periods.
LEMMA GroupIs ==
  ASSUME NEW N, NEW group
  PROVE  /\ group \in GroupsOf(N) =>
              /\ group.numbers \in Seq(N) /\ Len(group.numbers) \in Nat
              /\ IsDistinct(group.periods)
              /\ group = [numbers |-> group.numbers, periods |-> group.periods]
         /\ \A numbers \in Seq(N) : \A periods : IsDistinct(periods) =>
              [numbers |-> numbers, periods |-> periods] \in GroupsOf(N)
<1>1. \A s : IsDistinct(s) => s \in Seq(Nat)
  BY DEF IsDistinct
<1>2. ASSUME group \in GroupsOf(N)
      PROVE  /\ group.numbers \in Seq(N)
             /\ IsDistinct(group.periods)
             /\ group = [numbers |-> group.numbers, periods |-> group.periods]
  BY <1>2 DEF GroupsOf
<1>3. ASSUME group \in GroupsOf(N) PROVE Len(group.numbers) \in Nat
  BY <1>2, <1>3
<1>4. ASSUME NEW numbers \in Seq(N), NEW periods, IsDistinct(periods)
      PROVE  [numbers |-> numbers, periods |-> periods] \in GroupsOf(N)
  BY <1>1, <1>4 DEF GroupsOf
<1> QED
  BY <1>2, <1>3, <1>4

\* A task joins a group.
Enlarged(groups, first, number) == [groups EXCEPT ![first].numbers = Append(@, number)]

WithNumber(group, number) ==
  [numbers |-> Append(group.numbers, number), periods |-> group.periods]

\* The task number is appended to the numbers of the group, and the group keeps its periods.
LEMMA NumberAppended ==
  ASSUME NEW N, NEW groups, NEW first, NEW number, groups[first] \in GroupsOf(N)
  PROVE  Enlarged(groups, first, number)
           = [groups EXCEPT ![first] = WithNumber(groups[first], number)]
<1> DEFINE numbers == groups[first].numbers
           periods == groups[first].periods
           longer == Append(numbers, number)
<1>1. Enlarged(groups, first, number) = [groups EXCEPT ![first].numbers = longer]
  BY DEF Enlarged
<1> HIDE DEF longer
<1>2. [groups EXCEPT ![first].numbers = longer]
        = [groups EXCEPT ![first] = [groups[first] EXCEPT !.numbers = longer]]
  OBVIOUS
<1> HIDE DEF numbers, periods
<1>3. groups[first] = [numbers |-> numbers, periods |-> periods]
  BY GroupIs DEF numbers, periods
<1>4. [groups[first] EXCEPT !.numbers = longer] = [numbers |-> longer, periods |-> periods]
  BY <1>3
<1> QED
  BY <1>1, <1>2, <1>4 DEF WithNumber, longer, numbers, periods

\* The three cases of a turn of groupSelectedTaskPeriods.
LEMMA JoinTasksIs ==
  ASSUME NEW groups, NEW pop
  PROVE  LET first == FirstSame(groups, pop.periods)
         IN /\ pop.entire => JoinTasks(groups, pop) = groups
            /\ ~pop.entire /\ first # 0 =>
                 JoinTasks(groups, pop) = Enlarged(groups, first, pop.number)
            /\ ~pop.entire /\ first = 0 =>
                 JoinTasks(groups, pop)
                   = Append(groups, [numbers |-> <<pop.number>>, periods |-> pop.periods])
<1> DEFINE first == FirstSame(groups, pop.periods)
           joined == Enlarged(groups, first, pop.number)
           added == Append(groups, [numbers |-> <<pop.number>>, periods |-> pop.periods])
<1>1. JoinTasks(groups, pop) = CASE pop.entire -> groups
                                 [] ~pop.entire /\ first # 0 -> joined
                                 [] OTHER -> added
  BY Zenon DEF JoinTasks, FirstSame, Enlarged
<1> HIDE DEF first, joined, added
<1>2. pop.entire => JoinTasks(groups, pop) = groups
  BY <1>1
<1>3. ~pop.entire /\ first # 0 => JoinTasks(groups, pop) = joined
  BY <1>1
<1>4. ~pop.entire /\ first = 0 => JoinTasks(groups, pop) = added
  BY <1>1
<1> QED
  BY <1>2, <1>3, <1>4 DEF first, joined, added

\* A turn of groupSelectedTaskPeriods finds the next task its place.
LEMMA JoinTasksPlaces ==
  ASSUME NEW N, NEW groups \in Seq(GroupsOf(N)),
         NEW pops, NEW k \in Nat, NEW at, Placed(groups, pops, k, at),
         NEW pop \in PopsOf(N), pop = pops[k + 1]
  PROVE  /\ JoinTasks(groups, pop) \in Seq(GroupsOf(N))
         /\ \E new : Placed(JoinTasks(groups, pop), pops, k + 1, new)
<1> DEFINE m == Len(groups)
           first == FirstSame(groups, pop.periods)
           more == JoinTasks(groups, pop)
<1>1. /\ m \in Nat /\ DOMAIN groups = 1..m
      /\ \A g \in 1..m : /\ groups[g] \in GroupsOf(N)
                         /\ groups[g].numbers \in Seq(N)
                         /\ IsDistinct(groups[g].periods)
  <2>1. m \in Nat /\ DOMAIN groups = 1..m /\ \A g \in 1..m : groups[g] \in GroupsOf(N)
    OBVIOUS
  <2> QED
    BY <2>1, GroupIs
<1>2. pop.number \in N /\ pop.entire \in BOOLEAN /\ IsDistinct(pop.periods) /\ pop.periods \in Seq(Nat)
  BY DEF PopsOf
<1>3. CASE pop.entire
  <2>1. more = groups
    BY <1>3, JoinTasksIs
  <2>2. {i \in 1..k + 1 : ~pops[i].entire} = {i \in 1..k : ~pops[i].entire}
    BY <1>3
  <2>3. Placed(groups, pops, k + 1, at)
    BY <1>3, <2>2 DEF Placed
  <2> QED
    BY <2>1, <2>3
<1>4. CASE ~pop.entire /\ first # 0
  <2>1. first \in 1..m /\ SamePeriods(groups[first], pop.periods)
    BY <1>1, <1>4, FirstSameIs
  <2> DEFINE numbers == groups[first].numbers
             joined == WithNumber(groups[first], pop.number)
             cell == <<first, Len(groups[first].numbers) + 1>>
  <2>2. more = Enlarged(groups, first, pop.number)
    BY <1>4, JoinTasksIs
  <2> HIDE DEF first, more
  <2>3. more = [groups EXCEPT ![first] = joined]
    <3>1. groups[first] \in GroupsOf(N)
      BY <1>1, <2>1
    <3> QED
      BY <2>2, <3>1, NumberAppended
  <2>4. /\ joined \in GroupsOf(N)
        /\ joined.numbers = Append(groups[first].numbers, pop.number)
        /\ joined.periods = groups[first].periods
    <3>1. Append(numbers, pop.number) \in Seq(N)
      BY <1>1, <1>2, <2>1
    <3> QED
      BY <1>1, <2>1, <3>1, GroupIs DEF WithNumber
  <2>5. /\ Len(joined.numbers) = Len(groups[first].numbers) + 1
        /\ \A c \in 1..Len(groups[first].numbers) : joined.numbers[c] = groups[first].numbers[c]
        /\ joined.numbers[Len(groups[first].numbers) + 1] = pop.number
        /\ Len(groups[first].numbers) \in Nat
    BY <1>1, <1>2, <2>1, <2>4
  <2> HIDE DEF joined
  <2>6. /\ more \in Seq(GroupsOf(N)) /\ Len(more) = m /\ more[first] = joined
        /\ \A g \in 1..m : g # first => more[g] = groups[g]
    BY <1>1, <2>1, <2>3, <2>4
  <2>7. cell \notin Places(groups)
    BY <2>5 DEF Places
  <2>8. Places(more) = Places(groups) \cup {cell}
    <3>1. ASSUME NEW g \in 1..m, NEW c \in Nat
          PROVE  c \in 1..Len(more[g].numbers)
                 <=> c \in 1..Len(groups[g].numbers) \/ <<g, c>> = cell
      <4>1. CASE g = first
        BY <2>5, <2>6, <4>1
      <4>2. CASE g # first
        BY <2>6, <4>2
      <4> QED
        BY <4>1, <4>2
    <3>2. cell \in (1..m) \X Nat
      BY <2>1, <2>5
    <3> QED
      BY <2>6, <3>1, <3>2, SMTT(30) DEF Places
  <2>9. ASSUME NEW place \in Places(groups)
        PROVE  /\ more[place[1]].numbers[place[2]] = groups[place[1]].numbers[place[2]]
               /\ more[place[1]].periods = groups[place[1]].periods
    <3>1. place[1] \in 1..m /\ place[2] \in 1..Len(groups[place[1]].numbers)
      BY DEF Places
    <3>2. CASE place[1] = first
      BY <2>4, <2>5, <2>6, <3>1, <3>2
    <3>3. CASE place[1] # first
      BY <2>6, <3>1, <3>3
    <3> QED
      BY <3>2, <3>3
  <2>10. cell[1] = first /\ cell[2] = Len(groups[first].numbers) + 1
    OBVIOUS
  <2>11. more[cell[1]].numbers[cell[2]] = pop.number
    BY <2>5, <2>6, <2>10
  <2>12. ToSet(more[cell[1]].periods) = ToSet(pop.periods)
    <3>1. ToSet(groups[first].periods) = ToSet(pop.periods)
      BY <1>1, <1>2, <2>1, SamePeriodsAreTheSame DEF SamePeriods
    <3> QED
      BY <2>4, <2>6, <2>10, <3>1
  <2> HIDE DEF cell
  <2>13. ~pops[k + 1].entire
    BY <1>4
  <2>14. \E new : Placed(more, pops, k + 1, new)
    BY <2>6, <2>7, <2>8, <2>9, <2>11, <2>12, <2>13, PlacedExtends
  <2> QED
    BY <2>6, <2>14 DEF more
<1>5. CASE ~pop.entire /\ first = 0
  <2> DEFINE group == [numbers |-> <<pop.number>>, periods |-> pop.periods]
             cell == <<m + 1, 1>>
  <2>1. more = Append(groups, group)
    BY <1>5, JoinTasksIs
  <2> HIDE DEF first, more
  <2>2. /\ group \in GroupsOf(N) /\ group.periods = pop.periods
        /\ Len(group.numbers) = 1 /\ group.numbers[1] = pop.number
    <3>1. <<pop.number>> \in Seq(N)
      BY <1>2
    <3> QED
      BY <1>2, <3>1, GroupIs
  <2> HIDE DEF group
  <2>3. /\ more \in Seq(GroupsOf(N)) /\ Len(more) = m + 1 /\ more[m + 1] = group
        /\ \A g \in 1..m : more[g] = groups[g]
    BY <2>1, <2>2, AppendIs
  <2>4. cell \notin Places(groups)
    BY <1>1 DEF Places
  <2>5. Places(more) = Places(groups) \cup {cell}
    <3>1. ASSUME NEW g \in 1..m + 1, NEW c \in Nat
          PROVE  c \in 1..Len(more[g].numbers)
                 <=> (g \in 1..m /\ c \in 1..Len(groups[g].numbers)) \/ <<g, c>> = cell
      <4>1. CASE g = m + 1
        <5>1. Len(more[g].numbers) = 1 /\ g \notin 1..m
          BY <1>1, <2>2, <2>3, <4>1
        <5> QED
          BY <4>1, <5>1
      <4>2. CASE g # m + 1
        <5>1. g \in 1..m /\ more[g] = groups[g]
          BY <1>1, <2>3, <4>2
        <5> QED
          BY <4>2, <5>1
      <4> QED
        BY <4>1, <4>2
    <3>2. cell \in (1..m + 1) \X Nat /\ \A g \in 1..m : g \in 1..m + 1
      BY <1>1
    <3> QED
      BY <2>3, <3>1, <3>2 DEF Places
  <2>6. ASSUME NEW place \in Places(groups)
        PROVE  /\ more[place[1]].numbers[place[2]] = groups[place[1]].numbers[place[2]]
               /\ more[place[1]].periods = groups[place[1]].periods
    <3>1. place[1] \in 1..m
      BY DEF Places
    <3> QED
      BY <2>3, <3>1
  <2>7. cell[1] = m + 1 /\ cell[2] = 1
    OBVIOUS
  <2>8. more[cell[1]].numbers[cell[2]] = pop.number /\ ToSet(more[cell[1]].periods) = ToSet(pop.periods)
    BY <2>2, <2>3, <2>7
  <2> HIDE DEF cell
  <2>9. ~pops[k + 1].entire
    BY <1>5
  <2>10. \E new : Placed(more, pops, k + 1, new)
    BY <2>3, <2>4, <2>5, <2>6, <2>8, <2>9, PlacedExtends
  <2> QED
    BY <2>3, <2>10 DEF more
<1> QED
  BY <1>2, <1>3, <1>4, <1>5

JoiningTasks == INSTANCE FoldLaws WITH Op <- JoinTasks

\* The loop of groupSelectedTaskPeriods, turn by turn.
LEMMA JoiningTasksSteps ==
  ASSUME NEW s, NEW n \in Nat, DOMAIN s = 1..n
  PROVE  \E h : /\ h[0] = <<>>
                /\ \A k \in 1..n : h[k] = JoinTasks(h[k - 1], s[k])
                /\ JoiningTasks!Fold(<<>>, s) = h[n]
BY JoiningTasks!FoldSteps

\* The groups of task numbers are what the loop leaves.
LEMMA TaskNumberGroupsFold == \A pops : TaskNumberGroups(pops) = JoiningTasks!Fold(<<>>, pops)
BY Zenon DEF TaskNumberGroups, JoiningTasks!Fold, FoldLeft, JoiningTasks!FoldLeft, MapThenFoldSet,
             JoiningTasks!MapThenFoldSet, Max, JoiningTasks!Max

\* Before the loop no task has a place.
LEMMA NothingPlaced == \A pops : \E at : Placed(<<>>, pops, 0, at)
<1> SUFFICES ASSUME NEW pops PROVE \E at : Placed(<<>>, pops, 0, at)
  OBVIOUS
<1> DEFINE at == [i \in 1..0 |-> 0]
<1>1. 1..0 = {} /\ {i \in 1..0 : ~pops[i].entire} = {}
  OBVIOUS
<1>2. Places(<<>>) = {}
  BY DEF Places
<1>3. at \in Bijection({}, {})
  BY <1>1 DEF Bijection, Injection, Surjection, IsInjective
<1>4. Placed(<<>>, pops, 0, at)
  BY <1>1, <1>2, <1>3 DEF Placed
<1> QED
  BY <1>4

\* groupSelectedTaskPeriods finds every task a place of its own.
LEMMA TaskNumberGroupsPlaces ==
  ASSUME NEW N, NEW pops \in Seq(PopsOf(N))
  PROVE  /\ TaskNumberGroups(pops) \in Seq(GroupsOf(N))
         /\ \E at : Placed(TaskNumberGroups(pops), pops, Len(pops), at)
<1> DEFINE n == Len(pops)
<1>1. n \in Nat /\ DOMAIN pops = 1..n /\ \A k \in 1..n : pops[k] \in PopsOf(N)
  OBVIOUS
<1> HIDE DEF n
<1>2. PICK h : /\ h[0] = <<>>
               /\ \A k \in 1..n : h[k] = JoinTasks(h[k - 1], pops[k])
               /\ JoiningTasks!Fold(<<>>, pops) = h[n]
  BY <1>1, JoiningTasksSteps
<1> DEFINE E(k) == h[k] \in Seq(GroupsOf(N)) /\ \E at : Placed(h[k], pops, k, at)
           K == {k \in Nat : k <= n => E(k)}
<1>3. E(0)
  <2>1. <<>> \in Seq(GroupsOf(N))
    OBVIOUS
  <2> QED
    BY <1>2, <2>1, NothingPlaced
<1>4. ASSUME NEW k \in Nat, E(k), k + 1 <= n PROVE E(k + 1)
  <2>1. k + 1 \in 1..n /\ (k + 1) - 1 = k
    BY <1>1, <1>4
  <2>2. h[k + 1] = JoinTasks(h[k], pops[k + 1]) /\ pops[k + 1] \in PopsOf(N)
    BY <1>1, <1>2, <2>1
  <2>3. PICK at : Placed(h[k], pops, k, at)
    BY <1>4
  <2>4. h[k] \in Seq(GroupsOf(N))
    BY <1>4
  <2> QED
    BY <2>2, <2>3, <2>4, JoinTasksPlaces
<1> HIDE DEF E
<1>5. 0 \in K /\ \A k \in Nat : k \in K => k + 1 \in K
  <2>1. \A k \in Nat : k + 1 <= n => k <= n
    BY <1>1
  <2> QED
    BY <1>3, <1>4, <2>1
<1> HIDE DEF K
<1>6. n \in K
  BY <1>1, <1>5, Induction
<1>7. E(n)
  <2>1. n <= n
    BY <1>1
  <2> QED
    BY <1>6, <2>1 DEF K
<1> QED
  BY <1>2, <1>7, TaskNumberGroupsFold DEF E, n

-----------------------------------------------------------------------------
Entire(pops) == {i \in DOMAIN pops : pops[i].entire}

\* The first row of the table has the tasks for the entire duration, each once.
LEMMA EntireDurationTasksAre ==
  ASSUME NEW N, NEW pops \in Seq(PopsOf(N))
  PROVE  LET q == InOrder(Entire(pops))
             m == Cardinality(Entire(pops))
         IN /\ m \in Nat
            /\ EntireDurationTasks(pops) \in Seq(N) /\ Len(EntireDurationTasks(pops)) = m
            /\ q \in [1..m -> Entire(pops)]
            /\ \A i, j \in 1..m : q[i] = q[j] => i = j
            /\ \A i \in Entire(pops) : \E c \in 1..m : q[c] = i
            /\ \A c \in 1..m : EntireDurationTasks(pops)[c] = pops[q[c]].number
<1> DEFINE q == InOrder(Entire(pops))
           m == Cardinality(Entire(pops))
           numbers == [c \in 1..m |-> pops[q[c]].number]
<1>1. Len(pops) \in Nat /\ DOMAIN pops = 1..Len(pops)
  OBVIOUS
<1>2. Entire(pops) \in SUBSET (1..Len(pops))
  BY <1>1 DEF Entire
<1>3. /\ m \in Nat
      /\ q \in [1..m -> Entire(pops)]
      /\ \A i \in Entire(pops) : \E c \in 1..m : q[c] = i
      /\ Increasing(q, m)
  BY <1>1, <1>2, InOrderIs
<1>4. EntireDurationTasks(pops) = NumbersOf(Picked(pops, q))
  BY Zenon DEF EntireDurationTasks, Filter, Entire
<1> HIDE DEF q, m
<1>5. \A c \in 1..m : q[c] \in 1..Len(pops) /\ pops[q[c]] \in PopsOf(N)
  BY <1>1, <1>2, <1>3
<1>6. NumbersOf(Picked(pops, q)) = numbers
  <2>1. Picked(pops, q) = [c \in 1..m |-> pops[q[c]]]
    BY <1>3 DEF Picked
  <2> QED
    BY <2>1 DEF NumbersOf
<1>7. \A c \in 1..m : pops[q[c]].number \in N
  BY <1>5 DEF PopsOf
<1>8. numbers \in Seq(N) /\ Len(numbers) = m
  BY <1>3, <1>7
<1>9. ASSUME NEW i \in 1..m, NEW j \in 1..m, q[i] = q[j] PROVE i = j
  <2>1. \A k \in 1..m : q[k] \in Nat
    BY <1>5
  <2>2. CASE i < j
    BY <1>3, <1>9, <2>1, <2>2 DEF Increasing
  <2>3. CASE j < i
    BY <1>3, <1>9, <2>1, <2>3 DEF Increasing
  <2> QED
    BY <1>3, <2>2, <2>3
<1> QED
  BY <1>3, <1>4, <1>6, <1>8, <1>9 DEF q, m

\* The columns marked for a task.
MarksOf(pop, columns) ==
  IF pop.entire THEN ToSet(columns) ELSE ToSet(columns) \cap ToSet(pop.periods)

RowsOf(N) == [numbers : Seq(N), marks : SUBSET Nat]

\* The rows of the table: that of the entire duration, then one for each group.
LEMMA PopTableRows ==
  ASSUME NEW N, NEW pops \in Seq(PopsOf(N)), NEW columns, ToSet(columns) \subseteq Nat
  PROVE  LET groups == TaskNumberGroups(pops)
             table == PopTable(pops, columns)
         IN /\ table \in Seq(RowsOf(N))
            /\ Len(table) = Len(groups) + 1
            /\ table[1].numbers = EntireDurationTasks(pops)
            /\ table[1].marks = ToSet(columns)
            /\ \A g \in 1..Len(groups) :
                 /\ table[g + 1].numbers = groups[g].numbers
                 /\ table[g + 1].marks = ToSet(columns) \cap ToSet(groups[g].periods)
<1> DEFINE groups == TaskNumberGroups(pops)
           m == Len(groups)
           row == [numbers |-> EntireDurationTasks(pops), marks |-> ToSet(columns)]
           rows == [g \in 1..m |-> [numbers |-> groups[g].numbers,
                                    marks |-> ToSet(columns) \cap ToSet(groups[g].periods)]]
           table == <<row>> \o rows
<1>1. groups \in Seq(GroupsOf(N))
  BY TaskNumberGroupsPlaces
<1>2. m \in Nat /\ DOMAIN groups = 1..m /\ \A g \in 1..m : groups[g] \in GroupsOf(N)
  BY <1>1
<1>3. PopTable(pops, columns) = table
  BY <1>2 DEF PopTable
<1>4. EntireDurationTasks(pops) \in Seq(N)
  BY EntireDurationTasksAre
<1> HIDE DEF groups, m
<1>5. row \in RowsOf(N) /\ row.numbers = EntireDurationTasks(pops) /\ row.marks = ToSet(columns)
  BY <1>4 DEF RowsOf
<1>6. ASSUME NEW g \in 1..m
      PROVE  /\ rows[g] \in RowsOf(N) /\ rows[g].numbers = groups[g].numbers
             /\ rows[g].marks = ToSet(columns) \cap ToSet(groups[g].periods)
  <2>1. groups[g].numbers \in Seq(N)
    BY <1>2, GroupIs
  <2> QED
    BY <2>1 DEF RowsOf
<1>7. DOMAIN rows = 1..m /\ rows = [g \in 1..m |-> rows[g]]
  OBVIOUS
<1> HIDE DEF row, rows
<1>8. rows \in Seq(RowsOf(N)) /\ Len(rows) = m
  BY <1>2, <1>6, <1>7
<1>9. /\ table \in Seq(RowsOf(N)) /\ Len(table) = m + 1 /\ table[1] = row
      /\ \A g \in 1..m : table[g + 1] = rows[g]
  BY <1>2, <1>5, <1>8
<1> QED
  BY <1>3, <1>5, <1>6, <1>9 DEF groups, m

\* Every task of a package has a place of its own in the PoP table, in a row with its
\* periods, and no other place is taken.
LEMMA PopTablePlaces ==
  ASSUME NEW N, NEW pops \in Seq(PopsOf(N)), NEW columns, ToSet(columns) \subseteq Nat
  PROVE  LET table == PopTable(pops, columns)
         IN \E at \in Bijection(1..Len(pops), Places(table)) :
              \A i \in 1..Len(pops) :
                /\ table[at[i][1]].numbers[at[i][2]] = pops[i].number
                /\ table[at[i][1]].marks = MarksOf(pops[i], columns)
<1> DEFINE n == Len(pops)
           table == PopTable(pops, columns)
           groups == TaskNumberGroups(pops)
           m == Len(groups)
           q == InOrder(Entire(pops))
           e == Cardinality(Entire(pops))
           rest == {i \in 1..n : ~pops[i].entire}
<1>1. n \in Nat /\ DOMAIN pops = 1..n /\ \A i \in 1..n : pops[i].entire \in BOOLEAN
  <2>1. n \in Nat /\ DOMAIN pops = 1..n /\ \A i \in 1..n : pops[i] \in PopsOf(N)
    OBVIOUS
  <2> QED
    BY <2>1 DEF PopsOf
<1>2. groups \in Seq(GroupsOf(N)) /\ m \in Nat
  BY TaskNumberGroupsPlaces
<1>3. PICK old : Placed(groups, pops, n, old)
  BY TaskNumberGroupsPlaces
<1>4. /\ Len(table) = m + 1
      /\ table[1].numbers = EntireDurationTasks(pops)
      /\ table[1].marks = ToSet(columns)
      /\ \A g \in 1..m : /\ table[g + 1].numbers = groups[g].numbers
                         /\ table[g + 1].marks = ToSet(columns) \cap ToSet(groups[g].periods)
  BY PopTableRows
<1>5. /\ e \in Nat
      /\ Len(EntireDurationTasks(pops)) = e
      /\ q \in [1..e -> Entire(pops)]
      /\ \A i, j \in 1..e : q[i] = q[j] => i = j
      /\ \A i \in Entire(pops) : \E c \in 1..e : q[c] = i
      /\ \A c \in 1..e : EntireDurationTasks(pops)[c] = pops[q[c]].number
  BY EntireDurationTasksAre
<1>6. 1..n = Entire(pops) \cup rest /\ Entire(pops) \cap rest = {}
  BY <1>1 DEF Entire
<1>7. /\ old \in [rest -> Places(groups)]
      /\ \A i, j \in rest : old[i] = old[j] => i = j
      /\ \A place \in Places(groups) : \E i \in rest : old[i] = place
      /\ \A i \in rest : /\ groups[old[i][1]].numbers[old[i][2]] = pops[i].number
                         /\ ToSet(groups[old[i][1]].periods) = ToSet(pops[i].periods)
  BY <1>3 DEF Placed, Bijection, Injection, Surjection, IsInjective
<1>8. \A i \in Entire(pops) : pops[i].entire
  BY DEF Entire
<1>9. \A i \in rest : ~pops[i].entire
  OBVIOUS
<1> HIDE DEF n, table, groups, m, q, e, rest
<1> DEFINE back == [i \in Entire(pops) |-> CHOOSE c \in 1..e : q[c] = i]
           at == [i \in 1..n |-> IF i \in rest THEN <<old[i][1] + 1, old[i][2]>> ELSE <<1, back[i]>>]
<1>10. \A i \in Entire(pops) : back[i] \in 1..e /\ q[back[i]] = i
  BY <1>5
<1>11. ASSUME NEW i \in rest
       PROVE  /\ i \in 1..n
              /\ at[i] = <<old[i][1] + 1, old[i][2]>>
              /\ old[i][1] \in 1..m /\ old[i][2] \in Nat
              /\ old[i][2] \in 1..Len(groups[old[i][1]].numbers)
              /\ old[i] = <<old[i][1], old[i][2]>>
              /\ at[i][1] = old[i][1] + 1 /\ at[i][2] = old[i][2]
  <2>1. i \in 1..n
    BY <1>6
  <2>2. old[i] \in Places(groups)
    BY <1>7
  <2>3. old[i] \in (1..m) \X Nat /\ old[i][2] \in 1..Len(groups[old[i][1]].numbers)
    BY <2>2 DEF Places, m
  <2>4. old[i][1] \in 1..m /\ old[i][2] \in Nat /\ old[i] = <<old[i][1], old[i][2]>>
    BY <2>3
  <2>5. at[i] = <<old[i][1] + 1, old[i][2]>>
    BY <2>1
  <2> HIDE DEF at
  <2> QED
    BY <2>1, <2>3, <2>4, <2>5
<1>12. ASSUME NEW i \in Entire(pops)
       PROVE  i \in 1..n /\ at[i] = <<1, back[i]>> /\ at[i][1] = 1 /\ at[i][2] = back[i]
  BY <1>6
<1>13. DOMAIN at = 1..n /\ at = [i \in 1..n |-> at[i]]
  OBVIOUS
<1> HIDE DEF at, back
<1>14. ASSUME NEW i \in 1..n PROVE at[i] \in Places(table)
  <2>1. CASE i \in rest
    <3>1. old[i][1] + 1 \in 1..m + 1 /\ old[i][1] \in 1..m
      BY <1>2, <1>11, <2>1
    <3>2. table[old[i][1] + 1].numbers = groups[old[i][1]].numbers
      BY <1>4, <3>1
    <3>3. at[i] \in (1..m + 1) \X Nat
      <4>1. <<old[i][1] + 1, old[i][2]>> \in (1..m + 1) \X Nat
        BY <1>11, <2>1, <3>1
      <4> QED
        BY <1>11, <2>1, <4>1
    <3> QED
      BY <1>4, <1>11, <2>1, <3>2, <3>3 DEF Places
  <2>2. CASE i \in Entire(pops)
    <3>1. back[i] \in 1..e /\ 1 \in 1..m + 1
      BY <1>2, <1>10, <2>2
    <3>2. back[i] \in Nat /\ Len(table[1].numbers) = e
      BY <1>4, <1>5, <3>1
    <3>3. <<1, back[i]>> \in (1..m + 1) \X Nat
      BY <3>1, <3>2
    <3>4. at[i] \in (1..m + 1) \X Nat
      BY <1>12, <2>2, <3>3
    <3>5. at[i][2] \in 1..Len(table[at[i][1]].numbers)
      BY <1>12, <2>2, <3>1, <3>2
    <3> QED
      BY <1>4, <3>4, <3>5 DEF Places
  <2> QED
    BY <1>6, <2>1, <2>2
<1>15. ASSUME NEW i \in 1..n, NEW j \in 1..n, at[i] = at[j] PROVE i = j
  <2>1. CASE i \in rest /\ j \in rest
    <3>1. old[i][1] + 1 = old[j][1] + 1 /\ old[i][2] = old[j][2]
      BY <1>11, <1>15, <2>1
    <3>2. old[i][1] \in Nat /\ old[j][1] \in Nat
      BY <1>11, <2>1
    <3>3. old[i][1] = old[j][1]
      BY <3>1, <3>2
    <3>4. old[i] = old[j]
      BY <1>11, <2>1, <3>1, <3>3
    <3> QED
      BY <1>7, <2>1, <3>4
  <2>2. CASE i \in Entire(pops) /\ j \in Entire(pops)
    BY <1>10, <1>12, <1>15, <2>2
  <2>3. ASSUME NEW a \in rest, NEW b \in Entire(pops) PROVE at[a] # at[b]
    <3>1. at[a][1] = old[a][1] + 1 /\ old[a][1] \in 1..m /\ at[b][1] = 1
      BY <1>11, <1>12
    <3> QED
      BY <3>1
  <2> QED
    BY <1>6, <1>15, <2>1, <2>2, <2>3
<1>16. ASSUME NEW place \in Places(table) PROVE \E i \in 1..n : at[i] = place
  <2>1. place \in (1..m + 1) \X Nat /\ place[2] \in 1..Len(table[place[1]].numbers)
    BY <1>4 DEF Places
  <2>2. place[1] \in 1..m + 1 /\ place[2] \in Nat /\ place = <<place[1], place[2]>>
    BY <2>1
  <2>3. CASE place[1] = 1
    <3>1. place[2] \in 1..e
      BY <1>4, <1>5, <2>1, <2>3
    <3>2. q[place[2]] \in Entire(pops) /\ back[q[place[2]]] = place[2]
      BY <1>5, <1>10, <3>1
    <3> QED
      BY <1>12, <2>2, <2>3, <3>2
  <2>4. CASE place[1] # 1
    <3> DEFINE g == place[1] - 1
               lower == <<g, place[2]>>
    <3>1. g \in 1..m /\ g + 1 = place[1]
      BY <1>2, <2>2, <2>4
    <3>2. lower \in (1..m) \X Nat /\ lower[1] = g /\ lower[2] = place[2]
      BY <2>2, <3>1
    <3> HIDE DEF g
    <3>3. place[2] \in 1..Len(groups[g].numbers)
      BY <1>4, <2>1, <3>1
    <3>4. lower \in Places(groups)
      BY <3>2, <3>3 DEF Places, m
    <3>5. PICK i \in rest : old[i] = lower
      BY <1>7, <3>4
    <3>6. at[i] = <<g + 1, place[2]>>
      BY <1>11, <3>2, <3>5
    <3> QED
      BY <1>11, <2>2, <3>1, <3>6
  <2> QED
    BY <2>3, <2>4
<1>17. at \in Bijection(1..n, Places(table))
  BY <1>13, <1>14, <1>15, <1>16 DEF Bijection, Injection, Surjection, IsInjective
<1>18. ASSUME NEW i \in 1..n
       PROVE  /\ table[at[i][1]].numbers[at[i][2]] = pops[i].number
              /\ table[at[i][1]].marks = MarksOf(pops[i], columns)
  <2>1. CASE i \in rest
    <3>1. old[i][1] \in 1..m
      BY <1>11, <2>1
    <3>2. /\ table[old[i][1] + 1].numbers = groups[old[i][1]].numbers
          /\ table[old[i][1] + 1].marks = ToSet(columns) \cap ToSet(groups[old[i][1]].periods)
      BY <1>4, <3>1
    <3>3. at[i][1] = old[i][1] + 1 /\ at[i][2] = old[i][2]
      BY <1>11, <2>1
    <3>4. table[at[i][1]].numbers[at[i][2]] = pops[i].number
      <4>1. table[at[i][1]].numbers = groups[old[i][1]].numbers
        BY <3>2, <3>3
      <4>2. groups[old[i][1]].numbers[old[i][2]] = pops[i].number
        BY <1>7, <2>1
      <4> QED
        BY <3>3, <4>1, <4>2
    <3>5. table[at[i][1]].marks = ToSet(columns) \cap ToSet(pops[i].periods)
      <4>1. table[at[i][1]].marks = ToSet(columns) \cap ToSet(groups[old[i][1]].periods)
        BY <3>2, <3>3
      <4>2. ToSet(groups[old[i][1]].periods) = ToSet(pops[i].periods)
        BY <1>7, <2>1
      <4> QED
        BY <4>1, <4>2
    <3> QED
      BY <1>9, <2>1, <3>4, <3>5 DEF MarksOf
  <2>2. CASE i \in Entire(pops)
    <3>1. table[at[i][1]].numbers[at[i][2]] = pops[i].number
      <4>1. at[i][1] = 1 /\ at[i][2] = back[i] /\ back[i] \in 1..e /\ q[back[i]] = i
        BY <1>10, <1>12, <2>2
      <4>2. table[at[i][1]].numbers = EntireDurationTasks(pops)
        BY <1>4, <4>1
      <4>3. EntireDurationTasks(pops)[back[i]] = pops[q[back[i]]].number
        BY <1>5, <4>1
      <4> QED
        BY <4>1, <4>2, <4>3
    <3>2. table[at[i][1]].marks = MarksOf(pops[i], columns)
      BY <1>4, <1>8, <1>12, <2>2 DEF MarksOf
    <3> QED
      BY <3>1, <3>2
  <2> QED
    BY <1>6, <2>1, <2>2
<1> QED
  BY <1>17, <1>18 DEF n, table

-----------------------------------------------------------------------------
(***************************************************************************)
(* The tasks of a package. A sequence lists the values of a function on a  *)
(* set if a bijection leads from its places to the members of the set: so  *)
(* a sequence that is sorted, filtered and flattened has each task once.   *)
(***************************************************************************)
\* A sequence lists the values of F on D, each once for every member of D that has it.
Lists(seq, D, F) ==
  \E at \in Bijection(D, 1..Len(seq)) : \A d \in D : seq[at[d]] = F[d]

\* Two lists of different things, one behind the other, list both.
LEMMA ListsConcatenation ==
  ASSUME NEW T, NEW a \in Seq(T), NEW b \in Seq(T), NEW A, NEW B, A \cap B = {}, NEW F,
         Lists(a, A, F), Lists(b, B, F)
  PROVE  Lists(a \o b, A \cup B, F)
<1> DEFINE m == Len(a)
           n == Len(b)
           ab == a \o b
<1>1. /\ m \in Nat /\ n \in Nat /\ Len(ab) = m + n
      /\ \A i \in 1..m : ab[i] = a[i]
      /\ \A i \in 1..n : ab[m + i] = b[i]
  OBVIOUS
<1>2. PICK f \in Bijection(A, 1..m) : \A d \in A : a[f[d]] = F[d]
  BY DEF Lists
<1>3. PICK g \in Bijection(B, 1..n) : \A d \in B : b[g[d]] = F[d]
  BY DEF Lists
<1>4. /\ f \in [A -> 1..m]
      /\ \A c, d \in A : f[c] = f[d] => c = d
      /\ \A i \in 1..m : \E d \in A : f[d] = i
  BY DEF Bijection, Injection, Surjection, IsInjective
<1>5. /\ g \in [B -> 1..n]
      /\ \A c, d \in B : g[c] = g[d] => c = d
      /\ \A i \in 1..n : \E d \in B : g[d] = i
  BY DEF Bijection, Injection, Surjection, IsInjective
<1> HIDE DEF m, n, ab
<1> DEFINE at == [d \in A \cup B |-> IF d \in A THEN f[d] ELSE m + g[d]]
<1>6. \A d \in A : at[d] = f[d] /\ f[d] \in 1..m
  BY <1>4
<1>7. \A d \in B : at[d] = m + g[d] /\ g[d] \in 1..n
  BY <1>5
<1>8. at = [d \in A \cup B |-> at[d]]
  OBVIOUS
<1> HIDE DEF at
<1>9. ASSUME NEW d \in A \cup B PROVE at[d] \in 1..m + n /\ ab[at[d]] = F[d]
  <2>1. CASE d \in A
    <3>1. f[d] \in 1..m + n
      BY <1>1, <1>6, <2>1
    <3> QED
      BY <1>1, <1>2, <1>6, <2>1, <3>1
  <2>2. CASE d \in B
    <3>1. m + g[d] \in 1..m + n
      BY <1>1, <1>7, <2>2
    <3>2. ab[m + g[d]] = b[g[d]]
      BY <1>1, <1>7, <2>2
    <3> QED
      BY <1>3, <1>7, <2>2, <3>1, <3>2
  <2> QED
    BY <2>1, <2>2
<1>10. ASSUME NEW c \in A \cup B, NEW d \in A \cup B, at[c] = at[d] PROVE c = d
  <2>1. ASSUME NEW x \in A, NEW y \in B PROVE at[x] # at[y]
    <3>1. f[x] \in 1..m /\ g[y] \in 1..n /\ at[x] = f[x] /\ at[y] = m + g[y]
      BY <1>6, <1>7
    <3> QED
      BY <1>1, <3>1
  <2>2. CASE c \in A /\ d \in A
    BY <1>4, <1>6, <1>10, <2>2
  <2>3. CASE c \in B /\ d \in B
    <3>1. g[c] \in 1..n /\ g[d] \in 1..n /\ m + g[c] = m + g[d]
      BY <1>7, <1>10, <2>3
    <3>2. g[c] = g[d]
      BY <1>1, <3>1
    <3> QED
      BY <1>5, <2>3, <3>2
  <2> QED
    BY <1>10, <2>1, <2>2, <2>3
<1>11. ASSUME NEW i \in 1..m + n PROVE \E d \in A \cup B : at[d] = i
  <2>1. CASE i \in 1..m
    BY <1>4, <1>6, <2>1
  <2>2. CASE i \notin 1..m
    <3>1. i - m \in 1..n /\ m + (i - m) = i
      BY <1>1, <2>2
    <3>2. PICK d \in B : g[d] = i - m
      BY <1>5, <3>1
    <3> QED
      BY <1>7, <3>1, <3>2
  <2> QED
    BY <2>1, <2>2
<1>12. at \in Bijection(A \cup B, 1..m + n)
  BY <1>8, <1>9, <1>10, <1>11 DEF Bijection, Injection, Surjection, IsInjective
<1> QED
  BY <1>1, <1>9, <1>12 DEF Lists, ab

\* The empty list lists nothing.
LEMMA ListsNothing == \A F : Lists(<<>>, {}, F)
<1> DEFINE at == [d \in {} |-> 0]
<1>1. at \in Bijection({}, 1..0)
  <2>1. 1..0 = {}
    OBVIOUS
  <2> QED
    BY <2>1 DEF Bijection, Injection, Surjection, IsInjective
<1>2. Len(<<>>) = 0
  OBVIOUS
<1> QED
  BY <1>1, <1>2 DEF Lists

\* A list of the members of one set is one of an equal set.
LEMMA ListsAre ==
  ASSUME NEW seq, NEW D, NEW E, D = E, NEW F, Lists(seq, D, F)
  PROVE  Lists(seq, E, F)
OBVIOUS

\* Listing the parts of D one after the other lists D.
LEMMA ListsFlattened ==
  ASSUME NEW T, NEW seqs \in Seq(Seq(T)), NEW D, NEW F, NEW part \in [D -> 1..Len(seqs)],
         \A s \in 1..Len(seqs) : Lists(seqs[s], {d \in D : part[d] = s}, F)
  PROVE  Lists(FlattenSeq(seqs), D, F)
<1> DEFINE n == Len(seqs)
           Upto(k) == {d \in D : part[d] <= k}
           At(k) == {d \in D : part[d] = k}
           E(k) == Lists(FlattenSeq(SubSeq(seqs, 1, k)), Upto(k), F)
           K == {k \in Nat : k <= n => E(k)}
<1>1. n \in Nat /\ (\A s \in 1..n : seqs[s] \in Seq(T)) /\ \A d \in D : part[d] \in 1..n
  OBVIOUS
<1>2. E(0)
  <2>1. SubSeq(seqs, 1, 0) = <<>>
    OBVIOUS
  <2>2. Upto(0) = {}
    BY <1>1
  <2> QED
    BY <2>1, <2>2, FlattenNothing, ListsNothing
<1>3. ASSUME NEW k \in Nat, k + 1 <= n, E(k) PROVE E(k + 1)
  <2> DEFINE before == SubSeq(seqs, 1, k)
             s == seqs[k + 1]
  <2>1. k <= n /\ k + 1 \in 1..n
    BY <1>1, <1>3
  <2>2. /\ before \in Seq(Seq(T)) /\ s \in Seq(T)
        /\ SubSeq(seqs, 1, k + 1) = Append(before, s)
    BY <2>1
  <2>3. Lists(FlattenSeq(before), Upto(k), F)
    BY <1>3, <2>1
  <2>4. Lists(s, At(k + 1), F)
    BY <2>1
  <2>5. Upto(k + 1) = Upto(k) \cup At(k + 1) /\ Upto(k) \cap At(k + 1) = {}
    <3>1. ASSUME NEW d \in D PROVE part[d] <= k + 1 <=> part[d] <= k \/ part[d] = k + 1
      <4>1. part[d] \in 1..n
        BY <1>1
      <4> QED
        BY <4>1
    <3>2. ASSUME NEW d \in D PROVE ~(part[d] <= k /\ part[d] = k + 1)
      OBVIOUS
    <3> QED
      BY <3>1, <3>2
  <2>6. FlattenSeq(before) \in Seq(T)
    BY <2>2, FlattenIs
  <2>7. FlattenSeq(Append(before, s)) = FlattenSeq(before) \o s
    <3>1. CASE before = <<>>
      <4>1. \A x : Append(<<>>, x) = <<x>>
        OBVIOUS
      <4>2. FlattenSeq(Append(before, s)) = s
        BY <3>1, <4>1, FlattenOne
      <4>3. FlattenSeq(before) = <<>>
        BY <3>1, FlattenNothing
      <4>4. <<>> \o s = s
        BY <2>2
      <4> QED
        BY <4>2, <4>3, <4>4
    <3>2. CASE before # <<>>
      BY <2>2, <3>2, FlattenAppend
    <3> QED
      BY <3>1, <3>2
  <2> HIDE DEF before, s, Upto, At
  <2>8. Lists(FlattenSeq(before) \o s, Upto(k) \cup At(k + 1), F)
    BY <2>2, <2>3, <2>4, <2>5, <2>6, ListsConcatenation
  <2> QED
    BY <2>2, <2>5, <2>7, <2>8
<1> HIDE DEF E
<1>9. 0 \in K /\ \A k \in Nat : k \in K => k + 1 \in K
  <2>1. \A k \in Nat : k + 1 <= n => k <= n
    BY <1>1
  <2> QED
    BY <1>2, <1>3, <2>1
<1> HIDE DEF K
<1>4. n \in K
  BY <1>1, <1>9, Induction
<1>5. SubSeq(seqs, 1, n) = seqs
  OBVIOUS
<1>6. Upto(n) = D
  BY <1>1
<1>7. n <= n
  BY <1>1
<1>8. Lists(FlattenSeq(SubSeq(seqs, 1, n)), Upto(n), F)
  BY <1>4, <1>7 DEF K, E
<1> QED
  BY <1>5, <1>6, <1>8

\* A list under other names.
LEMMA ListsRenamed ==
  ASSUME NEW seq, NEW D, NEW F, Lists(seq, D, F), NEW E, NEW r \in Bijection(E, D), NEW G,
         \A e \in E : G[e] = F[r[e]]
  PROVE  Lists(seq, E, G)
<1>1. PICK at \in Bijection(D, 1..Len(seq)) : \A d \in D : seq[at[d]] = F[d]
  BY DEF Lists
<1> DEFINE new == [e \in E |-> at[r[e]]]
<1>2. new \in Bijection(E, 1..Len(seq))
  BY DEF Bijection, Injection, Surjection, IsInjective
<1>3. \A e \in E : seq[new[e]] = G[e]
  BY <1>1 DEF Bijection, Injection
<1> QED
  BY <1>2, <1>3 DEF Lists

\* A list of values is one of any function with those values.
LEMMA ListsSameValues ==
  ASSUME NEW seq, NEW D, NEW F, Lists(seq, D, F), NEW G, \A d \in D : G[d] = F[d]
  PROVE  Lists(seq, D, G)
BY DEF Lists

\* indexOf finds an element of the array.
LEMMA PositionIs ==
  ASSUME NEW seq, NEW e \in ToSet(seq)
  PROVE  Position(e, seq) \in DOMAIN seq /\ seq[Position(e, seq)] = e
<1>1. \E i \in DOMAIN seq : seq[i] = e
  BY DEF ToSet
<1>2. Position(e, seq) = CHOOSE i \in DOMAIN seq : seq[i] = e
  BY Zenon DEF Position
<1> QED
  BY <1>1, <1>2

\* The five classification levels, in the order of their numbers.
LEMMA LevelsAre ==
  /\ DOMAIN ClassificationLevels = 1..5
  /\ \A l, m \in 1..5 : ClassificationLevels[l] = ClassificationLevels[m] => l = m
  /\ Position("IL2", ClassificationLevels) = 1
  /\ Position("IL4", ClassificationLevels) = 2
  /\ Position("IL5", ClassificationLevels) = 3
  /\ Position("IL6", ClassificationLevels) = 4
  /\ Position("TS", ClassificationLevels) = 5
  /\ ToSet(ClassificationLevels) = {"IL2", "IL4", "IL5", "IL6", "TS"}
<1>1. /\ DOMAIN ClassificationLevels = 1..5
      /\ ClassificationLevels[1] = "IL2" /\ ClassificationLevels[2] = "IL4"
      /\ ClassificationLevels[3] = "IL5" /\ ClassificationLevels[4] = "IL6"
      /\ ClassificationLevels[5] = "TS"
  BY DEF ClassificationLevels
<1>2. \A l \in 1..5 : l \in {1, 2, 3, 4, 5}
  OBVIOUS
<1>3. \A l, m \in 1..5 : ClassificationLevels[l] = ClassificationLevels[m] => l = m
  BY <1>1, <1>2
<1>4. ToSet(ClassificationLevels) = {"IL2", "IL4", "IL5", "IL6", "TS"}
  BY <1>1, <1>2 DEF ToSet
<1>5. \A e \in ToSet(ClassificationLevels) : /\ Position(e, ClassificationLevels) \in 1..5
                                             /\ ClassificationLevels[Position(e, ClassificationLevels)] = e
  BY <1>1, PositionIs
<1>6. \A e \in ToSet(ClassificationLevels), l \in 1..5 :
        ClassificationLevels[l] = e => Position(e, ClassificationLevels) = l
  BY <1>3, <1>5
<1> QED
  BY <1>1, <1>3, <1>4, <1>6

\* The eleven groups of services, in the order of their numbers.
LEMMA XaasGroupsAre ==
  /\ DOMAIN XaasServiceGroups = 1..11
  /\ \A l, m \in 1..11 : XaasServiceGroups[l] = XaasServiceGroups[m] => l = m
  /\ ToSet(XaasServiceGroups) =
       {"COMPUTE", "DEVELOPER_TOOLS", "APPLICATIONS", "MACHINE_LEARNING", "NETWORKING", "SECURITY",
        "DATABASE", "STORAGE", "EDGE_COMPUTING", "IOT", "GENERAL_XAAS"}
  /\ \A e \in ToSet(XaasServiceGroups), l \in 1..11 :
       XaasServiceGroups[l] = e <=> Position(e, XaasServiceGroups) = l
  /\ \A e \in ToSet(XaasServiceGroups) : /\ Position(e, XaasServiceGroups) \in 1..11
                                         /\ XaasServiceGroups[Position(e, XaasServiceGroups)] = e
  /\ Position("EDGE_COMPUTING", XaasServiceGroups) = 9
<1>1. /\ DOMAIN XaasServiceGroups = 1..11
      /\ XaasServiceGroups[1] = "COMPUTE" /\ XaasServiceGroups[2] = "DEVELOPER_TOOLS"
      /\ XaasServiceGroups[3] = "APPLICATIONS" /\ XaasServiceGroups[4] = "MACHINE_LEARNING"
      /\ XaasServiceGroups[5] = "NETWORKING" /\ XaasServiceGroups[6] = "SECURITY"
      /\ XaasServiceGroups[7] = "DATABASE" /\ XaasServiceGroups[8] = "STORAGE"
      /\ XaasServiceGroups[9] = "EDGE_COMPUTING" /\ XaasServiceGroups[10] = "IOT"
      /\ XaasServiceGroups[11] = "GENERAL_XAAS"
  BY DEF XaasServiceGroups
<1>2. \A l \in 1..11 : l \in {1, 2, 3, 4, 5, 6, 7, 8, 9, 10, 11}
  OBVIOUS
<1>3. \A l, m \in 1..11 : XaasServiceGroups[l] = XaasServiceGroups[m] => l = m
  BY <1>1, <1>2
<1>4. ToSet(XaasServiceGroups) =
       {"COMPUTE", "DEVELOPER_TOOLS", "APPLICATIONS", "MACHINE_LEARNING", "NETWORKING", "SECURITY",
        "DATABASE", "STORAGE", "EDGE_COMPUTING", "IOT", "GENERAL_XAAS"}
  BY <1>1, <1>2 DEF ToSet
<1>5. \A e \in ToSet(XaasServiceGroups) : /\ Position(e, XaasServiceGroups) \in 1..11
                                          /\ XaasServiceGroups[Position(e, XaasServiceGroups)] = e
  BY <1>1, PositionIs
<1>6. \A e \in ToSet(XaasServiceGroups), l \in 1..11 :
        XaasServiceGroups[l] = e <=> Position(e, XaasServiceGroups) = l
  BY <1>3, <1>5
<1>7. Position("EDGE_COMPUTING", XaasServiceGroups) = 9
  <2>1. "EDGE_COMPUTING" \in ToSet(XaasServiceGroups) /\ 9 \in 1..11
    BY <1>4
  <2> QED
    BY <1>1, <1>6, <2>1
<1> QED
  BY <1>1, <1>3, <1>4, <1>5, <1>6, <1>7

\* The five groups of support packages, in the order of their numbers.
LEMMA SupportGroupsAre ==
  /\ DOMAIN CloudSupportGroups = 1..5
  /\ ToSet(CloudSupportGroups) =
       {"ADVISORY_ASSISTANCE", "HELP_DESK_SERVICES", "TRAINING", "DOCUMENTATION_SUPPORT",
        "GENERAL_CLOUD_SUPPORT"}
  /\ \A e \in ToSet(CloudSupportGroups) : /\ Position(e, CloudSupportGroups) \in 1..5
                                          /\ CloudSupportGroups[Position(e, CloudSupportGroups)] = e
  /\ \A e \in ToSet(CloudSupportGroups), l \in 1..5 :
       CloudSupportGroups[l] = e <=> Position(e, CloudSupportGroups) = l
  /\ Position("TRAINING", CloudSupportGroups) = 3
<1>1. /\ DOMAIN CloudSupportGroups = 1..5
      /\ CloudSupportGroups[1] = "ADVISORY_ASSISTANCE" /\ CloudSupportGroups[2] = "HELP_DESK_SERVICES"
      /\ CloudSupportGroups[3] = "TRAINING" /\ CloudSupportGroups[4] = "DOCUMENTATION_SUPPORT"
      /\ CloudSupportGroups[5] = "GENERAL_CLOUD_SUPPORT"
  BY DEF CloudSupportGroups
<1>2. \A l \in 1..5 : l \in {1, 2, 3, 4, 5}
  OBVIOUS
<1>3. \A l, m \in 1..5 : CloudSupportGroups[l] = CloudSupportGroups[m] => l = m
  BY <1>1, <1>2
<1>4. ToSet(CloudSupportGroups) =
       {"ADVISORY_ASSISTANCE", "HELP_DESK_SERVICES", "TRAINING", "DOCUMENTATION_SUPPORT",
        "GENERAL_CLOUD_SUPPORT"}
  BY <1>1, <1>2 DEF ToSet
<1>5. \A e \in ToSet(CloudSupportGroups) : /\ Position(e, CloudSupportGroups) \in 1..5
                                           /\ CloudSupportGroups[Position(e, CloudSupportGroups)] = e
  BY <1>1, PositionIs
<1>6. \A e \in ToSet(CloudSupportGroups), l \in 1..5 :
        CloudSupportGroups[l] = e <=> Position(e, CloudSupportGroups) = l
  BY <1>3, <1>5
<1>7. Position("TRAINING", CloudSupportGroups) = 3
  <2>1. "TRAINING" \in ToSet(CloudSupportGroups) /\ 3 \in 1..5
    BY <1>4
  <2> QED
    BY <1>1, <1>6, <2>1
<1> QED
  BY <1>1, <1>4, <1>5, <1>6, <1>7

-----------------------------------------------------------------------------
\* The k-th place in order has k places up to it.
LEMMA RankInOrder ==
  ASSUME NEW n \in Nat, NEW S \in SUBSET (1..n), NEW k \in 1..Cardinality(S)
  PROVE  Cardinality({j \in S : j <= InOrder(S)[k]}) = k
<1> DEFINE p == InOrder(S)
           m == Cardinality(S)
<1>1. /\ m \in Nat /\ p \in [1..m -> S]
      /\ \A t \in S : \E i \in 1..m : p[i] = t
      /\ \A i, j \in 1..m : i < j => p[i] < p[j]
  BY InOrderIs DEF Increasing
<1>2. k \in 1..m
  OBVIOUS
<1> HIDE DEF p, m
<1> DEFINE below == {j \in S : j <= p[k]}
           q == [i \in 1..k |-> p[i]]
<1>3. \A i \in 1..m : p[i] \in S /\ p[i] \in Nat
  <2>1. \A t \in S : t \in Nat
    OBVIOUS
  <2> QED
    BY <1>1, <2>1
<1>4. \A i \in 1..k : i \in 1..m /\ p[i] <= p[k]
  <2> TAKE i \in 1..k
  <2>1. i \in 1..m /\ (i < k \/ i = k)
    BY <1>1, <1>2
  <2> QED
    BY <1>1, <1>2, <1>3, <2>1
<1>5. \A i \in 1..k : q[i] = p[i] /\ q[i] \in below
  BY <1>3, <1>4
<1>6. ASSUME NEW t \in below PROVE \E i \in 1..k : q[i] = t
  <2>1. PICK i \in 1..m : p[i] = t
    BY <1>1
  <2>2. CASE i <= k
    <3>1. i \in 1..k
      BY <1>1, <2>2
    <3> QED
      BY <1>5, <2>1, <3>1
  <2>3. CASE ~(i <= k)
    <3>1. p[k] < p[i]
      BY <1>1, <1>2, <2>3
    <3> QED
      BY <1>2, <1>3, <2>1, <3>1
  <2> QED
    BY <2>2, <2>3
<1>7. \A i, j \in 1..k : q[i] = q[j] => i = j
  <2> SUFFICES ASSUME NEW i \in 1..k, NEW j \in 1..k, p[i] = p[j], i # j PROVE FALSE
    BY <1>5
  <2>1. i < j \/ j < i
    BY <1>1, <1>2
  <2> QED
    BY <1>1, <1>3, <1>4, <2>1
<1> HIDE DEF below
<1>8. q \in Bijection(1..k, below)
  BY <1>5, <1>6, <1>7 DEF Bijection, Injection, Surjection, IsInjective
<1>9. k \in Nat
  OBVIOUS
<1>10. IsFiniteSet(1..k) /\ Cardinality(1..k) = k
  BY <1>9, IntervalSize
<1>11. Cardinality(below) = k
  <2>1. q \in Surjection(1..k, below) /\ q \in Injection(1..k, below)
    BY <1>8 DEF Bijection
  <2>2. Cardinality(below) = Cardinality(1..k) <=> q \in Injection(1..k, below)
    BY <1>10, <2>1, FS_Surjection
  <2> QED
    BY <1>10, <2>1, <2>2
<1> QED
  BY <1>11 DEF below, p

\* A list of the values at some places in their order lists those places.
LEMMA ListsInOrder ==
  ASSUME NEW n \in Nat, NEW S \in SUBSET (1..n), NEW list, Len(list) = Cardinality(S), NEW F,
         \A k \in 1..Cardinality(S) : list[k] = F[InOrder(S)[k]]
  PROVE  Lists(list, S, F)
<1> DEFINE p == InOrder(S)
           m == Cardinality(S)
<1>1. /\ m \in Nat /\ p \in [1..m -> S]
      /\ \A t \in S : \E i \in 1..m : p[i] = t
      /\ \A i, j \in 1..m : i < j => p[i] < p[j]
  BY InOrderIs DEF Increasing
<1> DEFINE at == [d \in S |-> CHOOSE i \in 1..m : p[i] = d]
<1> HIDE DEF p, m
<1>2. \A i \in 1..m : p[i] \in S /\ p[i] \in Nat
  <2>1. \A t \in S : t \in Nat
    OBVIOUS
  <2> QED
    BY <1>1, <2>1
<1>3. \A d \in S : at[d] \in 1..m /\ p[at[d]] = d
  BY <1>1
<1>4. \A i \in 1..m : at[p[i]] = i
  <2> TAKE i \in 1..m
  <2>1. at[p[i]] \in 1..m /\ p[at[p[i]]] = p[i]
    BY <1>2, <1>3
  <2> HIDE DEF at
  <2>2. ~(at[p[i]] < i) /\ ~(i < at[p[i]])
    BY <1>1, <1>2, <2>1
  <2> QED
    BY <1>1, <2>1, <2>2
<1>5. at \in Bijection(S, 1..m)
  <2>1. at \in [S -> 1..m]
    BY <1>3
  <2> HIDE DEF at
  <2> QED
    BY <1>2, <1>3, <1>4, <2>1 DEF Bijection, Injection, Surjection, IsInjective
<1>6. \A d \in S : list[at[d]] = F[d]
  BY <1>3 DEF p, m
<1> QED
  BY <1>5, <1>6 DEF Lists, m

\* The instances of some arrays of a package.
AreInstances(ins) == IsArray(ins) /\ \A i \in DOMAIN ins : IsInstance(ins[i])

GroupsOfInstances(ins) == {ins[i].group : i \in DOMAIN ins}

\* What is noted of the first k values: each once.
Noted(seen, values, k) ==
  /\ seen \in Seq(ToSet(values))
  /\ \A a, b \in 1..Len(seen) : seen[a] = seen[b] => a = b
  /\ \A i \in 1..k : \E a \in 1..Len(seen) : seen[a] = values[i]

\* A turn of the loop notes a value once.
LEMMA NoteKeeps ==
  ASSUME NEW values, NEW k \in Nat, k + 1 \in DOMAIN values, NEW seen, Noted(seen, values, k)
  PROVE  Noted(Note(seen, values[k + 1]), values, k + 1)
<1> DEFINE G == ToSet(values)
           e == values[k + 1]
           n == Len(seen)
<1>1. e \in G
  BY DEF ToSet
<1>2. /\ seen \in Seq(G) /\ n \in Nat
      /\ \A a, b \in 1..n : seen[a] = seen[b] => a = b
      /\ \A i \in 1..k : \E a \in 1..n : seen[a] = values[i]
  <2>1. seen \in Seq(G)
    BY Zenon DEF Noted
  <2>2. n \in Nat
    <3> HIDE DEF G
    <3> QED
      BY <2>1, SMT
  <2>3. \A a, b \in 1..n : seen[a] = seen[b] => a = b
    BY Zenon DEF Noted
  <2>4. \A i \in 1..k : \E a \in 1..n : seen[a] = values[i]
    BY Zenon DEF Noted
  <2> QED
    BY <2>1, <2>2, <2>3, <2>4
<1>3. \A i \in 1..k + 1 : i \in 1..k \/ i = k + 1
  OBVIOUS
<1>4. CASE Contains(seen, e)
  <2>1. Note(seen, e) = seen
    BY <1>4 DEF Note
  <2>2. \E a \in 1..n : seen[a] = e
    BY <1>4 DEF Contains
  <2> QED
    BY <1>2, <1>3, <2>1, <2>2 DEF Noted
<1>5. CASE ~Contains(seen, e)
  <2>1. Note(seen, e) = Append(seen, e)
    BY <1>5 DEF Note
  <2>2. \A a \in 1..n : seen[a] # e
    BY <1>5 DEF Contains
  <2> DEFINE new == Append(seen, e)
  <2> HIDE DEF G, e, n
  <2>3. /\ new \in Seq(G) /\ Len(new) = n + 1
        /\ \A i \in 1..n : new[i] = seen[i]
        /\ new[n + 1] = e
    BY <1>1, <1>2, AppendIs DEF n
  <2> HIDE DEF new
  <2>4. \A a \in 1..n + 1 : a \in 1..n \/ a = n + 1
    BY <1>2
  <2>5. \A a, b \in 1..n + 1 : new[a] = new[b] => a = b
    BY <1>2, <2>2, <2>3, <2>4
  <2>6. ASSUME NEW i \in 1..k + 1 PROVE \E a \in 1..n + 1 : new[a] = values[i]
    <3>1. n + 1 \in 1..n + 1 /\ 1..n \subseteq 1..n + 1
      BY <1>2
    <3>2. CASE i = k + 1
      BY <2>3, <3>1, <3>2 DEF e
    <3>3. CASE i \in 1..k
      <4>1. PICK a \in 1..n : seen[a] = values[i]
        BY <1>2, <3>3
      <4>2. new[a] = values[i] /\ a \in 1..n + 1
        BY <2>3, <3>1, <4>1
      <4> QED
        BY <4>2
    <3> QED
      BY <1>3, <3>2, <3>3
  <2>7. Noted(new, values, k + 1)
    BY <2>3, <2>5, <2>6, Zenon DEF Noted, G
  <2> QED
    BY <2>1, <2>7, Zenon DEF new, e
<1> QED
  BY <1>4, <1>5

\* The loop over the values, turn by turn.
LEMMA NotingSteps ==
  ASSUME NEW s, NEW n \in Nat, DOMAIN s = 1..n
  PROVE  \E h : /\ h[0] = <<>>
                /\ \A k \in 1..n : h[k] = Note(h[k - 1], s[k])
                /\ Noting!Fold(<<>>, s) = h[n]
BY Noting!FoldSteps

\* The different values are what the loop leaves.
LEMMA DistinctFold == \A values : Distinct(values) = Noting!Fold(<<>>, values)
BY Zenon DEF Distinct, Noting!Fold, FoldLeft, Noting!FoldLeft, MapThenFoldSet,
             Noting!MapThenFoldSet, Max, Noting!Max

\* Distinct has each of the values once and nothing else.
LEMMA DistinctAre ==
  ASSUME NEW values, NEW n \in Nat, DOMAIN values = 1..n
  PROVE  LET d == Distinct(values)
         IN /\ d \in Seq(ToSet(values)) /\ Len(d) \in Nat /\ DOMAIN d = 1..Len(d)
            /\ \A a, b \in 1..Len(d) : d[a] = d[b] => a = b
            /\ \A i \in 1..n : \E a \in 1..Len(d) : d[a] = values[i]
            /\ \A a \in 1..Len(d) : d[a] \in ToSet(values)
<1>1. PICK h : /\ h[0] = <<>>
               /\ \A k \in 1..n : h[k] = Note(h[k - 1], values[k])
               /\ Noting!Fold(<<>>, values) = h[n]
  BY NotingSteps
<1> DEFINE K == {k \in Nat : k <= n => Noted(h[k], values, k)}
<1>2. 0 \in K
  <2>1. Noted(<<>>, values, 0)
    BY DEF Noted
  <2> QED
    BY <1>1, <2>1
<1>3. ASSUME NEW k \in Nat, k \in K PROVE k + 1 \in K
  <2> SUFFICES ASSUME k + 1 <= n PROVE Noted(h[k + 1], values, k + 1)
    OBVIOUS
  <2>1. k <= n /\ k + 1 \in 1..n /\ (k + 1) - 1 = k
    OBVIOUS
  <2>2. h[k + 1] = Note(h[k], values[k + 1])
    BY <1>1, <2>1
  <2>3. Noted(h[k], values, k)
    BY <1>3, <2>1
  <2> QED
    BY <2>1, <2>2, <2>3, NoteKeeps
<1> HIDE DEF K
<1>4. n \in K
  BY <1>2, <1>3, Induction
<1>5. Noted(Distinct(values), values, n)
  <2>1. n <= n
    OBVIOUS
  <2> QED
    BY <1>1, <1>4, <2>1, DistinctFold DEF K
<1> QED
  BY <1>5 DEF Noted

\* The groups of the instances, each once.
LEMMA GroupsInOrderAre ==
  ASSUME NEW ins, IsArray(ins)
  PROVE  LET groups == GroupsInOrder(ins)
         IN /\ groups \in Seq(GroupsOfInstances(ins)) /\ Len(groups) \in Nat
            /\ DOMAIN groups = 1..Len(groups)
            /\ \A a, b \in 1..Len(groups) : groups[a] = groups[b] => a = b
            /\ \A i \in DOMAIN ins : \E a \in 1..Len(groups) : groups[a] = ins[i].group
<1> DEFINE n == Len(ins)
           values == [i \in DOMAIN ins |-> ins[i].group]
<1>1. n \in Nat /\ DOMAIN ins = 1..n
  BY ArrayIs
<1>2. DOMAIN values = 1..n /\ \A i \in 1..n : values[i] = ins[i].group
  BY <1>1
<1>3. ToSet(values) = GroupsOfInstances(ins)
  BY <1>1, <1>2 DEF ToSet, GroupsOfInstances
<1>4. GroupsInOrder(ins) = Distinct(values)
  BY DEF GroupsInOrder
<1> HIDE DEF values
<1> QED
  BY <1>1, <1>2, <1>3, <1>4, DistinctAre

-----------------------------------------------------------------------------
\* The columns of selected periods, each once.
LEMMA LabelsAre ==
  ASSUME NEW periods, AreSelected(periods)
  PROVE  /\ IsDistinct(Labels(Ordered(periods)))
         /\ ToSet(Labels(Ordered(periods))) = {Label(p) : p \in ToSet(periods)}
<1> DEFINE n == Len(periods)
           s == Ordered(periods)
<1>1. n \in Nat /\ DOMAIN periods = 1..n /\ \A i \in 1..n : IsPeriod(periods[i])
  BY ArrayIs DEF AreSelected
<1>2. PICK p \in Bijection(1..n, 1..n) :
        /\ s = [k \in 1..n |-> periods[p[k]]]
        /\ \A i, j \in 1..n : i < j => periods[p[i]].order < periods[p[j]].order
  BY OrderedIs
<1> HIDE DEF n, s
<1>3. p \in [1..n -> 1..n] /\ \A t \in 1..n : \E k \in 1..n : p[k] = t
  BY DEF Bijection, Injection, Surjection
<1>4. DOMAIN s = 1..n /\ \A k \in 1..n : s[k] = periods[p[k]] /\ IsPeriod(s[k])
  BY <1>1, <1>2, <1>3
<1>5. \A x : IsPeriod(x) => Label(x) = x.order - 1 /\ Label(x) \in Nat /\ x.order \in Nat
  BY DEF IsPeriod, Label, PeriodTypes
<1> DEFINE l == Labels(s)
<1>6. l = [k \in 1..n |-> Label(s[k])]
  BY <1>4 DEF Labels
<1>7. \A k \in 1..n : l[k] = Label(s[k]) /\ l[k] \in Nat /\ l[k] = s[k].order - 1
  BY <1>4, <1>5, <1>6
<1> HIDE DEF l
<1>8. l \in Seq(Nat) /\ Len(l) = n /\ DOMAIN l = 1..n
  BY <1>1, <1>6, <1>7
<1>9. ASSUME NEW i \in 1..n, NEW j \in 1..n, l[i] = l[j] PROVE i = j
  <2>1. s[i].order = s[j].order /\ s[i].order \in Nat
    <3>1. s[i].order \in Nat /\ s[j].order \in Nat
      BY <1>4, <1>5
    <3> QED
      BY <1>7, <1>9, <3>1, SMTT(30)
  <2>2. ~(i < j) /\ ~(j < i)
    BY <1>2, <1>4, <2>1
  <2> QED
    BY <1>1, <2>2
<1>10. ToSet(l) = {l[k] : k \in 1..n}
  BY <1>8 DEF ToSet
<1>11. ToSet(periods) = {periods[i] : i \in 1..n}
  BY <1>1 DEF ToSet
<1>12. \A i \in 1..n : \E k \in 1..n : l[k] = Label(periods[i])
  <2> TAKE i \in 1..n
  <2>1. PICK k \in 1..n : p[k] = i
    BY <1>3
  <2>2. s[k] = periods[i]
    BY <1>4, <2>1
  <2> QED
    BY <1>7, <2>2
<1>13. \A k \in 1..n : \E i \in 1..n : l[k] = Label(periods[i])
  <2> TAKE k \in 1..n
  <2>1. p[k] \in 1..n /\ s[k] = periods[p[k]]
    BY <1>3, <1>4
  <2> QED
    BY <1>7, <2>1
<1>14. ToSet(l) = {Label(x) : x \in ToSet(periods)}
  <2>1. ASSUME NEW e \in ToSet(l) PROVE \E x \in ToSet(periods) : e = Label(x)
    <3>1. PICK k \in 1..n : e = l[k]
      BY <1>10
    <3>2. PICK i \in 1..n : l[k] = Label(periods[i])
      BY <1>13
    <3> QED
      BY <1>11, <3>1, <3>2
  <2>2. ASSUME NEW x \in ToSet(periods) PROVE Label(x) \in ToSet(l)
    <3>1. PICK i \in 1..n : x = periods[i]
      BY <1>11
    <3>2. PICK k \in 1..n : l[k] = Label(periods[i])
      BY <1>12
    <3> QED
      BY <1>10, <3>1, <3>2
  <2> QED
    BY <2>1, <2>2
<1> QED
  BY <1>8, <1>9, <1>14 DEF IsDistinct, l, s

\* The number of a task is that of its section and its place there; a portability plan has
\* that of its section.
LEMMA TaskNumberIs ==
  ASSUME NEW x, IsInstance(x), x.level \in ToSet(ClassificationLevels), NEW k \in Nat
  PROVE  /\ TaskNumber(x, k) \in Seq(Nat)
         /\ Section(x) \in Seq(Nat)
         /\ x.group = "PORTABILITY_PLAN" => TaskNumber(x, k) = Section(x) /\ Len(Section(x)) = 3
         /\ x.group # "PORTABILITY_PLAN" =>
              TaskNumber(x, k) = Append(Section(x), k) /\ Len(Section(x)) = 4
<1> DEFINE level == Position(x.level, ClassificationLevels)
           support == Position(x.group, CloudSupportGroups)
           service == Position(x.group, XaasServiceGroups)
<1>1. level \in Nat
  BY PositionIs, LevelsAre
<1>2. CASE x.group = "PORTABILITY_PLAN"
  <2>0. x.group \notin ToSet(CloudSupportGroups)
    BY <1>2, SupportGroupsAre
  <2>1. TaskNumber(x, k) = <<4, 3, level>> /\ Section(x) = <<4, 3, level>>
    BY <1>2, <2>0, Zenon DEF TaskNumber, Section
  <2> HIDE DEF level
  <2> QED
    BY <1>1, <1>2, <2>1
<1>3. CASE x.group \in ToSet(CloudSupportGroups)
  <2>1. x.group # "PORTABILITY_PLAN" /\ support \in Nat
    BY <1>3, SupportGroupsAre
  <2>2. TaskNumber(x, k) = <<4, 3, level, support, k>> /\ Section(x) = <<4, 3, level, support>>
    BY <1>3, <2>1, Zenon DEF TaskNumber, Section
  <2> HIDE DEF level, support
  <2> QED
    BY <1>1, <2>1, <2>2
<1>4. CASE x.group \in ToSet(XaasServiceGroups)
  <2>1. x.group # "PORTABILITY_PLAN" /\ x.group \notin ToSet(CloudSupportGroups) /\ service \in Nat
    BY <1>4, SupportGroupsAre, XaasGroupsAre
  <2>2. TaskNumber(x, k) = <<4, 2, level, service, k>> /\ Section(x) = <<4, 2, level, service>>
    BY <2>1, Zenon DEF TaskNumber, Section
  <2> HIDE DEF level, service
  <2> QED
    BY <1>1, <2>1, <2>2
<1> QED
  BY <1>2, <1>3, <1>4 DEF IsInstance, SupportTypes

\* The task of an instance has its number, its duration and its periods.
LEMMA InstancePopIs ==
  ASSUME NEW x, IsInstance(x), x.level \in ToSet(ClassificationLevels), NEW k \in Nat
  PROVE  /\ InstancePop(x, k) \in PopsOf(Seq(Nat))
         /\ InstancePop(x, k).number = TaskNumber(x, k)
         /\ InstancePop(x, k).entire = x.entire
         /\ ToSet(InstancePop(x, k).periods) = {Label(p) : p \in ToSet(x.periods)}
<1> DEFINE number == TaskNumber(x, k)
           periods == Labels(Ordered(x.periods))
<1>1. number \in Seq(Nat)
  BY TaskNumberIs
<1>2. IsDistinct(periods) /\ ToSet(periods) = {Label(p) : p \in ToSet(x.periods)}
  BY LabelsAre DEF IsInstance
<1>3. x.entire \in BOOLEAN
  BY DEF IsInstance
<1>4. InstancePop(x, k) = [number |-> number, entire |-> x.entire, periods |-> periods]
  BY DEF InstancePop
<1> HIDE DEF number, periods
<1>5. periods \in {s \in Seq(Nat) : IsDistinct(s)}
  BY <1>2 DEF IsDistinct
<1>6. [number |-> number, entire |-> x.entire, periods |-> periods] \in PopsOf(Seq(Nat))
  BY <1>1, <1>3, <1>5 DEF PopsOf
<1> QED
  BY <1>2, <1>4, <1>6 DEF number, periods

-----------------------------------------------------------------------------
(***************************************************************************)
(* The instances of a group at a level, and the tasks of getTaskPeriods.   *)
(***************************************************************************)
LevelledAt(ins) == {i \in DOMAIN ins : ins[i].level \in ToSet(ClassificationLevels)}

AtPlaces(ins, group, level) == {i \in DOMAIN ins : ins[i].group = group /\ ins[i].level = level}

Nth(ins, i) == Cardinality({j \in 1..i : ins[j].group = ins[i].group /\ ins[j].level = ins[i].level})

\* The tasks of instances, by their places in the array.
PopsOfInstances(ins) == [i \in LevelledAt(ins) |-> InstancePop(ins[i], Nth(ins, i))]

PopsAt(ins, group, level) ==
  LET there == AtLevel(ins, group, level)
  IN [i \in DOMAIN there |-> InstancePop(there[i], i)]

LevelPops(ins, level) ==
  LET groups == GroupsInOrder(ins)
  IN FlattenSeq([g \in DOMAIN groups |-> PopsAt(ins, groups[g], level)])

TaskPop == PopsOf(Seq(Nat))

\* The k-th instance of a group at a level is the one with k such instances up to it.
LEMMA AtLevelIs ==
  ASSUME NEW ins, IsArray(ins), NEW group, NEW level
  PROVE  LET S == AtPlaces(ins, group, level)
             p == InOrder(S)
             there == AtLevel(ins, group, level)
         IN /\ Len(there) = Cardinality(S) /\ DOMAIN there = 1..Cardinality(S)
            /\ \A k \in 1..Cardinality(S) : p[k] \in S /\ there[k] = ins[p[k]] /\ Nth(ins, p[k]) = k
<1> DEFINE S == AtPlaces(ins, group, level)
           p == InOrder(S)
           m == Cardinality(S)
           n == Len(ins)
           there == AtLevel(ins, group, level)
<1>1. n \in Nat /\ DOMAIN ins = 1..n
  BY ArrayIs
<1>2. S \in SUBSET (1..n)
  BY <1>1 DEF AtPlaces
<1>3. m \in Nat /\ p \in [1..m -> S]
  BY <1>1, <1>2, InOrderIs
<1>4. there = Picked(ins, p)
  BY Zenon DEF AtLevel, Filter, AtPlaces
<1>5. \A k \in 1..m : Cardinality({j \in S : j <= p[k]}) = k
  BY <1>1, <1>2, RankInOrder
<1>6. \A i \in S : ins[i].group = group /\ ins[i].level = level
  BY DEF AtPlaces
<1>7. \A j \in 1..n : ins[j].group = group /\ ins[j].level = level => j \in S
  BY <1>1 DEF AtPlaces
<1> HIDE DEF S, p, m, n, there
<1>8. there = [k \in 1..m |-> ins[p[k]]]
  BY <1>3, <1>4 DEF Picked
<1>9. Len(there) = m /\ DOMAIN there = 1..m
  BY <1>3, <1>8
<1>10. ASSUME NEW k \in 1..m PROVE p[k] \in S /\ there[k] = ins[p[k]] /\ Nth(ins, p[k]) = k
  <2> DEFINE i == p[k]
  <2>1. i \in S /\ there[k] = ins[i]
    BY <1>3, <1>8
  <2>2. i \in 1..n
    BY <1>2, <2>1
  <2>3. \A j \in S : j \in 1..n
    BY <1>2
  <2> HIDE DEF i
  <2>4. \A j \in 1..i : j \in 1..n
    BY <1>1, <2>2
  <2>5. {j \in 1..i : ins[j].group = ins[i].group /\ ins[j].level = ins[i].level} = {j \in S : j <= i}
    <3>1. ASSUME NEW j \in 1..i, ins[j].group = ins[i].group, ins[j].level = ins[i].level
          PROVE  j \in S /\ j <= i
      BY <1>6, <1>7, <2>1, <2>2, <2>4, <3>1
    <3>2. ASSUME NEW j \in S, j <= i
          PROVE  j \in 1..i /\ ins[j].group = ins[i].group /\ ins[j].level = ins[i].level
      <4>1. j \in 1..i
        BY <2>2, <2>3, <3>2
      <4> QED
        BY <1>6, <2>1, <4>1
    <3> QED
      BY <3>1, <3>2
  <2>6. Nth(ins, i) = k
    BY <1>5, <2>5 DEF Nth, i
  <2> QED
    BY <2>1, <2>6 DEF i
<1> QED
  BY <1>9, <1>10 DEF S, p, m, there

\* The tasks of a group at a level are those of its instances there.
LEMMA PopsAtAre ==
  ASSUME NEW ins, AreInstances(ins), NEW group, NEW level \in ToSet(ClassificationLevels)
  PROVE  /\ PopsAt(ins, group, level) \in Seq(TaskPop)
         /\ Lists(PopsAt(ins, group, level), AtPlaces(ins, group, level), PopsOfInstances(ins))
<1> DEFINE S == AtPlaces(ins, group, level)
           p == InOrder(S)
           m == Cardinality(S)
           n == Len(ins)
           there == AtLevel(ins, group, level)
           pops == PopsAt(ins, group, level)
           F == PopsOfInstances(ins)
<1>1. n \in Nat /\ DOMAIN ins = 1..n /\ IsArray(ins)
  BY ArrayIs DEF AreInstances
<1>2. S \in SUBSET (1..n)
  BY <1>1 DEF AtPlaces
<1>3. m \in Nat
  BY <1>1, <1>2, InOrderIs
<1>4. DOMAIN there = 1..m /\ \A k \in 1..m : p[k] \in S /\ there[k] = ins[p[k]] /\ Nth(ins, p[k]) = k
  BY <1>1, AtLevelIs
<1>5. \A i \in S : IsInstance(ins[i]) /\ ins[i].level = level /\ i \in LevelledAt(ins)
  BY <1>1 DEF AtPlaces, AreInstances, LevelledAt
<1>6. pops = [k \in 1..m |-> InstancePop(there[k], k)]
  <2>1. pops = [k \in DOMAIN there |-> InstancePop(there[k], k)]
    BY Zenon DEF PopsAt
  <2> QED
    BY <1>4, <2>1
<1> HIDE DEF S, p, m, n, there, pops
<1>7. ASSUME NEW k \in 1..m PROVE InstancePop(there[k], k) \in TaskPop /\ InstancePop(there[k], k) = F[p[k]]
  <2>1. p[k] \in LevelledAt(ins) /\ there[k] = ins[p[k]] /\ Nth(ins, p[k]) = k
    BY <1>4, <1>5
  <2>2. F[p[k]] = InstancePop(ins[p[k]], Nth(ins, p[k]))
    BY <2>1 DEF PopsOfInstances
  <2>3. IsInstance(ins[p[k]]) /\ ins[p[k]].level = level
    BY <1>4, <1>5
  <2>4. k \in Nat
    BY <1>3
  <2>5. InstancePop(ins[p[k]], k) \in TaskPop
    BY <2>3, <2>4, InstancePopIs DEF TaskPop
  <2> QED
    BY <2>1, <2>2, <2>5
<1> HIDE DEF F
<1>8. pops \in Seq(TaskPop) /\ Len(pops) = m
  BY <1>3, <1>6, <1>7
<1>9. \A k \in 1..m : pops[k] = F[p[k]]
  BY <1>6, <1>7
<1>10. Lists(pops, S, F)
  BY <1>1, <1>2, <1>8, <1>9, ListsInOrder DEF p, m
<1> QED
  BY <1>8, <1>10 DEF pops, S, F

\* The tasks at a level are those of the instances of the level.
LEMMA LevelPopsAre ==
  ASSUME NEW ins, AreInstances(ins), NEW level \in ToSet(ClassificationLevels)
  PROVE  /\ LevelPops(ins, level) \in Seq(TaskPop)
         /\ Lists(LevelPops(ins, level), {i \in DOMAIN ins : ins[i].level = level}, PopsOfInstances(ins))
<1> DEFINE groups == GroupsInOrder(ins)
           n == Len(groups)
           D == {i \in DOMAIN ins : ins[i].level = level}
           F == PopsOfInstances(ins)
           seqs == [g \in 1..n |-> PopsAt(ins, groups[g], level)]
           part == [i \in D |-> CHOOSE a \in 1..n : groups[a] = ins[i].group]
<1>1. /\ n \in Nat /\ DOMAIN groups = 1..n
      /\ \A a, b \in 1..n : groups[a] = groups[b] => a = b
      /\ \A i \in DOMAIN ins : \E a \in 1..n : groups[a] = ins[i].group
  BY GroupsInOrderAre DEF AreInstances
<1>2. LevelPops(ins, level) = FlattenSeq(seqs)
  BY <1>1, Zenon DEF LevelPops
<1> HIDE DEF groups, n
<1>3. \A i \in D : part[i] \in 1..n /\ groups[part[i]] = ins[i].group
  BY <1>1
<1>4. part \in [D -> 1..n]
  BY <1>3
<1>5. \A g \in 1..n : seqs[g] = PopsAt(ins, groups[g], level) /\ seqs[g] \in Seq(TaskPop)
  BY PopsAtAre
<1>6. seqs \in Seq(Seq(TaskPop)) /\ Len(seqs) = n
  BY <1>1, <1>5
<1> HIDE DEF part, seqs
<1>7. ASSUME NEW g \in 1..n PROVE Lists(seqs[g], {i \in D : part[i] = g}, F)
  <2>1. {i \in D : part[i] = g} = AtPlaces(ins, groups[g], level)
    <3>1. ASSUME NEW i \in D PROVE part[i] = g <=> ins[i].group = groups[g]
      BY <1>1, <1>3
    <3> QED
      BY <3>1 DEF AtPlaces
  <2>2. Lists(PopsAt(ins, groups[g], level), AtPlaces(ins, groups[g], level), F)
    BY PopsAtAre
  <2> HIDE DEF F, D
  <2> QED
    BY <1>5, <2>1, <2>2
<1> HIDE DEF F, D
<1>8. Lists(FlattenSeq(seqs), D, F)
  BY <1>4, <1>6, <1>7, ListsFlattened
<1>9. FlattenSeq(seqs) \in Seq(TaskPop)
  BY <1>6, FlattenIs
<1> QED
  BY <1>2, <1>8, <1>9 DEF D, F

\* The tasks of getTaskPeriods are those of the instances with a level, each with
\* its number in its group and level.
LEMMA InstancePopsAre ==
  ASSUME NEW ins, AreInstances(ins)
  PROVE  /\ InstancePops(ins) \in Seq(TaskPop)
         /\ Lists(InstancePops(ins), LevelledAt(ins), PopsOfInstances(ins))
<1> DEFINE D == LevelledAt(ins)
           F == PopsOfInstances(ins)
           level(l) == ClassificationLevels[l]
           seqs == [l \in 1..5 |-> LevelPops(ins, level(l))]
           part == [i \in D |-> Position(ins[i].level, ClassificationLevels)]
<1>1. \A l \in 1..5 : level(l) \in ToSet(ClassificationLevels)
  BY LevelsAre DEF ToSet
<1>2. InstancePops(ins) = FlattenSeq(seqs)
  <2>1. DOMAIN ClassificationLevels = 1..5
    BY LevelsAre
  <2> QED
    BY <2>1, Zenon DEF InstancePops, LevelPops, PopsAt
<1>3. \A i \in D : ins[i].level \in ToSet(ClassificationLevels)
  BY DEF LevelledAt
<1>4. \A i \in D : part[i] \in 1..5 /\ level(part[i]) = ins[i].level
  BY <1>3, PositionIs, LevelsAre
<1>5. part \in [D -> 1..5]
  BY <1>4
<1>6. \A l \in 1..5 : seqs[l] = LevelPops(ins, level(l)) /\ seqs[l] \in Seq(TaskPop)
  BY <1>1, LevelPopsAre
<1>7. seqs \in Seq(Seq(TaskPop)) /\ Len(seqs) = 5
  BY <1>6
<1> HIDE DEF part, seqs
<1>8. ASSUME NEW l \in 1..5 PROVE Lists(seqs[l], {i \in D : part[i] = l}, F)
  <2>1. {i \in D : part[i] = l} = {i \in DOMAIN ins : ins[i].level = level(l)}
    <3>1. ASSUME NEW i \in D PROVE part[i] = l <=> ins[i].level = level(l)
      BY <1>4, LevelsAre
    <3>2. \A i \in DOMAIN ins : ins[i].level = level(l) => i \in D
      BY <1>1 DEF LevelledAt
    <3> QED
      BY <3>1, <3>2 DEF LevelledAt
  <2>2. Lists(LevelPops(ins, level(l)), {i \in DOMAIN ins : ins[i].level = level(l)}, F)
    BY <1>1, LevelPopsAre
  <2> HIDE DEF F, D
  <2> QED
    BY <1>6, <2>1, <2>2
<1> HIDE DEF F, D
<1>9. Lists(FlattenSeq(seqs), D, F)
  BY <1>5, <1>7, <1>8, ListsFlattened
<1>10. FlattenSeq(seqs) \in Seq(TaskPop)
  BY <1>7, FlattenIs
<1> QED
  BY <1>2, <1>9, <1>10 DEF D, F

\* The tasks of some of the instances, if they are whole groups, have the numbers
\* that they have among all instances.
LEMMA FilteredPopsAre ==
  ASSUME NEW ins, AreInstances(ins), NEW S \in SUBSET (DOMAIN ins),
         \A i \in S, j \in DOMAIN ins : ins[j].group = ins[i].group => j \in S,
         NEW sub, sub = Picked(ins, InOrder(S))
  PROVE  /\ InstancePops(sub) \in Seq(TaskPop)
         /\ Lists(InstancePops(sub), LevelledAt(ins) \cap S, PopsOfInstances(ins))
<1> DEFINE n == Len(ins)
           m == Cardinality(S)
           p == InOrder(S)
           E == LevelledAt(ins) \cap S
           D == LevelledAt(sub)
           F == PopsOfInstances(sub)
           G == PopsOfInstances(ins)
           r == [i \in E |-> CHOOSE k \in 1..m : p[k] = i]
<1>1. n \in Nat /\ DOMAIN ins = 1..n /\ \A i \in 1..n : IsInstance(ins[i])
  BY ArrayIs DEF AreInstances
<1>2. /\ m \in Nat /\ p \in [1..m -> S]
      /\ \A t \in S : \E i \in 1..m : p[i] = t
      /\ \A i, j \in 1..m : i < j => p[i] < p[j]
  BY <1>1, InOrderIs DEF Increasing
<1>3. S \subseteq 1..n
  BY <1>1
<1> HIDE DEF n, m, p
<1>4. \A k \in 1..m : p[k] \in S /\ p[k] \in 1..n /\ p[k] \in Nat
  <2>1. \A i \in 1..n : i \in Nat
    BY <1>1
  <2> QED
    BY <1>2, <1>3, <2>1
<1>5. sub = [k \in 1..m |-> ins[p[k]]]
  BY <1>2 DEF Picked, p
<1>6. DOMAIN sub = 1..m /\ \A k \in 1..m : sub[k] = ins[p[k]]
  BY <1>5
<1>7. AreInstances(sub)
  <2>1. \A k \in 1..m : sub[k] \in ToSet(sub)
    BY <1>6 DEF ToSet
  <2>2. sub = [k \in 1..m |-> sub[k]]
    BY <1>5
  <2>3. sub \in Seq(ToSet(sub))
    <3> DEFINE T == ToSet(sub)
    <3>1. \A k \in 1..m : sub[k] \in T
      BY <2>1
    <3> HIDE DEF T
    <3>2. [k \in 1..m |-> sub[k]] \in Seq(T)
      BY <1>2, <3>1
    <3> QED
      BY <2>2, <3>2 DEF T
  <2>4. \A k \in 1..m : IsInstance(sub[k])
    BY <1>1, <1>4, <1>6
  <2> QED
    BY <1>6, <2>3, <2>4 DEF AreInstances, IsArray
<1>8. InstancePops(sub) \in Seq(TaskPop) /\ Lists(InstancePops(sub), D, F)
  BY <1>7, InstancePopsAre
<1>9. \A i, j \in 1..m : p[i] = p[j] => i = j
  <2> SUFFICES ASSUME NEW i \in 1..m, NEW j \in 1..m, p[i] = p[j], i # j PROVE FALSE
    OBVIOUS
  <2>1. i < j \/ j < i
    BY <1>2
  <2> QED
    BY <1>2, <1>4, <2>1
<1>10. \A i \in E : r[i] \in 1..m /\ p[r[i]] = i
  BY <1>2
<1>11. r = [i \in E |-> r[i]]
  OBVIOUS
<1> HIDE DEF r
<1>12. \A k \in 1..m : k \in D <=> p[k] \in E
  BY <1>1, <1>4, <1>6 DEF LevelledAt
<1>13. \A i \in E : r[i] \in D /\ sub[r[i]] = ins[i]
  BY <1>6, <1>10, <1>12
<1>14. \A k \in D : k \in 1..m /\ p[k] \in E /\ r[p[k]] = k
  <2> TAKE k \in D
  <2>1. k \in 1..m /\ p[k] \in E
    BY <1>6, <1>12 DEF LevelledAt
  <2> QED
    BY <1>9, <1>10, <2>1
<1>15. r \in Bijection(E, D)
  <2>1. r \in [E -> D]
    BY <1>11, <1>13
  <2>2. \A i, j \in E : r[i] = r[j] => i = j
    BY <1>10
  <2>3. \A k \in D : \E i \in E : r[i] = k
    BY <1>14
  <2> HIDE DEF D, E
  <2> QED
    BY <2>1, <2>2, <2>3 DEF Bijection, Injection, Surjection, IsInjective
<1>16. ASSUME NEW i \in E PROVE Nth(sub, r[i]) = Nth(ins, i)
  <2> DEFINE k == r[i]
             A == {c \in 1..k : sub[c].group = sub[k].group /\ sub[c].level = sub[k].level}
             B == {j \in 1..i : ins[j].group = ins[i].group /\ ins[j].level = ins[i].level}
             f == [c \in A |-> p[c]]
  <2>1. k \in 1..m /\ p[k] = i /\ sub[k] = ins[i] /\ i \in 1..n /\ i \in S
    BY <1>3, <1>10, <1>13
  <2> HIDE DEF k
  <2>2. k \in Nat /\ i \in Nat /\ i <= n /\ k <= m
    BY <1>1, <1>2, <2>1
  <2>3. ASSUME NEW c \in A PROVE p[c] \in B /\ c \in 1..m
    <3>1. c \in 1..m /\ (c < k \/ c = k)
      BY <1>2, <2>1
    <3>2. p[c] <= i /\ p[c] \in 1..n
      BY <1>2, <1>4, <2>1, <3>1
    <3>3. p[c] \in 1..i
      BY <2>2, <3>2
    <3> QED
      BY <1>6, <2>1, <3>1, <3>3
  <2>4. ASSUME NEW j \in B PROVE \E c \in A : p[c] = j
    <3>1. j \in 1..n
      BY <1>1, <2>2
    <3>2. j \in S
      BY <1>1, <2>1, <3>1
    <3>3. PICK c \in 1..m : p[c] = j
      BY <1>2, <3>2
    <3>4. c <= k
      <4>1. k < c => i < j
        BY <1>2, <2>1, <3>3
      <4> QED
        BY <1>2, <2>2, <4>1
    <3>5. c \in 1..k
      BY <1>2, <2>2, <3>4
    <3> QED
      BY <1>6, <2>1, <3>3, <3>5
  <2>5. f \in [A -> B] /\ \A c \in A : f[c] = p[c]
    BY <2>3
  <2>6. A \subseteq 1..k
    OBVIOUS
  <2>7. Nth(sub, k) = Cardinality(A) /\ Nth(ins, i) = Cardinality(B)
    BY DEF Nth
  <2> HIDE DEF A, B, f
  <2>8. f \in Surjection(A, B) /\ f \in Injection(A, B)
    BY <1>9, <2>3, <2>4, <2>5 DEF Surjection, Injection, IsInjective
  <2>9. IsFiniteSet(A)
    BY <2>2, <2>6, IntervalSize, FS_Subset
  <2>10. Cardinality(B) = Cardinality(A) <=> f \in Injection(A, B)
    BY <2>8, <2>9, FS_Surjection
  <2> QED
    BY <2>7, <2>8, <2>10 DEF k
<1>17. ASSUME NEW i \in E PROVE G[i] = F[r[i]]
  <2>1. G[i] = InstancePop(ins[i], Nth(ins, i))
    BY DEF PopsOfInstances
  <2>2. F[r[i]] = InstancePop(sub[r[i]], Nth(sub, r[i]))
    BY <1>13 DEF PopsOfInstances
  <2> QED
    BY <1>13, <1>16, <2>1, <2>2
<1> HIDE DEF D, E, F, G
<1>18. Lists(InstancePops(sub), E, G)
  BY <1>8, <1>15, <1>17, ListsRenamed
<1> QED
  BY <1>8, <1>18 DEF E, G

-----------------------------------------------------------------------------
(***************************************************************************)
(* The cross domain solution, and all tasks of a package.                  *)
(***************************************************************************)
\* One element before a list.
LEMMA OneInFront ==
  ASSUME NEW T, NEW e \in T, NEW l \in Seq(T)
  PROVE  /\ <<e>> \o l \in Seq(T) /\ Len(<<e>> \o l) = Len(l) + 1
         /\ (<<e>> \o l)[1] = e
         /\ \A k \in 1..Len(l) : (<<e>> \o l)[k + 1] = l[k]
OBVIOUS

\* The task of the cross domain solution, if it is required: one, with the periods
\* that are selected for it.
LEMMA CdsPopsAre ==
  ASSUME NEW cds, IsCds(cds)
  PROVE  /\ ~cds.required => CdsPops(cds) = <<>>
         /\ cds.required =>
              /\ CdsPops(cds) = <<CdsPops(cds)[1]>>
              /\ CdsPops(cds)[1] \in TaskPop
              /\ CdsPops(cds)[1].number = CdsNumber
              /\ CdsPops(cds)[1].entire = cds.entire
              /\ ~cds.entire =>
                   ToSet(CdsPops(cds)[1].periods) = {Label(p) : p \in ToSet(cds.periods)}
<1> DEFINE periods == cds.periods
           n == Len(periods)
           B == {i \in DOMAIN periods : periods[i].type = "BASE"}
           bases == Filter(periods, LAMBDA p : p.type = "BASE")
           sorted == Ordered(periods)
           O == {i \in DOMAIN sorted : sorted[i].type = "OPTION"}
           options == Filter(sorted, LAMBDA p : p.type = "OPTION")
           base == IF Len(bases) = 1 THEN <<0>> ELSE <<>>
           all == base \o Labels(options)
           T == ToSet(periods)
<1>1. cds.required \in BOOLEAN /\ cds.entire \in BOOLEAN /\ AreSelected(periods)
  BY DEF IsCds
<1>2. n \in Nat /\ DOMAIN periods = 1..n /\ \A i \in 1..n : IsPeriod(periods[i])
  BY <1>1, ArrayIs DEF AreSelected
<1>3. periods \in Seq(T)
  BY <1>1 DEF AreSelected, IsArray
<1>4. bases = Picked(periods, InOrder(B)) /\ options = Picked(sorted, InOrder(O))
  BY Zenon DEF Filter
<1>5. ToSet(periods) = {periods[i] : i \in 1..n}
  BY <1>2 DEF ToSet
<1>6. CASE ~cds.required
  BY <1>6 DEF CdsPops
<1>7. CASE cds.required /\ cds.entire
  <2> DEFINE pop == [number |-> CdsNumber, entire |-> TRUE, periods |-> <<>>]
  <2>1. CdsPops(cds) = <<pop>>
    BY <1>7 DEF CdsPops
  <2>2. CdsNumber \in Seq(Nat)
    BY DEF CdsNumber
  <2>3. <<>> \in {s \in Seq(Nat) : IsDistinct(s)}
    BY DEF IsDistinct
  <2>4. pop \in TaskPop
    BY <2>2, <2>3 DEF TaskPop, PopsOf
  <2>5. pop.number = CdsNumber /\ pop.entire = TRUE
    OBVIOUS
  <2> HIDE DEF pop
  <2>6. CdsPops(cds)[1] = pop /\ CdsPops(cds) = <<CdsPops(cds)[1]>>
    BY <2>1
  <2>7. cds.entire = TRUE
    BY <1>1, <1>7, Zenon
  <2> QED
    BY <1>7, <2>4, <2>5, <2>6, <2>7
<1>8. CASE cds.required /\ ~cds.entire
  <2> DEFINE pop == [number |-> CdsNumber, entire |-> FALSE, periods |-> all]
  <2>1. CdsPops(cds) = <<pop>>
    BY <1>8, Zenon DEF CdsPops
  <2>2. PICK p \in Bijection(1..n, 1..n) :
          /\ sorted = [k \in 1..n |-> periods[p[k]]]
          /\ \A i, j \in 1..n : i < j => periods[p[i]].order < periods[p[j]].order
    BY <1>1, OrderedIs
  <2>3. p \in [1..n -> 1..n] /\ \A t \in 1..n : \E k \in 1..n : p[k] = t
    BY DEF Bijection, Injection, Surjection
  <2> HIDE DEF n, sorted, periods, B, O, bases, options, T
  <2>4. /\ DOMAIN sorted = 1..n
        /\ \A k \in 1..n : sorted[k] = periods[p[k]] /\ IsPeriod(sorted[k]) /\ sorted[k] \in T
    BY <1>2, <1>5, <2>2, <2>3 DEF T
  <2>5. sorted \in Seq(T)
    <3>1. sorted = [k \in 1..n |-> sorted[k]]
      BY <2>2, <2>4
    <3> QED
      BY <1>2, <2>4, <3>1
  \* The option periods.
  <2> DEFINE q == InOrder(O)
             m == Cardinality(O)
             labels == Labels(options)
  <2>6. O \in SUBSET (1..n) /\ \A i \in O : sorted[i].type = "OPTION"
    BY <2>4 DEF O
  <2>7. /\ m \in Nat /\ q \in [1..m -> O]
        /\ \A t \in O : \E i \in 1..m : q[i] = t
        /\ \A i, j \in 1..m : i < j => q[i] < q[j]
    BY <1>2, <2>6, InOrderIs DEF Increasing
  <2> HIDE DEF q, m
  <2>8. options = [i \in 1..m |-> sorted[q[i]]]
    BY <1>4, <2>7 DEF Picked, q
  <2>9. \A i \in 1..m : options[i] = sorted[q[i]] /\ q[i] \in O /\ q[i] \in 1..n
    BY <2>6, <2>7, <2>8
  <2>10. \A x : IsPeriod(x) /\ x.type = "OPTION" => Label(x) = x.order - 1 /\ Label(x) \in Nat \ {0}
    BY DEF IsPeriod, Label, PeriodTypes
  <2>11. labels = [i \in 1..m |-> Label(options[i])]
    <3>1. DOMAIN options = 1..m
      BY <2>8
    <3> QED
      BY <3>1, Zenon DEF Labels
  <2>12. \A i \in 1..m : /\ labels[i] = Label(sorted[q[i]])
                         /\ labels[i] = sorted[q[i]].order - 1
                         /\ labels[i] \in Nat \ {0}
    <3> TAKE i \in 1..m
    <3>1. labels[i] = Label(sorted[q[i]])
      BY <2>9, <2>11
    <3>2. IsPeriod(sorted[q[i]]) /\ sorted[q[i]].type = "OPTION"
      BY <2>4, <2>6, <2>9
    <3> QED
      BY <2>10, <3>1, <3>2
  <2> HIDE DEF labels
  <2>13. labels \in Seq(Nat) /\ Len(labels) = m /\ DOMAIN labels = 1..m
    <3>1. labels = [i \in 1..m |-> labels[i]] /\ \A i \in 1..m : labels[i] \in Nat
      BY <2>11, <2>12
    <3> QED
      BY <2>7, <3>1
  <2>14. \A i, j \in 1..m : labels[i] = labels[j] => i = j
    <3> SUFFICES ASSUME NEW i \in 1..m, NEW j \in 1..m, i < j PROVE labels[i] # labels[j]
      BY <2>7
    <3>1. q[i] < q[j] /\ q[i] \in 1..n /\ q[j] \in 1..n
      BY <2>7, <2>9
    <3>2. sorted[q[i]].order < sorted[q[j]].order
      BY <2>2, <2>4, <3>1
    <3>3. sorted[q[i]].order \in Nat /\ sorted[q[j]].order \in Nat
      BY <2>4, <3>1 DEF IsPeriod
    <3>4. labels[i] < labels[j]
      <4>1. labels[i] = sorted[q[i]].order - 1 /\ labels[j] = sorted[q[j]].order - 1
        BY <2>12
      <4> QED
        BY <3>2, <3>3, <4>1, SMTT(30)
    <3> QED
      BY <2>12, <3>4, SMTT(30)
  \* The base period.
  <2>15. B \in SUBSET (1..n)
    BY <1>2 DEF B
  <2>16. IsFiniteSet(B) /\ Cardinality(B) \in Nat /\ Len(bases) = Cardinality(B)
    BY <1>2, <1>3, <1>4, <2>15, PickedIs, InOrderIs
  <2>17. \A i, j \in B : i = j
    BY <1>1, <1>2 DEF B, AreSelected, IsPeriod
  <2>18. Len(bases) = 1 <=> B # {}
    <3>1. CASE B = {}
      BY <2>16, <3>1, FS_EmptySet
    <3>2. CASE B # {}
      <4>1. PICK b \in B : B = {b}
        BY <2>17, <3>2
      <4> QED
        BY <2>16, <3>2, <4>1, FS_Singleton
    <3> QED
      BY <3>1, <3>2
  <2>19. \A x : IsPeriod(x) /\ x.type = "BASE" => Label(x) = 0
    BY DEF Label
  <2>20. \A i \in 1..n : IsPeriod(periods[i]) /\ (periods[i].type = "BASE" \/ periods[i].type = "OPTION")
    BY <1>2 DEF IsPeriod, PeriodTypes
  <2>21. \A i \in 1..n : i \in B <=> periods[i].type = "BASE"
    BY <1>2 DEF B
  <2>22. \A k \in 1..n : k \in O <=> sorted[k].type = "OPTION"
    BY <2>4 DEF O
  <2>23. ASSUME NEW i \in 1..n, i \notin B PROVE \E k \in 1..m : labels[k] = Label(periods[i])
    <3>1. PICK k \in 1..n : p[k] = i
      BY <2>3
    <3>2. sorted[k] = periods[i] /\ k \in O
      BY <2>4, <2>20, <2>21, <2>22, <2>23, <3>1
    <3>3. PICK c \in 1..m : q[c] = k
      BY <2>7, <3>2
    <3> QED
      BY <2>12, <3>2, <3>3
  <2>24. ASSUME NEW k \in 1..m PROVE \E i \in 1..n : labels[k] = Label(periods[i])
    <3>1. p[q[k]] \in 1..n /\ sorted[q[k]] = periods[p[q[k]]]
      BY <2>3, <2>4, <2>9
    <3> QED
      BY <2>12, <3>1
  <2>25. ToSet(labels) = {labels[k] : k \in 1..m}
    BY <2>13 DEF ToSet
  <2>26. IsDistinct(all) /\ ToSet(all) = {Label(x) : x \in ToSet(periods)}
    <3>1. CASE B # {}
      <4>1. all = <<0>> \o labels
        BY <2>18, <3>1 DEF labels
      <4> HIDE DEF all
      <4>2. /\ all \in Seq(Nat) /\ Len(all) = m + 1 /\ DOMAIN all = 1..m + 1
            /\ all[1] = 0 /\ \A k \in 1..m : all[k + 1] = labels[k]
        <5>1. 0 \in Nat
          OBVIOUS
        <5>2. /\ all \in Seq(Nat) /\ Len(all) = Len(labels) + 1 /\ all[1] = 0
              /\ \A k \in 1..Len(labels) : all[k + 1] = labels[k]
          BY <2>13, <4>1, <5>1, OneInFront
        <5> QED
          BY <2>7, <2>13, <5>2
      <4>3. \A k \in 1..m + 1 : k = 1 \/ (k - 1 \in 1..m /\ (k - 1) + 1 = k /\ all[k] = labels[k - 1])
        <5> TAKE k \in 1..m + 1
        <5>1. k = 1 \/ (k - 1 \in 1..m /\ (k - 1) + 1 = k)
          BY <2>7
        <5> QED
          BY <4>2, <5>1
      <4>4. ASSUME NEW i \in 1..m + 1, NEW j \in 1..m + 1, all[i] = all[j] PROVE i = j
        <5>1. CASE i = 1 /\ j = 1
          BY <5>1
        <5>2. CASE i # 1 /\ j # 1
          <6>1. i - 1 = j - 1
            BY <2>14, <4>3, <4>4, <5>2
          <6> QED
            BY <6>1, <2>7
        <5>3. CASE i = 1 /\ j # 1
          BY <2>12, <4>2, <4>3, <4>4, <5>3, SMTT(30)
        <5>4. CASE i # 1 /\ j = 1
          BY <2>12, <4>2, <4>3, <4>4, <5>4, SMTT(30)
        <5> QED
          BY <5>1, <5>2, <5>3, <5>4
      <4>5. ToSet(all) = {all[k] : k \in 1..m + 1}
        BY <4>2 DEF ToSet
      <4>6. ASSUME NEW e \in ToSet(all) PROVE \E i \in 1..n : e = Label(periods[i])
        <5>1. PICK k \in 1..m + 1 : e = all[k]
          BY <4>5
        <5>2. CASE k = 1
          <6>1. PICK i \in B : TRUE
            BY <3>1
          <6>2. i \in 1..n /\ Label(periods[i]) = 0
            BY <2>15, <2>19, <2>20, <2>21
          <6> QED
            BY <4>2, <5>1, <5>2, <6>2
        <5>3. CASE k # 1
          BY <2>24, <4>3, <5>1, <5>3
        <5> QED
          BY <5>2, <5>3
      <4>7. ASSUME NEW i \in 1..n PROVE Label(periods[i]) \in ToSet(all)
        <5>1. CASE i \in B
          <6>1. Label(periods[i]) = all[1] /\ 1 \in 1..m + 1
            BY <2>7, <2>19, <2>20, <2>21, <4>2, <5>1
          <6> QED
            BY <4>5, <6>1
        <5>2. CASE i \notin B
          <6>1. PICK k \in 1..m : labels[k] = Label(periods[i])
            BY <2>23, <5>2
          <6>2. k + 1 \in 1..m + 1 /\ all[k + 1] = labels[k]
            BY <2>7, <4>2
          <6> QED
            BY <4>5, <6>1, <6>2
        <5> QED
          BY <5>1, <5>2
      <4>8. ToSet(all) = {Label(x) : x \in ToSet(periods)}
        BY <1>5, <4>6, <4>7
      <4> QED
        BY <4>2, <4>4, <4>8 DEF IsDistinct
    <3>2. CASE B = {}
      <4>1. all = labels
        <5>1. all = <<>> \o labels
          BY <2>18, <3>2 DEF labels
        <5> HIDE DEF all
        <5> QED
          BY <2>13, <5>1
      <4> HIDE DEF all
      <4>2. IsDistinct(labels)
        BY <2>13, <2>14 DEF IsDistinct
      <4>3. ASSUME NEW e \in ToSet(labels) PROVE \E i \in 1..n : e = Label(periods[i])
        BY <2>24, <2>25
      <4>4. ASSUME NEW i \in 1..n PROVE Label(periods[i]) \in ToSet(labels)
        <5>1. PICK k \in 1..m : labels[k] = Label(periods[i])
          BY <2>23, <3>2
        <5> QED
          BY <2>25, <5>1
      <4>5. ToSet(labels) = {Label(x) : x \in ToSet(periods)}
        BY <1>5, <4>3, <4>4
      <4> QED
        BY <4>1, <4>2, <4>5
    <3> QED
      BY <3>1, <3>2
  <2> HIDE DEF all
  <2>27. CdsNumber \in Seq(Nat)
    BY DEF CdsNumber
  <2>28. all \in {s \in Seq(Nat) : IsDistinct(s)}
    BY <2>26 DEF IsDistinct
  <2>29. pop \in TaskPop
    BY <2>27, <2>28 DEF TaskPop, PopsOf
  <2>30. pop.number = CdsNumber /\ pop.entire = FALSE /\ pop.periods = all
    OBVIOUS
  <2> HIDE DEF pop
  <2>31. CdsPops(cds)[1] = pop /\ CdsPops(cds) = <<CdsPops(cds)[1]>>
    BY <2>1
  <2>32. cds.entire = FALSE
    BY <1>1, <1>8, Zenon
  <2>33. ToSet(CdsPops(cds)[1].periods) = {Label(x) : x \in ToSet(cds.periods)}
    BY <2>26, <2>30, <2>31 DEF periods
  <2> QED
    BY <1>8, <2>29, <2>30, <2>31, <2>32, <2>33
<1> QED
  BY <1>1, <1>6, <1>7, <1>8

\* The instances with a task, and 0 for the cross domain solution.
TaskPlaces(package) ==
  LevelledAt(package.instances) \cup (IF package.cds.required THEN {0} ELSE {})

\* The task of each.
TaskAt(package) ==
  [d \in TaskPlaces(package) |->
     IF d = 0 THEN CdsPops(package.cds)[1] ELSE PopsOfInstances(package.instances)[d]]

\* The four groups of services with an array of their own in the payload.
LEMMA OwnArraysAre ==
  /\ DOMAIN OwnArrays = 1..4
  /\ \A a, b \in 1..4 : OwnArrays[a] = OwnArrays[b] => a = b
  /\ ToSet(OwnArrays) = {"COMPUTE", "DATABASE", "STORAGE", "GENERAL_XAAS"}
<1>1. /\ DOMAIN OwnArrays = 1..4 /\ OwnArrays[1] = "COMPUTE" /\ OwnArrays[2] = "DATABASE"
      /\ OwnArrays[3] = "STORAGE" /\ OwnArrays[4] = "GENERAL_XAAS"
  BY DEF OwnArrays
<1>2. \A l \in 1..4 : l \in {1, 2, 3, 4}
  OBVIOUS
<1>3. \A a, b \in 1..4 : OwnArrays[a] = OwnArrays[b] => a = b
  BY <1>1, <1>2
<1>4. ToSet(OwnArrays) = {"COMPUTE", "DATABASE", "STORAGE", "GENERAL_XAAS"}
  BY <1>1, <1>2 DEF ToSet
<1> QED
  BY <1>1, <1>3, <1>4

\* Each instance is in exactly one of the arrays that the tasks are made from.
LEMMA KindsOfInstances ==
  ASSUME NEW x, IsInstance(x)
  PROVE  /\ x.group \in ToSet(OwnArrays) \/ IsSelected(x) \/ IsSupport(x)
         /\ ~(x.group \in ToSet(OwnArrays) /\ (IsSelected(x) \/ IsSupport(x)))
         /\ ~(IsSelected(x) /\ IsSupport(x))
         /\ IsSupport(x) <=> x.group \notin ToSet(XaasServiceGroups)
         /\ x.group \in ToSet(OwnArrays) => x.group \in ToSet(XaasServiceGroups)
<1>1. x.group \in ToSet(XaasServiceGroups) \cup SupportTypes
  BY DEF IsInstance
<1>2. ~(x.group \in ToSet(XaasServiceGroups) /\ x.group \in SupportTypes)
  BY XaasGroupsAre, SupportGroupsAre DEF SupportTypes
<1>3. x.group \in ToSet(OwnArrays) => x.group \in ToSet(XaasServiceGroups)
  BY XaasGroupsAre, OwnArraysAre
<1> QED
  BY <1>1, <1>2, <1>3 DEF IsSelected, IsSupport

\* The tasks of the instances that one kind of array holds.
LEMMA PopsOfKindAre ==
  ASSUME NEW ins, AreInstances(ins), NEW S \in SUBSET (DOMAIN ins),
         \A i \in S, j \in DOMAIN ins : ins[j].group = ins[i].group => j \in S,
         NEW sub, sub = Picked(ins, InOrder(S)),
         NEW F, \A i \in LevelledAt(ins) : F[i] = PopsOfInstances(ins)[i]
  PROVE  /\ InstancePops(sub) \in Seq(TaskPop)
         /\ Lists(InstancePops(sub), LevelledAt(ins) \cap S, F)
<1>1. InstancePops(sub) \in Seq(TaskPop) /\ Lists(InstancePops(sub), LevelledAt(ins) \cap S, PopsOfInstances(ins))
  BY FilteredPopsAre
<1>2. \A i \in LevelledAt(ins) \cap S : F[i] = PopsOfInstances(ins)[i]
  OBVIOUS
<1> QED
  BY <1>1, <1>2, ListsSameValues

\* The task of the cross domain solution stands alone.
LEMMA CdsLists ==
  ASSUME NEW package, IsPackage(package)
  PROVE  LET C == IF package.cds.required THEN {0} ELSE {}
         IN /\ CdsPops(package.cds) \in Seq(TaskPop)
            /\ Lists(CdsPops(package.cds), C, TaskAt(package))
<1> DEFINE cds == package.cds
           pop == CdsPops(cds)[1]
           C == IF package.cds.required THEN {0} ELSE {}
           F == TaskAt(package)
<1>1. IsCds(cds)
  BY DEF IsPackage
<1>2. CASE ~cds.required
  <2>1. CdsPops(cds) = <<>> /\ C = {}
    BY <1>1, <1>2, CdsPopsAre
  <2>2. <<>> \in Seq(TaskPop)
    OBVIOUS
  <2> QED
    BY <2>1, <2>2, ListsNothing
<1>3. CASE cds.required
  <2>1. CdsPops(cds) = <<pop>> /\ pop \in TaskPop
    BY <1>1, <1>3, CdsPopsAre
  <2>2. C = {0} /\ 0 \in TaskPlaces(package)
    BY <1>3 DEF TaskPlaces
  <2>3. F[0] = pop
    BY <2>2 DEF TaskAt
  <2> DEFINE at == [d \in {0} |-> 1]
  <2> HIDE DEF pop, F, C
  <2>4. <<pop>> \in Seq(TaskPop) /\ Len(<<pop>>) = 1 /\ <<pop>>[1] = pop
    BY <2>1
  <2>5. at \in Bijection({0}, 1..1)
    <3>1. 1..1 = {1}
      OBVIOUS
    <3> QED
      BY <3>1 DEF Bijection, Injection, Surjection, IsInjective
  <2>6. at[0] = 1
    OBVIOUS
  <2> HIDE DEF at
  <2>7. \A d \in {0} : <<pop>>[at[d]] = F[d]
    BY <2>3, <2>4, <2>6
  <2>8. Lists(<<pop>>, {0}, F)
    BY <2>4, <2>5, <2>7 DEF Lists
  <2> QED
    BY <2>1, <2>2, <2>4, <2>8 DEF C, F
<1> QED
  BY <1>2, <1>3

\* The tasks of a package: one for each instance with a level, and one for the cross
\* domain solution if it is required.
LEMMA TaskPopsAre ==
  ASSUME NEW package, IsPackage(package)
  PROVE  /\ TaskPops(package) \in Seq(TaskPop)
         /\ Lists(TaskPops(package), TaskPlaces(package), TaskAt(package))
<1> DEFINE ins == package.instances
           L == LevelledAt(ins)
           F == TaskAt(package)
           Own(a) == {i \in DOMAIN ins : ins[i].group = OwnArrays[a]}
           Selected == {i \in DOMAIN ins : IsSelected(ins[i])}
           Support == {i \in DOMAIN ins : IsSupport(ins[i])}
           O == {i \in L : ins[i].group \in ToSet(OwnArrays)}
           C == IF package.cds.required THEN {0} ELSE {}
           seqs == [a \in 1..4 |-> InstancePops(OfArray(ins, OwnArrays[a]))]
           own == FlattenSeq(seqs)
           selected == InstancePops(Filter(ins, IsSelected))
           cds == CdsPops(package.cds)
           support == InstancePops(Filter(ins, IsSupport))
<1>1. /\ AreInstances(ins)
      /\ Len(ins) \in Nat /\ DOMAIN ins = 1..Len(ins)
      /\ \A i \in DOMAIN ins : IsInstance(ins[i])
  <2>1. \A i \in DOMAIN ins : ins[i] \in ToSet(ins)
    BY DEF ToSet
  <2> QED
    BY <2>1, ArrayIs DEF IsPackage, AreInstances
<1>2. \A i \in L : i # 0 /\ i \in DOMAIN ins
  BY <1>1 DEF LevelledAt
<1>3. \A i \in L : F[i] = PopsOfInstances(ins)[i]
  BY <1>2 DEF TaskAt, TaskPlaces
<1>4. TaskPops(package) = own \o selected \o cds \o support
  BY OwnArraysAre, Zenon DEF TaskPops
<1> HIDE DEF F
<1>5. ASSUME NEW a \in 1..4
      PROVE  InstancePops(OfArray(ins, OwnArrays[a])) \in Seq(TaskPop) /\
             Lists(InstancePops(OfArray(ins, OwnArrays[a])), L \cap Own(a), F)
  <2>1. OfArray(ins, OwnArrays[a]) = Picked(ins, InOrder(Own(a)))
    BY Zenon DEF OfArray, Filter
  <2>2. Own(a) \in SUBSET (DOMAIN ins)
    OBVIOUS
  <2>3. \A i \in Own(a), j \in DOMAIN ins : ins[j].group = ins[i].group => j \in Own(a)
    OBVIOUS
  <2> HIDE DEF ins, L, Own
  <2> QED
    BY <1>1, <1>3, <2>1, <2>2, <2>3, PopsOfKindAre DEF L
<1>6. selected \in Seq(TaskPop) /\ Lists(selected, L \cap Selected, F)
  <2>1. Filter(ins, IsSelected) = Picked(ins, InOrder(Selected))
    BY Zenon DEF Filter
  <2>2. Selected \in SUBSET (DOMAIN ins)
    OBVIOUS
  <2>3. \A i \in Selected, j \in DOMAIN ins : ins[j].group = ins[i].group => j \in Selected
    BY DEF IsSelected, IsSupport
  <2> HIDE DEF ins, L, Selected
  <2> QED
    BY <1>1, <1>3, <2>1, <2>2, <2>3, PopsOfKindAre DEF L
<1>7. support \in Seq(TaskPop) /\ Lists(support, L \cap Support, F)
  <2>1. Filter(ins, IsSupport) = Picked(ins, InOrder(Support))
    BY Zenon DEF Filter
  <2>2. Support \in SUBSET (DOMAIN ins)
    OBVIOUS
  <2>3. \A i \in Support, j \in DOMAIN ins : ins[j].group = ins[i].group => j \in Support
    BY DEF IsSupport
  <2> HIDE DEF ins, L, Support
  <2> QED
    BY <1>1, <1>3, <2>1, <2>2, <2>3, PopsOfKindAre DEF L
<1>8. cds \in Seq(TaskPop) /\ Lists(cds, C, F)
  BY CdsLists DEF F
<1>9. own \in Seq(TaskPop) /\ Lists(own, O, F)
  <2> DEFINE part == [i \in O |-> CHOOSE a \in 1..4 : OwnArrays[a] = ins[i].group]
  <2>1. \A i \in O : part[i] \in 1..4 /\ OwnArrays[part[i]] = ins[i].group
    <3> TAKE i \in O
    <3>1. \E a \in 1..4 : OwnArrays[a] = ins[i].group
      BY OwnArraysAre DEF ToSet
    <3> QED
      BY <3>1
  <2>2. part \in [O -> 1..4]
    BY <2>1
  <2>3. \A a \in 1..4 : OwnArrays[a] \in ToSet(OwnArrays)
    BY OwnArraysAre DEF ToSet
  <2> HIDE DEF part
  <2>4. ASSUME NEW a \in 1..4 PROVE {i \in O : part[i] = a} = L \cap Own(a)
    <3>1. ASSUME NEW i \in O PROVE part[i] = a <=> ins[i].group = OwnArrays[a]
      BY <2>1, OwnArraysAre
    <3>2. \A i \in L : ins[i].group = OwnArrays[a] => i \in O
      BY <2>3
    <3> QED
      BY <1>2, <3>1, <3>2
  <2> HIDE DEF ins, L, O, Own
  <2>5. \A a \in 1..4 : seqs[a] = InstancePops(OfArray(ins, OwnArrays[a])) /\ seqs[a] \in Seq(TaskPop)
    BY <1>5
  <2>6. seqs \in Seq(Seq(TaskPop)) /\ Len(seqs) = 4
    BY <2>5
  <2> HIDE DEF seqs
  <2>7. \A a \in 1..4 : Lists(seqs[a], {i \in O : part[i] = a}, F)
    BY <1>5, <2>4, <2>5
  <2>8. Lists(FlattenSeq(seqs), O, F)
    BY <2>2, <2>6, <2>7, ListsFlattened
  <2>9. FlattenSeq(seqs) \in Seq(TaskPop)
    BY <2>6, FlattenIs
  <2> QED
    BY <2>8, <2>9
<1> DEFINE A == L \cap Selected
           B == L \cap Support
<1>10. /\ O \cap A = {} /\ (O \cup A) \cap C = {} /\ (O \cup A \cup C) \cap B = {}
       /\ O \cup A \cup C \cup B = TaskPlaces(package)
  <2>1. \A i \in L : /\ ins[i].group \in ToSet(OwnArrays) \/ IsSelected(ins[i]) \/ IsSupport(ins[i])
                     /\ ~(ins[i].group \in ToSet(OwnArrays) /\ (IsSelected(ins[i]) \/ IsSupport(ins[i])))
                     /\ ~(IsSelected(ins[i]) /\ IsSupport(ins[i]))
    BY <1>1, <1>2, KindsOfInstances
  <2>2. \A i \in C : i = 0
    OBVIOUS
  <2>3. \A i \in L : /\ i \in O <=> ins[i].group \in ToSet(OwnArrays)
                     /\ i \in A <=> IsSelected(ins[i])
                     /\ i \in B <=> IsSupport(ins[i])
    BY <1>2
  <2>4. O \subseteq L /\ A \subseteq L /\ B \subseteq L
    OBVIOUS
  <2>5. TaskPlaces(package) = L \cup C
    BY DEF TaskPlaces
  <2> HIDE DEF ins, L, O, A, B, C
  <2> QED
    BY <1>2, <2>1, <2>2, <2>3, <2>4, <2>5
<1> HIDE DEF O, A, B, C, own, selected, cds, support, ins, L
<1>11. own \o selected \in Seq(TaskPop) /\ Lists(own \o selected, O \cup A, F)
  BY <1>6, <1>9, <1>10, ListsConcatenation DEF A
<1> DEFINE two == own \o selected
<1> HIDE DEF two
<1>12. two \in Seq(TaskPop) /\ Lists(two, O \cup A, F)
  BY <1>11 DEF two
<1>13. two \o cds \in Seq(TaskPop) /\ Lists(two \o cds, O \cup A \cup C, F)
  BY <1>8, <1>10, <1>12, ListsConcatenation
<1> DEFINE three == two \o cds
<1> HIDE DEF three
<1>14. three \in Seq(TaskPop) /\ Lists(three, O \cup A \cup C, F)
  BY <1>13 DEF three
<1>15. three \o support \in Seq(TaskPop) /\ Lists(three \o support, O \cup A \cup C \cup B, F)
  BY <1>7, <1>10, <1>14, ListsConcatenation DEF B
<1> QED
  BY <1>4, <1>10, <1>15 DEF two, three, F

-----------------------------------------------------------------------------
(***************************************************************************)
(* The numbers of the tasks, in the table and in the list for getCDRLs.    *)
(***************************************************************************)
\* The table has the numbers of the tasks it is made from, and no others.
LEMMA TableNumbersAre ==
  ASSUME NEW N, NEW pops \in Seq(PopsOf(N)), NEW columns, ToSet(columns) \subseteq Nat
  PROVE  TableNumbers(PopTable(pops, columns)) = {pops[i].number : i \in 1..Len(pops)}
<1> DEFINE table == PopTable(pops, columns)
           n == Len(pops)
<1>1. PICK at \in Bijection(1..n, Places(table)) :
        \A i \in 1..n : /\ table[at[i][1]].numbers[at[i][2]] = pops[i].number
                        /\ table[at[i][1]].marks = MarksOf(pops[i], columns)
  BY PopTablePlaces
<1>2. table \in Seq(RowsOf(N))
  BY PopTableRows
<1> HIDE DEF table, n
<1>3. Len(table) \in Nat /\ DOMAIN table = 1..Len(table) /\ \A r \in 1..Len(table) : table[r].numbers \in Seq(N)
  <2>1. Len(table) \in Nat /\ DOMAIN table = 1..Len(table) /\ \A r \in 1..Len(table) : table[r] \in RowsOf(N)
    BY <1>2
  <2>2. \A row \in RowsOf(N) : row.numbers \in Seq(N)
    BY DEF RowsOf
  <2> QED
    BY <2>1, <2>2
<1>4. \A r \in 1..Len(table) : Len(table[r].numbers) \in Nat /\ DOMAIN table[r].numbers = 1..Len(table[r].numbers)
  BY <1>3
<1>5. ASSUME NEW i \in 1..n PROVE pops[i].number \in TableNumbers(table)
  <2>1. at[i] \in Places(table)
    BY DEF Bijection, Injection
  <2>2. at[i][1] \in 1..Len(table) /\ at[i][2] \in 1..Len(table[at[i][1]].numbers)
    BY <2>1 DEF Places
  <2> DEFINE r == at[i][1]
             c == at[i][2]
  <2>3. r \in 1..Len(table) /\ c \in DOMAIN table[r].numbers /\ table[r].numbers[c] = pops[i].number
    BY <1>1, <1>4, <2>2
  <2> HIDE DEF r, c
  <2>4. table[r].numbers[c] \in ToSet(table[r].numbers)
    BY <2>3 DEF ToSet
  <2>5. TableNumbers(table) = UNION {ToSet(table[x].numbers) : x \in 1..Len(table)}
    BY <1>3 DEF TableNumbers
  <2> QED
    BY <2>3, <2>4, <2>5
<1>6. ASSUME NEW e \in TableNumbers(table) PROVE \E i \in 1..n : e = pops[i].number
  <2>1. PICK r \in 1..Len(table) : e \in ToSet(table[r].numbers)
    BY <1>3 DEF TableNumbers
  <2>2. PICK c \in 1..Len(table[r].numbers) : e = table[r].numbers[c]
    BY <1>4, <2>1 DEF ToSet
  <2>3. <<r, c>> \in Places(table)
    BY <1>4 DEF Places
  <2>4. PICK i \in 1..n : at[i] = <<r, c>>
    BY <2>3 DEF Bijection, Surjection
  <2>5. at[i][1] = r /\ at[i][2] = c
    BY <2>4
  <2>6. table[r].numbers[c] = pops[i].number
    BY <1>1, <2>5
  <2> QED
    BY <2>2, <2>6
<1>7. TableNumbers(table) = {pops[i].number : i \in 1..n}
  BY <1>5, <1>6
<1> QED
  BY <1>7 DEF table, n

\* The list that the data requirements are read off has the numbers of the tasks it is made
\* from.
LEMMA AllPopTasksAre ==
  ASSUME NEW N, NEW pops \in Seq(PopsOf(N))
  PROVE  /\ AllPopTasks(pops) \in Seq(N)
         /\ ToSet(AllPopTasks(pops)) = {pops[i].number : i \in 1..Len(pops)}
<1> DEFINE groups == TaskNumberGroups(pops)
           table == PopTable(pops, <<>>)
           first == EntireDurationTasks(pops)
           seqs == [g \in DOMAIN groups |-> groups[g].numbers]
           n == Len(groups)
<1>1. ToSet(<<>>) = {}
  BY DEF ToSet
<1>2. TableNumbers(table) = {pops[i].number : i \in 1..Len(pops)}
  BY <1>1, TableNumbersAre
<1>3. /\ table \in Seq(RowsOf(N))
      /\ Len(table) = n + 1
      /\ table[1].numbers = first
      /\ \A g \in 1..n : table[g + 1].numbers = groups[g].numbers
  BY <1>1, PopTableRows
<1>4. AllPopTasks(pops) = first \o FlattenSeq(seqs)
  BY DEF AllPopTasks
<1>5. groups \in Seq(GroupsOf(N))
  BY TaskNumberGroupsPlaces
<1>6. first \in Seq(N)
  BY EntireDurationTasksAre
<1> HIDE DEF groups, first, table, n
<1>7. n \in Nat /\ DOMAIN groups = 1..n /\ \A g \in 1..n : groups[g].numbers \in Seq(N)
  <2>1. n \in Nat /\ DOMAIN groups = 1..n /\ \A g \in 1..n : groups[g] \in GroupsOf(N)
    BY <1>5 DEF n
  <2> QED
    BY <2>1, GroupIs
<1>8. seqs \in Seq(Seq(N)) /\ DOMAIN seqs = 1..n /\ \A g \in 1..n : seqs[g] = groups[g].numbers
  BY <1>7
<1> HIDE DEF seqs
<1>9. FlattenSeq(seqs) \in Seq(N) /\ ToSet(FlattenSeq(seqs)) = UNION {ToSet(seqs[i]) : i \in DOMAIN seqs}
  BY <1>8, FlattenIs
<1>10. /\ first \o FlattenSeq(seqs) \in Seq(N)
       /\ ToSet(first \o FlattenSeq(seqs)) = ToSet(first) \cup ToSet(FlattenSeq(seqs))
  BY <1>6, <1>9, ToSetOfConcatenation
<1>11. DOMAIN table = 1..n + 1
  BY <1>3
<1>12. TableNumbers(table) = ToSet(first) \cup (UNION {ToSet(seqs[g]) : g \in 1..n})
  <2>1. TableNumbers(table) = UNION {ToSet(table[r].numbers) : r \in 1..n + 1}
    BY <1>11 DEF TableNumbers
  <2>2. 1 \in 1..n + 1 /\ \A g \in 1..n : g + 1 \in 1..n + 1
    BY <1>7
  <2>3. \A r \in 1..n + 1 : r = 1 \/ (r - 1 \in 1..n /\ (r - 1) + 1 = r)
    BY <1>7
  <2>4. ASSUME NEW r \in 1..n + 1
        PROVE  ToSet(table[r].numbers) \subseteq ToSet(first) \cup (UNION {ToSet(seqs[g]) : g \in 1..n})
    <3>1. CASE r = 1
      BY <1>3, <3>1
    <3>2. CASE r # 1
      <4>1. r - 1 \in 1..n /\ table[(r - 1) + 1].numbers = seqs[r - 1] /\ (r - 1) + 1 = r
        BY <1>3, <1>8, <2>3, <3>2
      <4>2. table[r].numbers = seqs[r - 1]
        BY <4>1
      <4> QED
        BY <4>1, <4>2
    <3> QED
      BY <3>1, <3>2
  <2>5. ToSet(first) \subseteq TableNumbers(table)
    BY <1>3, <2>1, <2>2
  <2>6. ASSUME NEW g \in 1..n PROVE ToSet(seqs[g]) \subseteq TableNumbers(table)
    <3>1. table[g + 1].numbers = seqs[g] /\ g + 1 \in 1..n + 1
      BY <1>3, <1>8, <2>2
    <3> QED
      BY <2>1, <3>1
  <2> QED
    BY <2>1, <2>4, <2>5, <2>6
<1> QED
  BY <1>2, <1>4, <1>8, <1>9, <1>10, <1>12

-----------------------------------------------------------------------------
\* The numbers of the tasks of a package.
TaskNumbers(package) ==
  {TaskNumber(package.instances[i], Nth(package.instances, i)) : i \in LevelledAt(package.instances)}
  \cup (IF package.cds.required THEN {CdsNumber} ELSE {})

\* A list of the values of a function has those values, and no others.
LEMMA ListedValues ==
  ASSUME NEW seq, NEW D, NEW F, Lists(seq, D, F)
  PROVE  /\ \A i \in 1..Len(seq) : \E d \in D : seq[i] = F[d]
         /\ \A d \in D : \E i \in 1..Len(seq) : seq[i] = F[d]
<1>1. PICK at \in Bijection(D, 1..Len(seq)) : \A d \in D : seq[at[d]] = F[d]
  BY DEF Lists
<1> QED
  BY <1>1 DEF Bijection, Injection, Surjection

\* What a request may have in a package, in the form the proofs use.
LEMMA PackageIs ==
  ASSUME NEW package, IsPackage(package)
  PROVE  LET ins == package.instances
         IN /\ AreInstances(ins) /\ ins \in Seq(ToSet(ins))
            /\ Len(ins) \in Nat /\ DOMAIN ins = 1..Len(ins)
            /\ \A i \in 1..Len(ins) : IsInstance(ins[i])
            /\ \A i \in LevelledAt(ins) :
                 /\ i \in 1..Len(ins) /\ Nth(ins, i) \in Nat \ {0}
                 /\ ins[i].level \in ToSet(ClassificationLevels)
<1> DEFINE ins == package.instances
<1>1. /\ AreInstances(ins) /\ ins \in Seq(ToSet(ins))
      /\ Len(ins) \in Nat /\ DOMAIN ins = 1..Len(ins)
      /\ \A i \in 1..Len(ins) : IsInstance(ins[i])
  <2>1. \A i \in DOMAIN ins : ins[i] \in ToSet(ins)
    BY DEF ToSet
  <2> QED
    BY <2>1, ArrayIs DEF IsPackage, AreInstances, IsArray
<1> HIDE DEF ins
<1>2. ASSUME NEW i \in LevelledAt(ins)
      PROVE  i \in 1..Len(ins) /\ Nth(ins, i) \in Nat \ {0} /\ ins[i].level \in ToSet(ClassificationLevels)
  <2>1. i \in 1..Len(ins) /\ ins[i].level \in ToSet(ClassificationLevels)
    BY <1>1 DEF LevelledAt
  <2> DEFINE S == {j \in 1..i : ins[j].group = ins[i].group /\ ins[j].level = ins[i].level}
  <2>2. i \in Nat /\ i \in S
    BY <1>1, <2>1
  <2>3. S \subseteq 1..i
    OBVIOUS
  <2> HIDE DEF S
  <2>4. IsFiniteSet(S)
    BY <2>2, <2>3, IntervalSize, FS_Subset
  <2>5. Cardinality(S) \in Nat /\ Cardinality(S) # 0
    BY <2>2, <2>4, FS_CardinalityType, FS_EmptySet
  <2> QED
    BY <2>1, <2>5 DEF Nth, S
<1> QED
  BY <1>1, <1>2 DEF ins

\* The numbers of the tasks of a package are those of its instances, and that of the cross
\* domain solution.
LEMMA NumbersOfTaskPops ==
  ASSUME NEW package, IsPackage(package)
  PROVE  LET pops == TaskPops(package)
         IN {pops[i].number : i \in 1..Len(pops)} = TaskNumbers(package)
<1> DEFINE pops == TaskPops(package)
           F == TaskAt(package)
           D == TaskPlaces(package)
           ins == package.instances
           L == LevelledAt(ins)
<1>1. Lists(pops, D, F)
  BY TaskPopsAre
<1>2. \A i \in L : i # 0 /\ IsInstance(ins[i]) /\ ins[i].level \in ToSet(ClassificationLevels) /\ Nth(ins, i) \in Nat
  BY PackageIs
<1>3. ASSUME NEW i \in L PROVE i \in D /\ F[i].number = TaskNumber(ins[i], Nth(ins, i))
  <2>1. F[i] = InstancePop(ins[i], Nth(ins, i))
    BY <1>2 DEF TaskAt, TaskPlaces, PopsOfInstances
  <2> QED
    BY <1>2, <2>1, InstancePopIs DEF TaskPlaces
<1>4. package.cds.required => 0 \in D /\ F[0].number = CdsNumber
  <2>1. IsCds(package.cds)
    BY DEF IsPackage
  <2> QED
    BY <2>1, CdsPopsAre DEF TaskAt, TaskPlaces
<1>5. \A d \in D : d \in L \/ (d = 0 /\ package.cds.required)
  BY DEF TaskPlaces
<1>6. TaskNumbers(package) = {F[d].number : d \in D}
  <2>1. \A d \in D : F[d].number \in TaskNumbers(package)
    BY <1>3, <1>4, <1>5 DEF TaskNumbers
  <2>2. ASSUME NEW e \in TaskNumbers(package) PROVE \E d \in D : e = F[d].number
    <3>1. (\E i \in L : e = TaskNumber(ins[i], Nth(ins, i))) \/ (package.cds.required /\ e = CdsNumber)
      BY DEF TaskNumbers
    <3> HIDE DEF F, D, L, ins
    <3> QED
      BY <1>3, <1>4, <3>1
  <2> QED
    BY <2>1, <2>2
<1> HIDE DEF F, D, pops
<1>7. {pops[i].number : i \in 1..Len(pops)} = {F[d].number : d \in D}
  <2>1. ASSUME NEW i \in 1..Len(pops) PROVE \E d \in D : pops[i].number = F[d].number
    BY <1>1, ListedValues
  <2>2. ASSUME NEW d \in D PROVE \E i \in 1..Len(pops) : pops[i].number = F[d].number
    BY <1>1, ListedValues
  <2> QED
    BY <2>1, <2>2
<1> QED
  BY <1>6, <1>7 DEF pops

-----------------------------------------------------------------------------
(***************************************************************************)
(* The data requirements (CdrlsMatchPackage): what is left of a task       *)
(* number after seven characters.                                          *)
(***************************************************************************)
LevelOf(x) == Position(x.level, ClassificationLevels)

\* What getCDRLs sees of a task number: the section, with the first digit of the
\* group.
CutOf(x) ==
  CASE x.group = "PORTABILITY_PLAN" -> <<4, 3, LevelOf(x)>>
    [] x.group \in ToSet(CloudSupportGroups) ->
         <<4, 3, LevelOf(x), Position(x.group, CloudSupportGroups)>>
    [] OTHER ->
         LET g == Position(x.group, XaasServiceGroups)
         IN <<4, 2, LevelOf(x), IF g >= 10 THEN g \div 10 ELSE g>>

\* Sequences of three and of four are their elements.
LEMMA ThreeOrFour ==
  ASSUME NEW T, NEW s \in Seq(T)
  PROVE  /\ Len(s) = 3 => s = <<s[1], s[2], s[3]>>
         /\ Len(s) = 4 => s = <<s[1], s[2], s[3], s[4]>>
OBVIOUS

\* The first three of five.
LEMMA FirstThree ==
  ASSUME NEW T, NEW a \in T, NEW b \in T, NEW c \in T, NEW d \in T, NEW e \in T
  PROVE  SubSeq(<<a, b, c, d, e>>, 1, 3) = <<a, b, c>>
<1> DEFINE n == <<a, b, c, d, e>>
<1>1. n \in Seq(T) /\ Len(n) = 5 /\ n[1] = a /\ n[2] = b /\ n[3] = c
  OBVIOUS
<1> HIDE DEF n
<1>2. /\ SubSeq(n, 1, 3) \in Seq(T) /\ Len(SubSeq(n, 1, 3)) = 3
      /\ SubSeq(n, 1, 3)[1] = a /\ SubSeq(n, 1, 3)[2] = b /\ SubSeq(n, 1, 3)[3] = c
  BY <1>1
<1> QED
  BY <1>2, ThreeOrFour DEF n

\* One element behind a list.
LEMMA OneBehind ==
  ASSUME NEW T, NEW e \in T, NEW l \in Seq(T)
  PROVE  /\ l \o <<e>> \in Seq(T) /\ Len(l \o <<e>>) = Len(l) + 1
         /\ \A k \in 1..Len(l) : (l \o <<e>>)[k] = l[k]
         /\ (l \o <<e>>)[Len(l) + 1] = e
OBVIOUS

\* Three elements and one are four.
LEMMA ThreeAndOne ==
  ASSUME NEW T, NEW a \in T, NEW b \in T, NEW c \in T, NEW d \in T
  PROVE  <<a, b, c>> \o <<d>> = <<a, b, c, d>>
<1> DEFINE n == <<a, b, c>>
<1>1. n \in Seq(T) /\ Len(n) = 3 /\ n[1] = a /\ n[2] = b /\ n[3] = c
  OBVIOUS
<1> HIDE DEF n
<1>2. /\ n \o <<d>> \in Seq(T) /\ Len(n \o <<d>>) = 4
      /\ (n \o <<d>>)[1] = a /\ (n \o <<d>>)[2] = b /\ (n \o <<d>>)[3] = c /\ (n \o <<d>>)[4] = d
  <2>1. /\ n \o <<d>> \in Seq(T) /\ Len(n \o <<d>>) = Len(n) + 1
        /\ \A k \in 1..Len(n) : (n \o <<d>>)[k] = n[k]
        /\ (n \o <<d>>)[Len(n) + 1] = d
    BY <1>1, OneBehind, ZenonT(40)
  <2> QED
    BY <1>1, <2>1
<1> QED
  BY <1>2, ThreeOrFour DEF n

\* Of a number with five parts the cut keeps four, and of the fourth the first digit.
LEMMA CutOfFive ==
  ASSUME NEW a \in Nat, NEW b \in Nat, NEW c \in Nat, NEW d \in Nat, NEW e \in Nat
  PROVE  Cut(<<a, b, c, d, e>>) = <<a, b, c, IF d >= 10 THEN d \div 10 ELSE d>>
<1> DEFINE number == <<a, b, c, d, e>>
           T == Nat
           digit == IF d >= 10 THEN d \div 10 ELSE d
<1>1. Len(number) = 5 /\ number[4] = d
  OBVIOUS
<1>2. a \in T /\ b \in T /\ c \in T /\ d \in T /\ e \in T /\ digit \in T
  OBVIOUS
<1>3. Cut(number) = SubSeq(number, 1, 3) \o <<digit>>
  BY <1>1 DEF Cut
<1> HIDE DEF T
<1>4. SubSeq(number, 1, 3) = <<a, b, c>>
  BY <1>2, FirstThree
<1> HIDE DEF digit, number
<1>5. <<a, b, c>> \o <<digit>> = <<a, b, c, digit>>
  BY <1>2, ThreeAndOne
<1> QED
  BY <1>3, <1>4, <1>5 DEF digit, number

\* The number of a portability plan is not cut.
LEMMA CutOfThree ==
  ASSUME NEW a, NEW b, NEW c
  PROVE  Cut(<<a, b, c>>) = <<a, b, c>>
BY DEF Cut

\* The cut number of the task of an instance does not depend on its place in the section.
LEMMA CutIs ==
  ASSUME NEW x, IsInstance(x), x.level \in ToSet(ClassificationLevels), NEW k \in Nat
  PROVE  Cut(TaskNumber(x, k)) = CutOf(x)
<1> DEFINE level == LevelOf(x)
           support == Position(x.group, CloudSupportGroups)
           service == Position(x.group, XaasServiceGroups)
<1>0. level \in Nat /\ 4 \in Nat /\ 3 \in Nat /\ 2 \in Nat
  BY PositionIs, LevelsAre DEF LevelOf
<1>1. CASE x.group = "PORTABILITY_PLAN"
  <2>1. x.group \notin ToSet(CloudSupportGroups)
    BY <1>1, SupportGroupsAre
  <2>2. TaskNumber(x, k) = <<4, 3, level>> /\ CutOf(x) = <<4, 3, level>>
    BY <1>1, <2>1, Zenon DEF TaskNumber, CutOf, LevelOf
  <2> QED
    BY <2>2, CutOfThree
<1>2. CASE x.group \in ToSet(CloudSupportGroups)
  <2>1. x.group # "PORTABILITY_PLAN" /\ support \in 1..5
    BY <1>2, SupportGroupsAre
  <2>2. TaskNumber(x, k) = <<4, 3, level, support, k>> /\ CutOf(x) = <<4, 3, level, support>>
    BY <1>2, <2>1, Zenon DEF TaskNumber, CutOf, LevelOf
  <2> HIDE DEF level, support
  <2>3. support \in Nat /\ (IF support >= 10 THEN support \div 10 ELSE support) = support
    BY <2>1
  <2>4. Cut(<<4, 3, level, support, k>>) = <<4, 3, level, support>>
    BY <1>0, <2>3, CutOfFive
  <2> QED
    BY <2>2, <2>4
<1>3. CASE x.group \in ToSet(XaasServiceGroups)
  <2>1. x.group # "PORTABILITY_PLAN" /\ x.group \notin ToSet(CloudSupportGroups) /\ service \in 1..11
    BY <1>3, SupportGroupsAre, XaasGroupsAre
  <2> DEFINE digit == IF service >= 10 THEN service \div 10 ELSE service
  <2>2. TaskNumber(x, k) = <<4, 2, level, service, k>> /\ CutOf(x) = <<4, 2, level, digit>>
    BY <2>1, Zenon DEF TaskNumber, CutOf, LevelOf
  <2> HIDE DEF level, service
  <2>3. service \in Nat
    BY <2>1
  <2>4. Cut(<<4, 2, level, service, k>>) = <<4, 2, level, digit>>
    BY <1>0, <2>3, CutOfFive
  <2> QED
    BY <2>2, <2>4
<1> QED
  BY <1>1, <1>2, <1>3 DEF IsInstance, SupportTypes

\* A plan, training, and the technical edge are told by the cut numbers, and so are
\* the tasks of services.
LEMMA CutsTell ==
  ASSUME NEW x, IsInstance(x), x.level \in ToSet(ClassificationLevels)
  PROVE  /\ LevelOf(x) \in 1..5 /\ CutOf(x)[3] = LevelOf(x)
         /\ \A l \in 1..5 : CutOf(x) = <<4, 3, l>> <=> x.group = "PORTABILITY_PLAN" /\ LevelOf(x) = l
         /\ \A l \in 1..5 : CutOf(x) = <<4, 3, l, 3>> <=> x.group = "TRAINING" /\ LevelOf(x) = l
         /\ \A l \in 1..5 : CutOf(x) = <<4, 2, l, 9>> <=> x.group = "EDGE_COMPUTING" /\ LevelOf(x) = l
         /\ CutOf(x)[2] = 2 <=> x.group \in ToSet(XaasServiceGroups)
<1> DEFINE level == LevelOf(x)
           support == Position(x.group, CloudSupportGroups)
           service == Position(x.group, XaasServiceGroups)
<1>0. level \in 1..5
  BY PositionIs, LevelsAre DEF LevelOf
<1>1. CASE x.group = "PORTABILITY_PLAN"
  <2>1. x.group \notin ToSet(CloudSupportGroups) /\ x.group \notin ToSet(XaasServiceGroups)
    BY <1>1, SupportGroupsAre, XaasGroupsAre
  <2>2. CutOf(x) = <<4, 3, level>>
    BY <1>1, <2>1, Zenon DEF CutOf
  <2> HIDE DEF level
  <2>3. \A l \in 1..5 : /\ <<4, 3, level>> = <<4, 3, l>> <=> level = l
                        /\ <<4, 3, level>> # <<4, 3, l, 3>> /\ <<4, 3, level>> # <<4, 2, l, 9>>
    OBVIOUS
  <2>4. CutOf(x)[2] = 3 /\ CutOf(x)[3] = level
    BY <2>2
  <2> QED
    BY <1>0, <1>1, <2>1, <2>2, <2>3, <2>4 DEF level
<1>2. CASE x.group \in ToSet(CloudSupportGroups)
  <2>1. x.group # "PORTABILITY_PLAN" /\ x.group \notin ToSet(XaasServiceGroups)
    BY <1>2, SupportGroupsAre, XaasGroupsAre
  <2>2. CutOf(x) = <<4, 3, level, support>>
    BY <1>2, <2>1, Zenon DEF CutOf
  <2>3. support = 3 <=> x.group = "TRAINING"
    <3>1. CloudSupportGroups[support] = x.group /\ "TRAINING" \in ToSet(CloudSupportGroups)
      BY <1>2, SupportGroupsAre
    <3>2. CloudSupportGroups[3] = "TRAINING"
      BY DEF CloudSupportGroups
    <3> QED
      BY <3>1, <3>2, SupportGroupsAre
  <2> HIDE DEF level, support
  <2>4. \A l \in 1..5 : /\ <<4, 3, level, support>> = <<4, 3, l, 3>> <=> level = l /\ support = 3
                        /\ <<4, 3, level, support>> # <<4, 3, l>>
                        /\ <<4, 3, level, support>> # <<4, 2, l, 9>>
    OBVIOUS
  <2>5. CutOf(x)[2] = 3 /\ CutOf(x)[3] = level
    BY <2>2
  <2>6. x.group # "EDGE_COMPUTING"
    BY <1>2, SupportGroupsAre
  <2> QED
    BY <1>0, <2>1, <2>2, <2>3, <2>4, <2>5, <2>6 DEF level
<1>3. CASE x.group \in ToSet(XaasServiceGroups)
  <2>1. /\ x.group # "PORTABILITY_PLAN" /\ x.group \notin ToSet(CloudSupportGroups)
        /\ service \in 1..11 /\ x.group # "TRAINING"
    BY <1>3, SupportGroupsAre, XaasGroupsAre
  <2> DEFINE digit == IF service >= 10 THEN service \div 10 ELSE service
  <2>2. CutOf(x) = <<4, 2, level, digit>>
    BY <2>1, Zenon DEF CutOf
  <2>3. service = 9 <=> x.group = "EDGE_COMPUTING"
    <3>1. XaasServiceGroups[service] = x.group
      BY <1>3, XaasGroupsAre
    <3>2. XaasServiceGroups[9] = "EDGE_COMPUTING"
      BY DEF XaasServiceGroups
    <3> QED
      BY <3>1, <3>2, XaasGroupsAre
  <2> HIDE DEF level, service
  <2>4. digit = 9 <=> service = 9
    BY <2>1
  <2> HIDE DEF digit
  <2>5. \A l \in 1..5 : /\ <<4, 2, level, digit>> = <<4, 2, l, 9>> <=> level = l /\ digit = 9
                        /\ <<4, 2, level, digit>> # <<4, 3, l>>
                        /\ <<4, 2, level, digit>> # <<4, 3, l, 3>>
    OBVIOUS
  <2>6. CutOf(x)[2] = 2 /\ CutOf(x)[3] = level
    BY <2>2
  <2> QED
    BY <1>0, <1>3, <2>1, <2>2, <2>3, <2>4, <2>5, <2>6 DEF level
<1> QED
  BY <1>1, <1>2, <1>3 DEF IsInstance, SupportTypes

-----------------------------------------------------------------------------
\* The levels of the instances of some groups.
LevelsIn(levelled, groups) == {LevelOf(x) : x \in {y \in levelled : y.group \in groups}}

\* The CLINs of some levels, as a contract has them.
ClinsOver(levels, contract, more) ==
  (IF contract.firmFixedPrice THEN {FfpClins[l] + more : l \in levels} ELSE {})
  \cup (IF contract.timeAndMaterials THEN {TmClins[l] + more : l \in levels} ELSE {})

\* The CLINs of a level, as getCDRLs computes them and as a contract lists them.
LEMMA ClinsOfLevel ==
  ASSUME NEW l \in 1..5
  PROVE  /\ LevelClin(l) = FfpClins[l] + 0 /\ LevelClin(l) + 16 = TmClins[l] + 0
         /\ LevelClin(l) + 1 = FfpClins[l] + 1 /\ LevelClin(l) + 16 + 1 = TmClins[l] + 1
<1>1. l \in {1, 2, 3, 4, 5}
  OBVIOUS
<1>2. /\ FfpClins[1] = 1 /\ FfpClins[2] = 1 /\ FfpClins[3] = 1 /\ FfpClins[4] = 3 /\ FfpClins[5] = 5
      /\ TmClins[1] = 17 /\ TmClins[2] = 17 /\ TmClins[3] = 17 /\ TmClins[4] = 19 /\ TmClins[5] = 21
  BY DEF FfpClins, TmClins
<1>3. /\ LevelClin(1) = 1 /\ LevelClin(2) = 1 /\ LevelClin(3) = 1 /\ LevelClin(4) = 3
      /\ LevelClin(5) = 5
  BY DEF LevelClin
<1>4. LevelClin(l) = FfpClins[l] /\ LevelClin(l) + 16 = TmClins[l] /\ LevelClin(l) \in Nat
  BY <1>1, <1>2, <1>3
<1>5. FfpClins[l] \in Nat /\ TmClins[l] \in Nat
  BY <1>4
<1> QED
  BY <1>4, <1>5

\* The CLINs that getCDRLs collects over levels.
LEMMA ClinsOverLevels ==
  ASSUME NEW levels, levels \subseteq 1..5, NEW contract
  PROVE  /\ (UNION {Clins(l, contract) : l \in levels}) = ClinsOver(levels, contract, 0)
         /\ (UNION {TrainingClins(l, contract) : l \in levels}) = ClinsOver(levels, contract, 1)
<1>1. \A l \in levels :
        Clins(l, contract) = (IF contract.firmFixedPrice THEN {FfpClins[l] + 0} ELSE {})
                             \cup (IF contract.timeAndMaterials THEN {TmClins[l] + 0} ELSE {})
  BY ClinsOfLevel DEF Clins
<1>2. \A l \in levels :
        TrainingClins(l, contract) = (IF contract.firmFixedPrice THEN {FfpClins[l] + 1} ELSE {})
                             \cup (IF contract.timeAndMaterials THEN {TmClins[l] + 1} ELSE {})
  <2> TAKE l \in levels
  <2>1. /\ LevelClin(l) + 1 = FfpClins[l] + 1 /\ (LevelClin(l) + 16) + 1 = TmClins[l] + 1
    BY ClinsOfLevel
  <2> QED
    BY <2>1 DEF TrainingClins, Clins
<1>3. (UNION {Clins(l, contract) : l \in levels}) = ClinsOver(levels, contract, 0)
  BY <1>1 DEF ClinsOver
<1>4. (UNION {TrainingClins(l, contract) : l \in levels}) = ClinsOver(levels, contract, 1)
  BY <1>2 DEF ClinsOver
<1> QED
  BY <1>3, <1>4

\* The CLINs that getCDRLs collects over tasks are those of their levels.
LEMMA ClinsOfTasks ==
  ASSUME NEW tasks, NEW levels, levels \subseteq 1..5, NEW contract,
         {t[3] : t \in tasks} = levels
  PROVE  /\ (UNION {Clins(t[3], contract) : t \in tasks}) = ClinsOver(levels, contract, 0)
         /\ (UNION {TrainingClins(t[3], contract) : t \in tasks}) = ClinsOver(levels, contract, 1)
<1>1. (UNION {Clins(t[3], contract) : t \in tasks}) = UNION {Clins(l, contract) : l \in levels}
  OBVIOUS
<1>2. (UNION {TrainingClins(t[3], contract) : t \in tasks}) = UNION {TrainingClins(l, contract) : l \in levels}
  OBVIOUS
<1> QED
  BY <1>1, <1>2, ClinsOverLevels

\* A set of instances that have a level.
AreLevelled(X) == \A x \in X : IsInstance(x) /\ x.level \in ToSet(ClassificationLevels)

\* What getCDRLs filters out of the cut numbers are the tasks of portability plans, of
\* training, of the technical edge, and the levels of services.
LEMMA PartsOfCuts ==
  ASSUME NEW X, AreLevelled(X), NEW E, E \subseteq {<<4, 2, 6>>}, NEW cuts,
         cuts = {CutOf(x) : x \in X} \cup E
  PROVE  /\ {t \in cuts : \E l \in 1..5 : t = <<4, 3, l>>}
              = {<<4, 3, l>> : l \in LevelsIn(X, {"PORTABILITY_PLAN"})}
         /\ {t \in cuts : \E l \in 1..5 : t = <<4, 3, l, 3>>}
              = {<<4, 3, l, 3>> : l \in LevelsIn(X, {"TRAINING"})}
         /\ {t \in cuts : \E l \in 1..5 : t = <<4, 2, l, 9>>}
              = {<<4, 2, l, 9>> : l \in LevelsIn(X, {"EDGE_COMPUTING"})}
         /\ {t[3] : t \in {u \in cuts : u[2] = 2 /\ u[3] \in 1..5}}
              = LevelsIn(X, ToSet(XaasServiceGroups))
<1>1. \A x \in X :
         /\ LevelOf(x) \in 1..5 /\ CutOf(x)[3] = LevelOf(x)
         /\ \A l \in 1..5 : CutOf(x) = <<4, 3, l>> <=> x.group = "PORTABILITY_PLAN" /\ LevelOf(x) = l
         /\ \A l \in 1..5 : CutOf(x) = <<4, 3, l, 3>> <=> x.group = "TRAINING" /\ LevelOf(x) = l
         /\ \A l \in 1..5 : CutOf(x) = <<4, 2, l, 9>> <=> x.group = "EDGE_COMPUTING" /\ LevelOf(x) = l
         /\ CutOf(x)[2] = 2 <=> x.group \in ToSet(XaasServiceGroups)
  BY CutsTell DEF AreLevelled
<1>2. \A l \in 1..5 : <<4, 2, 6>> # <<4, 3, l>> /\ <<4, 2, 6>> # <<4, 3, l, 3>> /\ <<4, 2, 6>> # <<4, 2, l, 9>>
  OBVIOUS
<1>3. <<4, 2, 6>>[3] \notin 1..5
  OBVIOUS
<1>4. \A groups : \A l : l \in LevelsIn(X, groups) <=> \E x \in X : x.group \in groups /\ l = LevelOf(x)
  BY DEF LevelsIn
<1>5. ASSUME NEW t
      PROVE  t \in cuts <=> t \in E \/ \E x \in X : t = CutOf(x)
  OBVIOUS
<1>6. \A t \in E : t = <<4, 2, 6>>
  OBVIOUS
<1>7. {t \in cuts : \E l \in 1..5 : t = <<4, 3, l>>}
        = {<<4, 3, l>> : l \in LevelsIn(X, {"PORTABILITY_PLAN"})}
  <2>1. ASSUME NEW l \in 1..5, <<4, 3, l>> \in cuts PROVE l \in LevelsIn(X, {"PORTABILITY_PLAN"})
    <3>1. PICK x \in X : <<4, 3, l>> = CutOf(x)
      BY <1>2, <1>5, <1>6, <2>1
    <3>2. x.group = "PORTABILITY_PLAN" /\ LevelOf(x) = l
      BY <1>1, <3>1
    <3> QED
      BY <1>4, <3>2
  <2>2. ASSUME NEW l \in LevelsIn(X, {"PORTABILITY_PLAN"}) PROVE l \in 1..5 /\ <<4, 3, l>> \in cuts
    <3>1. PICK x \in X : x.group = "PORTABILITY_PLAN" /\ l = LevelOf(x)
      BY <1>4
    <3>2. l \in 1..5 /\ CutOf(x) = <<4, 3, l>>
      BY <1>1, <3>1
    <3> QED
      BY <1>5, <3>2
  <2> QED
    BY <2>1, <2>2
<1>8. {t \in cuts : \E l \in 1..5 : t = <<4, 3, l, 3>>}
        = {<<4, 3, l, 3>> : l \in LevelsIn(X, {"TRAINING"})}
  <2>1. ASSUME NEW l \in 1..5, <<4, 3, l, 3>> \in cuts PROVE l \in LevelsIn(X, {"TRAINING"})
    <3>1. PICK x \in X : <<4, 3, l, 3>> = CutOf(x)
      BY <1>2, <1>5, <1>6, <2>1
    <3>2. x.group = "TRAINING" /\ LevelOf(x) = l
      BY <1>1, <3>1
    <3> QED
      BY <1>4, <3>2
  <2>2. ASSUME NEW l \in LevelsIn(X, {"TRAINING"}) PROVE l \in 1..5 /\ <<4, 3, l, 3>> \in cuts
    <3>1. PICK x \in X : x.group = "TRAINING" /\ l = LevelOf(x)
      BY <1>4
    <3>2. l \in 1..5 /\ CutOf(x) = <<4, 3, l, 3>>
      BY <1>1, <3>1
    <3> QED
      BY <1>5, <3>2
  <2> QED
    BY <2>1, <2>2
<1>9. {t \in cuts : \E l \in 1..5 : t = <<4, 2, l, 9>>}
        = {<<4, 2, l, 9>> : l \in LevelsIn(X, {"EDGE_COMPUTING"})}
  <2>1. ASSUME NEW l \in 1..5, <<4, 2, l, 9>> \in cuts PROVE l \in LevelsIn(X, {"EDGE_COMPUTING"})
    <3>1. PICK x \in X : <<4, 2, l, 9>> = CutOf(x)
      BY <1>2, <1>5, <1>6, <2>1
    <3>2. x.group = "EDGE_COMPUTING" /\ LevelOf(x) = l
      BY <1>1, <3>1
    <3> QED
      BY <1>4, <3>2
  <2>2. ASSUME NEW l \in LevelsIn(X, {"EDGE_COMPUTING"}) PROVE l \in 1..5 /\ <<4, 2, l, 9>> \in cuts
    <3>1. PICK x \in X : x.group = "EDGE_COMPUTING" /\ l = LevelOf(x)
      BY <1>4
    <3>2. l \in 1..5 /\ CutOf(x) = <<4, 2, l, 9>>
      BY <1>1, <3>1
    <3> QED
      BY <1>5, <3>2
  <2> QED
    BY <2>1, <2>2
<1>10. {t[3] : t \in {u \in cuts : u[2] = 2 /\ u[3] \in 1..5}} = LevelsIn(X, ToSet(XaasServiceGroups))
  <2>1. ASSUME NEW t \in cuts, t[2] = 2, t[3] \in 1..5 PROVE t[3] \in LevelsIn(X, ToSet(XaasServiceGroups))
    <3>1. PICK x \in X : t = CutOf(x)
      BY <1>3, <1>5, <1>6, <2>1
    <3> QED
      BY <1>1, <1>4, <2>1, <3>1
  <2>2. ASSUME NEW l \in LevelsIn(X, ToSet(XaasServiceGroups))
        PROVE  \E t \in cuts : t[2] = 2 /\ t[3] \in 1..5 /\ l = t[3]
    <3>1. PICK x \in X : x.group \in ToSet(XaasServiceGroups) /\ l = LevelOf(x)
      BY <1>4
    <3>2. CutOf(x) \in cuts /\ CutOf(x)[2] = 2 /\ CutOf(x)[3] \in 1..5 /\ l = CutOf(x)[3]
      BY <1>1, <1>5, <3>1
    <3> QED
      BY <3>2
  <2> QED
    BY <2>1, <2>2
<1> QED
  BY <1>7, <1>8, <1>9, <1>10

\* The instances with a level, as the properties speak of them.
LEMMA LevelledAre ==
  ASSUME NEW package, IsPackage(package)
  PROVE  LET ins == package.instances
         IN /\ ToSet(Levelled(ins)) = {ins[i] : i \in LevelledAt(ins)}
            /\ AreLevelled(ToSet(Levelled(ins)))
            /\ Levelled(ins) \in Seq(ToSet(ins)) /\ Len(Levelled(ins)) = Cardinality(LevelledAt(ins))
            /\ Levelled(ins) = Picked(ins, InOrder(LevelledAt(ins)))
<1> DEFINE ins == package.instances
           L == LevelledAt(ins)
<1>1. /\ ins \in Seq(ToSet(ins))
      /\ \A i \in L : i \in DOMAIN ins /\ IsInstance(ins[i]) /\ ins[i].level \in ToSet(ClassificationLevels)
  BY PackageIs
<1>2. Levelled(ins) = Picked(ins, InOrder(L))
  BY Zenon DEF Levelled, Filter, LevelledAt
<1>3. L \in SUBSET (DOMAIN ins)
  BY <1>1
<1>4. /\ ToSet(Levelled(ins)) = {ins[i] : i \in L}
      /\ Levelled(ins) \in Seq(ToSet(ins)) /\ Len(Levelled(ins)) = Cardinality(L)
  <2> HIDE DEF ins, L
  <2> QED
    BY <1>1, <1>2, <1>3, PickedIs
<1>5. AreLevelled(ToSet(Levelled(ins)))
  BY <1>1, <1>4 DEF AreLevelled
<1> QED
  BY <1>2, <1>4, <1>5

\* The requirement with some code for the tasks of some levels.
RequiredFor(code, levels, contract, tasks, more) ==
  LET clins == ClinsOver(levels, contract, more)
  IN IF clins = {} THEN {} ELSE {[code |-> code, tasks |-> tasks, clins |-> clins]}

\* A data requirement is made for the tasks of some levels if and only if there are CLINs
\* for it.
LEMMA CdrlIsRequired ==
  ASSUME NEW code, NEW levels, NEW contract, NEW tasks, NEW more, NEW clins,
         clins = ClinsOver(levels, contract, more), tasks = {} => levels = {}
  PROVE  Cdrl(code, tasks, clins) = RequiredFor(code, levels, contract, tasks, more)
<1>1. CASE tasks = {}
  <2>1. clins = {}
    BY <1>1 DEF ClinsOver
  <2> QED
    BY <2>1 DEF Cdrl, RequiredFor
<1>2. CASE tasks # {}
  BY <1>2 DEF Cdrl, RequiredFor
<1> QED
  BY <1>1, <1>2

\* getCDRLs in terms of the parts of its cut numbers.
CdrlsOf(cuts, contract) ==
  LET portability == {t \in cuts : \E l \in 1..5 : t = <<4, 3, l>>}
      training == {t \in cuts : \E l \in 1..5 : t = <<4, 3, l, 3>>}
      edge == {t \in cuts : \E l \in 1..5 : t = <<4, 2, l, 9>>}
      services == {t \in cuts : t[2] = 2 /\ t[3] \in 1..5}
      ClinsOf(tasks) == UNION {Clins(t[3], contract) : t \in tasks}
      trainingClins == UNION {TrainingClins(t[3], contract) : t \in training}
  IN Cdrl("A004", training, trainingClins)
     \cup Cdrl("A005", training, trainingClins)
     \cup Cdrl("A012", {<<"ANY">>}, ClinsOf(services))
     \cup Cdrl("A006", portability, ClinsOf(portability))
     \cup Cdrl("A017", edge, ClinsOf(edge))

\* getCDRLs looks at its numbers only through their cuts.
LEMMA CdrlsAreOf ==
  ASSUME NEW numbers, NEW contract
  PROVE  Cdrls(numbers, contract) = CdrlsOf({Cut(numbers[i]) : i \in DOMAIN numbers}, contract)
<1> DEFINE cuts == {Cut(numbers[i]) : i \in DOMAIN numbers}
           levels == 1..Len(ClassificationLevels)
           At(part) == {t \in cuts : \E l \in levels : t = <<4, part[1], l>> \o Tail(part)}
<1>1. levels = 1..5
  BY DEF ClassificationLevels
<1> HIDE DEF cuts, levels
<1>2. At(<<3>>) = {t \in cuts : \E l \in 1..5 : t = <<4, 3, l>>}
  <2>1. \A l : <<4, <<3>>[1], l>> \o Tail(<<3>>) = <<4, 3, l>>
    <3>1. <<3>>[1] = 3 /\ Tail(<<3>>) = <<>>
      OBVIOUS
    <3> QED
      BY <3>1
  <2> QED
    BY <1>1, <2>1
<1>3. At(<<3, 3>>) = {t \in cuts : \E l \in 1..5 : t = <<4, 3, l, 3>>}
  <2>1. ASSUME NEW l \in 1..5 PROVE <<4, <<3, 3>>[1], l>> \o Tail(<<3, 3>>) = <<4, 3, l, 3>>
    <3> DEFINE T == Nat
    <3>1. <<3, 3>>[1] = 3 /\ Tail(<<3, 3>>) = <<3>>
      OBVIOUS
    <3>2. 3 \in T /\ 4 \in T /\ l \in T
      OBVIOUS
    <3> HIDE DEF T
    <3>3. <<4, 3, l>> \o <<3>> = <<4, 3, l, 3>>
      BY <3>2, ThreeAndOne
    <3> QED
      BY <3>1, <3>3
  <2> QED
    BY <1>1, <2>1
<1>4. At(<<2, 9>>) = {t \in cuts : \E l \in 1..5 : t = <<4, 2, l, 9>>}
  <2>1. ASSUME NEW l \in 1..5 PROVE <<4, <<2, 9>>[1], l>> \o Tail(<<2, 9>>) = <<4, 2, l, 9>>
    <3> DEFINE T == Nat
    <3>1. <<2, 9>>[1] = 2 /\ Tail(<<2, 9>>) = <<9>>
      OBVIOUS
    <3>2. 2 \in T /\ 4 \in T /\ l \in T /\ 9 \in T
      OBVIOUS
    <3> HIDE DEF T
    <3>3. <<4, 2, l>> \o <<9>> = <<4, 2, l, 9>>
      BY <3>2, ThreeAndOne
    <3> QED
      BY <3>1, <3>3
  <2> QED
    BY <1>1, <2>1
<1> DEFINE ClinsOf(tasks) == UNION {Clins(t[3], contract) : t \in tasks}
           portability == At(<<3>>)
           training == At(<<3, 3>>)
           edge == At(<<2, 9>>)
           trainingClins == UNION {TrainingClins(t[3], contract) : t \in training}
<1>5. Cdrls(numbers, contract)
        = Cdrl("A004", training, trainingClins)
          \cup Cdrl("A005", training, trainingClins)
          \cup Cdrl("A012", {<<"ANY">>}, ClinsOf({t \in cuts : t[2] = 2 /\ t[3] \in levels}))
          \cup Cdrl("A006", portability, ClinsOf(portability))
          \cup Cdrl("A017", edge, ClinsOf(edge))
  BY Zenon DEF Cdrls, cuts, levels
<1> QED
  BY <1>1, <1>2, <1>3, <1>4, <1>5, Zenon DEF CdrlsOf, cuts

\* The third parts of task numbers are their levels.
LEMMA ThirdParts ==
  ASSUME NEW levels
  PROVE  /\ {t[3] : t \in {<<4, 3, l>> : l \in levels}} = levels
         /\ {t[3] : t \in {<<4, 3, l, 3>> : l \in levels}} = levels
         /\ {t[3] : t \in {<<4, 2, l, 9>> : l \in levels}} = levels
<1>1. \A l : <<4, 3, l>>[3] = l /\ <<4, 3, l, 3>>[3] = l /\ <<4, 2, l, 9>>[3] = l
  OBVIOUS
<1>2. {t[3] : t \in {<<4, 3, l>> : l \in levels}} = {<<4, 3, l>>[3] : l \in levels}
  OBVIOUS
<1>3. {t[3] : t \in {<<4, 3, l, 3>> : l \in levels}} = {<<4, 3, l, 3>>[3] : l \in levels}
  OBVIOUS
<1>4. {t[3] : t \in {<<4, 2, l, 9>> : l \in levels}} = {<<4, 2, l, 9>>[3] : l \in levels}
  OBVIOUS
<1>5. {<<4, 3, l>>[3] : l \in levels} = levels
  BY <1>1
<1>6. {<<4, 3, l, 3>>[3] : l \in levels} = levels
  BY <1>1
<1>7. {<<4, 2, l, 9>>[3] : l \in levels} = levels
  BY <1>1
<1> QED
  BY <1>2, <1>3, <1>4, <1>5, <1>6, <1>7

\* The data requirements read off the task numbers are those of the instances, for
\* every package.
LEMMA CdrlsMatch ==
  ASSUME NEW package, IsPackage(package), NEW numbers,
         {numbers[i] : i \in DOMAIN numbers} = TaskNumbers(package)
  PROVE  LET levelled == ToSet(Levelled(package.instances))
             LevelsOf(groups) == {Position(x.level, ClassificationLevels) : x \in
                                    {y \in levelled : y.group \in groups}}
             ClinsAt(levels, more) ==
               (IF package.contract.firmFixedPrice THEN {FfpClins[l] + more : l \in levels} ELSE {})
               \cup (IF package.contract.timeAndMaterials THEN {TmClins[l] + more : l \in levels} ELSE {})
             Required(code, groups, tasks, more) ==
               LET clins == ClinsAt(LevelsOf(groups), more)
               IN IF clins = {} THEN {} ELSE {[code |-> code, tasks |-> tasks, clins |-> clins]}
             Trained == {<<4, 3, l, 3>> : l \in LevelsOf({"TRAINING"})}
         IN Cdrls(numbers, package.contract) =
              Required("A004", {"TRAINING"}, Trained, 1)
              \cup Required("A005", {"TRAINING"}, Trained, 1)
              \cup Required("A012", ToSet(XaasServiceGroups), {<<"ANY">>}, 0)
              \cup Required("A006", {"PORTABILITY_PLAN"},
                            {<<4, 3, l>> : l \in LevelsOf({"PORTABILITY_PLAN"})}, 0)
              \cup Required("A017", {"EDGE_COMPUTING"},
                            {<<4, 2, l, 9>> : l \in LevelsOf({"EDGE_COMPUTING"})}, 0)
<1> DEFINE X == ToSet(Levelled(package.instances))
           contract == package.contract
           ins == package.instances
           L == LevelledAt(ins)
           E == IF package.cds.required THEN {<<4, 2, 6>>} ELSE {}
           cuts == {Cut(numbers[i]) : i \in DOMAIN numbers}
           plans == LevelsIn(X, {"PORTABILITY_PLAN"})
           trainings == LevelsIn(X, {"TRAINING"})
           edges == LevelsIn(X, {"EDGE_COMPUTING"})
           services == LevelsIn(X, ToSet(XaasServiceGroups))
<1>1. X = {ins[i] : i \in L} /\ AreLevelled(X)
  BY LevelledAre
<1>2. \A i \in L : Nth(ins, i) \in Nat
  BY PackageIs
<1>3. cuts = {CutOf(x) : x \in X} \cup E
  <2>1. \A i \in L : Cut(TaskNumber(ins[i], Nth(ins, i))) = CutOf(ins[i])
    BY <1>1, <1>2, CutIs DEF AreLevelled
  <2>2. Cut(CdsNumber) = <<4, 2, 6>>
    BY CutOfThree DEF CdsNumber
  <2>3. cuts = {Cut(number) : number \in TaskNumbers(package)}
    <3>1. cuts = {Cut(number) : number \in {numbers[i] : i \in DOMAIN numbers}}
      OBVIOUS
    <3> QED
      BY <3>1
  <2>4. TaskNumbers(package)
          = {TaskNumber(ins[i], Nth(ins, i)) : i \in L} \cup (IF package.cds.required THEN {CdsNumber} ELSE {})
    BY DEF TaskNumbers
  <2> DEFINE C == IF package.cds.required THEN {CdsNumber} ELSE {}
             N == {TaskNumber(ins[i], Nth(ins, i)) : i \in L}
  <2>5. {Cut(number) : number \in N} = {CutOf(x) : x \in X}
    <3> HIDE DEF ins, L, X
    <3> QED
      BY <1>1, <2>1
  <2>6. {Cut(number) : number \in C} = E
    BY <2>2
  <2> HIDE DEF cuts, ins, L, X, E, C, N
  <2>7. TaskNumbers(package) = N \cup C
    BY <2>4 DEF N, C
  <2> QED
    BY <2>3, <2>5, <2>6, <2>7
<1>4. E \subseteq {<<4, 2, 6>>}
  OBVIOUS
<1> HIDE DEF X, E, cuts, ins, L
<1>5. /\ {t \in cuts : \E l \in 1..5 : t = <<4, 3, l>>} = {<<4, 3, l>> : l \in plans}
      /\ {t \in cuts : \E l \in 1..5 : t = <<4, 3, l, 3>>} = {<<4, 3, l, 3>> : l \in trainings}
      /\ {t \in cuts : \E l \in 1..5 : t = <<4, 2, l, 9>>} = {<<4, 2, l, 9>> : l \in edges}
      /\ {t[3] : t \in {u \in cuts : u[2] = 2 /\ u[3] \in 1..5}} = services
  BY <1>1, <1>3, <1>4, PartsOfCuts
<1>6. \A x \in X : LevelOf(x) \in 1..5
  BY <1>1, CutsTell DEF AreLevelled
<1>7. plans \subseteq 1..5 /\ trainings \subseteq 1..5 /\ edges \subseteq 1..5 /\ services \subseteq 1..5
  BY <1>6 DEF LevelsIn
<1> HIDE DEF plans, trainings, edges, services
<1> DEFINE P == {<<4, 3, l>> : l \in plans}
           T == {<<4, 3, l, 3>> : l \in trainings}
           G == {<<4, 2, l, 9>> : l \in edges}
           S == {u \in cuts : u[2] = 2 /\ u[3] \in 1..5}
           ClinsOf(tasks) == UNION {Clins(t[3], contract) : t \in tasks}
           TrainingClinsOf(tasks) == UNION {TrainingClins(t[3], contract) : t \in tasks}
<1>8. {t[3] : t \in P} = plans /\ {t[3] : t \in T} = trainings /\ {t[3] : t \in G} = edges
      /\ {t[3] : t \in S} = services
  BY <1>5, ThirdParts
<1>9. /\ P = {} => plans = {}
      /\ T = {} => trainings = {}
      /\ G = {} => edges = {}
  OBVIOUS
<1>10. CdrlsOf(cuts, contract)
         = Cdrl("A004", T, TrainingClinsOf(T))
           \cup Cdrl("A005", T, TrainingClinsOf(T))
           \cup Cdrl("A012", {<<"ANY">>}, ClinsOf(S))
           \cup Cdrl("A006", P, ClinsOf(P))
           \cup Cdrl("A017", G, ClinsOf(G))
  BY <1>5, Zenon DEF CdrlsOf
<1> HIDE DEF P, T, G, S, contract
<1>11. ClinsOf(P) = ClinsOver(plans, contract, 0)
  BY <1>7, <1>8, ClinsOfTasks
<1>12. TrainingClinsOf(T) = ClinsOver(trainings, contract, 1)
  BY <1>7, <1>8, ClinsOfTasks
<1>13. ClinsOf(G) = ClinsOver(edges, contract, 0)
  BY <1>7, <1>8, ClinsOfTasks
<1>14. ClinsOf(S) = ClinsOver(services, contract, 0)
  BY <1>7, <1>8, ClinsOfTasks
<1> HIDE DEF ClinsOf, TrainingClinsOf
<1>15. Cdrl("A004", T, TrainingClinsOf(T)) = RequiredFor("A004", trainings, contract, T, 1)
  BY <1>9, <1>12, CdrlIsRequired
<1>16. Cdrl("A005", T, TrainingClinsOf(T)) = RequiredFor("A005", trainings, contract, T, 1)
  BY <1>9, <1>12, CdrlIsRequired
<1>17. Cdrl("A012", {<<"ANY">>}, ClinsOf(S)) = RequiredFor("A012", services, contract, {<<"ANY">>}, 0)
  <2> DEFINE any == {<<"ANY">>}
             clins == ClinsOf(S)
             code == "A012"
  <2>1. any = {} => services = {}
    OBVIOUS
  <2>2. clins = ClinsOver(services, contract, 0)
    BY <1>14
  <2> HIDE DEF any, clins, code
  <2>3. Cdrl(code, any, clins) = RequiredFor(code, services, contract, any, 0)
    BY <2>1, <2>2, CdrlIsRequired
  <2> QED
    BY <2>3 DEF any, clins, code
<1>18. Cdrl("A006", P, ClinsOf(P)) = RequiredFor("A006", plans, contract, P, 0)
  BY <1>9, <1>11, CdrlIsRequired
<1>19. Cdrl("A017", G, ClinsOf(G)) = RequiredFor("A017", edges, contract, G, 0)
  BY <1>9, <1>13, CdrlIsRequired
<1>20. Cdrls(numbers, contract) = CdrlsOf(cuts, contract)
  BY CdrlsAreOf DEF cuts
<1>21. Cdrls(numbers, contract)
         = RequiredFor("A004", trainings, contract, T, 1)
           \cup RequiredFor("A005", trainings, contract, T, 1)
           \cup RequiredFor("A012", services, contract, {<<"ANY">>}, 0)
           \cup RequiredFor("A006", plans, contract, P, 0)
           \cup RequiredFor("A017", edges, contract, G, 0)
  BY <1>10, <1>15, <1>16, <1>17, <1>18, <1>19, <1>20
<1> QED
  BY <1>21, Zenon DEF RequiredFor, ClinsOver, LevelsIn, LevelOf, plans, trainings, edges, services,
                      P, T, G, contract, X

-----------------------------------------------------------------------------
\* What a task number tells of its instance.
LEMMA NumbersTell ==
  ASSUME NEW x, IsInstance(x), x.level \in ToSet(ClassificationLevels), NEW k \in Nat
  PROVE  LET n == TaskNumber(x, k)
         IN /\ n # CdsNumber
            /\ TaskClass(n) = Class(x)
            /\ IsOwnArrayTask(n) <=> x.group \in ToSet(OwnArrays)
            /\ n[2] = 2 <=> ~IsSupport(x)
<1> DEFINE n == TaskNumber(x, k)
           level == LevelOf(x)
           support == Position(x.group, CloudSupportGroups)
           service == Position(x.group, XaasServiceGroups)
<1>1. level \in 1..5
  BY PositionIs, LevelsAre DEF LevelOf
<1>2. Class(x) = IF level = 5 THEN "TS" ELSE IF level = 4 THEN "S" ELSE "U"
  <2>1. CASE x.level = "TS"
    BY <2>1, LevelsAre DEF Class, LevelOf
  <2>2. CASE x.level = "IL6"
    BY <2>2, LevelsAre DEF Class, LevelOf
  <2>3. CASE x.level # "TS" /\ x.level # "IL6"
    <3>1. level \in 1..3
      BY <2>3, LevelsAre DEF LevelOf
    <3>2. Class(x) = "U"
      BY <2>3 DEF Class
    <3> HIDE DEF level
    <3> QED
      BY <3>1, <3>2
  <2> QED
    BY <2>1, <2>2, <2>3
<1>3. n[3] = level => TaskClass(n) = Class(x)
  BY <1>2 DEF TaskClass
<1>4. IsSupport(x) <=> x.group \notin ToSet(XaasServiceGroups)
  BY KindsOfInstances
<1>5. x.group \in ToSet(OwnArrays) => x.group \in ToSet(XaasServiceGroups)
  BY KindsOfInstances
<1>6. CASE x.group = "PORTABILITY_PLAN"
  <2>1. x.group \notin ToSet(CloudSupportGroups) /\ x.group \notin ToSet(XaasServiceGroups)
    BY <1>6, SupportGroupsAre, XaasGroupsAre
  <2>2. n = <<4, 3, level>>
    BY <1>6, <2>1, Zenon DEF TaskNumber, LevelOf
  <2> HIDE DEF n, level
  <2>3. n[2] = 3 /\ n[3] = level /\ Len(n) = 3
    BY <2>2
  <2>4. n # CdsNumber /\ ~IsOwnArrayTask(n)
    BY <2>3 DEF CdsNumber, IsOwnArrayTask
  <2> QED
    BY <1>3, <1>4, <1>5, <2>1, <2>3, <2>4 DEF n
<1>7. CASE x.group \in ToSet(CloudSupportGroups)
  <2>1. x.group # "PORTABILITY_PLAN" /\ x.group \notin ToSet(XaasServiceGroups)
    BY <1>7, SupportGroupsAre, XaasGroupsAre
  <2>2. n = <<4, 3, level, support, k>>
    BY <1>7, <2>1, Zenon DEF TaskNumber, LevelOf
  <2> HIDE DEF n, level, support
  <2>3. n[2] = 3 /\ n[3] = level /\ Len(n) = 5
    BY <2>2
  <2>4. n # CdsNumber /\ ~IsOwnArrayTask(n)
    BY <2>3 DEF CdsNumber, IsOwnArrayTask
  <2> QED
    BY <1>3, <1>4, <1>5, <2>1, <2>3, <2>4 DEF n
<1>8. CASE x.group \in ToSet(XaasServiceGroups)
  <2>1. x.group # "PORTABILITY_PLAN" /\ x.group \notin ToSet(CloudSupportGroups)
    BY <1>8, SupportGroupsAre, XaasGroupsAre
  <2>2. n = <<4, 2, level, service, k>>
    BY <2>1, Zenon DEF TaskNumber, LevelOf
  <2>3. XaasServiceGroups[service] = x.group
    BY <1>8, XaasGroupsAre
  <2> HIDE DEF n, level, service
  <2>4. n[2] = 2 /\ n[3] = level /\ Len(n) = 5 /\ n[4] = service
    BY <2>2
  <2>5. n # CdsNumber /\ (IsOwnArrayTask(n) <=> x.group \in ToSet(OwnArrays))
    BY <2>3, <2>4 DEF CdsNumber, IsOwnArrayTask
  <2> QED
    BY <1>3, <1>4, <1>8, <2>4, <2>5 DEF n
<1> QED
  BY <1>6, <1>7, <1>8 DEF IsInstance, SupportTypes

\* getSecurityRequirements looks for classified services in an array that has no instances:
\* it finds none there.
LEMMA FoundInNoArray ==
  ASSUME NEW instances, NEW class \in Classified
  PROVE  ~FoundInXaas(instances, class)
<1> DEFINE matches == [i \in DOMAIN instances |-> IF Class(instances[i]) = class THEN "true" ELSE "false"]
<1>1. \A m \in ToSet(matches) : m = "true" \/ m = "false"
  BY DEF ToSet
<1>2. class \notin ToSet(matches)
  <2> HIDE DEF matches
  <2> QED
    BY <1>1 DEF Classified
<1> QED
  BY <1>2 DEF FoundInXaas

\* The parts of the security section are those of the tasks, for every package.
LEMMA SecurityCovers ==
  ASSUME NEW package, IsPackage(package), NEW numbers, numbers = TaskNumbers(package)
  PROVE  LET sr == SecurityRequirements(package)
             classes == {TaskClass(n) : n \in {t \in numbers : t # CdsNumber /\ ~IsOwnArrayTask(t)}} \ {"U"}
             Listed(group, class) ==
               IF class = "TS" THEN sr.types[group].ts ELSE sr.types[group].secret
         IN /\ classes # {} => sr.needed
            /\ sr.offering \cup sr.support = classes
            /\ \A x \in ToSet(package.instances) :
                 x.group \in NamedGroups /\ Class(x) \in Classified => x.info \subseteq Listed(x.group, Class(x))
<1> DEFINE ins == package.instances
           n == Len(ins)
           L == LevelledAt(ins)
           sr == SecurityRequirements(package)
           others == {t \in numbers : t # CdsNumber /\ ~IsOwnArrayTask(t)}
           classes == {TaskClass(t) : t \in others} \ {"U"}
           Number(i) == TaskNumber(ins[i], Nth(ins, i))
           Offered(c) == \E i \in 1..n : IsSelected(ins[i]) /\ Class(ins[i]) = c
           Supported(c) == \E i \in 1..n : IsSupport(ins[i]) /\ Class(ins[i]) = c
<1>1. /\ ins \in Seq(ToSet(ins)) /\ n \in Nat /\ DOMAIN ins = 1..n
      /\ \A i \in 1..n : IsInstance(ins[i])
      /\ \A i \in L : /\ i \in 1..n /\ Nth(ins, i) \in Nat
                      /\ ins[i].level \in ToSet(ClassificationLevels)
  BY PackageIs
<1>2. \A i \in 1..n : Class(ins[i]) \in Classified => i \in L
  BY <1>1, LevelsAre DEF Class, Classified, LevelledAt
<1>3. \A c \in Classified : ContainsClassifiedOffering(package, c) <=> Offered(c)
  <2> DEFINE S == {i \in DOMAIN ins : IsSelected(ins[i])}
             found == Filter(ins, IsSelected)
  <2>1. found = Picked(ins, InOrder(S))
    BY Zenon DEF Filter
  <2>2. S \in SUBSET (DOMAIN ins)
    OBVIOUS
  <2>3. ToSet(found) = {ins[i] : i \in S}
    <3> HIDE DEF ins, S, found
    <3> QED
      BY <1>1, <2>1, <2>2, PickedIs
  <2>4. \A c : OfferedAtAll(found, c) <=> \E x \in ToSet(found) : Class(x) = c
    BY DEF OfferedAtAll, ToSet
  <2>5. \A c : (\E x \in ToSet(found) : Class(x) = c) <=> Offered(c)
    <3>1. \A i : i \in S <=> i \in 1..n /\ IsSelected(ins[i])
      BY <1>1
    <3> HIDE DEF ins, S, found, n
    <3> QED
      BY <2>3, <3>1
  <2>6. \A c \in Classified : ContainsClassifiedOffering(package, c) <=> OfferedAtAll(found, c)
    BY FoundInNoArray DEF ContainsClassifiedOffering
  <2> HIDE DEF Offered, found
  <2> QED
    BY <2>4, <2>5, <2>6
<1>4. \A c : HasClassifiedSupport(package, c) <=> Supported(c)
  BY <1>1 DEF HasClassifiedSupport
<1>5. /\ sr.needed = IsSecurityNeeded(package)
      /\ sr.offering = {c \in Classified : ContainsClassifiedOffering(package, c)}
      /\ sr.support = {c \in Classified : HasClassifiedSupport(package, c)}
      /\ sr.types = ClassificationTypes(package)
  BY DEF SecurityRequirements
<1>6. \A i \in L : /\ Number(i) \in numbers
                   /\ Number(i) # CdsNumber
                   /\ TaskClass(Number(i)) = Class(ins[i])
                   /\ IsOwnArrayTask(Number(i)) <=> ins[i].group \in ToSet(OwnArrays)
  <2> TAKE i \in L
  <2>1. Number(i) \in numbers
    BY DEF TaskNumbers
  <2>2. IsInstance(ins[i]) /\ ins[i].level \in ToSet(ClassificationLevels) /\ Nth(ins, i) \in Nat
    BY <1>1
  <2> HIDE DEF ins
  <2> QED
    BY <2>1, <2>2, NumbersTell
<1>7. \A t \in numbers : t # CdsNumber => \E i \in L : t = Number(i)
  BY DEF TaskNumbers
<1>8. \A i \in 1..n : /\ ins[i].group \in ToSet(OwnArrays) \/ IsSelected(ins[i]) \/ IsSupport(ins[i])
                      /\ ~(ins[i].group \in ToSet(OwnArrays) /\ (IsSelected(ins[i]) \/ IsSupport(ins[i])))
  BY <1>1, KindsOfInstances
<1>9. \A i \in 1..n : Class(ins[i]) \in Classified \/ Class(ins[i]) = "U"
  BY DEF Class, Classified
<1>10. "U" \notin Classified
  BY DEF Classified
<1>11. ASSUME NEW c \in classes PROVE c \in Classified /\ (Offered(c) \/ Supported(c))
  <2>1. PICK t \in numbers : t # CdsNumber /\ ~IsOwnArrayTask(t) /\ c = TaskClass(t)
    OBVIOUS
  <2>2. c # "U"
    OBVIOUS
  <2> HIDE DEF ins, n, L, classes, others, Number
  <2>3. PICK i \in L : t = Number(i)
    BY <1>7, <2>1
  <2>4. i \in 1..n /\ c = Class(ins[i]) /\ ins[i].group \notin ToSet(OwnArrays)
    BY <1>1, <1>6, <2>1, <2>3
  <2> QED
    BY <1>8, <1>9, <2>2, <2>4
<1>12. ASSUME NEW c \in Classified, Offered(c) \/ Supported(c) PROVE c \in classes
  <2>1. PICK i \in 1..n : (IsSelected(ins[i]) \/ IsSupport(ins[i])) /\ Class(ins[i]) = c
    BY <1>12
  <2>2. i \in L /\ ins[i].group \notin ToSet(OwnArrays)
    BY <1>2, <1>8, <2>1
  <2>3. Number(i) \in others /\ TaskClass(Number(i)) = c
    BY <1>6, <2>1, <2>2
  <2> HIDE DEF ins, n, L, others, Number
  <2> QED
    BY <1>10, <2>3
<1> HIDE DEF ins, n, L, classes, others, Number, Offered, Supported, sr
<1>13. sr.offering \cup sr.support = classes
  BY <1>3, <1>4, <1>5, <1>11, <1>12
<1>14. classes # {} => sr.needed
  <2>1. classes # {} => \E c \in Classified : Offered(c) \/ Supported(c)
    BY <1>11
  <2> QED
    BY <1>3, <1>4, <1>5, <2>1 DEF IsSecurityNeeded
<1>15. ASSUME NEW x \in ToSet(ins), x.group \in NamedGroups, Class(x) \in Classified
       PROVE  /\ Class(x) = "TS" => x.info \subseteq sr.types[x.group].ts
              /\ Class(x) # "TS" => x.info \subseteq sr.types[x.group].secret
  <2>1. ASSUME NEW class, class = Class(x) PROVE x.info \subseteq InfoTypes(package, x.group, class)
    <3> DEFINE S == {i \in DOMAIN ins : ins[i].group = x.group /\ Class(ins[i]) = class}
               found == ClassifiedInstances(package, x.group, class)
    <3>1. found = Picked(ins, InOrder(S))
      BY Zenon DEF ClassifiedInstances, Filter, ins
    <3>2. S \in SUBSET (DOMAIN ins)
      OBVIOUS
    <3>3. PICK i \in 1..n : x = ins[i]
      BY <1>1 DEF ToSet
    <3>4. i \in S
      BY <1>1, <2>1, <3>3
    <3>5. InfoTypes(package, x.group, class) = UNION {y.info : y \in ToSet(found)}
      BY DEF InfoTypes
    <3> HIDE DEF S, found
    <3>6. ToSet(found) = {ins[j] : j \in S}
      BY <1>1, <3>1, <3>2, PickedIs
    <3>7. x \in ToSet(found)
      BY <3>3, <3>4, <3>6
    <3> QED
      BY <3>5, <3>7
  <2>2. /\ ClassificationTypes(package)[x.group].ts = InfoTypes(package, x.group, "TS")
        /\ ClassificationTypes(package)[x.group].secret = InfoTypes(package, x.group, "S")
    BY <1>15 DEF ClassificationTypes
  <2>3. Class(x) = "TS" \/ Class(x) = "S"
    BY <1>15 DEF Classified
  <2>4. CASE Class(x) = "TS"
    BY <1>5, <2>1, <2>2, <2>4
  <2>5. CASE Class(x) # "TS"
    BY <1>5, <2>1, <2>2, <2>3, <2>5
  <2> QED
    BY <2>4, <2>5
<1> QED
  BY <1>13, <1>14, <1>15 DEF sr, classes, others, ins

-----------------------------------------------------------------------------
(***************************************************************************)
(* The size of the PoP table: its rows add up to its places.               *)
(***************************************************************************)
\* A set with as many elements as another, by a numbering of them.
LEMMA SameSize ==
  ASSUME NEW D, IsFiniteSet(D), NEW E, NEW f,
         \A d \in D : f[d] \in E,
         \A c, d \in D : f[c] = f[d] => c = d,
         \A e \in E : \E d \in D : f[d] = e
  PROVE  IsFiniteSet(E) /\ Cardinality(E) = Cardinality(D)
<1> DEFINE q == [d \in D |-> f[d]]
<1>1. q \in [D -> E] /\ \A d \in D : q[d] = f[d]
  OBVIOUS
<1> HIDE DEF q
<1>2. q \in Surjection(D, E) /\ q \in Injection(D, E)
  BY <1>1 DEF Surjection, Injection, IsInjective
<1>3. IsFiniteSet(E)
  BY <1>2, FS_Surjection
<1>4. Cardinality(E) = Cardinality(D) <=> q \in Injection(D, E)
  BY <1>2, FS_Surjection
<1> QED
  BY <1>2, <1>3, <1>4

-----------------------------------------------------------------------------
Summing == INSTANCE FoldLaws WITH Op <- Plus

\* The sum is what the loop leaves.
LEMMA SumOfFold == \A s : SumOf(s) = Summing!Fold(0, s)
BY Zenon DEF SumOf, Summing!Fold, FoldLeft, Summing!FoldLeft, MapThenFoldSet,
             Summing!MapThenFoldSet, Max, Summing!Max

\* The loop of a sum, turn by turn.
LEMMA SummingTurns ==
  ASSUME NEW base, NEW s, NEW n \in Nat, DOMAIN s = 1..n
  PROVE  \E h : /\ h[0] = base
                /\ \A k \in 1..n : h[k] = Plus(h[k - 1], s[k])
                /\ Summing!Fold(base, s) = h[n]
BY Summing!FoldSteps

\* The sums of the first elements of a sequence.
LEMMA SummingSteps ==
  ASSUME NEW s, NEW n \in Nat, DOMAIN s = 1..n
  PROVE  \E h : /\ h[0] = 0
                /\ \A k \in 1..n : h[k] = h[k - 1] + s[k]
                /\ SumOf(s) = h[n]
<1> DEFINE zero == 0
<1> HIDE DEF zero
<1>2. PICK h : /\ h[0] = zero
               /\ \A k \in 1..n : h[k] = Plus(h[k - 1], s[k])
               /\ Summing!Fold(zero, s) = h[n]
  BY SummingTurns
<1>3. \A k \in 1..n : h[k] = h[k - 1] + s[k]
  BY <1>2 DEF Plus
<1>4. SumOf(s) = Summing!Fold(zero, s)
  BY SumOfFold DEF zero
<1> QED
  BY <1>2, <1>3, <1>4 DEF zero

\* The union of sets that have numbers up to n.
AllOf(C, n) == UNION {C[k] : k \in 1..n}

\* The sets are finite, no two of them meet, and these are their sizes.
AreSizes(C, s, n) ==
  /\ \A k \in 1..n : IsFiniteSet(C[k]) /\ Cardinality(C[k]) = s[k]
  /\ \A j, k \in 1..n : j # k => C[j] \cap C[k] = {}

\* A sum of sizes is the size of the union, if no two of the sets meet.
LEMMA SumIsSize ==
  ASSUME NEW n \in Nat, NEW s, DOMAIN s = 1..n, NEW C, AreSizes(C, s, n)
  PROVE  IsFiniteSet(AllOf(C, n)) /\ SumOf(s) = Cardinality(AllOf(C, n))
<1> DEFINE U(k) == AllOf(C, k)
<1>0. /\ \A k \in 1..n : IsFiniteSet(C[k]) /\ Cardinality(C[k]) = s[k]
      /\ \A j, k \in 1..n : j # k => C[j] \cap C[k] = {}
  BY DEF AreSizes
<1>1. PICK h : /\ h[0] = 0
               /\ \A k \in 1..n : h[k] = h[k - 1] + s[k]
               /\ SumOf(s) = h[n]
  BY SummingSteps
<1> DEFINE E(k) == IsFiniteSet(U(k)) /\ Cardinality(U(k)) = h[k]
           K == {k \in Nat : k <= n => E(k)}
<1>2. E(0)
  <2>1. U(0) = {}
    BY DEF AllOf
  <2> QED
    BY <1>1, <2>1, FS_EmptySet
<1>3. ASSUME NEW k \in Nat, k + 1 <= n, E(k) PROVE E(k + 1)
  <2>1. k + 1 \in 1..n /\ (k + 1) - 1 = k
    BY <1>3
  <2>2. U(k + 1) = U(k) \cup C[k + 1]
    <3>1. 1..k + 1 = (1..k) \cup {k + 1}
      OBVIOUS
    <3> QED
      BY <3>1 DEF AllOf
  <2>3. U(k) \cap C[k + 1] = {}
    <3>1. ASSUME NEW x \in U(k), x \in C[k + 1] PROVE FALSE
      <4>1. PICK j \in 1..k : x \in C[j]
        BY DEF AllOf
      <4>2. j \in 1..n /\ j # k + 1
        BY <2>1
      <4> QED
        BY <1>0, <2>1, <3>1, <4>1, <4>2
    <3> QED
      BY <3>1
  <2> DEFINE A == U(k)
             B == C[k + 1]
  <2>4. /\ IsFiniteSet(A) /\ Cardinality(A) = h[k]
        /\ IsFiniteSet(B) /\ Cardinality(B) = s[k + 1]
        /\ h[k + 1] = h[k] + s[k + 1] /\ A \cap B = {}
    BY <1>0, <1>1, <1>3, <2>1, <2>3
  <2> HIDE DEF A, B, U
  <2>5. /\ IsFiniteSet(A \cup B)
        /\ Cardinality(A \cup B) = Cardinality(A) + Cardinality(B) - Cardinality(A \cap B)
    BY <2>4, FS_Union
  <2>6. Cardinality(A \cap B) = 0 /\ Cardinality(A) \in Nat /\ Cardinality(B) \in Nat
    BY <2>4, FS_EmptySet, FS_CardinalityType
  <2>7. Cardinality(A \cup B) = h[k + 1]
    BY <2>4, <2>5, <2>6
  <2> QED
    BY <2>2, <2>5, <2>7 DEF A, B
<1> HIDE DEF E
<1>4. 0 \in K /\ \A k \in Nat : k \in K => k + 1 \in K
  BY <1>2, <1>3
<1> HIDE DEF K
<1>5. Nat \subseteq K
  BY <1>4, Induction
<1>6. n <= n
  OBVIOUS
<1>7. E(n)
  BY <1>5, <1>6 DEF K
<1> QED
  BY <1>1, <1>7 DEF E

\* The places of a row.
Row(r, m) == {<<r, c>> : c \in 1..m}

\* A row has as many places as it is long.
LEMMA RowSize ==
  ASSUME NEW r, NEW m \in Nat
  PROVE  IsFiniteSet(Row(r, m)) /\ Cardinality(Row(r, m)) = m
<1> DEFINE R == Row(r, m)
           f == [c \in 1..m |-> <<r, c>>]
           I == 1..m
<1>1. \A c \in I : f[c] \in R
  BY DEF Row
<1>2. \A c, d \in I : f[c] = f[d] => c = d
  OBVIOUS
<1>3. \A e \in R : \E c \in I : f[c] = e
  BY DEF Row
<1>4. IsFiniteSet(I) /\ Cardinality(I) = m
  BY IntervalSize
<1> HIDE DEF f, R, I
<1>5. IsFiniteSet(R) /\ Cardinality(R) = m
  BY <1>1, <1>2, <1>3, <1>4, SameSize
<1> QED
  BY <1>5 DEF R

\* Rows are as long as they are, and have different places.
LEMMA RowSizes ==
  ASSUME NEW n \in Nat, NEW s, \A r \in 1..n : s[r] \in Nat
  PROVE  AreSizes([r \in 1..n |-> Row(r, s[r])], s, n)
<1> DEFINE C == [r \in 1..n |-> Row(r, s[r])]
<1>1. \A r \in 1..n : C[r] = Row(r, s[r])
  OBVIOUS
<1> HIDE DEF C
<1>2. ASSUME NEW r \in 1..n PROVE IsFiniteSet(C[r]) /\ Cardinality(C[r]) = s[r]
  BY <1>1, RowSize
<1>3. ASSUME NEW q \in 1..n, NEW r \in 1..n, q # r PROVE C[q] \cap C[r] = {}
  <2>1. \A x \in C[q] : x[1] = q
    BY <1>1 DEF Row
  <2>2. \A x \in C[r] : x[1] = r
    BY <1>1 DEF Row
  <2> QED
    BY <1>3, <2>1, <2>2
<1>4. AreSizes(C, s, n)
  BY <1>2, <1>3 DEF AreSizes
<1> QED
  BY <1>4 DEF C

\* The lengths of the rows of a table add up to the number of its places.
LEMMA LengthsAddUp ==
  ASSUME NEW rows, NEW n \in Nat, DOMAIN rows = 1..n, Len(rows) = n,
         \A r \in 1..n : Len(rows[r].numbers) \in Nat
  PROVE  /\ IsFiniteSet(Places(rows))
         /\ SumOf([r \in DOMAIN rows |-> Len(rows[r].numbers)]) = Cardinality(Places(rows))
<1> DEFINE s == [r \in DOMAIN rows |-> Len(rows[r].numbers)]
           C == [r \in 1..n |-> Row(r, s[r])]
<1>1. DOMAIN s = 1..n /\ \A r \in 1..n : s[r] = Len(rows[r].numbers) /\ s[r] \in Nat
  OBVIOUS
<1>2. \A r \in 1..n : C[r] = Row(r, s[r])
  OBVIOUS
<1>3. AreSizes(C, s, n)
  BY <1>1, RowSizes
<1> HIDE DEF s, C
<1>4. Places(rows) = AllOf(C, n)
  <2>1. ASSUME NEW place \in Places(rows) PROVE place \in AllOf(C, n)
    <3>1. /\ place[1] \in 1..n /\ place[2] \in 1..s[place[1]]
          /\ place = <<place[1], place[2]>>
      BY <1>1 DEF Places
    <3>2. place \in C[place[1]]
      BY <1>2, <3>1 DEF Row
    <3> QED
      BY <3>1, <3>2 DEF AllOf
  <2>2. ASSUME NEW place \in AllOf(C, n) PROVE place \in Places(rows)
    <3>1. PICK r \in 1..n : place \in C[r]
      BY DEF AllOf
    <3>2. PICK c \in 1..s[r] : place = <<r, c>>
      BY <1>2, <3>1 DEF Row
    <3>3. <<r, c>> \in (1..n) \X Nat /\ <<r, c>>[1] = r /\ <<r, c>>[2] = c
      BY <1>1
    <3> QED
      BY <1>1, <3>2, <3>3 DEF Places
  <2> QED
    BY <2>1, <2>2
<1>5. IsFiniteSet(AllOf(C, n)) /\ SumOf(s) = Cardinality(AllOf(C, n))
  BY <1>1, <1>3, SumIsSize
<1> QED
  BY <1>4, <1>5 DEF s

\* The same numbers in another order.
ArePermuted(s, t, p, n) ==
  /\ DOMAIN s = 1..n /\ \A k \in 1..n : s[k] \in Nat
  /\ DOMAIN t = 1..n /\ \A k \in 1..n : t[k] = s[p[k]]

\* The order of what is added makes no difference.
LEMMA PermutedSum ==
  ASSUME NEW n \in Nat, NEW p \in Bijection(1..n, 1..n), NEW s, NEW t, ArePermuted(s, t, p, n)
  PROVE  SumOf(t) = SumOf(s)
<1>0. /\ DOMAIN s = 1..n /\ \A k \in 1..n : s[k] \in Nat
      /\ DOMAIN t = 1..n /\ \A k \in 1..n : t[k] = s[p[k]]
  BY DEF ArePermuted
<1> DEFINE C == [k \in 1..n |-> Row(k, s[k])]
           D == [k \in 1..n |-> C[p[k]]]
<1>1. /\ p \in [1..n -> 1..n]
      /\ \A i, j \in 1..n : p[i] = p[j] => i = j
      /\ \A k \in 1..n : \E i \in 1..n : p[i] = k
  BY DEF Bijection, Injection, Surjection, IsInjective
<1>2. AreSizes(C, s, n)
  BY <1>0, RowSizes
<1>3. \A k \in 1..n : p[k] \in 1..n /\ D[k] = C[p[k]]
  BY <1>1
<1> HIDE DEF C, D
<1>4. AreSizes(D, t, n)
  <2>1. ASSUME NEW k \in 1..n PROVE IsFiniteSet(D[k]) /\ Cardinality(D[k]) = t[k]
    BY <1>0, <1>2, <1>3 DEF AreSizes
  <2>2. ASSUME NEW j \in 1..n, NEW k \in 1..n, j # k PROVE D[j] \cap D[k] = {}
    <3>1. p[j] # p[k] /\ p[j] \in 1..n /\ p[k] \in 1..n
      BY <1>1, <2>2
    <3> QED
      BY <1>2, <1>3, <3>1 DEF AreSizes
  <2> QED
    BY <2>1, <2>2 DEF AreSizes
<1>5. AllOf(D, n) = AllOf(C, n)
  <2>1. ASSUME NEW x \in AllOf(C, n) PROVE x \in AllOf(D, n)
    <3>1. PICK k \in 1..n : x \in C[k]
      BY DEF AllOf
    <3>2. PICK i \in 1..n : p[i] = k
      BY <1>1
    <3> QED
      BY <1>3, <3>1, <3>2 DEF AllOf
  <2>2. ASSUME NEW x \in AllOf(D, n) PROVE x \in AllOf(C, n)
    BY <1>3 DEF AllOf
  <2> QED
    BY <2>1, <2>2
<1> QED
  BY <1>0, <1>2, <1>4, <1>5, SumIsSize

-----------------------------------------------------------------------------
(***************************************************************************)
(* What the task numbers tell of the instances, and the columns a task is  *)
(* needed in.                                                              *)
(***************************************************************************)
\* Instances of one section are those of one group and one level.
LEMMA SectionsTell ==
  ASSUME NEW x, IsInstance(x), x.level \in ToSet(ClassificationLevels),
         NEW y, IsInstance(y), y.level \in ToSet(ClassificationLevels)
  PROVE  Section(x) = Section(y) <=> x.group = y.group /\ x.level = y.level
<1> DEFINE Parts(z, level, support, service) ==
             /\ level \in 1..5 /\ ClassificationLevels[level] = z.level
             /\ \/ /\ z.group = "PORTABILITY_PLAN" /\ Section(z) = <<4, 3, level>>
                \/ /\ z.group \in ToSet(CloudSupportGroups) /\ Section(z) = <<4, 3, level, support>>
                   /\ support \in 1..5 /\ CloudSupportGroups[support] = z.group
                \/ /\ z.group \in ToSet(XaasServiceGroups) /\ Section(z) = <<4, 2, level, service>>
                   /\ service \in 1..11 /\ XaasServiceGroups[service] = z.group
<1>1. ASSUME NEW z, IsInstance(z), z.level \in ToSet(ClassificationLevels)
      PROVE  \E level, support, service : Parts(z, level, support, service)
  <2> DEFINE level == Position(z.level, ClassificationLevels)
             support == Position(z.group, CloudSupportGroups)
             service == Position(z.group, XaasServiceGroups)
  <2>1. level \in 1..5 /\ ClassificationLevels[level] = z.level
    BY <1>1, PositionIs, LevelsAre
  <2>2. CASE z.group = "PORTABILITY_PLAN"
    <3>1. z.group \notin ToSet(CloudSupportGroups)
      BY <2>2, SupportGroupsAre
    <3>2. Section(z) = <<4, 3, level>>
      BY <2>2, <3>1, Zenon DEF Section
    <3> QED
      BY <2>1, <2>2, <3>2
  <2>3. CASE z.group \in ToSet(CloudSupportGroups)
    <3>1. z.group # "PORTABILITY_PLAN"
      BY <2>3, SupportGroupsAre
    <3>2. Section(z) = <<4, 3, level, support>>
      BY <2>3, <3>1, Zenon DEF Section
    <3>3. support \in 1..5 /\ CloudSupportGroups[support] = z.group
      BY <2>3, SupportGroupsAre
    <3> QED
      BY <2>1, <2>3, <3>2, <3>3
  <2>4. CASE z.group \in ToSet(XaasServiceGroups)
    <3>1. z.group # "PORTABILITY_PLAN" /\ z.group \notin ToSet(CloudSupportGroups)
      BY <2>4, SupportGroupsAre, XaasGroupsAre
    <3>2. Section(z) = <<4, 2, level, service>>
      BY <3>1, Zenon DEF Section
    <3>3. service \in 1..11 /\ XaasServiceGroups[service] = z.group
      BY <2>4, XaasGroupsAre
    <3> QED
      BY <2>1, <2>4, <3>2, <3>3
  <2> QED
    BY <1>1, <2>2, <2>3, <2>4 DEF IsInstance, SupportTypes
<1>2. PICK l, s, v : Parts(x, l, s, v)
  BY <1>1
<1>3. PICK m, t, w : Parts(y, m, t, w)
  BY <1>1
<1>4. Section(x) = Section(y) => x.group = y.group /\ x.level = y.level
  BY <1>2, <1>3
<1>5. x.group = y.group /\ x.level = y.level => Section(x) = Section(y)
  BY Zenon DEF Section
<1> QED
  BY <1>4, <1>5

\* The task numbers of two instances are equal if they are portability plans of one
\* level, or have one place in one section.
LEMMA NumbersOfSection ==
  ASSUME NEW x, IsInstance(x), x.level \in ToSet(ClassificationLevels), NEW j \in Nat,
         NEW y, IsInstance(y), y.level \in ToSet(ClassificationLevels), NEW k \in Nat
  PROVE  TaskNumber(x, j) = TaskNumber(y, k)
           <=> Section(x) = Section(y) /\ (x.group = "PORTABILITY_PLAN" \/ j = k)
<1> DEFINE s == Section(x)
           t == Section(y)
           a == TaskNumber(x, j)
           b == TaskNumber(y, k)
<1>1. /\ s \in Seq(Nat)
      /\ x.group = "PORTABILITY_PLAN" => a = s /\ Len(s) = 3
      /\ x.group # "PORTABILITY_PLAN" => a = Append(s, j) /\ Len(s) = 4
  BY TaskNumberIs
<1>2. /\ t \in Seq(Nat)
      /\ y.group = "PORTABILITY_PLAN" => b = t /\ Len(t) = 3
      /\ y.group # "PORTABILITY_PLAN" => b = Append(t, k) /\ Len(t) = 4
  BY TaskNumberIs
<1> HIDE DEF s, t, a, b
<1>3. /\ Len(Append(s, j)) = Len(s) + 1 /\ Append(s, j)[Len(s) + 1] = j
      /\ \A i \in 1..Len(s) : Append(s, j)[i] = s[i]
  BY <1>1
<1>4. /\ Len(Append(t, k)) = Len(t) + 1 /\ Append(t, k)[Len(t) + 1] = k
      /\ \A i \in 1..Len(t) : Append(t, k)[i] = t[i]
  BY <1>2
<1>5. CASE x.group = "PORTABILITY_PLAN" /\ y.group = "PORTABILITY_PLAN"
  BY <1>1, <1>2, <1>5 DEF s, t, a, b
<1>6. CASE x.group = "PORTABILITY_PLAN" /\ y.group # "PORTABILITY_PLAN"
  <2>1. Len(a) = 3 /\ Len(b) = 5 /\ Len(s) = 3 /\ Len(t) = 4
    <3>1. a = s /\ Len(s) = 3 /\ b = Append(t, k) /\ Len(t) = 4
      BY <1>1, <1>2, <1>6
    <3>2. Len(Append(t, k)) = 5
      BY <1>4, <3>1
    <3> QED
      BY <3>1, <3>2
  <2>2. a # b /\ s # t
    BY <2>1
  <2> QED
    BY <2>2 DEF s, t, a, b
<1>7. CASE x.group # "PORTABILITY_PLAN" /\ y.group = "PORTABILITY_PLAN"
  <2>1. Len(a) = 5 /\ Len(b) = 3 /\ Len(s) = 4 /\ Len(t) = 3
    <3>1. b = t /\ Len(t) = 3 /\ a = Append(s, j) /\ Len(s) = 4
      BY <1>1, <1>2, <1>7
    <3>2. Len(Append(s, j)) = 5
      BY <1>3, <3>1
    <3> QED
      BY <3>1, <3>2
  <2>2. a # b /\ s # t
    BY <2>1
  <2> QED
    BY <2>2 DEF s, t, a, b
<1>8. CASE x.group # "PORTABILITY_PLAN" /\ y.group # "PORTABILITY_PLAN"
  <2>1. a = Append(s, j) /\ b = Append(t, k) /\ Len(s) = 4 /\ Len(t) = 4
    BY <1>1, <1>2, <1>8
  <2>2. ASSUME a = b PROVE s = t /\ j = k
    <3>1. j = k
      BY <1>3, <1>4, <2>1, <2>2
    <3>2. \A i \in 1..4 : s[i] = t[i]
      BY <1>3, <1>4, <2>1, <2>2
    <3>3. s = t
      <4> DEFINE T == Nat
      <4>1. s \in Seq(T) /\ t \in Seq(T)
        BY <1>1, <1>2
      <4> HIDE DEF T
      <4>2. s = <<s[1], s[2], s[3], s[4]>> /\ t = <<t[1], t[2], t[3], t[4]>>
        BY <2>1, <4>1, ThreeOrFour
      <4>3. s[1] = t[1] /\ s[2] = t[2] /\ s[3] = t[3] /\ s[4] = t[4]
        BY <3>2
      <4> QED
        BY <4>2, <4>3
    <3> QED
      BY <3>1, <3>3
  <2>3. s = t /\ j = k => a = b
    BY <2>1
  <2> QED
    BY <1>8, <2>2, <2>3 DEF s, t, a, b
<1> QED
  BY <1>5, <1>6, <1>7, <1>8

\* Of the instances of one section, each has a place of its own.
LEMMA NthTells ==
  ASSUME NEW ins, IsArray(ins), NEW i \in DOMAIN ins, NEW j \in DOMAIN ins,
         ins[i].group = ins[j].group, ins[i].level = ins[j].level, Nth(ins, i) = Nth(ins, j)
  PROVE  i = j
<1> DEFINE S == AtPlaces(ins, ins[i].group, ins[i].level)
           p == InOrder(S)
           m == Cardinality(S)
<1>1. \A k \in 1..m : Nth(ins, p[k]) = k
  BY AtLevelIs
<1>2. Len(ins) \in Nat /\ DOMAIN ins = 1..Len(ins)
  BY ArrayIs
<1>3. S \in SUBSET (1..Len(ins)) /\ i \in S /\ j \in S
  BY <1>2 DEF AtPlaces
<1>4. \A t \in S : \E k \in 1..m : p[k] = t
  BY <1>2, <1>3, InOrderIs
<1> HIDE DEF S, p, m
<1>5. PICK a \in 1..m : p[a] = i
  BY <1>3, <1>4
<1>6. PICK b \in 1..m : p[b] = j
  BY <1>3, <1>4
<1> QED
  BY <1>1, <1>5, <1>6

\* The rank of an option period among all is its number.
LEMMA RankOfOption ==
  ASSUME NEW options, AreOptions(options), NEW p \in ToSet(options)
  PROVE  /\ Cardinality({o \in ToSet(options) : o.order <= p.order}) = p.order - 1
         /\ p.order - 1 \in 1..Len(options)
<1> DEFINE n == Len(options)
           s == Ordered(options)
           below == {o \in ToSet(options) : o.order <= p.order}
<1>1. /\ n \in Nat
      /\ s \in Seq(ToSet(options)) /\ Len(s) = n
      /\ \A k \in 1..n : s[k].order = k + 1
      /\ \A o \in ToSet(options) : \E k \in 1..n : o = s[k]
  BY OptionsAreOrdered
<1> HIDE DEF n, s
<1>2. PICK r \in 1..n : p = s[r]
  BY <1>1
<1>3. p.order = r + 1 /\ r \in Nat
  BY <1>1, <1>2
<1>4. \A k \in 1..n : s[k] \in ToSet(options)
  BY <1>1
<1>5. \A k \in 1..r : k \in 1..n
  BY <1>1, <1>2
<1>6. \A k \in 1..r : s[k] \in below
  <2> TAKE k \in 1..r
  <2>1. k \in 1..n /\ k + 1 <= r + 1
    BY <1>5, <1>3
  <2> QED
    BY <1>1, <1>3, <1>4, <2>1
<1>7. \A c, d \in 1..r : s[c] = s[d] => c = d
  <2> TAKE c, d \in 1..r
  <2>1. c \in 1..n /\ d \in 1..n /\ c \in Nat /\ d \in Nat
    BY <1>3, <1>5
  <2>2. s[c].order = c + 1 /\ s[d].order = d + 1
    BY <1>1, <2>1
  <2> QED
    BY <2>1, <2>2
<1>8. \A o \in below : \E k \in 1..r : s[k] = o
  <2> TAKE o \in below
  <2>1. PICK k \in 1..n : o = s[k]
    BY <1>1
  <2>2. k + 1 <= r + 1
    BY <1>1, <1>3, <2>1
  <2>3. k \in 1..r
    BY <1>1, <1>3, <2>1, <2>2
  <2> QED
    BY <2>1, <2>3
<1>9. IsFiniteSet(1..r) /\ Cardinality(1..r) = r
  BY <1>3, IntervalSize
<1> HIDE DEF below
<1>10. Cardinality(below) = r
  BY <1>6, <1>7, <1>8, <1>9, SameSize
<1>11. r = p.order - 1
  BY <1>3
<1> QED
  BY <1>10, <1>11 DEF below, n

\* The columns marked for a task are those it is needed in.
LEMMA MarksAreNeeded ==
  ASSUME NEW options, AreOptions(options), NEW x, AreSelected(x.periods), AreOf(x.periods, options),
         x.entire \in BOOLEAN, NEW pop, pop.entire = x.entire,
         ~x.entire => ToSet(pop.periods) = {Label(p) : p \in ToSet(x.periods)}
  PROVE  MarksOf(pop, Columns(options)) = NeededIn(x, options)
<1> DEFINE n == Len(options)
           all == ToSet(Columns(options))
           Column(p) == IF p.type = "BASE" THEN 0
                          ELSE Cardinality({o \in ToSet(options) : o.order <= p.order})
           labels == {Label(p) : p \in ToSet(x.periods)}
           needed == {Column(p) : p \in ToSet(x.periods)}
<1>1. n \in Nat
  BY OptionsAreOrdered
<1>2. Columns(options) = [c \in 1..n + 1 |-> c - 1]
  BY ColumnsAre
<1>3. all = 0..n
  <2>1. all = {c - 1 : c \in 1..n + 1}
    BY <1>2 DEF ToSet
  <2> HIDE DEF all, n
  <2>2. \A c \in 1..n + 1 : c - 1 \in 0..n
    BY <1>1
  <2>3. \A k \in 0..n : k + 1 \in 1..n + 1 /\ k = (k + 1) - 1
    BY <1>1
  <2> QED
    BY <2>1, <2>2, <2>3
<1>4. ASSUME NEW p \in ToSet(x.periods) PROVE Label(p) = Column(p) /\ Label(p) \in 0..n
  <2>1. IsPeriod(p)
    BY DEF AreSelected, ToSet
  <2>2. CASE p.type = "BASE"
    <3>1. Label(p) = 0 /\ Column(p) = 0
      BY <2>2 DEF Label
    <3> QED
      BY <1>1, <3>1
  <2>3. CASE p.type # "BASE"
    <3>1. p \in ToSet(options)
      BY <2>1, <2>3 DEF AreOf, IsPeriod, PeriodTypes
    <3>2. Label(p) = p.order - 1
      BY <2>3 DEF Label
    <3>3. Column(p) = p.order - 1 /\ p.order - 1 \in 1..n
      BY <2>3, <3>1, RankOfOption
    <3>4. p.order - 1 \in 0..n
      BY <1>1, <3>3
    <3> QED
      BY <3>2, <3>3, <3>4
  <2> QED
    BY <2>2, <2>3
<1> HIDE DEF Column
<1>5. labels = needed /\ labels \subseteq 0..n
  BY <1>4
<1>6. NeededIn(x, options) = IF x.entire THEN 0..n ELSE needed
  BY Zenon DEF NeededIn, Column
<1> HIDE DEF labels, needed, all, n
<1>7. MarksOf(pop, Columns(options)) = IF x.entire THEN all ELSE all \cap labels
  <2>1. CASE x.entire
    BY <2>1 DEF MarksOf, all
  <2>2. CASE ~x.entire
    <3>1. ToSet(pop.periods) = labels
      BY <2>2 DEF labels
    <3> QED
      BY <2>2, <3>1 DEF MarksOf, all
  <2> QED
    BY <2>1, <2>2
<1> QED
  BY <1>3, <1>5, <1>6, <1>7

-----------------------------------------------------------------------------
(***************************************************************************)
(* The table of a package (PopTableIsExact): each task at a place of its   *)
(* own.                                                                    *)
(***************************************************************************)
\* The columns of the PoP table are numbers.
LEMMA ColumnsAreNumbers ==
  ASSUME NEW package, IsPackage(package)
  PROVE  ToSet(Columns(package.options)) \subseteq Nat
<1> DEFINE options == package.options
           n == Len(options)
<1>1. AreOptions(options)
  BY DEF IsPackage
<1>2. Columns(options) = [c \in 1..n + 1 |-> c - 1]
  BY <1>1, ColumnsAre
<1>3. n \in Nat
  BY <1>1, OptionsAreOrdered
<1> HIDE DEF n
<1> QED
  BY <1>2, <1>3 DEF ToSet

\* The tasks of a package are in its PoP table, each at a place of its own, in a row with
\* the columns it is needed in.
PlacedIn(package, table, place) ==
  LET ins == package.instances
      IsTaskAt(d, number, columns) ==
        /\ table[place[d][1]].numbers[place[d][2]] = number
        /\ table[place[d][1]].marks = columns
  IN /\ place \in Bijection(TaskPlaces(package), Places(table))
     /\ \A i \in LevelledAt(ins) :
          IsTaskAt(i, TaskNumber(ins[i], Nth(ins, i)), NeededIn(ins[i], package.options))
     /\ package.cds.required => IsTaskAt(0, CdsNumber, NeededIn(package.cds, package.options))

\* The task of each instance has its number, and its periods are the columns the instance is
\* needed in; so has the cross domain solution.
LEMMA TasksHaveMarks ==
  ASSUME NEW package, IsPackage(package)
  PROVE  LET ins == package.instances
             F == TaskAt(package)
             Marks(d) == MarksOf(F[d], Columns(package.options))
         IN /\ \A i \in LevelledAt(ins) : /\ i \in TaskPlaces(package)
                                          /\ F[i].number = TaskNumber(ins[i], Nth(ins, i))
                                          /\ Marks(i) = NeededIn(ins[i], package.options)
            /\ package.cds.required => /\ 0 \in TaskPlaces(package)
                                       /\ F[0].number = CdsNumber
                                       /\ Marks(0) = NeededIn(package.cds, package.options)
<1> DEFINE ins == package.instances
           options == package.options
           F == TaskAt(package)
<1>1. /\ DOMAIN ins = 1..Len(ins)
      /\ \A i \in 1..Len(ins) : IsInstance(ins[i])
      /\ \A i \in LevelledAt(ins) : i \in 1..Len(ins) /\ ins[i].level \in ToSet(ClassificationLevels)
                                    /\ Nth(ins, i) \in Nat
  BY PackageIs
<1>2. AreOptions(options) /\ IsCds(package.cds)
  BY DEF IsPackage
<1>3. ASSUME NEW i \in LevelledAt(ins)
      PROVE  /\ i \in TaskPlaces(package)
             /\ F[i].number = TaskNumber(ins[i], Nth(ins, i))
             /\ MarksOf(F[i], Columns(options)) = NeededIn(ins[i], options)
  <2> DEFINE x == ins[i]
             pop == F[i]
  <2>1. /\ IsInstance(x) /\ x.level \in ToSet(ClassificationLevels) /\ Nth(ins, i) \in Nat
        /\ i # 0 /\ x \in ToSet(ins)
    BY <1>1 DEF ToSet
  <2>2. pop = InstancePop(x, Nth(ins, i))
    BY <2>1 DEF TaskAt, TaskPlaces, PopsOfInstances
  <2>3. i \in TaskPlaces(package)
    BY DEF TaskPlaces
  <2>4. AreOf(x.periods, options)
    BY <2>1 DEF IsPackage
  <2>5. AreSelected(x.periods) /\ x.entire \in BOOLEAN
    BY <2>1 DEF IsInstance
  <2> HIDE DEF x, pop
  <2>6. /\ pop.number = TaskNumber(x, Nth(ins, i)) /\ pop.entire = x.entire
        /\ ToSet(pop.periods) = {Label(p) : p \in ToSet(x.periods)}
    BY <2>1, <2>2, InstancePopIs
  <2> HIDE DEF options
  <2>7. MarksOf(pop, Columns(options)) = NeededIn(x, options)
    BY <1>2, <2>4, <2>5, <2>6, MarksAreNeeded
  <2> QED
    BY <2>3, <2>6, <2>7 DEF x, pop
<1>4. ASSUME package.cds.required
      PROVE  /\ 0 \in TaskPlaces(package)
             /\ F[0].number = CdsNumber
             /\ MarksOf(F[0], Columns(options)) = NeededIn(package.cds, options)
  <2> DEFINE x == package.cds
             pop == F[0]
  <2>1. 0 \in TaskPlaces(package) /\ pop = CdsPops(x)[1]
    BY <1>4 DEF TaskAt, TaskPlaces
  <2>2. AreSelected(x.periods) /\ x.entire \in BOOLEAN /\ x.required
    BY <1>2, <1>4 DEF IsCds
  <2>3. AreOf(x.periods, options)
    BY DEF IsPackage
  <2>4. IsCds(x)
    BY <1>2
  <2> HIDE DEF x, pop
  <2>5. /\ pop.number = CdsNumber /\ pop.entire = x.entire
        /\ ~x.entire => ToSet(pop.periods) = {Label(p) : p \in ToSet(x.periods)}
    BY <2>1, <2>2, <2>4, CdsPopsAre
  <2> HIDE DEF options
  <2>6. MarksOf(pop, Columns(options)) = NeededIn(x, options)
    BY <1>2, <2>2, <2>3, <2>5, MarksAreNeeded
  <2> QED
    BY <2>1, <2>5, <2>6 DEF x, pop
<1> QED
  BY <1>3, <1>4

\* The table of a package places its tasks, all of them and nothing else.
LEMMA TableOfPackage ==
  ASSUME NEW package, IsPackage(package), NEW table,
         table = PopTable(TaskPops(package), Columns(package.options))
  PROVE  /\ Len(table) \in Nat /\ DOMAIN table = 1..Len(table)
         /\ \A r \in 1..Len(table) : /\ Len(table[r].numbers) \in Nat
                                     /\ DOMAIN table[r].numbers = 1..Len(table[r].numbers)
         /\ \E place : PlacedIn(package, table, place)
<1> DEFINE pops == TaskPops(package)
           columns == Columns(package.options)
           N == Seq(Nat)
           D == TaskPlaces(package)
           F == TaskAt(package)
           ins == package.instances
<1>1. pops \in Seq(PopsOf(N)) /\ Lists(pops, D, F)
  BY TaskPopsAre DEF TaskPop
<1>2. ToSet(columns) \subseteq Nat
  BY ColumnsAreNumbers
<1>3. /\ \A i \in LevelledAt(ins) : /\ i \in D
                                    /\ F[i].number = TaskNumber(ins[i], Nth(ins, i))
                                    /\ MarksOf(F[i], columns) = NeededIn(ins[i], package.options)
      /\ package.cds.required => /\ 0 \in D
                                 /\ F[0].number = CdsNumber
                                 /\ MarksOf(F[0], columns) = NeededIn(package.cds, package.options)
  BY TasksHaveMarks
<1>4. table = PopTable(pops, columns)
  OBVIOUS
<1> HIDE DEF pops, columns, N, D, F
<1>5. table \in Seq(RowsOf(N))
  BY <1>1, <1>2, <1>4, PopTableRows
<1>6. PICK at \in Bijection(1..Len(pops), Places(table)) :
        \A i \in 1..Len(pops) : /\ table[at[i][1]].numbers[at[i][2]] = pops[i].number
                                /\ table[at[i][1]].marks = MarksOf(pops[i], columns)
  BY <1>1, <1>2, <1>4, PopTablePlaces
<1>7. PICK of \in Bijection(D, 1..Len(pops)) : \A d \in D : pops[of[d]] = F[d]
  BY <1>1 DEF Lists
<1> DEFINE place == [d \in D |-> at[of[d]]]
           P == Places(table)
           I == 1..Len(pops)
<1>8. /\ of \in [D -> I] /\ (\A c, d \in D : of[c] = of[d] => c = d)
      /\ \A i \in I : \E d \in D : of[d] = i
  BY <1>7 DEF Bijection, Injection, Surjection, IsInjective
<1>9. /\ at \in [I -> P] /\ (\A i, j \in I : at[i] = at[j] => i = j)
      /\ \A p \in P : \E i \in I : at[i] = p
  BY <1>6 DEF Bijection, Injection, Surjection, IsInjective
<1>10. \A d \in D : /\ place[d] = at[of[d]] /\ of[d] \in I
                    /\ table[place[d][1]].numbers[place[d][2]] = F[d].number
                    /\ table[place[d][1]].marks = MarksOf(F[d], columns)
  BY <1>6, <1>7, <1>8
<1> HIDE DEF P, I
<1>11. place \in Bijection(D, P)
  <2>1. place \in [D -> P]
    BY <1>8, <1>9
  <2>2. \A c, d \in D : place[c] = place[d] => c = d
    BY <1>8, <1>9, <1>10
  <2>3. \A p \in P : \E d \in D : place[d] = p
    BY <1>8, <1>9, <1>10
  <2> HIDE DEF place
  <2> QED
    BY <2>1, <2>2, <2>3 DEF Bijection, Injection, Surjection, IsInjective
<1> HIDE DEF place
<1>12. PlacedIn(package, table, place)
  BY <1>3, <1>10, <1>11 DEF PlacedIn, P, D, ins
<1>13. Len(table) \in Nat /\ DOMAIN table = 1..Len(table) /\ \A r \in 1..Len(table) : table[r].numbers \in Seq(N)
  <2>1. Len(table) \in Nat /\ DOMAIN table = 1..Len(table) /\ \A r \in 1..Len(table) : table[r] \in RowsOf(N)
    BY <1>5
  <2>2. \A row \in RowsOf(N) : row.numbers \in Seq(N)
    BY DEF RowsOf
  <2> QED
    BY <2>1, <2>2
<1> QED
  BY <1>12, <1>13

\* There are as many tasks as instances with a level, and one more for the cross domain
\* solution.
LEMMA SizeOfTaskPlaces ==
  ASSUME NEW package, IsPackage(package)
  PROVE  LET ins == package.instances
             L == LevelledAt(ins)
             more == IF package.cds.required THEN 1 ELSE 0
         IN /\ IsFiniteSet(L) /\ Cardinality(L) \in Nat
            /\ IsFiniteSet(TaskPlaces(package))
            /\ Cardinality(TaskPlaces(package)) = Cardinality(L) + more
            /\ Cardinality(TaskPlaces(package)) <= Len(ins) + 1
<1> DEFINE ins == package.instances
           n == Len(ins)
           L == LevelledAt(ins)
           D == TaskPlaces(package)
<1>1. n \in Nat /\ \A i \in L : i \in 1..n
  BY PackageIs
<1>2. D = L \cup (IF package.cds.required THEN {0} ELSE {})
  BY DEF TaskPlaces
<1> HIDE DEF n, L, D
<1>3. IsFiniteSet(1..n) /\ Cardinality(1..n) = n
  BY <1>1, IntervalSize
<1>4. L \in SUBSET (1..n) /\ 0 \notin L
  BY <1>1
<1>5. IsFiniteSet(L) /\ Cardinality(L) <= n
  BY <1>3, <1>4, FS_Subset
<1>6. Cardinality(L) \in Nat
  BY <1>5, FS_CardinalityType
<1>7. CASE package.cds.required
  <2>1. D = L \cup {0}
    BY <1>2, <1>7
  <2>2. IsFiniteSet(D) /\ Cardinality(D) = Cardinality(L) + 1
    BY <1>4, <1>5, <2>1, FS_AddElement
  <2> QED
    BY <1>1, <1>5, <1>6, <1>7, <2>2 DEF n, L, D
<1>8. CASE ~package.cds.required
  <2>1. D = L
    BY <1>2, <1>8
  <2> QED
    BY <1>1, <1>5, <1>6, <1>8, <2>1 DEF n, L, D
<1> QED
  BY <1>7, <1>8

\* PlacesOf, of an array of n instances.
PlacesIn(number, table, n) ==
  {place \in (DOMAIN table) \X (1..n + 1) :
     place[2] \in DOMAIN table[place[1]].numbers /\ table[place[1]].numbers[place[2]] = number}

\* The task number at a place.
NumberOf(table, at) == table[at[1]].numbers[at[2]]

\* The places of the tasks with a number.
AreOfNumber(found, number, package, table, place) ==
  \A p : p \in found <=> \E d \in TaskPlaces(package) : NumberOf(table, place[d]) = number /\ p = place[d]

\* No row is longer than there are tasks, so that PlacesIn finds every place.
LEMMA PlacesAreIn ==
  ASSUME NEW package, IsPackage(package), NEW table,
         table = PopTable(TaskPops(package), Columns(package.options)),
         NEW place, PlacedIn(package, table, place), NEW number
  PROVE  AreOfNumber(PlacesIn(number, table, Len(package.instances)), number, package, table, place)
<1> DEFINE D == TaskPlaces(package)
           P == Places(table)
           n == Len(package.instances)
           NumberAt(p) == NumberOf(table, p)
<1>1. /\ Len(table) \in Nat /\ DOMAIN table = 1..Len(table)
      /\ \A r \in 1..Len(table) : /\ Len(table[r].numbers) \in Nat
                                  /\ DOMAIN table[r].numbers = 1..Len(table[r].numbers)
  BY TableOfPackage
<1>2. /\ place \in [D -> P] /\ \A p \in P : \E d \in D : place[d] = p
  BY DEF PlacedIn, Bijection, Injection, Surjection
<1>3. place \in Surjection(D, P)
  BY DEF PlacedIn, Bijection
<1>4. IsFiniteSet(D) /\ Cardinality(D) <= n + 1 /\ n \in Nat
  BY SizeOfTaskPlaces, PackageIs
<1> HIDE DEF n, D, P
<1>5. IsFiniteSet(P) /\ Cardinality(P) <= Cardinality(D)
  BY <1>3, <1>4, FS_Surjection
<1>6. ASSUME NEW r \in 1..Len(table) PROVE Len(table[r].numbers) <= n + 1
  <2> DEFINE m == Len(table[r].numbers)
             R == {<<r, c>> : c \in 1..m}
  <2>1. m \in Nat
    BY <1>1
  <2>2. R \in SUBSET P
    <3>1. ASSUME NEW c \in 1..m PROVE <<r, c>> \in P
      <4>1. <<r, c>> \in (1..Len(table)) \X Nat
        BY <2>1
      <4> QED
        BY <4>1 DEF P, Places
    <3> QED
      BY <3>1
  <2>4. IsFiniteSet(R) /\ Cardinality(R) = m
    <3>1. R = Row(r, m)
      BY DEF Row
    <3> HIDE DEF m, R
    <3> QED
      BY <2>1, <3>1, RowSize
  <2> HIDE DEF m, R
  <2>5. m <= Cardinality(P)
    BY <1>5, <2>2, <2>4, FS_Subset
  <2>6. Cardinality(P) \in Nat /\ Cardinality(D) \in Nat
    BY <1>4, <1>5, FS_CardinalityType
  <2>7. m <= n + 1
    BY <1>4, <1>5, <2>1, <2>5, <2>6
  <2> QED
    BY <2>7 DEF m
<1>7. ASSUME NEW p \in PlacesIn(number, table, n) PROVE p \in P /\ NumberAt(p) = number
  <2>1. /\ p \in (DOMAIN table) \X (1..n + 1)
        /\ p[2] \in DOMAIN table[p[1]].numbers /\ NumberAt(p) = number
    BY DEF PlacesIn, NumberOf
  <2>2. p[1] \in 1..Len(table) /\ p[2] \in 1..Len(table[p[1]].numbers)
    BY <1>1, <2>1
  <2>3. p \in (1..Len(table)) \X Nat
    BY <1>1, <1>4, <2>1
  <2> QED
    BY <2>1, <2>2, <2>3 DEF P, Places
<1>8. ASSUME NEW p \in P, NumberAt(p) = number PROVE p \in PlacesIn(number, table, n)
  <2>1. p \in (1..Len(table)) \X Nat /\ p[2] \in 1..Len(table[p[1]].numbers)
    BY DEF P, Places
  <2>2. p[1] \in 1..Len(table) /\ Len(table[p[1]].numbers) <= n + 1 /\ Len(table[p[1]].numbers) \in Nat
    BY <1>1, <1>6, <2>1
  <2>3. p[2] \in 1..n + 1
    BY <1>4, <2>1, <2>2
  <2>4. p = <<p[1], p[2]>>
    BY <2>1
  <2>5. <<p[1], p[2]>> \in (DOMAIN table) \X (1..n + 1)
    BY <1>1, <2>2, <2>3
  <2>6. p[2] \in DOMAIN table[p[1]].numbers
    BY <1>1, <2>1, <2>2
  <2> QED
    BY <1>8, <2>4, <2>5, <2>6 DEF PlacesIn, NumberOf
<1> HIDE DEF NumberAt
<1>9. ASSUME NEW p \in PlacesIn(number, table, n) PROVE \E d \in D : NumberAt(place[d]) = number /\ p = place[d]
  <2>1. p \in P /\ NumberAt(p) = number
    BY <1>7
  <2>2. PICK d \in D : place[d] = p
    BY <1>2, <2>1
  <2> QED
    BY <2>1, <2>2
<1>10. ASSUME NEW d \in D, NumberAt(place[d]) = number PROVE place[d] \in PlacesIn(number, table, n)
  <2>1. place[d] \in P
    BY <1>2
  <2> QED
    BY <1>8, <1>10, <2>1
<1> QED
  BY <1>9, <1>10 DEF AreOfNumber, NumberAt, n, D

\* The instances whose task has the number of the i-th.
SameTask(ins, i) ==
  {j \in LevelledAt(ins) : /\ Section(ins[j]) = Section(ins[i])
                           /\ ins[i].group = "PORTABILITY_PLAN" \/ j = i}

\* The places of some tasks in the table.
PlacesOfAll(place, tasks) == {place[j] : j \in tasks}

\* The places of a task number in the table are those of the instances that share it,
\* and the cross domain solution shares its number with none.
LEMMA PlacesOfTasks ==
  ASSUME NEW package, IsPackage(package), NEW table,
         table = PopTable(TaskPops(package), Columns(package.options)),
         NEW place, PlacedIn(package, table, place)
  PROVE  LET ins == package.instances
             n == Len(ins)
         IN /\ \A i \in LevelledAt(ins) :
                 PlacesIn(TaskNumber(ins[i], Nth(ins, i)), table, n) = PlacesOfAll(place, SameTask(ins, i))
            /\ PlacesIn(CdsNumber, table, n) = (IF package.cds.required THEN {place[0]} ELSE {})
<1> DEFINE ins == package.instances
           n == Len(ins)
           L == LevelledAt(ins)
           D == TaskPlaces(package)
           Number(i) == TaskNumber(ins[i], Nth(ins, i))
           NumberAt(d) == NumberOf(table, place[d])
           required == package.cds.required
<1>1. ASSUME NEW number
      PROVE  \A p : p \in PlacesIn(number, table, n) <=> \E d \in D : NumberAt(d) = number /\ p = place[d]
  <2>1. AreOfNumber(PlacesIn(number, table, n), number, package, table, place)
    BY PlacesAreIn
  <2> HIDE DEF n
  <2> QED
    BY <2>1 DEF AreOfNumber
<1>2. /\ \A i \in L : NumberAt(i) = Number(i)
      /\ required => NumberAt(0) = CdsNumber
  BY DEF PlacedIn, NumberOf
<1>3. /\ \A i \in L : i \in D
      /\ required => 0 \in D
      /\ \A d \in D : d \in L \/ (d = 0 /\ required)
  BY DEF TaskPlaces
<1>4. /\ IsArray(ins)
      /\ \A i \in L : /\ i \in 1..n /\ i \in DOMAIN ins /\ IsInstance(ins[i]) /\ Nth(ins, i) \in Nat
                      /\ ins[i].level \in ToSet(ClassificationLevels)
  BY PackageIs DEF AreInstances, IsPackage
<1>5. \A i \in L : Number(i) # CdsNumber
  BY <1>4, NumbersTell
<1>6. ASSUME NEW i \in L, NEW j \in L
      PROVE  Number(j) = Number(i) <=> j \in SameTask(ins, i)
  <2>1. Number(j) = Number(i)
          <=> Section(ins[j]) = Section(ins[i])
              /\ (ins[j].group = "PORTABILITY_PLAN" \/ Nth(ins, j) = Nth(ins, i))
    BY <1>4, NumbersOfSection
  <2>2. Section(ins[j]) = Section(ins[i]) <=> ins[j].group = ins[i].group /\ ins[j].level = ins[i].level
    BY <1>4, SectionsTell
  <2>3. ins[j].group = ins[i].group /\ ins[j].level = ins[i].level /\ Nth(ins, j) = Nth(ins, i) => j = i
    BY <1>4, NthTells
  <2>4. j \in SameTask(ins, i) <=> Section(ins[j]) = Section(ins[i])
                                   /\ (ins[i].group = "PORTABILITY_PLAN" \/ j = i)
    BY DEF SameTask
  <2> HIDE DEF Number, ins, L
  <2>5. ASSUME Number(j) = Number(i) PROVE j \in SameTask(ins, i)
    BY <2>1, <2>2, <2>3, <2>4, <2>5
  <2>6. ASSUME j \in SameTask(ins, i) PROVE Number(j) = Number(i)
    <3>1. CASE j = i
      BY <3>1
    <3>2. CASE j # i
      BY <2>1, <2>2, <2>4, <2>6, <3>2
    <3> QED
      BY <3>1, <3>2
  <2> QED
    BY <2>5, <2>6
<1>7. \A i \in L : SameTask(ins, i) \subseteq L
  BY DEF SameTask
<1> HIDE DEF ins, n, L, D, Number, NumberAt, required
<1>8. ASSUME NEW i \in L PROVE \A e : e \in D /\ NumberAt(e) = Number(i) <=> e \in SameTask(ins, i)
  BY <1>2, <1>3, <1>5, <1>6, <1>7
<1>9. \A i \in L : PlacesIn(Number(i), table, n) = {place[j] : j \in SameTask(ins, i)}
  BY <1>1, <1>8
<1>10. \A e : e \in D /\ NumberAt(e) = CdsNumber <=> required /\ e = 0
  <2>1. \A e \in D : NumberAt(e) = CdsNumber <=> required /\ e = 0
    <3> TAKE e \in D
    <3>1. CASE e \in L
      <4>1. NumberAt(e) # CdsNumber
        BY <1>2, <1>5, <3>1
      <4>2. e # 0
        BY <1>4, <3>1
      <4> QED
        BY <4>1, <4>2
    <3>2. CASE e = 0 /\ required
      BY <1>2, <3>2
    <3> QED
      BY <1>3, <3>1, <3>2
  <2> QED
    BY <1>3, <2>1
<1>11. PlacesIn(CdsNumber, table, n) = (IF required THEN {place[0]} ELSE {})
  <2>1. \A p : p \in PlacesIn(CdsNumber, table, n) <=> required /\ p = place[0]
    BY <1>1, <1>10
  <2> QED
    BY <2>1
<1> QED
  BY <1>9, <1>11 DEF PlacesOfAll, Number, L, ins, n, required

\* The instances with a section, in their order.
LEMMA LevelledInOrder ==
  ASSUME NEW package, IsPackage(package)
  PROVE  LET ins == package.instances
             L == LevelledAt(ins)
             m == Cardinality(L)
             q == InOrder(L)
             levelled == Levelled(ins)
         IN /\ m \in Nat /\ DOMAIN levelled = 1..m /\ Len(levelled) = m
            /\ \A i \in 1..m : q[i] \in L /\ levelled[i] = ins[q[i]]
            /\ \A t \in L : \E i \in 1..m : q[i] = t
            /\ \A i, j \in 1..m : i < j => q[i] < q[j]
            /\ \A i, j \in 1..m : q[i] = q[j] => i = j
<1> DEFINE ins == package.instances
           n == Len(ins)
           L == LevelledAt(ins)
           m == Cardinality(L)
           q == InOrder(L)
           levelled == Levelled(ins)
<1>1. n \in Nat /\ L \in SUBSET (1..n)
  BY PackageIs
<1>2. levelled = Picked(ins, q)
  BY LevelledAre
<1> HIDE DEF ins, n, L, levelled
<1>3. /\ m \in Nat /\ q \in [1..m -> L]
      /\ \A t \in L : \E i \in 1..m : q[i] = t
      /\ \A i, j \in 1..m : i < j => q[i] < q[j]
  BY <1>1, InOrderIs DEF Increasing
<1> HIDE DEF m, q
<1>4. levelled = [k \in 1..m |-> ins[q[k]]]
  BY <1>2, <1>3 DEF Picked
<1>5. DOMAIN levelled = 1..m /\ Len(levelled) = m
  BY <1>3, <1>4
<1>6. \A i \in 1..m : q[i] \in L /\ levelled[i] = ins[q[i]]
  BY <1>3, <1>4
<1>7. \A i \in 1..m : q[i] \in Nat
  <2>1. \A t \in L : t \in Nat
    BY <1>1
  <2> QED
    BY <1>6, <2>1
<1>8. \A i, j \in 1..m : q[i] = q[j] => i = j
  <2> SUFFICES ASSUME NEW i \in 1..m, NEW j \in 1..m, q[i] = q[j], i # j PROVE FALSE
    OBVIOUS
  <2>1. i < j \/ j < i
    BY <1>3
  <2> QED
    BY <1>3, <1>7, <2>1
<1> QED
  BY <1>3, <1>5, <1>6, <1>8 DEF ins, L, m, q, levelled

\* The place of an instance in its section counts those of the same group and level.
LEMMA NthOfSection ==
  ASSUME NEW package, IsPackage(package), NEW i \in DOMAIN Levelled(package.instances)
  PROVE  LET ins == package.instances
             levelled == Levelled(ins)
         IN Cardinality({j \in 1..i : Section(levelled[j]) = Section(levelled[i])})
              = Nth(ins, InOrder(LevelledAt(ins))[i])
<1> DEFINE ins == package.instances
           n == Len(ins)
           L == LevelledAt(ins)
           m == Cardinality(L)
           q == InOrder(L)
           levelled == Levelled(ins)
           S == {j \in 1..i : Section(levelled[j]) = Section(levelled[i])}
           E == {t \in 1..q[i] : ins[t].group = ins[q[i]].group /\ ins[t].level = ins[q[i]].level}
<1>1. /\ m \in Nat /\ DOMAIN levelled = 1..m
      /\ \A j \in 1..m : q[j] \in L /\ levelled[j] = ins[q[j]]
      /\ \A t \in L : \E j \in 1..m : q[j] = t
      /\ \A j, k \in 1..m : j < k => q[j] < q[k]
      /\ \A j, k \in 1..m : q[j] = q[k] => j = k
  BY LevelledInOrder
<1>2. /\ n \in Nat /\ DOMAIN ins = 1..n
      /\ \A t \in L : t \in 1..n /\ IsInstance(ins[t]) /\ ins[t].level \in ToSet(ClassificationLevels)
      /\ \A t \in 1..n : ins[t].level \in ToSet(ClassificationLevels) => t \in L
  BY PackageIs DEF LevelledAt
<1>3. i \in 1..m
  BY <1>1
<1>4. \A j \in 1..m : Section(levelled[j]) = Section(levelled[i])
                      <=> ins[q[j]].group = ins[q[i]].group /\ ins[q[j]].level = ins[q[i]].level
  <2> TAKE j \in 1..m
  <2> DEFINE x == levelled[j]
             y == levelled[i]
  <2> HIDE DEF ins, n, L, m, q, levelled
  <2>1. /\ x = ins[q[j]] /\ IsInstance(x) /\ x.level \in ToSet(ClassificationLevels)
        /\ y = ins[q[i]] /\ IsInstance(y) /\ y.level \in ToSet(ClassificationLevels)
    BY <1>1, <1>2, <1>3
  <2> HIDE DEF x, y
  <2>2. Section(x) = Section(y) <=> x.group = y.group /\ x.level = y.level
    BY <2>1, SectionsTell
  <2> QED
    BY <2>1, <2>2 DEF x, y
<1> HIDE DEF ins, n, L, m, q, levelled
<1>5. \A j \in 1..i : j \in 1..m /\ q[j] <= q[i] /\ q[j] \in 1..q[i]
  <2> TAKE j \in 1..i
  <2>1. j \in 1..m /\ (j < i \/ j = i)
    BY <1>1, <1>3
  <2>2. q[j] \in 1..n /\ q[i] \in 1..n
    BY <1>1, <1>2, <1>3, <2>1
  <2>3. q[j] <= q[i]
    BY <1>1, <1>2, <1>3, <2>1, <2>2
  <2> QED
    BY <1>2, <2>1, <2>2, <2>3
<1>6. \A j \in S : q[j] \in E
  BY <1>4, <1>5
<1>7. \A j, k \in S : q[j] = q[k] => j = k
  BY <1>1, <1>5
<1>8. ASSUME NEW t \in E PROVE \E j \in S : q[j] = t
  <2>1. t \in 1..q[i] /\ q[i] \in 1..n /\ q[i] \in L
    BY <1>1, <1>2, <1>3
  <2>2. t \in 1..n
    BY <1>2, <2>1
  <2>3. ins[t].level \in ToSet(ClassificationLevels)
    BY <1>2, <2>1
  <2>4. PICK j \in 1..m : q[j] = t
    BY <1>1, <1>2, <2>2, <2>3
  <2>5. ~(i < j)
    <3> SUFFICES ASSUME i < j PROVE FALSE
      OBVIOUS
    <3>1. q[i] < t
      BY <1>1, <1>3, <2>4
    <3> QED
      BY <2>1, <3>1
  <2>6. j \in 1..i
    BY <1>1, <1>3, <2>4, <2>5
  <2> QED
    BY <1>4, <2>4, <2>6
<1>9. IsFiniteSet(S)
  <2>1. i \in Nat
    BY <1>3
  <2>2. IsFiniteSet(1..i) /\ S \in SUBSET (1..i)
    BY <2>1, IntervalSize
  <2> QED
    BY <2>2, FS_Subset
<1> HIDE DEF S, E
<1>10. Cardinality(E) = Cardinality(S)
  BY <1>6, <1>7, <1>8, <1>9, SameSize
<1> QED
  BY <1>10 DEF Nth, S, E, q, ins, levelled, L

\* The text has a section on services if and only if a task is one of a service.
LEMMA XaasIsTold ==
  ASSUME NEW package, IsPackage(package)
  PROVE  HasXaas(package) <=> \E n \in TaskNumbers(package) : n[2] = 2
<1> DEFINE ins == package.instances
           L == LevelledAt(ins)
           required == package.cds.required
           Number(i) == TaskNumber(ins[i], Nth(ins, i))
<1>1. /\ DOMAIN ins = 1..Len(ins)
      /\ \A i \in L : /\ IsInstance(ins[i]) /\ Nth(ins, i) \in Nat
                      /\ ins[i].level \in ToSet(ClassificationLevels)
  BY PackageIs
<1>2. \A i \in L : Number(i)[2] = 2 <=> ~IsSupport(ins[i])
  <2> TAKE i \in L
  <2> DEFINE x == ins[i]
             k == Nth(ins, i)
  <2>1. IsInstance(x) /\ x.level \in ToSet(ClassificationLevels) /\ k \in Nat
    BY <1>1
  <2> HIDE DEF x, k
  <2>2. TaskNumber(x, k)[2] = 2 <=> ~IsSupport(x)
    BY <2>1, NumbersTell
  <2> QED
    BY <2>2 DEF x, k
<1>3. CdsNumber[2] = 2
  BY DEF CdsNumber
<1>4. HasXaas(package) <=> required \/ \E i \in L : ~IsSupport(ins[i])
  <2>1. (\E x \in ToSet(ins) : ~IsSupport(x) /\ x.level \in ToSet(ClassificationLevels))
          <=> \E i \in L : ~IsSupport(ins[i])
    BY DEF ToSet, LevelledAt
  <2> HIDE DEF L, ins
  <2>2. HasXaas(package) <=> required \/ \E x \in ToSet(ins) : ~IsSupport(x) /\ x.level \in ToSet(ClassificationLevels)
    BY DEF HasXaas, ins
  <2> QED
    BY <2>1, <2>2
<1>5. \A n : n \in TaskNumbers(package) <=> (\E i \in L : n = Number(i)) \/ (required /\ n = CdsNumber)
  BY DEF TaskNumbers
<1> HIDE DEF L, ins, required, Number
<1>6. (\E n \in TaskNumbers(package) : n[2] = 2) <=> required \/ \E i \in L : ~IsSupport(ins[i])
  <2>1. ASSUME NEW n \in TaskNumbers(package), n[2] = 2 PROVE required \/ \E i \in L : ~IsSupport(ins[i])
    <3>1. CASE required
      BY <3>1
    <3>2. CASE ~required
      <4>1. PICK i \in L : n = Number(i)
        BY <1>5, <3>2
      <4> QED
        BY <1>2, <2>1, <4>1
    <3> QED
      BY <3>1, <3>2
  <2>2. ASSUME required PROVE \E n \in TaskNumbers(package) : n[2] = 2
    BY <1>3, <1>5, <2>2
  <2>3. ASSUME NEW i \in L, ~IsSupport(ins[i]) PROVE \E n \in TaskNumbers(package) : n[2] = 2
    <3>1. Number(i) \in TaskNumbers(package)
      BY <1>5
    <3>2. Number(i)[2] = 2
      BY <1>2, <2>3
    <3> QED
      BY <3>1, <3>2
  <2> QED
    BY <2>1, <2>2, <2>3
<1> QED
  BY <1>4, <1>6

\* The table has as many places as there are tasks.
LEMMA TableHasAll ==
  ASSUME NEW package, IsPackage(package), NEW table,
         table = PopTable(TaskPops(package), Columns(package.options))
  PROVE  SumOf([r \in DOMAIN table |-> Len(table[r].numbers)])
           = Len(Levelled(package.instances)) + (IF package.cds.required THEN 1 ELSE 0)
<1> DEFINE D == TaskPlaces(package)
           P == Places(table)
           n == Len(table)
           more == IF package.cds.required THEN 1 ELSE 0
           ins == package.instances
<1>1. /\ n \in Nat /\ DOMAIN table = 1..n
      /\ \A r \in 1..n : Len(table[r].numbers) \in Nat
      /\ \E place : PlacedIn(package, table, place)
  BY TableOfPackage
<1>2. PICK place : PlacedIn(package, table, place)
  BY <1>1
<1>3. place \in Surjection(D, P) /\ place \in Injection(D, P)
  BY <1>2 DEF PlacedIn, Bijection
<1>4. IsFiniteSet(D) /\ Cardinality(D) = Cardinality(LevelledAt(ins)) + more
  BY SizeOfTaskPlaces
<1>5. Len(Levelled(ins)) = Cardinality(LevelledAt(ins))
  BY LevelledAre
<1>6. SumOf([r \in DOMAIN table |-> Len(table[r].numbers)]) = Cardinality(P)
  <2> HIDE DEF n
  <2>1. Len(table) = n
    BY DEF n
  <2> QED
    BY <1>1, <2>1, LengthsAddUp
<1> HIDE DEF D, P
<1>7. IsFiniteSet(P)
  BY <1>3, <1>4, FS_Surjection
<1>8. Cardinality(P) = Cardinality(D) <=> place \in Injection(D, P)
  BY <1>3, <1>4, FS_Surjection
<1>9. Cardinality(P) = Cardinality(D)
  BY <1>3, <1>8
<1> QED
  BY <1>4, <1>5, <1>6, <1>9

\* The task of an instance is in the table once, or as often as there are portability
\* plans of its level, and is marked in the columns it is needed in.
LEMMA InstanceIsPlaced ==
  ASSUME NEW package, IsPackage(package), NEW table,
         table = PopTable(TaskPops(package), Columns(package.options)),
         NEW i \in DOMAIN Levelled(package.instances)
  PROVE  LET levelled == Levelled(package.instances)
             nth == Cardinality({j \in 1..i : Section(levelled[j]) = Section(levelled[i])})
             IsPlan == levelled[i].group = "PORTABILITY_PLAN"
             columns == NeededIn(levelled[i], package.options)
             alike == {j \in DOMAIN levelled : /\ Section(levelled[j]) = Section(levelled[i])
                                               /\ NeededIn(levelled[j], package.options) = columns}
             number == IF IsPlan THEN Section(levelled[i]) ELSE Append(Section(levelled[i]), nth)
             places == PlacesIn(number, table, Len(package.instances))
             marked == {p \in places : table[p[1]].marks = columns}
         IN /\ Cardinality(marked) = (IF IsPlan THEN Cardinality(alike) ELSE 1)
            /\ ~IsPlan => Cardinality(places) = 1
<1> DEFINE ins == package.instances
           options == package.options
           L == LevelledAt(ins)
           m == Cardinality(L)
           q == InOrder(L)
           levelled == Levelled(ins)
           D == TaskPlaces(package)
           a == q[i]
           nth == Cardinality({j \in 1..i : Section(levelled[j]) = Section(levelled[i])})
           IsPlan == levelled[i].group = "PORTABILITY_PLAN"
           columns == NeededIn(levelled[i], options)
           alike == {j \in DOMAIN levelled : /\ Section(levelled[j]) = Section(levelled[i])
                                             /\ NeededIn(levelled[j], options) = columns}
           number == IF IsPlan THEN Section(levelled[i]) ELSE Append(Section(levelled[i]), nth)
           places == PlacesIn(number, table, Len(ins))
           marked == {p \in places : table[p[1]].marks = columns}
<1>1. PICK place : PlacedIn(package, table, place)
  BY TableOfPackage
<1>2. /\ m \in Nat /\ DOMAIN levelled = 1..m
      /\ \A j \in 1..m : q[j] \in L /\ levelled[j] = ins[q[j]]
      /\ \A t \in L : \E j \in 1..m : q[j] = t
      /\ \A j, k \in 1..m : q[j] = q[k] => j = k
  BY LevelledInOrder
<1>3. /\ \A c, d \in D : place[c] = place[d] => c = d
      /\ \A t \in L : t \in D /\ table[place[t][1]].marks = NeededIn(ins[t], options)
  BY <1>1 DEF PlacedIn, Bijection, Injection, IsInjective, TaskPlaces
<1>4. PlacesIn(TaskNumber(ins[a], Nth(ins, a)), table, Len(ins)) = PlacesOfAll(place, SameTask(ins, a))
  <2>1. a \in L
    BY <1>2
  <2>2. \A t \in L : PlacesIn(TaskNumber(ins[t], Nth(ins, t)), table, Len(ins)) = PlacesOfAll(place, SameTask(ins, t))
    BY <1>1, PlacesOfTasks
  <2> HIDE DEF a, L, ins
  <2> QED
    BY <2>1, <2>2
<1>5. nth = Nth(ins, a)
  BY NthOfSection
<1>6. \A t \in L : IsInstance(ins[t]) /\ ins[t].level \in ToSet(ClassificationLevels) /\ Nth(ins, t) \in Nat
  BY PackageIs
<1>7. \A t : t \in SameTask(ins, a)
             <=> t \in L /\ Section(ins[t]) = Section(ins[a]) /\ (ins[a].group = "PORTABILITY_PLAN" \/ t = a)
  BY DEF SameTask
<1> HIDE DEF ins, options, L, m, q, levelled, D, nth
<1>8. i \in 1..m /\ a \in L /\ levelled[i] = ins[a]
  BY <1>2 DEF levelled, ins
<1>9. number = TaskNumber(ins[a], Nth(ins, a))
  <2> DEFINE x == ins[a]
             k == Nth(ins, a)
  <2>1. IsInstance(x) /\ x.level \in ToSet(ClassificationLevels) /\ k \in Nat
    BY <1>6, <1>8
  <2>2. levelled[i] = x /\ nth = k
    BY <1>5, <1>8
  <2> HIDE DEF x, k, a
  <2>3. /\ x.group = "PORTABILITY_PLAN" => TaskNumber(x, k) = Section(x)
        /\ x.group # "PORTABILITY_PLAN" => TaskNumber(x, k) = Append(Section(x), k)
    BY <2>1, TaskNumberIs
  <2>4. TaskNumber(x, k) = number
    BY <2>2, <2>3
  <2> QED
    BY <2>4 DEF x, k, a
<1>10. columns = NeededIn(ins[a], options)
  BY <1>8
<1> HIDE DEF number, columns, a
<1>11. \A p : p \in places <=> \E t \in SameTask(ins, a) : p = place[t]
  BY <1>4, <1>9 DEF PlacesOfAll
<1> HIDE DEF places
<1>12. \A p : p \in marked
              <=> \E t \in SameTask(ins, a) : p = place[t] /\ NeededIn(ins[t], options) = columns
  BY <1>3, <1>7, <1>11
<1>13. CASE IsPlan
  <2>1. \A t : t \in SameTask(ins, a) <=> t \in L /\ Section(ins[t]) = Section(ins[a])
    BY <1>7, <1>8, <1>13
  <2>2. \A j : j \in alike <=> /\ j \in 1..m /\ Section(ins[q[j]]) = Section(ins[a])
                               /\ NeededIn(ins[q[j]], options) = columns
    BY <1>2, <1>8
  <2> DEFINE f == [j \in alike |-> place[q[j]]]
  <2>3. IsFiniteSet(alike)
    <3>1. alike \in SUBSET (1..m) /\ IsFiniteSet(1..m)
      BY <1>2, IntervalSize
    <3> QED
      BY <3>1, FS_Subset
  <2> HIDE DEF alike, marked, IsPlan
  <2>4. \A j \in alike : f[j] = place[q[j]] /\ q[j] \in L /\ j \in 1..m
    BY <1>2, <2>2
  <2>5. \A j \in alike : f[j] \in marked
    BY <1>12, <2>1, <2>2, <2>4
  <2>6. \A j, k \in alike : f[j] = f[k] => j = k
    BY <1>2, <1>3, <2>4
  <2>7. ASSUME NEW p \in marked PROVE \E j \in alike : f[j] = p
    <3>1. PICK t \in SameTask(ins, a) : p = place[t] /\ NeededIn(ins[t], options) = columns
      BY <1>12
    <3>2. t \in L /\ Section(ins[t]) = Section(ins[a])
      BY <2>1
    <3>3. PICK j \in 1..m : q[j] = t
      BY <1>2, <3>2
    <3>4. j \in alike
      BY <2>2, <3>1, <3>2, <3>3
    <3> QED
      BY <2>4, <3>1, <3>3, <3>4
  <2> HIDE DEF f
  <2>8. Cardinality(marked) = Cardinality(alike)
    BY <2>3, <2>5, <2>6, <2>7, SameSize
  <2> QED
    BY <1>13, <2>8 DEF alike, marked, IsPlan, places, number, columns, levelled, ins, options, nth
<1>14. CASE ~IsPlan
  <2>1. \A t : t \in SameTask(ins, a) <=> t = a
    BY <1>7, <1>8, <1>14
  <2>2. places = {place[a]}
    BY <1>11, <2>1
  <2>3. marked = {place[a]}
    <3>1. \A p : p \in marked <=> p = place[a]
      BY <1>10, <1>12, <2>1
    <3> HIDE DEF marked
    <3> QED
      BY <3>1
  <2>4. Cardinality(places) = 1 /\ Cardinality(marked) = 1
    BY <2>2, <2>3, FS_Singleton
  <2> HIDE DEF marked, IsPlan
  <2> QED
    BY <1>14, <2>4 DEF alike, marked, IsPlan, places, number, columns, levelled, ins, options, nth
<1> QED
  BY <1>13, <1>14 DEF levelled, ins

\* The cross domain solution is in the table once, with the columns it is needed in, and
\* not at all if it is not required.
LEMMA CdsIsPlaced ==
  ASSUME NEW package, IsPackage(package), NEW table,
         table = PopTable(TaskPops(package), Columns(package.options))
  PROVE  LET places == PlacesIn(CdsNumber, table, Len(package.instances))
             columns == NeededIn(package.cds, package.options)
         IN IF package.cds.required
              THEN places # {} /\ {place \in places : table[place[1]].marks = columns} = places
              ELSE places = {}
<1> DEFINE places == PlacesIn(CdsNumber, table, Len(package.instances))
           required == package.cds.required
           columns == NeededIn(package.cds, package.options)
<1>1. PICK place : PlacedIn(package, table, place)
  BY TableOfPackage
<1>2. places = (IF required THEN {place[0]} ELSE {})
  BY <1>1, PlacesOfTasks
<1>3. required => table[place[0][1]].marks = columns
  BY <1>1 DEF PlacedIn
<1> HIDE DEF places, required, columns
<1>4. CASE required
  <2>1. places = {place[0]}
    BY <1>2, <1>4
  <2>2. {p \in places : table[p[1]].marks = columns} = places
    BY <1>3, <1>4, <2>1
  <2> QED
    BY <1>4, <2>1, <2>2 DEF places, required, columns
<1>5. CASE ~required
  BY <1>2, <1>5 DEF places, required
<1> QED
  BY <1>4, <1>5

-----------------------------------------------------------------------------
(***************************************************************************)
(* The inductive invariant, action by action.                              *)
(***************************************************************************)
\* The inductive invariant holds of an idle container.
LEMMA InitInvariant == Init => IInv
BY DEF Init, IInv, TypeOK, PayloadsMatchTypes, IsDowOfPackage, IsWorkbookOfEstimate, Made

\* A request is received where there was no answer.
LEMMA ReceiveInvariant == IInv /\ Receive => IInv'
<1> SUFFICES ASSUME IInv, Receive PROVE IInv'
  OBVIOUS
<1>1. response = NoAnswer /\ response' = NoAnswer
  BY DEF IInv, Receive
<1>2. IsRequest(request')
  BY RequestsAssumption DEF Receive
<1> QED
  BY <1>1, <1>2 DEF IInv, TypeOK, PayloadsMatchTypes, IsDowOfPackage, IsWorkbookOfEstimate, Made

\* After the answer is given the container is idle.
LEMMA ReplyInvariant == IInv /\ Reply => IInv'
BY DEF Reply, IInv, TypeOK, PayloadsMatchTypes, IsDowOfPackage, IsWorkbookOfEstimate, Made

\* What an answer has to be for the invariant, whoever gives it.
Deserved(status) ==
  IsFilled(request.type) =>
    /\ status = 200 =>
         \/ request.fields \subseteq SchemaOf(request.type)
         \/ request.type = "EVALUATION_PLAN" /\ request.fields \subseteq EvalMemo
    /\ (/\ request.fields = SchemaOf(request.type)
        /\ request.popComplete
        /\ ~PackageFails(request.package)
        /\ ~WorkbookFails(request.estimate))
       => status = 200

\* An answer that is deserved keeps the inductive invariant.
LEMMA AnswerInvariant ==
  ASSUME IInv, ~IsIdle, NEW status \in {200, 400, 500}, NEW document, Answer(status, document),
         document.kind \in Answers, status = 200 <=> document.kind # "error", Deserved(status),
         document.kind = "dow" => document = DowDocument(request.package),
         document.kind = "igce" => /\ document.workbook = Workbook(request.estimate)
                                   /\ ~WorkbookFails(request.estimate)
  PROVE  IInv'
<1>1. response' = [status |-> status, document |-> document] /\ request' = request
  BY DEF Answer
<1>2. response'.status = status /\ response'.document = document
  BY <1>1
<1>3. request # Idle
  BY DEF IsIdle, Idle
<1>4. TypeOK'
  BY <1>1, <1>2, <1>3 DEF IInv, TypeOK, Idle, Answers
<1>5. ~IsIdle'
  BY <1>1 DEF IsIdle
<1>6. PayloadsMatchTypes'
  BY <1>1, <1>2 DEF PayloadsMatchTypes, Deserved
<1>7. IsDowOfPackage'
  BY <1>1, <1>2 DEF IsDowOfPackage, Made
<1>8. IsWorkbookOfEstimate'
  BY <1>1, <1>2 DEF IsWorkbookOfEstimate, Made
<1> QED
  BY <1>4, <1>5, <1>6, <1>7, <1>8 DEF IInv

\* So does an error.
LEMMA FailInvariant ==
  ASSUME IInv, ~IsIdle, NEW status \in {400, 500}, Fail(status), Deserved(status)
  PROVE  IInv'
<1> DEFINE document == [kind |-> "error"]
<1>1. document.kind = "error" /\ document.kind \in Answers
  BY DEF Answers
<1>2. Answer(status, document)
  BY DEF Fail
<1> HIDE DEF document
<1> QED
  BY <1>1, <1>2, AnswerInvariant

\* The payload of the type itself is valid and has all that the template may read.
LEMMA OwnPayloadIsRead ==
  ASSUME IsFilled(request.type), request.fields = SchemaOf(request.type),
         NEW more \in {{}, MayNeed(request.type)}
  PROVE  Validates(request) /\ Reads(more) /\ ~Refuses(request.type, request.fields)
<1>1. request.type \in DocumentTypes
  BY DEF IsFilled
<1>2. Validates(request)
  BY <1>1 DEF Validates
<1>3. Reads(more)
  BY SchemaHasEverything DEF Reads
<1> QED
  BY <1>2, <1>3, SchemaHasEverything

\* A payload that is valid and has what the template reads deserves its document.
LEMMA ReadPayloadIsDeserved ==
  ASSUME Validates(request), NEW more, Reads(more)
  PROVE  Deserved(200)
<1> SUFFICES ASSUME IsFilled(request.type)
             PROVE  \/ request.fields \subseteq SchemaOf(request.type)
                    \/ request.type = "EVALUATION_PLAN" /\ request.fields \subseteq EvalMemo
  BY DEF Deserved
<1>1. PICK fitted \in DocumentTypes : request.fields \subseteq SchemaOf(fitted)
  BY DEF Validates
<1>2. Needs(request.type) \subseteq request.fields
  BY DEF Reads
<1> QED
  BY <1>1, <1>2, NeedsTellTheSchema

\* A request that is rejected was not a complete payload of its type.
LEMMA RejectInvariant == IInv /\ Reject => IInv'
<1> SUFFICES ASSUME IInv, Reject PROVE IInv'
  OBVIOUS
<1>1. ~(IsFilled(request.type) /\ request.fields = SchemaOf(request.type))
  BY OwnPayloadIsRead DEF Reject, IsFilled, DocumentTypes
<1>2. Deserved(400)
  BY <1>1 DEF Deserved
<1> QED
  BY <1>2, FailInvariant DEF Reject

\* The PDF of a Description of Work is made or fails whatever the payload says.
LEMMA GeneratePdfInvariant == IInv /\ GeneratePdf => IInv'
<1> SUFFICES ASSUME IInv, GeneratePdf PROVE IInv'
  OBVIOUS
<1>1. ~IsIdle /\ Deserved(200) /\ Deserved(500)
  BY DEF GeneratePdf, Waiting, Deserved, IsFilled
<1>2. CASE Answer(200, [kind |-> "pdf"])
  <2> DEFINE document == [kind |-> "pdf"]
  <2>1. document.kind = "pdf" /\ document.kind \in Answers /\ Answer(200, document)
    BY <1>2 DEF Answers
  <2> HIDE DEF document
  <2> QED
    BY <1>1, <2>1, AnswerInvariant
<1>3. CASE Fail(500)
  BY <1>1, <1>3, FailInvariant
<1> QED
  BY <1>2, <1>3 DEF GeneratePdf

\* A workbook is made from the payload of an estimate.
LEMMA GenerateXlsxInvariant == IInv /\ GenerateXlsx => IInv'
<1> SUFFICES ASSUME IInv, GenerateXlsx PROVE IInv'
  OBVIOUS
<1>1. /\ ~IsIdle /\ Validates(request)
      /\ request.type = "INDEPENDENT_GOVERNMENT_COST_ESTIMATE"
      /\ request.type \in WorkbookTemplates
  BY DEF GenerateXlsx, Waiting, WorkbookTemplates
<1>2. CASE Reads({}) /\ ~WorkbookFails(request.estimate)
  <2> DEFINE document == [kind |-> "igce", workbook |-> Workbook(request.estimate)]
  <2>1. /\ document.kind = "igce" /\ document.kind \in Answers
        /\ document.workbook = Workbook(request.estimate)
    BY DEF Answers
  <2>2. Answer(200, document)
    BY <1>1, <1>2 DEF GenerateXlsx
  <2>3. Deserved(200)
    BY <1>1, <1>2, ReadPayloadIsDeserved
  <2> HIDE DEF document
  <2> QED
    BY <1>1, <1>2, <2>1, <2>2, <2>3, AnswerInvariant
<1>3. CASE ~(Reads({}) /\ ~WorkbookFails(request.estimate))
  <2>1. Fail(500)
    BY <1>3 DEF GenerateXlsx
  <2>2. Deserved(500)
    BY <1>3, OwnPayloadIsRead DEF Deserved
  <2> QED
    BY <1>1, <2>1, <2>2, FailInvariant
<1> QED
  BY <1>2, <1>3

\* A Description of Work is that of the package in the container.
LEMMA GenerateDowInvariant == IInv /\ GenerateDow => IInv'
<1> SUFFICES ASSUME IInv, GenerateDow PROVE IInv'
  OBVIOUS
<1>1. ~IsIdle /\ Validates(request) /\ request.type = "DESCRIPTION_OF_WORK_DOCX"
  BY DEF GenerateDow, Waiting
<1> DEFINE Complete(more) == /\ request.type \in WordTemplates
                             /\ Reads(more) /\ request.popComplete /\ ~PackageFails(request.package)
           document == DowDocument(request.package)
<1>2. PICK more \in {{}, MayNeed(request.type)} :
         IF Complete(more) THEN Answer(200, document) ELSE Fail(500)
  BY DEF GenerateDow
<1>3. CASE Complete(more)
  <2>1. /\ document.kind \in Answers /\ document.kind = "dow"
        /\ document = DowDocument(request.package)
    BY DEF DowDocument, Answers
  <2>2. Deserved(200)
    BY <1>1, <1>3, ReadPayloadIsDeserved
  <2> HIDE DEF document
  <2>3. Answer(200, document)
    BY <1>2, <1>3
  <2> QED
    BY <1>1, <2>1, <2>2, <2>3, AnswerInvariant
<1>4. CASE ~Complete(more)
  <2>1. request.type \in WordTemplates
    BY <1>1 DEF WordTemplates
  <2>2. Deserved(500)
    BY <1>2, <1>4, <2>1, OwnPayloadIsRead DEF Deserved
  <2>3. Fail(500)
    BY <1>2, <1>4
  <2> QED
    BY <1>1, <2>2, <2>3, FailInvariant
<1> QED
  BY <1>3, <1>4

\* A Word document is made from a payload that has what its template reads.
LEMMA GenerateWordInvariant == IInv /\ GenerateWord => IInv'
<1> SUFFICES ASSUME IInv, GenerateWord PROVE IInv'
  OBVIOUS
<1>1. /\ Validates(request) /\ IsFilled(request.type)
      /\ request.type \in WordTemplates
  BY DEF GenerateWord, DocumentTypes, IsFilled, WordTemplates
<1>2. ~IsIdle
  BY <1>1 DEF IsIdle, WordTemplates
<1> DEFINE Complete(more) == /\ request.type \in WordTemplates
                             /\ Reads(more)
                             /\ request.type \in HasPopText => request.popComplete
           document == [kind |-> "word"]
<1>3. CASE Refuses(request.type, request.fields) /\ Fail(400)
  <2>1. Deserved(400)
    BY <1>3, OwnPayloadIsRead DEF Deserved
  <2> QED
    BY <1>2, <1>3, <2>1, FailInvariant
<1>4. CASE ~(Refuses(request.type, request.fields) /\ Fail(400))
  <2>1. PICK more \in {{}, MayNeed(request.type)} :
           IF Complete(more) THEN Answer(200, document) ELSE Fail(500)
    BY <1>4 DEF GenerateWord
  <2>2. CASE Complete(more)
    <3>1. document.kind = "word" /\ document.kind \in Answers
      BY DEF Answers
    <3>2. Deserved(200)
      BY <1>1, <2>2, ReadPayloadIsDeserved
    <3> HIDE DEF document
    <3>3. Answer(200, document)
      BY <2>1, <2>2
    <3> QED
      BY <1>2, <3>1, <3>2, <3>3, AnswerInvariant
  <2>3. CASE ~Complete(more)
    <3>1. Deserved(500)
      BY <1>1, <2>1, <2>3, OwnPayloadIsRead DEF Deserved
    <3>2. Fail(500)
      BY <2>1, <2>3
    <3> QED
      BY <1>2, <3>1, <3>2, FailInvariant
  <2> QED
    BY <2>2, <2>3
<1> QED
  BY <1>3, <1>4

\* The inductive invariant holds in every state of every container.
THEOREM Invariance == Spec => []IInv
<1>1. IInv /\ [Next]_vars => IInv'
  <2> SUFFICES ASSUME IInv, [Next]_vars PROVE IInv'
    OBVIOUS
  <2>1. CASE UNCHANGED vars
    BY <2>1 DEF vars, IInv, TypeOK, PayloadsMatchTypes, IsDowOfPackage, IsWorkbookOfEstimate, Made, IsIdle
  <2> QED
    BY <2>1, ReceiveInvariant, RejectInvariant, GeneratePdfInvariant, GenerateXlsxInvariant,
       GenerateDowInvariant, GenerateWordInvariant, ReplyInvariant
       DEF Next
<1> QED
  BY InitInvariant, <1>1, PTL DEF Spec

\* A container of generate-document.ts holds one request and at most one answer, with
\* one of the three statuses, and a document if and only if the status says so.
THEOREM TypeCorrectness == Spec => []TypeOK
<1>1. IInv => TypeOK
  BY DEF IInv
<1> QED
  BY Invariance, <1>1, PTL

\* A document is made only from a payload of its own type (or a plan from a memo's),
\* although the validator accepts any type with any payload, because every template
\* needs a field that tells the schemas apart; and no complete payload is refused.
THEOREM MadeFromOwnPayload == Spec => []PayloadsMatchTypes
<1>1. IInv => PayloadsMatchTypes
  BY DEF IInv
<1> QED
  BY Invariance, <1>1, PTL

-----------------------------------------------------------------------------
(***************************************************************************)
(* The sections of a Description of Work, as the container gives it.       *)
(***************************************************************************)
\* The document of a container with an answer is that of a package of a request.
LEMMA DowIsMadeFrom ==
  ASSUME IInv, Made("dow")
  PROVE  IsPackage(request.package) /\ response.document = DowDocument(request.package)
<1>1. response # NoAnswer
  BY DEF Made
<1>2. IsRequest(request)
  BY <1>1 DEF IInv, TypeOK
<1> QED
  BY <1>2 DEF IInv, IsDowOfPackage, IsRequest

\* What the sections of a Description of Work are made by.
LEMMA DowSections ==
  ASSUME NEW package
  PROVE  LET document == DowDocument(package)
             columns == Columns(package.options)
         IN /\ document.popPeriods = OptionGroups(package.options)
            /\ document.hasXaas = HasXaas(package)
            /\ document.columns = columns
            /\ document.table = PopTable(TaskPops(package), columns)
            /\ document.cdrls = Cdrls(AllPopTasks(TaskPops(package)), package.contract)
            /\ document.sr = SecurityRequirements(package)
BY DEF DowDocument

\* The table of a package has the numbers of its tasks, and so has the list that the
\* data requirements are read off.
LEMMA NumbersOfSections ==
  ASSUME NEW package, IsPackage(package)
  PROVE  LET all == AllPopTasks(TaskPops(package))
         IN /\ TableNumbers(PopTable(TaskPops(package), Columns(package.options))) = TaskNumbers(package)
            /\ {all[i] : i \in DOMAIN all} = TaskNumbers(package)
<1> DEFINE pops == TaskPops(package)
           columns == Columns(package.options)
           all == AllPopTasks(pops)
           N == Seq(Nat)
           numbers == {pops[i].number : i \in 1..Len(pops)}
<1>1. pops \in Seq(PopsOf(N))
  BY TaskPopsAre DEF TaskPop
<1>2. ToSet(columns) \subseteq Nat
  BY ColumnsAreNumbers
<1>3. numbers = TaskNumbers(package)
  BY NumbersOfTaskPops
<1> HIDE DEF pops, columns, N, all
<1>4. TableNumbers(PopTable(pops, columns)) = numbers
  BY <1>1, <1>2, TableNumbersAre
<1>5. ToSet(all) = numbers
  BY <1>1, AllPopTasksAre DEF all
<1> QED
  BY <1>3, <1>4, <1>5 DEF ToSet, pops, columns, all

\* What a container with a Description of Work knows of its table.
LEMMA ExactTable == IInv => PopTableIsExact
<1> SUFFICES ASSUME IInv, Made("dow") PROVE PopTableIsExact
  BY DEF PopTableIsExact
<1> DEFINE package == request.package
           table == response.document.table
           n == Len(package.instances)
           levelled == Levelled(package.instances)
           NthOf(i) == Cardinality({j \in 1..i : Section(levelled[j]) = Section(levelled[i])})
           Marked(places, columns) == {place \in places : table[place[1]].marks = columns}
           IsPlan(i) == levelled[i].group = "PORTABILITY_PLAN"
           Needed(i) == NeededIn(levelled[i], package.options)
           Alike(i) == {j \in DOMAIN levelled : /\ Section(levelled[j]) = Section(levelled[i])
                                                /\ NeededIn(levelled[j], package.options) = Needed(i)}
           Number(i) == IF IsPlan(i) THEN Section(levelled[i]) ELSE Append(Section(levelled[i]), NthOf(i))
           PlacesAt(i) == PlacesIn(Number(i), table, n)
<1>1. IsPackage(package) /\ response.document = DowDocument(package)
  BY DowIsMadeFrom
<1>2. /\ table = PopTable(TaskPops(package), Columns(package.options))
      /\ response.document.hasXaas = HasXaas(package)
  BY <1>1, DowSections
<1>3. TableNumbers(table) = TaskNumbers(package)
  BY <1>1, <1>2, NumbersOfSections
<1>4. ASSUME NEW i \in DOMAIN levelled
      PROVE  /\ Cardinality(Marked(PlacesAt(i), Needed(i))) = (IF IsPlan(i) THEN Cardinality(Alike(i)) ELSE 1)
             /\ ~IsPlan(i) => Cardinality(PlacesAt(i)) = 1
  BY <1>1, <1>2, InstanceIsPlaced
<1>5. LET places == PlacesIn(CdsNumber, table, n)
      IN IF package.cds.required
           THEN places # {} /\ Marked(places, NeededIn(package.cds, package.options)) = places
           ELSE places = {}
  BY <1>1, <1>2, CdsIsPlaced
<1>6. HasXaas(package) <=> \E number \in TableNumbers(table) : number[2] = 2
  <2>1. HasXaas(package) <=> \E number \in TaskNumbers(package) : number[2] = 2
    BY <1>1, XaasIsTold
  <2> QED
    BY <1>3, <2>1
<1>7. SumOf([r \in DOMAIN table |-> Len(table[r].numbers)]) = Len(levelled) + (IF package.cds.required THEN 1 ELSE 0)
  BY <1>1, <1>2, TableHasAll
<1>8. \A number : PlacesOf(number, table) = PlacesIn(number, table, n)
  BY DEF PlacesOf, PlacesIn
<1>9. \A i \in DOMAIN levelled :
        LET places == PlacesOf(Number(i), table)
        IN /\ Cardinality(Marked(places, Needed(i))) = (IF IsPlan(i) THEN Cardinality(Alike(i)) ELSE 1)
           /\ ~IsPlan(i) => Cardinality(places) = 1
  BY <1>4, <1>8, Zenon
<1>10. LET places == PlacesOf(CdsNumber, table)
       IN IF package.cds.required
           THEN places # {} /\ Marked(places, NeededIn(package.cds, package.options)) = places
           ELSE places = {}
  <2>1. PlacesOf(CdsNumber, table) = PlacesIn(CdsNumber, table, n)
    BY <1>8
  <2> QED
    BY <1>5, <2>1
<1>11. response.document.hasXaas <=> \E number \in TableNumbers(table) : number[2] = 2
  BY <1>2, <1>6, Zenon
<1> QED
  BY <1>7, <1>9, <1>10, <1>11, Zenon DEF PopTableIsExact

\* Section 7 of a Description of Work agrees with section 4, for every package: through
\* the sorting, the numbering and the grouping of getTaskPeriods each task comes to a
\* place of its own in the PoP table, in a row with the periods it is needed in.
THEOREM TableIsExact == Spec => []PopTableIsExact
BY Invariance, ExactTable, PTL

\* The text on the period of performance of doGenerate counts every option period
\* once, in the order of the columns that getPeriods gives the PoP table, and
\* joins exactly the neighbours of one length.
THEOREM TextAndTableAgree == Spec => []PopTextMatchesTable
<1>1. IInv => PopTextMatchesTable
  <2> SUFFICES ASSUME IInv, Made("dow") PROVE PopTextMatchesTable
    BY DEF PopTextMatchesTable
  <2> DEFINE package == request.package
             options == package.options
  <2>1. IsPackage(package) /\ response.document = DowDocument(package)
    BY DowIsMadeFrom
  <2>2. AreOptions(options)
    BY <2>1 DEF IsPackage
  <2>3. /\ response.document.popPeriods = OptionGroups(options)
        /\ response.document.columns = Columns(options)
    BY <2>1, DowSections
  <2>4. LET groups == OptionGroups(options)
            InColumn(k) == CHOOSE o \in ToSet(options) :
                             Cardinality({q \in ToSet(options) : q.order <= o.order}) = k
        IN /\ Columns(options) = [c \in 1..Len(options) + 1 |-> c - 1]
           /\ FlattenSeq(groups) = [k \in DOMAIN options |-> InColumn(k)]
           /\ \A g \in DOMAIN groups : \A i \in DOMAIN groups[g] :
                groups[g][i].length = groups[g][1].length
           /\ \A g \in 1..Len(groups) - 1 : groups[g][1].length # groups[g + 1][1].length
    <3> HIDE DEF options
    <3> QED
      BY <2>2, TextMatchesTable
  <2> QED
    BY <2>3, <2>4, Zenon DEF PopTextMatchesTable
<1> QED
  BY Invariance, <1>1, PTL

\* The data requirements that getCDRLs reads off the cut task numbers are those that
\* the instances of the package call for.
THEOREM DataRequirements == Spec => []CdrlsMatchPackage
<1>1. IInv => CdrlsMatchPackage
  <2> SUFFICES ASSUME IInv, Made("dow") PROVE CdrlsMatchPackage
    BY DEF CdrlsMatchPackage
  <2> DEFINE package == request.package
             numbers == AllPopTasks(TaskPops(package))
  <2>1. IsPackage(package) /\ response.document = DowDocument(package)
    BY DowIsMadeFrom
  <2>2. response.document.cdrls = Cdrls(numbers, package.contract)
    BY <2>1, DowSections
  <2>3. {numbers[i] : i \in DOMAIN numbers} = TaskNumbers(package)
    BY <2>1, NumbersOfSections
  <2> HIDE DEF numbers
  <2>4. LET levelled == ToSet(Levelled(package.instances))
            LevelsOf(groups) == {Position(x.level, ClassificationLevels) : x \in
                                   {y \in levelled : y.group \in groups}}
            ClinsAt(levels, more) ==
              (IF package.contract.firmFixedPrice THEN {FfpClins[l] + more : l \in levels} ELSE {})
              \cup (IF package.contract.timeAndMaterials THEN {TmClins[l] + more : l \in levels} ELSE {})
            Required(code, groups, tasks, more) ==
              LET clins == ClinsAt(LevelsOf(groups), more)
              IN IF clins = {} THEN {} ELSE {[code |-> code, tasks |-> tasks, clins |-> clins]}
            Trained == {<<4, 3, l, 3>> : l \in LevelsOf({"TRAINING"})}
        IN Cdrls(numbers, package.contract) =
             Required("A004", {"TRAINING"}, Trained, 1)
             \cup Required("A005", {"TRAINING"}, Trained, 1)
             \cup Required("A012", ToSet(XaasServiceGroups), {<<"ANY">>}, 0)
             \cup Required("A006", {"PORTABILITY_PLAN"},
                           {<<4, 3, l>> : l \in LevelsOf({"PORTABILITY_PLAN"})}, 0)
             \cup Required("A017", {"EDGE_COMPUTING"},
                           {<<4, 2, l, 9>> : l \in LevelsOf({"EDGE_COMPUTING"})}, 0)
    <3> HIDE DEF package
    <3> QED
      BY <2>1, <2>3, CdrlsMatch
  <2> QED
    BY <2>2, <2>4, ZenonT(60) DEF CdrlsMatchPackage
<1> QED
  BY Invariance, <1>1, PTL

\* The security section has the parts of exactly the classified tasks of the PoP
\* table, and they name the types of information of their services.
THEOREM SecuritySection == Spec => []SecurityCoversTasks
<1>1. IInv => SecurityCoversTasks
  <2> SUFFICES ASSUME IInv, Made("dow") PROVE SecurityCoversTasks
    BY DEF SecurityCoversTasks
  <2> DEFINE package == request.package
             numbers == TableNumbers(response.document.table)
  <2>1. IsPackage(package) /\ response.document = DowDocument(package)
    BY DowIsMadeFrom
  <2>2. response.document.sr = SecurityRequirements(package)
    BY <2>1, DowSections
  <2>3. numbers = TaskNumbers(package)
    BY <2>1, DowSections, NumbersOfSections
  <2> HIDE DEF numbers
  <2>4. LET sr == SecurityRequirements(package)
            classes == {TaskClass(n) : n \in {t \in numbers : t # CdsNumber /\ ~IsOwnArrayTask(t)}} \ {"U"}
            Listed(group, class) ==
              IF class = "TS" THEN sr.types[group].ts ELSE sr.types[group].secret
        IN /\ classes # {} => sr.needed
           /\ sr.offering \cup sr.support = classes
           /\ \A x \in ToSet(package.instances) :
                x.group \in NamedGroups /\ Class(x) \in Classified => x.info \subseteq Listed(x.group, Class(x))
    BY <2>1, <2>3, SecurityCovers
  <2> QED
    BY <2>2, <2>4 DEF SecurityCoversTasks, numbers
<1> QED
  BY Invariance, <1>1, PTL

-----------------------------------------------------------------------------
(***************************************************************************)
(* The workbook of a cost estimate: its arrays, sorted.                    *)
(***************************************************************************)
\* The elements of an array at the places of a permutation.
LEMMA PermutationIs ==
  ASSUME NEW T, NEW seq \in Seq(T), NEW p \in Bijection(DOMAIN seq, DOMAIN seq)
  PROVE  /\ Picked(seq, p) = [k \in 1..Len(seq) |-> seq[p[k]]]
         /\ Picked(seq, p) \in Seq(T) /\ Len(Picked(seq, p)) = Len(seq)
         /\ ToSet(Picked(seq, p)) = ToSet(seq)
<1> DEFINE n == Len(seq)
           new == [k \in 1..n |-> seq[p[k]]]
<1>1. n \in Nat /\ DOMAIN seq = 1..n /\ \A i \in 1..n : seq[i] \in T
  OBVIOUS
<1>2. p \in [1..n -> 1..n] /\ \A k \in 1..n : \E i \in 1..n : p[i] = k
  BY <1>1 DEF Bijection, Surjection
<1>3. Picked(seq, p) = new
  BY <1>2 DEF Picked
<1>4. new \in Seq(T) /\ Len(new) = n /\ DOMAIN new = 1..n
  BY <1>1, <1>2
<1>5. \A k \in 1..n : new[k] = seq[p[k]]
  OBVIOUS
<1> HIDE DEF new, n
<1>6. ToSet(new) = ToSet(seq)
  <2>1. ASSUME NEW x \in ToSet(new) PROVE x \in ToSet(seq)
    <3>1. PICK k \in 1..n : x = new[k]
      BY <1>4 DEF ToSet
    <3>2. p[k] \in 1..n /\ x = seq[p[k]]
      BY <1>2, <1>5, <3>1
    <3> QED
      BY <1>1, <3>2 DEF ToSet
  <2>2. ASSUME NEW x \in ToSet(seq) PROVE x \in ToSet(new)
    <3>1. PICK i \in 1..n : x = seq[i]
      BY <1>1 DEF ToSet
    <3>2. PICK k \in 1..n : p[k] = i
      BY <1>2
    <3>3. x = new[k]
      BY <1>5, <3>1, <3>2
    <3> QED
      BY <1>4, <3>3 DEF ToSet
  <2> QED
    BY <2>1, <2>2
<1> QED
  BY <1>3, <1>4, <1>6 DEF n, new

\* The periods by their order.
LEMMA ByOrderIs ==
  ASSUME NEW T, NEW seq \in Seq(T), \A i \in DOMAIN seq : seq[i].order \in Nat
  PROVE  ByOrder(seq) \in Seq(T) /\ ToSet(ByOrder(seq)) = ToSet(seq)
<1> DEFINE D == DOMAIN seq
           P(p) == \A i, j \in D : i < j => seq[p[i]].order <= seq[p[j]].order
           places == CHOOSE p \in Bijection(D, D) : P(p)
           f == [i \in D |-> seq[i].order]
<1>1. Len(seq) \in Nat /\ D = 1..Len(seq)
  OBVIOUS
<1>2. ByOrder(seq) = Picked(seq, places)
  BY Zenon DEF ByOrder, Sorted
<1>3. f \in [D -> Nat] /\ \A i \in D : f[i] = seq[i].order
  OBVIOUS
<1> HIDE DEF f, D
<1>4. PICK p \in Bijection(D, D) : \A i, j \in D : i < j => f[p[i]] <= f[p[j]]
  BY <1>1, <1>3, SortingPlaces
<1>5. P(p)
  <2>1. p \in [D -> D]
    BY DEF Bijection, Injection
  <2> QED
    BY <1>3, <1>4, <2>1
<1> HIDE DEF P
<1>6. places \in Bijection(D, D)
  BY <1>5
<1> HIDE DEF places
<1> QED
  BY <1>2, <1>6, PermutationIs DEF D

ClinValues == [code : Nat, padded : BOOLEAN]

\* A number for each CLIN, in the order of localeCompare.
ClinKey(clin) == 2 * clin.code + (IF clin.padded THEN 1 ELSE 0)

\* The numbers have that order.
LEMMA ClinKeyOrders ==
  ASSUME NEW a \in ClinValues, NEW b \in ClinValues
  PROVE  ClinKey(a) \in Nat /\ (ClinKey(a) <= ClinKey(b) => ClinBefore(a, b))
<1>1. a.code \in Nat /\ b.code \in Nat /\ a.padded \in BOOLEAN /\ b.padded \in BOOLEAN
  BY DEF ClinValues
<1> QED
  BY <1>1 DEF ClinKey, ClinBefore

\* The line items by their CLINs.
LEMMA ByClinIs ==
  ASSUME NEW T, NEW seq \in Seq(T), \A i \in DOMAIN seq : seq[i].clin \in ClinValues
  PROVE  \E p \in Bijection(DOMAIN seq, DOMAIN seq) : ByClin(seq) = Picked(seq, p)
<1> DEFINE D == DOMAIN seq
           P(p) == \A i, j \in D : i < j => ClinBefore(seq[p[i]].clin, seq[p[j]].clin)
           places == CHOOSE p \in Bijection(D, D) : P(p)
           f == [i \in D |-> ClinKey(seq[i].clin)]
<1>1. Len(seq) \in Nat /\ D = 1..Len(seq)
  OBVIOUS
<1>2. ByClin(seq) = Picked(seq, places)
  BY Zenon DEF ByClin, Sorted
<1>3. f \in [D -> Nat] /\ \A i \in D : f[i] = ClinKey(seq[i].clin)
  BY ClinKeyOrders
<1> HIDE DEF f, D
<1>4. PICK p \in Bijection(D, D) : \A i, j \in D : i < j => f[p[i]] <= f[p[j]]
  BY <1>1, <1>3, SortingPlaces
<1>5. P(p)
  <2>1. p \in [D -> D]
    BY DEF Bijection, Injection
  <2> SUFFICES ASSUME NEW i \in D, NEW j \in D, i < j
               PROVE  ClinBefore(seq[p[i]].clin, seq[p[j]].clin)
    OBVIOUS
  <2>2. p[i] \in D /\ p[j] \in D /\ f[p[i]] <= f[p[j]]
    BY <1>4, <2>1
  <2>3. seq[p[i]].clin \in ClinValues /\ seq[p[j]].clin \in ClinValues
    BY <2>2 DEF D
  <2> QED
    BY <1>3, <2>2, <2>3, ClinKeyOrders
<1> HIDE DEF P
<1>6. places \in Bijection(D, D)
  BY <1>5
<1> QED
  BY <1>2, <1>6 DEF D

\* CLINs by themselves.
LEMMA SortedClinsAre ==
  ASSUME NEW seq \in Seq(ClinValues)
  PROVE  \E p \in Bijection(DOMAIN seq, DOMAIN seq) : Sorted(seq, ClinBefore) = Picked(seq, p)
<1> DEFINE D == DOMAIN seq
           P(p) == \A i, j \in D : i < j => ClinBefore(seq[p[i]], seq[p[j]])
           places == CHOOSE p \in Bijection(D, D) : P(p)
           f == [i \in D |-> ClinKey(seq[i])]
<1>1. Len(seq) \in Nat /\ D = 1..Len(seq) /\ \A i \in D : seq[i] \in ClinValues
  OBVIOUS
<1>2. Sorted(seq, ClinBefore) = Picked(seq, places)
  BY Zenon DEF Sorted
<1>3. f \in [D -> Nat] /\ \A i \in D : f[i] = ClinKey(seq[i])
  BY <1>1, ClinKeyOrders
<1> HIDE DEF f, D
<1>4. PICK p \in Bijection(D, D) : \A i, j \in D : i < j => f[p[i]] <= f[p[j]]
  BY <1>1, <1>3, SortingPlaces
<1>5. P(p)
  <2>1. p \in [D -> D]
    BY DEF Bijection, Injection
  <2> SUFFICES ASSUME NEW i \in D, NEW j \in D, i < j
               PROVE  ClinBefore(seq[p[i]], seq[p[j]])
    OBVIOUS
  <2>2. p[i] \in D /\ p[j] \in D /\ f[p[i]] <= f[p[j]]
    BY <1>4, <2>1
  <2> QED
    BY <1>1, <1>3, <2>2, ClinKeyOrders
<1> HIDE DEF P
<1>6. places \in Bijection(D, D)
  BY <1>5
<1> QED
  BY <1>2, <1>6 DEF D

\* A sequence without repetitions is as long as the set of its elements is large.
LEMMA SizeOfDifferent ==
  ASSUME NEW m \in Nat, NEW d, NEW S, \A a \in 1..m : d[a] \in S,
         \A a, b \in 1..m : d[a] = d[b] => a = b,
         \A x \in S : \E a \in 1..m : d[a] = x
  PROVE  IsFiniteSet(S) /\ Cardinality(S) = m
<1> DEFINE I == 1..m
<1>1. IsFiniteSet(I) /\ Cardinality(I) = m
  BY IntervalSize
<1>2. /\ \A a \in I : d[a] \in S
      /\ \A a, b \in I : d[a] = d[b] => a = b
      /\ \A x \in S : \E a \in I : d[a] = x
  OBVIOUS
<1> HIDE DEF I
<1> QED
  BY <1>1, <1>2, SameSize

\* Nothing adds up to nothing.
LEMMA SumOfNothing ==
  ASSUME NEW n \in Nat, NEW s, DOMAIN s = 1..n, \A k \in 1..n : s[k] = 0
  PROVE  SumOf(s) = 0
<1> DEFINE C == [k \in 1..n |-> Row(k, s[k])]
<1>1. AreSizes(C, s, n)
  BY RowSizes
<1>2. \A k \in 1..n : C[k] = {}
  BY DEF Row
<1> HIDE DEF C
<1>3. AllOf(C, n) = {}
  BY <1>2 DEF AllOf
<1> QED
  BY <1>1, <1>3, SumIsSize, FS_EmptySet

\* The fields of a line item.
LEMMA ItemIs ==
  ASSUME NEW item, IsItem(item)
  PROVE  item.clin \in ClinValues /\ Cost(item) \in Nat
BY DEF IsItem, Cost, ClinValues

\* CLINs without spaces around them are told apart by their codes.
LEMMA CodesTell ==
  ASSUME NEW a \in ClinValues, NEW b \in ClinValues, ~a.padded, ~b.padded
  PROVE  a = b <=> a.code = b.code
BY DEF ClinValues

\* What the line items under a CLIN add.
Added(items, clin) == [i \in DOMAIN items |-> IF items[i].clin.code = clin.code THEN Cost(items[i]) ELSE 0]

\* A SUMIF over the sorted line items has what the payload prices under the CLIN: all
\* of them stand above the lines.
LEMMA SumIfIs ==
  ASSUME NEW raw, IsArray(raw), \A i \in DOMAIN raw : IsItem(raw[i]) /\ ~raw[i].clin.padded,
         NEW clin \in ClinValues, ~clin.padded,
         NEW p \in Bijection(DOMAIN raw, DOMAIN raw)
  PROVE  LET items == Picked(raw, p)
         IN SumIf(items, clin, ClinStart(items)) = SumOf(Added(raw, clin))
<1> DEFINE n == Len(raw)
           items == Picked(raw, p)
           start == ClinStart(items)
           s == Added(raw, clin)
           t == [i \in DOMAIN items |->
                   IF TopStartRow + i - 1 < start /\ items[i].clin = clin THEN Cost(items[i]) ELSE 0]
           T == ToSet(raw)
<1>1. n \in Nat /\ DOMAIN raw = 1..n /\ raw \in Seq(T)
  BY ArrayIs DEF IsArray
<1>2. p \in Bijection(1..n, 1..n) /\ p \in [1..n -> 1..n]
  BY <1>1 DEF Bijection, Injection
<1>3. /\ items = [k \in 1..n |-> raw[p[k]]] /\ Len(items) = n
  <2> HIDE DEF T
  <2> QED
    BY <1>1, PermutationIs
<1>4. DOMAIN items = 1..n /\ \A k \in 1..n : items[k] = raw[p[k]]
  BY <1>3
<1> HIDE DEF items, n
<1>5. start \in Nat /\ start >= TopStartRow + n /\ TopStartRow \in Nat
  BY <1>1, <1>3, IgceAssumption DEF ClinStart, BottomStartRow, RowsToAdd, TopStartRow
<1> HIDE DEF start
<1>6. DOMAIN s = 1..n
  BY <1>1 DEF Added
<1>7. \A k \in 1..n : s[k] = IF raw[k].clin.code = clin.code THEN Cost(raw[k]) ELSE 0
  BY <1>1 DEF Added
<1>8. \A k \in 1..n : s[k] \in Nat
  BY <1>1, <1>7, ItemIs
<1>9. DOMAIN t = 1..n
  BY <1>4
<1>10. ASSUME NEW k \in 1..n PROVE t[k] = s[p[k]]
  <2>1. p[k] \in 1..n /\ items[k] = raw[p[k]]
    BY <1>2, <1>4
  <2>2. TopStartRow + k - 1 < start
    BY <1>1, <1>5
  <2>3. raw[p[k]].clin \in ClinValues /\ ~raw[p[k]].clin.padded
    BY <1>1, <2>1, ItemIs
  <2>4. raw[p[k]].clin = clin <=> raw[p[k]].clin.code = clin.code
    BY <2>3, CodesTell
  <2>5. t[k] = IF TopStartRow + k - 1 < start /\ items[k].clin = clin THEN Cost(items[k]) ELSE 0
    BY <1>4
  <2>6. s[p[k]] = IF raw[p[k]].clin.code = clin.code THEN Cost(raw[p[k]]) ELSE 0
    BY <1>7, <2>1
  <2> HIDE DEF t, s
  <2> QED
    BY <2>1, <2>2, <2>4, <2>5, <2>6
<1>11. SumIf(items, clin, start) = SumOf(t)
  BY DEF SumIf
<1> HIDE DEF s, t
<1>12. SumOf(t) = SumOf(s)
  <2>1. ArePermuted(s, t, p, n)
    BY <1>6, <1>8, <1>9, <1>10 DEF ArePermuted
  <2> QED
    BY <1>1, <1>2, <2>1, PermutedSum
<1> QED
  BY <1>11, <1>12 DEF items, start, s

\* The lines of a sheet: each CLIN of the period has one, inside the range.
LEMMA LinesAre ==
  ASSUME NEW items, NEW n \in Nat, DOMAIN items = 1..n
  PROVE  LET d == UniqueClins(items)
             S == {items[i].clin : i \in 1..n}
         IN /\ Len(d) \in Nat /\ DOMAIN d = 1..Len(d) /\ Cardinality(S) = Len(d)
            /\ \A a \in 1..Len(d) : d[a] \in S
            /\ \A a, b \in 1..Len(d) : d[a] = d[b] => a = b
            /\ \A x \in S : \E a \in 1..Len(d) : d[a] = x
<1> DEFINE v == [i \in DOMAIN items |-> items[i].clin]
           d == UniqueClins(items)
           S == {items[i].clin : i \in 1..n}
           m == Len(d)
<1>1. DOMAIN v = 1..n /\ \A i \in 1..n : v[i] = items[i].clin
  OBVIOUS
<1>2. d = Distinct(v)
  BY DEF UniqueClins
<1>3. ToSet(v) = S
  BY <1>1 DEF ToSet
<1> HIDE DEF v
<1>4. /\ m \in Nat /\ DOMAIN d = 1..m
      /\ \A a, b \in 1..m : d[a] = d[b] => a = b
      /\ \A i \in 1..n : \E a \in 1..m : d[a] = v[i]
      /\ \A a \in 1..m : d[a] \in ToSet(v)
  BY <1>1, <1>2, DistinctAre
<1> HIDE DEF d, m
<1>5. ASSUME NEW x \in S PROVE \E a \in 1..m : d[a] = x
  <2>1. PICK i \in 1..n : x = items[i].clin
    OBVIOUS
  <2>2. x = v[i]
    BY <1>1, <2>1
  <2> QED
    BY <1>4, <2>2
<1> HIDE DEF S
<1>6. Cardinality(S) = m
  <2>1. \A a \in 1..m : d[a] \in S
    BY <1>3, <1>4
  <2>2. /\ m \in Nat
        /\ \A a, b \in 1..m : d[a] = d[b] => a = b
        /\ \A x \in S : \E a \in 1..m : d[a] = x
    BY <1>4, <1>5
  <2> QED
    BY <2>1, <2>2, SizeOfDifferent
<1> QED
  BY <1>3, <1>4, <1>5, <1>6 DEF d, m, S

\* The row that a VLOOKUP finds for the CLIN of a line, if no other line has it.
LEMMA FoundIs ==
  ASSUME NEW sheet, NEW clin, NEW r,
         {q \in DOMAIN sheet.lines \cap sheet.range : sheet.lines[q].clin = clin} = {r}, r \in Nat
  PROVE  LookUp(clin, sheet) = sheet.lines[r].value
<1> DEFINE found == {q \in DOMAIN sheet.lines \cap sheet.range : sheet.lines[q].clin = clin}
<1>1. LookUp(clin, sheet) = IF found = {} THEN 0
                            ELSE sheet.lines[CHOOSE x \in found : \A q \in found : x <= q].value
  BY Zenon DEF LookUp
<1>2. found = {r}
  OBVIOUS
<1> HIDE DEF found
<1>3. (CHOOSE x \in found : \A q \in found : x <= q) = r
  <2>1. r \in found /\ \A q \in found : r <= q
    BY <1>2
  <2> QED
    BY <1>2, <2>1
<1> QED
  BY <1>1, <1>2, <1>3

\* VLOOKUP finds in the sheet of a period what the line items of the period cost under a
\* CLIN, or nothing where there is none.
LEMMA LookUpIs ==
  ASSUME NEW period, IsArray(period.items),
         \A i \in DOMAIN period.items : IsItem(period.items[i]) /\ ~period.items[i].clin.padded,
         Cardinality({period.items[i].clin : i \in DOMAIN period.items}) <= ClinLines,
         NEW clin \in ClinValues, ~clin.padded
  PROVE  LookUp(clin, PeriodSheet(period)) = SumOf(Added(period.items, clin))
<1> DEFINE raw == period.items
           n == Len(raw)
           items == ByClin(raw)
           start == ClinStart(items)
           d == UniqueClins(items)
           m == Len(d)
           S == {items[i].clin : i \in 1..n}
           Value(c) == SumIf(items, d[c], start)
           sheet == PeriodSheet(period)
<1>1. n \in Nat /\ DOMAIN raw = 1..n /\ raw \in Seq(ToSet(raw))
  BY ArrayIs DEF IsArray
<1>2. \A i \in 1..n : raw[i].clin \in ClinValues
  BY <1>1, ItemIs
<1>3. PICK p \in Bijection(DOMAIN raw, DOMAIN raw) : items = Picked(raw, p)
  <2> DEFINE T == ToSet(raw)
  <2>1. raw \in Seq(T) /\ \A i \in DOMAIN raw : raw[i].clin \in ClinValues
    BY <1>1, <1>2
  <2> HIDE DEF T
  <2> QED
    BY <2>1, ByClinIs
<1>4. /\ items = [k \in 1..n |-> raw[p[k]]] /\ Len(items) = n /\ ToSet(items) = ToSet(raw)
  <2> DEFINE T == ToSet(raw)
  <2>1. raw \in Seq(T)
    BY <1>1
  <2> HIDE DEF T
  <2> QED
    BY <1>3, <2>1, PermutationIs
<1>5. DOMAIN items = 1..n
  BY <1>4
<1>6. S = {raw[i].clin : i \in 1..n}
  <2>1. p \in [1..n -> 1..n] /\ \A k \in 1..n : \E i \in 1..n : p[i] = k
    BY <1>1 DEF Bijection, Surjection
  <2>2. \A k \in 1..n : items[k] = raw[p[k]]
    BY <1>4
  <2> HIDE DEF items
  <2>3. ASSUME NEW x \in S PROVE x \in {raw[i].clin : i \in 1..n}
    <3>1. PICK k \in 1..n : x = items[k].clin
      OBVIOUS
    <3>2. x = raw[p[k]].clin /\ p[k] \in 1..n
      BY <2>1, <2>2, <3>1
    <3> QED
      BY <3>2
  <2>4. ASSUME NEW i \in 1..n PROVE raw[i].clin \in S
    <3>1. PICK k \in 1..n : p[k] = i
      BY <2>1
    <3>2. raw[i].clin = items[k].clin
      BY <2>2, <3>1
    <3> QED
      BY <3>2
  <2> QED
    BY <2>3, <2>4
<1>7. /\ m \in Nat /\ DOMAIN d = 1..m /\ Cardinality(S) = m
      /\ \A a \in 1..m : d[a] \in S
      /\ \A a, b \in 1..m : d[a] = d[b] => a = b
      /\ \A x \in S : \E a \in 1..m : d[a] = x
  <2> HIDE DEF items
  <2> QED
    BY <1>1, <1>5, LinesAre
<1>8. m <= ClinLines /\ ClinLines \in Nat
  <2>1. Cardinality(S) <= ClinLines
    BY <1>1, <1>6
  <2> QED
    BY <1>7, <2>1, IgceAssumption
<1>9. start \in Nat
  BY <1>1, <1>4, IgceAssumption DEF ClinStart, BottomStartRow, RowsToAdd, TopStartRow
<1>10. /\ sheet.lines = [r \in start..(start + m - 1) |->
                           [clin |-> d[r - start + 1], value |-> Value(r - start + 1)]]
       /\ sheet.range = start..(start + ClinLines - 1)
  BY DEF PeriodSheet, LineRange
<1>11. ASSUME NEW c \in ClinValues, ~c.padded
       PROVE  SumIf(items, c, start) = SumOf(Added(raw, c))
  BY <1>3, <1>11, SumIfIs
<1>12. \A x \in S : x \in ClinValues /\ ~x.padded
  BY <1>1, <1>2, <1>6
<1> DEFINE found == {q \in DOMAIN sheet.lines \cap sheet.range : sheet.lines[q].clin = clin}
<1> HIDE DEF sheet, S, d, m, start, items, raw, n
<1>13. /\ DOMAIN sheet.lines = start..(start + m - 1)
       /\ \A r \in start..(start + m - 1) : /\ sheet.lines[r].clin = d[r - start + 1]
                                           /\ sheet.lines[r].value = Value(r - start + 1)
  BY <1>10
<1>14. DOMAIN sheet.lines \cap sheet.range = start..(start + m - 1)
  BY <1>7, <1>8, <1>9, <1>10, <1>13
<1>15. \A r \in start..(start + m - 1) : r \in Nat /\ r - start + 1 \in 1..m
  BY <1>7, <1>9
<1>16. CASE clin \in S
  <2>1. PICK a \in 1..m : d[a] = clin
    BY <1>7, <1>16
  <2> DEFINE r == start + a - 1
  <2>2. r \in start..(start + m - 1) /\ r - start + 1 = a
    BY <1>7, <1>9
  <2>3. ASSUME NEW q \in start..(start + m - 1), d[q - start + 1] = clin PROVE q = r
    <3>1. q - start + 1 = a
      BY <1>7, <1>15, <2>1, <2>3
    <3> QED
      BY <1>7, <1>9, <3>1
  <2> HIDE DEF r
  <2>4. found = {r}
    BY <1>13, <1>14, <2>1, <2>2, <2>3
  <2>5. LookUp(clin, sheet) = sheet.lines[r].value
    BY <1>15, <2>2, <2>4, FoundIs
  <2>6. sheet.lines[r].value = SumIf(items, clin, start)
    BY <1>13, <2>1, <2>2
  <2> QED
    BY <1>11, <2>5, <2>6 DEF raw, sheet
<1>17. CASE clin \notin S
  <2>1. found = {}
    BY <1>7, <1>13, <1>14, <1>15, <1>17
  <2>2. LookUp(clin, sheet) = 0
    BY <2>1, Zenon DEF LookUp
  <2>3. \A i \in 1..n : Added(raw, clin)[i] = 0
    <3>1. ASSUME NEW i \in 1..n PROVE raw[i].clin.code # clin.code
      <4>1. raw[i].clin \in S
        BY <1>6
      <4> QED
        BY <1>12, <1>17, <4>1, CodesTell
    <3> QED
      BY <1>1, <3>1 DEF Added
  <2>4. DOMAIN Added(raw, clin) = 1..n
    BY <1>1 DEF Added
  <2>5. SumOf(Added(raw, clin)) = 0
    BY <1>1, <2>3, <2>4, SumOfNothing
  <2> QED
    BY <2>2, <2>5 DEF raw, sheet
<1> QED
  BY <1>16, <1>17

\* The sheets of a workbook are those of the periods.
LEMMA PeriodSheetsAre ==
  ASSUME NEW e, IsEstimate(e)
  PROVE  LET sheets == PeriodSheets(e)
         IN /\ Len(sheets) \in Nat /\ DOMAIN sheets = 1..Len(sheets)
            /\ ToSet(sheets) = {PeriodSheet(period) : period \in ToSet(e.periods)}
<1> DEFINE P == e.periods
           T == ToSet(P)
           B == {i \in DOMAIN P : P[i].type = "BASE"}
           O == {i \in DOMAIN P : P[i].type = "OPTION"}
           bases == Picked(P, InOrder(B))
           options == Picked(P, InOrder(O))
           ordered == bases \o ByOrder(options)
           sheets == [k \in DOMAIN ordered |-> PeriodSheet(ordered[k])]
<1>1. PeriodSheets(e) = sheets
  BY Zenon DEF PeriodSheets, Filter
<1>2. /\ P \in Seq(T)
      /\ \A i \in DOMAIN P : P[i] \in T /\ P[i].type \in {"BASE", "OPTION"} /\ P[i].order \in Nat
  <2>1. P \in Seq(T)
    BY DEF IsEstimate, IsArray
  <2>2. \A i \in DOMAIN P : P[i] \in T
    BY DEF ToSet
  <2>3. \A period \in T : period.type \in {"BASE", "OPTION"} /\ period.order \in Nat \ {0}
    BY DEF IsEstimate
  <2> HIDE DEF T, P
  <2> QED
    BY <2>1, <2>2, <2>3
<1>3. T = {P[i] : i \in DOMAIN P}
  BY DEF ToSet
<1>4. B \in SUBSET (DOMAIN P) /\ O \in SUBSET (DOMAIN P) /\ B \cup O = DOMAIN P
  BY <1>2
<1> HIDE DEF T, P, B, O
<1>5. bases \in Seq(T) /\ ToSet(bases) = {P[i] : i \in B}
  BY <1>2, <1>4, PickedIs
<1>6. options \in Seq(T) /\ ToSet(options) = {P[i] : i \in O}
  BY <1>2, <1>4, PickedIs
<1>7. \A i \in DOMAIN options : options[i].order \in Nat
  <2>1. ASSUME NEW i \in DOMAIN options PROVE options[i].order \in Nat
    <3>1. options[i] \in ToSet(options)
      BY DEF ToSet
    <3>2. PICK j \in O : options[i] = P[j]
      BY <1>6, <3>1
    <3> QED
      BY <1>2, <1>4, <3>2
  <2> QED
    BY <2>1
<1> HIDE DEF bases, options
<1>8. ByOrder(options) \in Seq(T) /\ ToSet(ByOrder(options)) = ToSet(options)
  BY <1>6, <1>7, ByOrderIs
<1>9. ordered \in Seq(T) /\ ToSet(ordered) = ToSet(bases) \cup ToSet(options)
  BY <1>5, <1>8, ToSetOfConcatenation
<1> HIDE DEF ordered
<1>10. ToSet(ordered) = T
  BY <1>3, <1>4, <1>5, <1>6, <1>9
<1>11. Len(ordered) \in Nat /\ DOMAIN ordered = 1..Len(ordered)
  BY <1>9
<1>12. Len(sheets) = Len(ordered) /\ DOMAIN sheets = DOMAIN ordered
  BY <1>11
<1>13. ToSet(sheets) = {PeriodSheet(period) : period \in T}
  <2>1. \A k \in DOMAIN sheets : sheets[k] = PeriodSheet(ordered[k])
    BY <1>12
  <2>2. ToSet(sheets) = {sheets[k] : k \in DOMAIN ordered}
    BY <1>12 DEF ToSet
  <2>3. T = {ordered[k] : k \in DOMAIN ordered}
    BY <1>10 DEF ToSet
  <2> HIDE DEF sheets
  <2> QED
    BY <1>12, <2>1, <2>2, <2>3
<1> QED
  BY <1>1, <1>11, <1>12, <1>13 DEF T, P

\* The sheet that a lookup of the summary is directed to by its number.
SheetAt(sheets, s) == sheets[SelectInSeq(sheets, LAMBDA sheet : sheet.sheet = s)]

\* If there are sheets with a number, one of them is found.
LEMMA SheetAtIs ==
  ASSUME NEW sheets, Len(sheets) \in Nat, NEW s,
         NEW k \in 1..Len(sheets), sheets[k].sheet = s
  PROVE  \E i \in 1..Len(sheets) : SheetAt(sheets, s) = sheets[i] /\ sheets[i].sheet = s
<1> DEFINE I == {i \in 1..Len(sheets) : sheets[i].sheet = s}
           first == IF I # {} THEN Min(I) ELSE 0
<1>1. SheetAt(sheets, s) = sheets[first]
  BY Zenon DEF SheetAt, SelectInSeq
<1>2. k \in I /\ I \subseteq Nat
  OBVIOUS
<1>3. \E i \in I : \A j \in I : i <= j
  BY <1>2, Noting!Least
<1>4. \A i \in I : i \in 1..Len(sheets) /\ sheets[i].sheet = s
  OBVIOUS
<1> HIDE DEF I
<1>5. Min(I) \in I
  BY <1>3 DEF Min
<1>6. first = Min(I)
  BY <1>2
<1> HIDE DEF first
<1> QED
  BY <1>1, <1>4, <1>5, <1>6

\* The lookups for a period are directed to its own sheet.
LEMMA SheetFound ==
  ASSUME NEW e, IsEstimate(e), NEW period \in ToSet(e.periods)
  PROVE  SheetAt(PeriodSheets(e), SheetOf(period)) = PeriodSheet(period)
<1> DEFINE sheets == PeriodSheets(e)
           T == ToSet(e.periods)
           n == Len(sheets)
<1>1. /\ n \in Nat /\ DOMAIN sheets = 1..n
      /\ ToSet(sheets) = {PeriodSheet(p) : p \in T}
  BY PeriodSheetsAre
<1>2. \A p \in T : /\ p.order \in Nat \ {0} /\ SheetOf(p) = p.order - 1
                   /\ PeriodSheet(p).sheet = SheetOf(p)
  <2>1. ASSUME NEW p \in T PROVE p.order \in Nat \ {0} /\ (p.type = "BASE" <=> p.order = 1)
    BY DEF IsEstimate
  <2> HIDE DEF T
  <2>2. ASSUME NEW p \in T PROVE SheetOf(p) = p.order - 1
    BY <2>1 DEF SheetOf
  <2>3. ASSUME NEW p \in T PROVE PeriodSheet(p).sheet = SheetOf(p)
    BY DEF PeriodSheet
  <2> QED
    BY <2>1, <2>2, <2>3
<1>3. ASSUME NEW p \in T, NEW q \in T, p.order = q.order PROVE p = q
  BY <1>3 DEF IsEstimate, ToSet
<1>4. period \in T
  OBVIOUS
<1>5. \A i \in 1..n : sheets[i] \in ToSet(sheets)
  BY <1>1 DEF ToSet
<1>6. \A x \in ToSet(sheets) : \E i \in 1..n : sheets[i] = x
  BY <1>1 DEF ToSet
<1> HIDE DEF T, sheets, n
<1>7. PICK k \in 1..n : sheets[k] = PeriodSheet(period)
  BY <1>1, <1>4, <1>6
<1>8. sheets[k].sheet = SheetOf(period)
  BY <1>2, <1>4, <1>7
<1>9. PICK i \in 1..n : /\ SheetAt(sheets, SheetOf(period)) = sheets[i]
                        /\ sheets[i].sheet = SheetOf(period)
  <2> DEFINE s == SheetOf(period)
  <2>1. Len(sheets) \in Nat /\ k \in 1..Len(sheets) /\ sheets[k].sheet = s /\ n = Len(sheets)
    BY <1>1, <1>8 DEF n
  <2> HIDE DEF s
  <2>2. \E i \in 1..Len(sheets) : SheetAt(sheets, s) = sheets[i] /\ sheets[i].sheet = s
    BY <2>1, SheetAtIs
  <2> QED
    BY <2>1, <2>2 DEF s
<1>10. PICK p \in T : sheets[i] = PeriodSheet(p)
  BY <1>1, <1>5
<1>11. p.order - 1 = period.order - 1 /\ p.order \in Nat /\ period.order \in Nat
  BY <1>2, <1>4, <1>9, <1>10
<1>12. p = period
  BY <1>3, <1>4, <1>11
<1> QED
  BY <1>9, <1>10, <1>12 DEF sheets

\* The CLINs of the line items of some periods.
ClinsIn(periods) ==
  UNION {{period.items[i].clin : i \in DOMAIN period.items} : period \in ToSet(periods)}

\* No CLIN has spaces around it.
AreBare(periods) == \A clin \in ClinsIn(periods) : ~clin.padded

\* The line items of an estimate have CLINs.
LEMMA ItemsOfEstimate ==
  ASSUME NEW e, IsEstimate(e), NEW period \in ToSet(e.periods)
  PROVE  IsArray(period.items) /\ \A i \in DOMAIN period.items : IsItem(period.items[i])
<1>1. IsArray(period.items) /\ \A item \in ToSet(period.items) : IsItem(item)
  BY DEF IsEstimate
<1> QED
  BY <1>1 DEF ToSet

\* A CLIN without spaces around it is trimmed to itself.
LEMMA TrimOfBare ==
  ASSUME NEW clin \in ClinValues, ~clin.padded
  PROVE  Trim(clin) = clin
BY DEF ClinValues, Trim

\* The line items of a period as uniqueCLINwithContract collects them.
Collected(period) ==
  [i \in DOMAIN period.items |->
     [clin |-> Trim(period.items[i].clin), contract |-> period.items[i].contract]]

Helper(e) == FlattenSeq([p \in DOMAIN ByOrder(e.periods) |-> Collected(ByOrder(e.periods)[p])])

Sorting(helper) == Sorted(Distinct([i \in DOMAIN helper |-> helper[i].clin]), ClinBefore)

LastOf(helper, clin) == SelectLastInSeq(helper, LAMBDA item : item.clin = clin)

\* What is collected.
LEMMA HelperIs ==
  ASSUME NEW e, IsEstimate(e), AreBare(e.periods)
  PROVE  /\ Len(Helper(e)) \in Nat /\ DOMAIN Helper(e) = 1..Len(Helper(e))
         /\ {Helper(e)[i].clin : i \in DOMAIN Helper(e)} = ClinsIn(e.periods)
<1> DEFINE P == e.periods
           T == ToSet(P)
           A == UNION {ToSet(Collected(p)) : p \in T}
           ordered == ByOrder(P)
           seqs == [p \in DOMAIN ordered |-> Collected(ordered[p])]
           helper == FlattenSeq(seqs)
<1>1. Helper(e) = helper
  BY DEF Helper
<1>2. P \in Seq(T) /\ \A i \in DOMAIN P : P[i].order \in Nat
  <2>1. P \in Seq(T)
    BY DEF IsEstimate, IsArray
  <2>2. \A i \in DOMAIN P : P[i] \in T
    BY DEF ToSet
  <2>3. \A period \in T : period.order \in Nat \ {0}
    BY DEF IsEstimate
  <2> HIDE DEF T, P
  <2> QED
    BY <2>1, <2>2, <2>3
<1>3. ASSUME NEW p \in T
      PROVE  /\ Collected(p) \in Seq(A)
             /\ {x.clin : x \in ToSet(Collected(p))} = {p.items[i].clin : i \in DOMAIN p.items}
  <2>1. IsArray(p.items) /\ \A i \in DOMAIN p.items : IsItem(p.items[i])
    BY ItemsOfEstimate
  <2>2. Len(p.items) \in Nat /\ DOMAIN p.items = 1..Len(p.items)
    BY <2>1, ArrayIs
  <2>3. ASSUME NEW i \in DOMAIN p.items PROVE Trim(p.items[i].clin) = p.items[i].clin
    <3>1. p.items[i].clin \in ClinsIn(P)
      BY DEF ClinsIn
    <3>2. p.items[i].clin \in ClinValues /\ ~p.items[i].clin.padded
      BY <2>1, <3>1, ItemIs DEF AreBare
    <3> QED
      BY <3>2, TrimOfBare
  <2> DEFINE c == Collected(p)
  <2>4. DOMAIN c = 1..Len(p.items) /\ \A i \in DOMAIN p.items : c[i].clin = p.items[i].clin
    BY <2>2, <2>3 DEF Collected
  <2>5. c = [i \in 1..Len(p.items) |-> c[i]]
    BY <2>2 DEF Collected
  <2> HIDE DEF c
  <2>6. \A i \in 1..Len(p.items) : c[i] \in A
    BY <2>4 DEF c, ToSet
  <2> HIDE DEF A
  <2>7. c \in Seq(A)
    BY <2>2, <2>5, <2>6
  <2>8. {x.clin : x \in ToSet(c)} = {p.items[i].clin : i \in DOMAIN p.items}
    BY <2>2, <2>4 DEF ToSet
  <2> QED
    BY <2>7, <2>8 DEF c
<1>4. ClinsIn(P) = UNION {{p.items[i].clin : i \in DOMAIN p.items} : p \in T}
  BY DEF ClinsIn
<1> HIDE DEF A, T, P
<1>5. ordered \in Seq(T) /\ ToSet(ordered) = T
  <2> HIDE DEF seqs, helper
  <2>1. ToSet(P) = T
    BY DEF T
  <2>2. ByOrder(P) \in Seq(T) /\ ToSet(ByOrder(P)) = ToSet(P)
    BY <1>2, ByOrderIs
  <2> QED
    BY <2>1, <2>2
<1> HIDE DEF ordered
<1>6. seqs \in Seq(Seq(A)) /\ DOMAIN seqs = DOMAIN ordered
  <2>1. Len(ordered) \in Nat /\ DOMAIN ordered = 1..Len(ordered) /\ \A p \in 1..Len(ordered) : ordered[p] \in T
    BY <1>5
  <2>2. \A p \in 1..Len(ordered) : Collected(ordered[p]) \in Seq(A)
    BY <1>3, <2>1
  <2> QED
    BY <2>1, <2>2
<1>7. \A p \in DOMAIN ordered : seqs[p] = Collected(ordered[p])
  OBVIOUS
<1> HIDE DEF seqs
<1>8. helper \in Seq(A) /\ ToSet(helper) = UNION {ToSet(seqs[i]) : i \in DOMAIN seqs}
  BY <1>6, FlattenIs
<1> HIDE DEF helper
<1>9. Len(helper) \in Nat /\ DOMAIN helper = 1..Len(helper)
  BY <1>8
<1>10. {helper[i].clin : i \in DOMAIN helper} = {x.clin : x \in ToSet(helper)}
  BY DEF ToSet
<1>11. ASSUME NEW c \in ClinsIn(P) PROVE c \in {x.clin : x \in ToSet(helper)}
  <2>1. PICK p \in T : c \in {p.items[i].clin : i \in DOMAIN p.items}
    BY <1>4
  <2>2. PICK x \in ToSet(Collected(p)) : c = x.clin
    BY <1>3, <2>1
  <2>3. PICK k \in DOMAIN ordered : ordered[k] = p
    BY <1>5 DEF ToSet
  <2>4. x \in ToSet(helper)
    BY <1>6, <1>7, <1>8, <2>2, <2>3
  <2> QED
    BY <2>2, <2>4
<1>12. ASSUME NEW x \in ToSet(helper) PROVE x.clin \in ClinsIn(P)
  <2>1. PICK k \in DOMAIN ordered : x \in ToSet(Collected(ordered[k]))
    BY <1>6, <1>7, <1>8
  <2>2. ordered[k] \in T
    BY <1>5 DEF ToSet
  <2>3. x.clin \in {ordered[k].items[i].clin : i \in DOMAIN ordered[k].items}
    BY <1>3, <2>1, <2>2
  <2> QED
    BY <1>4, <2>2, <2>3
<1>13. {x.clin : x \in ToSet(helper)} = ClinsIn(P)
  BY <1>11, <1>12
<1> QED
  BY <1>1, <1>9, <1>10, <1>13 DEF P

\* A contract is found for each CLIN that is collected.
LEMMA LastOfIs ==
  ASSUME NEW helper, Len(helper) \in Nat, NEW clin,
         NEW k \in 1..Len(helper), helper[k].clin = clin
  PROVE  helper[LastOf(helper, clin)].clin = clin
<1> DEFINE I == {i \in 1..Len(helper) : helper[i].clin = clin}
           last == IF I # {} THEN Max(I) ELSE 0
<1>1. LastOf(helper, clin) = last
  BY Zenon DEF LastOf, SelectLastInSeq
<1>2. k \in I /\ I \in SUBSET (1..Len(helper)) /\ \A i \in I : helper[i].clin = clin
  OBVIOUS
<1> HIDE DEF I
<1>3. Noting!Max(I) \in I /\ Noting!Max(I) = Max(I)
  BY <1>2, Noting!MaxOfInterval DEF Max, Noting!Max
<1> QED
  BY <1>1, <1>2, <1>3

\* The CLINs of the summary: each CLIN of the estimate once.
LEMMA ContractClinsAre ==
  ASSUME NEW e, IsEstimate(e), AreBare(e.periods)
  PROVE  LET clins == ContractClins(e)
             m == Len(clins)
         IN /\ m \in Nat /\ DOMAIN clins = 1..m
            /\ \A a, b \in 1..m : clins[a].clin = clins[b].clin => a = b
            /\ {clins[a].clin : a \in 1..m} = ClinsIn(e.periods)
            /\ IsFiniteSet(ClinsIn(e.periods)) /\ Cardinality(ClinsIn(e.periods)) = m
<1> DEFINE helper == Helper(e)
           S == ClinsIn(e.periods)
           values == [i \in DOMAIN helper |-> helper[i].clin]
           d == Distinct(values)
           sorted == Sorting(helper)
           clins == [c \in DOMAIN sorted |-> helper[LastOf(helper, sorted[c])]]
           n == Len(helper)
           m == Len(d)
<1>1. ContractClins(e) = clins
  BY Zenon DEF ContractClins, Helper, Collected, Sorting, LastOf
<1>2. n \in Nat /\ DOMAIN helper = 1..n /\ {helper[i].clin : i \in DOMAIN helper} = S
  BY HelperIs
<1>3. \A c \in S : c \in ClinValues
  <2>1. ASSUME NEW c \in S PROVE c \in ClinValues
    <3>1. PICK p \in ToSet(e.periods) : c \in {p.items[i].clin : i \in DOMAIN p.items}
      BY DEF ClinsIn
    <3>2. PICK i \in DOMAIN p.items : c = p.items[i].clin
      BY <3>1
    <3>3. IsItem(p.items[i])
      BY ItemsOfEstimate
    <3> QED
      BY <3>2, <3>3, ItemIs
  <2> QED
    BY <2>1
<1>4. sorted = Sorted(d, ClinBefore)
  BY Zenon DEF Sorting
<1> HIDE DEF helper, S, sorted
<1>5. DOMAIN values = 1..n /\ ToSet(values) = S /\ \A i \in 1..n : values[i] = helper[i].clin
  BY <1>2 DEF ToSet
<1> HIDE DEF values, n
<1>6. /\ d \in Seq(S) /\ m \in Nat /\ DOMAIN d = 1..m
      /\ \A a, b \in 1..m : d[a] = d[b] => a = b
      /\ \A i \in 1..n : \E a \in 1..m : d[a] = values[i]
      /\ \A a \in 1..m : d[a] \in S
  BY <1>2, <1>5, DistinctAre
<1> HIDE DEF d
<1>7. d \in Seq(ClinValues)
  <2>1. d = [a \in 1..m |-> d[a]] /\ \A a \in 1..m : d[a] \in ClinValues
    BY <1>3, <1>6
  <2> HIDE DEF m
  <2>2. [a \in 1..m |-> d[a]] \in Seq(ClinValues)
    BY <1>6, <2>1
  <2> QED
    BY <2>1, <2>2
<1>8. PICK p \in Bijection(DOMAIN d, DOMAIN d) : sorted = Picked(d, p)
  BY <1>4, <1>7, SortedClinsAre
<1>9. /\ sorted = [k \in 1..m |-> d[p[k]]]
  BY <1>7, <1>8, PermutationIs
<1>10. /\ p \in [1..m -> 1..m]
       /\ \A i, j \in 1..m : p[i] = p[j] => i = j
       /\ \A k \in 1..m : \E i \in 1..m : p[i] = k
  BY <1>6 DEF Bijection, Injection, Surjection, IsInjective
<1> HIDE DEF m
<1>11. DOMAIN sorted = 1..m /\ \A k \in 1..m : sorted[k] = d[p[k]]
  BY <1>9
<1>12. \A a, b \in 1..m : sorted[a] = sorted[b] => a = b
  BY <1>6, <1>10, <1>11
<1>13. \A a \in 1..m : sorted[a] \in S
  BY <1>6, <1>10, <1>11
<1>14. ASSUME NEW c \in S PROVE \E a \in 1..m : sorted[a] = c
  <2>1. PICK i \in 1..n : c = values[i]
    BY <1>2, <1>5
  <2>2. PICK b \in 1..m : d[b] = c
    BY <1>6, <2>1
  <2>3. PICK a \in 1..m : p[a] = b
    BY <1>10
  <2> QED
    BY <1>11, <2>2, <2>3
<1>15. ASSUME NEW a \in 1..m PROVE clins[a].clin = sorted[a]
  <2>1. clins[a] = helper[LastOf(helper, sorted[a])]
    BY <1>11
  <2>2. PICK k \in 1..n : helper[k].clin = sorted[a]
    BY <1>2, <1>13
  <2>3. helper[LastOf(helper, sorted[a])].clin = sorted[a]
    BY <1>2, <2>2, LastOfIs DEF n
  <2> QED
    BY <2>1, <2>3
<1>16. DOMAIN clins = 1..m /\ Len(clins) = m
  BY <1>6, <1>11
<1> HIDE DEF clins
<1>17. \A a, b \in 1..m : clins[a].clin = clins[b].clin => a = b
  BY <1>12, <1>15
<1>18. {clins[a].clin : a \in 1..m} = S
  BY <1>13, <1>14, <1>15
<1>19. IsFiniteSet(S) /\ Cardinality(S) = m
  <2>1. \A c \in S : \E a \in 1..m : sorted[a] = c
    BY <1>14
  <2>2. m \in Nat
    BY <1>6
  <2> QED
    BY <1>12, <1>13, <2>1, <2>2, SizeOfDifferent
<1> QED
  BY <1>1, <1>6, <1>16, <1>17, <1>18, <1>19 DEF S

-----------------------------------------------------------------------------
(***************************************************************************)
(* Sums of sums: the total of the summary, row by row, is the total of the *)
(* line items, period by period.                                           *)
(***************************************************************************)
\* A sum of numbers is a number.
LEMMA SumIsNat ==
  ASSUME NEW n \in Nat, NEW s, DOMAIN s = 1..n, \A k \in 1..n : s[k] \in Nat
  PROVE  SumOf(s) \in Nat
<1> DEFINE C == [k \in 1..n |-> Row(k, s[k])]
<1>1. AreSizes(C, s, n)
  BY RowSizes
<1> HIDE DEF C
<1> QED
  BY <1>1, SumIsSize, FS_CardinalityType

\* A sum of which one number only is not 0 is that number.
LEMMA SumOfOne ==
  ASSUME NEW n \in Nat, NEW s, DOMAIN s = 1..n, NEW j \in 1..n, s[j] \in Nat,
         \A k \in 1..n : k # j => s[k] = 0
  PROVE  SumOf(s) = s[j]
<1> DEFINE C == [k \in 1..n |-> Row(k, s[k])]
<1>1. \A k \in 1..n : s[k] \in Nat
  OBVIOUS
<1>2. AreSizes(C, s, n)
  BY <1>1, RowSizes
<1>3. \A k \in 1..n : C[k] = IF k = j THEN Row(j, s[j]) ELSE {}
  <2>1. \A k \in 1..n : Row(k, 0) = {}
    BY DEF Row
  <2> QED
    BY <2>1
<1> HIDE DEF C
<1>4. AllOf(C, n) = Row(j, s[j])
  BY <1>3 DEF AllOf
<1> QED
  BY <1>2, <1>4, SumIsSize, RowSize

\* The cells of a table differ in their labels.
AreLabels(L, m, n) ==
  \A q, r \in 1..m : \A o, p \in 1..n : L[q][o] = L[r][p] => q = r /\ o = p

\* A table of numbers.
AreEntries(M, m, n) == \A r \in 1..m : \A p \in 1..n : M[r][p] \in Nat

\* As many things in each cell as its number says.
Cells(L, M, m, n) == UNION {UNION {Row(L[r][p], M[r][p]) : p \in 1..n} : r \in 1..m}

RowSums(M, m, n) == SumOf([r \in 1..m |-> SumOf([p \in 1..n |-> M[r][p]])])

ColumnSums(M, m, n) == SumOf([p \in 1..n |-> SumOf([r \in 1..m |-> M[r][p]])])

\* The sums of the rows of a table add up to the number of the things in its cells.
LEMMA CellsAre ==
  ASSUME NEW m \in Nat, NEW n \in Nat, NEW L, NEW M, AreLabels(L, m, n), AreEntries(M, m, n)
  PROVE  RowSums(M, m, n) = Cardinality(Cells(L, M, m, n))
<1> DEFINE In(r) == [p \in 1..n |-> Row(L[r][p], M[r][p])]
           Line(r) == [p \in 1..n |-> M[r][p]]
           C == [r \in 1..m |-> AllOf(In(r), n)]
           s == [r \in 1..m |-> SumOf(Line(r))]
<1>1. ASSUME NEW r \in 1..m
      PROVE  IsFiniteSet(AllOf(In(r), n)) /\ SumOf(Line(r)) = Cardinality(AllOf(In(r), n))
  <2> DEFINE D == In(r)
             t == Line(r)
  <2>1. \A p \in 1..n : D[p] = Row(L[r][p], M[r][p]) /\ t[p] = M[r][p] /\ M[r][p] \in Nat
    BY DEF AreEntries
  <2>2. DOMAIN t = 1..n
    OBVIOUS
  <2> HIDE DEF D, t
  <2>3. \A p \in 1..n : IsFiniteSet(D[p]) /\ Cardinality(D[p]) = t[p]
    BY <2>1, RowSize
  <2>4. ASSUME NEW o \in 1..n, NEW p \in 1..n, o # p PROVE D[o] \cap D[p] = {}
    <3>1. \A x \in D[o] : x[1] = L[r][o]
      BY <2>1 DEF Row
    <3>2. \A x \in D[p] : x[1] = L[r][p]
      BY <2>1 DEF Row
    <3>3. L[r][o] # L[r][p]
      BY <2>4 DEF AreLabels
    <3> QED
      BY <3>1, <3>2, <3>3
  <2>5. AreSizes(D, t, n)
    BY <2>3, <2>4 DEF AreSizes
  <2> QED
    BY <2>2, <2>5, SumIsSize DEF D, t
<1>2. \A r \in 1..m : \A x \in AllOf(In(r), n) : \E p \in 1..n : x[1] = L[r][p]
  <2> SUFFICES ASSUME NEW r \in 1..m, NEW x \in AllOf(In(r), n)
               PROVE  \E p \in 1..n : x[1] = L[r][p]
    OBVIOUS
  <2>1. PICK p \in 1..n : x \in Row(L[r][p], M[r][p])
    BY DEF AllOf
  <2> QED
    BY <2>1 DEF Row
<1>3. DOMAIN s = 1..m /\ \A r \in 1..m : s[r] = SumOf(Line(r)) /\ C[r] = AllOf(In(r), n)
  OBVIOUS
<1>4. \A r \in 1..m : AllOf(In(r), n) = UNION {Row(L[r][p], M[r][p]) : p \in 1..n}
  BY DEF AllOf
<1> HIDE DEF In, Line, C, s
<1>5. AreSizes(C, s, m)
  <2>1. \A r \in 1..m : IsFiniteSet(C[r]) /\ Cardinality(C[r]) = s[r]
    BY <1>1, <1>3
  <2>2. ASSUME NEW q \in 1..m, NEW r \in 1..m, q # r PROVE C[q] \cap C[r] = {}
    <3>1. ASSUME NEW x \in C[q], x \in C[r] PROVE FALSE
      <4>1. PICK o \in 1..n : x[1] = L[q][o]
        BY <1>2, <1>3
      <4>2. PICK p \in 1..n : x[1] = L[r][p]
        BY <1>2, <1>3, <3>1
      <4> QED
        BY <2>2, <4>1, <4>2 DEF AreLabels
    <3> QED
      BY <3>1
  <2> QED
    BY <2>1, <2>2 DEF AreSizes
<1>6. AllOf(C, m) = Cells(L, M, m, n)
  <2> DEFINE U(r) == UNION {Row(L[r][p], M[r][p]) : p \in 1..n}
  <2>1. \A r \in 1..m : C[r] = U(r)
    BY <1>3, <1>4
  <2>2. Cells(L, M, m, n) = UNION {U(r) : r \in 1..m}
    BY DEF Cells
  <2>3. AllOf(C, m) = UNION {C[r] : r \in 1..m}
    BY DEF AllOf
  <2> HIDE DEF U
  <2> QED
    BY <2>1, <2>2, <2>3
<1>7. SumOf(s) = Cardinality(AllOf(C, m))
  BY <1>3, <1>5, SumIsSize
<1> QED
  BY <1>6, <1>7 DEF s, Line, RowSums

\* The sums of the rows of a table and the sums of its columns have the same total.
LEMMA SwapSums ==
  ASSUME NEW m \in Nat, NEW n \in Nat, NEW M, AreEntries(M, m, n)
  PROVE  RowSums(M, m, n) = ColumnSums(M, m, n)
<1> DEFINE L == [r \in 1..m |-> [p \in 1..n |-> <<r, p>>]]
           K == [p \in 1..n |-> [r \in 1..m |-> <<r, p>>]]
           N == [p \in 1..n |-> [r \in 1..m |-> M[r][p]]]
<1>1. AreLabels(L, m, n) /\ AreLabels(K, n, m)
  BY DEF AreLabels
<1>2. AreEntries(N, n, m)
  BY DEF AreEntries
<1>3. \A r \in 1..m : \A p \in 1..n : K[p][r] = L[r][p] /\ N[p][r] = M[r][p]
  OBVIOUS
<1>4. ColumnSums(M, m, n) = RowSums(N, n, m)
  <2>1. ASSUME NEW p \in 1..n PROVE [r \in 1..m |-> M[r][p]] = [r \in 1..m |-> N[p][r]]
    BY <1>3
  <2> HIDE DEF N
  <2> QED
    BY <2>1 DEF ColumnSums, RowSums
<1> HIDE DEF L, K, N
<1>5. Cells(L, M, m, n) = Cells(K, N, n, m)
  <2>1. ASSUME NEW x \in Cells(L, M, m, n) PROVE x \in Cells(K, N, n, m)
    <3>1. PICK r \in 1..m : x \in UNION {Row(L[r][p], M[r][p]) : p \in 1..n}
      BY DEF Cells
    <3>2. PICK p \in 1..n : x \in Row(L[r][p], M[r][p])
      BY <3>1
    <3>3. x \in Row(K[p][r], N[p][r])
      BY <1>3, <3>2
    <3> QED
      BY <3>3 DEF Cells
  <2>2. ASSUME NEW x \in Cells(K, N, n, m) PROVE x \in Cells(L, M, m, n)
    <3>1. PICK p \in 1..n : x \in UNION {Row(K[p][r], N[p][r]) : r \in 1..m}
      BY DEF Cells
    <3>2. PICK r \in 1..m : x \in Row(K[p][r], N[p][r])
      BY <3>1
    <3>3. x \in Row(L[r][p], M[r][p])
      BY <1>3, <3>2
    <3> QED
      BY <3>3 DEF Cells
  <2> QED
    BY <2>1, <2>2
<1> QED
  BY <1>1, <1>2, <1>4, <1>5, CellsAre

\* A numbering of the elements of a set.
AreKeys(key, D, n) ==
  /\ \A p, q \in 1..n : key[p] = key[q] => p = q
  /\ D = {key[p] : p \in 1..n}

\* A sum over the elements of a set does not depend on their numbering.
LEMMA SumOverSet ==
  ASSUME NEW n \in Nat, NEW D, NEW key, AreKeys(key, D, n), NEW a, \A p \in 1..n : a[key[p]] \in Nat
  PROVE  SumOf([i \in DOMAIN SetToSeq(D) |-> a[SetToSeq(D)[i]]]) = SumOf([p \in 1..n |-> a[key[p]]])
<1> DEFINE f == SetToSeq(D)
           I == 1..n
           k == [p \in I |-> key[p]]
           s == [p \in I |-> a[key[p]]]
           t == [i \in DOMAIN f |-> a[f[i]]]
           perm == [i \in I |-> CHOOSE p \in I : key[p] = f[i]]
<1>0. /\ \A p, q \in 1..n : key[p] = key[q] => p = q
      /\ D = {key[p] : p \in 1..n}
  BY DEF AreKeys
<1>1. IsFiniteSet(D) /\ Cardinality(D) = n
  BY <1>0, SizeOfDifferent
<1>2. k \in [I -> D] /\ IsInjective(k)
  BY <1>0 DEF IsInjective
<1>3. f = CHOOSE g \in [I -> D] : IsInjective(g)
  BY <1>1, Zenon DEF SetToSeq
<1>4. IsFiniteSet(I) /\ Cardinality(I) = n
  BY IntervalSize
<1> HIDE DEF f, k, I
<1>5. f \in [I -> D] /\ IsInjective(f)
  BY <1>2, <1>3
<1>6. f \in Injection(I, D)
  BY <1>5 DEF Injection
<1>7. f \in Surjection(I, D)
  BY <1>1, <1>4, <1>6, FS_Injection
<1>8. /\ \A i \in I : f[i] \in D
      /\ \A i, j \in I : f[i] = f[j] => i = j
      /\ \A d \in D : \E i \in I : f[i] = d
  BY <1>5, <1>7 DEF IsInjective, Surjection
<1>9. \A d \in D : \E p \in I : key[p] = d
  BY <1>0 DEF I
<1>10. \A p \in I : key[p] \in D
  BY <1>0 DEF I
<1>11. \A p, q \in I : key[p] = key[q] => p = q
  BY <1>0 DEF I
<1>12. \A i \in I : perm[i] \in I /\ key[perm[i]] = f[i]
  <2> TAKE i \in I
  <2>1. \E p \in I : key[p] = f[i]
    BY <1>8, <1>9
  <2>2. perm[i] = CHOOSE p \in I : key[p] = f[i]
    OBVIOUS
  <2> QED
    BY <2>1, <2>2
<1>13. perm \in [I -> I]
  BY <1>12
<1> HIDE DEF perm
<1>14. \A i, j \in I : perm[i] = perm[j] => i = j
  BY <1>8, <1>12
<1>15. \A p \in I : \E i \in I : perm[i] = p
  <2> TAKE p \in I
  <2>1. PICK i \in I : f[i] = key[p]
    BY <1>8, <1>10
  <2>2. key[perm[i]] = key[p] /\ perm[i] \in I
    BY <1>12, <2>1
  <2> QED
    BY <1>11, <2>2
<1>16. perm \in Bijection(I, I)
  BY <1>13, <1>14, <1>15 DEF Bijection, Injection, Surjection, IsInjective
<1>17. ArePermuted(s, t, perm, n)
  <2>1. DOMAIN s = I /\ \A p \in I : s[p] = a[key[p]] /\ s[p] \in Nat
    BY DEF I
  <2>2. DOMAIN t = I /\ \A i \in I : t[i] = a[f[i]]
    BY <1>5
  <2> HIDE DEF s, t
  <2>3. \A i \in I : t[i] = s[perm[i]]
    BY <1>12, <2>1, <2>2
  <2> QED
    BY <2>1, <2>2, <2>3 DEF ArePermuted, I
<1> HIDE DEF s, t
<1>18. SumOf(t) = SumOf(s)
  BY <1>16, <1>17, PermutedSum DEF I
<1> QED
  BY <1>18 DEF s, t, f, I

\* The line items of a period are told apart by the CLINs of some rows.
AreTold(items, c, m) ==
  /\ \A i \in DOMAIN items : IsItem(items[i]) /\ ~items[i].clin.padded
  /\ \A a \in 1..m : c[a] \in ClinValues /\ ~c[a].padded
  /\ \A a, b \in 1..m : c[a] = c[b] => a = b
  /\ \A i \in DOMAIN items : \E a \in 1..m : c[a] = items[i].clin

\* What the line items of a period add under a CLIN is a number.
LEMMA AddedIsNat ==
  ASSUME NEW items, NEW k \in Nat, DOMAIN items = 1..k, \A i \in 1..k : IsItem(items[i]), NEW clin
  PROVE  /\ DOMAIN Added(items, clin) = 1..k
         /\ \A i \in 1..k : Added(items, clin)[i] \in Nat
         /\ SumOf(Added(items, clin)) \in Nat
<1> DEFINE s == Added(items, clin)
<1>1. DOMAIN s = 1..k /\ \A i \in 1..k : s[i] = IF items[i].clin.code = clin.code THEN Cost(items[i]) ELSE 0
  BY DEF Added
<1> HIDE DEF s
<1>2. \A i \in 1..k : s[i] \in Nat
  BY <1>1, ItemIs
<1>3. SumOf(s) \in Nat
  BY <1>1, <1>2, SumIsNat
<1> QED
  BY <1>1, <1>2, <1>3 DEF s

\* The line items of a period add up, CLIN by CLIN, to what they cost.
LEMMA ColumnAddsUp ==
  ASSUME NEW items, NEW k \in Nat, DOMAIN items = 1..k,
         NEW c, NEW m \in Nat, AreTold(items, c, m)
  PROVE  SumOf([a \in 1..m |-> SumOf(Added(items, c[a]))]) = SumOf([i \in 1..k |-> Cost(items[i])])
<1> DEFINE M == [a \in 1..m |-> Added(items, c[a])]
           Column(i) == [a \in 1..m |-> M[a][i]]
<1>1. \A i \in 1..k : IsItem(items[i]) /\ items[i].clin \in ClinValues /\ ~items[i].clin.padded /\ Cost(items[i]) \in Nat
  BY ItemIs DEF AreTold
<1>2. ASSUME NEW a \in 1..m
      PROVE  /\ M[a] = [i \in 1..k |-> M[a][i]]
             /\ \A i \in 1..k : /\ M[a][i] = IF items[i].clin = c[a] THEN Cost(items[i]) ELSE 0
                                /\ M[a][i] \in Nat
  <2>1. M[a] = [i \in 1..k |-> IF items[i].clin.code = c[a].code THEN Cost(items[i]) ELSE 0]
    BY DEF Added
  <2>2. ASSUME NEW i \in 1..k PROVE items[i].clin = c[a] <=> items[i].clin.code = c[a].code
    BY <1>1, CodesTell DEF AreTold
  <2> HIDE DEF M
  <2>3. \A i \in 1..k : M[a][i] = IF items[i].clin = c[a] THEN Cost(items[i]) ELSE 0
    BY <2>1, <2>2
  <2> QED
    BY <1>1, <2>1, <2>3
<1>3. ASSUME NEW i \in 1..k PROVE SumOf(Column(i)) = Cost(items[i])
  <2>1. PICK j \in 1..m : c[j] = items[i].clin
    BY DEF AreTold
  <2> DEFINE s == Column(i)
  <2>2. DOMAIN s = 1..m /\ \A a \in 1..m : s[a] = M[a][i]
    OBVIOUS
  <2> HIDE DEF s, M
  <2>3. s[j] = Cost(items[i]) /\ s[j] \in Nat
    BY <1>2, <2>1, <2>2
  <2>4. ASSUME NEW a \in 1..m, a # j PROVE s[a] = 0
    <3>1. c[a] # items[i].clin
      BY <2>1, <2>4 DEF AreTold
    <3> QED
      BY <1>2, <2>2, <3>1
  <2>5. SumOf(s) = s[j]
    BY <2>2, <2>3, <2>4, SumOfOne
  <2> QED
    BY <2>3, <2>5 DEF s
<1>4. [a \in 1..m |-> SumOf(Added(items, c[a]))] = [a \in 1..m |-> SumOf(M[a])]
  <2>1. \A a \in 1..m : M[a] = Added(items, c[a])
    OBVIOUS
  <2> HIDE DEF M
  <2> QED
    BY <2>1
<1> HIDE DEF M
<1>5. [a \in 1..m |-> SumOf(M[a])] = [a \in 1..m |-> SumOf([i \in 1..k |-> M[a][i]])]
  <2>1. ASSUME NEW a \in 1..m PROVE SumOf(M[a]) = SumOf([i \in 1..k |-> M[a][i]])
    <3>1. M[a] = [i \in 1..k |-> M[a][i]]
      BY <1>2
    <3> DEFINE t == [i \in 1..k |-> M[a][i]]
    <3> HIDE DEF t
    <3>2. M[a] = t
      BY <3>1 DEF t
    <3>3. SumOf(M[a]) = SumOf(t)
      BY <3>2
    <3> QED
      BY <3>3 DEF t
  <2> QED
    BY <2>1
<1>6. AreEntries(M, m, k)
  BY <1>2 DEF AreEntries
<1>7. RowSums(M, m, k) = ColumnSums(M, m, k)
  BY <1>6, SwapSums
<1>8. [i \in 1..k |-> SumOf([a \in 1..m |-> M[a][i]])] = [i \in 1..k |-> Cost(items[i])]
  <2>1. \A i \in 1..k : SumOf([a \in 1..m |-> M[a][i]]) = Cost(items[i])
    BY <1>3
  <2> QED
    BY <2>1
<1> QED
  BY <1>4, <1>5, <1>7, <1>8 DEF RowSums, ColumnSums

\* No period has more CLINs than its sheet has lines.
AreFew(periods) ==
  \A p \in DOMAIN periods :
    Cardinality({periods[p].items[i].clin : i \in DOMAIN periods[p].items}) <= ClinLines

\* The numbers of the sheets that the summary has a column for.
Shown(e) == {PeriodSheets(e)[i].sheet : i \in DOMAIN PeriodSheets(e)} \cap 0..OptionSheets

\* What the summary says of an estimate: each CLIN once, with what it costs in each period.
AreRowsOf(rows, m, P) ==
  /\ m \in Nat /\ DOMAIN rows = 1..m /\ Len(rows) = m
  /\ \A a, b \in 1..m : rows[a].clin = rows[b].clin => a = b
  /\ {rows[a].clin : a \in 1..m} = ClinsIn(P)
  /\ Cardinality(ClinsIn(P)) = m
  /\ \A a \in 1..m : /\ DOMAIN rows[a].amounts = {SheetOf(P[p]) : p \in DOMAIN P}
                     /\ \A p \in DOMAIN P : rows[a].amounts[SheetOf(P[p])]
                                              = SumOf(Added(P[p].items, rows[a].clin))

\* A row shows what its CLIN costs in each period.
ShowsCosts(row, P) ==
  \A p \in DOMAIN P : row.amounts[SheetOf(P[p])] = SumOf(Added(P[p].items, row.clin))

\* The rows of the summary: those that keep their CLIN show its costs, and within the lines
\* of the template all of them keep it.
LEMMA SummaryRowsAre ==
  ASSUME NEW e, IsEstimate(e), ~WorkbookFails(e), AreBare(e.periods), AreFew(e.periods)
  PROVE  LET rows == SummaryRows(e)
             P == e.periods
         IN /\ \A a \in DOMAIN rows : rows[a].clin \in ClinsIn(P) => ShowsCosts(rows[a], P)
            /\ Cardinality(ClinsIn(P)) <= SummaryLines => AreRowsOf(rows, Len(ContractClins(e)), P)
<1> DEFINE P == e.periods
           clins == ContractClins(e)
           sheets == PeriodSheets(e)
           m == Len(clins)
           A(a) == IF a = Below.surge \/ (a = Below.agency /\ ~e.ditco) THEN Percentage ELSE clins[a].clin
           C(a) == IF a = Below.grand \/ (a = Below.shop /\ e.fee # 0) THEN "formula" ELSE clins[a].contract
           rows == SummaryRows(e)
<1>1. rows = [a \in DOMAIN clins |->
                [clin |-> A(a), contract |-> C(a),
                 amounts |-> [s \in Shown(e) |-> LookUp(A(a), SheetAt(sheets, s))]]]
  BY Zenon DEF SummaryRows, RowsOver, SheetAt, Shown
<1>2. /\ m \in Nat /\ DOMAIN clins = 1..m
      /\ \A a, b \in 1..m : clins[a].clin = clins[b].clin => a = b
      /\ {clins[a].clin : a \in 1..m} = ClinsIn(P)
      /\ Cardinality(ClinsIn(P)) = m
  BY ContractClinsAre
<1>3. Shown(e) = {SheetOf(P[p]) : p \in DOMAIN P}
  <2>1. ToSet(sheets) = {PeriodSheet(period) : period \in ToSet(P)}
    BY PeriodSheetsAre
  <2>2. {sheets[i].sheet : i \in DOMAIN sheets} = {x.sheet : x \in ToSet(sheets)}
    BY DEF ToSet
  <2>3. \A period \in ToSet(P) : PeriodSheet(period).sheet = SheetOf(period)
    BY DEF PeriodSheet
  <2>4. ToSet(P) = {P[p] : p \in DOMAIN P}
    BY DEF ToSet
  <2>5. \A p \in DOMAIN P : SheetOf(P[p]) \in 0..OptionSheets
    BY DEF WorkbookFails
  <2>6. Shown(e) = {sheets[i].sheet : i \in DOMAIN sheets} \cap 0..OptionSheets
    BY DEF Shown
  <2> DEFINE numbers == 0..OptionSheets
             T == ToSet(P)
             shown == {sheets[i].sheet : i \in DOMAIN sheets}
  <2> HIDE DEF numbers, T, P, shown, sheets
  <2>7. {x.sheet : x \in ToSet(sheets)} = {SheetOf(period) : period \in T}
    BY <2>1, <2>3 DEF T
  <2>8. {SheetOf(period) : period \in T} = {SheetOf(P[p]) : p \in DOMAIN P}
    BY <2>4 DEF T
  <2>9. \A x \in {SheetOf(P[p]) : p \in DOMAIN P} : x \in numbers
    BY <2>5 DEF numbers
  <2>10. shown = {SheetOf(P[p]) : p \in DOMAIN P}
    BY <2>2, <2>7, <2>8 DEF shown
  <2>11. Shown(e) = shown \cap numbers
    BY <2>6 DEF shown, numbers
  <2> QED
    BY <2>9, <2>10, <2>11
<1>4. ASSUME NEW clin \in ClinsIn(P), NEW p \in DOMAIN P
      PROVE  LookUp(clin, SheetAt(sheets, SheetOf(P[p]))) = SumOf(Added(P[p].items, clin))
  <2>1. P[p] \in ToSet(P)
    BY DEF ToSet
  <2>2. IsArray(P[p].items) /\ \A i \in DOMAIN P[p].items : IsItem(P[p].items[i])
    BY <2>1, ItemsOfEstimate
  <2>3. \A i \in DOMAIN P[p].items : ~P[p].items[i].clin.padded
    BY <2>1 DEF AreBare, ClinsIn
  <2>4. Cardinality({P[p].items[i].clin : i \in DOMAIN P[p].items}) <= ClinLines
    BY DEF AreFew
  <2>5. clin \in ClinValues /\ ~clin.padded
    <3>1. ~clin.padded
      BY DEF AreBare
    <3>2. PICK other \in ToSet(P) : clin \in {other.items[i].clin : i \in DOMAIN other.items}
      BY DEF ClinsIn
    <3>3. PICK i \in DOMAIN other.items : clin = other.items[i].clin
      BY <3>2
    <3>4. IsItem(other.items[i])
      BY ItemsOfEstimate
    <3> QED
      BY <3>1, <3>3, <3>4, ItemIs
  <2>6. SheetAt(sheets, SheetOf(P[p])) = PeriodSheet(P[p])
    BY <2>1, SheetFound
  <2> DEFINE period == P[p]
  <2>7. /\ IsArray(period.items)
        /\ \A i \in DOMAIN period.items : IsItem(period.items[i]) /\ ~period.items[i].clin.padded
        /\ Cardinality({period.items[i].clin : i \in DOMAIN period.items}) <= ClinLines
        /\ clin \in ClinValues /\ ~clin.padded
    BY <2>2, <2>3, <2>4, <2>5
  <2> HIDE DEF period
  <2>8. LookUp(clin, PeriodSheet(period)) = SumOf(Added(period.items, clin))
    BY <2>7, LookUpIs
  <2> QED
    BY <2>6, <2>8 DEF period
<1> HIDE DEF rows, clins, sheets, P, m, A, C
<1>5. DOMAIN rows = 1..m /\ Len(rows) = m
  BY <1>1, <1>2
<1>6. ASSUME NEW a \in 1..m
      PROVE  /\ rows[a].clin = A(a)
             /\ DOMAIN rows[a].amounts = Shown(e)
             /\ \A s \in Shown(e) : rows[a].amounts[s] = LookUp(A(a), SheetAt(sheets, s))
  BY <1>1, <1>2
<1>7. ASSUME NEW a \in 1..m, A(a) \in ClinsIn(P) PROVE ShowsCosts(rows[a], P)
  <2> SUFFICES ASSUME NEW p \in DOMAIN P
               PROVE  rows[a].amounts[SheetOf(P[p])] = SumOf(Added(P[p].items, rows[a].clin))
    BY Zenon DEF ShowsCosts
  <2>1. SheetOf(P[p]) \in Shown(e)
    BY <1>3
  <2> QED
    BY <1>4, <1>6, <1>7, <2>1
<1>8. ASSUME NEW a \in DOMAIN rows, rows[a].clin \in ClinsIn(P) PROVE ShowsCosts(rows[a], P)
  BY <1>5, <1>6, <1>7, <1>8
<1>9. ASSUME Cardinality(ClinsIn(P)) <= SummaryLines PROVE AreRowsOf(rows, m, P)
  <2>1. ASSUME NEW a \in 1..m PROVE A(a) = clins[a].clin
    <3>1. a <= SummaryLines /\ SummaryLines \in Nat
      BY <1>2, <1>9, IgceAssumption
    <3>2. a # Below.surge /\ a # Below.agency
      BY <3>1 DEF Below
    <3> QED
      BY <3>2 DEF A
  <2>2. {rows[a].clin : a \in 1..m} = ClinsIn(P)
    BY <1>2, <1>6, <2>1
  <2>3. \A a, b \in 1..m : rows[a].clin = rows[b].clin => a = b
    BY <1>2, <1>6, <2>1
  <2>4. \A a \in 1..m : DOMAIN rows[a].amounts = {SheetOf(P[p]) : p \in DOMAIN P}
    BY <1>3, <1>6
  <2>5. \A a \in 1..m : ShowsCosts(rows[a], P)
    BY <1>5, <1>8, <2>2
  <2> QED
    BY <1>2, <1>5, <2>2, <2>3, <2>4, <2>5 DEF AreRowsOf, ShowsCosts
<1> QED
  BY <1>8, <1>9 DEF rows, m, clins, P

\* A row of the summary, as GrandTotal adds it.
RowTotal(r) ==
  SumOf([i \in DOMAIN SetToSeq(DOMAIN r.amounts) |-> r.amounts[SetToSeq(DOMAIN r.amounts)[i]]])

\* What all the line items of some periods cost.
AllItems(P) ==
  SumOf([p \in DOMAIN P |-> SumOf([i \in DOMAIN P[p].items |-> Cost(P[p].items[i])])])

\* The rows of the summary add up to all the line items.
LEMMA RowsAddUp ==
  ASSUME NEW e, IsEstimate(e), AreBare(e.periods),
         NEW rows, NEW m, AreRowsOf(rows, m, e.periods)
  PROVE  /\ SumOf([a \in DOMAIN rows |-> RowTotal(rows[a])]) = AllItems(e.periods)
         /\ AllItems(e.periods) \in Nat
<1> DEFINE P == e.periods
           n == Len(P)
           key == [p \in 1..n |-> SheetOf(P[p])]
           D == {key[p] : p \in 1..n}
           c == [a \in 1..m |-> rows[a].clin]
           M == [a \in 1..m |-> [p \in 1..n |-> SumOf(Added(P[p].items, c[a]))]]
           Items(p) == [i \in DOMAIN P[p].items |-> Cost(P[p].items[i])]
<1>1. n \in Nat /\ DOMAIN P = 1..n
  BY ArrayIs DEF IsEstimate
<1>2. /\ m \in Nat /\ DOMAIN rows = 1..m
      /\ \A a, b \in 1..m : rows[a].clin = rows[b].clin => a = b
      /\ {rows[a].clin : a \in 1..m} = ClinsIn(P)
      /\ \A a \in 1..m : /\ DOMAIN rows[a].amounts = {SheetOf(P[p]) : p \in DOMAIN P}
                         /\ \A p \in DOMAIN P : rows[a].amounts[SheetOf(P[p])]
                                                  = SumOf(Added(P[p].items, rows[a].clin))
  BY DEF AreRowsOf
<1>3. ASSUME NEW p \in 1..n
      PROVE  /\ Len(P[p].items) \in Nat /\ DOMAIN P[p].items = 1..Len(P[p].items)
             /\ \A i \in DOMAIN P[p].items : IsItem(P[p].items[i])
             /\ AreTold(P[p].items, c, m)
  <2>1. P[p] \in ToSet(P)
    BY <1>1 DEF ToSet
  <2>2. IsArray(P[p].items) /\ \A i \in DOMAIN P[p].items : IsItem(P[p].items[i])
    BY <2>1, ItemsOfEstimate
  <2>3. \A i \in DOMAIN P[p].items : P[p].items[i].clin \in ClinsIn(P)
    BY <2>1 DEF ClinsIn
  <2>4. Len(P[p].items) \in Nat /\ DOMAIN P[p].items = 1..Len(P[p].items)
    BY <2>2, ArrayIs
  <2>5. \A x \in ClinsIn(P) : x \in ClinValues /\ ~x.padded
    <3>1. ASSUME NEW x \in ClinsIn(P) PROVE x \in ClinValues
      <4>1. PICK period \in ToSet(P) : x \in {period.items[i].clin : i \in DOMAIN period.items}
        BY DEF ClinsIn
      <4>2. PICK i \in DOMAIN period.items : x = period.items[i].clin
        BY <4>1
      <4> QED
        BY <4>2, ItemsOfEstimate, ItemIs
    <3> QED
      BY <3>1 DEF AreBare
  <2>6. \A a \in 1..m : c[a] = rows[a].clin /\ c[a] \in ClinsIn(P)
    BY <1>2
  <2>7. \A x \in ClinsIn(P) : \E a \in 1..m : c[a] = x
    <3>1. \A a \in 1..m : c[a] = rows[a].clin
      OBVIOUS
    <3> HIDE DEF c
    <3> QED
      BY <1>2, <3>1
  <2> HIDE DEF c
  <2>8. \A a, b \in 1..m : c[a] = c[b] => a = b
    BY <1>2, <2>6
  <2> HIDE DEF P
  <2>9. AreTold(P[p].items, c, m)
    BY <2>2, <2>3, <2>5, <2>6, <2>7, <2>8 DEF AreTold
  <2> QED
    BY <2>2, <2>4, <2>9
<1>4. \A p, q \in 1..n : key[p] = key[q] => p = q
  <2>1. ASSUME NEW p \in 1..n PROVE P[p].order \in Nat \ {0} /\ SheetOf(P[p]) = P[p].order - 1
    <3>1. P[p] \in ToSet(P)
      BY <1>1 DEF ToSet
    <3>2. P[p].order \in Nat \ {0} /\ (P[p].type = "BASE" <=> P[p].order = 1)
      BY <3>1 DEF IsEstimate
    <3> QED
      BY <3>2 DEF SheetOf
  <2>2. \A p, q \in 1..n : P[p].order = P[q].order => p = q
    BY <1>1 DEF IsEstimate
  <2> SUFFICES ASSUME NEW p \in 1..n, NEW q \in 1..n, key[p] = key[q] PROVE p = q
    OBVIOUS
  <2>3. SheetOf(P[p]) = SheetOf(P[q])
    OBVIOUS
  <2> HIDE DEF P, key, n, D, c, M, Items
  <2>4. P[p].order = P[q].order
    BY <2>1, <2>3
  <2> QED
    BY <2>2, <2>4
<1>5. D = {SheetOf(P[p]) : p \in DOMAIN P}
  BY <1>1
<1>6. \A p \in 1..n : key[p] = SheetOf(P[p])
  OBVIOUS
<1>7. \A a \in 1..m : c[a] = rows[a].clin
  OBVIOUS
<1> HIDE DEF P, n, key, D, c
<1>8. ASSUME NEW a \in 1..m, NEW p \in 1..n
      PROVE  SumOf(Added(P[p].items, c[a])) \in Nat
  <2> DEFINE items == P[p].items
             k == Len(items)
  <2>1. k \in Nat /\ DOMAIN items = 1..k /\ \A i \in 1..k : IsItem(items[i])
    BY <1>3
  <2> HIDE DEF items, k
  <2>2. SumOf(Added(items, c[a])) \in Nat
    BY <2>1, AddedIsNat
  <2> QED
    BY <2>2 DEF items
<1>9. AreEntries(M, m, n)
  BY <1>8 DEF AreEntries
<1>10. ASSUME NEW a \in 1..m PROVE RowTotal(rows[a]) = SumOf([p \in 1..n |-> M[a][p]])
  <2> DEFINE amounts == rows[a].amounts
  <2>1. DOMAIN amounts = D
    BY <1>2, <1>5
  <2>2. \A p \in 1..n : amounts[key[p]] = SumOf(Added(P[p].items, c[a]))
    BY <1>1, <1>2, <1>6, <1>7
  <2>3. \A p \in 1..n : amounts[key[p]] \in Nat
    BY <1>8, <2>2
  <2>4. \A p \in 1..n : amounts[key[p]] = M[a][p]
    BY <2>2
  <2>5. RowTotal(rows[a]) = SumOf([i \in DOMAIN SetToSeq(D) |-> amounts[SetToSeq(D)[i]]])
    BY <2>1 DEF RowTotal
  <2>6. AreKeys(key, D, n)
    BY <1>4 DEF D, AreKeys
  <2> HIDE DEF M, amounts
  <2>7. SumOf([i \in DOMAIN SetToSeq(D) |-> amounts[SetToSeq(D)[i]]])
          = SumOf([p \in 1..n |-> amounts[key[p]]])
    BY <1>1, <2>3, <2>6, SumOverSet
  <2>8. [p \in 1..n |-> amounts[key[p]]] = [p \in 1..n |-> M[a][p]]
    BY <2>4
  <2> QED
    BY <2>5, <2>7, <2>8
<1>11. [a \in DOMAIN rows |-> RowTotal(rows[a])] = [a \in 1..m |-> SumOf([p \in 1..n |-> M[a][p]])]
  <2> HIDE DEF M
  <2> QED
    BY <1>2, <1>10
<1>12. ASSUME NEW p \in 1..n
       PROVE  SumOf([a \in 1..m |-> M[a][p]]) = SumOf(Items(p)) /\ SumOf(Items(p)) \in Nat
  <2> DEFINE items == P[p].items
             k == Len(items)
  <2>1. k \in Nat /\ DOMAIN items = 1..k /\ AreTold(items, c, m) /\ \A i \in 1..k : IsItem(items[i])
    BY <1>3
  <2>2. [a \in 1..m |-> M[a][p]] = [a \in 1..m |-> SumOf(Added(items, c[a]))]
    OBVIOUS
  <2>3. Items(p) = [i \in 1..k |-> Cost(items[i])]
    BY <2>1
  <2> HIDE DEF M, items, k, Items
  <2>4. SumOf([a \in 1..m |-> SumOf(Added(items, c[a]))]) = SumOf([i \in 1..k |-> Cost(items[i])])
    BY <1>2, <2>1, ColumnAddsUp
  <2>5. SumOf([i \in 1..k |-> Cost(items[i])]) \in Nat
    <3> DEFINE s == [i \in 1..k |-> Cost(items[i])]
    <3>1. DOMAIN s = 1..k /\ \A i \in 1..k : s[i] \in Nat
      BY <2>1, ItemIs
    <3> HIDE DEF s
    <3>2. SumOf(s) \in Nat
      BY <2>1, <3>1, SumIsNat
    <3> QED
      BY <3>2 DEF s
  <2> QED
    BY <2>2, <2>3, <2>4, <2>5
<1> HIDE DEF M
<1>17. AllItems(P) = SumOf([p \in 1..n |-> SumOf(Items(p))])
  BY <1>1 DEF AllItems
<1> HIDE DEF Items
<1>13. m \in Nat /\ n \in Nat
  BY <1>1, <1>2
<1>14. RowSums(M, m, n) = ColumnSums(M, m, n)
  BY <1>9, <1>13, SwapSums
<1>15. [p \in 1..n |-> SumOf([a \in 1..m |-> M[a][p]])] = [p \in 1..n |-> SumOf(Items(p))]
  BY <1>12
<1>16. AllItems(P) \in Nat
  <2> DEFINE s == [p \in 1..n |-> SumOf(Items(p))]
  <2>1. DOMAIN s = 1..n /\ \A p \in 1..n : s[p] \in Nat
    BY <1>12
  <2>2. AllItems(P) = SumOf(s)
    BY <1>17
  <2> HIDE DEF s
  <2> QED
    BY <1>1, <2>1, <2>2, SumIsNat
<1> QED
  BY <1>11, <1>14, <1>15, <1>16, <1>17 DEF P, RowSums, ColumnSums

\* A total price with its fees, in millionths.
Fees(K24, fee, ditco) ==
  LET K25 == IF ditco THEN 0 ELSE K24
      C27 == IF ditco THEN K24 * 100 * fee ELSE (K24 * 100 + K25) * fee
  IN C27 + K24 * 10000 + K25 * 100

\* A sum with the surge, in hundredths, and with surge and fees.
Surged(sum, surge) == sum * 100 + sum * surge
Charged(sum, surge, fee, ditco) ==
  sum * (100 + surge) * (IF ditco THEN 100 ELSE 101) * (100 + fee)

\* The fees on a sum with the surge.
LEMMA FeesAre ==
  ASSUME NEW sum \in Nat, NEW surge \in Nat, NEW fee \in Nat, NEW ditco \in BOOLEAN
  PROVE  Fees(Surged(sum, surge), fee, ditco) = Charged(sum, surge, fee, ditco)
<1> DEFINE x == sum * (100 + surge)
<1>1. x \in Nat /\ Surged(sum, surge) = x
  BY DEF Surged
<1> HIDE DEF x
<1>2. x * 100 * fee + x * 10000 + 0 * 100 = x * 100 * (100 + fee)
  BY <1>1
<1>3. (x * 100 + x) * fee + x * 10000 + x * 100 = x * 101 * (100 + fee)
  BY <1>1
<1>4. Fees(x, fee, ditco) = x * (IF ditco THEN 100 ELSE 101) * (100 + fee)
  <2>1. CASE ditco
    BY <1>2, <2>1 DEF Fees
  <2>2. CASE ~ditco
    BY <1>3, <2>2 DEF Fees
  <2> QED
    BY <2>1, <2>2
<1>5. Charged(sum, surge, fee, ditco) = x * (IF ditco THEN 100 ELSE 101) * (100 + fee)
  BY Zenon DEF Charged, x
<1> QED
  BY <1>1, <1>4, <1>5, Zenon

\* The total with the fees, where no row reaches the lines below those for CLINs.
LEMMA TotalIs ==
  ASSUME NEW rows, NEW e,
         Below.subtotal \notin DOMAIN rows, Below.surge \notin DOMAIN rows,
         Below.total \notin DOMAIN rows, Below.shop \notin DOMAIN rows
  PROVE  TotalWithFees(rows, e)
           = Fees(Surged(SumOf([a \in DOMAIN rows |-> RowTotal(rows[a])]), e.surge), e.fee, e.ditco)
<1> DEFINE sum == SumOf([a \in DOMAIN rows |-> RowTotal(rows[a])])
           K22 == IF Below.subtotal \in DOMAIN rows THEN RowTotal(rows[Below.subtotal]) ELSE sum
           K23 == IF Below.surge \in DOMAIN rows THEN RowTotal(rows[Below.surge]) * 100 ELSE K22 * e.surge
           K24 == IF Below.total \in DOMAIN rows THEN RowTotal(rows[Below.total]) * 100 ELSE K22 * 100 + K23
<1>1. TotalWithFees(rows, e) = IF Below.shop \in DOMAIN rows /\ e.fee = 0 THEN NoValue
                               ELSE Fees(K24, e.fee, e.ditco)
  BY Zenon DEF TotalWithFees, RowTotal, Fees
<1> HIDE DEF sum
<1>2. K22 = sum
  BY Zenon
<1> HIDE DEF K22
<1>3. K23 = sum * e.surge
  BY <1>2, Zenon
<1> HIDE DEF K23
<1>4. K24 = Surged(sum, e.surge)
  BY <1>2, <1>3, Zenon DEF Surged
<1> HIDE DEF K24
<1>5. TotalWithFees(rows, e) = Fees(K24, e.fee, e.ditco)
  BY <1>1, Zenon
<1>6. TotalWithFees(rows, e) = Fees(Surged(sum, e.surge), e.fee, e.ditco)
  BY <1>4, <1>5, SMT
<1> QED
  BY <1>6, Zenon DEF sum

\* The grand total of the workbook, if the summary has lines for all CLINs.
LEMMA GrandTotalIs ==
  ASSUME NEW e, IsEstimate(e), ~WorkbookFails(e), AreBare(e.periods), AreFew(e.periods),
         Cardinality(ClinsIn(e.periods)) <= SummaryLines
  PROVE  GrandTotal(e) = AllItems(e.periods) * (100 + e.surge) * (IF e.ditco THEN 100 ELSE 101) * (100 + e.fee)
<1> DEFINE rows == SummaryRows(e)
           sum == SumOf([a \in DOMAIN rows |-> RowTotal(rows[a])])
<1>1. GrandTotal(e) = TotalWithFees(rows, e)
  BY Zenon DEF GrandTotal
<1>2. AreRowsOf(rows, Len(ContractClins(e)), e.periods)
  BY SummaryRowsAre
<1>3. sum = AllItems(e.periods) /\ sum \in Nat
  <2> HIDE DEF rows
  <2> QED
    BY <1>2, RowsAddUp
<1>4. e.surge \in Nat /\ e.fee \in Nat /\ e.ditco \in BOOLEAN
  BY DEF IsEstimate
<1> HIDE DEF sum, rows
<1>5. /\ Below.subtotal \notin DOMAIN rows /\ Below.surge \notin DOMAIN rows
      /\ Below.total \notin DOMAIN rows /\ Below.shop \notin DOMAIN rows
  <2> DEFINE m == Len(ContractClins(e))
  <2>1. DOMAIN rows = 1..m /\ m \in Nat /\ m <= SummaryLines
    BY <1>2 DEF AreRowsOf
  <2> HIDE DEF m
  <2> QED
    BY <2>1, IgceAssumption DEF Below
<1>6. GrandTotal(e) = Fees(Surged(sum, e.surge), e.fee, e.ditco)
  BY <1>1, <1>5, TotalIs, Zenon DEF sum
<1>7. Fees(Surged(sum, e.surge), e.fee, e.ditco) = Charged(sum, e.surge, e.fee, e.ditco)
  BY <1>3, <1>4, FeesAre
<1> QED
  BY <1>3, <1>6, <1>7, Zenon DEF Charged

\* The workbook of a container with an answer is that of an estimate of a request.
LEMMA WorkbookIsMadeFrom ==
  ASSUME IInv, Made("igce")
  PROVE  /\ IsEstimate(request.estimate) /\ ~WorkbookFails(request.estimate)
         /\ response.document.workbook = Workbook(request.estimate)
<1>1. response # NoAnswer
  BY DEF Made
<1>2. IsRequest(request)
  BY <1>1 DEF IInv, TypeOK
<1> QED
  BY <1>2 DEF IInv, IsWorkbookOfEstimate, IsRequest

\* The summary of a cost estimate, as the container gives it.
LEMMA ExactSummary == IInv => SummaryMatchesLineItems
<1> SUFFICES ASSUME IInv, Made("igce") PROVE SummaryMatchesLineItems
  BY Zenon DEF SummaryMatchesLineItems
<1> DEFINE e == request.estimate
           P == e.periods
           workbook == response.document.workbook
           summary == workbook.summary
           ItemClins(p) == {P[p].items[i].clin : i \in DOMAIN P[p].items}
           clins == UNION {ItemClins(p) : p \in DOMAIN P}
           all == SumOf([p \in DOMAIN P |->
                           SumOf([i \in DOMAIN P[p].items |->
                                    P[p].items[i].price * P[p].items[i].quantity])])
           agency == IF e.ditco THEN 100 ELSE 101
           Sums == \A r \in DOMAIN summary : summary[r].clin \in clins =>
                     \A p \in DOMAIN P :
                       summary[r].amounts[SheetOf(P[p])] = PricedUnder(P[p], summary[r].clin)
           Whole == /\ {summary[r].clin : r \in DOMAIN summary} = clins
                    /\ Len(summary) = Cardinality(clins)
                    /\ workbook.grandTotal = all * (100 + e.surge) * agency * (100 + e.fee)
<1>1. IsEstimate(e) /\ ~WorkbookFails(e) /\ workbook = Workbook(e)
  BY WorkbookIsMadeFrom
<1>2. summary = SummaryRows(e) /\ workbook.grandTotal = GrandTotal(e)
  BY <1>1 DEF Workbook
<1>3. clins = ClinsIn(P)
  <2>1. ToSet(P) = {P[p] : p \in DOMAIN P}
    BY DEF ToSet
  <2> HIDE DEF P
  <2> QED
    BY <2>1 DEF ClinsIn
<1>4. all = AllItems(P)
  BY DEF AllItems, Cost
<1>5. ASSUME NEW p \in DOMAIN P, NEW clin PROVE PricedUnder(P[p], clin) = SumOf(Added(P[p].items, clin))
  BY DEF PricedUnder, Added, Cost
<1>6. ASSUME \A c \in clins : ~c.padded,
             \A p \in DOMAIN P : Cardinality(ItemClins(p)) <= ClinLines
      PROVE  Sums /\ (Cardinality(clins) <= SummaryLines => Whole)
  <2> DEFINE m == Len(ContractClins(e))
  <2>1. AreBare(P) /\ AreFew(P)
    BY <1>3, <1>6, Zenon DEF AreBare, AreFew
  <2>2. /\ \A r \in DOMAIN summary : summary[r].clin \in ClinsIn(P) => ShowsCosts(summary[r], P)
        /\ Cardinality(ClinsIn(P)) <= SummaryLines => AreRowsOf(summary, m, P)
    BY <1>1, <1>2, <2>1, SummaryRowsAre
  <2>3. Cardinality(ClinsIn(P)) <= SummaryLines =>
          GrandTotal(e) = AllItems(P) * (100 + e.surge) * agency * (100 + e.fee)
    BY <1>1, <2>1, GrandTotalIs
  <2> HIDE DEF summary, m, P, clins, all, agency, workbook
  <2>4. Sums
    <3> SUFFICES ASSUME NEW r \in DOMAIN summary, summary[r].clin \in clins, NEW p \in DOMAIN P
                 PROVE  summary[r].amounts[SheetOf(P[p])] = PricedUnder(P[p], summary[r].clin)
      BY Zenon
    <3>1. summary[r].amounts[SheetOf(P[p])] = SumOf(Added(P[p].items, summary[r].clin))
      BY <1>3, <2>2 DEF ShowsCosts
    <3> QED
      BY <1>5, <3>1
  <2>5. ASSUME Cardinality(clins) <= SummaryLines PROVE Whole
    <3>1. AreRowsOf(summary, m, P)
      BY <1>3, <2>2, <2>5
    <3>2. DOMAIN summary = 1..m /\ Len(summary) = m
      BY <3>1 DEF AreRowsOf
    <3>3. {summary[r].clin : r \in DOMAIN summary} = clins /\ Cardinality(clins) = m
      BY <1>3, <3>1, <3>2 DEF AreRowsOf
    <3>4. workbook.grandTotal = all * (100 + e.surge) * agency * (100 + e.fee)
      BY <1>2, <1>3, <1>4, <2>3, <2>5
    <3> QED
      BY <3>2, <3>3, <3>4
  <2> HIDE DEF Sums, Whole
  <2> QED
    BY <2>4, <2>5
<1> QED
  BY <1>6, Zenon DEF SummaryMatchesLineItems

\* The formulas that generateIGCEDocument writes, for every estimate without padded CLINs
\* and with no more CLINs in a period than its sheet has lines: the summary shows the
\* costs of every CLIN that it has, and if the lines of the summary are enough for the
\* CLINs of all periods, it has all of them and the grand total adds every line item once.
THEOREM SummaryIsExact == Spec => []SummaryMatchesLineItems
BY Invariance, ExactSummary, PTL
=============================================================================
