--------------------------- MODULE ScanResultProofs -------------------------
(***************************************************************************)
(* Proofs about ScanResult, for any number of findings: result.json is the  *)
(* canonical form of what gitleaks reported, a set has only one canonical   *)
(* form, and a signed verdict is the verdict of the scan.                   *)
(*                                                                         *)
(* The loop of sortAndDedupe overwrites the array it reads.  It is correct  *)
(* because it never writes at or after the position it reads next: what is  *)
(* kept lies before i, what is unread from i on, and LoopInv speaks of      *)
(* these two parts only.                                                    *)
(***************************************************************************)
EXTENDS ScanResult, WellFoundedInduction, TLAPS

-----------------------------------------------------------------------------
(***************************************************************************)
(* The order of findings is a strict total order (the comparison function   *)
(* that sortAndDedupe passes to sort.Slice).                                *)
(***************************************************************************)
LEMMA LessIsOrder ==
    ASSUME NEW f \in Finding, NEW g \in Finding, NEW h \in Finding
    PROVE  /\ ~Less(f, f)
           /\ Less(f, g) => ~Less(g, f)
           /\ Less(f, g) /\ Less(g, h) => Less(f, h)
           /\ f # g => Less(f, g) \/ Less(g, f)
  <1>1. /\ f.file \in Nat /\ f.rule \in Nat /\ f.fingerprint \in Nat
        /\ g.file \in Nat /\ g.rule \in Nat /\ g.fingerprint \in Nat
        /\ h.file \in Nat /\ h.rule \in Nat /\ h.fingerprint \in Nat
    BY ConstantsAssumption DEF Finding
  <1>2. f # g => \/ f.file # g.file
                 \/ f.rule # g.rule
                 \/ f.fingerprint # g.fingerprint
    BY DEF Finding
  <1> QED BY <1>1, <1>2 DEF Less

\* A reported sequence: its length, its domain and its elements.
LEMMA FoundFacts ==
    ASSUME NEW s \in Found
    PROVE  /\ Len(s) \in 0..MaxFindings
           /\ DOMAIN s = 1..Len(s)
           /\ s \in [1..Len(s) -> Finding]
           /\ s \in Seq(Finding)
  <1>1. PICK m \in 0..MaxFindings : s \in [1..m -> Finding]
    BY DEF Found
  <1>2. m \in Nat
    BY ConstantsAssumption
  <1>3. s \in Seq(Finding) /\ Len(s) = m
    BY <1>1, <1>2
  <1> QED BY <1>1, <1>2, <1>3

LEMMA FoundIntro ==
    ASSUME NEW m \in 0..MaxFindings, NEW s \in [1..m -> Finding]
    PROVE  s \in Found
  BY DEF Found
-----------------------------------------------------------------------------
(***************************************************************************)
(* Two canonical forms of one set that agree before a position of the first *)
(* agree there too.                                                         *)
(***************************************************************************)
LEMMA CanonicalStep ==
    ASSUME NEW s \in Found, NEW t \in Found, NEW set,
           Canonical(s, set), Canonical(t, set),
           NEW m \in DOMAIN s,
           \A k \in 1..(m - 1) : k \in DOMAIN t /\ s[k] = t[k]
    PROVE  m \in DOMAIN t /\ ~Less(s[m], t[m])
  <1>1. /\ DOMAIN s = 1..Len(s) /\ DOMAIN t = 1..Len(t)
        /\ Len(s) \in Nat /\ Len(t) \in Nat /\ m \in Nat \ {0}
    BY FoundFacts, ConstantsAssumption
  <1>2. PICK j \in DOMAIN t : t[j] = s[m]
    BY DEF Canonical, Range
  <1>3. j \in Nat \ {0} /\ s[m] \in Finding /\ t[j] \in Finding
    BY <1>1, <1>2, FoundFacts
  <1>4. ~(j < m)
    <2> SUFFICES ASSUME j < m PROVE FALSE
      OBVIOUS
    <2>1. j \in DOMAIN s /\ s[j] = t[j]
      BY <1>1, <1>3
    <2>2. Less(s[j], s[m])
      BY <2>1, <1>1 DEF Canonical
    <2> QED BY <2>1, <2>2, <1>2, <1>3, LessIsOrder
  <1>5. m \in DOMAIN t
    BY <1>1, <1>3, <1>4
  <1>6. ASSUME Less(s[m], t[m]) PROVE FALSE
    <2>1. t[m] \in Finding
      BY <1>5, <1>1, FoundFacts
    <2>2. CASE j = m
      BY <2>2, <1>2, <1>3, <1>6, LessIsOrder
    <2>3. CASE m < j
      <3>1. Less(t[m], t[j])
        BY <2>3, <1>5 DEF Canonical
      <3> QED BY <3>1, <2>1, <1>2, <1>3, <1>6, LessIsOrder
    <2> QED BY <2>2, <2>3, <1>1, <1>3, <1>4
  <1> QED BY <1>5, <1>6

\* A set of numbers that is not empty has a least element.
LEMMA LeastElement ==
    ASSUME NEW S, S \subseteq Nat, S # {}
    PROVE  \E m \in S : \A k \in S : ~(k < m)
  <1> DEFINE R == {ss \in Nat \X Nat : ss[1] < ss[2]}
  <1>1. IsWellFoundedOn(R, Nat)
    BY NatLessThanWellFounded, Zenon DEF OpToRel
  <1>2. \E m \in S : \A k \in S : ~(<<k, m>> \in R)
    <2> HIDE DEF R
    <2> QED BY <1>1, WFMin
  <1> QED BY <1>2

(***************************************************************************)
(* A set of findings has one canonical form: two scans that report the same *)
(* findings, in any order and any number of times, write the same result    *)
(* (the promise of Scan to be deterministic and reproducible).              *)
(***************************************************************************)
THEOREM CanonicalIsUnique ==
    ASSUME NEW s \in Found, NEW t \in Found, NEW set,
           Canonical(s, set), Canonical(t, set)
    PROVE  s = t
  <1> DEFINE Same(k) == k \in DOMAIN s /\ k \in DOMAIN t /\ s[k] = t[k]
             Differ == {k \in DOMAIN s \cup DOMAIN t : ~Same(k)}
  <1>1. /\ DOMAIN s = 1..Len(s) /\ DOMAIN t = 1..Len(t)
        /\ Len(s) \in Nat /\ Len(t) \in Nat
        /\ s \in [1..Len(s) -> Finding] /\ t \in [1..Len(t) -> Finding]
    BY FoundFacts, ConstantsAssumption
  <1>2. ASSUME Differ # {} PROVE FALSE
    <2>1. Differ \subseteq Nat
      BY <1>1
    <2>2. PICK m \in Differ : \A k \in Differ : ~(k < m)
      <3> HIDE DEF Differ
      <3> QED BY <1>2, <2>1, LeastElement
    <2>3. \A k \in Differ : ~(k < m)
      BY <2>2
    <2>4. m \in Nat \ {0} /\ (m \in DOMAIN s \/ m \in DOMAIN t)
      BY <1>1
    <2>5. \A k \in 1..(m - 1) : Same(k)
      <3> SUFFICES ASSUME NEW k \in 1..(m - 1) PROVE Same(k)
        OBVIOUS
      <3>1. k \in DOMAIN s \cup DOMAIN t
        BY <2>4, <1>1
      <3>2. k < m
        BY <2>4
      <3> QED BY <3>1, <3>2, <2>3
    <2>6. m \in DOMAIN s => m \in DOMAIN t /\ ~Less(s[m], t[m])
      BY <2>5, CanonicalStep
    <2>7. m \in DOMAIN t => m \in DOMAIN s /\ ~Less(t[m], s[m])
      BY <2>5, CanonicalStep
    <2>8. s[m] \in Finding /\ t[m] \in Finding /\ s[m] # t[m]
      BY <2>4, <2>6, <2>7, <1>1
    <2> QED BY <2>4, <2>6, <2>7, <2>8, LessIsOrder
  <1>3. DOMAIN s = DOMAIN t /\ \A k \in DOMAIN s : s[k] = t[k]
    BY <1>2
  <1> QED BY <1>1, <1>3
-----------------------------------------------------------------------------
(***************************************************************************)
(* The inductive invariant.                                                 *)
(***************************************************************************)
Unread == i..Len(array)

\* While the loop runs: what is kept is canonical, what is unread is sorted
\* and not before anything kept, and together they are what was reported.
LoopInv ==
    /\ i <= Len(array) + 1 /\ kept < i
    /\ i > 1 => kept > 0
    /\ \A k, l \in 1..kept : k < l => Less(array[k], array[l])
    /\ \A k, l \in Unread : k < l => ~Less(array[l], array[k])
    /\ \A k \in 1..kept, l \in Unread : ~Less(array[l], array[k])
    /\ \A k \in (1..kept) \cup Unread : array[k] \in Range(raw)
    /\ \A x \in Range(raw) : \E k \in (1..kept) \cup Unread : array[k] = x

IInv ==
    /\ TypeOK
    /\ pc = "detect" => raw = <<>>
    /\ pc \in {"detect", "sort"} => i = 1 /\ kept = 0
    /\ pc = "dedupe" => LoopInv
    /\ pc = "write" => kept <= Len(array) /\ Canonical(Findings, Range(raw))
    /\ result # NoResult => Canonical(result, Range(raw)) /\ pc \in {"exited", "over"}
    /\ attested # {} => pc = "over"
    /\ VerdictIsTheScans

LEMMA InitInv == Init => IInv
  <1> SUFFICES ASSUME Init PROVE IInv
    OBVIOUS
  <1>1. <<>> \in Found
    <2>1. <<>> \in [1..0 -> Finding] /\ 0 \in 0..MaxFindings
      BY ConstantsAssumption
    <2> QED BY <2>1, FoundIntro
  <1>2. TypeOK
    <2>1. 1 \in 1..(MaxFindings + 1) /\ 0 \in 0..MaxFindings
      BY ConstantsAssumption
    <2>2. {} \subseteq Verdict
      OBVIOUS
    <2> QED BY <1>1, <2>1, <2>2, Zenon DEF Init, TypeOK
  <1> QED BY <1>2 DEF Init, IInv, VerdictIsTheScans

\* Sorting: every finding reported is somewhere in the array, and no other.
LEMMA SortInv == IInv /\ Sort => IInv'
  <1> SUFFICES ASSUME IInv, Sort PROVE IInv'
    OBVIOUS
  <1> USE DEF Sort
  <1>0. raw \in Found
    BY DEF IInv, TypeOK
  <1>1. /\ DOMAIN raw = 1..Len(raw) /\ Len(raw) \in 0..MaxFindings
        /\ Len(raw) \in Nat /\ raw \in [1..Len(raw) -> Finding]
    BY <1>0, FoundFacts, ConstantsAssumption
  <1>2. PICK p \in Bijection(DOMAIN raw, DOMAIN raw) :
            array' = [k \in DOMAIN raw |-> raw[p[k]]]
    OBVIOUS
  <1>3. /\ p \in [1..Len(raw) -> 1..Len(raw)]
        /\ \A k \in 1..Len(raw) : \E l \in 1..Len(raw) : p[l] = k
    BY <1>1 DEF Bijection, Injection, Surjection
  <1>4. array' \in [1..Len(raw) -> Finding]
    BY <1>1, <1>2, <1>3
  <1>5. array' \in Found /\ Len(array') = Len(raw)
    BY <1>1, <1>4, FoundIntro
  <1>6. TypeOK'
    BY <1>5 DEF IInv, TypeOK
  <1>7. LoopInv'
    <2>1. i = 1 /\ kept = 0 /\ i' = i /\ kept' = kept /\ raw' = raw
      BY DEF IInv
    <2>2. Unread' = 1..Len(raw) /\ (1..kept)' = {}
      BY <1>5, <2>1 DEF Unread
    <2>3. \A k \in 1..Len(raw) : array'[k] \in Range(raw)
      BY <1>1, <1>2, <1>3 DEF Range
    <2>4. \A x \in Range(raw) : \E k \in 1..Len(raw) : array'[k] = x
      <3> SUFFICES ASSUME NEW x \in Range(raw)
                   PROVE  \E k \in 1..Len(raw) : array'[k] = x
        OBVIOUS
      <3>1. PICK k \in 1..Len(raw) : raw[k] = x
        BY <1>1 DEF Range
      <3>2. PICK l \in 1..Len(raw) : p[l] = k
        BY <1>3
      <3>3. array'[l] = x
        BY <1>1, <1>2, <3>1, <3>2
      <3> QED BY <3>3
    <2>5. \A k, l \in 1..Len(raw) : k < l => ~Less(array'[l], array'[k])
      BY <1>5 DEF Sorted
    <2> QED BY <1>1, <1>5, <2>1, <2>2, <2>3, <2>4, <2>5 DEF LoopInv
  <1> QED BY <1>6, <1>7 DEF IInv, VerdictIsTheScans

\* Keeping: the finding at i comes after everything kept, and the position it
\* is copied to is kept already or not read again.
LEMMA KeepInv == IInv /\ Keep => IInv'
  <1> SUFFICES ASSUME IInv, Keep PROVE IInv'
    OBVIOUS
  <1> USE DEF Keep
  <1>0. array \in Found /\ i \in 1..(MaxFindings + 1) /\ kept \in 0..MaxFindings
    BY DEF IInv, TypeOK
  <1>1. /\ array \in Found /\ DOMAIN array = 1..Len(array)
        /\ Len(array) \in 0..MaxFindings /\ Len(array) \in Nat
        /\ array \in [1..Len(array) -> Finding]
        /\ i \in Nat \ {0} /\ kept \in Nat /\ MaxFindings \in Nat
    BY <1>0, FoundFacts, ConstantsAssumption
  <1>2. LoopInv
    BY DEF IInv
  <1>3. i <= Len(array) /\ kept < i /\ kept + 1 \in 1..Len(array)
    BY <1>1, <1>2 DEF LoopInv
  <1>4. array' \in [1..Len(array) -> Finding] /\ array' \in Found /\ Len(array') = Len(array)
    <2>1. array[i] \in Finding
      BY <1>1, <1>3
    <2>2. array' \in [1..Len(array) -> Finding]
      BY <1>1, <2>1
    <2>3. array' \in Found
      BY <1>1, <2>2, FoundIntro
    <2>4. Len(array') = Len(array)
      BY <1>1, <2>2
    <2> QED BY <2>2, <2>3, <2>4
  <1>5. TypeOK'
    <2>1. i' \in 1..(MaxFindings + 1) /\ kept' \in 0..MaxFindings
      BY <1>1, <1>3
    <2> QED BY <1>4, <2>1 DEF IInv, TypeOK
  <1>6. /\ array'[kept + 1] = array[i]
        /\ \A k \in 1..kept : array'[k] = array[k]
        /\ \A k \in (i + 1)..Len(array) : array'[k] = array[k]
    BY <1>1, <1>3
  <1>7. Unread' = (i + 1)..Len(array) /\ kept' = kept + 1 /\ raw' = raw
    BY <1>4 DEF Unread
  <1>8. \A k \in 1..kept : Less(array[k], array[i])
    <2> SUFFICES ASSUME NEW k \in 1..kept PROVE Less(array[k], array[i])
      OBVIOUS
    <2>1. /\ kept \in 1..kept /\ i \in Unread /\ i > 1
          /\ array[k] \in Finding /\ array[i] \in Finding /\ array[kept] \in Finding
      BY <1>1, <1>3 DEF Unread
    <2>2. Less(array[kept], array[i])
      <3>1. ~Less(array[i], array[kept])
        BY <1>2, <2>1 DEF LoopInv
      <3>2. array[i] # array[kept]
        BY <2>1 DEF IsNew
      <3> QED BY <2>1, <3>1, <3>2, LessIsOrder
    <2>3. k = kept \/ Less(array[k], array[kept])
      BY <1>1, <1>2, <2>1 DEF LoopInv
    <2> QED BY <2>1, <2>2, <2>3, LessIsOrder
  <1>9. LoopInv'
    <2>1. i' <= Len(array') + 1 /\ kept' < i' /\ kept' > 0
      BY <1>1, <1>3, <1>4
    <2>2. \A k, l \in 1..kept' : k < l => Less(array'[k], array'[l])
      <3> SUFFICES ASSUME NEW k \in 1..(kept + 1), NEW l \in 1..(kept + 1), k < l
                   PROVE  Less(array'[k], array'[l])
        OBVIOUS
      <3>1. k \in 1..kept
        BY <1>1
      <3>2. CASE l = kept + 1
        BY <3>1, <3>2, <1>6, <1>8
      <3>3. CASE l \in 1..kept
        BY <3>1, <3>3, <1>2, <1>6 DEF LoopInv
      <3> QED BY <1>1, <3>2, <3>3
    <2>3. \A k, l \in Unread' : k < l => ~Less(array'[l], array'[k])
      BY <1>1, <1>2, <1>6, <1>7 DEF LoopInv, Unread
    <2>4. \A k \in 1..kept', l \in Unread' : ~Less(array'[l], array'[k])
      <3> SUFFICES ASSUME NEW k \in 1..(kept + 1), NEW l \in (i + 1)..Len(array)
                   PROVE  ~Less(array'[l], array'[k])
        BY <1>7
      <3>1. l \in Unread /\ i \in Unread /\ i < l /\ array'[l] = array[l]
        BY <1>1, <1>3, <1>6 DEF Unread
      <3>2. CASE k = kept + 1
        BY <3>1, <3>2, <1>2, <1>6 DEF LoopInv
      <3>3. CASE k \in 1..kept
        BY <3>1, <3>3, <1>2, <1>6 DEF LoopInv
      <3> QED BY <1>1, <3>2, <3>3
    <2>5. \A k \in (1..kept') \cup Unread' : array'[k] \in Range(raw)
      <3> SUFFICES ASSUME NEW k \in (1..(kept + 1)) \cup ((i + 1)..Len(array))
                   PROVE  array'[k] \in Range(raw)
        BY <1>7
      <3>1. CASE k = kept + 1
        <4>1. i \in Unread
          BY <1>1, <1>3 DEF Unread
        <4> QED BY <3>1, <4>1, <1>2, <1>6 DEF LoopInv
      <3>2. CASE k \in (1..kept) \cup ((i + 1)..Len(array))
        <4>1. k \in (1..kept) \cup Unread /\ array'[k] = array[k]
          BY <3>2, <1>1, <1>6 DEF Unread
        <4> QED BY <4>1, <1>2 DEF LoopInv
      <3> QED BY <1>1, <3>1, <3>2
    <2>6. \A x \in Range(raw) : \E k \in (1..kept') \cup Unread' : array'[k] = x
      <3> SUFFICES ASSUME NEW x \in Range(raw)
                   PROVE  \E k \in (1..(kept + 1)) \cup ((i + 1)..Len(array)) : array'[k] = x
        BY <1>7
      <3>1. PICK k \in (1..kept) \cup Unread : array[k] = x
        BY <1>2 DEF LoopInv
      <3>2. CASE k = i
        BY <3>1, <3>2, <1>1, <1>6
      <3>3. CASE k \in (1..kept) \cup ((i + 1)..Len(array))
        BY <3>1, <3>3, <1>1, <1>6
      <3> QED BY <1>1, <3>2, <3>3 DEF Unread
    <2> QED BY <1>7, <2>1, <2>2, <2>3, <2>4, <2>5, <2>6 DEF LoopInv
  <1> QED BY <1>5, <1>9 DEF IInv, VerdictIsTheScans

\* Dropping: the finding at i is the last one kept.
LEMMA DropInv == IInv /\ Drop => IInv'
  <1> SUFFICES ASSUME IInv, Drop PROVE IInv'
    OBVIOUS
  <1> USE DEF Drop
  <1>0. array \in Found /\ i \in 1..(MaxFindings + 1) /\ kept \in 0..MaxFindings
    BY DEF IInv, TypeOK
  <1>1. /\ Len(array) \in 0..MaxFindings /\ i \in Nat \ {0}
        /\ kept \in Nat /\ MaxFindings \in Nat /\ Len(array) \in Nat
    BY <1>0, FoundFacts, ConstantsAssumption
  <1>2. LoopInv
    BY DEF IInv
  <1>3. i > 1 /\ array[i] = array[kept] /\ kept \in 1..kept /\ i <= Len(array)
    BY <1>1, <1>2 DEF LoopInv, IsNew
  <1>4. TypeOK'
    <2>1. i' \in 1..(MaxFindings + 1)
      BY <1>1, <1>3
    <2> QED BY <2>1 DEF IInv, TypeOK
  <1>5. Unread' = (i + 1)..Len(array) /\ Unread' \subseteq Unread
    BY <1>1 DEF Unread
  <1>6. LoopInv'
    <2>1. i' <= Len(array') + 1 /\ kept' < i' /\ kept' > 0
      BY <1>1, <1>2, <1>3 DEF LoopInv
    <2>2. \A x \in Range(raw) : \E k \in (1..kept) \cup Unread' : array[k] = x
      <3> SUFFICES ASSUME NEW x \in Range(raw)
                   PROVE  \E k \in (1..kept) \cup Unread' : array[k] = x
        OBVIOUS
      <3>1. PICK k \in (1..kept) \cup Unread : array[k] = x
        BY <1>2 DEF LoopInv
      <3>2. CASE k = i
        BY <3>1, <3>2, <1>3
      <3>3. CASE k \in (1..kept) \cup Unread'
        BY <3>1, <3>3
      <3>4. k = i \/ k \in (1..kept) \cup Unread'
        BY <1>1, <1>5 DEF Unread
      <3> QED BY <3>2, <3>3, <3>4
    <2>3. /\ \A k, l \in 1..kept : k < l => Less(array[k], array[l])
          /\ \A k, l \in Unread' : k < l => ~Less(array[l], array[k])
          /\ \A k \in 1..kept, l \in Unread' : ~Less(array[l], array[k])
          /\ \A k \in (1..kept) \cup Unread' : array[k] \in Range(raw)
      BY <1>2, <1>5 DEF LoopInv
    <2> QED BY <2>1, <2>2, <2>3 DEF LoopInv
  <1> QED BY <1>4, <1>6 DEF IInv, VerdictIsTheScans

\* The elements of the slice that sortAndDedupe returns.
LEMMA FindingsFacts ==
    ASSUME array \in Found, kept \in 0..MaxFindings, kept <= Len(array)
    PROVE  /\ Findings \in [1..kept -> Finding] /\ Findings \in Found
           /\ Len(Findings) = kept /\ DOMAIN Findings = 1..kept
           /\ \A k \in 1..kept : Findings[k] = array[k]
  <1>1. /\ array \in [1..Len(array) -> Finding] /\ array \in Seq(Finding)
        /\ Len(array) \in Nat /\ kept \in Nat
    BY FoundFacts, ConstantsAssumption
  <1>2. Findings = [k \in 1..kept |-> array[k]]
    BY <1>1 DEF Findings
  <1>3. Findings \in [1..kept -> Finding]
    BY <1>1, <1>2
  <1>4. Findings \in Found
    BY <1>3, FoundIntro
  <1>5. Len(Findings) = kept
    BY <1>1, <1>3
  <1> QED BY <1>2, <1>3, <1>4, <1>5

LEMMA EndDedupeInv == IInv /\ EndDedupe => IInv'
  <1> SUFFICES ASSUME IInv, EndDedupe PROVE IInv'
    OBVIOUS
  <1> USE DEF EndDedupe
  <1>0. array \in Found /\ i \in 1..(MaxFindings + 1) /\ kept \in 0..MaxFindings
    BY DEF IInv, TypeOK
  <1>1. /\ i \in Nat \ {0} /\ kept \in Nat /\ Len(array) \in Nat
    BY <1>0, FoundFacts, ConstantsAssumption
  <1>2. LoopInv
    BY DEF IInv
  <1>3. kept <= Len(array) /\ Unread = {}
    BY <1>1, <1>2 DEF LoopInv, Unread
  <1>4. /\ DOMAIN Findings = 1..kept
        /\ \A k \in 1..kept : Findings[k] = array[k]
    BY <1>0, <1>3, FindingsFacts
  <1>5. \A k, l \in DOMAIN Findings : k < l => Less(Findings[k], Findings[l])
    BY <1>2, <1>4 DEF LoopInv
  <1>6. Range(Findings) = Range(raw)
    <2>1. \A x \in Range(Findings) : x \in Range(raw)
      <3> SUFFICES ASSUME NEW x \in Range(Findings) PROVE x \in Range(raw)
        OBVIOUS
      <3>1. PICK k \in 1..kept : Findings[k] = x
        BY <1>4 DEF Range
      <3> QED BY <3>1, <1>2, <1>4 DEF LoopInv
    <2>2. \A x \in Range(raw) : x \in Range(Findings)
      <3> SUFFICES ASSUME NEW x \in Range(raw) PROVE x \in Range(Findings)
        OBVIOUS
      <3>1. PICK k \in 1..kept : array[k] = x
        BY <1>2, <1>3 DEF LoopInv
      <3> QED BY <3>1, <1>4 DEF Range
    <2> QED BY <2>1, <2>2
  <1>7. Canonical(Findings, Range(raw))
    BY <1>5, <1>6 DEF Canonical
  <1>8. Findings' = Findings
    BY DEF Findings
  <1>9. TypeOK'
    BY DEF IInv, TypeOK
  <1> QED BY <1>3, <1>7, <1>8, <1>9 DEF IInv, VerdictIsTheScans, Canonical

LEMMA WriteResultInv == IInv /\ WriteResult => IInv'
  <1> SUFFICES ASSUME IInv, WriteResult PROVE IInv'
    OBVIOUS
  <1> USE DEF WriteResult
  <1>1. /\ array \in Found /\ kept \in 0..MaxFindings /\ kept <= Len(array)
        /\ Canonical(Findings, Range(raw)) /\ attested = {}
    BY DEF IInv, TypeOK
  <1>2. result' \in Found
    BY <1>1, FindingsFacts
  <1>3. TypeOK'
    BY <1>2 DEF IInv, TypeOK
  <1>4. Canonical(result, Range(raw))'
    BY <1>1 DEF Canonical
  <1> QED BY <1>1, <1>3, <1>4 DEF IInv, VerdictIsTheScans

\* Recording: a canonical result is empty exactly if nothing was reported.
LEMMA RecordInv == IInv /\ Record => IInv'
  <1> SUFFICES ASSUME IInv, Record PROVE IInv'
    OBVIOUS
  <1> USE DEF Record
  <1>1. /\ attested = {} /\ event = "push" /\ code \in {"0", "1"}
        /\ Canonical(result, Range(raw))
        /\ result \in Found /\ raw \in Found
    BY DEF IInv, TypeOK, RecordJobRuns
  <1>2. /\ DOMAIN result = 1..Len(result) /\ DOMAIN raw = 1..Len(raw)
        /\ Len(result) \in Nat /\ Len(raw) \in Nat
        /\ result \in [1..Len(result) -> Finding] /\ raw \in [1..Len(raw) -> Finding]
        /\ raw \in Seq(Finding)
    BY <1>1, FoundFacts, ConstantsAssumption
  <1>3. Range(result) = Range(raw)
    BY <1>1 DEF Canonical
  <1>4. raw = <<>> <=> Len(raw) = 0
    BY <1>2
  <1>5. Len(result) > 0 <=> raw # <<>>
    <2>1. ASSUME Len(result) > 0 PROVE Len(raw) # 0
      <3>1. result[1] \in Range(raw)
        BY <2>1, <1>2, <1>3 DEF Range
      <3> QED BY <3>1, <1>2 DEF Range
    <2>2. ASSUME Len(raw) # 0 PROVE Len(result) > 0
      <3>1. 1 \in DOMAIN raw /\ raw[1] \in Range(raw)
        BY <2>2, <1>2 DEF Range
      <3>2. raw[1] \in Range(result)
        BY <3>1, <1>3
      <3> QED BY <3>2, <1>2 DEF Range
    <2> QED BY <1>4, <2>1, <2>2
  <1> DEFINE v == VerdictOf(result)
  <1>6. v.failed = {raw[k].rule : k \in DOMAIN raw}
    <2>1. v.failed = {x.rule : x \in Range(result)}
      BY DEF VerdictOf, Range
    <2>2. {raw[k].rule : k \in DOMAIN raw} = {x.rule : x \in Range(raw)}
      BY DEF Range
    <2> QED BY <2>1, <2>2, <1>3
  <1>7. v.outcome = "PASSED" <=> raw = <<>>
    BY <1>5 DEF VerdictOf
  <1>8. v.findings = result
    BY DEF VerdictOf
  <1>9. v \in Verdict
    <2>1. {result[k].rule : k \in DOMAIN result} \subseteq RuleIDs
      BY <1>2 DEF Finding
    <2> QED BY <2>1, <1>1 DEF VerdictOf, Verdict
  <1>10. attested' = {v}
    BY <1>1
  <1>11. TypeOK'
    <2>1. attested' \subseteq Verdict
      BY <1>9, <1>10
    <2> QED BY <2>1 DEF IInv, TypeOK
  <1>12. VerdictIsTheScans'
    <2> HIDE DEF v
    <2> QED BY <1>1, <1>6, <1>7, <1>8, <1>10 DEF VerdictIsTheScans
  <1>13. Canonical(result, Range(raw))'
    BY <1>1 DEF Canonical
  <1> QED BY <1>11, <1>12, <1>13 DEF IInv

\* Nothing has been signed before a scan begins; a step that only ends the
\* scan or the workflow leaves the result and the verdict alone.
LEMMA DetectSecretsInv ==
    ASSUME NEW found \in Found, IInv, DetectSecrets(found)
    PROVE  IInv'
  <1> USE DEF DetectSecrets
  <1>1. attested = {} /\ result = NoResult
    BY DEF IInv
  <1>2. TypeOK'
    BY DEF IInv, TypeOK
  <1> QED BY <1>1, <1>2 DEF IInv, VerdictIsTheScans

\* The writing fails or is cut off: what is left behind is nothing, or all of
\* a canonical result, which nobody has signed.
LEMMA WriteBreaksInv ==
    ASSUME IInv, pc = "write", result' \in {NoResult, Findings}, code' \in {code, "2"},
           pc' = "exited", UNCHANGED <<event, raw, array, i, kept, attested>>
    PROVE  IInv'
  <1>1. /\ array \in Found /\ kept \in 0..MaxFindings /\ kept <= Len(array)
        /\ Canonical(Findings, Range(raw)) /\ attested = {}
    BY DEF IInv, TypeOK
  <1>2. result' \in Found \cup {NoResult}
    BY <1>1, FindingsFacts
  <1>3. TypeOK'
    BY <1>2 DEF IInv, TypeOK
  <1>4. (result # NoResult => Canonical(result, Range(raw)))'
    BY <1>1 DEF Canonical
  <1> QED BY <1>1, <1>3, <1>4 DEF IInv, VerdictIsTheScans

LEMMA EndInv ==
    ASSUME IInv, ScanFails \/ WriteFails \/ ScanJobLost \/ NotRecorded
    PROVE  IInv'
  <1>1. CASE WriteFails
    BY <1>1, WriteBreaksInv DEF WriteFails
  <1>2. CASE ScanJobLost /\ pc = "write" /\ result' = Findings
    BY <1>2, WriteBreaksInv DEF ScanJobLost
  <1>3. CASE ScanFails \/ (ScanJobLost /\ UNCHANGED result) \/ NotRecorded
    <2>0. /\ result' = result /\ raw' = raw /\ array' = array /\ i' = i /\ kept' = kept
          /\ attested' = attested /\ event' = event /\ code' \in {code, "2"}
          /\ pc' \in {"exited", "over"} /\ (pc' = "exited" => pc # "over")
          /\ pc # "over" \/ code' = code
      BY <1>3 DEF ScanFails, ScanJobLost, NotRecorded
    <2>1. TypeOK'
      BY <2>0 DEF IInv, TypeOK
    <2>2. VerdictIsTheScans'
      BY <2>0 DEF IInv, VerdictIsTheScans
    <2>3. (result # NoResult => Canonical(result, Range(raw)))'
      BY <2>0 DEF IInv, Canonical
    <2> QED BY <2>0, <2>1, <2>2, <2>3 DEF IInv
  <1> QED BY <1>1, <1>2, <1>3 DEF ScanJobLost

LEMMA NextInv == IInv /\ [Next]_vars => IInv'
  <1> SUFFICES ASSUME IInv, [Next]_vars PROVE IInv'
    OBVIOUS
  <1>1. ASSUME NEW found \in Found, DetectSecrets(found) PROVE IInv'
    BY <1>1, DetectSecretsInv
  <1>2. CASE ScanFails \/ WriteFails \/ ScanJobLost \/ NotRecorded
    BY <1>2, EndInv
  <1>3. CASE Sort
    BY <1>3, SortInv
  <1>4. CASE Keep
    BY <1>4, KeepInv
  <1>5. CASE Drop
    BY <1>5, DropInv
  <1>6. CASE EndDedupe
    BY <1>6, EndDedupeInv
  <1>7. CASE WriteResult
    BY <1>7, WriteResultInv
  <1>8. CASE Record
    BY <1>8, RecordInv
  <1>9. CASE UNCHANGED vars
    <2>1. /\ event' = event /\ pc' = pc /\ raw' = raw /\ array' = array /\ i' = i
          /\ kept' = kept /\ result' = result /\ code' = code /\ attested' = attested
      BY <1>9 DEF vars
    <2>2. TypeOK' = TypeOK
      BY <2>1 DEF TypeOK
    <2>3. LoopInv' = LoopInv
      BY <2>1 DEF LoopInv, Unread
    <2>4. /\ (Canonical(Findings, Range(raw)))' = Canonical(Findings, Range(raw))
          /\ (Canonical(result, Range(raw)))' = Canonical(result, Range(raw))
      BY <2>1 DEF Canonical, Findings
    <2>5. VerdictIsTheScans' = VerdictIsTheScans
      BY <2>1 DEF VerdictIsTheScans
    <2> QED BY <2>1, <2>2, <2>3, <2>4, <2>5 DEF IInv
  <1> QED BY <1>1, <1>2, <1>3, <1>4, <1>5, <1>6, <1>7, <1>8, <1>9 DEF Next

LEMMA Invariance == Spec => []IInv
  BY InitInv, NextInv, PTL DEF Spec
-----------------------------------------------------------------------------
\* The types hold for every set of findings and every bound on their number:
\* in particular the loop never writes outside the array.
THEOREM TypeCorrect == Spec => []TypeOK
  <1>1. IInv => TypeOK
    BY DEF IInv
  <1> QED BY <1>1, Invariance, PTL

\* result.json is the canonical form of what gitleaks reported, whatever it
\* reports and in whatever order (sortAndDedupe, runScan).
THEOREM ResultIsCanonicalHolds == Spec => []ResultIsCanonical
  <1>1. IInv => ResultIsCanonical
    BY DEF IInv, ResultIsCanonical
  <1> QED BY <1>1, Invariance, PTL

\* A signed verdict is the verdict of a completed scan of a push (the record
\* job's "if", buildEvent).
THEOREM VerdictIsTheScansHolds == Spec => []VerdictIsTheScans
  <1>1. IInv => VerdictIsTheScans
    BY DEF IInv
  <1> QED BY <1>1, Invariance, PTL
=============================================================================
