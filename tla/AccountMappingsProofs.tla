----------------------- MODULE AccountMappingsProofs -----------------------
(***************************************************************************)
(* Facts about AccountMappings: stripped strings are strings, the text of a *)
(* mapping's id ends in its account, and what _find_mapping returns.        *)
(***************************************************************************)
EXTENDS AccountMappings, SequenceTheorems, WellFoundedInduction, TLAPS

LEMMA Least ==
  ASSUME NEW K, K \subseteq Nat, K # {}
  PROVE  \E i \in K : \A j \in K : i <= j
PROOF
<1>1. PICK i \in K : \A j \in K : ~(<<j, i>> \in OpToRel(<, Nat))
  BY NatLessThanWellFounded, WFMin
<1>2. \A j \in K : ~(j < i) BY <1>1 DEF OpToRel
<1>. QED BY <1>2

LEMMA Greatest ==
  ASSUME NEW n \in Nat, NEW K, K \subseteq 0..n, K # {}
  PROVE  \E i \in K : \A j \in K : i >= j
PROOF
<1>. DEFINE M == {n - i : i \in K}
<1>1. M \subseteq Nat
  <2>1. \A i \in K : n - i \in Nat OBVIOUS
  <2>. QED BY <2>1
<1>2. M # {} OBVIOUS
<1>3. PICK m \in M : \A j \in M : m <= j
  <2>. HIDE DEF M
  <2>. QED BY <1>1, <1>2, Least
<1>4. PICK i \in K : m = n - i OBVIOUS
<1>5. \A j \in K : m <= n - j BY <1>3
<1>. QED BY <1>4, <1>5

LEMMA StripIsString ==
  ASSUME NEW S, NEW s \in Seq(S)
  PROVE  Strip(s) \in Seq(S)
PROOF
<1>. DEFINE kept == {i \in DOMAIN s : s[i] \notin Blanks}
            first == CHOOSE i \in kept : \A j \in kept : i <= j
            last == CHOOSE i \in kept : \A j \in kept : i >= j
<1>1. CASE kept = {} BY <1>1 DEF Strip
<1>2. CASE kept # {}
  <2>1. kept \subseteq 1..Len(s) OBVIOUS
  <2>2. first \in kept
    <3>. HIDE DEF kept
    <3>1. kept \subseteq Nat BY <2>1
    <3>2. \E i \in kept : \A j \in kept : i <= j BY <1>2, <3>1, Least
    <3>. QED BY <3>2
  <2>3. last \in kept
    <3>. HIDE DEF kept
    <3>1. kept \subseteq 0..Len(s) /\ Len(s) \in Nat BY <2>1
    <3>2. \E i \in kept : \A j \in kept : i >= j BY <1>2, <3>1, Greatest
    <3>. QED BY <3>2
  <2>4. first \in 1..Len(s) /\ last \in 1..Len(s)
    <3>. HIDE DEF kept, first, last
    <3>. QED BY <2>1, <2>2, <2>3
  <2>5. SubSeq(s, first, last) \in Seq(S)
    <3>. HIDE DEF first, last
    <3>. QED BY <2>4
  <2>. QED BY <1>2, <2>5 DEF Strip
<1>. QED BY <1>1, <1>2

LEMMA NormalizedIsString ==
  ASSUME NEW s \in Seq(DOMAIN UpperCase)
  PROVE  Normalize(s) \in Seq({UpperCase[c] : c \in DOMAIN UpperCase})
PROOF
<1>1. Strip(s) \in Seq(DOMAIN UpperCase) BY StripIsString
<1>. QED BY <1>1 DEF Normalize

LEMMA WholeIsPart == ASSUME NEW S, NEW s \in Seq(S) PROVE IsIn(s, s)
PROOF
<1>1. SubSeq(s, 1, Len(s)) = s OBVIOUS
<1>2. 0 \in 0..(Len(s) - Len(s)) /\ 0 + 1 = 1 /\ 0 + Len(s) = Len(s) OBVIOUS
<1>. QED BY <1>1, <1>2 DEF IsIn

LEMMA IdEndsInAccount ==
  ASSUME NEW S, NEW sender \in Seq(S), NEW hint \in Seq(S), NEW account \in Seq(S),
         NEW id, id = MappingId(sender, hint, account)
  PROVE  EndsIn(id, account)
PROOF
<1>. DEFINE T == S \cup {":"}
            head == sender \o <<":">> \o hint
            front == head \o <<":">>
<1>1. sender \in Seq(T) /\ hint \in Seq(T) /\ <<":">> \in Seq(T) /\ account \in Seq(T)
  OBVIOUS
<1>. HIDE DEF T
<1>2. head \in Seq(T) BY <1>1, ConcatProperties
<1>. HIDE DEF head
<1>3. front \in Seq(T) /\ Len(front) \in Nat \ {0} /\ front[Len(front)] = ":"
  BY <1>1, <1>2, ConcatProperties
<1>. HIDE DEF front
<1>4. id = front \o account BY DEF MappingId, front, head
<1>5. /\ Len(id) = Len(front) + Len(account)
      /\ \A k \in 1..Len(front) : id[k] = front[k]
      /\ \A k \in 1..Len(account) : id[Len(front) + k] = account[k]
  BY <1>1, <1>3, <1>4
<1>6. Len(account) \in Nat /\ Len(id) - Len(account) = Len(front) BY <1>1, <1>3, <1>5
<1>. QED BY <1>3, <1>5, <1>6 DEF EndsIn

(* Two accounts that one text ends in are one, or one ends in the other. *)
LEMMA EndsInBoth ==
  ASSUME NEW S, NEW a \in Seq(S), NEW b \in Seq(S), NEW T, NEW s \in Seq(T),
         EndsIn(s, a), EndsIn(s, b)
  PROVE  a = b \/ EndsIn(a, b) \/ EndsIn(b, a)
PROOF
<1>1. ASSUME NEW c \in Seq(S), NEW d \in Seq(S), EndsIn(s, c), EndsIn(s, d), Len(d) < Len(c)
      PROVE  EndsIn(c, d)
  <2>. DEFINE rest == Len(c) - Len(d)
  <2>1. Len(s) \in Nat /\ Len(c) \in Nat /\ Len(d) \in Nat OBVIOUS
  <2>2. rest \in 1..Len(c) /\ (Len(s) - Len(c)) + rest = Len(s) - Len(d) BY <1>1, <2>1
  <2>3. c[rest] = ":" BY <1>1, <2>2 DEF EndsIn
  <2>4. ASSUME NEW k \in 1..Len(d) PROVE c[rest + k] = d[k]
    <3>1. rest + k \in 1..Len(c) /\ (Len(s) - Len(c)) + (rest + k) = (Len(s) - Len(d)) + k
      BY <2>1, <2>2
    <3>. HIDE DEF rest
    <3>. QED BY <1>1, <3>1 DEF EndsIn
  <2>. QED BY <2>1, <2>2, <2>3, <2>4 DEF EndsIn
<1>2. CASE Len(a) = Len(b)
  <2>1. \A k \in 1..Len(a) : a[k] = b[k] BY <1>2 DEF EndsIn
  <2>. QED BY <1>2, <2>1
<1>3. CASE Len(a) < Len(b) BY <1>1, <1>3
<1>4. CASE Len(b) < Len(a) BY <1>1, <1>4
<1>. QED BY <1>2, <1>3, <1>4

-----------------------------------------------------------------------------
(* _find_mapping *)

LEMMA FindsMatch ==
  ASSUME NEW f, NEW e, NEW id, Find(f, e, id) \notin {NotFound, Ambiguous}
  PROVE  /\ \E m \in Mappings(f) :
              Matches(m, e.sender, e.hint, id) /\ m.account = Find(f, e, id)
         /\ \A m \in Mappings(f) :
              Matches(m, e.sender, e.hint, id) => m.account = Find(f, e, id)
PROOF
<1>. DEFINE accounts == {m.account : m \in {n \in Mappings(f) : Matches(n, e.sender, e.hint, id)}}
<1>1. accounts # {} /\ (\A a, b \in accounts : a = b) /\ Find(f, e, id) \in accounts
  BY DEF Find
<1>. QED BY <1>1

LEMMA FindsOrDoubts ==
  ASSUME NEW f, NEW e, NEW id, NEW m \in Mappings(f), Matches(m, e.sender, e.hint, id)
  PROVE  \/ Find(f, e, id) = m.account
         \/ /\ Find(f, e, id) = Ambiguous
            /\ \E n \in Mappings(f) :
                 Matches(n, e.sender, e.hint, id) /\ n.account # m.account
PROOF
<1>. DEFINE accounts == {k.account : k \in {n \in Mappings(f) : Matches(n, e.sender, e.hint, id)}}
<1>1. m.account \in accounts OBVIOUS
<1>2. CASE \E a, b \in accounts : a # b
  <2>1. Find(f, e, id) = Ambiguous BY <1>1, <1>2 DEF Find
  <2>2. \E a \in accounts : a # m.account BY <1>2
  <2>. QED BY <2>1, <2>2
<1>3. CASE \A a, b \in accounts : a = b
  <2>1. accounts = {m.account} BY <1>1, <1>3
  <2>. QED BY <2>1 DEF Find
<1>. QED BY <1>2, <1>3
=============================================================================
