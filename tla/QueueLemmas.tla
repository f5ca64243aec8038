----------------------------- MODULE QueueLemmas -----------------------------
(****************************************************************************)
(* The queues of the thread system never hold a thread twice.  What the     *)
(* operations of a list do to such a queue and to the set of its members.   *)
(****************************************************************************)
EXTENDS Naturals, Sequences, Functions, SequenceTheorems, TLAPS

\* q holds every member of M once, and nothing else.
Holds(q, M) == q \in Seq(M) /\ IsInjective(q) /\ Range(q) = M

\* A list of the right type holds its range when it repeats nothing.
LEMMA HoldsRange ==
  ASSUME NEW S, NEW q \in Seq(S), NEW M
  PROVE  Holds(q, M) <=> IsInjective(q) /\ Range(q) = M
BY SeqOfRange DEF Holds

\* The empty list holds nothing.
LEMMA HoldsNone == Holds(<<>>, {})
BY SMT DEF Holds, IsInjective, Range

\* A list of one element holds it.
LEMMA HoldsOne == ASSUME NEW x PROVE Holds(<<x>>, {x})
<1>1. <<x>> \in Seq({x}) /\ DOMAIN <<x>> = {1} /\ <<x>>[1] = x
  OBVIOUS
<1> QED BY <1>1 DEF Holds, IsInjective, Range

\* Two lists with no common member, one after the other, hold the members of
\* both.
LEMMA HoldsConcat ==
  ASSUME NEW A, NEW B, NEW p, NEW q,
         Holds(p, A), Holds(q, B), A \cap B = {}
  PROVE  Holds(p \o q, A \cup B)
<1>1. p \in Seq(A \cup B) /\ q \in Seq(A \cup B)
  BY SMT DEF Holds
<1>2. p \o q \in Seq(A \cup B) /\ Range(p \o q) = A \cup B
  BY <1>1, RangeConcatenation, ConcatProperties DEF Holds
<1>3. /\ Len(p \o q) = Len(p) + Len(q)
      /\ \A i \in 1 .. Len(p) + Len(q) :
           (p \o q)[i] = IF i <= Len(p) THEN p[i] ELSE q[i - Len(p)]
  BY <1>1, ConcatProperties
<1>4. /\ DOMAIN p = 1 .. Len(p) /\ DOMAIN q = 1 .. Len(q)
      /\ DOMAIN (p \o q) = 1 .. Len(p) + Len(q)
      /\ Len(p) \in Nat /\ Len(q) \in Nat
  BY <1>1, <1>2, <1>3, LenProperties
<1>5. /\ \A i \in 1 .. Len(p) : p[i] \in A
      /\ \A i \in 1 .. Len(q) : q[i] \in B
  BY <1>4 DEF Holds, Range
<1>6. ASSUME NEW i \in 1 .. Len(p) + Len(q), NEW j \in 1 .. Len(p) + Len(q),
             (p \o q)[i] = (p \o q)[j]
      PROVE  i = j
  <2>1. CASE i <= Len(p) /\ j <= Len(p)
    BY <2>1, <1>3, <1>4, <1>6 DEF Holds, IsInjective
  <2>2. CASE ~(i <= Len(p)) /\ ~(j <= Len(p))
    <3>1. i - Len(p) \in 1 .. Len(q) /\ j - Len(p) \in 1 .. Len(q)
      BY <2>2, <1>4
    <3>2. q[i - Len(p)] = q[j - Len(p)]
      BY <2>2, <1>3, <1>6
    <3>3. i - Len(p) = j - Len(p)
      BY <3>1, <3>2, <1>4 DEF Holds, IsInjective
    <3> QED BY <3>3, <1>4
  <2>3. CASE i <= Len(p) /\ ~(j <= Len(p))
    <3>1. i \in 1 .. Len(p) /\ j - Len(p) \in 1 .. Len(q)
      BY <2>3, <1>4
    <3> QED BY <3>1, <2>3, <1>3, <1>5, <1>6
  <2>4. CASE ~(i <= Len(p)) /\ j <= Len(p)
    <3>1. j \in 1 .. Len(p) /\ i - Len(p) \in 1 .. Len(q)
      BY <2>4, <1>4
    <3> QED BY <3>1, <2>4, <1>3, <1>5, <1>6
  <2> QED BY <2>1, <2>2, <2>3, <2>4
<1>7. IsInjective(p \o q)
  BY <1>4, <1>6 DEF IsInjective
<1> QED BY <1>2, <1>7 DEF Holds

\* An element that a list does not hold can be appended to it.
LEMMA HoldsAppend ==
  ASSUME NEW A, NEW q, NEW x, Holds(q, A), x \notin A
  PROVE  Holds(Append(q, x), A \cup {x})
<1>1. Append(q, x) = q \o <<x>>
  <2>1. q \in Seq(A \cup {x})
    BY SMT DEF Holds
  <2> QED BY <2>1, AppendIsConcat
<1>2. Holds(<<x>>, {x}) /\ A \cap {x} = {}
  BY HoldsOne
<1> QED BY <1>1, <1>2, HoldsConcat

\* Without its first element, a list holds the other ones.
LEMMA HoldsTail ==
  ASSUME NEW A, NEW q, Holds(q, A), q # <<>>
  PROVE  Head(q) \in A /\ Holds(Tail(q), A \ {Head(q)})
<1>1. /\ q \in Seq(A) /\ Len(q) \in Nat \ {0} /\ DOMAIN q = 1 .. Len(q)
      /\ Head(q) = q[1] /\ Head(q) \in A
  BY SMT DEF Holds
<1>2. /\ Tail(q) \in Seq(A) /\ DOMAIN Tail(q) = 1 .. Len(q) - 1
      /\ Len(Tail(q)) = Len(q) - 1
      /\ \A i \in 1 .. Len(q) - 1 : Tail(q)[i] = q[i + 1]
  BY <1>1, SMT
<1>3. \A i, j \in 1 .. Len(q) : q[i] = q[j] => i = j
  BY <1>1 DEF Holds, IsInjective
<1>4. IsInjective(Tail(q))
  BY <1>1, <1>2, <1>3 DEF IsInjective
<1>5. Range(Tail(q)) = A \ {Head(q)}
  <2>1. ASSUME NEW i \in 1 .. Len(q) - 1
        PROVE  Tail(q)[i] \in A \ {Head(q)}
    BY <1>1, <1>2, <1>3
  <2>2. ASSUME NEW x \in A \ {Head(q)}
        PROVE  \E i \in 1 .. Len(q) - 1 : Tail(q)[i] = x
    <3>1. PICK k \in 1 .. Len(q) : q[k] = x
      BY <1>1, <2>2 DEF Holds, Range
    <3>2. k - 1 \in 1 .. Len(q) - 1 /\ Tail(q)[k - 1] = x
      BY <1>1, <1>2, <2>2, <3>1
    <3> QED BY <3>2
  <2> QED BY <1>2, <2>1, <2>2 DEF Range
<1>6. Tail(q) \in Seq(A \ {Head(q)})
  BY <1>2, <1>5, SeqOfRange
<1> QED BY <1>1, <1>4, <1>5, <1>6 DEF Holds

\* A list is empty exactly when it holds nothing.
LEMMA HoldsEmpty ==
  ASSUME NEW A, NEW q, Holds(q, A)
  PROVE  (q = <<>>) <=> (A = {})
BY HoldsTail, SMT DEF Holds, Range

=============================================================================
