---------------------------- MODULE RewriterProofs ---------------------------
(***************************************************************************)
(* Proofs about Rewriter, for any limit on what is buffered, any number of *)
(* children of the root, and any nesting of names.                         *)
(***************************************************************************)
EXTENDS Rewriter, TLAPS, SequenceTheorems, FiniteSetTheorems, WellFoundedInduction

\* What is on the stack does not matter here, nor what is buffered.
IsSeq(s) == \E T : s \in Seq(T)

LEMMA EmptyIsSeq == IsSeq(<<>>) /\ Len(<<>>) = 0
<1>1. <<>> \in Seq({})
  OBVIOUS
<1> QED
  BY <1>1 DEF IsSeq

LEMMA SingletonIsSeq ==
    ASSUME NEW e
    PROVE  IsSeq(<<e>>) /\ Len(<<e>>) = 1
<1>1. <<e>> \in Seq({e})
  OBVIOUS
<1> QED
  BY <1>1 DEF IsSeq

LEMMA AppendIsSeq ==
    ASSUME NEW s, NEW e, IsSeq(s)
    PROVE  IsSeq(Append(s, e)) /\ Len(Append(s, e)) = Len(s) + 1
<1>1. PICK T : s \in Seq(T)
  BY DEF IsSeq
<1> DEFINE U == T \cup {e}
<1>2. s \in Seq(U) /\ e \in U
  BY <1>1
<1> HIDE DEF U
<1>3. Append(s, e) \in Seq(U) /\ Len(Append(s, e)) = Len(s) + 1
  BY <1>2
<1> QED
  BY <1>3 DEF IsSeq

LEMMA FrontIsSeq ==
    ASSUME NEW s, IsSeq(s), Len(s) >= 1
    PROVE  IsSeq(Front(s)) /\ Len(Front(s)) = Len(s) - 1
<1>1. PICK T : s \in Seq(T)
  BY DEF IsSeq
<1> DEFINE n == Len(s)
<1>2. n \in Nat /\ n >= 1 /\ s \in [1..n -> T]
  BY <1>1
<1>3. Front(s) = [i \in 1..(n - 1) |-> s[i]]
  BY <1>1, <1>2 DEF Front
<1>4. Front(s) \in Seq(T) /\ Len(Front(s)) = Len(s) - 1
  <2> HIDE DEF n
  <2>1. n - 1 \in Nat /\ Front(s) \in [1..(n - 1) -> T]
    BY <1>2, <1>3
  <2>2. Front(s) \in Seq(T) /\ Len(Front(s)) = n - 1
    BY <2>1
  <2> QED
    BY <2>2 DEF n
<1> QED
  BY <1>4 DEF IsSeq

LEMMA LenIsNat ==
    ASSUME NEW s, IsSeq(s)
    PROVE  Len(s) \in Nat
BY DEF IsSeq

\* Marking an element for removal leaves the others on the stack.
LEMMA MarkIsSeq ==
    ASSUME NEW s, NEW d, IsSeq(s)
    PROVE  LET m == [s EXCEPT ![d].remove = TRUE]
           IN  IsSeq(m) /\ Len(m) = Len(s)
<1>1. PICK T : s \in Seq(T)
  BY DEF IsSeq
<1> DEFINE v == [s[d] EXCEPT !.remove = TRUE]
           m == [s EXCEPT ![d] = v]
           U == T \cup {v}
<1>2. s \in [1..Len(s) -> U] /\ Len(s) \in Nat /\ v \in U
  BY <1>1
<1> HIDE DEF U, v
<1>3. m \in [1..Len(s) -> U]
  BY <1>2
<1>4. m \in Seq(U) /\ Len(m) = Len(s)
  BY <1>2, <1>3
<1> QED
  BY <1>4 DEF IsSeq, v

-----------------------------------------------------------------------------

Held ==
    /\ IsSeq(stack)
    /\ IsSeq(buf)
    /\ Len(buf) <= MaxBuffered

IInv == Held /\ SuccessIsWhole

LEMMA InitHolds == Init => IInv
BY EmptyIsSeq, MaxBufferedAssumption DEF Init, IInv, Held, SuccessIsWhole, depthUnit

\* Whatever goes wrong, the rewriter is gone with all that it held.
LEMMA FailHolds == IInv /\ Fail => IInv'
BY EmptyIsSeq, MaxBufferedAssumption DEF Fail, IInv, Held, SuccessIsWhole, depthUnit

LEMMA StartHolds == IInv /\ (StartRoot \/ StartUnit \/ StartElement) => IInv'
<1> SUFFICES ASSUME IInv, StartRoot \/ StartUnit \/ StartElement
             PROVE  IInv'
  OBVIOUS
<1>0. Len(stack) \in Nat /\ Len(buf) \in Nat
  BY LenIsNat DEF IInv, Held
<1>1. CASE StartRoot
  <2>1. PICK name : \/ Fail
                    \/ /\ stack' = <<Opened(name, 0)>>
                       /\ UNCHANGED <<rootClosed, unit, buf, units, result, input, output>>
    BY <1>1 DEF StartRoot
  <2>2. CASE stack' = <<Opened(name, 0)>>
             /\ UNCHANGED <<rootClosed, unit, buf, units, result, input, output>>
    <3>1. result = "running" /\ Len(stack) < depthUnit
      BY <1>1, EmptyIsSeq DEF StartRoot, MayRead, depthUnit
    <3>2. IsSeq(stack') /\ Len(stack') = 1
      BY <2>2, SingletonIsSeq
    <3> QED
      BY <2>2, <3>1, <3>2 DEF IInv, Held, SuccessIsWhole, depthUnit
  <2> QED
    BY <2>1, <2>2, FailHolds
<1>2. CASE StartUnit
  <2>1. PICK name : stack' = Append(stack, Opened(name, 0)) /\ buf' = <<<<"start", name>>>>
    BY <1>2 DEF StartUnit
  <2>2. IsSeq(stack') /\ Len(stack') = 2
    BY <1>2, <2>1, AppendIsSeq DEF StartUnit, IInv, Held
  <2>3. IsSeq(buf') /\ Len(buf') = 1
    BY <2>1, SingletonIsSeq
  <2>4. result' = "running"
    BY <1>2 DEF StartUnit, MayRead
  <2> QED
    BY <2>2, <2>3, <2>4, MaxBufferedAssumption DEF IInv, Held, SuccessIsWhole, depthUnit
<1>3. CASE StartElement
  <2>1. PICK name, kind : /\ stack' = Append(stack, Opened(name, Len(buf)))
                          /\ buf' = Append(buf, <<kind, name>>)
    BY <1>3 DEF StartElement
  <2>2. IsSeq(stack') /\ Len(stack') = Len(stack) + 1 /\ Len(stack) >= 2
    BY <1>3, <2>1, AppendIsSeq DEF StartElement, depthUnit, IInv, Held
  <2>3. IsSeq(buf') /\ Len(buf') = Len(buf) + 1 /\ Len(buf) < MaxBuffered
    BY <1>3, <2>1, AppendIsSeq DEF StartElement, MayRead, IInv, Held
  <2>4. result' = "running"
    BY <1>3 DEF StartElement, MayRead
  <2>5. ~(Len(stack') < depthUnit) /\ Len(buf') <= MaxBuffered
    BY <1>0, <2>2, <2>3, MaxBufferedAssumption DEF depthUnit
  <2> QED
    BY <2>2, <2>3, <2>4, <2>5 DEF IInv, Held, SuccessIsWhole
<1> QED
  BY <1>1, <1>2, <1>3

LEMMA CharDataHolds == IInv /\ CharData => IInv'
<1> SUFFICES ASSUME IInv, CharData
             PROVE  IInv'
  OBVIOUS
<1>0. Len(stack) \in Nat /\ Len(buf) \in Nat
  BY LenIsNat DEF IInv, Held
<1>1. PICK text : buf' = Append(buf, <<"text", text>>)
  BY DEF CharData
<1>2. IsSeq(buf') /\ Len(buf') = Len(buf) + 1 /\ Len(buf) < MaxBuffered
  BY <1>1, AppendIsSeq DEF CharData, MayRead, IInv, Held
<1>3. Len(buf') <= MaxBuffered
  BY <1>0, <1>2, MaxBufferedAssumption
<1>4. ~(Len(stack) < depthUnit)
  BY DEF CharData, IInv, SuccessIsWhole
<1>5. stack' = stack /\ result' = "running"
  BY DEF CharData, MayRead
<1> QED
  BY <1>2, <1>3, <1>4, <1>5 DEF IInv, Held, SuccessIsWhole

\* The end of an element closes its unit or leaves it open.
LEMMA EndElementHolds == IInv /\ EndElement => IInv'
<1> SUFFICES ASSUME IInv, EndElement
             PROVE  IInv'
  OBVIOUS
<1>0. Len(stack) \in Nat /\ Len(buf) \in Nat /\ Len(stack) >= 2 /\ result = "running"
  BY LenIsNat DEF IInv, Held, EndElement, depthUnit
<1> DEFINE bytes == IF SelfClosed THEN buf ELSE Append(buf, <<"end", Last(stack).name>>)
<1>1. IsSeq(bytes) /\ Len(bytes) <= MaxBuffered
  <2>1. CASE SelfClosed
    BY <2>1 DEF IInv, Held
  <2>2. CASE ~SelfClosed
    <3>1. IsSeq(bytes) /\ Len(bytes) = Len(buf) + 1
      BY <2>2, AppendIsSeq DEF IInv, Held
    <3>2. Len(buf) < MaxBuffered
      BY <2>2 DEF EndElement
    <3> QED
      BY <1>0, <3>1, <3>2, MaxBufferedAssumption
  <2> QED
    BY <2>1, <2>2
<1>2. \E d : \/ stack' = Front(stack)
             \/ stack' = Front([stack EXCEPT ![d].remove = TRUE])
  BY DEF EndElement
<1>3. IsSeq(stack') /\ Len(stack') = Len(stack) - 1
  <2>1. PICK d : \/ stack' = Front(stack)
                 \/ stack' = Front([stack EXCEPT ![d].remove = TRUE])
    BY <1>2
  <2> DEFINE m == [stack EXCEPT ![d].remove = TRUE]
  <2>2. IsSeq(m) /\ Len(m) = Len(stack)
    BY MarkIsSeq DEF IInv, Held
  <2> HIDE DEF m
  <2>3. IsSeq(Front(m)) /\ Len(Front(m)) = Len(stack) - 1
    BY <1>0, <2>2, FrontIsSeq
  <2>4. IsSeq(Front(stack)) /\ Len(Front(stack)) = Len(stack) - 1
    BY <1>0, FrontIsSeq DEF IInv, Held
  <2> QED
    BY <2>1, <2>3, <2>4 DEF m
<1>4. CASE Len(stack) = depthUnit
  <2>1. unit' = None /\ buf' = <<>> /\ result' \in {"running", "panic"}
    BY <1>0, <1>4 DEF EndElement, EndUnit
  <2> QED
    BY <1>3, <2>1, EmptyIsSeq, MaxBufferedAssumption DEF IInv, Held, SuccessIsWhole
<1>5. CASE Len(stack) # depthUnit
  <2>1. buf' = bytes /\ result' = result
    BY <1>5 DEF EndElement
  <2>2. ~(Len(stack') < depthUnit)
    BY <1>0, <1>3, <1>5 DEF depthUnit
  <2> QED
    BY <1>0, <1>1, <1>3, <2>1, <2>2 DEF IInv, Held, SuccessIsWhole
<1> QED
  BY <1>4, <1>5

LEMMA EndsHold == IInv /\ (EndOfInput \/ EndRoot) => IInv'
<1> SUFFICES ASSUME IInv, EndOfInput \/ EndRoot
             PROVE  IInv'
  OBVIOUS
<1>1. CASE EndOfInput
  <2>1. CASE rootClosed
    BY <1>1, <2>1 DEF EndOfInput, Return, IInv, Held, SuccessIsWhole
  <2>2. CASE ~rootClosed
    BY <1>1, <2>2, FailHolds DEF EndOfInput
  <2> QED
    BY <2>1, <2>2
<1>2. CASE EndRoot
  <2>1. unit = None /\ buf = <<>>
    BY <1>2 DEF EndRoot, IInv, SuccessIsWhole, depthUnit
  <2> QED
    BY <1>2, <2>1, EmptyIsSeq DEF EndRoot, MayRead, IInv, Held, SuccessIsWhole
<1> QED
  BY <1>1, <1>2

LEMMA StepHolds == IInv /\ [Next]_vars => IInv'
<1> SUFFICES ASSUME IInv, [Next]_vars
             PROVE  IInv'
  OBVIOUS
<1>1. CASE UNCHANGED vars
  BY <1>1 DEF vars, IInv, Held, SuccessIsWhole
<1>2. CASE TooLarge \/ DecoderFails \/ StrayText
  BY <1>2, FailHolds DEF TooLarge, DecoderFails, StrayText
<1>3. CASE StartRoot \/ StartUnit \/ StartElement
  BY <1>3, StartHolds
<1>4. CASE CharData
  BY <1>4, CharDataHolds
<1>5. CASE EndElement
  BY <1>5, EndElementHolds
<1>6. CASE EndOfInput \/ EndRoot
  BY <1>6, EndsHold
<1>7. CASE Done
  BY <1>1, <1>7 DEF Done
<1> QED
  BY <1>1, <1>2, <1>3, <1>4, <1>5, <1>6, <1>7 DEF Next

LEMMA InvariantHolds == Spec => []IInv
<1> QED
  BY InitHolds, StepHolds, PTL DEF Spec

(* RewriteMultistatus returns without an error only after the end of the    *)
(* root, and nothing is held from one child of the root to the next.        *)
THEOREM SuccessWhole == Spec => []SuccessIsWhole
<1>1. IInv => SuccessIsWhole
  BY DEF IInv
<1> QED
  BY <1>1, InvariantHolds, PTL

(* captureReader never holds more than maxBufferedBytes, self-closing       *)
(* elements and the byte that completes a unit included.                    *)
THEOREM BufferBounded == Spec => [](Len(buf) <= MaxBuffered)
<1>1. IInv => Len(buf) <= MaxBuffered
  BY DEF IInv, Held
<1> QED
  BY <1>1, InvariantHolds, PTL

-----------------------------------------------------------------------------
\* Numbers, sequences and levels.

\* What a token is made of.
Kinds == {"start", "empty", "end", "text", "mapped", "name"}
Words == Names \cup Texts \cup {"mount", ""}
Token == Kinds \X Words

\* The least number that has a property.
LEMMA Least ==
    ASSUME NEW S \in SUBSET Nat, S # {}
    PROVE  \E i \in S : \A j \in S : i <= j
<1>1. PICK i \in S : \A j \in S : <<j, i>> \notin OpToRel(<, Nat)
  BY NatLessThanWellFounded, WFMin
<1>2. ASSUME NEW j \in S PROVE i <= j
  <2>1. <<j, i>> \in Nat \X Nat /\ <<j, i>>[1] = j /\ <<j, i>>[2] = i
    OBVIOUS
  <2>2. ~(j < i)
    BY <1>1, <2>1 DEF OpToRel
  <2> QED  BY <2>2
<1> QED  BY <1>2

\* The greatest number below a bound that has a property.
LEMMA Greatest ==
    ASSUME NEW n \in Nat, NEW S \in SUBSET 0..n, S # {}
    PROVE  \E i \in S : \A j \in S : j <= i
<1> DEFINE upper == {m \in Nat : \A j \in S : j <= m}
<1>1. n \in upper
  OBVIOUS
<1>2. PICK m \in upper : \A k \in upper : m <= k
  <2>1. upper \in SUBSET Nat /\ upper # {}
    BY <1>1
  <2> HIDE DEF upper
  <2> QED  BY <2>1, Least
<1>3. m \in S
  <2> SUFFICES ASSUME m \notin S PROVE FALSE
    OBVIOUS
  <2>1. \A j \in S : j \in Nat /\ j <= m - 1
    BY <1>2
  <2>2. m - 1 \in Nat
    <3>1. PICK j \in S : TRUE
      OBVIOUS
    <3>2. j \in Nat /\ j <= m - 1 /\ m \in Nat
      BY <1>2, <2>1
    <3> QED  BY <3>2
  <2>3. m - 1 \in upper
    BY <2>1, <2>2
  <2> QED  BY <1>2, <2>2, <2>3
<1> QED  BY <1>2, <1>3

\* Elements are opened and closed one at a time.
LEMMA LevelSteps ==
    ASSUME NEW b, NEW n \in Nat
    PROVE  /\ Level(b, 0) = 0
           /\ Level(b, n) \in Int
           /\ Level(b, n + 1) = Level(b, n) + (IF b[n + 1][1] = "start" THEN 1
                                               ELSE IF b[n + 1][1] = "end" THEN -1 ELSE 0)
<1> DEFINE of(t, k) == {i \in 1..k : b[i][1] = t}
<1>2. ASSUME NEW t, NEW k \in Nat
      PROVE  /\ IsFiniteSet(of(t, k)) /\ Cardinality(of(t, k)) \in Nat
             /\ of(t, k + 1) = IF b[k + 1][1] = t THEN of(t, k) \cup {k + 1} ELSE of(t, k)
             /\ k + 1 \notin of(t, k)
  <2>1. IsFiniteSet(1..k)
    BY FS_Interval
  <2>2. IsFiniteSet(of(t, k))
    BY <2>1, FS_Subset
  <2>3. 1..(k + 1) = (1..k) \cup {k + 1} /\ k + 1 \notin 1..k
    OBVIOUS
  <2>4. of(t, k + 1) = IF b[k + 1][1] = t THEN of(t, k) \cup {k + 1} ELSE of(t, k)
    BY <2>3
  <2>5. Cardinality(of(t, k)) \in Nat
    BY <2>2, FS_CardinalityType
  <2> QED  BY <2>2, <2>3, <2>4, <2>5
<1>3. \A k \in Nat : Level(b, k) = Cardinality(of("start", k)) - Cardinality(of("end", k))
  BY DEF Level
<1>4. of("start", 0) = {} /\ of("end", 0) = {}
  OBVIOUS
<1> HIDE DEF of
<1>5. ASSUME NEW t
      PROVE  Cardinality(of(t, n + 1)) = Cardinality(of(t, n)) + (IF b[n + 1][1] = t THEN 1 ELSE 0)
  <2>1. CASE b[n + 1][1] = t
    <3>1. of(t, n + 1) = of(t, n) \cup {n + 1} /\ n + 1 \notin of(t, n) /\ IsFiniteSet(of(t, n))
      BY <1>2, <2>1
    <3> QED  BY <2>1, <3>1, FS_AddElement
  <2>2. CASE b[n + 1][1] # t
    <3>1. of(t, n + 1) = of(t, n) /\ Cardinality(of(t, n)) \in Nat
      BY <1>2, <2>2
    <3> QED  BY <2>2, <3>1
  <2> QED  BY <2>1, <2>2
<1>6. Level(b, 0) = 0
  <2>1. Cardinality({}) = 0
    BY FS_EmptySet
  <2>2. Level(b, 0) = Cardinality(of("start", 0)) - Cardinality(of("end", 0))
    BY <1>3
  <2>3. Level(b, 0) = Cardinality({}) - Cardinality({})
    BY <1>4, <2>2
  <2>4. Level(b, 0) = 0 - 0
    BY <2>1, <2>3, Zenon
  <2> QED  BY <2>4
<1>8. /\ Level(b, n) = Cardinality(of("start", n)) - Cardinality(of("end", n))
      /\ Level(b, n + 1) = Cardinality(of("start", n + 1)) - Cardinality(of("end", n + 1))
      /\ Cardinality(of("start", n)) \in Nat /\ Cardinality(of("end", n)) \in Nat
  <2>1. n + 1 \in Nat
    OBVIOUS
  <2> QED  BY <1>2, <1>3, <2>1
<1>7. Level(b, n) \in Int
  BY <1>8
<1>9. Level(b, n + 1) = Level(b, n) + (IF b[n + 1][1] = "start" THEN 1 ELSE 0)
                                    - (IF b[n + 1][1] = "end" THEN 1 ELSE 0)
  BY <1>5, <1>8
<1> QED  BY <1>6, <1>7, <1>9

\* A sequence that goes on from another.
Extends(b, c) ==
    /\ b \in Seq(Token) /\ c \in Seq(Token) /\ Len(b) <= Len(c)
    /\ \A k \in 1..Len(b) : c[k] = b[k]

\* Tokens are only ever added at the end.
LEMMA AppendExtends ==
    ASSUME NEW b \in Seq(Token), NEW t \in Token
    PROVE  /\ Extends(b, Append(b, t)) /\ Len(Append(b, t)) = Len(b) + 1
           /\ Append(b, t)[Len(b) + 1] = t
BY AppendProperties DEF Extends

-----------------------------------------------------------------------------
\* Elements: what is open, what is around what, and where it ends.

\* Elements that are open, by the index of their start.
Open(st) == {st[d].start + 1 : d \in depthUnit..Len(st)}
Finished(b, st) == Elements(b) \ Open(st)

\* The innermost element of depth d around element i.
Over(b, i, d) == {a \in Elements(b) : a <= i /\ Depth(b, a) = d}
Above(b, i, d) == CHOOSE a \in Over(b, i, d) : \A k \in Over(b, i, d) : k <= a

\* The element a ends with token j.
Closes(b, a, j) ==
    /\ j \in a..Len(b)
    /\ b[a][1] = "empty" => j = a
    /\ b[a][1] # "empty" =>
          /\ b[j][1] = "end" /\ Depth(b, j) = Depth(b, a)
          /\ \A k \in a..(j - 1) : b[k][1] = "end" => Depth(b, k) # Depth(b, a)

\* An element is a token that starts one.
LEMMA ElementsAre ==
    ASSUME NEW b \in Seq(Token), NEW i
    PROVE  i \in Elements(b) <=> i \in 1..Len(b) /\ b[i][1] \in {"start", "empty"}
BY DEF Elements

\* Levels, depths and ends of what was read do not change with what follows.
LEMMA LevelSame ==
    ASSUME NEW b, NEW c, Extends(b, c), NEW n \in 0..Len(b)
    PROVE  Level(c, n) = Level(b, n)
<1>1. \A j \in 1..n : j \in 1..Len(b) /\ c[j] = b[j]
  <2>1. Len(b) \in Nat
    BY DEF Extends
  <2> QED  BY <2>1 DEF Extends
<1>2. /\ {j \in 1..n : c[j][1] = "start"} = {j \in 1..n : b[j][1] = "start"}
      /\ {j \in 1..n : c[j][1] = "end"} = {j \in 1..n : b[j][1] = "end"}
  BY <1>1
<1> QED  BY <1>2 DEF Level

\* The depth of a token, by the level next to it.
LEMMA DepthIs ==
    ASSUME NEW b \in Seq(Token), NEW i \in 1..Len(b)
    PROVE  /\ Depth(b, i) \in Int
           /\ b[i][1] = "end" => Depth(b, i) = 2 + Level(b, i)
           /\ b[i][1] # "end" => Depth(b, i) = 2 + Level(b, i - 1)
<1>1. i \in Nat /\ i - 1 \in Nat
  OBVIOUS
<1>2. Level(b, i) \in Int /\ Level(b, i - 1) \in Int
  BY <1>1, LevelSteps
<1> QED  BY <1>2 DEF Depth, depthUnit

\* A token keeps its depth.
LEMMA DepthSame ==
    ASSUME NEW b, NEW c, Extends(b, c), NEW i \in 1..Len(b)
    PROVE  Depth(c, i) = Depth(b, i)
<1>1. i \in 0..Len(b) /\ i - 1 \in 0..Len(b) /\ c[i] = b[i]
  <2>1. Len(b) \in Nat
    BY DEF Extends
  <2> QED  BY <2>1 DEF Extends
<1>2. Level(c, i) = Level(b, i) /\ Level(c, i - 1) = Level(b, i - 1)
  BY <1>1, LevelSame
<1> QED  BY <1>1, <1>2 DEF Depth

\* What was read of an element stays as it is when more is read.
LEMMA Stable ==
    ASSUME NEW b, NEW c, Extends(b, c)
    PROVE  /\ \A i \in 1..Len(b) : i \in Elements(c) <=> i \in Elements(b)
           /\ \A i \in Elements(b) : i \in Elements(c) /\ i \in 1..Len(b)
           /\ \A i \in Elements(b) : \A d : Over(c, i, d) = Over(b, i, d) /\ Above(c, i, d) = Above(b, i, d)
<1>0. b \in Seq(Token) /\ c \in Seq(Token) /\ Len(b) \in Nat /\ Len(c) \in Nat /\ Len(b) <= Len(c)
  BY DEF Extends
<1>1. ASSUME NEW i \in 1..Len(b) PROVE i \in Elements(c) <=> i \in Elements(b)
  <2>1. c[i] = b[i] /\ i \in 1..Len(c)
    BY <1>0 DEF Extends
  <2> QED  BY <1>0, <2>1, ElementsAre
<1>2. \A i \in Elements(b) : i \in Elements(c) /\ i \in 1..Len(b)
  BY <1>0, <1>1, ElementsAre
<1>3. ASSUME NEW i \in Elements(b), NEW d PROVE Over(c, i, d) = Over(b, i, d)
  <2>1. ASSUME NEW a, a \in Elements(c) \/ a \in Elements(b), a <= i
        PROVE  a \in 1..Len(b)
    BY <1>0, <1>2, <2>1, ElementsAre
  <2>2. ASSUME NEW a \in 1..Len(b) PROVE Depth(c, a) = Depth(b, a)
    BY DepthSame
  <2> QED  BY <1>1, <2>1, <2>2 DEF Over
<1> QED  BY <1>1, <1>2, <1>3 DEF Above

\* An element keeps its end.
LEMMA ClosesSame ==
    ASSUME NEW b, NEW c, Extends(b, c), NEW a \in Elements(b), NEW j \in 1..Len(b)
    PROVE  Closes(c, a, j) <=> Closes(b, a, j)
<1>0. b \in Seq(Token) /\ Len(b) \in Nat /\ Len(c) \in Nat /\ Len(b) <= Len(c) /\ a \in 1..Len(b)
  BY Stable DEF Extends
<1>1. \A k \in 1..Len(b) : c[k] = b[k] /\ Depth(c, k) = Depth(b, k)
  BY DepthSame DEF Extends
<1>2. \A k \in a..(j - 1) : k \in 1..Len(b)
  BY <1>0
<1>3. (j \in a..Len(c)) <=> (j \in a..Len(b))
  BY <1>0
<1> QED  BY <1>0, <1>1, <1>2, <1>3 DEF Closes

\* There is one token at most that ends an element.
LEMMA CloseIs ==
    ASSUME NEW b \in Seq(Token), NEW a \in Elements(b), NEW j, Closes(b, a, j)
    PROVE  Close(b, a) = j
<1>0. a \in 1..Len(b) /\ j \in a..Len(b) /\ Len(b) \in Nat
  BY ElementsAre DEF Closes
<1>1. CASE b[a][1] = "empty"
  BY <1>1 DEF Closes, Close
<1>2. CASE b[a][1] # "empty"
  <2> DEFINE Ends(k) == /\ b[k][1] = "end" /\ Depth(b, k) = Depth(b, a)
                        /\ \A l \in a..(k - 1) : b[l][1] = "end" => Depth(b, l) # Depth(b, a)
  <2>1. Close(b, a) = CHOOSE k \in a..Len(b) : Ends(k)
    BY <1>2 DEF Close
  <2>2. Ends(j)
    BY <1>2 DEF Closes
  <2>3. ASSUME NEW k \in a..Len(b), Ends(k) PROVE k = j
    <3>1. ~(k < j)
      BY <1>0, <2>2, <2>3
    <3>2. ~(j < k)
      BY <1>0, <2>2, <2>3
    <3> QED  BY <1>0, <3>1, <3>2
  <2> HIDE DEF Ends
  <2> QED  BY <1>0, <2>1, <2>2, <2>3
<1> QED  BY <1>1, <1>2

\* The end of a finished element stays where it is.
LEMMA CloseSame ==
    ASSUME NEW b, NEW c, Extends(b, c), NEW a \in Elements(b), NEW j, Closes(b, a, j)
    PROVE  Close(b, a) = j /\ Close(c, a) = j /\ Closes(c, a, j) /\ j \in a..Len(b)
<1>0. b \in Seq(Token) /\ c \in Seq(Token) /\ Len(b) \in Nat /\ a \in 1..Len(b) /\ a \in Elements(c)
  BY Stable DEF Extends
<1>1. j \in a..Len(b) /\ j \in 1..Len(b)
  BY <1>0 DEF Closes
<1> QED  BY <1>0, <1>1, ClosesSame, CloseIs

\* The innermost of the elements around another is the last of them.
LEMMA AboveIs ==
    ASSUME NEW b, NEW i, NEW d, NEW a \in Over(b, i, d), b \in Seq(Token),
           \A k \in Over(b, i, d) : k <= a
    PROVE  Above(b, i, d) = a
<1>1. ASSUME NEW k \in Over(b, i, d), \A l \in Over(b, i, d) : l <= k
      PROVE  k = a
  <2>1. k \in Int /\ a \in Int /\ k <= a /\ a <= k
    BY <1>1, ElementsAre DEF Over
  <2> QED  BY <2>1
<1> QED  BY <1>1 DEF Above

\* If there is an element of that depth around another, one is the innermost.
LEMMA AboveExists ==
    ASSUME NEW b \in Seq(Token), NEW i \in Elements(b), NEW d, Over(b, i, d) # {}
    PROVE  /\ Above(b, i, d) \in Over(b, i, d)
           /\ \A k \in Over(b, i, d) : k <= Above(b, i, d)
<1>1. i \in Nat /\ Over(b, i, d) \in SUBSET 0..i
  BY ElementsAre DEF Over
<1>2. \E a \in Over(b, i, d) : \A k \in Over(b, i, d) : k <= a
  BY <1>1, Greatest
<1> QED  BY <1>2 DEF Above

-----------------------------------------------------------------------------
\* The tokens and the stack hang together, whatever is read.

\* What the stack holds, and the element that an entry stands for.
Entry == [name : Names, start : Nat, remove : BOOLEAN, editMark : Nat, nameMark : Nat]

At(st, d) == st[d].start + 1

\* The last token is a self-closing element whose end was not yet yielded.
Waiting(b, st) == b[Len(b)][1] = "empty" /\ st[Len(st)].start = Len(b) - 1

\* How the tokens that are held and the stack hang together.
Typed(b, st) == b \in Seq(Token) /\ st \in Seq(Entry) /\ Len(b) >= 1 /\ Len(st) >= 1
LevelShape(b, st) ==
    Len(st) >= depthUnit => Level(b, Len(b)) = Len(st) - 1 - (IF Waiting(b, st) THEN 1 ELSE 0)
OpenShape(b, st) ==
    \A d \in depthUnit..Len(st) :
        /\ At(st, d) \in Elements(b) /\ b[At(st, d)][2] = st[d].name
        /\ Depth(b, At(st, d)) = d
        /\ b[At(st, d)][1] = "empty" => d = Len(st) /\ At(st, d) = Len(b)
        /\ \A k \in (At(st, d) + 1)..Len(b) : b[k][1] # "text" => Depth(b, k) > d
Ended(b, st) == \A a \in Finished(b, st) : \E j : Closes(b, a, j)
Laminar(b, st) ==
    \A a, c \in Elements(b) : a < c =>
        /\ Depth(b, a) = Depth(b, c) => a \notin Open(st) /\ Close(b, a) < c
        /\ a \notin Open(st) /\ c <= Close(b, a) => c \notin Open(st) /\ Close(b, c) < Close(b, a)
Ancestors(b, st) ==
    \A i \in Elements(b) :
        /\ Depth(b, i) >= depthUnit
        /\ \A d \in depthUnit..Depth(b, i) :
              \E a \in Over(b, i, d) : a \in Open(st) \/ i <= Close(b, a)
Shape(b, st) ==
    /\ Typed(b, st)
    /\ LevelShape(b, st)
    /\ OpenShape(b, st)
    /\ Ended(b, st)
    /\ Laminar(b, st)
    /\ Ancestors(b, st)

\* The types of what is read by index.
LEMMA Lengths ==
    ASSUME NEW b, NEW st, Typed(b, st)
    PROVE  /\ Len(b) \in Nat /\ Len(st) \in Nat /\ Len(b) \in 1..Len(b) /\ Len(st) \in 1..Len(st)
           /\ \A d \in 1..Len(st) : st[d] \in Entry /\ st[d].start \in Nat /\ At(st, d) \in Nat
           /\ \A d \in depthUnit..Len(st) : d \in 1..Len(st) /\ d \in Nat /\ d >= 2
<1>1. Len(b) \in Nat /\ Len(st) \in Nat /\ Len(b) \in 1..Len(b) /\ Len(st) \in 1..Len(st)
  BY DEF Typed
<1>2. ASSUME NEW d \in 1..Len(st)
      PROVE  st[d] \in Entry /\ st[d].start \in Nat /\ At(st, d) \in Nat
  <2>1. st[d] \in Entry
    BY DEF Typed
  <2>2. st[d].start \in Nat
    BY <2>1 DEF Entry
  <2> QED  BY <2>1, <2>2 DEF At
<1> QED  BY <1>1, <1>2 DEF depthUnit

\* An element is open if an entry of the stack stands for it.
LEMMA OpenIs ==
    ASSUME NEW st, NEW i
    PROVE  i \in Open(st) <=> \E d \in depthUnit..Len(st) : i = At(st, d)
BY DEF Open, At

\* Elements that are open begin in the order of the stack.
LEMMA OpenOrder ==
    ASSUME NEW b, NEW st, Typed(b, st), OpenShape(b, st),
           NEW d \in depthUnit..Len(st), NEW e \in depthUnit..Len(st), d < e
    PROVE  At(st, d) < At(st, e)
<1>1. At(st, d) \in 1..Len(b) /\ At(st, e) \in 1..Len(b) /\ Len(b) \in Nat
  BY Lengths, ElementsAre DEF OpenShape, Typed
<1>2. Depth(b, At(st, d)) = d /\ Depth(b, At(st, e)) = e /\ d \in Nat /\ e \in Nat
  BY Lengths DEF OpenShape
<1>3. At(st, d) # At(st, e)
  BY <1>2
<1>4. ASSUME At(st, e) < At(st, d) PROVE FALSE
  <2>1. At(st, d) \in (At(st, e) + 1)..Len(b)
    BY <1>1, <1>4
  <2>2. b[At(st, d)][1] # "text"
    BY ElementsAre DEF OpenShape, Typed
  <2>3. Depth(b, At(st, d)) > e
    BY <2>1, <2>2 DEF OpenShape
  <2> QED  BY <1>2, <2>3
<1> QED  BY <1>1, <1>3, <1>4

\* Only the element on top of the stack may be self-closing.
LEMMA NotWaiting ==
    ASSUME NEW b, NEW st, Typed(b, st), OpenShape(b, st), ~Waiting(b, st),
           NEW d \in depthUnit..Len(st)
    PROVE  b[At(st, d)][1] = "start"
<1>1. CASE b[At(st, d)][1] = "empty"
  <2>1. d = Len(st) /\ At(st, d) = Len(b)
    BY <1>1 DEF OpenShape
  <2>2. st[d].start \in Nat /\ Len(b) \in Nat
    BY Lengths
  <2>3. st[d].start = Len(b) - 1
    BY <2>1, <2>2 DEF At
  <2> QED  BY <1>1, <2>1, <2>3 DEF Waiting
<1> QED  BY <1>1, ElementsAre DEF OpenShape, Typed

\* An element that is not open has its end among the tokens.
LEMMA FinishedIs ==
    ASSUME NEW b, NEW st, Shape(b, st), NEW a \in Finished(b, st)
    PROVE  a \in Elements(b) /\ Closes(b, a, Close(b, a)) /\ Close(b, a) \in a..Len(b)
<1>1. PICK j : Closes(b, a, j)
  BY DEF Shape, Ended
<1>2. a \in Elements(b) /\ b \in Seq(Token)
  BY DEF Finished, Shape, Typed
<1>3. Close(b, a) = j
  BY <1>1, <1>2, CloseIs
<1> QED  BY <1>1, <1>2, <1>3 DEF Closes

\* Elements that are read around the last token of a unit.
LEMMA FinishedSame ==
    ASSUME NEW b, NEW c, NEW st, Shape(b, st), Extends(b, c), NEW a \in Finished(b, st)
    PROVE  /\ Close(c, a) = Close(b, a) /\ Closes(c, a, Close(b, a))
           /\ Close(b, a) \in a..Len(b) /\ a \in 1..Len(b)
<1>1. a \in Elements(b) /\ Closes(b, a, Close(b, a)) /\ Close(b, a) \in a..Len(b)
  BY FinishedIs
<1>2. a \in 1..Len(b)
  BY <1>1, Stable
<1> QED  BY <1>1, <1>2, CloseSame

\* What StartElement, CharData and EndElement do to the tokens and the stack.
Push(b, st, c, st2) ==
    /\ Len(st) >= depthUnit /\ ~Waiting(b, st)
    /\ \E kind \in {"start", "empty"}, e \in Entry :
          e.start = Len(b) /\ c = Append(b, <<kind, e.name>>) /\ st2 = Append(st, e)
Say(b, st, c) ==
    /\ b[Len(b)][1] = "start"
    /\ \E text \in Texts : c = Append(b, <<"text", text>>)
Pop(b, st, c, st2) ==
    /\ Len(st) >= depthUnit
    /\ st2 \in Seq(Entry) /\ Len(st2) = Len(st) - 1
    /\ \A d \in 1..Len(st2) : /\ st2[d].name = st[d].name /\ st2[d].start = st[d].start
                              /\ st2[d].editMark = st[d].editMark
                              /\ st2[d].nameMark = st[d].nameMark
    /\ c = IF Waiting(b, st) THEN b ELSE Append(b, <<"end", st[Len(st)].name>>)

\* What one more token adds.
LEMMA Grows ==
    ASSUME NEW b \in Seq(Token), NEW t \in Token, NEW c, c = Append(b, t)
    PROVE  /\ Extends(b, c) /\ Len(c) = Len(b) + 1 /\ c[Len(b) + 1] = t /\ c \in Seq(Token)
           /\ Elements(c) = Elements(b) \cup (IF t[1] \in {"start", "empty"} THEN {Len(b) + 1} ELSE {})
           /\ \A i \in Elements(b) : i \in 1..Len(b) /\ i # Len(b) + 1
           /\ Len(b) \in Nat
<1>1. Extends(b, c) /\ Len(c) = Len(b) + 1 /\ c[Len(b) + 1] = t
  BY AppendExtends
<1>2. c \in Seq(Token) /\ Len(b) \in Nat
  BY <1>1 DEF Extends
<1>3. \A i \in Elements(b) : i \in 1..Len(b) /\ i # Len(b) + 1
  BY <1>2, ElementsAre
<1>4. ASSUME NEW i
      PROVE  i \in Elements(c) <=> i \in Elements(b) \/ (t[1] \in {"start", "empty"} /\ i = Len(b) + 1)
  <2>1. CASE i \in 1..Len(b)
    BY <1>1, <1>2, <2>1, Stable
  <2>2. CASE i = Len(b) + 1
    <3>1. i \in 1..Len(c) /\ c[i] = t /\ i \notin Elements(b)
      BY <1>1, <1>2, <1>3, <2>2
    <3>2. i \in Elements(c) <=> i \in 1..Len(c) /\ c[i][1] \in {"start", "empty"}
      BY <1>2, ElementsAre
    <3> QED  BY <2>2, <3>1, <3>2
  <2>3. CASE i \notin 1..Len(c)
    <3>0. i # Len(b) + 1
      BY <1>1, <1>2, <2>3
    <3>1. i \notin Elements(c) /\ i # Len(b) + 1
      BY <3>0, <1>2, <2>3, ElementsAre
    <3>2. i \notin Elements(b)
      BY <1>1, <1>2, <1>3, <2>3
    <3> QED  BY <3>1, <3>2
  <2> QED  BY <1>1, <1>2, <2>1, <2>2, <2>3
<1> QED  BY <1>1, <1>2, <1>3, <1>4

\* What the start of an element adds to the tokens and the stack.
LEMMA PushFacts ==
    ASSUME NEW b, NEW st, NEW c, NEW st2, Shape(b, st), Push(b, st, c, st2)
    PROVE  /\ Extends(b, c) /\ Len(c) = Len(b) + 1 /\ Typed(c, st2)
           /\ Elements(c) = Elements(b) \cup {Len(b) + 1}
           /\ Len(st2) = Len(st) + 1 /\ (\A d \in 1..Len(st) : st2[d] = st[d])
           /\ c[Len(b) + 1] \in {<<"start", st2[Len(st) + 1].name>>, <<"empty", st2[Len(st) + 1].name>>}
           /\ At(st2, Len(st) + 1) = Len(b) + 1
           /\ Depth(c, Len(b) + 1) = Len(st) + 1
           /\ Open(st2) = Open(st) \cup {Len(b) + 1}
           /\ Open(st) \subseteq Elements(b)
           /\ Len(b) + 1 \notin Elements(b)
           /\ Finished(c, st2) = Finished(b, st)
<1>1. PICK kind \in {"start", "empty"}, e \in Entry :
         e.start = Len(b) /\ c = Append(b, <<kind, e.name>>) /\ st2 = Append(st, e)
  BY DEF Push
<1> DEFINE t == <<kind, e.name>>
<1>2. b \in Seq(Token) /\ st \in Seq(Entry) /\ Len(b) \in Nat /\ Len(st) \in Nat /\ Len(st) >= 1
  BY DEF Shape, Typed
<1>3. t \in Token /\ t[1] \in {"start", "empty"}
  <2>1. e.name \in Names
    BY DEF Entry
  <2> QED  BY <2>1 DEF Token, Kinds, Words
<1>4. /\ Extends(b, c) /\ Len(c) = Len(b) + 1 /\ c[Len(b) + 1] = t /\ c \in Seq(Token)
      /\ Elements(c) = Elements(b) \cup {Len(b) + 1}
      /\ Len(b) + 1 \notin Elements(b)
  <2> HIDE DEF t
  <2>1. c = Append(b, t)
    BY <1>1 DEF t
  <2> QED  BY <1>2, <1>3, <2>1, Grows
<1>5. st2 \in Seq(Entry) /\ Len(st2) = Len(st) + 1 /\ (\A d \in 1..Len(st) : st2[d] = st[d]) /\ st2[Len(st) + 1] = e
  BY <1>1, <1>2, AppendProperties
<1>6. At(st2, Len(st) + 1) = Len(b) + 1
  BY <1>1, <1>5 DEF At
<1>7. Depth(c, Len(b) + 1) = Len(st) + 1
  <2>1. Len(b) + 1 \in 1..Len(c) /\ c[Len(b) + 1][1] # "end" /\ (Len(b) + 1) - 1 = Len(b)
    BY <1>2, <1>3, <1>4
  <2>2. Depth(c, Len(b) + 1) = 2 + Level(c, Len(b))
    BY <1>4, <2>1, DepthIs
  <2>3. Level(c, Len(b)) = Level(b, Len(b))
    BY <1>2, <1>4, LevelSame
  <2>4. Level(b, Len(b)) = Len(st) - 1
    BY <1>2 DEF Push, Shape, LevelShape
  <2> QED  BY <1>2, <2>2, <2>3, <2>4
<1>8. Open(st) \subseteq Elements(b)
  BY OpenIs DEF Shape, OpenShape
<1>9. ASSUME NEW i PROVE i \in Open(st2) <=> i \in Open(st) \/ i = Len(b) + 1
  <2>1. \A d : d \in depthUnit..Len(st2) <=> d \in depthUnit..Len(st) \/ d = Len(st) + 1
    BY <1>2, <1>5 DEF depthUnit
  <2>2. \A d \in depthUnit..Len(st) : At(st2, d) = At(st, d)
    BY <1>2, <1>5 DEF At, depthUnit
  <2> QED  BY <1>6, <2>1, <2>2, OpenIs
<1>10. Finished(c, st2) = Finished(b, st)
  BY <1>4, <1>9 DEF Finished
<1>11. c[Len(b) + 1] \in {<<"start", st2[Len(st) + 1].name>>, <<"empty", st2[Len(st) + 1].name>>}
  BY <1>4, <1>5
<1>12. Typed(c, st2)
  BY <1>2, <1>4, <1>5 DEF Typed
<1> QED  BY <1>4, <1>5, <1>6, <1>7, <1>8, <1>9, <1>10, <1>11, <1>12

\* The start of an element keeps tokens and stack together.
LEMMA PushShape ==
    ASSUME NEW b, NEW st, NEW c, NEW st2, Shape(b, st), Push(b, st, c, st2)
    PROVE  Shape(c, st2)
<1> DEFINE n == Len(b) + 1
           m == Len(st) + 1
<1>1. /\ Extends(b, c) /\ Len(c) = n /\ Typed(c, st2)
      /\ Elements(c) = Elements(b) \cup {n}
      /\ Len(st2) = m /\ (\A d \in 1..Len(st) : st2[d] = st[d])
      /\ c[n] \in {<<"start", st2[m].name>>, <<"empty", st2[m].name>>}
      /\ At(st2, m) = n /\ Depth(c, n) = m
      /\ Open(st2) = Open(st) \cup {n} /\ Open(st) \subseteq Elements(b) /\ n \notin Elements(b)
      /\ Finished(c, st2) = Finished(b, st)
  BY PushFacts
<1>2. /\ b \in Seq(Token) /\ c \in Seq(Token) /\ Len(b) \in Nat /\ Len(st) \in Nat
      /\ n \in Nat /\ m \in Nat /\ Len(st) = m - 1 /\ Len(b) = n - 1 /\ m >= 2
  BY <1>1 DEF Shape, Typed
<1>3. \A i \in Elements(b) : /\ i \in 1..Len(b) /\ i < n
                             /\ Depth(c, i) = Depth(b, i) /\ i \in Elements(c)
  BY <1>1, <1>2, Stable, DepthSame
<1>4. \A a \in Finished(b, st) : /\ Close(c, a) = Close(b, a) /\ Closes(c, a, Close(b, a))
                                 /\ Close(b, a) < n /\ a \in Elements(b) /\ Close(b, a) \in Nat
  <2>1. \A a \in Finished(b, st) : /\ Close(c, a) = Close(b, a) /\ Closes(c, a, Close(b, a))
                                   /\ Close(b, a) \in a..Len(b) /\ a \in 1..Len(b)
    BY <1>1, FinishedSame
  <2> QED  BY <1>2, <2>1 DEF Finished
<1>5. c[n][2] = st2[m].name /\ c[n][1] \in {"start", "empty"}
  BY <1>1
<1>6. \A d \in depthUnit..Len(st2) : d # m => d \in depthUnit..Len(st) /\ At(st2, d) = At(st, d) /\ st2[d] = st[d] /\ d < m
  BY <1>1, <1>2 DEF At, depthUnit
<1>7. \A d \in depthUnit..Len(st) : Depth(b, At(st, d)) = d /\ b[At(st, d)][1] = "start"
  BY NotWaiting DEF Shape, Push, OpenShape
<1> HIDE DEF n, m
<1>10. LevelShape(c, st2)
  <2>1. Level(c, n) = Level(c, Len(b)) + (IF c[Len(b) + 1][1] = "start" THEN 1
                                          ELSE IF c[Len(b) + 1][1] = "end" THEN -1 ELSE 0)
    BY <1>2, LevelSteps DEF n
  <2>2. Level(c, Len(b)) = Level(b, Len(b)) /\ Level(b, Len(b)) = m - 2
    <3>1. Level(c, Len(b)) = Level(b, Len(b))
      BY <1>1, <1>2, LevelSame
    <3>2. Level(b, Len(b)) = Len(st) - 1
      BY <1>2 DEF Push, Shape, LevelShape
    <3> QED  BY <1>2, <3>1, <3>2
  <2>3. CASE c[n][1] = "start"
    <3>1. ~Waiting(c, st2)
      BY <1>1, <2>3 DEF Waiting
    <3>2. Level(c, n) = m - 2 + 1
      BY <2>1, <2>2, <2>3 DEF n
    <3> QED  BY <1>1, <1>2, <3>1, <3>2 DEF LevelShape
  <2>4. CASE c[n][1] = "empty"
    <3>1. Waiting(c, st2)
      <4>1. st2[m].start \in Nat /\ st2[m].start + 1 = n
        BY <1>1, <1>2, Lengths DEF At
      <4>2. st2[m].start = n - 1
        BY <1>2, <4>1
      <4> QED  BY <1>1, <2>4, <4>2 DEF Waiting
    <3>2. Level(c, n) = m - 2 + 0
      BY <2>1, <2>2, <2>4 DEF n
    <3> QED  BY <1>1, <1>2, <3>1, <3>2 DEF LevelShape
  <2> QED  BY <1>5, <2>3, <2>4
<1>11. OpenShape(c, st2)
  <2> SUFFICES ASSUME NEW d \in depthUnit..Len(st2)
               PROVE  /\ At(st2, d) \in Elements(c) /\ c[At(st2, d)][2] = st2[d].name
                      /\ Depth(c, At(st2, d)) = d
                      /\ c[At(st2, d)][1] = "empty" => d = Len(st2) /\ At(st2, d) = Len(c)
                      /\ \A k \in (At(st2, d) + 1)..Len(c) : c[k][1] # "text" => Depth(c, k) > d
    BY DEF OpenShape
  <2>1. CASE d = m
    <3>1. \A k \in (n + 1)..Len(c) : FALSE
      BY <1>1, <1>2
    <3> QED  BY <1>1, <1>5, <2>1, <3>1
  <2>2. CASE d # m
    <3>1. d \in depthUnit..Len(st) /\ At(st2, d) = At(st, d) /\ st2[d] = st[d] /\ d < m
      BY <1>6, <2>2
    <3>2. /\ At(st, d) \in Elements(b) /\ b[At(st, d)][2] = st[d].name
          /\ Depth(b, At(st, d)) = d /\ b[At(st, d)][1] = "start"
          /\ \A k \in (At(st, d) + 1)..Len(b) : b[k][1] # "text" => Depth(b, k) > d
      BY <1>7, <3>1 DEF Shape, OpenShape
    <3>3. At(st, d) \in 1..Len(b) /\ c[At(st, d)] = b[At(st, d)] /\ Depth(c, At(st, d)) = d
      BY <1>1, <1>3, <3>2 DEF Extends
    <3>4. ASSUME NEW k \in (At(st, d) + 1)..Len(c), c[k][1] # "text" PROVE Depth(c, k) > d
      <4>1. CASE k = n
        BY <1>1, <1>2, <3>1, <4>1
      <4>2. CASE k # n
        <5>1. k \in (At(st, d) + 1)..Len(b) /\ k \in 1..Len(b)
          BY <1>1, <1>2, <3>3, <3>4, <4>2
        <5>2. c[k] = b[k] /\ Depth(c, k) = Depth(b, k)
          BY <1>1, <5>1, DepthSame DEF Extends
        <5> QED  BY <3>2, <3>4, <5>1, <5>2
      <4> QED  BY <4>1, <4>2
    <3> QED  BY <1>1, <3>1, <3>2, <3>3, <3>4
  <2> QED  BY <2>1, <2>2
<1>12. Ended(c, st2)
  BY <1>1, <1>4 DEF Ended
<1>13. Laminar(c, st2)
  <2> SUFFICES ASSUME NEW a \in Elements(c), NEW k \in Elements(c), a < k
               PROVE  /\ Depth(c, a) = Depth(c, k) => a \notin Open(st2) /\ Close(c, a) < k
                      /\ a \notin Open(st2) /\ k <= Close(c, a)
                         => k \notin Open(st2) /\ Close(c, k) < Close(c, a)
    BY DEF Laminar
  <2>1. a \in Elements(b) /\ a # n
    BY <1>1, <1>2, <1>3
  <2>2. a \notin Open(st2) => a \in Finished(b, st) /\ a \notin Open(st)
    BY <1>1, <2>1 DEF Finished
  <2>3. CASE k = n
    <3>1. a \in Open(st) => Depth(c, a) < m
      <4>1. ASSUME a \in Open(st) PROVE Depth(c, a) < m
        <5>1. PICK d \in depthUnit..Len(st) : a = At(st, d)
          BY <4>1, OpenIs
        <5>2. Depth(c, a) = d /\ d \in Nat /\ d <= Len(st)
          BY <1>2, <1>3, <1>7, <2>1, <5>1 DEF depthUnit
        <5> QED  BY <1>2, <5>2
      <4> QED  BY <4>1
    <3>2. Depth(c, a) = Depth(c, k) => a \notin Open(st2)
      BY <1>1, <1>2, <2>1, <2>3, <3>1
    <3>3. a \notin Open(st2) => Close(c, a) < n
      BY <1>4, <2>2
    <3>4. a \notin Open(st2) => ~(k <= Close(c, a))
      BY <1>2, <1>4, <2>2, <2>3
    <3> QED  BY <2>3, <3>2, <3>3, <3>4
  <2>4. CASE k # n
    <3>1. k \in Elements(b)
      BY <1>1, <2>4
    <3>2. /\ Depth(b, a) = Depth(b, k) => a \notin Open(st) /\ Close(b, a) < k
          /\ a \notin Open(st) /\ k <= Close(b, a) => k \notin Open(st) /\ Close(b, k) < Close(b, a)
      BY <2>1, <3>1 DEF Shape, Laminar
    <3>3. (a \notin Open(st2) <=> a \notin Open(st)) /\ (k \notin Open(st2) <=> k \notin Open(st))
      BY <1>1, <2>1, <2>4
    <3>4. (a \notin Open(st) => Close(c, a) = Close(b, a)) /\ (k \notin Open(st) => Close(c, k) = Close(b, k))
      BY <1>4, <2>1, <3>1 DEF Finished
    <3>5. Depth(c, a) = Depth(b, a) /\ Depth(c, k) = Depth(b, k)
      BY <1>3, <2>1, <3>1
    <3> QED  BY <3>2, <3>3, <3>4, <3>5
  <2> QED  BY <2>3, <2>4
<1>14. Ancestors(c, st2)
  <2> SUFFICES ASSUME NEW i \in Elements(c)
               PROVE  /\ Depth(c, i) >= depthUnit
                      /\ \A d \in depthUnit..Depth(c, i) :
                            \E a \in Over(c, i, d) : a \in Open(st2) \/ i <= Close(c, a)
    BY DEF Ancestors
  <2>1. CASE i = n
    <3>1. ASSUME NEW d \in depthUnit..m PROVE \E a \in Over(c, n, d) : a \in Open(st2)
      <4>1. CASE d = m
        BY <1>1, <1>2, <4>1 DEF Over
      <4>2. CASE d # m
        <5>1. d \in depthUnit..Len(st)
          BY <1>2, <3>1, <4>2 DEF depthUnit
        <5>2. At(st, d) \in Open(st) /\ At(st, d) \in Elements(b)
          BY <1>1, <5>1, OpenIs
        <5>3. At(st, d) \in Elements(c) /\ At(st, d) <= n /\ Depth(c, At(st, d)) = d
          BY <1>2, <1>3, <1>7, <5>1, <5>2
        <5> QED  BY <1>1, <5>2, <5>3 DEF Over
      <4> QED  BY <4>1, <4>2
    <3> QED  BY <1>1, <1>2, <2>1, <3>1 DEF depthUnit
  <2>2. CASE i # n
    <3>1. i \in Elements(b) /\ Depth(c, i) = Depth(b, i)
      BY <1>1, <1>3, <2>2
    <3>2. ASSUME NEW d \in depthUnit..Depth(c, i)
          PROVE  \E a \in Over(c, i, d) : a \in Open(st2) \/ i <= Close(c, a)
      <4>1. PICK a \in Over(b, i, d) : a \in Open(st) \/ i <= Close(b, a)
        BY <3>1 DEF Shape, Ancestors
      <4>2. a \in Over(c, i, d) /\ a \in Elements(b)
        BY <1>1, <3>1, Stable DEF Over
      <4>3. a \in Open(st2) \/ i <= Close(c, a)
        BY <1>1, <1>4, <4>1, <4>2 DEF Finished
      <4> QED  BY <4>2, <4>3
    <3>3. Depth(c, i) >= depthUnit
      BY <3>1 DEF Shape, Ancestors
    <3> QED  BY <3>2, <3>3
  <2> QED  BY <2>1, <2>2
<1> QED  BY <1>1, <1>10, <1>11, <1>12, <1>13, <1>14 DEF Shape

\* Text adds no element and ends none.
LEMMA SayFacts ==
    ASSUME NEW b, NEW st, NEW c, Shape(b, st), Say(b, st, c)
    PROVE  /\ Extends(b, c) /\ Len(c) = Len(b) + 1 /\ Typed(c, st)
           /\ Elements(c) = Elements(b) /\ c[Len(c)][1] = "text" /\ c[Len(c)][2] \in Texts
           /\ Finished(c, st) = Finished(b, st)
           /\ ~Waiting(b, st) /\ ~Waiting(c, st)
<1>1. PICK text \in Texts : c = Append(b, <<"text", text>>)
  BY DEF Say
<1> DEFINE t == <<"text", text>>
<1>2. b \in Seq(Token) /\ st \in Seq(Entry) /\ Len(b) \in Nat /\ Len(st) \in Nat /\ Len(st) >= 1
  BY DEF Shape, Typed
<1>3. t \in Token /\ t[1] = "text" /\ t[2] \in Texts
  BY DEF Token, Kinds, Words
<1>4. /\ Extends(b, c) /\ Len(c) = Len(b) + 1 /\ c[Len(b) + 1] = t /\ c \in Seq(Token)
      /\ Elements(c) = Elements(b)
  <2> HIDE DEF t
  <2>1. c = Append(b, t)
    BY <1>1 DEF t
  <2>2. /\ Extends(b, c) /\ Len(c) = Len(b) + 1 /\ c[Len(b) + 1] = t /\ c \in Seq(Token)
        /\ Elements(c) = Elements(b) \cup (IF t[1] \in {"start", "empty"} THEN {Len(b) + 1} ELSE {})
    BY <1>2, <1>3, <2>1, Grows
  <2> QED  BY <1>3, <2>2
<1> HIDE DEF t
<1>5. c[Len(c)][1] = "text" /\ c[Len(c)][2] \in Texts
  BY <1>3, <1>4
<1>6. ~Waiting(b, st) /\ ~Waiting(c, st)
  BY <1>5 DEF Say, Waiting
<1>7. Typed(c, st)
  BY <1>2, <1>4 DEF Typed
<1> QED  BY <1>4, <1>5, <1>6, <1>7 DEF Finished

\* Text keeps tokens and stack together.
LEMMA SayShape ==
    ASSUME NEW b, NEW st, NEW c, Shape(b, st), Say(b, st, c)
    PROVE  Shape(c, st)
<1> DEFINE n == Len(b) + 1
<1>1. /\ Extends(b, c) /\ Len(c) = n /\ Typed(c, st)
      /\ Elements(c) = Elements(b) /\ c[n][1] = "text"
      /\ Finished(c, st) = Finished(b, st)
      /\ ~Waiting(b, st) /\ ~Waiting(c, st)
  BY SayFacts
<1>2. /\ b \in Seq(Token) /\ c \in Seq(Token) /\ Len(b) \in Nat /\ Len(st) \in Nat
      /\ n \in Nat /\ Len(b) = n - 1
  BY <1>1 DEF Shape, Typed
<1>3. \A i \in Elements(b) : i \in 1..Len(b) /\ Depth(c, i) = Depth(b, i) /\ c[i] = b[i]
  BY <1>1, <1>2, Stable, DepthSame DEF Extends
<1>4. \A a \in Finished(b, st) : Close(c, a) = Close(b, a) /\ Closes(c, a, Close(b, a))
  BY <1>1, FinishedSame
<1>5. Level(c, n) = Level(b, Len(b))
  <2>1. Level(c, Len(b) + 1) = Level(c, Len(b)) + (IF c[Len(b) + 1][1] = "start" THEN 1
                                                   ELSE IF c[Len(b) + 1][1] = "end" THEN -1 ELSE 0)
    BY <1>2, LevelSteps
  <2>2. Level(c, Len(b)) = Level(b, Len(b)) /\ Level(b, Len(b)) \in Int
    BY <1>1, <1>2, LevelSame, LevelSteps
  <2> QED  BY <1>1, <2>1, <2>2
<1> HIDE DEF n
<1>10. LevelShape(c, st)
  BY <1>1, <1>5 DEF Shape, LevelShape
<1>11. OpenShape(c, st)
  <2> SUFFICES ASSUME NEW d \in depthUnit..Len(st)
               PROVE  /\ At(st, d) \in Elements(c) /\ c[At(st, d)][2] = st[d].name
                      /\ Depth(c, At(st, d)) = d
                      /\ c[At(st, d)][1] = "empty" => d = Len(st) /\ At(st, d) = Len(c)
                      /\ \A k \in (At(st, d) + 1)..Len(c) : c[k][1] # "text" => Depth(c, k) > d
    BY DEF OpenShape
  <2>1. /\ At(st, d) \in Elements(b) /\ b[At(st, d)][2] = st[d].name
        /\ Depth(b, At(st, d)) = d
        /\ \A k \in (At(st, d) + 1)..Len(b) : b[k][1] # "text" => Depth(b, k) > d
    BY DEF Shape, OpenShape
  <2>2. b[At(st, d)][1] = "start"
    BY <1>1, NotWaiting DEF Shape
  <2>3. ASSUME NEW k \in (At(st, d) + 1)..Len(c), c[k][1] # "text" PROVE Depth(c, k) > d
    <3>1. k # n
      BY <1>1, <2>3
    <3>2. At(st, d) \in 1..Len(b)
      BY <1>3, <2>1
    <3>3. k \in (At(st, d) + 1)..Len(b) /\ k \in 1..Len(b)
      BY <1>1, <1>2, <3>1, <3>2
    <3>4. c[k] = b[k] /\ Depth(c, k) = Depth(b, k)
      BY <1>1, <3>3, DepthSame DEF Extends
    <3> QED  BY <2>1, <2>3, <3>3, <3>4
  <2> QED  BY <1>1, <1>3, <2>1, <2>2, <2>3
<1>12. Ended(c, st)
  BY <1>1, <1>4 DEF Ended
<1>13. Laminar(c, st)
  <2>1. \A a \in Elements(b) : a \notin Open(st) => Close(c, a) = Close(b, a)
    BY <1>4 DEF Finished
  <2> QED  BY <1>1, <1>3, <2>1 DEF Shape, Laminar
<1>14. Ancestors(c, st)
  <2> SUFFICES ASSUME NEW i \in Elements(b)
               PROVE  /\ Depth(c, i) >= depthUnit
                      /\ \A d \in depthUnit..Depth(c, i) :
                            \E a \in Over(c, i, d) : a \in Open(st) \/ i <= Close(c, a)
    BY <1>1 DEF Ancestors
  <2>1. Depth(c, i) = Depth(b, i)
    BY <1>3
  <2>2. ASSUME NEW d \in depthUnit..Depth(c, i)
        PROVE  \E a \in Over(c, i, d) : a \in Open(st) \/ i <= Close(c, a)
    <3>1. PICK a \in Over(b, i, d) : a \in Open(st) \/ i <= Close(b, a)
      BY <2>1 DEF Shape, Ancestors
    <3>2. a \in Over(c, i, d) /\ a \in Elements(b)
      BY <1>1, Stable, <3>1 DEF Over
    <3> QED  BY <1>4, <3>1, <3>2 DEF Finished
  <2> QED  BY <2>1, <2>2 DEF Shape, Ancestors
<1> QED  BY <1>1, <1>10, <1>11, <1>12, <1>13, <1>14 DEF Shape

\* What the end of an element does to the tokens and the stack.
LEMMA PopFacts ==
    ASSUME NEW b, NEW st, NEW c, NEW st2, Shape(b, st), Pop(b, st, c, st2)
    PROVE  /\ Extends(b, c) /\ Typed(c, st2) /\ Len(st2) = Len(st) - 1
           /\ Elements(c) = Elements(b)
           /\ \A d \in 1..Len(st2) : At(st2, d) = At(st, d)
           /\ At(st, Len(st)) \in Open(st) /\ At(st, Len(st)) \in Elements(b)
           /\ Depth(b, At(st, Len(st))) = Len(st)
           /\ Open(st) \subseteq Elements(b)
           /\ Open(st2) = Open(st) \ {At(st, Len(st))}
           /\ Finished(c, st2) = Finished(b, st) \cup {At(st, Len(st))}
           /\ Len(c) = IF Waiting(b, st) THEN Len(b) ELSE Len(b) + 1
           /\ Len(c) # Len(b) => /\ c[Len(c)] = <<"end", st[Len(st)].name>>
                                 /\ Depth(c, Len(c)) = Len(st) /\ Level(c, Len(c)) = Len(st) - 2
                                 /\ \A d \in depthUnit..Len(st) : b[At(st, d)][1] = "start"
           /\ Len(c) = Len(b) => c = b /\ At(st, Len(st)) = Len(b) /\ b[At(st, Len(st))][1] = "empty"
<1> DEFINE i0 == At(st, Len(st))
           t == <<"end", st[Len(st)].name>>
<1>1. /\ b \in Seq(Token) /\ st \in Seq(Entry) /\ Len(b) \in Nat /\ Len(b) >= 1
      /\ Len(st) \in Nat /\ Len(st) >= 2 /\ Len(st) \in depthUnit..Len(st)
      /\ st2 \in Seq(Entry) /\ Len(st2) = Len(st) - 1 /\ Len(st2) >= 1
  BY DEF Shape, Typed, Pop, depthUnit
<1>2. \A d \in 1..Len(st2) : At(st2, d) = At(st, d)
  BY DEF Pop, At
<1>3. \A d \in depthUnit..Len(st) : At(st, d) \in Elements(b) /\ Depth(b, At(st, d)) = d
  BY DEF Shape, OpenShape
<1>4. i0 \in Open(st) /\ Open(st) \subseteq Elements(b)
  BY <1>1, <1>3, OpenIs
<1>5. ASSUME NEW i PROVE i \in Open(st2) <=> i \in Open(st) /\ i # i0
  <2>1. \A d \in depthUnit..Len(st2) : /\ d \in depthUnit..Len(st) /\ At(st2, d) = At(st, d)
                                       /\ At(st, d) # i0
    <3> SUFFICES ASSUME NEW d \in depthUnit..Len(st2)
                 PROVE  d \in depthUnit..Len(st) /\ At(st2, d) = At(st, d) /\ At(st, d) # i0
      OBVIOUS
    <3>1. d \in depthUnit..Len(st) /\ d \in 1..Len(st2) /\ d # Len(st)
      BY <1>1 DEF depthUnit
    <3> QED  BY <1>1, <1>2, <1>3, <3>1
  <2>2. \A d \in depthUnit..Len(st) : d # Len(st) => d \in depthUnit..Len(st2)
    BY <1>1 DEF depthUnit
  <2> QED  BY <2>1, <2>2, OpenIs
<1>6. t \in Token /\ t[1] = "end"
  <2>1. st[Len(st)] \in Entry
    BY <1>1
  <2>2. st[Len(st)].name \in Names
    BY <2>1 DEF Entry
  <2> QED  BY <2>2 DEF Token, Kinds, Words
<1>7. CASE Waiting(b, st)
  <2>1. c = b /\ b[Len(b)][1] = "empty" /\ st[Len(st)].start = Len(b) - 1
    BY <1>7 DEF Pop, Waiting
  <2>2. i0 = Len(b)
    BY <1>1, <2>1 DEF At
  <2>3. Extends(b, c)
    BY <1>1, <2>1 DEF Extends
  <2>4. Finished(c, st2) = Finished(b, st) \cup {i0}
    BY <1>4, <1>5, <2>1 DEF Finished
  <2>5. Typed(c, st2)
    BY <1>1, <2>1 DEF Typed
  <2> HIDE DEF i0
  <2>6. Open(st2) = Open(st) \ {i0}
    BY <1>5
  <2> QED  BY <1>1, <1>2, <1>3, <1>4, <1>7, <2>1, <2>2, <2>3, <2>4, <2>5, <2>6 DEF i0
<1>8. CASE ~Waiting(b, st)
  <2>1. c = Append(b, t)
    BY <1>8 DEF Pop
  <2> HIDE DEF t
  <2>2. /\ Extends(b, c) /\ Len(c) = Len(b) + 1 /\ c[Len(b) + 1] = t /\ c \in Seq(Token)
        /\ Elements(c) = Elements(b) \cup (IF t[1] \in {"start", "empty"} THEN {Len(b) + 1} ELSE {})
    BY <1>1, <1>6, <2>1, Grows
  <2>3. Elements(c) = Elements(b)
    BY <1>6, <2>2
  <2>4. Level(c, Len(c)) = Len(st) - 2
    <3>1. Level(c, Len(b) + 1) = Level(c, Len(b)) + (IF c[Len(b) + 1][1] = "start" THEN 1
                                                     ELSE IF c[Len(b) + 1][1] = "end" THEN -1 ELSE 0)
      BY <1>1, LevelSteps
    <3>2. Level(c, Len(b)) = Level(b, Len(b))
      BY <1>1, <2>2, LevelSame
    <3>3. Level(b, Len(b)) = Len(st) - 1
      BY <1>1, <1>8 DEF Shape, LevelShape
    <3> QED  BY <1>1, <1>6, <2>2, <3>1, <3>2, <3>3
  <2>5. Depth(c, Len(c)) = Len(st)
    <3>1. Depth(c, Len(c)) = 2 + Level(c, Len(c))
      <4>1. Len(c) \in 1..Len(c) /\ c[Len(c)][1] = "end"
        BY <1>1, <1>6, <2>2
      <4> QED  BY <2>2, <4>1, DepthIs
    <3> QED  BY <1>1, <2>4, <3>1
  <2>6. \A d \in depthUnit..Len(st) : b[At(st, d)][1] = "start"
    BY <1>8, NotWaiting DEF Shape
  <2>7. Typed(c, st2)
    BY <1>1, <2>2 DEF Typed
  <2>8. Finished(c, st2) = Finished(b, st) \cup {i0}
    BY <1>4, <1>5, <2>3 DEF Finished
  <2>9. c[Len(c)] = <<"end", st[Len(st)].name>>
    BY <2>2 DEF t
  <2>10. Open(st2) = Open(st) \ {i0}
    BY <1>5
  <2>11. Len(c) # Len(b) /\ Extends(b, c) /\ Len(c) = Len(b) + 1
    BY <1>1, <2>2
  <2>12. Len(st2) = Len(st) - 1
    BY <1>1
  <2> QED  BY <1>2, <1>3, <1>4, <1>1, <1>8, <2>3, <2>4, <2>5, <2>6, <2>7, <2>8, <2>9, <2>10, <2>11, <2>12
<1> QED  BY <1>7, <1>8

\* The element that is popped ends with the last token.
LEMMA PopCloses ==
    ASSUME NEW b, NEW st, NEW c, NEW st2, Shape(b, st), Pop(b, st, c, st2)
    PROVE  Closes(c, At(st, Len(st)), Len(c)) /\ Close(c, At(st, Len(st))) = Len(c)
<1> DEFINE i0 == At(st, Len(st))
<1>1. /\ Extends(b, c) /\ Elements(c) = Elements(b) /\ i0 \in Elements(b)
      /\ Depth(b, i0) = Len(st)
      /\ Len(c) # Len(b) => /\ c[Len(c)][1] = "end" /\ Depth(c, Len(c)) = Len(st)
                            /\ Len(c) = Len(b) + 1
                            /\ \A d \in depthUnit..Len(st) : b[At(st, d)][1] = "start"
      /\ Len(c) = Len(b) => c = b /\ i0 = Len(b) /\ b[i0][1] = "empty"
  BY PopFacts
<1>2. b \in Seq(Token) /\ c \in Seq(Token) /\ Len(b) \in Nat /\ Len(c) \in Nat /\ i0 \in 1..Len(b)
  BY <1>1, ElementsAre DEF Extends
<1>3. Len(st) \in depthUnit..Len(st) /\ Len(st) \in Nat
  BY DEF Shape, Typed, Pop, depthUnit
<1>4. \A k \in (i0 + 1)..Len(b) : b[k][1] # "text" => Depth(b, k) > Len(st)
  BY <1>3 DEF Shape, OpenShape
<1>5. c[i0] = b[i0] /\ Depth(c, i0) = Len(st)
  BY <1>1, <1>2, DepthSame DEF Extends
<1>6. b[i0][1] = "start" => \A k \in i0..(Len(c) - 1) : c[k][1] = "end" => Depth(c, k) # Len(st)
  <2> SUFFICES ASSUME b[i0][1] = "start", NEW k \in i0..(Len(c) - 1), c[k][1] = "end"
               PROVE  Depth(c, k) # Len(st)
    OBVIOUS
  <2> HIDE DEF i0
  <2>1. Len(c) = Len(b) + 1
    BY <1>1
  <2>2. k \in 1..Len(b)
    BY <1>2, <2>1
  <2>3. c[k] = b[k] /\ Depth(c, k) = Depth(b, k)
    BY <1>1, <2>2, DepthSame DEF Extends
  <2>4. k # i0
    BY <1>5
  <2>5. k \in (i0 + 1)..Len(b)
    BY <1>2, <2>1, <2>2, <2>4
  <2>6. Depth(b, k) > Len(st)
    BY <1>4, <2>3, <2>5
  <2> QED  BY <1>3, <2>3, <2>6
<1> HIDE DEF i0
<1>7. Closes(c, i0, Len(c))
  <2>1. CASE Len(c) = Len(b)
    BY <1>1, <1>2, <2>1 DEF Closes
  <2>2. CASE Len(c) # Len(b)
    <3>1. Len(c) \in i0..Len(c)
      BY <1>1, <1>2, <2>2
    <3>2. b[i0][1] = "start"
      BY <1>1, <1>3, <2>2 DEF i0
    <3> QED  BY <1>1, <1>5, <1>6, <2>2, <3>1, <3>2 DEF Closes
  <2> QED  BY <2>1, <2>2
<1>8. Close(c, i0) = Len(c)
  BY <1>1, <1>2, <1>7, CloseIs
<1> QED  BY <1>7, <1>8 DEF i0

\* The end of an element keeps tokens and stack together.
LEMMA PopShape ==
    ASSUME NEW b, NEW st, NEW c, NEW st2, Shape(b, st), Pop(b, st, c, st2)
    PROVE  Shape(c, st2)
<1> DEFINE i0 == At(st, Len(st))
           m == Len(st)
<1>1. /\ Extends(b, c) /\ Typed(c, st2) /\ Len(st2) = m - 1
      /\ Elements(c) = Elements(b)
      /\ \A d \in 1..Len(st2) : At(st2, d) = At(st, d)
      /\ i0 \in Open(st) /\ i0 \in Elements(b) /\ Depth(b, i0) = m
      /\ Open(st) \subseteq Elements(b)
      /\ Open(st2) = Open(st) \ {i0}
      /\ Finished(c, st2) = Finished(b, st) \cup {i0}
      /\ Len(c) = IF Waiting(b, st) THEN Len(b) ELSE Len(b) + 1
      /\ Len(c) # Len(b) => /\ c[Len(c)] = <<"end", st[m].name>>
                            /\ Depth(c, Len(c)) = m /\ Level(c, Len(c)) = m - 2
                            /\ \A d \in depthUnit..m : b[At(st, d)][1] = "start"
      /\ Len(c) = Len(b) => c = b /\ i0 = Len(b) /\ b[i0][1] = "empty"
  BY PopFacts
<1>2. /\ b \in Seq(Token) /\ c \in Seq(Token) /\ Len(b) \in Nat /\ Len(c) \in Nat
      /\ m \in Nat /\ m >= 2 /\ Len(b) <= Len(c) /\ m \in depthUnit..m /\ Len(st2) \in Nat
  BY <1>1 DEF Shape, Typed, Pop, depthUnit, Extends
<1>3. \A i \in Elements(b) : i \in 1..Len(b) /\ Depth(c, i) = Depth(b, i) /\ c[i] = b[i]
  BY <1>1, <1>2, Stable, DepthSame DEF Extends
<1>4. \A a \in Finished(b, st) : /\ Close(c, a) = Close(b, a) /\ Closes(c, a, Close(b, a))
                                 /\ Close(b, a) \in a..Len(b)
  BY <1>1, FinishedSame
<1>5. Closes(c, i0, Len(c)) /\ Close(c, i0) = Len(c)
  BY PopCloses
<1>6. \A d \in depthUnit..Len(st2) : d \in depthUnit..m /\ d \in 1..Len(st2) /\ d < m /\ At(st2, d) = At(st, d)
  BY <1>1, <1>2 DEF depthUnit
<1>7. \A d \in depthUnit..m : /\ Depth(b, At(st, d)) = d /\ At(st, d) \in Elements(b)
                              /\ b[At(st, d)][2] = st[d].name
                              /\ b[At(st, d)][1] = "empty" => d = m
                              /\ \A k \in (At(st, d) + 1)..Len(b) : b[k][1] # "text" => Depth(b, k) > d
  BY DEF Shape, OpenShape
<1>8. \A d \in depthUnit..Len(st2) : At(st, d) < i0 /\ st2[d].name = st[d].name
  <2>1. \A d \in depthUnit..Len(st2) : At(st, d) < At(st, m)
    BY <1>2, <1>6, OpenOrder DEF Shape
  <2> QED  BY <2>1, <1>6 DEF Pop
<1>9. Open(st2) \subseteq Elements(b) /\ \A o \in Open(st2) : o < i0
  BY <1>1, <1>6, <1>8, OpenIs
<1> HIDE DEF i0, m
<1>10. LevelShape(c, st2)
  <2> SUFFICES ASSUME Len(st2) >= depthUnit
               PROVE  Level(c, Len(c)) = Len(st2) - 1 - (IF Waiting(c, st2) THEN 1 ELSE 0)
    BY DEF LevelShape
  <2>0. Len(st2) >= depthUnit /\ Len(st) >= depthUnit
    BY <1>2 DEF m, depthUnit
  <2>1. CASE Len(c) # Len(b)
    <3>1. ~Waiting(c, st2)
      BY <1>1, <2>1 DEF Waiting
    <3> QED  BY <1>1, <1>2, <2>1, <3>1
  <2>2. CASE Len(c) = Len(b)
    <3>1. c = b /\ Waiting(b, st)
      BY <1>1, <1>2, <2>2
    <3>2. ~Waiting(c, st2)
      <4>1. ASSUME Waiting(c, st2) PROVE FALSE
        <5>1. st2[Len(st2)].start = Len(b) - 1 /\ b[Len(b)][1] = "empty"
          BY <3>1, <4>1 DEF Waiting
        <5>2. Len(st2) \in depthUnit..Len(st2)
          BY <1>2, <2>0 DEF depthUnit
        <5>3. At(st, Len(st2)) < i0 /\ At(st2, Len(st2)) = At(st, Len(st2))
          BY <1>6, <1>8, <5>2
        <5>4. At(st2, Len(st2)) = Len(b)
          BY <1>2, <5>1 DEF At
        <5> QED  BY <1>1, <1>2, <2>2, <5>3, <5>4
      <4> QED  BY <4>1
    <3>3. Level(b, Len(b)) = m - 1 - 1
      BY <2>0, <3>1 DEF Shape, LevelShape, m
    <3> QED  BY <1>1, <1>2, <3>1, <3>2, <3>3
  <2> QED  BY <2>1, <2>2
<1>11. OpenShape(c, st2)
  <2> SUFFICES ASSUME NEW d \in depthUnit..Len(st2)
               PROVE  /\ At(st2, d) \in Elements(c) /\ c[At(st2, d)][2] = st2[d].name
                      /\ Depth(c, At(st2, d)) = d
                      /\ c[At(st2, d)][1] = "empty" => d = Len(st2) /\ At(st2, d) = Len(c)
                      /\ \A k \in (At(st2, d) + 1)..Len(c) : c[k][1] # "text" => Depth(c, k) > d
    BY DEF OpenShape
  <2>1. d \in depthUnit..m /\ d < m /\ At(st2, d) = At(st, d) /\ d \in Nat
    BY <1>6 DEF depthUnit
  <2>2. /\ Depth(b, At(st, d)) = d /\ At(st, d) \in Elements(b) /\ b[At(st, d)][2] = st[d].name
        /\ b[At(st, d)][1] # "empty"
        /\ \A k \in (At(st, d) + 1)..Len(b) : b[k][1] # "text" => Depth(b, k) > d
    BY <1>7, <2>1
  <2>3. At(st, d) \in 1..Len(b) /\ c[At(st, d)] = b[At(st, d)] /\ Depth(c, At(st, d)) = d
    BY <1>3, <2>2
  <2>4. ASSUME NEW k \in (At(st, d) + 1)..Len(c), c[k][1] # "text" PROVE Depth(c, k) > d
    <3>1. CASE k \in 1..Len(b)
      <4>0. c[k] = b[k] /\ Depth(c, k) = Depth(b, k)
        BY <1>1, <3>1, DepthSame DEF Extends
      <4>1. k \in (At(st, d) + 1)..Len(b)
        BY <1>2, <2>3, <2>4, <3>1
      <4> QED  BY <2>2, <2>4, <4>0, <4>1
    <3>2. CASE k \notin 1..Len(b)
      <4>1. k = Len(c) /\ Len(c) # Len(b)
        BY <1>1, <1>2, <2>3, <2>4, <3>2
      <4> QED  BY <1>1, <1>2, <2>1, <4>1
    <3> QED  BY <3>1, <3>2
  <2> QED  BY <1>1, <1>8, <2>1, <2>2, <2>3, <2>4
<1>12. Ended(c, st2)
  BY <1>1, <1>4, <1>5 DEF Ended
<1>13. Laminar(c, st2)
  <2> SUFFICES ASSUME NEW a \in Elements(b), NEW k \in Elements(b), a < k
               PROVE  /\ Depth(c, a) = Depth(c, k) => a \notin Open(st2) /\ Close(c, a) < k
                      /\ a \notin Open(st2) /\ k <= Close(c, a)
                         => k \notin Open(st2) /\ Close(c, k) < Close(c, a)
    BY <1>1 DEF Laminar
  <2>1. /\ Depth(b, a) = Depth(b, k) => a \notin Open(st) /\ Close(b, a) < k
        /\ a \notin Open(st) /\ k <= Close(b, a) => k \notin Open(st) /\ Close(b, k) < Close(b, a)
    BY DEF Shape, Laminar
  <2>2. Depth(c, a) = Depth(b, a) /\ Depth(c, k) = Depth(b, k)
    BY <1>3
  <2>3. a \notin Open(st) => Close(c, a) = Close(b, a)
    BY <1>4 DEF Finished
  <2>4. k \notin Open(st) => Close(c, k) = Close(b, k) /\ Close(b, k) <= Len(b) /\ Close(b, k) \in Nat
    <3>1. k \in 1..Len(b)
      BY <1>3
    <3> QED  BY <1>2, <1>4, <3>1 DEF Finished
  <2>5. Depth(c, a) = Depth(c, k) => a \notin Open(st2) /\ Close(c, a) < k
    BY <1>1, <2>1, <2>2, <2>3
  <2>6. ASSUME a \notin Open(st2), k <= Close(c, a)
        PROVE  k \notin Open(st2) /\ Close(c, k) < Close(c, a)
    <3>1. CASE a \notin Open(st)
      BY <1>1, <2>1, <2>3, <2>4, <2>6, <3>1
    <3>2. CASE a \in Open(st)
      <4>1. a = i0 /\ k \in 1..Len(b) /\ a \in 1..Len(b)
        BY <1>1, <1>3, <2>6, <3>2
      <4>2. Len(c) # Len(b)
        BY <1>1, <1>2, <4>1
      <4>3. k \notin Open(st2) /\ k # i0
        BY <1>9, <4>1
      <4>4. k \notin Open(st)
        BY <1>1, <4>3
      <4>5. Close(c, k) <= Len(b) /\ Len(b) < Len(c) /\ Close(c, k) \in Nat
        BY <1>2, <2>4, <4>2, <4>4
      <4> QED  BY <1>2, <1>5, <4>1, <4>3, <4>5
    <3> QED  BY <3>1, <3>2
  <2> QED  BY <2>5, <2>6
<1>14. Ancestors(c, st2)
  <2> SUFFICES ASSUME NEW i \in Elements(b)
               PROVE  /\ Depth(c, i) >= depthUnit
                      /\ \A d \in depthUnit..Depth(c, i) :
                            \E a \in Over(c, i, d) : a \in Open(st2) \/ i <= Close(c, a)
    BY <1>1 DEF Ancestors
  <2>1. Depth(c, i) = Depth(b, i) /\ i \in 1..Len(b)
    BY <1>3
  <2>2. ASSUME NEW d \in depthUnit..Depth(c, i)
        PROVE  \E a \in Over(c, i, d) : a \in Open(st2) \/ i <= Close(c, a)
    <3>1. PICK a \in Over(b, i, d) : a \in Open(st) \/ i <= Close(b, a)
      BY <2>1 DEF Shape, Ancestors
    <3>2. a \in Over(c, i, d) /\ a \in Elements(b)
      BY <1>1, Stable, <3>1 DEF Over
    <3>3. CASE a = i0
      <4>1. i <= Close(c, a)
        BY <1>2, <1>5, <2>1, <3>3
      <4> QED  BY <3>2, <4>1
    <3>4. CASE a # i0
      <4>1. a \in Open(st2) \/ i <= Close(c, a)
        BY <1>1, <1>4, <3>1, <3>2, <3>4 DEF Finished
      <4> QED  BY <3>2, <4>1
    <3> QED  BY <3>3, <3>4
  <2> QED  BY <2>1, <2>2 DEF Shape, Ancestors
<1> QED  BY <1>1, <1>10, <1>11, <1>12, <1>13, <1>14 DEF Shape

\* The first token of a unit.
LEMMA StartShape ==
    ASSUME NEW b, NEW st, NEW name \in Names, b = <<<<"start", name>>>>,
           st \in Seq(Entry), Len(st) = 2, st[2].start = 0, st[2].name = name
    PROVE  /\ Shape(b, st) /\ Elements(b) = {1} /\ Depth(b, 1) = 2 /\ Len(b) = 1
           /\ Open(st) = {1} /\ Finished(b, st) = {} /\ b[1] = <<"start", name>>
           /\ At(st, 2) = 1
<1> DEFINE t == <<"start", name>>
<1>1. t \in Token /\ t[1] = "start" /\ t[2] = name
  BY DEF Token, Kinds, Words
<1>2. b \in Seq(Token) /\ Len(b) = 1 /\ b[1] = t
  <2> HIDE DEF t
  <2>1. b = <<t>>
    BY DEF t
  <2> QED  BY <1>1, <2>1
<1>3. Elements(b) = {1}
  <2>1. \A i : i \in 1..1 <=> i = 1
    OBVIOUS
  <2> QED  BY <1>1, <1>2, <2>1, ElementsAre
<1>4. Level(b, 0) = 0 /\ Level(b, 1) = 1
  <2>1. Level(b, 0) = 0
    BY LevelSteps
  <2>2. 0 \in Nat /\ 0 + 1 = 1
    OBVIOUS
  <2>3. Level(b, 0 + 1) = Level(b, 0) + (IF b[0 + 1][1] = "start" THEN 1
                                         ELSE IF b[0 + 1][1] = "end" THEN -1 ELSE 0)
    BY <2>2, LevelSteps
  <2> QED  BY <1>1, <1>2, <2>1, <2>3
<1>5. Depth(b, 1) = 2
  <2>1. 1 \in 1..Len(b) /\ b[1][1] # "end" /\ 1 - 1 = 0
    BY <1>1, <1>2
  <2>2. Depth(b, 1) = 2 + Level(b, 0)
    BY <1>2, <2>1, DepthIs
  <2> QED  BY <1>4, <2>2
<1>6. At(st, 2) = 1 /\ \A d : d \in depthUnit..Len(st) <=> d = 2
  BY DEF At, depthUnit
<1>7. Open(st) = {1} /\ Finished(b, st) = {}
  BY <1>3, <1>6, OpenIs DEF Finished
<1> HIDE DEF t
<1>8. Typed(b, st) /\ LevelShape(b, st)
  <2>1. ~Waiting(b, st)
    BY <1>1, <1>2 DEF Waiting
  <2> QED  BY <1>2, <1>4, <2>1 DEF Typed, LevelShape
<1>9. OpenShape(b, st)
  <2>1. \A k \in 2..1 : FALSE
    OBVIOUS
  <2> QED  BY <1>1, <1>2, <1>3, <1>5, <1>6, <2>1 DEF OpenShape
<1>10. Ended(b, st) /\ Laminar(b, st)
  <2>1. \A a, c \in Elements(b) : ~(a < c)
    BY <1>3
  <2> QED  BY <1>7, <2>1 DEF Ended, Laminar
<1>11. Ancestors(b, st)
  <2>1. 1 \in Over(b, 1, 2)
    BY <1>3, <1>5 DEF Over
  <2>2. \A d \in depthUnit..Depth(b, 1) : d = 2
    BY <1>5 DEF depthUnit
  <2>3. \A i \in Elements(b) : i = 1
    BY <1>3
  <2>4. Depth(b, 1) >= depthUnit /\ 1 \in Open(st)
    BY <1>5, <1>7 DEF depthUnit
  <2>5. \A d \in depthUnit..Depth(b, 1) : \E a \in Over(b, 1, d) : a \in Open(st) \/ 1 <= Close(b, a)
    BY <2>1, <2>2, <2>4
  <2> SUFFICES ASSUME NEW i \in Elements(b)
               PROVE  /\ Depth(b, i) >= depthUnit
                      /\ \A d \in depthUnit..Depth(b, i) :
                            \E a \in Over(b, i, d) : a \in Open(st) \/ i <= Close(b, a)
    BY DEF Ancestors
  <2>6. i = 1
    BY <2>3
  <2> QED  BY <2>4, <2>5, <2>6, Zenon
<1> QED  BY <1>1, <1>2, <1>3, <1>5, <1>6, <1>7, <1>8, <1>9, <1>10, <1>11 DEF Shape, t

-----------------------------------------------------------------------------
\* What is below what, and what has to go with an href.

\* What is below what.
BelowUnit(b) ==
    /\ b[1] \in {<<"start", "response">>, <<"start", "other">>}
    /\ \A i \in Elements(b) : Depth(b, i) = depthUnit <=> i = 1
Childless(b) ==
    \A i \in Elements(b) :
        b[i][2] \in {"href", "status"} => /\ b[i][1] = "start"
                                          /\ i < Len(b) => b[i + 1][1] \in {"text", "end"}
NamesBelow(b) ==
    \A i \in Elements(b) :
        /\ b[i][2] = "status" => Depth(b, i) = depthStatus
        /\ b[i][2] = "displayname" => /\ Depth(b, i) = depthProperty
                                      /\ b[Above(b, i, depthPropstat)][2] = "propstat"
StackBelow(st) ==
    \A d \in depthUnit..Len(st) :
        /\ st[d].name \in {"href", "status"} => d = Len(st)
        /\ st[d].name = "propstat" => d = depthPropstat /\ st[depthUnit].name = "response"
        /\ st[d].name \in {"prop", "status"} => d = depthStatus /\ st[depthPropstat].name = "propstat"
        /\ st[d].name = "displayname" => d = depthProperty /\ st[depthStatus].name = "prop"
Grammar(b, st) == BelowUnit(b) /\ Childless(b) /\ NamesBelow(b) /\ StackBelow(st)

\* What is above element i, from the stack and in general.
LEMMA AboveOpen ==
    ASSUME NEW b, NEW st, Shape(b, st), NEW d \in depthUnit..Len(st),
           NEW i \in Elements(b), At(st, d) <= i
    PROVE  Above(b, i, d) = At(st, d)
<1>1. b \in Seq(Token) /\ Len(b) \in Nat /\ At(st, d) \in Elements(b) /\ Depth(b, At(st, d)) = d /\ d \in Nat
  BY Lengths DEF Shape, Typed, OpenShape
<1>2. At(st, d) \in Over(b, i, d)
  BY <1>1 DEF Over
<1>3. ASSUME NEW k \in Over(b, i, d) PROVE k <= At(st, d)
  <2>1. k \in Elements(b) /\ Depth(b, k) = d
    BY DEF Over
  <2>2. k \in 1..Len(b) /\ b[k][1] # "text" /\ At(st, d) \in 1..Len(b)
    BY <1>1, <2>1, ElementsAre
  <2>3. ASSUME k > At(st, d) PROVE FALSE
    <3>1. k \in (At(st, d) + 1)..Len(b)
      BY <1>1, <2>2, <2>3
    <3>2. Depth(b, k) > d
      BY <2>2, <3>1 DEF Shape, OpenShape
    <3> QED  BY <1>1, <2>1, <3>2
  <2> QED  BY <1>1, <2>2, <2>3
<1> QED  BY <1>1, <1>2, <1>3, AboveIs

\* Around an element there is one of each smaller depth, which is open or ends after it.
LEMMA AboveFacts ==
    ASSUME NEW b, NEW st, Shape(b, st), NEW i \in Elements(b), NEW d \in depthUnit..Depth(b, i)
    PROVE  LET a == Above(b, i, d)
           IN  /\ a \in Elements(b) /\ a <= i /\ Depth(b, a) = d /\ a \in 1..Len(b)
               /\ \A k \in Over(b, i, d) : k <= a
               /\ a \in Open(st) \/ i <= Close(b, a)
<1> DEFINE a == Above(b, i, d)
<1>1. PICK x \in Over(b, i, d) : x \in Open(st) \/ i <= Close(b, x)
  BY DEF Shape, Ancestors
<1>2. b \in Seq(Token) /\ Len(b) \in Nat
  BY DEF Shape, Typed
<1>3. a \in Over(b, i, d) /\ \A k \in Over(b, i, d) : k <= a
  BY <1>1, <1>2, AboveExists
<1>4. /\ a \in Elements(b) /\ a <= i /\ Depth(b, a) = d /\ a \in 1..Len(b)
      /\ x \in Elements(b) /\ x <= i /\ Depth(b, x) = d /\ x \in 1..Len(b) /\ x <= a /\ i \in 1..Len(b)
  BY <1>2, <1>3, ElementsAre DEF Over
<1>5. x = a
  <2> SUFFICES ASSUME x # a PROVE FALSE
    OBVIOUS
  <2>1. x < a
    BY <1>2, <1>4
  <2>2. x \notin Open(st) /\ Close(b, x) < a
    BY <1>4, <2>1 DEF Shape, Laminar
  <2>3. Close(b, x) \in Nat
    BY <1>2, <1>4, <2>2, FinishedIs DEF Finished
  <2> QED  BY <1>1, <1>2, <1>4, <2>2, <2>3
<1> QED  BY <1>1, <1>3, <1>4, <1>5

\* One element of each depth is around an element, and the deeper are inside.
LEMMA AboveOnly ==
    ASSUME NEW b, NEW st, Shape(b, st), NEW a \in Elements(b), NEW i \in Elements(b),
           a \notin Open(st), a <= i, i <= Close(b, a)
    PROVE  Above(b, i, Depth(b, a)) = a
<1>1. b \in Seq(Token) /\ Len(b) \in Nat /\ a \in 1..Len(b) /\ i \in 1..Len(b)
  BY ElementsAre DEF Shape, Typed
<1>2. a \in Over(b, i, Depth(b, a))
  BY DEF Over
<1>3. ASSUME NEW k \in Over(b, i, Depth(b, a)) PROVE k <= a
  <2>1. k \in Elements(b) /\ Depth(b, k) = Depth(b, a) /\ k <= i /\ k \in 1..Len(b)
    BY <1>1, ElementsAre DEF Over
  <2>2. ASSUME a < k PROVE FALSE
    <3>1. Close(b, a) < k
      BY <2>1, <2>2 DEF Shape, Laminar
    <3>2. Close(b, a) \in Nat
      BY <1>1, FinishedIs DEF Finished
    <3> QED  BY <1>1, <2>1, <3>1, <3>2
  <2> QED  BY <1>1, <2>1, <2>2
<1> QED  BY <1>1, <1>2, <1>3, AboveIs

\* A text that is complete stays as it is.
TextNow(b, i) == IF i < Len(b) /\ b[i + 1][1] = "text" THEN b[i + 1][2] ELSE ""

\* The text of an element stays once another token follows its start.
LEMMA TextSame ==
    ASSUME NEW b, NEW c, Extends(b, c), NEW i \in 1..Len(b),
           i < Len(b) \/ Len(c) = Len(b) \/ c[Len(b) + 1][1] # "text"
    PROVE  TextNow(c, i) = TextNow(b, i)
<1>1. Len(b) \in Nat /\ Len(c) \in Nat /\ Len(b) <= Len(c) /\ \A k \in 1..Len(b) : c[k] = b[k]
  BY DEF Extends
<1>2. CASE i < Len(b)
  <2>1. i + 1 \in 1..Len(b) /\ i < Len(c)
    BY <1>1, <1>2
  <2> QED  BY <1>1, <1>2, <2>1 DEF TextNow
<1>3. CASE i = Len(b)
  <2>0. ~(i < Len(b))
    BY <1>1, <1>3
  <2>1. TextNow(b, i) = ""
    BY <2>0 DEF TextNow
  <2>2. i < Len(c) => c[i + 1][1] # "text"
    BY <1>1, <1>3
  <2> QED  BY <2>1, <2>2 DEF TextNow
<1> QED  BY <1>1, <1>2, <1>3

\* While more than its start was read, the text is what the promise speaks of.
LEMMA TextIsNow ==
    ASSUME NEW b \in Seq(Token), NEW i \in 1..Len(b), i < Len(b)
    PROVE  TextOf(b, i) = TextNow(b, i)
BY DEF TextOf, TextNow

\* The structure that has to go with an href.
Target(b, h) ==
    LET d == Depth(b, h)
    IN  IF b[1][2] # "response" THEN 1
        ELSE IF d = depthTopHref THEN h
        ELSE IF b[Above(b, h, depthPropstat)][2] # "propstat" THEN Above(b, h, depthPropstat)
        ELSE IF b[Above(b, h, depthStatus)][2] = "prop" THEN Above(b, h, depthProperty)
        ELSE Above(b, h, depthStatus)

\* An href is below the unit.
LEMMA HrefDepth ==
    ASSUME NEW b, NEW st, Shape(b, st), Grammar(b, st),
           NEW h \in Elements(b), b[h][2] = "href"
    PROVE  Depth(b, h) \in Nat /\ Depth(b, h) >= 3 /\ 1 \in Elements(b) /\ Depth(b, 1) = 2 /\ h \in 1..Len(b)
<1>1. b \in Seq(Token) /\ Len(b) \in Nat /\ h \in 1..Len(b) /\ b[1][1] = "start" /\ b[1][2] # "href"
  BY ElementsAre DEF Shape, Typed, Grammar, BelowUnit
<1>2. 1 \in Elements(b) /\ h # 1
  BY <1>1, ElementsAre
<1>3. Depth(b, 1) = 2 /\ Depth(b, h) # 2
  BY <1>1, <1>2 DEF Grammar, BelowUnit, depthUnit
<1>4. Depth(b, h) >= 2 /\ Depth(b, h) \in Int
  BY <1>1, DepthIs DEF Shape, Ancestors, depthUnit
<1> QED  BY <1>1, <1>2, <1>3, <1>4

\* What goes with an href is around it, no deeper than a property.
LEMMA TargetFacts ==
    ASSUME NEW b, NEW st, Shape(b, st), Grammar(b, st),
           NEW h \in Elements(b), b[h][2] = "href"
    PROVE  /\ Target(b, h) \in Elements(b) /\ Target(b, h) <= h
           /\ Target(b, h) \in Open(st) \/ h <= Close(b, Target(b, h))
           /\ Depth(b, Target(b, h)) <= depthProperty
<1> DEFINE d == Depth(b, h)
<1>1. d \in Nat /\ d >= 3 /\ 1 \in Elements(b) /\ Depth(b, 1) = 2 /\ h \in 1..Len(b)
  BY HrefDepth
<1>2. Len(b) \in Nat /\ b \in Seq(Token) /\ Typed(b, st)
  BY DEF Shape, Typed
<1>3. CASE b[1][2] # "response"
  <2>1. PICK a \in Over(b, h, 2) : a \in Open(st) \/ h <= Close(b, a)
    <3>1. 2 \in depthUnit..d
      BY <1>1 DEF depthUnit
    <3> QED  BY <3>1 DEF Shape, Ancestors
  <2>2. a = 1
    BY <2>1 DEF Grammar, BelowUnit, Over, depthUnit
  <2> QED  BY <1>1, <1>3, <2>1, <2>2 DEF Target, depthProperty
<1>4. CASE b[1][2] = "response" /\ d = 3
  <2>1. h \in Open(st) \/ h <= Close(b, h)
    <3>1. h \in Finished(b, st) => h <= Close(b, h)
      <4>1. ASSUME h \in Finished(b, st) PROVE h <= Close(b, h)
        <5>1. Close(b, h) \in h..Len(b)
          BY <4>1, FinishedIs
        <5> QED  BY <1>1, <1>2, <5>1
      <4> QED  BY <4>1
    <3> QED  BY <3>1 DEF Finished
  <2> QED  BY <1>1, <1>4, <2>1 DEF Target, depthTopHref, depthProperty
<1>5. CASE b[1][2] = "response" /\ d # 3
  <2>1. d >= 4 /\ 3 \in depthUnit..d /\ 4 \in depthUnit..d
    BY <1>1, <1>5 DEF depthUnit
  <2> DEFINE In(a, e) == /\ a \in Elements(b) /\ a <= h /\ Depth(b, a) = e
                         /\ a \in Open(st) \/ h <= Close(b, a)
  <2>2. \A e \in depthUnit..d : In(Above(b, h, e), e)
    BY AboveFacts
  <2>3. In(Above(b, h, 3), 3) /\ In(Above(b, h, 4), 4) /\ (d >= 5 => In(Above(b, h, 5), 5))
    <3>1. d >= 5 => 5 \in depthUnit..d
      BY <1>1 DEF depthUnit
    <3> HIDE DEF In
    <3> QED  BY <2>1, <2>2, <3>1
  <2>4. CASE d = 4
    <3>1. Above(b, h, 4) = h
      <4>1. h \in Over(b, h, 4) /\ \A k \in Over(b, h, 4) : k <= h
        BY <1>1, <2>4 DEF Over
      <4> QED  BY <1>2, <4>1, AboveIs
    <3>2. b[Above(b, h, 4)][2] # "prop"
      BY <3>1
    <3> QED  BY <1>5, <2>3, <3>2 DEF Target, depthTopHref, depthPropstat, depthStatus, depthProperty
  <2>5. CASE d # 4
    <3>1. d >= 5
      BY <1>1, <2>1, <2>5
    <3> QED  BY <1>5, <2>3, <3>1 DEF Target, depthTopHref, depthPropstat, depthStatus, depthProperty
  <2> QED  BY <2>4, <2>5
<1> QED  BY <1>3, <1>4, <1>5

\* What Content lets StartElement add.
Allowed(st, c, name) ==
    /\ st[Len(st)].name \notin {"href", "status"}
    /\ name = "propstat" => Len(st) = depthUnit /\ st[depthUnit].name = "response"
    /\ name \in {"prop", "status"} => Len(st) = depthPropstat /\ st[depthPropstat].name = "propstat"
    /\ name = "displayname" => Len(st) = depthStatus /\ st[depthStatus].name = "prop"
    /\ c[Len(c)][1] = "empty" => name = "displayname"

\* After the start of an element, it is on top of the stack.
LEMMA LastIsTop ==
    ASSUME NEW b, NEW st, Shape(b, st), Len(st) >= depthUnit, b[Len(b)][1] = "start"
    PROVE  At(st, Len(st)) = Len(b)
<1>1. /\ b \in Seq(Token) /\ Len(b) \in Nat /\ Len(b) >= 1 /\ Len(st) \in Nat
      /\ Len(st) \in depthUnit..Len(st)
  BY DEF Shape, Typed, depthUnit
<1>2. At(st, Len(st)) \in 1..Len(b)
  BY <1>1, ElementsAre DEF Shape, OpenShape
<1>3. Depth(b, Len(b)) = Len(st)
  <2>1. Level(b, Len(b)) = Len(st) - 1
    BY DEF Shape, LevelShape, Waiting
  <2>2. Len(b) - 1 \in Nat /\ (Len(b) - 1) + 1 = Len(b)
    BY <1>1
  <2>3. Level(b, Len(b)) = Level(b, Len(b) - 1) + 1
    <3> DEFINE k == Len(b) - 1
    <3>1. k \in Nat /\ k + 1 = Len(b)
      BY <2>2
    <3> HIDE DEF k
    <3>2. Level(b, k + 1) = Level(b, k) + (IF b[k + 1][1] = "start" THEN 1
                                           ELSE IF b[k + 1][1] = "end" THEN -1 ELSE 0)
      BY <3>1, LevelSteps
    <3>3. Level(b, Len(b)) = Level(b, k) + 1
      BY <3>1, <3>2
    <3> QED  BY <3>3 DEF k
  <2>4. Level(b, Len(b) - 1) \in Int
    BY <2>2, LevelSteps
  <2>5. Len(b) \in 1..Len(b) /\ b[Len(b)][1] # "end"
    BY <1>1
  <2>6. Depth(b, Len(b)) = 2 + Level(b, Len(b) - 1)
    BY <1>1, <2>5, DepthIs
  <2> QED  BY <1>1, <2>1, <2>3, <2>4, <2>6
<1>4. ASSUME At(st, Len(st)) # Len(b) PROVE FALSE
  <2>1. Len(b) \in (At(st, Len(st)) + 1)..Len(b) /\ b[Len(b)][1] # "text"
    BY <1>1, <1>2, <1>4
  <2>2. Depth(b, Len(b)) > Len(st)
    BY <1>1, <2>1 DEF Shape, OpenShape
  <2> QED  BY <1>1, <1>3, <2>2
<1> QED  BY <1>4

\* Elements that were read keep to the grammar.
LEMMA GrammarSame ==
    ASSUME NEW b, NEW st, NEW c, Shape(b, st), Grammar(b, st), Extends(b, c),
           NEW i \in Elements(b)
    PROVE  /\ Depth(c, i) = depthUnit <=> i = 1
           /\ c[i] = b[i] /\ Depth(c, i) = Depth(b, i)
           /\ c[i][2] = "status" => Depth(c, i) = depthStatus
           /\ c[i][2] = "displayname" => /\ Depth(c, i) = depthProperty
                                         /\ Above(c, i, depthPropstat) = Above(b, i, depthPropstat)
                                         /\ c[Above(c, i, depthPropstat)][2] = "propstat"
<1>1. i \in 1..Len(b) /\ c[i] = b[i] /\ Depth(c, i) = Depth(b, i)
  BY Stable, DepthSame DEF Extends
<1>2. ASSUME b[i][2] = "displayname"
      PROVE  /\ Depth(b, i) = depthProperty
             /\ Above(c, i, depthPropstat) = Above(b, i, depthPropstat)
             /\ c[Above(c, i, depthPropstat)][2] = "propstat"
  <2>1. Depth(b, i) = 5 /\ b[Above(b, i, 3)][2] = "propstat"
    BY <1>2 DEF Grammar, NamesBelow, depthProperty, depthPropstat
  <2>2. 3 \in depthUnit..Depth(b, i)
    BY <2>1 DEF depthUnit
  <2>3. Above(b, i, 3) \in 1..Len(b)
    BY <2>2, AboveFacts
  <2>4. Above(c, i, 3) = Above(b, i, 3)
    BY Stable
  <2>5. c[Above(b, i, 3)] = b[Above(b, i, 3)]
    BY <2>3 DEF Extends
  <2> QED  BY <2>1, <2>4, <2>5 DEF depthProperty, depthPropstat
<1> QED  BY <1>1, <1>2 DEF Grammar, BelowUnit, NamesBelow

\* The start of an element keeps what is below what.
LEMMA PushGrammar ==
    ASSUME NEW b, NEW st, NEW c, NEW st2, Shape(b, st), Grammar(b, st), Push(b, st, c, st2),
           Allowed(st, c, st2[Len(st2)].name)
    PROVE  Grammar(c, st2)
<1> DEFINE n == Len(b) + 1
           m == Len(st) + 1
<1>1. /\ Extends(b, c) /\ Len(c) = n
      /\ Elements(c) = Elements(b) \cup {n}
      /\ Len(st2) = m /\ (\A d \in 1..Len(st) : st2[d] = st[d])
      /\ c[n] \in {<<"start", st2[m].name>>, <<"empty", st2[m].name>>}
      /\ At(st2, m) = n /\ Depth(c, n) = m
  BY PushFacts
<1>2. /\ b \in Seq(Token) /\ Len(b) \in Nat /\ Len(b) >= 1 /\ Len(st) \in Nat /\ Len(st) >= 2
      /\ n \in Nat /\ m \in Nat /\ Len(b) = n - 1 /\ Len(st) = m - 1
  BY DEF Shape, Typed, Push, depthUnit
<1>3. c[n][2] = st2[m].name /\ c[n][1] \in {"start", "empty"}
  BY <1>1
<1>4. Shape(c, st2)
  BY PushShape
<1>5. \A d \in 1..Len(st) : At(st2, d) = At(st, d) /\ st2[d] = st[d]
  BY <1>1 DEF At
<1>6. \A i \in Elements(b) : i \in 1..Len(b) /\ i # n
  BY <1>2, ElementsAre
<1>7. Allowed(st, c, st2[m].name)
  BY <1>1
<1> HIDE DEF n, m
<1>10. BelowUnit(c)
  <2>1. c[1] = b[1]
    BY <1>1, <1>2 DEF Extends
  <2>2. \A i \in Elements(b) : Depth(c, i) = depthUnit <=> i = 1
    BY <1>1, GrammarSame
  <2>3. Depth(c, n) # 2 /\ n # 1
    BY <1>1, <1>2
  <2> QED  BY <1>1, <2>1, <2>2, <2>3 DEF Grammar, BelowUnit, depthUnit
<1>11. Childless(c)
  <2> SUFFICES ASSUME NEW i \in Elements(c), c[i][2] \in {"href", "status"}
               PROVE  c[i][1] = "start" /\ (i < Len(c) => c[i + 1][1] \in {"text", "end"})
    BY DEF Childless
  <2>1. CASE i = n
    <3>1. c[n][1] # "empty"
      BY <1>1, <1>3, <1>7, <2>1 DEF Allowed
    <3> QED  BY <1>1, <1>2, <1>3, <2>1, <3>1
  <2>2. CASE i # n
    <3>1. i \in Elements(b) /\ i \in 1..Len(b) /\ c[i] = b[i]
      BY <1>1, <1>6, <2>2 DEF Extends
    <3>2. b[i][1] = "start" /\ (i < Len(b) => b[i + 1][1] \in {"text", "end"})
      BY <3>1 DEF Grammar, Childless
    <3>3. CASE i < Len(b)
      <4>1. i + 1 \in 1..Len(b)
        BY <1>2, <3>1, <3>3
      <4>2. c[i + 1] = b[i + 1]
        BY <1>1, <4>1 DEF Extends
      <4> QED  BY <3>1, <3>2, <3>3, <4>2
    <3>4. CASE ~(i < Len(b))
      <4>1. i = Len(b)
        BY <1>2, <3>1, <3>4
      <4>2. At(st, Len(st)) = Len(b)
        BY <1>2, <3>2, <4>1, LastIsTop DEF depthUnit
      <4>3. b[At(st, Len(st))][2] = st[Len(st)].name
        <5>1. Len(st) \in depthUnit..Len(st)
          BY <1>2 DEF depthUnit
        <5> QED  BY <5>1 DEF Shape, OpenShape
      <4> QED  BY <1>7, <3>1, <4>1, <4>2, <4>3 DEF Allowed
    <3> QED  BY <3>3, <3>4
  <2> QED  BY <2>1, <2>2
<1>12. NamesBelow(c)
  <2>1. \A i \in Elements(b) :
           /\ c[i][2] = "status" => Depth(c, i) = depthStatus
           /\ c[i][2] = "displayname" => /\ Depth(c, i) = depthProperty
                                         /\ c[Above(c, i, depthPropstat)][2] = "propstat"
    BY <1>1, GrammarSame
  <2>2. c[n][2] = "status" => Depth(c, n) = depthStatus
    BY <1>1, <1>2, <1>3, <1>7 DEF Allowed, depthStatus, depthPropstat
  <2>3. ASSUME c[n][2] = "displayname"
        PROVE  Depth(c, n) = depthProperty /\ c[Above(c, n, depthPropstat)][2] = "propstat"
    <3>1. Len(st) = 4 /\ st[4].name = "prop"
      BY <1>3, <1>7, <2>3 DEF Allowed, depthStatus
    <3>2. 4 \in depthUnit..Len(st) /\ 3 \in 1..Len(st) /\ 3 \in depthUnit..Len(st2) /\ m = 5
      <4>1. m = 5 /\ Len(st) = 4 /\ Len(st2) = 5
        BY <1>1, <3>1 DEF m
      <4> QED  BY <4>1 DEF depthUnit
    <3>3. st2[3].name = "propstat"
      BY <1>5, <3>1, <3>2 DEF Grammar, StackBelow, depthPropstat
    <3>4. At(st2, 3) < At(st2, m)
      <4>1. m \in depthUnit..Len(st2) /\ 3 < m
        BY <1>1, <3>1, <3>2 DEF depthUnit
      <4> QED  BY <1>4, <3>2, <4>1, OpenOrder DEF Shape
    <3>5. Above(c, n, 3) = At(st2, 3)
      <4>1. n \in Elements(c) /\ At(st2, 3) <= n
        <5>1. At(st2, 3) \in Nat
          BY <1>4, <3>2, Lengths DEF Shape, depthUnit
        <5> QED  BY <1>1, <1>2, <3>4, <5>1
      <4> QED  BY <1>4, <3>2, <4>1, AboveOpen
    <3>6. c[At(st2, 3)][2] = st2[3].name
      BY <1>4, <3>2 DEF Shape, OpenShape
    <3> QED  BY <1>1, <3>2, <3>3, <3>5, <3>6 DEF depthProperty, depthPropstat
  <2> QED  BY <1>1, <2>1, <2>2, <2>3 DEF NamesBelow
<1>13. StackBelow(st2)
  <2> SUFFICES ASSUME NEW d \in depthUnit..Len(st2)
               PROVE  /\ st2[d].name \in {"href", "status"} => d = Len(st2)
                      /\ st2[d].name = "propstat" => d = 3 /\ st2[2].name = "response"
                      /\ st2[d].name \in {"prop", "status"} => d = 4 /\ st2[3].name = "propstat"
                      /\ st2[d].name = "displayname" => d = 5 /\ st2[4].name = "prop"
    BY DEF StackBelow, depthUnit, depthPropstat, depthStatus, depthProperty
  <2>1. CASE d = m
    <3>1. /\ st2[m].name = "propstat" => Len(st) = 2 /\ st[2].name = "response"
          /\ st2[m].name \in {"prop", "status"} => Len(st) = 3 /\ st[3].name = "propstat"
          /\ st2[m].name = "displayname" => Len(st) = 4 /\ st[4].name = "prop"
      BY <1>7 DEF Allowed, depthUnit, depthPropstat, depthStatus
    <3>2. /\ Len(st) = 2 => m = 3 /\ st2[2] = st[2]
          /\ Len(st) = 3 => m = 4 /\ st2[3] = st[3]
          /\ Len(st) = 4 => m = 5 /\ st2[4] = st[4]
      <4>1. CASE Len(st) = 2
        BY <1>5, <4>1 DEF m
      <4>2. CASE Len(st) = 3
        BY <1>5, <4>2 DEF m
      <4>3. CASE Len(st) = 4
        BY <1>5, <4>3 DEF m
      <4> QED  BY <4>1, <4>2, <4>3
    <3> QED  BY <1>1, <2>1, <3>1, <3>2
  <2>2. CASE d # m
    <3>1. d \in depthUnit..Len(st) /\ d \in 1..Len(st)
      BY <1>1, <1>2, <2>2 DEF depthUnit
    <3>2. /\ st[d].name \in {"href", "status"} => d = Len(st)
          /\ st[d].name = "propstat" => d = 3 /\ st[2].name = "response"
          /\ st[d].name \in {"prop", "status"} => d = 4 /\ st[3].name = "propstat"
          /\ st[d].name = "displayname" => d = 5 /\ st[4].name = "prop"
      BY <3>1 DEF Grammar, StackBelow, depthUnit, depthPropstat, depthStatus, depthProperty
    <3>3. st[d].name \notin {"href", "status"}
      <4>1. d = Len(st) => st[d].name \notin {"href", "status"}
        BY <1>7 DEF Allowed
      <4> QED  BY <3>2, <4>1
    <3>4. st2[d] = st[d] /\ (d >= 3 => st2[2] = st[2]) /\ (d >= 4 => st2[3] = st[3]) /\ (d >= 5 => st2[4] = st[4])
      BY <1>2, <1>5, <3>1
    <3> QED  BY <3>2, <3>3, <3>4
  <2> QED  BY <2>1, <2>2
<1> QED  BY <1>10, <1>11, <1>12, <1>13 DEF Grammar

\* The next token is text or an end, the elements are the same.
LEMMA SameElementsGrammar ==
    ASSUME NEW b, NEW st, NEW c, Shape(b, st), Grammar(b, st), Extends(b, c),
           Elements(c) = Elements(b),
           \/ c = b
           \/ Len(c) = Len(b) + 1 /\ c[Len(b) + 1][1] \in {"text", "end"}
    PROVE  BelowUnit(c) /\ Childless(c) /\ NamesBelow(c)
<1>1. b \in Seq(Token) /\ Len(b) \in Nat /\ Len(b) >= 1
  BY DEF Shape, Typed
<1>2. BelowUnit(c)
  <2>1. c[1] = b[1]
    BY <1>1 DEF Extends
  <2> QED  BY <2>1, GrammarSame DEF Grammar, BelowUnit
<1>3. NamesBelow(c)
  BY GrammarSame DEF NamesBelow
<1>4. Childless(c)
  <2> SUFFICES ASSUME NEW i \in Elements(b), c[i][2] \in {"href", "status"}
               PROVE  c[i][1] = "start" /\ (i < Len(c) => c[i + 1][1] \in {"text", "end"})
    BY DEF Childless
  <2>1. i \in 1..Len(b) /\ c[i] = b[i]
    BY <1>1, GrammarSame, ElementsAre
  <2>2. b[i][1] = "start" /\ (i < Len(b) => b[i + 1][1] \in {"text", "end"})
    BY <2>1 DEF Grammar, Childless
  <2>3. CASE i < Len(b)
    <3>1. i + 1 \in 1..Len(b)
      BY <1>1, <2>1, <2>3
    <3>2. c[i + 1] = b[i + 1]
      BY <3>1 DEF Extends
    <3> QED  BY <2>1, <2>2, <2>3, <3>2
  <2>4. CASE ~(i < Len(b))
    <3>1. i = Len(b)
      BY <1>1, <2>1, <2>4
    <3> QED  BY <1>1, <2>1, <2>2, <3>1
  <2> QED  BY <2>3, <2>4
<1> QED  BY <1>2, <1>3, <1>4

\* So does text.
LEMMA SayGrammar ==
    ASSUME NEW b, NEW st, NEW c, Shape(b, st), Grammar(b, st), Say(b, st, c)
    PROVE  Grammar(c, st)
<1>1. /\ Extends(b, c) /\ Elements(c) = Elements(b)
      /\ Len(c) = Len(b) + 1 /\ c[Len(b) + 1][1] \in {"text", "end"}
  BY SayFacts
<1> QED  BY <1>1, SameElementsGrammar DEF Grammar

\* So does the end of an element.
LEMMA PopGrammar ==
    ASSUME NEW b, NEW st, NEW c, NEW st2, Shape(b, st), Grammar(b, st), Pop(b, st, c, st2)
    PROVE  Grammar(c, st2)
<1>1. /\ Extends(b, c) /\ Elements(c) = Elements(b)
      /\ Len(c) = IF Waiting(b, st) THEN Len(b) ELSE Len(b) + 1
      /\ Len(c) # Len(b) => c[Len(c)][1] = "end"
      /\ Len(c) = Len(b) => c = b
  BY PopFacts
<1>2. BelowUnit(c) /\ Childless(c) /\ NamesBelow(c)
  <2>1. Len(b) \in Nat
    BY DEF Shape, Typed
  <2>2. \/ c = b
        \/ Len(c) = Len(b) + 1 /\ c[Len(b) + 1][1] \in {"text", "end"}
    BY <1>1, <2>1
  <2> QED  BY <1>1, <2>2, SameElementsGrammar
<1>3. StackBelow(st2)
  <2> SUFFICES ASSUME NEW d \in depthUnit..Len(st2)
               PROVE  /\ st2[d].name \in {"href", "status"} => d = Len(st2)
                      /\ st2[d].name = "propstat" => d = 3 /\ st2[2].name = "response"
                      /\ st2[d].name \in {"prop", "status"} => d = 4 /\ st2[3].name = "propstat"
                      /\ st2[d].name = "displayname" => d = 5 /\ st2[4].name = "prop"
    BY DEF StackBelow, depthUnit, depthPropstat, depthStatus, depthProperty
  <2>1. Len(st) \in Nat /\ Len(st2) \in Nat /\ Len(st2) = Len(st) - 1
    BY DEF Shape, Typed, Pop
  <2>2. d \in depthUnit..Len(st) /\ d # Len(st) /\ d \in 1..Len(st2) /\ d >= 2
    BY <2>1 DEF depthUnit
  <2>3. /\ st[d].name \in {"href", "status"} => d = Len(st)
        /\ st[d].name = "propstat" => d = 3 /\ st[2].name = "response"
        /\ st[d].name \in {"prop", "status"} => d = 4 /\ st[3].name = "propstat"
        /\ st[d].name = "displayname" => d = 5 /\ st[4].name = "prop"
    BY <2>2 DEF Grammar, StackBelow, depthUnit, depthPropstat, depthStatus, depthProperty
  <2>4. \A e \in 1..Len(st2) : st2[e].name = st[e].name
    BY DEF Pop
  <2>5. \A e \in {2, 3, 4} : e <= d => e \in 1..Len(st2)
    BY <2>1, <2>2
  <2> QED  BY <2>2, <2>3, <2>4, <2>5
<1> QED  BY <1>2, <1>3 DEF Grammar

\* And so does the first token of a unit.
LEMMA StartGrammar ==
    ASSUME NEW b, NEW st, NEW name \in {"response", "other"}, b = <<<<"start", name>>>>,
           st \in Seq(Entry), Len(st) = 2, st[2].start = 0, st[2].name = name
    PROVE  Grammar(b, st)
<1>1. /\ Elements(b) = {1} /\ Depth(b, 1) = 2 /\ Len(b) = 1 /\ b[1] = <<"start", name>>
  BY StartShape DEF Names
<1>2. \A d \in depthUnit..Len(st) : d = 2
  BY DEF depthUnit
<1>3. BelowUnit(b)
  BY <1>1 DEF BelowUnit, depthUnit
<1>4. Childless(b) /\ NamesBelow(b)
  <2>1. b[1][2] \notin {"href", "status", "displayname"}
    BY <1>1
  <2> QED  BY <1>1, <2>1 DEF Childless, NamesBelow
<1>5. StackBelow(st)
  BY <1>2 DEF StackBelow
<1> QED  BY <1>3, <1>4, <1>5 DEF Grammar

-----------------------------------------------------------------------------
\* What was read so far calls for these edits and these displaynames.

\* The hrefs that were read, those that are outside, and what goes with them.
FinishedHrefs(b, st) == {h \in Finished(b, st) : b[h][2] = "href"}
OutHrefs(b, st) == {h \in FinishedHrefs(b, st) : Outside(TextNow(b, h))}
InHrefs(b, st) == {h \in FinishedHrefs(b, st) : ~Outside(TextNow(b, h))}
Marked(b, st) == {Target(b, h) : h \in OutHrefs(b, st)}
Dropped(b, st) == Marked(b, st) \ Open(st)

\* Elements of X that are not inside of an element of D.
FreeOf(b, D, x) == \A o \in D : o # x => ~(o <= x /\ x <= Close(b, o))
Kept(b, X, D) == {x \in X : FreeOf(b, D, x)}

\* The edits that what was read calls for, where D is dropped.
Replacement(b, h) == [from |-> h, to |-> Close(b, h) - 1, repl |-> Mapped(TextNow(b, h))]
Removal(b, o) == [from |-> o - 1, to |-> Close(b, o), repl |-> <<>>]
EditSet(b, H, D) ==
    {Replacement(b, h) : h \in Kept(b, H \ D, D)} \cup {Removal(b, o) : o \in Kept(b, D, D)}

\* The last status of a propstat is a success, or it has none.
Statuses(b, p) == {s \in Elements(b) : b[s][2] = "status" /\ Above(b, s, depthPropstat) = p}
Approved(b, p) ==
    \/ Statuses(b, p) = {}
    \/ \E s \in Statuses(b, p) : TextNow(b, s) = "200" /\ \A r \in Statuses(b, p) : r <= s
\* The displaynames that were read, and what is recorded of them.
FinishedNames(b, st) == {x \in Finished(b, st) : b[x][2] = "displayname"}
NameRecord(b, st, i) ==
    [from |-> i, to |-> IF b[i][1] = "empty" THEN i ELSE Close(b, i) - 1,
     selfClose |-> b[i][1] = "empty",
     ok |-> Above(b, i, depthPropstat) \notin Open(st) /\ Approved(b, Above(b, i, depthPropstat))]
NameSet(b, st, D) == {NameRecord(b, st, i) : i \in Kept(b, FinishedNames(b, st) \ D, D)}

\* What goes with an href does not change with what follows.
LEMMA TargetSame ==
    ASSUME NEW b, NEW st, NEW c, Shape(b, st), Grammar(b, st), Extends(b, c),
           NEW h \in Elements(b), b[h][2] = "href"
    PROVE  Target(c, h) = Target(b, h)
<1>1. Depth(b, h) \in Nat /\ Depth(b, h) >= 3 /\ 1 \in Elements(b) /\ h \in 1..Len(b)
  BY HrefDepth
<1>2. Depth(c, h) = Depth(b, h) /\ \A d : Above(c, h, d) = Above(b, h, d)
  BY <1>1, Stable, DepthSame
<1>3. \A k \in 1..Len(b) : c[k] = b[k]
  BY DEF Extends
<1>4. c[1] = b[1]
  BY <1>1, <1>3, GrammarSame
<1>5. c[Above(b, h, 3)] = b[Above(b, h, 3)]
  <2>1. 3 \in depthUnit..Depth(b, h)
    BY <1>1 DEF depthUnit
  <2>2. Above(b, h, 3) \in 1..Len(b)
    BY <2>1, AboveFacts
  <2> QED  BY <1>3, <2>2
<1>6. Depth(b, h) # 3 => c[Above(b, h, 4)] = b[Above(b, h, 4)]
  <2> SUFFICES ASSUME Depth(b, h) # 3 PROVE c[Above(b, h, 4)] = b[Above(b, h, 4)]
    OBVIOUS
  <2>1. 4 \in depthUnit..Depth(b, h)
    BY <1>1 DEF depthUnit
  <2>2. Above(b, h, 4) \in 1..Len(b)
    BY <2>1, AboveFacts
  <2> QED  BY <1>3, <2>2
<1> QED  BY <1>2, <1>4, <1>5, <1>6 DEF Target, depthTopHref, depthPropstat, depthStatus, depthProperty

\* An href that was read has its text and its end among the tokens.
LEMMA HrefFacts ==
    ASSUME NEW b, NEW st, Shape(b, st), Grammar(b, st), NEW h \in FinishedHrefs(b, st)
    PROVE  /\ h \in Elements(b) /\ b[h][2] = "href" /\ b[h][1] = "start" /\ h \in 1..Len(b)
           /\ h < Close(b, h) /\ Close(b, h) \in 1..Len(b) /\ h < Len(b)
           /\ Closes(b, h, Close(b, h)) /\ h \in Finished(b, st)
<1>1. h \in Finished(b, st) /\ b[h][2] = "href" /\ h \in Elements(b) /\ b \in Seq(Token) /\ Len(b) \in Nat
  BY DEF FinishedHrefs, Finished, Shape, Typed
<1>2. b[h][1] = "start" /\ h \in 1..Len(b)
  BY <1>1, ElementsAre DEF Grammar, Childless
<1>3. Closes(b, h, Close(b, h)) /\ Close(b, h) \in h..Len(b)
  BY <1>1, FinishedIs
<1>4. Close(b, h) # h
  BY <1>2, <1>3 DEF Closes
<1>5. h < Close(b, h) /\ Close(b, h) \in 1..Len(b) /\ h < Len(b)
  BY <1>1, <1>2, <1>3, <1>4
<1> QED  BY <1>1, <1>2, <1>3, <1>5

\* Nor does anything else that is recorded of an href.
LEMMA HrefSame ==
    ASSUME NEW b, NEW st, NEW c, Shape(b, st), Grammar(b, st), Extends(b, c),
           NEW h \in FinishedHrefs(b, st)
    PROVE  /\ TextNow(c, h) = TextNow(b, h) /\ Target(c, h) = Target(b, h)
           /\ Replacement(c, h) = Replacement(b, h) /\ c[h] = b[h]
<1>1. h \in Elements(b) /\ b[h][2] = "href" /\ h \in 1..Len(b) /\ h < Len(b) /\ h \in Finished(b, st)
  BY HrefFacts
<1>2. TextNow(c, h) = TextNow(b, h)
  BY <1>1, TextSame
<1>3. Close(c, h) = Close(b, h)
  BY <1>1, FinishedSame
<1> QED  BY <1>1, <1>2, <1>3, TargetSame, GrammarSame DEF Replacement

\* What lies inside of what does not change with what follows.
LEMMA KeptSame ==
    ASSUME NEW b, NEW st, NEW c, Shape(b, st), Extends(b, c), NEW X, NEW D \in SUBSET Finished(b, st)
    PROVE  /\ Kept(c, X, D) = Kept(b, X, D)
           /\ \A x : FreeOf(c, D, x) <=> FreeOf(b, D, x)
<1>1. \A o \in D : Close(c, o) = Close(b, o)
  BY FinishedSame
<1> QED  BY <1>1 DEF Kept, FreeOf

\* Nor do the edits.
LEMMA EditSetSame ==
    ASSUME NEW b, NEW st, NEW c, Shape(b, st), Grammar(b, st), Extends(b, c),
           NEW H \in SUBSET FinishedHrefs(b, st), NEW D \in SUBSET Finished(b, st)
    PROVE  EditSet(c, H, D) = EditSet(b, H, D)
<1>1. \A h \in H : Replacement(c, h) = Replacement(b, h)
  BY HrefSame
<1>2. \A o \in D : Removal(c, o) = Removal(b, o)
  BY FinishedSame DEF Removal
<1>3. Kept(c, H \ D, D) = Kept(b, H \ D, D) /\ Kept(c, D, D) = Kept(b, D, D)
  BY KeptSame
<1>4. Kept(b, H \ D, D) \subseteq H /\ Kept(b, D, D) \subseteq D
  BY DEF Kept
<1> QED  BY <1>1, <1>2, <1>3, <1>4 DEF EditSet

\* All hrefs here were read, and all that is dropped was read.
LEMMA SubsetFacts ==
    ASSUME NEW b, NEW st, Shape(b, st), Grammar(b, st)
    PROVE  /\ InHrefs(b, st) \subseteq FinishedHrefs(b, st) /\ OutHrefs(b, st) \subseteq FinishedHrefs(b, st)
           /\ FinishedHrefs(b, st) \subseteq Finished(b, st)
           /\ Marked(b, st) \subseteq Elements(b)
           /\ Dropped(b, st) \subseteq Finished(b, st)
<1>1. InHrefs(b, st) \subseteq FinishedHrefs(b, st) /\ OutHrefs(b, st) \subseteq FinishedHrefs(b, st)
  BY DEF InHrefs, OutHrefs
<1>2. FinishedHrefs(b, st) \subseteq Finished(b, st)
  BY DEF FinishedHrefs
<1>3. ASSUME NEW h \in OutHrefs(b, st) PROVE Target(b, h) \in Elements(b)
  <2>1. h \in Elements(b) /\ b[h][2] = "href"
    BY <1>1, HrefFacts
  <2> QED  BY <2>1, TargetFacts
<1>4. Marked(b, st) \subseteq Elements(b)
  BY <1>3 DEF Marked
<1> QED  BY <1>1, <1>2, <1>4 DEF Dropped, Finished

\* Nothing is finished by a step that opens an element or adds text.
Quiet(b, st, c, st2) ==
    /\ Shape(b, st) /\ Grammar(b, st) /\ Extends(b, c)
    /\ Finished(c, st2) = Finished(b, st)
    /\ \A i \in Elements(b) : i \in Open(st2) <=> i \in Open(st)

\* Where nothing is finished, no edit is recorded.
LEMMA QuietSame ==
    ASSUME NEW b, NEW st, NEW c, NEW st2, Quiet(b, st, c, st2)
    PROVE  /\ FinishedHrefs(c, st2) = FinishedHrefs(b, st)
           /\ InHrefs(c, st2) = InHrefs(b, st) /\ OutHrefs(c, st2) = OutHrefs(b, st)
           /\ Marked(c, st2) = Marked(b, st) /\ Dropped(c, st2) = Dropped(b, st)
           /\ EditSet(c, InHrefs(c, st2), Dropped(c, st2)) = EditSet(b, InHrefs(b, st), Dropped(b, st))
<1>0. Shape(b, st) /\ Grammar(b, st) /\ Extends(b, c) /\ Finished(c, st2) = Finished(b, st)
  BY DEF Quiet
<1>1. \A h \in Finished(b, st) : c[h] = b[h]
  BY <1>0, GrammarSame DEF Finished
<1>2. FinishedHrefs(c, st2) = FinishedHrefs(b, st)
  BY <1>0, <1>1 DEF FinishedHrefs
<1>3. \A h \in FinishedHrefs(b, st) : TextNow(c, h) = TextNow(b, h) /\ Target(c, h) = Target(b, h)
  BY <1>0, HrefSame
<1>4. InHrefs(c, st2) = InHrefs(b, st) /\ OutHrefs(c, st2) = OutHrefs(b, st)
  BY <1>2, <1>3 DEF InHrefs, OutHrefs
<1>5. OutHrefs(b, st) \subseteq FinishedHrefs(b, st) /\ Marked(b, st) \subseteq Elements(b)
      /\ InHrefs(b, st) \subseteq FinishedHrefs(b, st) /\ Dropped(b, st) \subseteq Finished(b, st)
  BY <1>0, SubsetFacts
<1>6. Marked(c, st2) = Marked(b, st)
  BY <1>3, <1>4, <1>5 DEF Marked
<1>7. Dropped(c, st2) = Dropped(b, st)
  BY <1>5, <1>6 DEF Dropped, Quiet
<1>8. EditSet(c, InHrefs(b, st), Dropped(b, st)) = EditSet(b, InHrefs(b, st), Dropped(b, st))
  BY <1>0, <1>5, EditSetSame
<1> QED  BY <1>2, <1>4, <1>6, <1>7, <1>8

\* The end of an element changes no text.
LEMMA PopText ==
    ASSUME NEW b, NEW st, NEW c, NEW st2, Shape(b, st), Pop(b, st, c, st2), NEW i \in 1..Len(b)
    PROVE  TextNow(c, i) = TextNow(b, i)
<1>1. /\ Extends(b, c)
      /\ Len(c) = IF Waiting(b, st) THEN Len(b) ELSE Len(b) + 1
      /\ Len(c) # Len(b) => c[Len(c)][1] = "end"
  BY PopFacts
<1>2. Len(b) \in Nat
  BY DEF Shape, Typed
<1>3. Len(c) = Len(b) \/ c[Len(b) + 1][1] # "text"
  BY <1>1, <1>2
<1> QED  BY <1>1, <1>3, TextSame

\* What the end of an element adds to the hrefs and to what goes with them.
LEMMA PopSets ==
    ASSUME NEW b, NEW st, NEW c, NEW st2, Shape(b, st), Grammar(b, st), Pop(b, st, c, st2)
    PROVE  LET i0 == At(st, Len(st))
               href == b[i0][2] = "href"
               out == href /\ Outside(TextNow(b, i0))
           IN  /\ InHrefs(c, st2) = InHrefs(b, st) \cup (IF href /\ ~out THEN {i0} ELSE {})
               /\ OutHrefs(c, st2) = OutHrefs(b, st) \cup (IF out THEN {i0} ELSE {})
               /\ Marked(c, st2) = Marked(b, st) \cup (IF out THEN {Target(b, i0)} ELSE {})
               /\ Dropped(c, st2) = Dropped(b, st) \cup (IF i0 \in Marked(c, st2) THEN {i0} ELSE {})
               /\ href => Target(b, i0) \in Open(st)
<1> DEFINE i0 == At(st, Len(st))
           href == b[i0][2] = "href"
           out == href /\ Outside(TextNow(b, i0))
<1>1. /\ Extends(b, c) /\ i0 \in Open(st) /\ i0 \in Elements(b)
      /\ Open(st2) = Open(st) \ {i0}
      /\ Finished(c, st2) = Finished(b, st) \cup {i0}
  BY PopFacts
<1>2. i0 \in 1..Len(b) /\ c[i0] = b[i0] /\ \A h \in Finished(b, st) : c[h] = b[h]
  BY <1>1, Stable, GrammarSame DEF Finished
<1>3. TextNow(c, i0) = TextNow(b, i0)
  BY <1>2, PopText
<1>4. \A h \in FinishedHrefs(b, st) : TextNow(c, h) = TextNow(b, h) /\ Target(c, h) = Target(b, h)
  BY <1>1, HrefSame
<1>5. href => Target(c, i0) = Target(b, i0)
  BY <1>1, TargetSame
<1>6. href => Target(b, i0) \in Open(st)
  <2> SUFFICES ASSUME href, Target(b, i0) \notin Open(st) PROVE FALSE
    OBVIOUS
  <2> HIDE DEF i0
  <2>1. /\ Target(b, i0) \in Elements(b) /\ Target(b, i0) <= i0
        /\ i0 <= Close(b, Target(b, i0))
    BY <1>1, TargetFacts
  <2>2. Target(b, i0) # i0
    BY <1>1
  <2>3. Target(b, i0) < i0
    <3>1. Target(b, i0) \in Int /\ i0 \in Int
      BY <1>1, <2>1, ElementsAre DEF Shape, Typed
    <3> QED  BY <2>1, <2>2, <3>1
  <2>4. i0 \notin Open(st)
    BY <1>1, <2>1, <2>3 DEF Shape, Laminar
  <2> QED  BY <1>1, <2>4
<1> HIDE DEF i0
<1>7. FinishedHrefs(c, st2) = FinishedHrefs(b, st) \cup (IF href THEN {i0} ELSE {})
  BY <1>1, <1>2 DEF FinishedHrefs
<1>8. InHrefs(c, st2) = InHrefs(b, st) \cup (IF href /\ ~out THEN {i0} ELSE {})
  BY <1>3, <1>4, <1>7 DEF InHrefs
<1>9. OutHrefs(c, st2) = OutHrefs(b, st) \cup (IF out THEN {i0} ELSE {})
  BY <1>3, <1>4, <1>7 DEF OutHrefs
<1>10. Marked(c, st2) = Marked(b, st) \cup (IF out THEN {Target(b, i0)} ELSE {})
  <2>1. \A h \in OutHrefs(b, st) : Target(c, h) = Target(b, h)
    BY <1>4 DEF OutHrefs
  <2> QED  BY <1>5, <1>9, <2>1 DEF Marked
<1>11. Dropped(c, st2) = Dropped(b, st) \cup (IF i0 \in Marked(c, st2) THEN {i0} ELSE {})
  BY <1>1, <1>6, <1>10 DEF Dropped
<1> QED  BY <1>6, <1>8, <1>9, <1>10, <1>11 DEF i0

\* The element that is popped is not inside of one that is finished.
LEMMA PopFree ==
    ASSUME NEW b, NEW st, NEW c, NEW st2, Shape(b, st), Pop(b, st, c, st2),
           NEW D \in SUBSET Finished(b, st)
    PROVE  /\ FreeOf(c, D, At(st, Len(st))) /\ At(st, Len(st)) \notin D
           /\ FreeOf(c, D \cup {At(st, Len(st))}, At(st, Len(st)))
<1> DEFINE i0 == At(st, Len(st))
<1>1. /\ Extends(b, c) /\ i0 \in Open(st) /\ i0 \in Elements(b)
  BY PopFacts
<1>2. i0 \notin D
  BY <1>1 DEF Finished
<1>3. ASSUME NEW o \in D PROVE ~(o <= i0 /\ i0 <= Close(c, o))
  <2>1. o \in Elements(b) /\ o \notin Open(st) /\ Close(c, o) = Close(b, o)
    BY <1>1, FinishedSame DEF Finished
  <2>2. o # i0 /\ o \in Int /\ i0 \in Int
    BY <1>1, <2>1, ElementsAre DEF Shape, Typed
  <2>3. o < i0 => ~(i0 <= Close(b, o))
    BY <1>1, <2>1 DEF Shape, Laminar
  <2> QED  BY <2>1, <2>2, <2>3
<1> QED  BY <1>2, <1>3 DEF FreeOf

\* What an href that is inside of the mount adds, and what a removal leaves.
LEMMA PopEdits ==
    ASSUME NEW b, NEW st, NEW c, NEW st2, Shape(b, st), Grammar(b, st), Pop(b, st, c, st2),
           NEW H \in SUBSET FinishedHrefs(b, st), NEW D \in SUBSET Finished(b, st)
    PROVE  /\ EditSet(c, H, D) = EditSet(b, H, D)
           /\ EditSet(c, H \cup {At(st, Len(st))}, D)
                = EditSet(b, H, D) \cup {Replacement(c, At(st, Len(st)))}
<1> DEFINE i0 == At(st, Len(st))
<1>1. Extends(b, c)
  BY PopFacts
<1>2. EditSet(c, H, D) = EditSet(b, H, D)
  BY <1>1, EditSetSame
<1>3. FreeOf(c, D, i0) /\ i0 \notin D
  BY PopFree
<1> HIDE DEF i0
<1>4. Kept(c, (H \cup {i0}) \ D, D) = Kept(c, H \ D, D) \cup {i0}
  BY <1>3 DEF Kept
<1>5. EditSet(c, H \cup {i0}, D) = EditSet(c, H, D) \cup {Replacement(c, i0)}
  BY <1>4 DEF EditSet
<1> QED  BY <1>2, <1>5 DEF i0

\* When an element is dropped, what is left of the rest is what stands before it.
LEMMA DropFree ==
    ASSUME NEW b, NEW st, NEW c, NEW st2, Shape(b, st), Pop(b, st, c, st2),
           NEW D \in SUBSET Finished(b, st), NEW x \in Finished(b, st)
    PROVE  /\ FreeOf(c, D \cup {At(st, Len(st))}, x) <=> FreeOf(c, D, x) /\ x < At(st, Len(st))
           /\ x # At(st, Len(st)) /\ x \in Nat /\ At(st, Len(st)) \in Nat
<1> DEFINE i0 == At(st, Len(st))
<1>1. /\ Extends(b, c) /\ i0 \in Open(st) /\ i0 \in Elements(b)
  BY PopFacts
<1>2. Close(c, i0) = Len(c)
  BY PopCloses
<1>3. /\ x # i0 /\ x \in 1..Len(b) /\ i0 \in 1..Len(b) /\ Len(b) \in Nat /\ Len(c) \in Nat
      /\ Len(b) <= Len(c)
  BY <1>1, ElementsAre DEF Finished, Shape, Typed, Extends
<1> HIDE DEF i0
<1>4. i0 # x /\ ((i0 <= x /\ x <= Close(c, i0)) <=> ~(x < i0))
  BY <1>2, <1>3
<1>5. FreeOf(c, D \cup {i0}, x) <=> FreeOf(c, D, x) /\ x < i0
  BY <1>4 DEF FreeOf
<1> QED  BY <1>3, <1>5 DEF i0

\* The edits that are left are those before the element, and its removal.
LEMMA DropEdits ==
    ASSUME NEW b, NEW st, NEW c, NEW st2, Shape(b, st), Grammar(b, st), Pop(b, st, c, st2),
           NEW H \in SUBSET (FinishedHrefs(b, st) \cup {At(st, Len(st))}),
           NEW D \in SUBSET Finished(b, st)
    PROVE  EditSet(c, H, D \cup {At(st, Len(st))})
             = {e \in EditSet(c, H, D) : e.from < At(st, Len(st))} \cup {Removal(c, At(st, Len(st)))}
<1> DEFINE i0 == At(st, Len(st))
           D2 == D \cup {i0}
<1>1. FreeOf(c, D, i0) /\ FreeOf(c, D2, i0) /\ i0 \notin D
  BY PopFree
<1>2. \A x \in Finished(b, st) : /\ FreeOf(c, D2, x) <=> FreeOf(c, D, x) /\ x < i0
                                 /\ x # i0 /\ x \in Nat /\ i0 \in Nat
  BY DropFree
<1>3. FinishedHrefs(b, st) \subseteq Finished(b, st)
  BY SubsetFacts
<1> HIDE DEF i0
<1>4. i0 \in Nat
  <2>1. i0 \in Elements(b)
    BY PopFacts DEF i0
  <2> QED  BY <2>1, ElementsAre DEF Shape, Typed
<1>5. ASSUME NEW x PROVE x \in Kept(c, H \ D2, D2) <=> x \in Kept(c, H \ D, D) /\ x < i0
  <2>1. CASE x = i0
    BY <1>4, <2>1 DEF Kept
  <2>2. CASE x # i0
    <3>1. x \in H => x \in Finished(b, st)
      BY <1>3, <2>2 DEF i0
    <3> HIDE DEF D2
    <3>2. x \in H \ D2 <=> x \in H \ D
      BY <2>2 DEF D2
    <3> QED  BY <1>2, <3>1, <3>2 DEF Kept
  <2> QED  BY <2>1, <2>2
<1>6. ASSUME NEW x PROVE x \in Kept(c, D2, D2) <=> (x \in Kept(c, D, D) /\ x < i0) \/ x = i0
  <2>1. CASE x = i0
    BY <1>1, <2>1 DEF Kept
  <2>2. CASE x # i0
    <3>1. x \in D2 <=> x \in D
      BY <2>2
    <3> HIDE DEF D2
    <3> QED  BY <1>2, <2>2, <3>1 DEF Kept
  <2> QED  BY <2>1, <2>2
<1>7. \A x \in Kept(c, D, D) : x \in Nat /\ x # i0
  BY <1>2 DEF Kept
<1> HIDE DEF D2
<1>8. ASSUME NEW e PROVE e \in EditSet(c, H, D2)
                           <=> e \in {f \in EditSet(c, H, D) : f.from < i0} \cup {Removal(c, i0)}
  <2>1. \A x : Replacement(c, x).from = x /\ Removal(c, x).from = x - 1
    BY DEF Replacement, Removal
  <2>2. \A x \in Kept(c, D, D) : x - 1 < i0 <=> x < i0
    BY <1>4, <1>7
  <2>3. e \in EditSet(c, H, D2) <=> \/ \E x \in Kept(c, H \ D2, D2) : e = Replacement(c, x)
                                    \/ \E x \in Kept(c, D2, D2) : e = Removal(c, x)
    BY DEF EditSet
  <2>4. e \in EditSet(c, H, D) <=> \/ \E x \in Kept(c, H \ D, D) : e = Replacement(c, x)
                                   \/ \E x \in Kept(c, D, D) : e = Removal(c, x)
    BY DEF EditSet
  <2>5. (\E x \in Kept(c, H \ D2, D2) : e = Replacement(c, x))
          <=> (\E x \in Kept(c, H \ D, D) : e = Replacement(c, x)) /\ e.from < i0
    <3>1. \A x : e = Replacement(c, x) => e.from = x
      BY <2>1
    <3> QED  BY <1>5, <3>1
  <2>6. (\E x \in Kept(c, D2, D2) : e = Removal(c, x))
          <=> ((\E x \in Kept(c, D, D) : e = Removal(c, x)) /\ e.from < i0) \/ e = Removal(c, i0)
    <3>1. \A x : e = Removal(c, x) => e.from = x - 1
      BY <2>1
    <3> QED  BY <1>6, <2>2, <3>1
  <2> QED  BY <2>3, <2>4, <2>5, <2>6
<1>9. EditSet(c, H, D2) = {f \in EditSet(c, H, D) : f.from < i0} \cup {Removal(c, i0)}
  BY <1>8
<1> QED  BY <1>9 DEF i0, D2

\* Whether a propstat counts depends on the statuses in it.
LEMMA ApprovedSame ==
    ASSUME NEW b, NEW st, NEW c, Shape(b, st), Grammar(b, st), Extends(b, c), NEW p,
           \A s \in Elements(c) : s \in Elements(b) \/ c[s][2] # "status"
                                                    \/ Above(c, s, depthPropstat) # p,
           \A s \in Statuses(b, p) : TextNow(c, s) = TextNow(b, s)
    PROVE  Approved(c, p) <=> Approved(b, p)
<1>1. \A s \in Elements(b) : /\ s \in Elements(c) /\ c[s] = b[s]
                             /\ Above(c, s, depthPropstat) = Above(b, s, depthPropstat)
  BY Stable, GrammarSame
<1>2. Statuses(c, p) = Statuses(b, p)
  BY <1>1 DEF Statuses
<1> QED  BY <1>2 DEF Approved

\* The start of an element that is not a status does not change it.
LEMMA PushApproved ==
    ASSUME NEW b, NEW st, NEW c, NEW st2, Shape(b, st), Grammar(b, st), Push(b, st, c, st2),
           NEW p, p \notin Open(st2) \/ st2[Len(st2)].name # "status",
           StackBelow(st2)
    PROVE  Approved(c, p) <=> Approved(b, p)
<1> DEFINE n == Len(b) + 1
           m == Len(st) + 1
<1>1. /\ Extends(b, c) /\ Elements(c) = Elements(b) \cup {n} /\ Len(c) = n
      /\ Len(st2) = m /\ At(st2, m) = n /\ Depth(c, n) = m
      /\ c[n] \in {<<"start", st2[m].name>>, <<"empty", st2[m].name>>}
  BY PushFacts
<1>2. Shape(c, st2)
  BY PushShape
<1>3. Len(b) \in Nat /\ Len(st) \in Nat /\ Len(st) >= 2
  BY DEF Shape, Typed, Push, depthUnit
<1>4. c[n][2] = st2[m].name /\ c[n][1] \in {"start", "empty"}
  BY <1>1
<1>5. \A s \in Elements(b) : TextNow(c, s) = TextNow(b, s)
  <2>1. \A s \in 1..Len(b) : TextNow(c, s) = TextNow(b, s)
    BY <1>1, <1>4, TextSame
  <2> QED  BY <1>1, <2>1, Stable
<1>6. c[n][2] = "status" => Above(c, n, depthPropstat) # p
  <2> SUFFICES ASSUME c[n][2] = "status" PROVE Above(c, n, depthPropstat) # p
    OBVIOUS
  <2>1. m \in depthUnit..Len(st2) /\ m \in Nat
    BY <1>1, <1>3 DEF depthUnit
  <2>2. m = 4
    BY <1>4, <2>1 DEF StackBelow, depthStatus
  <2>3. 3 \in depthUnit..Len(st2) /\ 3 < m
    BY <1>1, <2>2 DEF depthUnit
  <2>4. At(st2, 3) < At(st2, m)
    BY <1>2, <2>1, <2>3, OpenOrder DEF Shape
  <2>5. At(st2, 3) \in Nat
    BY <1>2, <2>3, Lengths DEF Shape
  <2>6. At(st2, 3) <= n /\ n \in Elements(c)
    BY <1>1, <1>3, <2>4, <2>5
  <2>7. Above(c, n, 3) = At(st2, 3)
    BY <1>2, <2>3, <2>6, AboveOpen
  <2>8. At(st2, 3) \in Open(st2) /\ st2[Len(st2)].name = "status"
    BY <1>1, <1>4, <2>3, OpenIs
  <2> QED  BY <2>7, <2>8 DEF depthPropstat
<1> HIDE DEF n
<1>7. \A s \in Elements(c) : s \in Elements(b) \/ c[s][2] # "status" \/ Above(c, s, depthPropstat) # p
  BY <1>1, <1>6
<1>8. \A s \in Statuses(b, p) : TextNow(c, s) = TextNow(b, s)
  BY <1>5 DEF Statuses
<1> QED  BY <1>1, <1>7, <1>8, ApprovedSame

\* Nor does text outside of a status.
LEMMA SayApproved ==
    ASSUME NEW b, NEW st, NEW c, Shape(b, st), Grammar(b, st), Say(b, st, c), Len(st) >= depthUnit,
           NEW p, p \notin Open(st) \/ st[Len(st)].name # "status"
    PROVE  Approved(c, p) <=> Approved(b, p)
<1>1. Extends(b, c) /\ Elements(c) = Elements(b)
  BY SayFacts
<1>2. b \in Seq(Token) /\ Len(b) \in Nat /\ Len(st) \in Nat /\ Len(st) \in depthUnit..Len(st)
  BY DEF Shape, Typed, depthUnit
<1>3. At(st, Len(st)) = Len(b)
  BY LastIsTop DEF Say
<1>4. ASSUME NEW s \in Statuses(b, p) PROVE TextNow(c, s) = TextNow(b, s)
  <2>1. s \in Elements(b) /\ s \in 1..Len(b) /\ b[s][2] = "status" /\ Above(b, s, 3) = p
    BY <1>2, ElementsAre DEF Statuses, depthPropstat
  <2>2. s # Len(b)
    <3> SUFFICES ASSUME s = Len(b) PROVE FALSE
      OBVIOUS
    <3>1. st[Len(st)].name = "status"
      BY <1>2, <1>3, <2>1 DEF Shape, OpenShape
    <3>2. Len(st) = 4
      BY <1>2, <3>1 DEF Grammar, StackBelow, depthStatus
    <3>3. 3 \in depthUnit..Len(st) /\ 3 < Len(st)
      BY <3>2 DEF depthUnit
    <3>4. At(st, 3) < s
      BY <1>2, <1>3, <3>3, OpenOrder DEF Shape
    <3>5. At(st, 3) \in Nat
      BY <3>3, Lengths DEF Shape
    <3>6. Above(b, s, 3) = At(st, 3)
      BY <2>1, <3>3, <3>4, <3>5, AboveOpen
    <3>7. At(st, 3) \in Open(st)
      BY <3>3, OpenIs
    <3> QED  BY <2>1, <3>1, <3>6, <3>7
  <2>3. s < Len(b)
    BY <1>2, <2>1, <2>2
  <2> QED  BY <1>1, <2>1, <2>3, TextSame
<1> QED  BY <1>1, <1>4, ApprovedSame

\* Nor does the end of an element.
LEMMA PopApproved ==
    ASSUME NEW b, NEW st, NEW c, NEW st2, Shape(b, st), Grammar(b, st), Pop(b, st, c, st2), NEW p
    PROVE  Approved(c, p) <=> Approved(b, p)
<1>1. Extends(b, c) /\ Elements(c) = Elements(b)
  BY PopFacts
<1>2. \A s \in Statuses(b, p) : TextNow(c, s) = TextNow(b, s)
  <2>1. \A s \in Elements(b) : s \in 1..Len(b)
    BY <1>1, Stable
  <2> QED  BY <2>1, PopText DEF Statuses
<1> QED  BY <1>1, <1>2, ApprovedSame

-----------------------------------------------------------------------------

\* A displayname and the propstat around it.
LEMMA NameFacts ==
    ASSUME NEW b, NEW st, Shape(b, st), Grammar(b, st), NEW i \in FinishedNames(b, st)
    PROVE  LET p == Above(b, i, depthPropstat)
           IN  /\ i \in Finished(b, st) /\ i \in Elements(b) /\ i \in 1..Len(b)
               /\ b[i][2] = "displayname" /\ Depth(b, i) = 5
               /\ p \in Elements(b) /\ p <= i /\ Depth(b, p) = 3 /\ b[p][2] = "propstat"
               /\ p \in Open(st) \/ i <= Close(b, p)
<1>1. i \in Finished(b, st) /\ i \in Elements(b) /\ b[i][2] = "displayname" /\ i \in 1..Len(b)
  BY ElementsAre DEF FinishedNames, Finished, Shape, Typed
<1>2. Depth(b, i) = 5 /\ b[Above(b, i, 3)][2] = "propstat"
  BY <1>1 DEF Grammar, NamesBelow, depthProperty, depthPropstat
<1>3. 3 \in depthUnit..Depth(b, i)
  BY <1>2 DEF depthUnit
<1> QED  BY <1>1, <1>2, <1>3, AboveFacts DEF depthPropstat

\* Where nothing is finished, no displayname is recorded.
LEMMA QuietNames ==
    ASSUME NEW b, NEW st, NEW c, NEW st2, Quiet(b, st, c, st2),
           \A p \in Elements(b) : p \notin Open(st) => (Approved(c, p) <=> Approved(b, p)),
           NEW D \in SUBSET Finished(b, st)
    PROVE  NameSet(c, st2, D) = NameSet(b, st, D)
<1>0. Shape(b, st) /\ Grammar(b, st) /\ Extends(b, c) /\ Finished(c, st2) = Finished(b, st)
  BY DEF Quiet
<1>1. \A h \in Finished(b, st) : c[h] = b[h]
  BY <1>0, GrammarSame DEF Finished
<1>2. FinishedNames(c, st2) = FinishedNames(b, st)
  BY <1>0, <1>1 DEF FinishedNames
<1>3. ASSUME NEW i \in FinishedNames(b, st) PROVE NameRecord(c, st2, i) = NameRecord(b, st, i)
  <2> DEFINE p == Above(b, i, depthPropstat)
  <2>1. i \in Finished(b, st) /\ i \in Elements(b) /\ p \in Elements(b)
    BY <1>0, NameFacts
  <2>2. c[i] = b[i] /\ Close(c, i) = Close(b, i) /\ Above(c, i, depthPropstat) = p
    BY <1>0, <1>1, <2>1, FinishedSame, Stable
  <2>3. (p \notin Open(st2) /\ Approved(c, p)) = (p \notin Open(st) /\ Approved(b, p))
    BY <2>1 DEF Quiet
  <2> HIDE DEF p
  <2>4. NameRecord(c, st2, i) = [from |-> i, to |-> IF b[i][1] = "empty" THEN i ELSE Close(b, i) - 1,
                                 selfClose |-> b[i][1] = "empty",
                                 ok |-> p \notin Open(st2) /\ Approved(c, p)]
    BY <2>2 DEF NameRecord
  <2>5. NameRecord(b, st, i) = [from |-> i, to |-> IF b[i][1] = "empty" THEN i ELSE Close(b, i) - 1,
                                selfClose |-> b[i][1] = "empty",
                                ok |-> p \notin Open(st) /\ Approved(b, p)]
    BY DEF NameRecord, p
  <2> QED  BY <2>3, <2>4, <2>5
<1>4. Kept(c, FinishedNames(c, st2) \ D, D) = Kept(b, FinishedNames(b, st) \ D, D)
  BY <1>0, <1>2, KeptSame
<1>5. Kept(b, FinishedNames(b, st) \ D, D) \subseteq FinishedNames(b, st)
  BY DEF Kept
<1> QED  BY <1>3, <1>4, <1>5 DEF NameSet

\* What the end of a propstat says of the displaynames in it.
Judge(b, st, c, r) ==
    IF st[Len(st)].name = "propstat" /\ r.from > At(st, Len(st))
    THEN [r EXCEPT !.ok = Approved(c, At(st, Len(st)))]
    ELSE r

\* The end of a propstat judges the displaynames in it, and no other.
LEMMA PopRecord ==
    ASSUME NEW b, NEW st, NEW c, NEW st2, Shape(b, st), Grammar(b, st), Pop(b, st, c, st2),
           NEW i \in FinishedNames(b, st)
    PROVE  NameRecord(c, st2, i) = Judge(b, st, c, NameRecord(b, st, i))
<1> DEFINE i0 == At(st, Len(st))
           p == Above(b, i, depthPropstat)
<1>1. /\ Extends(b, c) /\ Elements(c) = Elements(b) /\ i0 \in Open(st) /\ i0 \in Elements(b)
      /\ Depth(b, i0) = Len(st)
      /\ Open(st2) = Open(st) \ {i0}
  BY PopFacts
<1>2. /\ i \in Finished(b, st) /\ i \in Elements(b) /\ i \in 1..Len(b)
      /\ p \in Elements(b) /\ p <= i /\ Depth(b, p) = 3 /\ b[p][2] = "propstat"
  BY NameFacts
<1>3. c[i] = b[i] /\ Close(c, i) = Close(b, i) /\ Above(c, i, depthPropstat) = p
  BY <1>1, <1>2, FinishedSame, GrammarSame, Stable
<1>4. Approved(c, p) <=> Approved(b, p)
  BY PopApproved
<1>5. Len(st) \in depthUnit..Len(st) /\ i0 \in Nat /\ i \in Nat /\ p \in Nat
  <2>1. Len(st) \in depthUnit..Len(st)
    BY DEF Shape, Typed, Pop, depthUnit
  <2> QED  BY <1>1, <1>2, <2>1, ElementsAre DEF Shape, Typed
<1>6. p = i0 <=> st[Len(st)].name = "propstat" /\ i > i0
  <2>1. b[i0][2] = st[Len(st)].name
    BY <1>5 DEF Shape, OpenShape
  <2>2. p = i0 => st[Len(st)].name = "propstat" /\ i > i0
    <3>1. i # i0
      BY <1>1, <1>2 DEF Finished
    <3> HIDE DEF p, i0
    <3> QED  BY <1>2, <1>5, <2>1, <3>1
  <2>3. ASSUME st[Len(st)].name = "propstat", i > i0 PROVE p = i0
    <3>1. Len(st) = 3
      BY <1>5, <2>3 DEF Grammar, StackBelow, depthPropstat
    <3>2. Above(b, i, 3) = At(st, 3)
      <4>1. 3 \in depthUnit..Len(st) /\ At(st, 3) <= i
        BY <1>5, <2>3, <3>1
      <4> QED  BY <1>2, <4>1, AboveOpen
    <3> QED  BY <3>1, <3>2 DEF depthPropstat
  <2> QED  BY <2>2, <2>3
<1> HIDE DEF p, i0
<1> DEFINE to == IF b[i][1] = "empty" THEN i ELSE Close(b, i) - 1
           empty == b[i][1] = "empty"
<1>7. NameRecord(c, st2, i) = [from |-> i, to |-> to, selfClose |-> empty,
                               ok |-> p \notin Open(st2) /\ Approved(c, p)]
  BY <1>3 DEF NameRecord
<1>8. NameRecord(b, st, i) = [from |-> i, to |-> to, selfClose |-> empty,
                              ok |-> p \notin Open(st) /\ Approved(b, p)]
  BY DEF NameRecord, p
<1> HIDE DEF to, empty
<1>9. Judge(b, st, c, NameRecord(b, st, i))
        = IF p = i0 THEN [NameRecord(b, st, i) EXCEPT !.ok = Approved(c, i0)]
          ELSE NameRecord(b, st, i)
  <2>1. NameRecord(b, st, i).from = i
    BY <1>8
  <2> QED  BY <1>6, <2>1 DEF Judge, i0
<1>10. CASE p = i0
  <2>1. p \notin Open(st2)
    BY <1>1, <1>10
  <2>2. (p \notin Open(st2) /\ Approved(c, p)) = Approved(c, i0)
    <3>1. Approved(c, i0) \in BOOLEAN
      BY DEF Approved
    <3> QED  BY <1>10, <2>1, <3>1
  <2>3. [NameRecord(b, st, i) EXCEPT !.ok = Approved(c, i0)]
          = [from |-> i, to |-> to, selfClose |-> empty, ok |-> Approved(c, i0)]
    BY <1>8
  <2> QED  BY <1>7, <1>9, <1>10, <2>2, <2>3
<1>11. CASE p # i0
  <2>1. (p \notin Open(st2) /\ Approved(c, p)) = (p \notin Open(st) /\ Approved(b, p))
    BY <1>1, <1>4, <1>11
  <2> QED  BY <1>7, <1>8, <1>9, <1>11, <2>1
<1> QED  BY <1>10, <1>11

\* What the end of an element does to the displaynames.
LEMMA PopNames ==
    ASSUME NEW b, NEW st, NEW c, NEW st2, Shape(b, st), Grammar(b, st), Pop(b, st, c, st2),
           NEW D \in SUBSET Finished(b, st)
    PROVE  NameSet(c, st2, D)
             = {Judge(b, st, c, r) : r \in NameSet(b, st, D)}
               \cup (IF st[Len(st)].name = "displayname"
                     THEN {NameRecord(c, st2, At(st, Len(st)))} ELSE {})
<1> DEFINE i0 == At(st, Len(st))
           named == st[Len(st)].name = "displayname"
<1>1. /\ Extends(b, c) /\ i0 \in Open(st) /\ i0 \in Elements(b)
      /\ Finished(c, st2) = Finished(b, st) \cup {i0}
  BY PopFacts
<1>2. \A h \in Elements(b) : c[h] = b[h]
  BY <1>1, GrammarSame
<1>3. FreeOf(c, D, i0) /\ i0 \notin D
  BY PopFree
<1>4. \A x : FreeOf(c, D, x) <=> FreeOf(b, D, x)
  BY <1>1, KeptSame
<1>5. b[i0][2] = st[Len(st)].name
  <2>1. Len(st) \in depthUnit..Len(st)
    BY DEF Shape, Typed, Pop, depthUnit
  <2> QED  BY <2>1 DEF Shape, OpenShape
<1> HIDE DEF i0
<1>6. FinishedNames(c, st2) = FinishedNames(b, st) \cup (IF named THEN {i0} ELSE {})
  <2>1. \A h \in Finished(b, st) : c[h] = b[h]
    BY <1>2 DEF Finished
  <2> QED  BY <1>1, <1>2, <1>5, <2>1 DEF FinishedNames
<1>7. Kept(c, FinishedNames(c, st2) \ D, D)
        = Kept(b, FinishedNames(b, st) \ D, D) \cup (IF named THEN {i0} ELSE {})
  BY <1>3, <1>4, <1>6 DEF Kept
<1>8. \A i \in Kept(b, FinishedNames(b, st) \ D, D) :
         NameRecord(c, st2, i) = Judge(b, st, c, NameRecord(b, st, i))
  BY PopRecord DEF Kept
<1> DEFINE K == Kept(b, FinishedNames(b, st) \ D, D)
<1>9. NameSet(c, st2, D) = {NameRecord(c, st2, i) : i \in K \cup (IF named THEN {i0} ELSE {})}
  BY <1>7 DEF NameSet
<1>10. NameSet(b, st, D) = {NameRecord(b, st, i) : i \in K}
  BY DEF NameSet
<1> HIDE DEF K
<1>11. {Judge(b, st, c, r) : r \in NameSet(b, st, D)} = {NameRecord(c, st2, i) : i \in K}
  BY <1>8, <1>10 DEF K
<1>12. NameSet(c, st2, D) = {NameRecord(c, st2, i) : i \in K}
                            \cup (IF named THEN {NameRecord(c, st2, i0)} ELSE {})
  BY <1>9
<1> QED  BY <1>11, <1>12 DEF i0

\* The displaynames that are left are those before the element that is dropped.
LEMMA DropNames ==
    ASSUME NEW b, NEW st, NEW c, NEW st2, Shape(b, st), Grammar(b, st), Pop(b, st, c, st2),
           NEW D \in SUBSET Finished(b, st)
    PROVE  NameSet(c, st2, D \cup {At(st, Len(st))})
             = {r \in NameSet(c, st2, D) : r.from < At(st, Len(st))}
<1> DEFINE i0 == At(st, Len(st))
           D2 == D \cup {i0}
<1>1. FreeOf(c, D, i0) /\ i0 \notin D
  BY PopFree
<1>2. \A x \in Finished(b, st) : /\ FreeOf(c, D2, x) <=> FreeOf(c, D, x) /\ x < i0
                                 /\ x # i0 /\ x \in Nat /\ i0 \in Nat
  BY DropFree
<1>3. Finished(c, st2) = Finished(b, st) \cup {i0} /\ i0 \in Elements(b)
  BY PopFacts
<1>4. i0 \in Nat
  BY <1>3, ElementsAre DEF Shape, Typed
<1> HIDE DEF i0
<1>5. ASSUME NEW x \in FinishedNames(c, st2)
      PROVE  x \in Kept(c, FinishedNames(c, st2) \ D2, D2)
               <=> x \in Kept(c, FinishedNames(c, st2) \ D, D) /\ x < i0
  <2>1. CASE x = i0
    BY <1>4, <2>1 DEF Kept
  <2>2. CASE x # i0
    <3>1. x \in Finished(b, st)
      BY <1>3, <2>2 DEF FinishedNames
    <3> HIDE DEF D2
    <3>2. x \in D2 <=> x \in D
      BY <2>2 DEF D2
    <3> QED  BY <1>2, <3>1, <3>2 DEF Kept
  <2> QED  BY <2>1, <2>2
<1> HIDE DEF D2
<1>6. \A x : NameRecord(c, st2, x).from = x
  BY DEF NameRecord
<1>7. NameSet(c, st2, D2) = {r \in NameSet(c, st2, D) : r.from < i0}
  BY <1>5, <1>6 DEF NameSet, Kept
<1> QED  BY <1>7 DEF i0, D2

-----------------------------------------------------------------------------
\* The marks on the stack cut the lists of edits and displaynames where the
\* elements that are open begin.

\* The types of what is recorded.
Edit == [from : Nat, to : Nat, repl : Seq(Token)]
NameEntry == [from : Nat, to : Nat, selfClose : BOOLEAN, ok : BOOLEAN]

\* The marks cut a sequence where the elements that are open begin.
Cuts(st, mark, s) ==
    \A d \in depthUnit..Len(st) :
        /\ mark[d] \in 0..Len(s)
        /\ \A k \in 1..Len(s) : k <= mark[d] <=> s[k].from < At(st, d)
EditColumn(st) == [d \in 1..Len(st) |-> st[d].editMark]
NameColumn(st) == [d \in 1..Len(st) |-> st[d].nameMark]

\* The members of a sequence.
LEMMA SetOfSeq ==
    ASSUME NEW T, NEW s \in Seq(T), NEW x
    PROVE  x \in ToSet(s) <=> \E k \in 1..Len(s) : x = s[k]
BY DEF ToSet

\* The members of a sequence with one more.
LEMMA SetOfAppend ==
    ASSUME NEW T, NEW s \in Seq(T), NEW e \in T
    PROVE  /\ ToSet(Append(s, e)) = ToSet(s) \cup {e}
           /\ Append(s, e) \in Seq(T) /\ Len(Append(s, e)) = Len(s) + 1
           /\ \A k \in 1..Len(s) : Append(s, e)[k] = s[k]
           /\ Append(s, e)[Len(s) + 1] = e
<1> DEFINE a == Append(s, e)
<1>1. /\ a \in Seq(T) /\ Len(a) = Len(s) + 1 /\ Len(s) \in Nat
      /\ \A k \in 1..Len(s) : a[k] = s[k]
      /\ a[Len(s) + 1] = e
  BY AppendProperties
<1> HIDE DEF a
<1>2. ASSUME NEW x PROVE x \in ToSet(a) <=> x \in ToSet(s) \/ x = e
  <2>1. \A k : k \in 1..Len(a) <=> k \in 1..Len(s) \/ k = Len(s) + 1
    BY <1>1
  <2>2. x \in ToSet(a) <=> \E k \in 1..Len(a) : x = a[k]
    BY <1>1, SetOfSeq
  <2>3. x \in ToSet(s) <=> \E k \in 1..Len(s) : x = s[k]
    BY SetOfSeq
  <2> QED  BY <1>1, <2>1, <2>2, <2>3
<1>3. ToSet(a) = ToSet(s) \cup {e}
  BY <1>2
<1> QED  BY <1>1, <1>3 DEF a

\* What is left of a sequence when it is cut back to a mark.
LEMMA SetOfSub ==
    ASSUME NEW T, NEW s \in Seq(T), NEW n \in 0..Len(s)
    PROVE  /\ SubSeq(s, 1, n) \in Seq(T) /\ Len(SubSeq(s, 1, n)) = n
           /\ \A k \in 1..n : SubSeq(s, 1, n)[k] = s[k]
           /\ \A x : (\A k \in 1..Len(s) : k <= n <=> s[k].from < x)
                      => ToSet(SubSeq(s, 1, n)) = {e \in ToSet(s) : e.from < x}
<1> DEFINE a == SubSeq(s, 1, n)
<1>0. Len(s) \in Nat /\ n \in Nat
  OBVIOUS
<1>1. a \in Seq(T) /\ Len(a) = n /\ \A k \in 1..n : a[k] = s[k]
  <2>1. CASE n = 0
    BY <2>1, SubSeqEmpty, EmptySeq
  <2>2. CASE n # 0
    <3>1. \A k \in 1..n : s[k] \in T
      BY <1>0
    <3> QED  BY <1>0, <2>2, <3>1, SubSeqProperties
  <2> QED  BY <2>1, <2>2
<1> HIDE DEF a
<1>2. ASSUME NEW x, \A k \in 1..Len(s) : k <= n <=> s[k].from < x
      PROVE  ToSet(a) = {e \in ToSet(s) : e.from < x}
  <2>1. ASSUME NEW e PROVE e \in ToSet(a) <=> e \in ToSet(s) /\ e.from < x
    <3>1. e \in ToSet(a) <=> \E k \in 1..n : e = a[k]
      BY <1>1, SetOfSeq
    <3>2. e \in ToSet(s) <=> \E k \in 1..Len(s) : e = s[k]
      BY SetOfSeq
    <3>3. \A k : k \in 1..n <=> k \in 1..Len(s) /\ k <= n
      BY <1>0
    <3> QED  BY <1>1, <1>2, <3>1, <3>2, <3>3
  <2> QED  BY <2>1
<1> QED  BY <1>1, <1>2 DEF a

-----------------------------------------------------------------------------
\* Marks of the elements that are open.

\* An element that is opened marks all that was recorded before.
LEMMA PushCuts ==
    ASSUME NEW b, NEW st, NEW c, NEW st2, Shape(b, st), Push(b, st, c, st2),
           NEW T, NEW s \in Seq(T), NEW mark, Cuts(st, mark, s),
           \A k \in 1..Len(s) : s[k].from \in Nat /\ s[k].from <= Len(b),
           NEW mark2, \A d \in 1..Len(st) : mark2[d] = mark[d], mark2[Len(st2)] = Len(s)
    PROVE  Cuts(st2, mark2, s)
<1>1. /\ Len(st2) = Len(st) + 1 /\ (\A d \in 1..Len(st) : st2[d] = st[d])
      /\ At(st2, Len(st) + 1) = Len(b) + 1
  BY PushFacts
<1>2. Len(st) \in Nat /\ Len(b) \in Nat /\ Len(s) \in Nat
  BY DEF Shape, Typed
<1> SUFFICES ASSUME NEW d \in depthUnit..Len(st2)
             PROVE  /\ mark2[d] \in 0..Len(s)
                    /\ \A k \in 1..Len(s) : k <= mark2[d] <=> s[k].from < At(st2, d)
  BY DEF Cuts
<1>3. CASE d = Len(st2)
  <2>1. mark2[d] = Len(s) /\ At(st2, d) = Len(b) + 1
    BY <1>1, <1>3
  <2>2. \A k \in 1..Len(s) : k <= Len(s) /\ s[k].from < Len(b) + 1
    BY <1>2
  <2> QED  BY <1>2, <2>1, <2>2
<1>4. CASE d # Len(st2)
  <2>1. d \in depthUnit..Len(st) /\ d \in 1..Len(st)
    BY <1>1, <1>2, <1>4 DEF depthUnit
  <2>2. st2[d] = st[d] /\ At(st2, d) = At(st, d)
    BY <1>1, <2>1 DEF At
  <2> QED  BY <2>1, <2>2 DEF Cuts
<1> QED  BY <1>3, <1>4

\* What is recorded of an element that ends stands after every mark.
LEMMA AppendCuts ==
    ASSUME NEW st, NEW T, NEW s \in Seq(T), NEW mark, Cuts(st, mark, s), NEW e \in T,
           \A d \in depthUnit..Len(st) : ~(e.from < At(st, d))
    PROVE  Cuts(st, mark, Append(s, e))
<1> DEFINE a == Append(s, e)
<1>1. /\ Len(a) = Len(s) + 1 /\ Len(s) \in Nat
      /\ \A k \in 1..Len(s) : a[k] = s[k]
      /\ a[Len(s) + 1] = e
  BY SetOfAppend
<1> HIDE DEF a
<1> SUFFICES ASSUME NEW d \in depthUnit..Len(st)
             PROVE  /\ mark[d] \in 0..Len(a)
                    /\ \A k \in 1..Len(a) : k <= mark[d] <=> a[k].from < At(st, d)
  BY DEF Cuts, a
<1>2. mark[d] \in 0..Len(s) /\ \A k \in 1..Len(s) : k <= mark[d] <=> s[k].from < At(st, d)
  BY DEF Cuts
<1>3. \A k \in 1..Len(a) : k \in 1..Len(s) \/ k = Len(s) + 1
  BY <1>1
<1>4. ~(Len(s) + 1 <= mark[d]) /\ mark[d] \in 0..Len(a)
  BY <1>1, <1>2
<1> QED  BY <1>1, <1>2, <1>3, <1>4

\* Marks below the top cut what is left after a drop as well.
LEMMA PopCuts ==
    ASSUME NEW b, NEW st, NEW c, NEW st2, Shape(b, st), Pop(b, st, c, st2),
           NEW T, NEW s \in Seq(T), NEW mark, Cuts(st, mark, s), \A k \in 1..Len(s) : s[k].from \in Nat,
           NEW mark2, \A d \in 1..Len(st2) : mark2[d] = mark[d]
    PROVE  Cuts(st2, mark2, s) /\ Cuts(st2, mark2, SubSeq(s, 1, mark[Len(st)]))
<1>1. \A d \in depthUnit..Len(st2) : /\ d \in depthUnit..Len(st) /\ d \in 1..Len(st2) /\ d < Len(st)
  BY DEF Shape, Typed, Pop, depthUnit
<1>2. \A d \in 1..Len(st2) : At(st2, d) = At(st, d) /\ mark2[d] = mark[d]
  BY DEF Pop, At
<1>3. Cuts(st2, mark2, s)
  BY <1>1, <1>2 DEF Cuts
<1> DEFINE n == mark[Len(st)]
           a == SubSeq(s, 1, n)
<1>4. Len(st) \in depthUnit..Len(st)
  BY DEF Shape, Typed, Pop, depthUnit
<1>5. n \in 0..Len(s) /\ \A k \in 1..Len(s) : k <= n <=> s[k].from < At(st, Len(st))
  BY <1>4 DEF Cuts
<1>6. Len(a) = n /\ \A k \in 1..n : a[k] = s[k]
  BY <1>5, SetOfSub
<1> HIDE DEF n, a
<1>7. ASSUME NEW d \in depthUnit..Len(st2)
      PROVE  /\ mark2[d] \in 0..Len(a)
             /\ \A k \in 1..Len(a) : k <= mark2[d] <=> a[k].from < At(st2, d)
  <2> DEFINE e == mark[d]
  <2>1. e \in 0..Len(s) /\ \A k \in 1..Len(s) : k <= e <=> s[k].from < At(st, d)
    BY <1>1 DEF Cuts
  <2>2. At(st, d) < At(st, Len(st))
    BY <1>1, <1>4, OpenOrder DEF Shape
  <2>3. At(st, d) \in Nat /\ At(st, Len(st)) \in Nat
    BY <1>1, <1>4, Lengths DEF Shape
  <2>4. mark2[d] = e /\ At(st2, d) = At(st, d)
    BY <1>1, <1>2
  <2> HIDE DEF e
  <2>5. e <= n
    <3> SUFFICES ASSUME ~(e <= n) PROVE FALSE
      OBVIOUS
    <3>1. e \in 1..Len(s) /\ e <= e /\ ~(e <= n)
      BY <1>5, <2>1
    <3>2. s[e].from < At(st, d) /\ ~(s[e].from < At(st, Len(st)))
      BY <1>5, <2>1, <3>1
    <3>3. s[e].from \in Nat
      BY <3>1
    <3> QED  BY <2>2, <2>3, <3>2, <3>3
  <2>6. \A k \in 1..n : k \in 1..Len(s)
    BY <1>5
  <2> QED  BY <1>5, <1>6, <2>1, <2>4, <2>5, <2>6
<1>8. Cuts(st2, mark2, a)
  BY <1>7 DEF Cuts
<1> QED  BY <1>3, <1>8 DEF n, a

\* The edits and the displaynames of a unit, where D is dropped; the marks of the
\* stack cuts cut them.
Listed(b, cuts, st, D, ed, nm) ==
    /\ ed \in Seq(Edit) /\ nm \in Seq(NameEntry)
    /\ ToSet(ed) = EditSet(b, InHrefs(b, st), D)
    /\ ToSet(nm) = NameSet(b, st, D)
    /\ Cuts(cuts, EditColumn(cuts), ed)
    /\ Cuts(cuts, NameColumn(cuts), nm)

\* What is recorded begins in what was read.
LEMMA FromBound ==
    ASSUME NEW b, NEW st, Shape(b, st), Grammar(b, st),
           NEW H \in SUBSET FinishedHrefs(b, st), NEW D \in SUBSET Finished(b, st)
    PROVE  /\ \A e \in EditSet(b, H, D) : e.from \in Nat /\ e.from <= Len(b)
           /\ \A e \in NameSet(b, st, D) : e.from \in FinishedNames(b, st) /\ e.from \in Nat /\ e.from <= Len(b)
<1>1. b \in Seq(Token) /\ Len(b) \in Nat
  BY DEF Shape, Typed
<1>2. \A x \in Finished(b, st) : x \in 1..Len(b)
  BY <1>1, ElementsAre DEF Finished
<1>3. H \subseteq Finished(b, st)
  BY SubsetFacts
<1>4. ASSUME NEW e \in EditSet(b, H, D) PROVE e.from \in Nat /\ e.from <= Len(b)
  <2>1. \/ \E h \in H : e = Replacement(b, h)
        \/ \E o \in D : e = Removal(b, o)
    BY DEF EditSet, Kept
  <2>2. \/ \E h \in H : e.from = h
        \/ \E o \in D : e.from = o - 1
    BY <2>1 DEF Replacement, Removal
  <2> QED  BY <1>1, <1>2, <1>3, <2>2
<1>5. ASSUME NEW e \in NameSet(b, st, D)
      PROVE  e.from \in FinishedNames(b, st) /\ e.from \in Nat /\ e.from <= Len(b)
  <2>1. PICK i \in FinishedNames(b, st) : e = NameRecord(b, st, i)
    BY DEF NameSet, Kept
  <2>2. e.from = i /\ i \in Finished(b, st)
    BY <2>1 DEF NameRecord, FinishedNames
  <2> QED  BY <1>1, <1>2, <2>2
<1> QED  BY <1>4, <1>5

\* So does each entry of the lists.
LEMMA ListedFrom ==
    ASSUME NEW b, NEW st, Shape(b, st), Grammar(b, st), NEW cuts, NEW D \in SUBSET Finished(b, st),
           NEW ed, NEW nm, Listed(b, cuts, st, D, ed, nm)
    PROVE  /\ \A k \in 1..Len(ed) : ed[k].from \in Nat /\ ed[k].from <= Len(b)
           /\ \A k \in 1..Len(nm) : nm[k].from \in FinishedNames(b, st)
                                    /\ nm[k].from \in Nat /\ nm[k].from <= Len(b)
<1>1. InHrefs(b, st) \subseteq FinishedHrefs(b, st)
  BY SubsetFacts
<1>2. \A k \in 1..Len(ed) : ed[k] \in EditSet(b, InHrefs(b, st), D)
  BY SetOfSeq DEF Listed
<1>3. \A k \in 1..Len(nm) : nm[k] \in NameSet(b, st, D)
  BY SetOfSeq DEF Listed
<1> QED  BY <1>1, <1>2, <1>3, FromBound

\* The start of an element records nothing.
LEMMA PushListed ==
    ASSUME NEW b, NEW st, NEW c, NEW st2, Shape(b, st), Grammar(b, st), Push(b, st, c, st2),
           Grammar(c, st2), NEW ed, NEW nm, Listed(b, st, st, Dropped(b, st), ed, nm),
           st2[Len(st2)].editMark = Len(ed), st2[Len(st2)].nameMark = Len(nm)
    PROVE  Listed(c, st2, st2, Dropped(c, st2), ed, nm)
<1>1. /\ Extends(b, c) /\ Finished(c, st2) = Finished(b, st) /\ Open(st2) = Open(st) \cup {Len(b) + 1}
      /\ Len(b) + 1 \notin Elements(b)
      /\ Len(st2) = Len(st) + 1 /\ (\A d \in 1..Len(st) : st2[d] = st[d])
  BY PushFacts
<1>2. Quiet(b, st, c, st2)
  BY <1>1 DEF Quiet
<1>3. /\ Dropped(c, st2) = Dropped(b, st) /\ Dropped(b, st) \subseteq Finished(b, st)
      /\ EditSet(c, InHrefs(c, st2), Dropped(c, st2)) = EditSet(b, InHrefs(b, st), Dropped(b, st))
  BY <1>2, QuietSame, SubsetFacts
<1>4. NameSet(c, st2, Dropped(b, st)) = NameSet(b, st, Dropped(b, st))
  <2>1. ASSUME NEW p \in Elements(b), p \notin Open(st) PROVE Approved(c, p) <=> Approved(b, p)
    <3>1. p \notin Open(st2)
      BY <1>1, <2>1
    <3> QED  BY <3>1, PushApproved DEF Grammar
  <2> QED  BY <1>2, <1>3, <2>1, QuietNames
<1>5. /\ \A k \in 1..Len(ed) : ed[k].from \in Nat /\ ed[k].from <= Len(b)
      /\ \A k \in 1..Len(nm) : nm[k].from \in Nat /\ nm[k].from <= Len(b)
  BY <1>3, ListedFrom
<1>6. Len(st) \in Nat
  BY DEF Shape, Typed
<1>7. /\ \A d \in 1..Len(st) : /\ EditColumn(st2)[d] = EditColumn(st)[d]
                               /\ NameColumn(st2)[d] = NameColumn(st)[d]
      /\ EditColumn(st2)[Len(st2)] = Len(ed) /\ NameColumn(st2)[Len(st2)] = Len(nm)
  BY <1>1, <1>6 DEF EditColumn, NameColumn
<1>8. Cuts(st2, EditColumn(st2), ed)
  BY <1>5, <1>7, PushCuts DEF Listed
<1>9. Cuts(st2, NameColumn(st2), nm)
  BY <1>5, <1>7, PushCuts DEF Listed
<1> QED  BY <1>3, <1>4, <1>8, <1>9 DEF Listed

\* Nor does text.
LEMMA SayListed ==
    ASSUME NEW b, NEW st, NEW c, Shape(b, st), Grammar(b, st), Say(b, st, c), Len(st) >= depthUnit,
           NEW ed, NEW nm, Listed(b, st, st, Dropped(b, st), ed, nm)
    PROVE  Listed(c, st, st, Dropped(c, st), ed, nm)
<1>1. Extends(b, c) /\ Finished(c, st) = Finished(b, st)
  BY SayFacts
<1>2. Quiet(b, st, c, st)
  BY <1>1 DEF Quiet
<1>3. /\ Dropped(c, st) = Dropped(b, st) /\ Dropped(b, st) \subseteq Finished(b, st)
      /\ EditSet(c, InHrefs(c, st), Dropped(c, st)) = EditSet(b, InHrefs(b, st), Dropped(b, st))
  BY <1>2, QuietSame, SubsetFacts
<1>4. NameSet(c, st, Dropped(b, st)) = NameSet(b, st, Dropped(b, st))
  <2>1. \A p \in Elements(b) : p \notin Open(st) => (Approved(c, p) <=> Approved(b, p))
    BY SayApproved
  <2> QED  BY <1>2, <1>3, <2>1, QuietNames
<1> QED  BY <1>3, <1>4 DEF Listed

\* The type of a text.
LEMMA TextIsWord ==
    ASSUME NEW b \in Seq(Token), NEW i \in 1..Len(b)
    PROVE  TextNow(b, i) \in Words
<1>1. Len(b) \in Nat
  OBVIOUS
<1>2. CASE i < Len(b) /\ b[i + 1][1] = "text"
  <2>1. i + 1 \in 1..Len(b)
    BY <1>1, <1>2
  <2>2. b[i + 1] \in Token
    BY <2>1
  <2>3. b[i + 1][2] \in Words
    BY <2>2 DEF Token
  <2> QED  BY <1>2, <2>3 DEF TextNow
<1>3. CASE ~(i < Len(b) /\ b[i + 1][1] = "text")
  BY <1>3 DEF TextNow, Words
<1> QED  BY <1>2, <1>3

\* The types of what replaces hrefs and displaynames.
LEMMA MappedIsTokens ==
    ASSUME NEW text \in Words
    PROVE  Mapped(text) \in Seq(Token) /\ MountName \in Seq(Token)
<1>1. <<"mapped", text>> \in Token /\ <<"name", "mount">> \in Token
  BY DEF Token, Kinds, Words
<1> DEFINE a == <<"mapped", text>>
           d == <<"name", "mount">>
<1>2. a \in Token /\ d \in Token
  BY <1>1
<1> HIDE DEF a, d
<1>3. <<a>> \in Seq(Token) /\ <<d>> \in Seq(Token)
  BY <1>2
<1> QED  BY <1>3 DEF Mapped, MountName, a, d

\* The types of what is recorded.
LEMMA RecordTypes ==
    ASSUME NEW b, NEW st, Shape(b, st), Grammar(b, st)
    PROVE  /\ \A h \in FinishedHrefs(b, st) : Replacement(b, h) \in Edit
           /\ \A o \in Finished(b, st) : Removal(b, o) \in Edit
           /\ \A i \in FinishedNames(b, st) : NameRecord(b, st, i) \in NameEntry
<1>1. b \in Seq(Token) /\ Len(b) \in Nat
  BY DEF Shape, Typed
<1>2. ASSUME NEW h \in FinishedHrefs(b, st) PROVE Replacement(b, h) \in Edit
  <2>1. h \in 1..Len(b) /\ Close(b, h) \in 1..Len(b)
    BY HrefFacts
  <2>2. Mapped(TextNow(b, h)) \in Seq(Token)
    BY <1>1, <2>1, TextIsWord, MappedIsTokens
  <2>3. h \in Nat /\ Close(b, h) - 1 \in Nat
    BY <2>1
  <2> QED  BY <2>2, <2>3 DEF Replacement, Edit
<1>3. ASSUME NEW o \in Finished(b, st)
      PROVE  o \in 1..Len(b) /\ Close(b, o) \in Nat /\ Close(b, o) >= o
  <2>1. o \in Elements(b) /\ Close(b, o) \in o..Len(b)
    BY FinishedIs
  <2>2. o \in 1..Len(b)
    BY <1>1, <2>1, ElementsAre
  <2> QED  BY <1>1, <2>1, <2>2
<1>4. ASSUME NEW o \in Finished(b, st) PROVE Removal(b, o) \in Edit
  <2>1. o - 1 \in Nat /\ Close(b, o) \in Nat
    BY <1>3
  <2>2. <<>> \in Seq(Token)
    OBVIOUS
  <2> QED  BY <2>1, <2>2 DEF Removal, Edit
<1>5. ASSUME NEW i \in FinishedNames(b, st) PROVE NameRecord(b, st, i) \in NameEntry
  <2>1. i \in Finished(b, st)
    BY DEF FinishedNames
  <2>2. i \in Nat /\ (IF b[i][1] = "empty" THEN i ELSE Close(b, i) - 1) \in Nat
    BY <1>1, <1>3, <2>1
  <2> QED  BY <2>2 DEF NameRecord, NameEntry
<1> QED  BY <1>2, <1>4, <1>5

\* The elements that are open begin before the one on top.
LEMMA TopIsLast ==
    ASSUME NEW b, NEW st, Shape(b, st), NEW d \in depthUnit..Len(st)
    PROVE  At(st, d) <= At(st, Len(st)) /\ (d < Len(st) => At(st, d) < At(st, Len(st)))
           /\ At(st, d) \in Nat /\ At(st, Len(st)) \in Nat
<1>1. Len(st) \in depthUnit..Len(st) /\ Len(st) \in Nat
  BY DEF Shape, Typed, depthUnit
<1>2. d < Len(st) => At(st, d) < At(st, Len(st))
  BY <1>1, OpenOrder DEF Shape
<1>3. At(st, d) \in Nat /\ At(st, Len(st)) \in Nat
  BY <1>1, Lengths DEF Shape
<1> QED  BY <1>1, <1>2, <1>3

\* The end of an element as endHref and endElement record it.
LEMMA FinishListed ==
    ASSUME NEW b, NEW st, NEW c, NEW st2, Shape(b, st), Grammar(b, st), Pop(b, st, c, st2),
           NEW ed, NEW nm, Listed(b, st, st, Dropped(b, st), ed, nm),
           NEW ed1, NEW nm0, NEW nm1,
           ed1 = IF b[At(st, Len(st))][2] = "href" /\ ~Outside(TextNow(b, At(st, Len(st))))
                 THEN Append(ed, Replacement(c, At(st, Len(st)))) ELSE ed,
           nm0 \in Seq(NameEntry), Len(nm0) = Len(nm),
           \A k \in 1..Len(nm) : nm0[k] = Judge(b, st, c, nm[k]),
           nm1 = IF st[Len(st)].name = "displayname"
                 THEN Append(nm0, NameRecord(c, st2, At(st, Len(st)))) ELSE nm0
    PROVE  Listed(c, st, st2, Dropped(b, st), ed1, nm1)
<1> DEFINE i0 == At(st, Len(st))
           D == Dropped(b, st)
           H == InHrefs(b, st)
           inside == b[i0][2] = "href" /\ ~Outside(TextNow(b, i0))
           named == st[Len(st)].name = "displayname"
<1>1. /\ Extends(b, c) /\ i0 \in Elements(b)
      /\ Finished(c, st2) = Finished(b, st) \cup {i0}
  BY PopFacts
<1>2. Shape(c, st2) /\ Grammar(c, st2)
  BY PopShape, PopGrammar
<1>3. H \in SUBSET FinishedHrefs(b, st) /\ D \in SUBSET Finished(b, st)
  BY SubsetFacts
<1>4. InHrefs(c, st2) = H \cup (IF inside THEN {i0} ELSE {})
  BY PopSets
<1>5. /\ EditSet(c, H, D) = EditSet(b, H, D)
      /\ EditSet(c, H \cup {i0}, D) = EditSet(b, H, D) \cup {Replacement(c, i0)}
  BY <1>3, PopEdits
<1>6. \A d \in depthUnit..Len(st) : ~(i0 < At(st, d))
  <2>1. \A d \in depthUnit..Len(st) : At(st, d) <= i0 /\ At(st, d) \in Nat /\ i0 \in Nat
    BY TopIsLast
  <2> HIDE DEF i0
  <2> QED  BY <2>1
<1>7. /\ ed \in Seq(Edit) /\ nm \in Seq(NameEntry)
      /\ ToSet(ed) = EditSet(b, H, D) /\ ToSet(nm) = NameSet(b, st, D)
      /\ Cuts(st, EditColumn(st), ed) /\ Cuts(st, NameColumn(st), nm)
  BY DEF Listed
<1>8. named => b[i0][2] = "displayname"
  <2>1. Len(st) \in depthUnit..Len(st)
    BY DEF Shape, Typed, Pop, depthUnit
  <2> QED  BY <2>1 DEF Shape, OpenShape
<1>9. c[i0] = b[i0]
  BY <1>1, GrammarSame
<1>10. ed1 \in Seq(Edit) /\ ToSet(ed1) = EditSet(c, InHrefs(c, st2), D) /\ Cuts(st, EditColumn(st), ed1)
  <2>1. CASE ~inside
    <3>1. ed1 = ed
      BY <2>1
    <3> QED  BY <1>4, <1>5, <1>7, <2>1, <3>1
  <2>2. CASE inside
    <3> DEFINE e == Replacement(c, i0)
    <3>1. e \in Edit /\ e.from = i0
      <4>1. i0 \in FinishedHrefs(c, st2)
        BY <1>1, <1>9, <2>2 DEF FinishedHrefs
      <4> QED  BY <1>2, <4>1, RecordTypes DEF Replacement
    <3>2. ed1 = Append(ed, e)
      BY <2>2
    <3>3. InHrefs(c, st2) = H \cup {i0}
      BY <1>4, <2>2
    <3> HIDE DEF e, i0, H, D
    <3>4. ed1 \in Seq(Edit) /\ ToSet(ed1) = ToSet(ed) \cup {e}
      BY <1>7, <3>1, <3>2, SetOfAppend
    <3>5. Cuts(st, EditColumn(st), ed1)
      BY <1>6, <1>7, <3>1, <3>2, AppendCuts
    <3>6. ToSet(ed1) = EditSet(c, InHrefs(c, st2), D)
      BY <1>5, <1>7, <3>3, <3>4 DEF e
    <3> QED  BY <3>4, <3>5, <3>6
  <2> QED  BY <2>1, <2>2
<1>11. Len(nm) \in Nat /\ Len(nm0) = Len(nm) /\ nm0 \in Seq(NameEntry)
  BY <1>7
<1>12. \A k \in 1..Len(nm) : nm0[k].from = nm[k].from
  <2>1. \A k \in 1..Len(nm) : nm[k] \in NameEntry
    BY <1>7
  <2>2. \A r \in NameEntry : Judge(b, st, c, r).from = r.from
    BY DEF NameEntry, Judge
  <2> QED  BY <2>1, <2>2
<1>13. ToSet(nm0) = {Judge(b, st, c, r) : r \in NameSet(b, st, D)}
  <2>1. ASSUME NEW x PROVE x \in ToSet(nm0) <=> \E r \in NameSet(b, st, D) : x = Judge(b, st, c, r)
    <3>1. x \in ToSet(nm0) <=> \E k \in 1..Len(nm) : x = nm0[k]
      BY <1>11, SetOfSeq
    <3>2. \A r : r \in NameSet(b, st, D) <=> \E k \in 1..Len(nm) : r = nm[k]
      BY <1>7, SetOfSeq
    <3> QED  BY <3>1, <3>2
  <2> QED  BY <2>1
<1>14. Cuts(st, NameColumn(st), nm0)
  BY <1>7, <1>11, <1>12 DEF Cuts
<1>15. NameSet(c, st2, D) = {Judge(b, st, c, r) : r \in NameSet(b, st, D)}
                            \cup (IF named THEN {NameRecord(c, st2, i0)} ELSE {})
  BY <1>3, PopNames
<1>16. nm1 \in Seq(NameEntry) /\ ToSet(nm1) = NameSet(c, st2, D) /\ Cuts(st, NameColumn(st), nm1)
  <2>1. CASE ~named
    <3>1. nm1 = nm0
      BY <2>1
    <3> QED  BY <1>11, <1>13, <1>14, <1>15, <2>1, <3>1
  <2>2. CASE named
    <3> DEFINE e == NameRecord(c, st2, i0)
    <3>1. e \in NameEntry /\ e.from = i0
      <4>1. i0 \in FinishedNames(c, st2)
        BY <1>1, <1>8, <1>9, <2>2 DEF FinishedNames
      <4> QED  BY <1>2, <4>1, RecordTypes DEF NameRecord
    <3>2. nm1 = Append(nm0, e)
      BY <2>2
    <3>3. NameSet(c, st2, D) = {Judge(b, st, c, r) : r \in NameSet(b, st, D)} \cup {e}
      BY <1>15, <2>2
    <3> HIDE DEF e, i0, D
    <3>4. nm1 \in Seq(NameEntry) /\ ToSet(nm1) = ToSet(nm0) \cup {e}
      BY <1>11, <3>1, <3>2, SetOfAppend
    <3>5. Cuts(st, NameColumn(st), nm1)
      BY <1>6, <1>11, <1>14, <3>1, <3>2, AppendCuts
    <3> QED  BY <1>13, <3>3, <3>4, <3>5
  <2> QED  BY <2>1, <2>2
<1> QED  BY <1>10, <1>16 DEF Listed

\* DropEdits, for one edit.
LEMMA DropEditsEach ==
    ASSUME NEW b, NEW st, NEW c, NEW st2, Shape(b, st), Grammar(b, st), Pop(b, st, c, st2),
           NEW H \in SUBSET (FinishedHrefs(b, st) \cup {At(st, Len(st))}),
           NEW D \in SUBSET Finished(b, st)
    PROVE  \A e : e \in EditSet(c, H, D \cup {At(st, Len(st))}) <=>
                     \/ e \in EditSet(c, H, D) /\ e.from < At(st, Len(st))
                     \/ e = Removal(c, At(st, Len(st)))
<1> DEFINE A == EditSet(c, H, D \cup {At(st, Len(st))})
           B == EditSet(c, H, D)
           i0 == At(st, Len(st))
           r == Removal(c, i0)
<1>1. A = {e \in B : e.from < i0} \cup {r}
  BY DropEdits
<1> HIDE DEF A, B, i0, r
<1>2. \A e : e \in A <=> (e \in B /\ e.from < i0) \/ e = r
  BY <1>1
<1> QED  BY <1>2 DEF A, B, i0, r

\* The same with the element removed, if one of its hrefs wants that.
LEMMA DropListed ==
    ASSUME NEW b, NEW st, NEW c, NEW st2, Shape(b, st), Grammar(b, st), Pop(b, st, c, st2),
           NEW ed1, NEW nm1, Listed(c, st, st2, Dropped(b, st), ed1, nm1),
           NEW ed2, NEW nm2,
           At(st, Len(st)) \notin Marked(c, st2) => ed2 = ed1 /\ nm2 = nm1,
           At(st, Len(st)) \in Marked(c, st2) =>
              /\ ed2 = Append(SubSeq(ed1, 1, st[Len(st)].editMark), Removal(c, At(st, Len(st))))
              /\ nm2 = SubSeq(nm1, 1, st[Len(st)].nameMark)
    PROVE  Listed(c, st2, st2, Dropped(c, st2), ed2, nm2)
<1> DEFINE i0 == At(st, Len(st))
           D == Dropped(b, st)
<1>1. /\ Extends(b, c) /\ i0 \in Elements(b)
      /\ Finished(c, st2) = Finished(b, st) \cup {i0}
  BY PopFacts
<1>2. Shape(c, st2) /\ Grammar(c, st2)
  BY PopShape, PopGrammar
<1>3. D \in SUBSET Finished(b, st) /\ D \in SUBSET Finished(c, st2)
  BY <1>1, SubsetFacts
<1>4. Dropped(c, st2) = D \cup (IF i0 \in Marked(c, st2) THEN {i0} ELSE {})
  BY PopSets
<1>5. InHrefs(c, st2) \in SUBSET (FinishedHrefs(b, st) \cup {i0})
  <2>1. InHrefs(b, st) \in SUBSET FinishedHrefs(b, st)
    BY SubsetFacts
  <2> QED  BY <2>1, PopSets
<1> DEFINE H == InHrefs(c, st2)
<1>6. /\ EditSet(c, H, D \cup {i0})
           = {e \in EditSet(c, H, D) : e.from < i0} \cup {Removal(c, i0)}
      /\ NameSet(c, st2, D \cup {i0}) = {r \in NameSet(c, st2, D) : r.from < i0}
  <2>1. H \in SUBSET (FinishedHrefs(b, st) \cup {i0}) /\ D \in SUBSET Finished(b, st)
    BY <1>3, <1>5
  <2> HIDE DEF H, D
  <2>2. EditSet(c, H, D \cup {i0})
           = {e \in EditSet(c, H, D) : e.from < i0} \cup {Removal(c, i0)}
    BY <2>1, DropEditsEach
  <2>3. NameSet(c, st2, D \cup {i0}) = {r \in NameSet(c, st2, D) : r.from < i0}
    BY <2>1, DropNames
  <2> QED  BY <2>2, <2>3
<1>7. /\ ed1 \in Seq(Edit) /\ nm1 \in Seq(NameEntry)
      /\ ToSet(ed1) = EditSet(c, InHrefs(c, st2), D) /\ ToSet(nm1) = NameSet(c, st2, D)
      /\ Cuts(st, EditColumn(st), ed1) /\ Cuts(st, NameColumn(st), nm1)
  BY DEF Listed
<1>8. /\ \A k \in 1..Len(ed1) : ed1[k].from \in Nat
      /\ \A k \in 1..Len(nm1) : nm1[k].from \in Nat
  BY <1>2, <1>3, ListedFrom
<1>9. Len(st2) \in Nat /\ Len(st) \in Nat /\ Len(st2) = Len(st) - 1 /\ Len(st) \in depthUnit..Len(st)
  BY DEF Shape, Typed, Pop, depthUnit
<1>10. /\ \A d \in 1..Len(st2) : /\ EditColumn(st2)[d] = EditColumn(st)[d]
                                 /\ NameColumn(st2)[d] = NameColumn(st)[d]
       /\ EditColumn(st)[Len(st)] = st[Len(st)].editMark
       /\ NameColumn(st)[Len(st)] = st[Len(st)].nameMark
  <2>1. \A d \in 1..Len(st2) : d \in 1..Len(st)
    BY <1>9
  <2>2. Len(st) \in 1..Len(st)
    BY <1>9 DEF depthUnit
  <2> QED  BY <2>1, <2>2 DEF EditColumn, NameColumn, Pop
<1> DEFINE n == st[Len(st)].editMark
           m == st[Len(st)].nameMark
<1>11. /\ Cuts(st2, EditColumn(st2), ed1) /\ Cuts(st2, EditColumn(st2), SubSeq(ed1, 1, n))
  BY <1>7, <1>8, <1>10, PopCuts
<1>12. /\ Cuts(st2, NameColumn(st2), nm1) /\ Cuts(st2, NameColumn(st2), SubSeq(nm1, 1, m))
  BY <1>7, <1>8, <1>10, PopCuts
<1>13. CASE i0 \notin Marked(c, st2)
  BY <1>4, <1>7, <1>11, <1>12, <1>13 DEF Listed
<1>14. CASE i0 \in Marked(c, st2)
  <2> DEFINE e == Removal(c, i0)
  <2>1. ed2 = Append(SubSeq(ed1, 1, n), e) /\ nm2 = SubSeq(nm1, 1, m)
    BY <1>14
  <2>2. /\ n \in 0..Len(ed1) /\ \A k \in 1..Len(ed1) : k <= n <=> ed1[k].from < i0
        /\ m \in 0..Len(nm1) /\ \A k \in 1..Len(nm1) : k <= m <=> nm1[k].from < i0
    BY <1>7, <1>9, <1>10 DEF Cuts
  <2>3. e \in Edit /\ e.from = i0 - 1
    BY <1>1, <1>2, RecordTypes DEF Removal
  <2>4. \A d \in depthUnit..Len(st2) : ~(e.from < At(st2, d))
    <3> SUFFICES ASSUME NEW d \in depthUnit..Len(st2) PROVE ~(i0 - 1 < At(st2, d))
      BY <2>3
    <3>1. d \in depthUnit..Len(st) /\ d < Len(st) /\ d \in 1..Len(st2)
      BY <1>9 DEF depthUnit
    <3>2. At(st, d) < i0 /\ At(st, d) \in Nat /\ i0 \in Nat
      BY <3>1, TopIsLast
    <3>3. At(st2, d) = At(st, d)
      BY <3>1 DEF Pop, At
    <3> HIDE DEF i0
    <3> QED  BY <3>2, <3>3
  <2>5. Dropped(c, st2) = D \cup {i0}
    BY <1>4, <1>14
  <2> HIDE DEF e, n, m, D, i0
  <2>6. /\ SubSeq(ed1, 1, n) \in Seq(Edit)
        /\ ToSet(SubSeq(ed1, 1, n)) = {f \in ToSet(ed1) : f.from < i0}
    BY <1>7, <2>2, SetOfSub
  <2>7. /\ nm2 \in Seq(NameEntry)
        /\ ToSet(nm2) = {f \in ToSet(nm1) : f.from < i0}
    <3>1. /\ SubSeq(nm1, 1, m) \in Seq(NameEntry)
          /\ ToSet(SubSeq(nm1, 1, m)) = {f \in ToSet(nm1) : f.from < i0}
      BY <1>7, <2>2, SetOfSub
    <3> QED  BY <2>1, <3>1
  <2>8. ed2 \in Seq(Edit) /\ ToSet(ed2) = ToSet(SubSeq(ed1, 1, n)) \cup {e}
    <3> DEFINE a == SubSeq(ed1, 1, n)
    <3>1. a \in Seq(Edit) /\ ed2 = Append(a, e)
      BY <2>1, <2>6
    <3> HIDE DEF a
    <3>2. ToSet(Append(a, e)) = ToSet(a) \cup {e} /\ Append(a, e) \in Seq(Edit)
      BY <2>3, <3>1, SetOfAppend
    <3>3. ed2 \in Seq(Edit) /\ ToSet(ed2) = ToSet(a) \cup {e}
      BY <3>1, <3>2
    <3> QED  BY <3>3 DEF a
  <2>9. Cuts(st2, EditColumn(st2), ed2)
    BY <1>11, <2>1, <2>3, <2>4, <2>6, AppendCuts
  <2>10. ToSet(ed2) = EditSet(c, InHrefs(c, st2), Dropped(c, st2))
    BY <1>6, <1>7, <2>5, <2>6, <2>8 DEF e
  <2>11. ToSet(nm2) = NameSet(c, st2, Dropped(c, st2))
    BY <1>6, <1>7, <2>5, <2>7
  <2> QED  BY <1>12, <2>1, <2>7, <2>8, <2>9, <2>10, <2>11 DEF Listed
<1> QED  BY <1>13, <1>14

-----------------------------------------------------------------------------
\* What is kept of a unit, and the steps that open an element or add text.

\* What the rewriter keeps of a unit, by what it has read of it.
ReadHref == [contentStart : Nat, depth : Nat, text : Words]
UnitType ==
    [isResponse : BOOLEAN, edits : Seq(Edit), topMapped : BOOLEAN, mountRoot : BOOLEAN,
     href : {None} \cup ReadHref, displayNames : Seq(NameEntry),
     openName : {None} \cup NameEntry, propstatNames : Nat,
     statusText : Words \cup {"none"}, propstatOK : BOOLEAN]

\* What is being read, by the element on top of the stack.
HrefOf(b, st) ==
    IF st[Len(st)].name = "href"
    THEN [contentStart |-> At(st, Len(st)), depth |-> Len(st), text |-> TextNow(b, At(st, Len(st)))]
    ELSE None
NameOf(b, st) ==
    IF Len(st) >= depthProperty /\ st[depthProperty].name = "displayname"
    THEN [from |-> At(st, depthProperty), to |-> At(st, depthProperty),
          selfClose |-> b[At(st, depthProperty)][1] = "empty", ok |-> FALSE]
    ELSE None
StatusOf(b, st) ==
    IF st[Len(st)].name = "status" THEN TextNow(b, At(st, Len(st))) ELSE "none"
InPropstat(st) == Len(st) >= depthPropstat /\ st[depthPropstat].name = "propstat"

\* The hrefs of the response itself that are inside of the mount.
TopIn(b, st) == {h \in InHrefs(b, st) : b[1][2] = "response" /\ Depth(b, h) = depthTopHref}

\* The fields of a unit, by what has been read of it.
Reading(b, st, u) ==
    /\ u.isResponse <=> b[1][2] = "response"
    /\ u.href = HrefOf(b, st)
    /\ u.openName = NameOf(b, st)
    /\ u.statusText = StatusOf(b, st)
    /\ InPropstat(st) =>
          /\ u.propstatNames = st[depthPropstat].nameMark
          /\ st[Len(st)].name # "status" => (u.propstatOK <=> Approved(b, At(st, depthPropstat)))
Tops(b, st, u) ==
    /\ u.topMapped <=> TopIn(b, st) # {}
    /\ u.mountRoot <=> \E h \in TopIn(b, st) : MountRoot(TextNow(b, h))
Marks(b, st) ==
    \A d \in depthUnit..Len(st) : st[d].remove <=> At(st, d) \in Marked(b, st)
UnitInv(b, st, u) ==
    /\ Len(st) >= depthUnit
    /\ Shape(b, st)
    /\ Grammar(b, st)
    /\ Listed(b, st, st, Dropped(b, st), u.edits, u.displayNames)
    /\ u \in UnitType
    /\ Reading(b, st, u)
    /\ Tops(b, st, u)
    /\ Marks(b, st)

\* Nothing that is being read is the absence of it.
LEMMA NoneDiffers ==
    /\ \A c, d, t : [contentStart |-> c, depth |-> d, text |-> t] # None
    /\ \A f, t, s, o : [from |-> f, to |-> t, selfClose |-> s, ok |-> o] # None
<1>1. ASSUME NEW c, NEW d, NEW t PROVE [contentStart |-> c, depth |-> d, text |-> t] # None
  <2>1. "none" \in DOMAIN None
    BY DEF None
  <2>2. "none" \notin DOMAIN [contentStart |-> c, depth |-> d, text |-> t]
    OBVIOUS
  <2> QED  BY <2>1, <2>2
<1>2. ASSUME NEW f, NEW t, NEW s, NEW o
      PROVE [from |-> f, to |-> t, selfClose |-> s, ok |-> o] # None
  <2>1. "none" \in DOMAIN None
    BY DEF None
  <2>2. "none" \notin DOMAIN [from |-> f, to |-> t, selfClose |-> s, ok |-> o]
    OBVIOUS
  <2> QED  BY <2>1, <2>2
<1> QED  BY <1>1, <1>2

\* A unit is read from its first token on.
LEMMA StartUnitInv ==
    ASSUME NEW b, NEW st, NEW name \in {"response", "other"}, b = <<<<"start", name>>>>,
           st \in Seq(Entry), Len(st) = 2, st[2].start = 0, st[2].name = name,
           st[2].remove = FALSE, st[2].editMark = 0, st[2].nameMark = 0,
           NEW u, u = NewUnit(name)
    PROVE  UnitInv(b, st, u)
<1>1. name \in Names
  BY DEF Names
<1>2. /\ Shape(b, st) /\ Elements(b) = {1} /\ Depth(b, 1) = 2 /\ Len(b) = 1
      /\ Open(st) = {1} /\ Finished(b, st) = {} /\ b[1] = <<"start", name>>
      /\ At(st, 2) = 1
  BY <1>1, StartShape
<1>3. Grammar(b, st)
  BY StartGrammar
<1>4. InHrefs(b, st) = {} /\ OutHrefs(b, st) = {} /\ FinishedNames(b, st) = {}
  BY <1>2 DEF InHrefs, OutHrefs, FinishedHrefs, FinishedNames
<1>5. Marked(b, st) = {}
  BY <1>4 DEF Marked
<1>6. Dropped(b, st) = {}
  BY <1>5 DEF Dropped
<1>7. EditSet(b, {}, {}) = {} /\ NameSet(b, st, {}) = {}
  BY <1>4 DEF EditSet, NameSet, Kept
<1>8. Listed(b, st, st, Dropped(b, st), u.edits, u.displayNames)
  <2>1. u.edits = <<>> /\ u.displayNames = <<>>
    BY DEF NewUnit
  <2>2. <<>> \in Seq(Edit) /\ <<>> \in Seq(NameEntry) /\ ToSet(<<>>) = {}
    BY DEF ToSet
  <2>3. depthUnit..Len(st) = {2} /\ EditColumn(st)[2] = 0 /\ NameColumn(st)[2] = 0
    BY DEF EditColumn, NameColumn, depthUnit
  <2>4. Cuts(st, EditColumn(st), <<>>) /\ Cuts(st, NameColumn(st), <<>>)
    BY <2>3 DEF Cuts
  <2> QED  BY <1>4, <1>6, <1>7, <2>1, <2>2, <2>4 DEF Listed
<1>9. u \in UnitType
  BY DEF NewUnit, UnitType, Words
<1>10. Reading(b, st, u)
  <2>1. b[1][2] = name /\ st[Len(st)].name = name /\ name # "href" /\ name # "status"
    BY <1>2
  <2>2. HrefOf(b, st) = None /\ StatusOf(b, st) = "none" /\ NameOf(b, st) = None /\ ~InPropstat(st)
    BY <2>1 DEF HrefOf, NameOf, StatusOf, InPropstat, depthProperty, depthPropstat
  <2> QED  BY <2>1, <2>2 DEF Reading, NewUnit
<1>11. Tops(b, st, u)
  BY <1>4 DEF Tops, NewUnit, TopIn
<1>12. Marks(b, st)
  BY <1>5 DEF Marks, depthUnit
<1> QED  BY <1>2, <1>3, <1>8, <1>9, <1>10, <1>11, <1>12 DEF UnitInv, depthUnit

\* What a server may put below the open elements.
LEMMA ContentAllowed ==
    ASSUME NEW b, NEW st, Shape(b, st), Grammar(b, st), Len(st) >= depthUnit,
           NEW name \in Content([d \in 1..Len(st) |-> st[d].name]),
           NEW c, c[Len(c)][1] = "empty" => name = "displayname"
    PROVE  Allowed(st, c, name) /\ name \in Names /\ name # "multistatus"
<1> DEFINE p == [d \in 1..Len(st) |-> st[d].name]
<1>1. Len(st) \in Nat /\ Len(st) >= 2
  BY Lengths DEF Shape, depthUnit
<1>2. /\ Len(p) = Len(st) /\ \A d \in 1..Len(st) : p[d] = st[d].name
      /\ name \in Content(p)
  BY <1>1
<1> HIDE DEF p
<1>3. StackBelow(st)
  BY DEF Grammar
<1>4. CASE Len(st) = 2
  <2>1. p[2] = st[2].name
    BY <1>2, <1>4
  <2>2. st[2].name \in {"response", "other"}
    <3>1. 2 \in depthUnit..Len(st)
      BY <1>4 DEF depthUnit
    <3>2. At(st, 2) \in Elements(b) /\ b[At(st, 2)][2] = st[2].name /\ Depth(b, At(st, 2)) = 2
      BY <3>1 DEF Shape, OpenShape
    <3>3. At(st, 2) = 1
      BY <3>2 DEF Grammar, BelowUnit, depthUnit
    <3> QED  BY <3>2, <3>3 DEF Grammar, BelowUnit
  <2>3. name \in {"href", "propstat", "other"} /\ (name = "propstat" => st[2].name = "response")
    BY <1>2, <1>4, <2>1 DEF Content
  <2> QED  BY <1>4, <2>2, <2>3 DEF Allowed, Names, depthUnit
<1>5. CASE Len(st) = 3
  <2>1. p[3] = st[3].name
    BY <1>2, <1>5
  <2>2. \/ st[3].name = "propstat" /\ name \in {"prop", "status", "other"}
        \/ st[3].name = "other" /\ name \in {"href", "other"}
    BY <1>2, <1>5, <2>1 DEF Content
  <2> QED  BY <1>5, <2>2 DEF Allowed, Names, depthPropstat
<1>6. CASE Len(st) = 4
  <2>1. p[4] = st[4].name
    BY <1>2, <1>6
  <2>2. \/ st[4].name = "prop" /\ name \in {"displayname", "other"}
        \/ st[4].name = "other" /\ name = "href"
    BY <1>2, <1>6, <2>1 DEF Content
  <2> QED  BY <1>6, <2>2 DEF Allowed, Names, depthStatus
<1>7. CASE Len(st) = 5
  <2>1. p[5] = st[5].name
    BY <1>2, <1>7
  <2>2. st[5].name \in {"displayname", "other"} /\ name = "href"
    BY <1>2, <1>7, <2>1 DEF Content
  <2> QED  BY <1>7, <2>2 DEF Allowed, Names
<1>8. Len(st) <= 5
  <2>1. CASE Len(st) > 5
    <3>1. Len(p) # 0 /\ Len(p) # 1 /\ Len(p) # 2 /\ Len(p) # 3 /\ Len(p) # 4 /\ Len(p) # 5
      BY <1>1, <1>2, <2>1
    <3>2. Content(p) = {}
      BY <3>1, Zenon DEF Content
    <3> QED  BY <1>2, <3>2
  <2> QED  BY <1>1, <2>1
<1>9. Len(st) \in {2, 3, 4, 5}
  <2> DEFINE n == Len(st)
  <2>1. n \in Nat /\ n >= 2 /\ n <= 5
    BY <1>1, <1>8
  <2> HIDE DEF n
  <2>2. n = 2 \/ n = 3 \/ n = 4 \/ n = 5
    BY <2>1
  <2> QED  BY <2>2 DEF n
<1> QED  BY <1>4, <1>5, <1>6, <1>7, <1>9

\* What is being read after an element with this name is opened.
Opens(b, st, c, st2, name) ==
    /\ HrefOf(b, st) = None /\ StatusOf(b, st) = "none"
    /\ HrefOf(c, st2) = IF name = "href"
                        THEN [contentStart |-> Len(b) + 1, depth |-> Len(st) + 1, text |-> ""]
                        ELSE None
    /\ StatusOf(c, st2) = IF name = "status" THEN "" ELSE "none"
    /\ NameOf(c, st2) = IF name = "displayname"
                        THEN [from |-> Len(b) + 1, to |-> Len(b) + 1,
                              selfClose |-> c[Len(b) + 1][1] = "empty", ok |-> FALSE]
                        ELSE NameOf(b, st)
    /\ InPropstat(st2) <=> InPropstat(st) \/ name = "propstat"
    /\ name = "propstat" => Len(st) = 2
    /\ Len(st) # 2 => st2[depthPropstat] = st[depthPropstat]

\* What is being read after the start of an element.
LEMMA PushReads ==
    ASSUME NEW b, NEW st, NEW c, NEW st2, NEW name, Shape(b, st), Grammar(b, st),
           Push(b, st, c, st2), st2[Len(st2)].name = name, Allowed(st, c, name)
    PROVE  Opens(b, st, c, st2, name)
<1>1. /\ Extends(b, c) /\ Len(c) = Len(b) + 1
      /\ Len(st2) = Len(st) + 1 /\ (\A d \in 1..Len(st) : st2[d] = st[d])
      /\ At(st2, Len(st) + 1) = Len(b) + 1
  BY PushFacts
<1>2. Len(b) \in Nat /\ Len(st) \in Nat /\ Len(st) >= 2
  BY Lengths DEF Shape, Push, depthUnit
<1>3. HrefOf(b, st) = None /\ StatusOf(b, st) = "none"
  BY DEF Allowed, HrefOf, StatusOf
<1>4. TextNow(c, Len(b) + 1) = ""
  <2>1. ~(Len(b) + 1 < Len(c))
    BY <1>1, <1>2
  <2> QED  BY <2>1 DEF TextNow
<1>5. HrefOf(c, st2) = IF name = "href"
                       THEN [contentStart |-> Len(b) + 1, depth |-> Len(st) + 1, text |-> ""]
                       ELSE None
  BY <1>1, <1>4 DEF HrefOf
<1>6. StatusOf(c, st2) = IF name = "status" THEN "" ELSE "none"
  BY <1>1, <1>4 DEF StatusOf
<1>7. CASE Len(st) = 2
  <2>1. Len(st2) = 3 /\ ~(Len(st2) >= 5) /\ ~(Len(st) >= 5) /\ ~(Len(st) >= 3) /\ Len(st2) >= 3
    BY <1>1, <1>7
  <2>2. NameOf(c, st2) = None /\ NameOf(b, st) = None
    BY <2>1 DEF NameOf, depthProperty
  <2>3. name # "displayname"
    BY <1>7 DEF Allowed, depthStatus
  <2>4. InPropstat(st2) <=> InPropstat(st) \/ name = "propstat"
    BY <2>1 DEF InPropstat, depthPropstat
  <2> QED  BY <1>3, <1>5, <1>6, <1>7, <2>2, <2>3, <2>4 DEF Opens
<1>8. CASE Len(st) # 2
  <2>1. Len(st) >= 3 /\ Len(st2) >= 3 /\ 3 \in 1..Len(st)
    BY <1>1, <1>2, <1>8
  <2>2. st2[3] = st[3]
    BY <1>1, <2>1
  <2>3. name # "propstat"
    BY <1>8 DEF Allowed, depthUnit
  <2>4. InPropstat(st2) <=> InPropstat(st)
    BY <2>1, <2>2 DEF InPropstat, depthPropstat
  <2>5. NameOf(c, st2) = IF name = "displayname"
                         THEN [from |-> Len(b) + 1, to |-> Len(b) + 1,
                               selfClose |-> c[Len(b) + 1][1] = "empty", ok |-> FALSE]
                         ELSE NameOf(b, st)
    <3>1. CASE Len(st) < 4
      <4>1. ~(Len(st2) >= 5) /\ ~(Len(st) >= 5) /\ Len(st) # 4
        <5> DEFINE n == Len(st)
                   m == Len(st2)
        <5>1. n \in Nat /\ m = n + 1 /\ n < 4
          BY <1>1, <1>2, <3>1
        <5> HIDE DEF n, m
        <5>2. ~(m >= 5) /\ ~(n >= 5) /\ n # 4
          BY <5>1
        <5> QED  BY <5>2 DEF n, m
      <4>2. name # "displayname"
        BY <4>1 DEF Allowed, depthStatus
      <4> QED  BY <4>1, <4>2 DEF NameOf, depthProperty
    <3>2. CASE Len(st) = 4
      <4>1. Len(st2) = 5 /\ Len(st2) >= 5 /\ ~(Len(st) >= 5)
        BY <1>1, <1>2, <3>2
      <4>2. st2[5].name = name /\ At(st2, 5) = Len(b) + 1
        BY <1>1, <3>2, <4>1
      <4> QED  BY <4>1, <4>2 DEF NameOf, depthProperty
    <3>3. CASE Len(st) > 4
      <4>1. Len(st2) >= 5 /\ Len(st) >= 5 /\ Len(st) # 4 /\ 5 \in 1..Len(st) /\ 5 \in depthUnit..Len(st)
        BY <1>1, <1>2, <3>3 DEF depthUnit
      <4>2. name # "displayname"
        BY <4>1 DEF Allowed, depthStatus
      <4>3. st2[5] = st[5] /\ At(st2, 5) = At(st, 5)
        BY <1>1, <4>1 DEF At
      <4>4. At(st, 5) \in 1..Len(b)
        BY <4>1, ElementsAre DEF Shape, OpenShape, Typed
      <4>5. c[At(st, 5)] = b[At(st, 5)]
        BY <1>1, <4>4 DEF Extends
      <4> QED  BY <4>1, <4>2, <4>3, <4>5 DEF NameOf, depthProperty
    <3>4. Len(st) < 4 \/ Len(st) = 4 \/ Len(st) > 4
      <4> DEFINE n == Len(st)
      <4>1. n \in Nat
        BY <1>2
      <4> HIDE DEF n
      <4>2. n < 4 \/ n = 4 \/ n > 4
        BY <4>1
      <4> QED  BY <4>2 DEF n
    <3> QED  BY <3>1, <3>2, <3>3, <3>4
  <2> QED  BY <1>3, <1>5, <1>6, <1>8, <2>2, <2>3, <2>4, <2>5 DEF depthPropstat, Opens
<1> QED  BY <1>7, <1>8

\* A propstat begins without a status.
LEMMA NewPropstat ==
    ASSUME NEW b, NEW st, NEW c, NEW st2, Shape(b, st), Push(b, st, c, st2),
           Shape(c, st2), Grammar(c, st2), st2[Len(st2)].name = "propstat"
    PROVE  Approved(c, Len(b) + 1)
<1>1. /\ Extends(b, c) /\ Elements(c) = Elements(b) \cup {Len(b) + 1}
      /\ Len(c) = Len(b) + 1 /\ At(st2, Len(st) + 1) = Len(b) + 1 /\ Len(st2) = Len(st) + 1
  BY PushFacts
<1>2. c[Len(b) + 1][2] = "propstat"
  <2>1. c[Len(b) + 1] \in {<<"start", st2[Len(st) + 1].name>>, <<"empty", st2[Len(st) + 1].name>>}
    BY PushFacts
  <2> QED  BY <1>1, <2>1
<1>3. ASSUME NEW s \in Elements(c), c[s][2] = "status" PROVE Above(c, s, 3) # Len(b) + 1
  <2>1. s \in Elements(b)
    BY <1>1, <1>2, <1>3
  <2>2. s \in 1..Len(b) /\ Len(b) \in Nat
    BY <2>1, ElementsAre DEF Shape, Typed
  <2>3. Depth(c, s) = 4
    BY <1>3 DEF Grammar, NamesBelow, depthStatus
  <2>4. 3 \in depthUnit..Depth(c, s)
    BY <2>3 DEF depthUnit
  <2>5. Above(c, s, 3) <= s
    BY <2>4, AboveFacts
  <2>6. Above(c, s, 3) \in Elements(c)
    BY <2>4, AboveFacts
  <2> QED  BY <2>2, <2>5
<1> QED  BY <1>3 DEF Approved, Statuses, depthPropstat

\* The hrefs below the response and the marks stay as they are.
LEMMA QuietTops ==
    ASSUME NEW b, NEW st, NEW c, NEW st2, Quiet(b, st, c, st2)
    PROVE  /\ TopIn(c, st2) = TopIn(b, st)
           /\ \A h \in TopIn(b, st) : TextNow(c, h) = TextNow(b, h)
           /\ c[1] = b[1]
           /\ \A h \in InHrefs(b, st) : Depth(c, h) = Depth(b, h) /\ TextNow(c, h) = TextNow(b, h)
<1>1. Shape(b, st) /\ Grammar(b, st) /\ Extends(b, c)
  BY DEF Quiet
<1>2. c[1] = b[1]
  BY <1>1 DEF Extends, Shape, Typed
<1>3. InHrefs(c, st2) = InHrefs(b, st)
  BY QuietSame
<1>4. ASSUME NEW h \in InHrefs(b, st)
      PROVE  Depth(c, h) = Depth(b, h) /\ TextNow(c, h) = TextNow(b, h)
  <2>1. h \in FinishedHrefs(b, st)
    BY <1>1, SubsetFacts
  <2>2. h \in 1..Len(b) /\ TextNow(c, h) = TextNow(b, h)
    BY <1>1, <2>1, HrefFacts, HrefSame
  <2> QED  BY <1>1, <2>2, DepthSame
<1> QED  BY <1>2, <1>3, <1>4 DEF TopIn

\* Where nothing is finished, the hrefs of the response itself are the same.
LEMMA QuietUnit ==
    ASSUME NEW b, NEW st, NEW c, NEW st2, Quiet(b, st, c, st2), NEW u, Tops(b, st, u),
           NEW u2, u2.topMapped = u.topMapped, u2.mountRoot = u.mountRoot
    PROVE  Tops(c, st2, u2)
<1>1. TopIn(c, st2) = TopIn(b, st) /\ \A h \in TopIn(b, st) : TextNow(c, h) = TextNow(b, h)
  BY QuietTops
<1> QED  BY <1>1 DEF Tops

\* The start of an element finishes nothing.
LEMMA PushQuiet ==
    ASSUME NEW b, NEW st, NEW c, NEW st2, Shape(b, st), Grammar(b, st), Push(b, st, c, st2)
    PROVE  Quiet(b, st, c, st2)
<1> QED  BY PushFacts DEF Quiet

\* The names of the open elements and of another.
PathTo(st, name) == Append([d \in 1..Len(st) |-> st[d].name], name)

\* Enter, by the kind of the token.
EnterKind(u, path, end, kind) == Enter(u, path, end, kind = "empty")

\* What has been recorded stays, and what is being read is known.
ReadsOn(c, st2, u, u2) ==
    /\ Reading(c, st2, u2) /\ u2 \in UnitType
    /\ u2.edits = u.edits /\ u2.displayNames = u.displayNames
    /\ u2.topMapped = u.topMapped /\ u2.mountRoot = u.mountRoot

\* startElement below a unit, on what is kept of it.
LEMMA EnterReads ==
    ASSUME NEW b, NEW st, NEW u, UnitInv(b, st, u), NEW c, NEW st2, NEW kind, NEW name,
           Push(b, st, c, st2), st2[Len(st2)].name = name, Allowed(st, c, name),
           c[Len(b) + 1] = <<kind, name>>, Grammar(c, st2),
           st2[Len(st2)].nameMark = Len(u.displayNames),
           NEW path, path = PathTo(st, name),
           NEW u2, u2 = EnterKind(u, path, Len(b) + 1, kind)
    PROVE  ReadsOn(c, st2, u, u2)
<1>1. /\ Shape(b, st) /\ Grammar(b, st) /\ Reading(b, st, u) /\ u \in UnitType
      /\ Shape(c, st2)
  BY PushShape DEF UnitInv
<1>2. /\ Extends(b, c) /\ Len(c) = Len(b) + 1
      /\ Len(st2) = Len(st) + 1 /\ (\A d \in 1..Len(st) : st2[d] = st[d])
      /\ At(st2, Len(st) + 1) = Len(b) + 1
  BY <1>1, PushFacts
<1>3. Len(b) \in Nat /\ Len(st) \in Nat /\ Len(st) >= 2
  BY <1>1, Lengths DEF Shape, Push, depthUnit
<1>4. /\ Len(path) = Len(st) + 1 /\ Last(path) = name
      /\ \A d \in 1..Len(st) : path[d] = st[d].name
  BY <1>3 DEF Last, PathTo
<1>5. /\ HrefOf(b, st) = None /\ StatusOf(b, st) = "none"
      /\ HrefOf(c, st2) = IF name = "href"
                          THEN [contentStart |-> Len(b) + 1, depth |-> Len(st) + 1, text |-> ""]
                          ELSE None
      /\ StatusOf(c, st2) = IF name = "status" THEN "" ELSE "none"
      /\ NameOf(c, st2) = IF name = "displayname"
                          THEN [from |-> Len(b) + 1, to |-> Len(b) + 1,
                                selfClose |-> c[Len(b) + 1][1] = "empty", ok |-> FALSE]
                          ELSE NameOf(b, st)
      /\ InPropstat(st2) <=> InPropstat(st) \/ name = "propstat"
      /\ name = "propstat" => Len(st) = 2
      /\ Len(st) # 2 => st2[depthPropstat] = st[depthPropstat]
  <2>1. Opens(b, st, c, st2, name)
    BY <1>1, PushReads
  <2> QED  BY <2>1 DEF Opens
<1>6. u.href = None /\ u.statusText = "none" /\ u.openName = NameOf(b, st)
      /\ (u.isResponse <=> b[1][2] = "response")
  BY <1>1, <1>5 DEF Reading
<1>7. c[1] = b[1]
  BY <1>1, <1>2 DEF Extends, Shape, Typed
<1>8. StackBelow(st)
  BY <1>1 DEF Grammar
<1>9. name \in {"propstat", "prop", "status", "displayname"} => u.isResponse
  <2>1. b[1][2] = st[2].name
    <3>1. 2 \in depthUnit..Len(st)
      BY <1>3 DEF depthUnit
    <3>2. At(st, 2) \in Elements(b) /\ b[At(st, 2)][2] = st[2].name /\ Depth(b, At(st, 2)) = 2
      BY <1>1, <3>1 DEF Shape, OpenShape
    <3>3. At(st, 2) = 1
      BY <1>1, <3>2 DEF Grammar, BelowUnit, depthUnit
    <3> QED  BY <3>2, <3>3
  <2>2. Len(st) = 3 => 3 \in depthUnit..Len(st)
    <3>1. CASE Len(st) = 3
      BY <3>1 DEF depthUnit
    <3> QED  BY <3>1
  <2>3. Len(st) = 4 => 3 \in depthUnit..Len(st) /\ 4 \in depthUnit..Len(st)
    <3>1. CASE Len(st) = 4
      BY <3>1 DEF depthUnit
    <3> QED  BY <3>1
  <2>4. Len(st) = 3 /\ st[3].name = "propstat" => st[2].name = "response"
    BY <1>8, <2>2 DEF StackBelow, depthUnit
  <2>5. Len(st) = 4 /\ st[4].name = "prop" => st[3].name = "propstat"
    BY <1>8, <2>3 DEF StackBelow, depthPropstat
  <2>6. Len(st) = 4 /\ st[3].name = "propstat" => st[2].name = "response"
    BY <1>8, <2>3 DEF StackBelow, depthUnit
  <2> QED  BY <1>6, <2>1, <2>4, <2>5, <2>6 DEF Allowed, depthUnit, depthPropstat, depthStatus
<1>10. InPropstat(st2) => st2[3].nameMark = IF name = "propstat" THEN Len(u.displayNames) ELSE u.propstatNames
  <2>1. CASE name = "propstat"
    <3>1. Len(st) = 2
      BY <1>5, <2>1
    <3>2. Len(st2) = 3 /\ st2[3].nameMark = st2[Len(st2)].nameMark
      BY <1>2, <3>1
    <3> QED  BY <2>1, <3>2
  <2>2. CASE name # "propstat"
    <3> SUFFICES ASSUME InPropstat(st) PROVE st2[3].nameMark = u.propstatNames
      BY <1>5, <2>2
    <3>1. Len(st) # 2
      BY DEF InPropstat, depthPropstat
    <3> QED  BY <1>1, <1>5, <3>1 DEF Reading, depthPropstat
  <2> QED  BY <2>1, <2>2
<1>11. InPropstat(st2) /\ name # "status"
         => (Approved(c, At(st2, 3)) <=> (name = "propstat" \/ u.propstatOK))
  <2>1. CASE name = "propstat"
    <3>1. Len(st) = 2
      BY <1>5, <2>1
    <3>2. At(st2, 3) = Len(b) + 1
      BY <1>2, <3>1
    <3>3. Approved(c, Len(b) + 1)
      BY <1>1, <2>1, NewPropstat
    <3> QED  BY <2>1, <3>2, <3>3
  <2>2. CASE name # "propstat"
    <3> SUFFICES ASSUME InPropstat(st), name # "status"
                 PROVE Approved(c, At(st2, 3)) <=> u.propstatOK
      BY <1>5, <2>2
    <3>1. Len(st) # 2
      BY DEF InPropstat, depthPropstat
    <3>2. At(st2, 3) = At(st, 3)
      BY <1>5, <3>1 DEF At, depthPropstat
    <3>3. u.propstatOK <=> Approved(b, At(st, 3))
      BY <1>1 DEF Reading, depthPropstat, Allowed
    <3>4. StackBelow(st2) /\ st2[Len(st2)].name # "status"
      BY DEF Grammar
    <3>5. Approved(c, At(st, 3)) <=> Approved(b, At(st, 3))
      BY <1>1, <3>4, PushApproved
    <3> QED  BY <3>2, <3>3, <3>5
  <2> QED  BY <2>1, <2>2
<1>12. ASSUME u2.isResponse = u.isResponse, u2.href = HrefOf(c, st2), u2.openName = NameOf(c, st2),
              u2.statusText = StatusOf(c, st2),
              u2.propstatNames = IF name = "propstat" THEN Len(u.displayNames) ELSE u.propstatNames,
              u2.propstatOK <=> (name = "propstat" \/ u.propstatOK)
       PROVE  Reading(c, st2, u2)
  BY <1>6, <1>7, <1>10, <1>11, <1>12 DEF Reading, depthPropstat
<1>13. Len(u.displayNames) \in Nat /\ Len(b) + 1 \in Nat /\ Len(st) + 1 \in Nat
  BY <1>1, <1>3 DEF UnitType
<1>14. "" \in Words
  BY DEF Words
<1>15. CASE name = "href"
  <2> DEFINE h == [contentStart |-> Len(b) + 1, depth |-> Len(st) + 1, text |-> ""]
  <2>1. u2 = [u EXCEPT !.href = h]
    BY <1>4, <1>6, <1>15 DEF EnterKind, Enter
  <2>2. h \in ReadHref
    BY <1>13, <1>14 DEF ReadHref
  <2>3. HrefOf(c, st2) = h
    BY <1>5, <1>15
  <2> HIDE DEF h
  <2>4. u2 \in UnitType
    BY <1>1, <2>1, <2>2 DEF UnitType
  <2>5. /\ u2.edits = u.edits /\ u2.displayNames = u.displayNames
        /\ u2.topMapped = u.topMapped /\ u2.mountRoot = u.mountRoot
        /\ u2.isResponse = u.isResponse /\ u2.openName = u.openName /\ u2.statusText = u.statusText
        /\ u2.propstatNames = u.propstatNames /\ u2.propstatOK = u.propstatOK
        /\ u2.href = h
    BY <1>1, <2>1 DEF UnitType
  <2>6. NameOf(c, st2) = NameOf(b, st) /\ StatusOf(c, st2) = "none"
    BY <1>5, <1>15
  <2> QED  BY <1>6, <1>12, <1>15, <2>3, <2>4, <2>5, <2>6 DEF ReadsOn
<1>16. CASE name = "propstat"
  <2>1. u2 = [u EXCEPT !.propstatNames = Len(u.displayNames), !.propstatOK = TRUE]
    <3>1. Len(st) = 2
      BY <1>5, <1>16
    <3>2. Len(path) = 3
      BY <1>4, <3>1
    <3>3. u.isResponse
      BY <1>9, <1>16
    <3> QED  BY <1>4, <1>16, <3>2, <3>3 DEF EnterKind, Enter, depthPropstat, depthStatus, depthProperty
  <2>2. u2 \in UnitType
    BY <1>1, <1>13, <2>1 DEF UnitType
  <2>3. /\ u2.edits = u.edits /\ u2.displayNames = u.displayNames
        /\ u2.topMapped = u.topMapped /\ u2.mountRoot = u.mountRoot
        /\ u2.isResponse = u.isResponse /\ u2.openName = u.openName /\ u2.statusText = u.statusText
        /\ u2.propstatNames = Len(u.displayNames) /\ u2.propstatOK = TRUE /\ u2.href = u.href
    BY <1>1, <2>1 DEF UnitType
  <2> QED  BY <1>5, <1>6, <1>12, <1>16, <2>2, <2>3 DEF ReadsOn
<1>17. CASE name = "status"
  <2>1. u2 = [u EXCEPT !.statusText = ""]
    <3>1. Len(st) = 3 /\ st[3].name = "propstat"
      BY <1>17 DEF Allowed, depthPropstat
    <3>2. Len(path) = 4 /\ u.isResponse /\ path[3] = "propstat"
      BY <1>3, <1>4, <1>9, <1>17, <3>1
    <3> QED  BY <1>4, <1>17, <3>2 DEF EnterKind, Enter, depthPropstat, depthStatus, depthProperty
  <2>2. u2 \in UnitType
    BY <1>1, <1>14, <2>1 DEF UnitType
  <2>3. /\ u2.edits = u.edits /\ u2.displayNames = u.displayNames
        /\ u2.topMapped = u.topMapped /\ u2.mountRoot = u.mountRoot
        /\ u2.isResponse = u.isResponse /\ u2.openName = u.openName /\ u2.statusText = ""
        /\ u2.propstatNames = u.propstatNames /\ u2.propstatOK = u.propstatOK /\ u2.href = u.href
    BY <1>1, <2>1 DEF UnitType
  <2>4. HrefOf(c, st2) = None /\ NameOf(c, st2) = NameOf(b, st) /\ StatusOf(c, st2) = ""
    BY <1>5, <1>17
  <2> QED  BY <1>6, <1>12, <1>17, <2>2, <2>3, <2>4 DEF ReadsOn
<1>18. CASE name = "displayname"
  <2> DEFINE n == [from |-> Len(b) + 1, to |-> Len(b) + 1, selfClose |-> kind = "empty", ok |-> FALSE]
  <2>1. u2 = [u EXCEPT !.openName = n]
    <3>1. Len(st) = 4 /\ st[4].name = "prop"
      BY <1>18 DEF Allowed, depthStatus
    <3>2. 4 \in depthUnit..Len(st)
      BY <3>1 DEF depthUnit
    <3>3. st[3].name = "propstat"
      BY <1>8, <3>1, <3>2 DEF StackBelow, depthPropstat
    <3>4. Len(path) = 5 /\ u.isResponse /\ path[3] = "propstat" /\ path[4] = "prop"
      BY <1>3, <1>4, <1>9, <1>18, <3>1, <3>3
    <3>5. inPropstatProp(path)
      BY <3>4 DEF inPropstatProp, depthPropstat, depthProperty
    <3> QED  BY <1>4, <1>18, <3>4, <3>5 DEF EnterKind, Enter, depthPropstat, depthStatus, depthProperty
  <2>2. n \in NameEntry
    BY <1>13 DEF NameEntry
  <2>3. n = [from |-> Len(b) + 1, to |-> Len(b) + 1,
             selfClose |-> c[Len(b) + 1][1] = "empty", ok |-> FALSE]
    OBVIOUS
  <2> HIDE DEF n
  <2>4. u2 \in UnitType
    BY <1>1, <2>1, <2>2 DEF UnitType
  <2>5. /\ u2.edits = u.edits /\ u2.displayNames = u.displayNames
        /\ u2.topMapped = u.topMapped /\ u2.mountRoot = u.mountRoot
        /\ u2.isResponse = u.isResponse /\ u2.openName = n /\ u2.statusText = u.statusText
        /\ u2.propstatNames = u.propstatNames /\ u2.propstatOK = u.propstatOK /\ u2.href = u.href
    BY <1>1, <2>1 DEF UnitType
  <2>6. NameOf(c, st2) = n
    BY <1>5, <1>18, <2>3
  <2>7. HrefOf(c, st2) = None /\ StatusOf(c, st2) = "none"
    BY <1>5, <1>18
  <2> QED  BY <1>6, <1>12, <1>18, <2>4, <2>5, <2>6, <2>7 DEF ReadsOn
<1>19. CASE name \notin {"href", "propstat", "status", "displayname"}
  <2>1. u2 = u
    BY <1>4, <1>19 DEF EnterKind, Enter
  <2> QED  BY <1>1, <1>5, <1>6, <1>12, <1>19, <2>1 DEF UnitType, ReadsOn
<1> QED  BY <1>15, <1>16, <1>17, <1>18, <1>19

\* What is marked for removal stays marked, and nothing else is.
LEMMA QuietMarks ==
    ASSUME NEW b, NEW st, NEW c, Quiet(b, st, c, st), Marks(b, st)
    PROVE  Marks(c, st)
<1>1. Marked(c, st) = Marked(b, st)
  BY QuietSame
<1> QED  BY <1>1 DEF Marks

\* The start of an element marks nothing.
LEMMA PushMarks ==
    ASSUME NEW b, NEW st, NEW c, NEW st2, Shape(b, st), Grammar(b, st), Push(b, st, c, st2),
           Marks(b, st), st2[Len(st2)].remove = FALSE
    PROVE  Marks(c, st2)
<1>1. /\ Len(st2) = Len(st) + 1 /\ (\A d \in 1..Len(st) : st2[d] = st[d])
      /\ At(st2, Len(st) + 1) = Len(b) + 1 /\ Len(b) + 1 \notin Elements(b)
  BY PushFacts
<1>2. Marked(c, st2) = Marked(b, st) /\ Marked(b, st) \subseteq Elements(b)
  BY PushQuiet, QuietSame, SubsetFacts
<1>3. Len(st) \in Nat
  BY Lengths DEF Shape
<1> SUFFICES ASSUME NEW d \in depthUnit..Len(st2)
             PROVE  st2[d].remove <=> At(st2, d) \in Marked(c, st2)
  BY DEF Marks
<1>4. CASE d = Len(st) + 1
  BY <1>1, <1>2, <1>4
<1>5. CASE d # Len(st) + 1
  <2>1. d \in depthUnit..Len(st) /\ d \in 1..Len(st)
    BY <1>1, <1>3, <1>5 DEF depthUnit
  <2>2. st2[d] = st[d] /\ At(st2, d) = At(st, d)
    BY <1>1, <2>1 DEF At
  <2> QED  BY <1>2, <2>1, <2>2 DEF Marks
<1> QED  BY <1>4, <1>5

\* startElement below a unit.
LEMMA EnterUnit ==
    ASSUME NEW b, NEW st, NEW u, UnitInv(b, st, u), NEW c, NEW st2, NEW kind, NEW name,
           Push(b, st, c, st2), st2[Len(st2)].name = name, Allowed(st, c, name),
           c[Len(b) + 1] = <<kind, name>>, st2[Len(st2)].remove = FALSE,
           st2[Len(st2)].editMark = Len(u.edits), st2[Len(st2)].nameMark = Len(u.displayNames),
           NEW path, path = PathTo(st, name),
           NEW u2, u2 = EnterKind(u, path, Len(b) + 1, kind)
    PROVE  UnitInv(c, st2, u2)
<1>1. /\ Shape(b, st) /\ Grammar(b, st) /\ Len(st) >= depthUnit
      /\ Listed(b, st, st, Dropped(b, st), u.edits, u.displayNames)
      /\ Tops(b, st, u) /\ Marks(b, st)
  BY DEF UnitInv
<1>2. Shape(c, st2) /\ Grammar(c, st2)
  BY <1>1, PushShape, PushGrammar
<1>3. ReadsOn(c, st2, u, u2)
  BY <1>2, EnterReads
<1>4. Listed(c, st2, st2, Dropped(c, st2), u2.edits, u2.displayNames)
  BY <1>1, <1>2, <1>3, PushListed DEF ReadsOn
<1>5. Tops(c, st2, u2)
  BY <1>1, <1>3, PushQuiet, QuietUnit DEF ReadsOn
<1>6. Marks(c, st2)
  BY <1>1, PushMarks
<1>7. Len(st2) >= depthUnit
  <2>1. Len(st2) = Len(st) + 1 /\ Len(st) \in Nat
    BY <1>1, PushFacts, Lengths DEF Shape
  <2> QED  BY <1>1, <2>1 DEF depthUnit
<1> QED  BY <1>2, <1>3, <1>4, <1>5, <1>6, <1>7 DEF UnitInv, ReadsOn

\* Enter keeps the invariant of a unit.
LEMMA EnterUnitInv ==
    ASSUME NEW b, NEW st, NEW u, UnitInv(b, st, u), NEW kind \in {"start", "empty"}, NEW name,
           name \in Content([d \in 1..Len(st) |-> st[d].name]),
           kind = "empty" => name = "displayname", ~Waiting(b, st),
           NEW e \in Entry, e.name = name, e.start = Len(b), e.remove = FALSE,
           e.editMark = Len(u.edits), e.nameMark = Len(u.displayNames)
    PROVE  UnitInv(Append(b, <<kind, name>>), Append(st, e),
                   EnterKind(u, PathTo(st, name), Len(b) + 1, kind))
<1> DEFINE c == Append(b, <<kind, name>>)
           st2 == Append(st, e)
           path == PathTo(st, name)
           u2 == EnterKind(u, path, Len(b) + 1, kind)
<1>1. Shape(b, st) /\ Grammar(b, st) /\ Len(st) >= depthUnit
  BY DEF UnitInv
<1>2. Push(b, st, c, st2)
  BY <1>1 DEF Push
<1>3. st2[Len(st2)] = e /\ c[Len(b) + 1] = <<kind, name>> /\ Len(c) = Len(b) + 1
  BY <1>1, Lengths DEF Shape, Typed
<1>4. path = PathTo(st, name) /\ u2 = EnterKind(u, path, Len(b) + 1, kind)
  OBVIOUS
<1> HIDE DEF c, st2, path, u2
<1>5. c[Len(c)][1] = "empty" => name = "displayname"
  BY <1>3
<1>6. Allowed(st, c, name)
  BY <1>1, <1>5, ContentAllowed
<1>7. /\ st2[Len(st2)].name = name /\ st2[Len(st2)].remove = FALSE
      /\ st2[Len(st2)].editMark = Len(u.edits) /\ st2[Len(st2)].nameMark = Len(u.displayNames)
  BY <1>3
<1>8. UnitInv(c, st2, u2)
  BY <1>2, <1>3, <1>4, <1>6, <1>7, EnterUnit
<1> QED  BY <1>8 DEF c, st2, path, u2

\* Only the text of an href that is being read changes.
LEMMA TextReplaced ==
    \A c, d, t, x : [[contentStart |-> c, depth |-> d, text |-> t] EXCEPT !.text = x]
                      = [contentStart |-> c, depth |-> d, text |-> x]
OBVIOUS

\* charData below a unit.
LEMMA SayUnitInv ==
    ASSUME NEW b, NEW st, NEW u, UnitInv(b, st, u), NEW c, NEW text,
           b[Len(b)] = <<"start", st[Len(st)].name>>, text \in TextContent(st[Len(st)].name),
           c = Append(b, <<"text", text>>),
           NEW u2, u2 = [u EXCEPT !.href = IF @ = None THEN @ ELSE [@ EXCEPT !.text = text],
                                  !.statusText = IF @ = "none" THEN @ ELSE text]
    PROVE  UnitInv(c, st, u2)
<1>1. /\ Shape(b, st) /\ Grammar(b, st) /\ Len(st) >= depthUnit
      /\ Listed(b, st, st, Dropped(b, st), u.edits, u.displayNames)
      /\ Tops(b, st, u) /\ Marks(b, st) /\ Reading(b, st, u) /\ u \in UnitType
  BY DEF UnitInv
<1>2. text \in Texts /\ text \in Words
  BY DEF TextContent, Texts, Words
<1>3. Say(b, st, c)
  BY <1>2 DEF Say
<1>4. Shape(c, st) /\ Grammar(c, st)
  BY <1>1, <1>3, SayShape, SayGrammar
<1>5. At(st, Len(st)) = Len(b) /\ Len(b) \in Nat /\ Len(st) \in Nat /\ Len(st) >= 2
  BY <1>1, LastIsTop, Lengths DEF Shape, depthUnit
<1>6. Extends(b, c) /\ Len(c) = Len(b) + 1 /\ Finished(c, st) = Finished(b, st)
  BY <1>1, <1>3, SayFacts
<1>7. Quiet(b, st, c, st)
  BY <1>1, <1>6 DEF Quiet
<1>8. c[Len(b) + 1] = <<"text", text>>
  BY <1>1, <1>5 DEF Shape, Typed
<1>9. TextNow(c, Len(b)) = text /\ TextNow(b, Len(b)) = ""
  <2>1. Len(b) < Len(c) /\ ~(Len(b) < Len(b))
    BY <1>5, <1>6
  <2>2. c[Len(b) + 1][1] = "text" /\ c[Len(b) + 1][2] = text
    BY <1>8
  <2>3. TextNow(c, Len(b)) = text
    BY <2>1, <2>2, Zenon DEF TextNow
  <2>4. TextNow(b, Len(b)) = ""
    BY <2>1, Zenon DEF TextNow
  <2> QED  BY <2>3, <2>4
<1>10. /\ u2.edits = u.edits /\ u2.displayNames = u.displayNames
       /\ u2.topMapped = u.topMapped /\ u2.mountRoot = u.mountRoot
       /\ u2.isResponse = u.isResponse /\ u2.openName = u.openName
       /\ u2.propstatNames = u.propstatNames /\ u2.propstatOK = u.propstatOK
       /\ u2.href = IF u.href = None THEN None ELSE [u.href EXCEPT !.text = text]
       /\ u2.statusText = IF u.statusText = "none" THEN "none" ELSE text
  BY <1>1 DEF UnitType
<1>11. u2 \in UnitType
  <2>1. u2.href \in {None} \cup ReadHref
    BY <1>1, <1>2, <1>10 DEF UnitType, ReadHref
  <2>2. u2.statusText \in Words \cup {"none"}
    BY <1>1, <1>2, <1>10 DEF UnitType
  <2> DEFINE h == u2.href
             s == u2.statusText
  <2>3. u2 = [u EXCEPT !.href = h, !.statusText = s]
    BY <1>1 DEF UnitType
  <2> HIDE DEF h, s
  <2>4. h \in {None} \cup ReadHref /\ s \in Words \cup {"none"}
    BY <2>1, <2>2 DEF h, s
  <2> QED  BY <1>1, <2>3, <2>4 DEF UnitType
<1>12. u2.href = HrefOf(c, st)
  <2>1. CASE st[Len(st)].name = "href"
    <3>1. u.href = [contentStart |-> Len(b), depth |-> Len(st), text |-> ""]
      BY <1>1, <1>5, <1>9, <2>1 DEF Reading, HrefOf
    <3>2. u.href # None
      BY <3>1, NoneDiffers
    <3>3. u2.href = [contentStart |-> Len(b), depth |-> Len(st), text |-> text]
      <4>1. u2.href = [u.href EXCEPT !.text = text]
        BY <1>10, <3>2
      <4>2. [[contentStart |-> Len(b), depth |-> Len(st), text |-> ""] EXCEPT !.text = text]
              = [contentStart |-> Len(b), depth |-> Len(st), text |-> text]
        BY TextReplaced
      <4> QED  BY <3>1, <4>1, <4>2, Zenon
    <3> QED  BY <1>5, <1>9, <2>1, <3>3 DEF HrefOf
  <2>2. CASE st[Len(st)].name # "href"
    BY <1>1, <1>10, <2>2 DEF Reading, HrefOf
  <2> QED  BY <2>1, <2>2
<1>13. u2.statusText = StatusOf(c, st)
  BY <1>1, <1>5, <1>9, <1>10 DEF Reading, StatusOf
<1>14. NameOf(c, st) = NameOf(b, st)
  <2>1. CASE Len(st) >= 5
    <3>1. 5 \in depthUnit..Len(st)
      BY <1>5, <2>1 DEF depthUnit
    <3>2. At(st, 5) \in 1..Len(b)
      BY <1>1, <3>1, ElementsAre DEF Shape, OpenShape, Typed
    <3>3. c[At(st, 5)] = b[At(st, 5)]
      BY <1>6, <3>2 DEF Extends
    <3> QED  BY <3>3 DEF NameOf, depthProperty
  <2>2. CASE ~(Len(st) >= 5)
    BY <2>2 DEF NameOf, depthProperty
  <2> QED  BY <2>1, <2>2
<1>15. Reading(c, st, u2)
  <2>1. c[1] = b[1]
    BY <1>7, QuietTops
  <2>2. ASSUME InPropstat(st), st[Len(st)].name # "status"
        PROVE  u2.propstatOK <=> Approved(c, At(st, 3))
    <3>1. Approved(c, At(st, 3)) <=> Approved(b, At(st, 3))
      BY <1>1, <1>3, <2>2, SayApproved
    <3> QED  BY <1>1, <1>10, <2>2, <3>1 DEF Reading, depthPropstat
  <2> QED  BY <1>1, <1>10, <1>12, <1>13, <1>14, <2>1, <2>2 DEF Reading, depthPropstat
<1>16. Listed(c, st, st, Dropped(c, st), u2.edits, u2.displayNames)
  BY <1>1, <1>3, <1>10, SayListed
<1>17. Tops(c, st, u2)
  <2>1. TopIn(c, st) = TopIn(b, st) /\ \A h \in TopIn(b, st) : TextNow(c, h) = TextNow(b, h)
    BY <1>7, QuietTops
  <2>2. u2.topMapped = u.topMapped /\ u2.mountRoot = u.mountRoot
    BY <1>10
  <2> QED  BY <1>1, <2>1, <2>2 DEF Tops
<1>18. Marks(c, st)
  BY <1>1, <1>7, QuietMarks
<1> QED  BY <1>1, <1>4, <1>11, <1>15, <1>16, <1>17, <1>18 DEF UnitInv

-----------------------------------------------------------------------------
\* How an element ends: endHref, the rest of endElement, and the removal.

\* What the stack says of what is around the element on top.
LEMMA TopAbove ==
    ASSUME NEW b, NEW st, Shape(b, st), NEW d \in depthUnit..Len(st)
    PROVE  Above(b, At(st, Len(st)), d) = At(st, d) /\ b[At(st, d)][2] = st[d].name
<1>1. Len(st) \in depthUnit..Len(st)
  BY Lengths DEF Shape, depthUnit
<1>2. At(st, Len(st)) \in Elements(b) /\ b[At(st, d)][2] = st[d].name
  BY <1>1 DEF Shape, OpenShape
<1>3. At(st, d) <= At(st, Len(st))
  BY TopIsLast
<1> QED  BY <1>2, <1>3, AboveOpen

\* The unit itself is the first element.
LEMMA UnitFirst ==
    ASSUME NEW b, NEW st, Shape(b, st), Grammar(b, st), Len(st) >= depthUnit
    PROVE  At(st, 2) = 1 /\ st[2].name = b[1][2] /\ Len(st) \in Nat /\ 2 \in depthUnit..Len(st)
<1>1. 2 \in depthUnit..Len(st) /\ Len(st) \in Nat
  BY Lengths DEF Shape, depthUnit
<1>2. At(st, 2) \in Elements(b) /\ b[At(st, 2)][2] = st[2].name /\ Depth(b, At(st, 2)) = 2
  BY <1>1 DEF Shape, OpenShape
<1>3. At(st, 2) = 1
  BY <1>2 DEF Grammar, BelowUnit, depthUnit
<1> QED  BY <1>1, <1>2, <1>3

\* removalDepth finds the structure that has to go.
LEMMA RemovalDepth ==
    ASSUME NEW b, NEW st, Shape(b, st), Grammar(b, st), Len(st) >= depthUnit,
           st[Len(st)].name = "href", NEW u, u.isResponse <=> b[1][2] = "response",
           NEW path, \A d \in 1..Len(st) : path[d] = st[d].name,
           NEW r, r = removalDepth(u, path, Len(st))
    PROVE  r \in depthUnit..Len(st) /\ At(st, r) = Target(b, At(st, Len(st)))
<1> DEFINE i0 == At(st, Len(st))
<1>1. At(st, 2) = 1 /\ st[2].name = b[1][2] /\ Len(st) \in Nat /\ 2 \in depthUnit..Len(st)
  BY UnitFirst
<1>2. Len(st) \in depthUnit..Len(st)
  BY <1>1 DEF depthUnit
<1>3. i0 \in Elements(b) /\ Depth(b, i0) = Len(st) /\ b[i0][2] = "href"
  BY <1>2 DEF Shape, OpenShape
<1>4. \A d \in depthUnit..Len(st) : /\ Above(b, i0, d) = At(st, d) /\ b[At(st, d)][2] = st[d].name
                                    /\ path[d] = st[d].name
  BY TopAbove, Lengths DEF Shape
<1> HIDE DEF i0
<1>5. CASE b[1][2] # "response"
  <2>1. Target(b, i0) = 1
    BY <1>5 DEF Target
  <2>2. r = 2
    BY <1>5 DEF removalDepth, depthUnit
  <2> QED  BY <1>1, <2>1, <2>2 DEF i0
<1>6. CASE b[1][2] = "response"
  <2>1. Len(st) # 2
    BY <1>1, <1>6
  <2>2. CASE Len(st) = 3
    <3>1. Target(b, i0) = i0
      BY <1>3, <1>6, <2>2 DEF Target, depthTopHref
    <3>2. r = 3
      BY <1>6, <2>2 DEF removalDepth, depthTopHref
    <3> QED  BY <1>2, <2>2, <3>1, <3>2 DEF i0
  <2>3. CASE Len(st) # 3
    <3>1. Len(st) >= 4 /\ 3 \in depthUnit..Len(st) /\ 4 \in depthUnit..Len(st)
      <4> DEFINE n == Len(st)
      <4>1. n \in Nat /\ n >= 2 /\ n # 2 /\ n # 3
        BY <1>1, <2>1, <2>3 DEF depthUnit
      <4> HIDE DEF n
      <4>2. n >= 4 /\ 3 \in 2..n /\ 4 \in 2..n
        BY <4>1
      <4> QED  BY <4>2 DEF n, depthUnit
    <3>2. /\ Above(b, i0, 3) = At(st, 3) /\ b[At(st, 3)][2] = path[3]
          /\ Above(b, i0, 4) = At(st, 4) /\ b[At(st, 4)][2] = path[4]
      BY <1>4, <3>1
    <3>3. CASE path[3] # "propstat"
      <4>1. Target(b, i0) = At(st, 3)
        BY <1>3, <1>6, <2>3, <3>2, <3>3 DEF Target, depthTopHref, depthPropstat
      <4>2. r = 3
        BY <1>6, <2>3, <3>3 DEF removalDepth, depthTopHref, depthPropstat
      <4> QED  BY <3>1, <4>1, <4>2 DEF i0
    <3>4. CASE path[3] = "propstat"
      <4>1. CASE path[4] = "prop"
        <5>1. Len(st) # 4
          BY <1>4, <3>1, <4>1
        <5>2. Len(st) >= 5 /\ 5 \in depthUnit..Len(st)
          <6> DEFINE n == Len(st)
          <6>1. n \in Nat /\ n >= 4 /\ n # 4
            BY <1>1, <3>1, <5>1
          <6> HIDE DEF n
          <6>2. n >= 5 /\ 5 \in 2..n
            BY <6>1
          <6> QED  BY <6>2 DEF n, depthUnit
        <5>3. Above(b, i0, 5) = At(st, 5)
          BY <1>4, <5>2
        <5>4. Target(b, i0) = At(st, 5)
          BY <1>3, <1>6, <2>3, <3>2, <3>4, <4>1, <5>3
             DEF Target, depthTopHref, depthPropstat, depthStatus, depthProperty
        <5>5. path[depthProperty - 1] = "prop"
          BY <4>1 DEF depthProperty
        <5>6. r = 5
          BY <1>6, <2>3, <3>4, <5>2, <5>5 DEF removalDepth, depthTopHref, depthPropstat, depthProperty
        <5> QED  BY <5>2, <5>4, <5>6 DEF i0
      <4>2. CASE path[4] # "prop"
        <5>1. Target(b, i0) = At(st, 4)
          BY <1>3, <1>6, <2>3, <3>2, <3>4, <4>2
             DEF Target, depthTopHref, depthPropstat, depthStatus, depthProperty
        <5>2. path[depthProperty - 1] # "prop"
          BY <4>2 DEF depthProperty
        <5>3. r = 4
          BY <1>6, <2>3, <3>4, <5>2 DEF removalDepth, depthTopHref, depthPropstat, depthProperty
        <5> QED  BY <3>1, <5>1, <5>3 DEF i0
      <4> QED  BY <4>1, <4>2
    <3> QED  BY <3>3, <3>4
  <2> QED  BY <2>2, <2>3
<1> QED  BY <1>5, <1>6

\* The marks of the elements that are open, after an href that is outside.
MarkedStack(st, out, r) == IF out THEN [st EXCEPT ![r].remove = TRUE] ELSE st

\* A mark changes one entry of the stack.
LEMMA SetRemove ==
    ASSUME NEW st \in Seq(Entry), NEW r \in 1..Len(st),
           NEW ms, ms = [st EXCEPT ![r].remove = TRUE]
    PROVE  /\ ms \in Seq(Entry) /\ Len(ms) = Len(st)
           /\ \A d \in 1..Len(st) : ms[d] = IF d = r THEN [st[d] EXCEPT !.remove = TRUE] ELSE st[d]
<1> DEFINE e == [st[r] EXCEPT !.remove = TRUE]
<1>1. e \in Entry
  <2>1. st[r] \in Entry
    OBVIOUS
  <2> QED  BY <2>1 DEF Entry
<1>2. ms = [st EXCEPT ![r] = e]
  OBVIOUS
<1>3. DOMAIN st = 1..Len(st)
  OBVIOUS
<1>4. \A d \in 1..Len(st) : ms[d] = IF d = r THEN e ELSE st[d]
  BY <1>2, <1>3
<1> HIDE DEF e
<1>5. ms \in Seq(Entry) /\ Len(ms) = Len(st)
  <2>1. /\ [st EXCEPT ![r] = e] \in Seq(Entry) /\ Len([st EXCEPT ![r] = e]) = Len(st)
    BY <1>1, ExceptSeq, Zenon
  <2> QED  BY <1>2, <2>1
<1> QED  BY <1>4, <1>5 DEF e

\* The stack, where the entry r is marked if an href was outside.
MarkedFrom(st, out, r, ms) ==
    /\ ms \in Seq(Entry) /\ Len(ms) = Len(st)
    /\ \A d \in 1..Len(st) :
          /\ ms[d].name = st[d].name /\ ms[d].start = st[d].start
          /\ ms[d].editMark = st[d].editMark /\ ms[d].nameMark = st[d].nameMark
          /\ ms[d].remove <=> (st[d].remove \/ (out /\ d = r))
    /\ Front(ms) \in Seq(Entry) /\ Len(Front(ms)) = Len(st) - 1
    /\ \A d \in 1..(Len(st) - 1) : Front(ms)[d] = ms[d]
    /\ Last(ms) = ms[Len(st)]

\* The stack, with the mark of an href that is outside.
LEMMA MarkedStackFacts ==
    ASSUME NEW st \in Seq(Entry), Len(st) >= depthUnit, NEW out \in BOOLEAN, NEW r,
           out => r \in depthUnit..Len(st), NEW ms, ms = MarkedStack(st, out, r)
    PROVE  MarkedFrom(st, out, r, ms)
<1>1. Len(st) \in Nat /\ Len(st) >= 2
  BY DEF depthUnit
<1>2. \A d \in 1..Len(st) : st[d] \in Entry
  OBVIOUS
<1>3. /\ ms \in Seq(Entry) /\ Len(ms) = Len(st)
      /\ \A d \in 1..Len(st) :
                 /\ ms[d].name = st[d].name /\ ms[d].start = st[d].start
                 /\ ms[d].editMark = st[d].editMark /\ ms[d].nameMark = st[d].nameMark
                 /\ ms[d].remove <=> (st[d].remove \/ (out /\ d = r))
  <2>1. CASE out
    <3>1. r \in 1..Len(st)
      BY <1>1, <2>1 DEF depthUnit
    <3>2. ms = [st EXCEPT ![r].remove = TRUE]
      BY <2>1 DEF MarkedStack
    <3>3. ms \in Seq(Entry) /\ Len(ms) = Len(st)
      BY <3>1, <3>2, SetRemove
    <3>4. ASSUME NEW d \in 1..Len(st)
          PROVE  ms[d] = IF d = r THEN [st[d] EXCEPT !.remove = TRUE] ELSE st[d]
      BY <3>1, <3>2, SetRemove
    <3>5. ASSUME NEW d \in 1..Len(st)
          PROVE  /\ ms[d].name = st[d].name /\ ms[d].start = st[d].start
                 /\ ms[d].editMark = st[d].editMark /\ ms[d].nameMark = st[d].nameMark
                 /\ ms[d].remove <=> (st[d].remove \/ d = r)
      <4>1. st[d] \in Entry
        BY <1>2
      <4> HIDE DEF MarkedStack
      <4> QED  BY <3>4, <4>1 DEF Entry
    <3> QED  BY <2>1, <3>3, <3>5
  <2>2. CASE ~out
    BY <2>2 DEF MarkedStack
  <2> QED  BY <2>1, <2>2
<1>4. Front(ms) \in Seq(Entry) /\ Len(Front(ms)) = Len(st) - 1
  BY <1>1, <1>3 DEF Front
<1>5. ASSUME NEW d \in 1..(Len(st) - 1) PROVE Front(ms)[d] = ms[d]
  BY <1>1, <1>3 DEF Front
<1>6. Last(ms) = ms[Len(st)]
  BY <1>3 DEF Last
<1> QED  BY <1>3, <1>4, <1>5, <1>6 DEF MarkedFrom

\* endHref and the rest of endElement, on what is kept of the unit.
EndsHref(u, depth) == u.href # None /\ u.href.depth = depth
EndsOut(u, depth) == EndsHref(u, depth) /\ Outside(u.href.text)
AfterEnd(u, path, depth, start) ==
    IF EndsOut(u, depth) THEN [u EXCEPT !.href = None]
    ELSE IF EndsHref(u, depth) THEN MapHref(u, start)
    ELSE Leave(u, path, start)

\* What is known of a unit after its element on top has ended.
EndFields(b, st, u, c, st2, u1) ==
    LET i0 == At(st, Len(st))
        name == st[Len(st)].name
        mapped == name = "href" /\ ~Outside(TextNow(b, i0))
        top == mapped /\ u.isResponse /\ Len(st) = depthTopHref
    IN  /\ u1 \in UnitType
        /\ u1.edits = IF mapped THEN Append(u.edits, Replacement(c, i0)) ELSE u.edits
        /\ \E nm0 \in Seq(NameEntry) :
              /\ Len(nm0) = Len(u.displayNames)
              /\ \A k \in 1..Len(nm0) : nm0[k] = Judge(b, st, c, u.displayNames[k])
              /\ u1.displayNames = IF name = "displayname" THEN Append(nm0, NameRecord(c, st2, i0)) ELSE nm0
        /\ u1.isResponse = u.isResponse
        /\ u1.href = None
        /\ u1.openName = IF name = "displayname" THEN None ELSE u.openName
        /\ u1.statusText = "none"
        /\ u1.propstatNames = u.propstatNames
        /\ u1.propstatOK <=> IF name = "status" THEN TextNow(b, i0) = "200" ELSE u.propstatOK
        /\ u1.topMapped <=> u.topMapped \/ top
        /\ u1.mountRoot <=> u.mountRoot \/ (top /\ MountRoot(TextNow(b, i0)))

\* The case of endElement is decided by the name of the element on top.
LEMMA EndsWhat ==
    ASSUME NEW b, NEW st, NEW u, UnitInv(b, st, u)
    PROVE  /\ EndsHref(u, Len(st)) <=> st[Len(st)].name = "href"
           /\ EndsOut(u, Len(st)) <=> st[Len(st)].name = "href" /\ Outside(TextNow(b, At(st, Len(st))))
           /\ u.statusText # "none" <=> st[Len(st)].name = "status"
           /\ st[Len(st)].name = "href" =>
                 u.href = [contentStart |-> At(st, Len(st)), depth |-> Len(st), text |-> TextNow(b, At(st, Len(st)))]
           /\ st[Len(st)].name = "status" => u.statusText = TextNow(b, At(st, Len(st)))
           /\ st[Len(st)].name # "href" => u.href = None
<1>1. u.href = HrefOf(b, st) /\ u.statusText = StatusOf(b, st) /\ Shape(b, st) /\ Len(st) >= depthUnit
  BY DEF UnitInv, Reading
<1>2. Len(st) \in depthUnit..Len(st)
  BY <1>1, Lengths DEF Shape, depthUnit
<1>3. TextNow(b, At(st, Len(st))) # "none"
  <2>1. At(st, Len(st)) \in 1..Len(b)
    BY <1>1, <1>2, ElementsAre DEF Shape, OpenShape, Typed
  <2>2. TextNow(b, At(st, Len(st))) \in Words
    BY <1>1, <2>1, TextIsWord DEF Shape, Typed
  <2> QED  BY <2>2 DEF Words, Names, Texts, HrefTexts, StatusTexts
<1>4. CASE st[Len(st)].name = "href"
  <2>1. u.href = [contentStart |-> At(st, Len(st)), depth |-> Len(st), text |-> TextNow(b, At(st, Len(st)))]
    BY <1>1, <1>4 DEF HrefOf
  <2>2. u.href # None
    BY <2>1, NoneDiffers
  <2>3. u.href.depth = Len(st) /\ u.href.text = TextNow(b, At(st, Len(st)))
    BY <2>1
  <2>4. u.statusText = "none"
    BY <1>1, <1>4 DEF StatusOf
  <2> QED  BY <1>4, <2>1, <2>2, <2>3, <2>4 DEF EndsHref, EndsOut
<1>5. CASE st[Len(st)].name # "href"
  <2>1. u.href = None
    BY <1>1, <1>5 DEF HrefOf
  <2>2. u.statusText = IF st[Len(st)].name = "status" THEN TextNow(b, At(st, Len(st))) ELSE "none"
    BY <1>1 DEF StatusOf
  <2> QED  BY <1>3, <1>5, <2>1, <2>2 DEF EndsHref, EndsOut
<1> QED  BY <1>4, <1>5

\* No displayname is judged by the end of this element.
Unjudged(b, st, c, u) ==
    /\ u.displayNames \in Seq(NameEntry)
    /\ \A k \in 1..Len(u.displayNames) : u.displayNames[k] = Judge(b, st, c, u.displayNames[k])

\* No propstat ends: the displaynames stay as they are.
LEMMA NotJudged ==
    ASSUME NEW b, NEW st, NEW c, NEW u, u \in UnitType, st[Len(st)].name # "propstat"
    PROVE  Unjudged(b, st, c, u)
BY DEF Judge, UnitType, Unjudged

\* The element's replacement, as endHref records it.
LEMMA EndReplacement ==
    ASSUME NEW b, NEW st, NEW c, NEW st2, Shape(b, st), Grammar(b, st), Pop(b, st, c, st2),
           st[Len(st)].name = "href"
    PROVE  /\ Replacement(c, At(st, Len(st)))
                = [from |-> At(st, Len(st)), to |-> Len(b), repl |-> Mapped(TextNow(b, At(st, Len(st))))]
           /\ Replacement(c, At(st, Len(st))) \in Edit
<1> DEFINE i0 == At(st, Len(st))
<1>1. Len(st) \in depthUnit..Len(st) /\ Len(b) \in Nat
  BY Lengths DEF Shape, depthUnit, Pop
<1>2. i0 \in Elements(b) /\ b[i0][2] = "href" /\ i0 \in 1..Len(b)
  BY <1>1, ElementsAre DEF Shape, OpenShape, Typed
<1>3. b[i0][1] = "start"
  BY <1>2 DEF Grammar, Childless
<1>4. Len(c) = Len(b) + 1
  BY <1>3, PopFacts
<1>5. Close(c, i0) = Len(c)
  BY PopCloses
<1>6. TextNow(c, i0) = TextNow(b, i0)
  BY <1>2, PopText
<1>7. TextNow(b, i0) \in Words
  BY <1>2, TextIsWord DEF Shape, Typed
<1>8. i0 \in Nat /\ Close(c, i0) - 1 = Len(b)
  BY <1>1, <1>2, <1>4, <1>5
<1> HIDE DEF i0
<1>9. Replacement(c, i0) = [from |-> i0, to |-> Len(b), repl |-> Mapped(TextNow(b, i0))]
  BY <1>6, <1>8 DEF Replacement
<1>10. Mapped(TextNow(b, i0)) \in Seq(Token)
  BY <1>7, MappedIsTokens
<1>11. Replacement(c, i0) \in Edit
  BY <1>1, <1>8, <1>9, <1>10 DEF Edit
<1> QED  BY <1>9, <1>11 DEF i0

\* The end of a displayname is all that changes of it.
LEMMA EndReplaced ==
    \A f, t, s, o, x : [[from |-> f, to |-> t, selfClose |-> s, ok |-> o] EXCEPT !.to = x]
                         = [from |-> f, to |-> x, selfClose |-> s, ok |-> o]
OBVIOUS

\* The displayname, as endElement records it.
LEMMA EndNameRecord ==
    ASSUME NEW b, NEW st, NEW u, UnitInv(b, st, u), NEW c, NEW st2, Pop(b, st, c, st2),
           st[Len(st)].name = "displayname"
    PROVE  /\ Len(st) = depthProperty /\ u.openName # None /\ u.openName \in NameEntry
           /\ NameRecord(c, st2, At(st, Len(st))) = [u.openName EXCEPT !.to = Len(b)]
<1> DEFINE i0 == At(st, Len(st))
<1>1. Shape(b, st) /\ Grammar(b, st) /\ u.openName = NameOf(b, st) /\ u \in UnitType
  BY DEF UnitInv, Reading
<1>2. Len(st) \in depthUnit..Len(st) /\ Len(b) \in Nat
  BY <1>1, Lengths DEF Shape, depthUnit, Pop
<1>3. Len(st) = 5 /\ 3 \in depthUnit..Len(st)
  <2>1. Len(st) = 5
    BY <1>1, <1>2 DEF Grammar, StackBelow, depthProperty
  <2> QED  BY <2>1 DEF depthUnit
<1>4. i0 \in Elements(b) /\ b[i0][2] = "displayname" /\ i0 \in 1..Len(b)
  BY <1>1, <1>2, ElementsAre DEF Shape, OpenShape, Typed
<1>5. u.openName = [from |-> i0, to |-> i0, selfClose |-> b[i0][1] = "empty", ok |-> FALSE]
  BY <1>1, <1>3 DEF NameOf, depthProperty
<1>6. u.openName # None
  BY <1>5, NoneDiffers
<1>7. u.openName \in NameEntry
  BY <1>1, <1>6 DEF UnitType
<1>8. Extends(b, c)
  BY <1>1, PopFacts
<1>9. c[i0] = b[i0]
  BY <1>4, <1>8 DEF Extends
<1>10. Above(c, i0, 3) \in Open(st2)
  <2>1. Above(b, i0, 3) = At(st, 3)
    BY <1>1, <1>3, TopAbove
  <2>2. Above(c, i0, 3) = Above(b, i0, 3)
    BY <1>4, <1>8, Stable
  <2>3. 3 \in depthUnit..Len(st2)
    BY <1>3 DEF Pop, depthUnit
  <2>4. At(st2, 3) = At(st, 3)
    BY <2>3 DEF Pop, At, depthUnit
  <2> QED  BY <2>1, <2>2, <2>3, <2>4, OpenIs
<1>11. (IF c[i0][1] = "empty" THEN i0 ELSE Close(c, i0) - 1) = Len(b)
  <2>1. CASE b[i0][1] = "empty"
    <3>1. i0 = Len(b)
      BY <1>1, <1>2, <2>1 DEF Shape, OpenShape
    <3> QED  BY <1>9, <2>1, <3>1
  <2>2. CASE b[i0][1] # "empty"
    <3>1. Len(c) = Len(b) + 1
      BY <1>1, <2>2, PopFacts
    <3>2. Close(c, i0) = Len(c)
      BY <1>1, PopCloses
    <3>3. Close(c, i0) - 1 = Len(b)
      BY <1>2, <3>1, <3>2
    <3> QED  BY <1>9, <2>2, <3>3
  <2> QED  BY <2>1, <2>2
<1> HIDE DEF i0
<1>12. NameRecord(c, st2, i0) = [from |-> i0, to |-> Len(b), selfClose |-> b[i0][1] = "empty", ok |-> FALSE]
  BY <1>9, <1>10, <1>11 DEF NameRecord, depthPropstat
<1>13. [u.openName EXCEPT !.to = Len(b)]
         = [from |-> i0, to |-> Len(b), selfClose |-> b[i0][1] = "empty", ok |-> FALSE]
  <2> DEFINE s == b[i0][1] = "empty"
             o == FALSE
             n == Len(b)
  <2>1. u.openName = [from |-> i0, to |-> i0, selfClose |-> s, ok |-> o]
    BY <1>5
  <2> HIDE DEF s, o, n
  <2>2. [[from |-> i0, to |-> i0, selfClose |-> s, ok |-> o] EXCEPT !.to = n]
          = [from |-> i0, to |-> n, selfClose |-> s, ok |-> o]
    BY EndReplaced
  <2>3. [u.openName EXCEPT !.to = n] = [from |-> i0, to |-> n, selfClose |-> s, ok |-> o]
    BY <2>1, <2>2
  <2> QED  BY <2>3 DEF s, o, n
<1> QED  BY <1>3, <1>6, <1>7, <1>12, <1>13 DEF i0, depthProperty

\* An href ends: outside of the mount nothing is recorded, inside its replacement.
LEMMA EndOutFields ==
    ASSUME NEW b, NEW st, NEW u, UnitInv(b, st, u), NEW c, NEW st2, Pop(b, st, c, st2),
           EndsOut(u, Len(st)), NEW u1, u1 = [u EXCEPT !.href = None]
    PROVE  EndFields(b, st, u, c, st2, u1)
<1>1. u \in UnitType
  BY DEF UnitInv
<1>2. st[Len(st)].name = "href" /\ Outside(TextNow(b, At(st, Len(st)))) /\ u.statusText = "none"
  BY EndsWhat
<1>3. u1 \in UnitType
  BY <1>1 DEF UnitType
<1>4. /\ u1.edits = u.edits /\ u1.displayNames = u.displayNames
      /\ u1.topMapped = u.topMapped /\ u1.mountRoot = u.mountRoot
      /\ u1.isResponse = u.isResponse /\ u1.openName = u.openName /\ u1.statusText = u.statusText
      /\ u1.propstatNames = u.propstatNames /\ u1.propstatOK = u.propstatOK /\ u1.href = None
  BY <1>1 DEF UnitType
<1>5. Unjudged(b, st, c, u)
  BY <1>1, <1>2, NotJudged
<1> QED  BY <1>2, <1>3, <1>4, <1>5 DEF EndFields, Unjudged

\* The end of an href inside of the mount.
LEMMA EndInFields ==
    ASSUME NEW b, NEW st, NEW u, UnitInv(b, st, u), NEW c, NEW st2, Pop(b, st, c, st2),
           EndsHref(u, Len(st)), ~EndsOut(u, Len(st)), NEW u1, u1 = MapHref(u, Len(b))
    PROVE  EndFields(b, st, u, c, st2, u1)
<1> DEFINE i0 == At(st, Len(st))
           r == Replacement(c, i0)
           top == u.isResponse /\ Len(st) = depthTopHref
           text == TextNow(b, i0)
<1>1. u \in UnitType /\ Shape(b, st) /\ Grammar(b, st)
  BY DEF UnitInv
<1>2. /\ st[Len(st)].name = "href" /\ ~Outside(text) /\ u.statusText = "none"
      /\ u.href = [contentStart |-> i0, depth |-> Len(st), text |-> text]
  BY EndsWhat
<1>3. r = [from |-> i0, to |-> Len(b), repl |-> Mapped(text)] /\ r \in Edit
  BY <1>1, <1>2, EndReplacement
<1>4. u1 = [u EXCEPT !.href = None, !.topMapped = u.topMapped \/ top,
                     !.mountRoot = u.mountRoot \/ (top /\ MountRoot(text)),
                     !.edits = Append(u.edits, r)]
  <2> HIDE DEF i0, text
  <2>1. /\ u.href.contentStart = i0 /\ u.href.depth = Len(st) /\ u.href.text = text
    BY <1>2
  <2>2. r = [from |-> u.href.contentStart, to |-> Len(b), repl |-> Mapped(u.href.text)]
    BY <1>3, <2>1
  <2> QED  BY <2>1, <2>2 DEF MapHref
<1> HIDE DEF r
<1>5. /\ u1.edits = Append(u.edits, r) /\ u1.displayNames = u.displayNames
      /\ u1.topMapped = (u.topMapped \/ top) /\ u1.mountRoot = (u.mountRoot \/ (top /\ MountRoot(text)))
      /\ u1.isResponse = u.isResponse /\ u1.openName = u.openName /\ u1.statusText = u.statusText
      /\ u1.propstatNames = u.propstatNames /\ u1.propstatOK = u.propstatOK /\ u1.href = None
  BY <1>1, <1>4 DEF UnitType
<1>6. u1 \in UnitType
  <2> DEFINE tm == u.topMapped \/ top
             mr == u.mountRoot \/ (top /\ MountRoot(text))
             ed == Append(u.edits, r)
  <2>1. tm \in BOOLEAN /\ mr \in BOOLEAN
    OBVIOUS
  <2>2. ed \in Seq(Edit)
    BY <1>1, <1>3 DEF UnitType
  <2>3. u1 = [u EXCEPT !.href = None, !.topMapped = tm, !.mountRoot = mr, !.edits = ed]
    BY <1>4
  <2> HIDE DEF tm, mr, ed
  <2> QED  BY <1>1, <2>1, <2>2, <2>3 DEF UnitType
<1>7. Unjudged(b, st, c, u)
  BY <1>1, <1>2, NotJudged
<1>8. /\ u1.edits = Append(u.edits, Replacement(c, i0))
      /\ u1.topMapped <=> u.topMapped \/ top
      /\ u1.mountRoot <=> u.mountRoot \/ (top /\ MountRoot(text))
  BY <1>5 DEF r
<1> QED  BY <1>2, <1>5, <1>6, <1>7, <1>8 DEF EndFields, Unjudged

\* A status ends.
LEMMA EndStatusFields ==
    ASSUME NEW b, NEW st, NEW u, UnitInv(b, st, u), NEW c, NEW st2, Pop(b, st, c, st2),
           st[Len(st)].name = "status", NEW path, Len(path) = Len(st),
           NEW u1, u1 = Leave(u, path, Len(b))
    PROVE  EndFields(b, st, u, c, st2, u1)
<1>1. u \in UnitType /\ Shape(b, st) /\ Grammar(b, st) /\ Len(st) >= depthUnit
  BY DEF UnitInv
<1>2. u.statusText # "none" /\ u.href = None /\ u.statusText = TextNow(b, At(st, Len(st)))
  BY EndsWhat
<1>3. Len(st) = 4
  <2>1. Len(st) \in depthUnit..Len(st)
    BY <1>1, Lengths DEF Shape, depthUnit
  <2> QED  BY <1>1, <2>1 DEF Grammar, StackBelow, depthStatus
<1>4. u1 = [u EXCEPT !.propstatOK = u.statusText = "200", !.statusText = "none"]
  BY <1>2, <1>3 DEF Leave, depthStatus, depthProperty, depthPropstat
<1>5. /\ u1.edits = u.edits /\ u1.displayNames = u.displayNames
      /\ u1.topMapped = u.topMapped /\ u1.mountRoot = u.mountRoot
      /\ u1.isResponse = u.isResponse /\ u1.openName = u.openName /\ u1.statusText = "none"
      /\ u1.propstatNames = u.propstatNames /\ u1.propstatOK = (u.statusText = "200") /\ u1.href = u.href
  BY <1>1, <1>4 DEF UnitType
<1>6. u1 \in UnitType
  <2> DEFINE ok == u.statusText = "200"
  <2>1. ok \in BOOLEAN /\ u1 = [u EXCEPT !.propstatOK = ok, !.statusText = "none"]
    BY <1>4
  <2> HIDE DEF ok
  <2> QED  BY <1>1, <2>1 DEF UnitType
<1>7. Unjudged(b, st, c, u)
  BY <1>1, NotJudged
<1>8. u1.propstatOK <=> TextNow(b, At(st, Len(st))) = "200"
  BY <1>2, <1>5
<1> QED  BY <1>2, <1>5, <1>6, <1>7, <1>8 DEF EndFields, Unjudged

\* A displayname ends.
LEMMA EndDisplaynameFields ==
    ASSUME NEW b, NEW st, NEW u, UnitInv(b, st, u), NEW c, NEW st2, Pop(b, st, c, st2),
           st[Len(st)].name = "displayname", NEW path, Len(path) = Len(st),
           NEW u1, u1 = Leave(u, path, Len(b))
    PROVE  EndFields(b, st, u, c, st2, u1)
<1> DEFINE n == [u.openName EXCEPT !.to = Len(b)]
           nr == NameRecord(c, st2, At(st, Len(st)))
<1>1. u \in UnitType /\ Shape(b, st) /\ Grammar(b, st)
  BY DEF UnitInv
<1>2. u.statusText = "none" /\ u.href = None
  BY EndsWhat
<1>3. Len(st) = 5 /\ u.openName # None /\ u.openName \in NameEntry /\ nr = n
  BY EndNameRecord DEF depthProperty
<1>4. u1 = [u EXCEPT !.displayNames = Append(u.displayNames, n), !.openName = None]
  BY <1>2, <1>3 DEF Leave, depthStatus, depthProperty, depthPropstat
<1>5. n \in NameEntry
  BY <1>1, <1>3, Lengths DEF Shape, Typed, NameEntry
<1> HIDE DEF n, nr
<1>6. /\ u1.edits = u.edits /\ u1.displayNames = Append(u.displayNames, n)
      /\ u1.topMapped = u.topMapped /\ u1.mountRoot = u.mountRoot
      /\ u1.isResponse = u.isResponse /\ u1.openName = None /\ u1.statusText = u.statusText
      /\ u1.propstatNames = u.propstatNames /\ u1.propstatOK = u.propstatOK /\ u1.href = u.href
  BY <1>1, <1>4 DEF UnitType
<1>7. u1 \in UnitType
  <2>1. Append(u.displayNames, n) \in Seq(NameEntry)
    BY <1>1, <1>5 DEF UnitType
  <2> QED  BY <1>1, <1>4, <2>1 DEF UnitType
<1>8. Unjudged(b, st, c, u)
  BY <1>1, NotJudged
<1>9. u1.displayNames = Append(u.displayNames, NameRecord(c, st2, At(st, Len(st))))
  BY <1>3, <1>6 DEF nr
<1> QED  BY <1>2, <1>6, <1>7, <1>8, <1>9 DEF EndFields, Unjudged

\* The displaynames of a propstat that ends, as endElement judges them.
LEMMA JudgedNames ==
    ASSUME NEW b, NEW st, NEW u, UnitInv(b, st, u), NEW c, NEW st2, Pop(b, st, c, st2),
           st[Len(st)].name = "propstat", NEW k \in 1..Len(u.displayNames)
    PROVE  Judge(b, st, c, u.displayNames[k])
              = IF k > u.propstatNames THEN [u.displayNames[k] EXCEPT !.ok = u.propstatOK]
                ELSE u.displayNames[k]
<1> DEFINE i0 == At(st, Len(st))
           nm == u.displayNames
<1>1. /\ Shape(b, st) /\ Grammar(b, st) /\ u \in UnitType /\ Reading(b, st, u) /\ Len(st) >= depthUnit
      /\ Listed(b, st, st, Dropped(b, st), u.edits, nm)
  BY DEF UnitInv
<1>2. Len(st) \in depthUnit..Len(st)
  BY <1>1, Lengths DEF Shape, depthUnit
<1>3. Len(st) = 3
  BY <1>1, <1>2 DEF Grammar, StackBelow, depthPropstat
<1>4. InPropstat(st) /\ st[3].name = "propstat"
  BY <1>3 DEF InPropstat, depthPropstat
<1>5. u.propstatNames = st[3].nameMark /\ (u.propstatOK <=> Approved(b, i0))
  BY <1>1, <1>3, <1>4 DEF Reading, depthPropstat
<1>6. Approved(c, i0) <=> Approved(b, i0)
  BY <1>1, PopApproved
<1>7. /\ st[3].nameMark \in 0..Len(nm)
      /\ k <= st[3].nameMark <=> nm[k].from < i0
  <2>1. Cuts(st, NameColumn(st), nm)
    BY <1>1 DEF Listed
  <2>2. NameColumn(st)[3] = st[3].nameMark
    BY <1>3 DEF NameColumn
  <2> QED  BY <1>2, <1>3, <2>1, <2>2 DEF Cuts
<1>8. nm[k].from \in FinishedNames(b, st) /\ nm[k].from \in Nat
  <2>1. Dropped(b, st) \in SUBSET Finished(b, st)
    BY <1>1, SubsetFacts
  <2> QED  BY <1>1, <2>1, ListedFrom
<1>9. nm[k].from # i0 /\ i0 \in Nat
  <2>1. i0 \in Open(st) /\ i0 \in Elements(b)
    BY <1>1, PopFacts
  <2>2. nm[k].from \notin Open(st)
    BY <1>8 DEF FinishedNames, Finished
  <2> QED  BY <1>1, <2>1, <2>2, ElementsAre DEF Shape, Typed
<1>10. k > u.propstatNames <=> nm[k].from > i0
  <2> DEFINE f == nm[k].from
             m == st[3].nameMark
             n == u.propstatNames
  <2>1. f \in Nat /\ i0 \in Nat /\ f # i0 /\ (k <= m <=> f < i0) /\ m \in Nat /\ k \in Nat /\ n = m
    BY <1>1, <1>5, <1>7, <1>8, <1>9 DEF UnitType
  <2> HIDE DEF f, m, n, i0
  <2>2. k > n <=> f > i0
    BY <2>1
  <2> QED  BY <2>2 DEF f, n
<1>11. u.propstatOK = Approved(c, i0)
  <2>1. u.propstatOK \in BOOLEAN
    BY <1>1 DEF UnitType
  <2>2. u.propstatOK <=> Approved(c, i0)
    BY <1>5, <1>6
  <2>3. Approved(c, i0) \in BOOLEAN
    BY DEF Approved
  <2> QED  BY <2>1, <2>2, <2>3
<1> HIDE DEF i0, nm
<1>12. Judge(b, st, c, nm[k]) = IF nm[k].from > i0 THEN [nm[k] EXCEPT !.ok = Approved(c, i0)] ELSE nm[k]
  BY DEF Judge, i0
<1>13. CASE k > u.propstatNames
  <2>1. nm[k].from > i0
    BY <1>10, <1>13
  <2>2. Judge(b, st, c, nm[k]) = [nm[k] EXCEPT !.ok = Approved(c, i0)]
    BY <1>12, <2>1
  <2>3. Judge(b, st, c, nm[k]) = [nm[k] EXCEPT !.ok = u.propstatOK]
    BY <1>11, <2>2, Zenon
  <2> QED  BY <1>13, <2>3 DEF nm
<1>14. CASE ~(k > u.propstatNames)
  BY <1>10, <1>12, <1>14 DEF nm
<1> QED  BY <1>13, <1>14

\* The end of a propstat.
LEMMA EndPropstatFields ==
    ASSUME NEW b, NEW st, NEW u, UnitInv(b, st, u), NEW c, NEW st2, Pop(b, st, c, st2),
           st[Len(st)].name = "propstat", NEW path, Len(path) = Len(st), Last(path) = "propstat",
           NEW u1, u1 = Leave(u, path, Len(b))
    PROVE  EndFields(b, st, u, c, st2, u1)
<1> DEFINE nm0 == [i \in DOMAIN u.displayNames |->
                      IF i > u.propstatNames THEN [u.displayNames[i] EXCEPT !.ok = u.propstatOK]
                      ELSE u.displayNames[i]]
<1>1. u \in UnitType /\ Shape(b, st) /\ Grammar(b, st) /\ Reading(b, st, u) /\ Len(st) >= depthUnit
  BY DEF UnitInv
<1>2. u.statusText = "none" /\ u.href = None
  BY EndsWhat
<1>3. Len(st) = 3 /\ u.isResponse
  <2>1. Len(st) \in depthUnit..Len(st)
    BY <1>1, Lengths DEF Shape, depthUnit
  <2>2. Len(st) = 3 /\ st[2].name = "response"
    BY <1>1, <2>1 DEF Grammar, StackBelow, depthPropstat, depthUnit
  <2>3. b[1][2] = "response"
    BY <1>1, <2>2, UnitFirst
  <2> QED  BY <1>1, <2>2, <2>3 DEF Reading
<1>4. u1 = [u EXCEPT !.displayNames = nm0]
  BY <1>2, <1>3 DEF Leave, depthStatus, depthProperty, depthPropstat
<1>5. /\ DOMAIN u.displayNames = 1..Len(u.displayNames) /\ Len(u.displayNames) \in Nat
      /\ \A k \in 1..Len(u.displayNames) : u.displayNames[k] \in NameEntry
  BY <1>1 DEF UnitType
<1>6. ASSUME NEW k \in 1..Len(u.displayNames)
      PROVE  nm0[k] = Judge(b, st, c, u.displayNames[k]) /\ nm0[k] \in NameEntry
  <2>1. nm0[k] = IF k > u.propstatNames THEN [u.displayNames[k] EXCEPT !.ok = u.propstatOK]
                 ELSE u.displayNames[k]
    BY <1>5
  <2>2. nm0[k] = Judge(b, st, c, u.displayNames[k])
    BY <2>1, JudgedNames
  <2>3. u.displayNames[k] \in NameEntry /\ u.propstatOK \in BOOLEAN
    BY <1>1, <1>5 DEF UnitType
  <2>4. [u.displayNames[k] EXCEPT !.ok = u.propstatOK] \in NameEntry
    BY <2>3 DEF NameEntry
  <2> HIDE DEF nm0
  <2>5. nm0[k] \in NameEntry
    BY <2>1, <2>3, <2>4
  <2> QED  BY <2>2, <2>5
<1>7. DOMAIN nm0 = 1..Len(u.displayNames)
  BY <1>5
<1> DEFINE isFun == nm0 \in [1..Len(u.displayNames) -> NameEntry]
<1>8. nm0 = [k \in 1..Len(u.displayNames) |-> nm0[k]]
  BY <1>5
<1> HIDE DEF nm0
<1>9. nm0 \in Seq(NameEntry) /\ Len(nm0) = Len(u.displayNames)
  <2>1. nm0 \in [1..Len(u.displayNames) -> NameEntry]
    BY <1>6, <1>8
  <2> QED  BY <1>5, <2>1
<1>10. /\ u1.edits = u.edits /\ u1.displayNames = nm0
       /\ u1.topMapped = u.topMapped /\ u1.mountRoot = u.mountRoot
       /\ u1.isResponse = u.isResponse /\ u1.openName = u.openName /\ u1.statusText = u.statusText
       /\ u1.propstatNames = u.propstatNames /\ u1.propstatOK = u.propstatOK /\ u1.href = u.href
  BY <1>1, <1>4 DEF UnitType
<1>11. u1 \in UnitType
  BY <1>1, <1>4, <1>9 DEF UnitType
<1> QED  BY <1>2, <1>6, <1>9, <1>10, <1>11 DEF EndFields

\* Another element ends.
LEMMA EndOtherFields ==
    ASSUME NEW b, NEW st, NEW u, UnitInv(b, st, u), NEW c, NEW st2, Pop(b, st, c, st2),
           st[Len(st)].name \notin {"href", "status", "displayname", "propstat"},
           NEW path, Len(path) = Len(st), Last(path) = st[Len(st)].name,
           NEW u1, u1 = Leave(u, path, Len(b))
    PROVE  EndFields(b, st, u, c, st2, u1)
<1>1. u \in UnitType /\ Reading(b, st, u)
  BY DEF UnitInv
<1>2. u.statusText = "none" /\ u.href = None
  BY EndsWhat
<1>3. ~(u.openName # None /\ Len(st) = 5)
  BY <1>1 DEF Reading, NameOf, depthProperty
<1>4. u1 = u
  BY <1>2, <1>3 DEF Leave, depthStatus, depthProperty, depthPropstat
<1>5. Unjudged(b, st, c, u)
  BY <1>1, NotJudged
<1> QED  BY <1>1, <1>2, <1>4, <1>5 DEF EndFields, Unjudged

\* The end of any element below the unit.
LEMMA EndsFields ==
    ASSUME NEW b, NEW st, NEW u, UnitInv(b, st, u), NEW c, NEW st2, Pop(b, st, c, st2),
           NEW path, Len(path) = Len(st), Last(path) = st[Len(st)].name
    PROVE  EndFields(b, st, u, c, st2, AfterEnd(u, path, Len(st), Len(b)))
<1> DEFINE u1 == AfterEnd(u, path, Len(st), Len(b))
<1>1. CASE EndsOut(u, Len(st))
  <2>1. u1 = [u EXCEPT !.href = None]
    BY <1>1 DEF AfterEnd
  <2> HIDE DEF u1
  <2>2. EndFields(b, st, u, c, st2, u1)
    BY <1>1, <2>1, EndOutFields
  <2> QED  BY <2>2 DEF u1
<1>2. CASE EndsHref(u, Len(st)) /\ ~EndsOut(u, Len(st))
  <2>1. u1 = MapHref(u, Len(b))
    BY <1>2 DEF AfterEnd
  <2> HIDE DEF u1
  <2>2. EndFields(b, st, u, c, st2, u1)
    BY <1>2, <2>1, EndInFields
  <2> QED  BY <2>2 DEF u1
<1>3. CASE ~EndsHref(u, Len(st)) /\ ~EndsOut(u, Len(st))
  <2>1. u1 = Leave(u, path, Len(b))
    BY <1>3 DEF AfterEnd
  <2>2. st[Len(st)].name # "href"
    BY <1>3, EndsWhat
  <2> HIDE DEF u1
  <2>3. CASE st[Len(st)].name = "status"
    <3>1. EndFields(b, st, u, c, st2, u1)
      BY <2>1, <2>3, EndStatusFields
    <3> QED  BY <3>1 DEF u1
  <2>4. CASE st[Len(st)].name = "displayname"
    <3>1. EndFields(b, st, u, c, st2, u1)
      BY <2>1, <2>4, EndDisplaynameFields
    <3> QED  BY <3>1 DEF u1
  <2>5. CASE st[Len(st)].name = "propstat"
    <3>1. EndFields(b, st, u, c, st2, u1)
      BY <2>1, <2>5, EndPropstatFields
    <3> QED  BY <3>1 DEF u1
  <2>6. CASE st[Len(st)].name \notin {"href", "status", "displayname", "propstat"}
    <3>1. EndFields(b, st, u, c, st2, u1)
      BY <2>1, <2>6, EndOtherFields
    <3> QED  BY <3>1 DEF u1
  <2> QED  BY <2>2, <2>3, <2>4, <2>5, <2>6
<1> QED  BY <1>1, <1>2, <1>3 DEF EndsOut

\* The element on top of the stack.
LEMMA TopElement ==
    ASSUME NEW b, NEW st, Shape(b, st), Len(st) >= depthUnit
    PROVE  /\ At(st, Len(st)) \in Elements(b) /\ At(st, Len(st)) \in 1..Len(b)
           /\ b[At(st, Len(st))][2] = st[Len(st)].name
           /\ Depth(b, At(st, Len(st))) = Len(st)
           /\ Len(st) \in depthUnit..Len(st)
<1>1. Len(st) \in depthUnit..Len(st)
  BY Lengths DEF Shape, depthUnit
<1> QED  BY <1>1, ElementsAre DEF Shape, OpenShape, Typed

\* What is recorded when an element has ended.
LEMMA EndListed ==
    ASSUME NEW b, NEW st, NEW u, UnitInv(b, st, u), NEW c, NEW st2, Pop(b, st, c, st2),
           NEW u1, EndFields(b, st, u, c, st2, u1)
    PROVE  Listed(c, st, st2, Dropped(b, st), u1.edits, u1.displayNames)
<1>1. /\ Shape(b, st) /\ Grammar(b, st) /\ Len(st) >= depthUnit
      /\ Listed(b, st, st, Dropped(b, st), u.edits, u.displayNames)
  BY DEF UnitInv
<1>2. b[At(st, Len(st))][2] = st[Len(st)].name
  BY <1>1, TopElement
<1>3. u1.edits = IF b[At(st, Len(st))][2] = "href" /\ ~Outside(TextNow(b, At(st, Len(st))))
                 THEN Append(u.edits, Replacement(c, At(st, Len(st)))) ELSE u.edits
  BY <1>2 DEF EndFields
<1>4. PICK nm0 \in Seq(NameEntry) :
              /\ Len(nm0) = Len(u.displayNames)
              /\ \A k \in 1..Len(nm0) : nm0[k] = Judge(b, st, c, u.displayNames[k])
              /\ u1.displayNames = IF st[Len(st)].name = "displayname"
                                   THEN Append(nm0, NameRecord(c, st2, At(st, Len(st)))) ELSE nm0
  BY DEF EndFields
<1>5. \A k \in 1..Len(u.displayNames) : nm0[k] = Judge(b, st, c, u.displayNames[k])
  BY <1>4
<1> QED  BY <1>1, <1>3, <1>4, <1>5, FinishListed

\* The hrefs of the response itself when an element has ended.
LEMMA EndTops ==
    ASSUME NEW b, NEW st, NEW u, UnitInv(b, st, u), NEW c, NEW st2, Pop(b, st, c, st2),
           NEW u1, EndFields(b, st, u, c, st2, u1)
    PROVE  Tops(c, st2, u1)
<1> DEFINE i0 == At(st, Len(st))
           mapped == st[Len(st)].name = "href" /\ ~Outside(TextNow(b, i0))
           top == mapped /\ u.isResponse /\ Len(st) = depthTopHref
<1>1. Shape(b, st) /\ Grammar(b, st) /\ Len(st) >= depthUnit /\ Tops(b, st, u) /\ Reading(b, st, u)
  BY DEF UnitInv
<1>2. i0 \in Elements(b) /\ i0 \in 1..Len(b) /\ b[i0][2] = st[Len(st)].name /\ Depth(b, i0) = Len(st)
  BY <1>1, TopElement
<1>3. Extends(b, c)
  BY <1>1, PopFacts
<1>4. InHrefs(c, st2) = InHrefs(b, st) \cup (IF mapped THEN {i0} ELSE {})
  BY <1>1, <1>2, PopSets
<1>5. c[1] = b[1]
  BY <1>1, <1>3 DEF Extends, Shape, Typed
<1>6. \A h \in InHrefs(b, st) : Depth(c, h) = Depth(b, h) /\ TextNow(c, h) = TextNow(b, h)
  <2> SUFFICES ASSUME NEW h \in InHrefs(b, st)
               PROVE  Depth(c, h) = Depth(b, h) /\ TextNow(c, h) = TextNow(b, h)
    OBVIOUS
  <2>1. h \in FinishedHrefs(b, st)
    BY <1>1, SubsetFacts
  <2>2. h \in 1..Len(b) /\ TextNow(c, h) = TextNow(b, h)
    BY <1>1, <1>3, <2>1, HrefFacts, HrefSame
  <2> QED  BY <1>3, <2>2, DepthSame
<1>7. Depth(c, i0) = Len(st) /\ TextNow(c, i0) = TextNow(b, i0)
  BY <1>1, <1>2, <1>3, DepthSame, PopText
<1>8. u.isResponse <=> c[1][2] = "response"
  BY <1>1, <1>5 DEF Reading
<1> HIDE DEF i0
<1>9. \A h : h \in TopIn(c, st2) <=> h \in TopIn(b, st) \/ (top /\ h = i0)
  <2> SUFFICES ASSUME NEW h PROVE h \in TopIn(c, st2) <=> h \in TopIn(b, st) \/ (top /\ h = i0)
    OBVIOUS
  <2>1. CASE h \in InHrefs(b, st)
    <3>1. h \in TopIn(c, st2) <=> h \in TopIn(b, st)
      BY <1>4, <1>5, <1>6, <2>1 DEF TopIn
    <3>2. top /\ h = i0 => h \in TopIn(c, st2)
      BY <1>4, <1>7, <1>8 DEF TopIn
    <3> QED  BY <3>1, <3>2
  <2>2. CASE h \notin InHrefs(b, st)
    <3>1. h \notin TopIn(b, st)
      BY <2>2 DEF TopIn
    <3>2. h \in TopIn(c, st2) <=> mapped /\ h = i0 /\ c[1][2] = "response" /\ Depth(c, h) = depthTopHref
      BY <1>4, <2>2 DEF TopIn
    <3> QED  BY <1>7, <1>8, <3>1, <3>2
  <2> QED  BY <2>1, <2>2
<1>10. \A h \in TopIn(b, st) : TextNow(c, h) = TextNow(b, h)
  BY <1>6 DEF TopIn
<1>11. /\ u1.topMapped <=> u.topMapped \/ top
       /\ u1.mountRoot <=> u.mountRoot \/ (top /\ MountRoot(TextNow(b, i0)))
  BY DEF EndFields, i0
<1> HIDE DEF top
<1>12. u1.topMapped <=> TopIn(c, st2) # {}
  BY <1>1, <1>9, <1>11 DEF Tops
<1>13. u1.mountRoot <=> \E h \in TopIn(c, st2) : MountRoot(TextNow(c, h))
  BY <1>1, <1>7, <1>9, <1>10, <1>11 DEF Tops
<1> QED  BY <1>12, <1>13 DEF Tops

\* The last status of a propstat is the one on top.
LEMMA EndApproved ==
    ASSUME NEW b, NEW st, Shape(b, st), Grammar(b, st), NEW c, NEW st2, Pop(b, st, c, st2),
           st[Len(st)].name = "status"
    PROVE  Len(st) = depthStatus /\ (Approved(c, At(st, 3)) <=> TextNow(b, At(st, Len(st))) = "200")
<1> DEFINE i0 == At(st, Len(st))
           p == At(st, 3)
<1>1. /\ i0 \in Elements(b) /\ i0 \in 1..Len(b) /\ b[i0][2] = "status" /\ Depth(b, i0) = Len(st)
      /\ Len(st) \in depthUnit..Len(st)
  BY TopElement DEF Pop
<1>2. Len(st) = 4
  BY <1>1 DEF Grammar, StackBelow, depthStatus
<1>3. Approved(c, p) <=> Approved(b, p)
  BY PopApproved
<1>4. i0 \in Statuses(b, p)
  <2>1. 3 \in depthUnit..Len(st)
    BY <1>2 DEF depthUnit
  <2>2. Above(b, i0, 3) = p
    BY <2>1, TopAbove
  <2> QED  BY <1>1, <2>2 DEF Statuses, depthPropstat
<1>5. ASSUME NEW r \in Statuses(b, p) PROVE r <= i0
  <2>1. r \in Elements(b) /\ b[r][2] = "status"
    BY DEF Statuses
  <2>2. Depth(b, r) = 4 /\ r \in 1..Len(b) /\ b[r][1] # "text"
    BY <2>1, ElementsAre DEF Grammar, NamesBelow, depthStatus, Shape, Typed
  <2>3. \A k \in (i0 + 1)..Len(b) : b[k][1] # "text" => Depth(b, k) > 4
    BY <1>1, <1>2 DEF Shape, OpenShape
  <2> HIDE DEF i0
  <2>4. r \notin (i0 + 1)..Len(b)
    BY <2>2, <2>3
  <2>5. i0 \in Nat /\ r \in Nat
    BY <1>1, <2>2
  <2> QED  BY <2>2, <2>4, <2>5
<1>6. \A r \in Statuses(b, p) : r \in Nat
  BY ElementsAre DEF Statuses, Shape, Typed
<1>7. i0 \in Nat
  BY <1>1
<1> HIDE DEF i0, p
<1>8. ASSUME NEW s \in Statuses(b, p), \A r \in Statuses(b, p) : r <= s PROVE s = i0
  <2>1. i0 <= s
    BY <1>4, <1>8
  <2>2. s <= i0 /\ s \in Nat
    BY <1>5, <1>6
  <2> QED  BY <1>7, <2>1, <2>2
<1>9. Approved(b, p) <=> TextNow(b, i0) = "200"
  BY <1>4, <1>5, <1>8 DEF Approved
<1> QED  BY <1>2, <1>3, <1>9 DEF i0, p, depthStatus

\* What is being read when an element has ended.
LEMMA EndReading ==
    ASSUME NEW b, NEW st, NEW u, UnitInv(b, st, u), NEW c, NEW st2, Pop(b, st, c, st2),
           NEW u1, EndFields(b, st, u, c, st2, u1), Len(st2) >= depthUnit
    PROVE  Reading(c, st2, u1)
<1>1. Shape(b, st) /\ Grammar(b, st) /\ Len(st) >= depthUnit /\ Reading(b, st, u)
  BY DEF UnitInv
<1>2. /\ Extends(b, c) /\ Len(st2) = Len(st) - 1 /\ Len(st) \in Nat /\ Len(st2) \in Nat
      /\ \A d \in 1..Len(st2) : At(st2, d) = At(st, d)
  BY <1>1, PopFacts, Lengths DEF Shape, Typed
<1>3. \A d \in 1..Len(st2) : st2[d].name = st[d].name /\ st2[d].nameMark = st[d].nameMark
  BY DEF Pop
<1>4. c[1] = b[1]
  BY <1>1, <1>2 DEF Extends, Shape, Typed
<1>5. Len(st2) \in depthUnit..Len(st) /\ Len(st2) # Len(st) /\ Len(st2) \in 1..Len(st2)
  BY <1>2 DEF depthUnit
<1>6. st2[Len(st2)].name \notin {"href", "status"}
  BY <1>1, <1>3, <1>5 DEF Grammar, StackBelow
<1>7. HrefOf(c, st2) = None /\ StatusOf(c, st2) = "none"
  BY <1>6 DEF HrefOf, StatusOf
<1>8. u1.openName = NameOf(c, st2)
  <2>1. u1.openName = IF st[Len(st)].name = "displayname" THEN None ELSE NameOf(b, st)
    BY <1>1 DEF EndFields, Reading
  <2>2. CASE Len(st) > 5
    <3>1. Len(st2) >= 5 /\ Len(st) >= 5 /\ 5 \in 1..Len(st2) /\ 5 \in depthUnit..Len(st) /\ Len(st) # 5
      BY <1>2, <2>2 DEF depthUnit
    <3>2. At(st, 5) \in 1..Len(b)
      BY <1>1, <3>1, ElementsAre DEF Shape, OpenShape, Typed
    <3>3. c[At(st, 5)] = b[At(st, 5)]
      BY <1>2, <3>2 DEF Extends
    <3>4. st[Len(st)].name # "displayname"
      <4>1. Len(st) \in depthUnit..Len(st)
        BY <1>1, <1>2 DEF depthUnit
      <4> QED  BY <1>1, <3>1, <4>1 DEF Grammar, StackBelow, depthProperty
    <3>5. NameOf(c, st2) = NameOf(b, st)
      BY <1>2, <1>3, <3>1, <3>3 DEF NameOf, depthProperty
    <3> QED  BY <2>1, <3>4, <3>5
  <2>3. CASE Len(st) = 5
    <3>1. ~(Len(st2) >= 5)
      BY <1>2, <2>3
    <3>2. NameOf(c, st2) = None
      BY <3>1 DEF NameOf, depthProperty
    <3> QED  BY <2>1, <2>3, <3>2 DEF NameOf, depthProperty
  <2>4. CASE Len(st) < 5
    <3>1. ~(Len(st2) >= 5) /\ ~(Len(st) >= 5)
      BY <1>2, <2>4
    <3> QED  BY <2>1, <3>1 DEF NameOf, depthProperty
  <2>5. Len(st) > 5 \/ Len(st) = 5 \/ Len(st) < 5
    BY <1>2
  <2> QED  BY <2>2, <2>3, <2>4, <2>5
<1>9. ASSUME InPropstat(st2)
      PROVE  u1.propstatNames = st2[3].nameMark /\ (u1.propstatOK <=> Approved(c, At(st2, 3)))
  <2>1. Len(st2) >= 3 /\ st2[3].name = "propstat"
    BY <1>9 DEF InPropstat, depthPropstat
  <2>2. 3 \in 1..Len(st2) /\ Len(st) >= 3
    BY <1>2, <2>1
  <2>3. InPropstat(st) /\ At(st2, 3) = At(st, 3) /\ st2[3].nameMark = st[3].nameMark
    BY <1>2, <1>3, <2>1, <2>2 DEF InPropstat, depthPropstat
  <2>4. u1.propstatNames = st2[3].nameMark
    BY <1>1, <2>3 DEF EndFields, Reading, depthPropstat
  <2>5. CASE st[Len(st)].name = "status"
    <3>1. Approved(c, At(st, 3)) <=> TextNow(b, At(st, Len(st))) = "200"
      BY <1>1, <2>5, EndApproved
    <3>2. u1.propstatOK <=> TextNow(b, At(st, Len(st))) = "200"
      BY <2>5 DEF EndFields
    <3> QED  BY <2>3, <2>4, <3>1, <3>2
  <2>6. CASE st[Len(st)].name # "status"
    <3>1. u1.propstatOK <=> u.propstatOK
      BY <2>6 DEF EndFields
    <3>2. u.propstatOK <=> Approved(b, At(st, 3))
      BY <1>1, <2>3, <2>6 DEF Reading, depthPropstat
    <3>3. Approved(c, At(st, 3)) <=> Approved(b, At(st, 3))
      BY <1>1, PopApproved
    <3> QED  BY <2>3, <2>4, <3>1, <3>2, <3>3
  <2> QED  BY <2>5, <2>6
<1>10. u1.isResponse = u.isResponse /\ u1.href = None /\ u1.statusText = "none"
  BY DEF EndFields
<1> QED  BY <1>1, <1>4, <1>7, <1>8, <1>9, <1>10 DEF Reading, depthPropstat

\* What endElement does to the stack.
EndStack(b, st, u, path) == MarkedStack(st, EndsOut(u, Len(st)), removalDepth(u, path, Len(st)))

\* The stack after the end of an element, and the entry that was on top.
Popped(b, st, c, ms) ==
    /\ Pop(b, st, c, Front(ms))
    /\ \A d \in depthUnit..Len(st) : ms[d].remove <=> At(st, d) \in Marked(c, Front(ms))
    /\ \A d \in 1..Len(Front(ms)) : Front(ms)[d] = ms[d]
    /\ Last(ms) = ms[Len(st)] /\ ms \in Seq(Entry) /\ Len(ms) = Len(st)
    /\ Last(ms).start = st[Len(st)].start /\ Last(ms).editMark = st[Len(st)].editMark
    /\ Last(ms).nameMark = st[Len(st)].nameMark

\* EndElement pops the stack, and its marks are on what has to go.
LEMMA EndPops ==
    ASSUME NEW b, NEW st, NEW u, UnitInv(b, st, u), NEW path,
           \A d \in 1..Len(st) : path[d] = st[d].name,
           NEW ms, ms = EndStack(b, st, u, path),
           NEW c, c = IF Waiting(b, st) THEN b ELSE Append(b, <<"end", st[Len(st)].name>>)
    PROVE  Popped(b, st, c, ms)
<1> DEFINE out == EndsOut(u, Len(st))
           r == removalDepth(u, path, Len(st))
           i0 == At(st, Len(st))
           st2 == Front(ms)
<1>1. /\ Shape(b, st) /\ Grammar(b, st) /\ Len(st) >= depthUnit /\ Marks(b, st)
      /\ u.isResponse <=> b[1][2] = "response"
  BY DEF UnitInv, Reading
<1>2. st \in Seq(Entry) /\ Len(st) \in Nat /\ Len(st) \in 1..Len(st)
  BY <1>1, Lengths DEF Shape, Typed
<1>3. out <=> st[Len(st)].name = "href" /\ Outside(TextNow(b, i0))
  BY EndsWhat
<1>4. out => r \in depthUnit..Len(st) /\ At(st, r) = Target(b, i0)
  <2> SUFFICES ASSUME out PROVE r \in depthUnit..Len(st) /\ At(st, r) = Target(b, i0)
    OBVIOUS
  <2>1. st[Len(st)].name = "href"
    BY <1>3
  <2>2. r = removalDepth(u, path, Len(st))
    OBVIOUS
  <2> HIDE DEF r
  <2> QED  BY <1>1, <2>1, <2>2, RemovalDepth
<1>5. out \in BOOLEAN
  BY DEF EndsOut
<1>6. ms = MarkedStack(st, out, r)
  BY DEF EndStack
<1> HIDE DEF out, r
<1>7. /\ ms \in Seq(Entry) /\ Len(ms) = Len(st)
      /\ \A d \in 1..Len(st) :
                 /\ ms[d].name = st[d].name /\ ms[d].start = st[d].start
                 /\ ms[d].editMark = st[d].editMark /\ ms[d].nameMark = st[d].nameMark
                 /\ ms[d].remove <=> (st[d].remove \/ (out /\ d = r))
      /\ Front(ms) \in Seq(Entry) /\ Len(Front(ms)) = Len(st) - 1
      /\ \A d \in 1..(Len(st) - 1) : Front(ms)[d] = ms[d]
      /\ Last(ms) = ms[Len(st)]
  <2>1. MarkedFrom(st, out, r, ms)
    BY <1>1, <1>2, <1>4, <1>5, <1>6, MarkedStackFacts
  <2> QED  BY <2>1 DEF MarkedFrom
<1>8. \A d \in 1..(Len(st) - 1) : d \in 1..Len(st)
  BY <1>2
<1>9. Pop(b, st, c, st2)
  BY <1>1, <1>7, <1>8 DEF Pop
<1>10. Marked(c, st2) = Marked(b, st) \cup (IF out THEN {Target(b, i0)} ELSE {})
  <2>1. b[i0][2] = st[Len(st)].name
    BY <1>1, TopElement
  <2> QED  BY <1>1, <1>3, <1>9, <2>1, PopSets
<1>11. ASSUME NEW d \in depthUnit..Len(st)
       PROVE  ms[d].remove <=> At(st, d) \in Marked(c, st2)
  <2>1. d \in 1..Len(st)
    BY <1>1, Lengths DEF Shape
  <2>2. ms[d].remove <=> (At(st, d) \in Marked(b, st) \/ (out /\ d = r))
    BY <1>1, <1>7, <2>1 DEF Marks
  <2>3. ASSUME out PROVE d = r <=> At(st, d) = Target(b, i0)
    <3>1. r \in depthUnit..Len(st) /\ At(st, r) = Target(b, i0)
      BY <1>4, <2>3
    <3>2. d # r => At(st, d) # At(st, r)
      <4>1. d < r => At(st, d) < At(st, r)
        BY <1>1, <3>1, OpenOrder DEF Shape
      <4>2. r < d => At(st, r) < At(st, d)
        BY <1>1, <3>1, OpenOrder DEF Shape
      <4>3. At(st, d) \in Nat /\ At(st, r) \in Nat /\ d \in Nat /\ r \in Nat
        BY <1>1, <3>1, Lengths DEF Shape
      <4> HIDE DEF st2, i0
      <4> QED  BY <4>1, <4>2, <4>3
    <3> QED  BY <3>1, <3>2
  <2> QED  BY <1>10, <2>2, <2>3
<1>12. /\ Last(ms).start = st[Len(st)].start /\ Last(ms).editMark = st[Len(st)].editMark
       /\ Last(ms).nameMark = st[Len(st)].nameMark
  BY <1>2, <1>7
<1> QED  BY <1>7, <1>9, <1>11, <1>12 DEF Popped

\* What holds when an element has ended, before it is removed if it has to be.
EndedBelow(b, st, c, st2, u1) ==
    /\ Shape(b, st) /\ Grammar(b, st) /\ Pop(b, st, c, st2) /\ Len(st2) >= depthUnit
    /\ Shape(c, st2) /\ Grammar(c, st2) /\ u1 \in UnitType /\ Reading(c, st2, u1) /\ Tops(c, st2, u1)
    /\ Marks(c, st2) /\ Listed(c, st, st2, Dropped(b, st), u1.edits, u1.displayNames)

\* An element that is not marked stays.
LEMMA KeptUnit ==
    ASSUME NEW b, NEW st, NEW c, NEW st2, NEW u1, EndedBelow(b, st, c, st2, u1),
           At(st, Len(st)) \notin Marked(c, st2)
    PROVE  UnitInv(c, st2, u1)
<1>1. Listed(c, st2, st2, Dropped(c, st2), u1.edits, u1.displayNames)
  BY DropListed DEF EndedBelow
<1> QED  BY <1>1 DEF UnitInv, EndedBelow

\* The edit that removes the element on top.
LEMMA RemovalIs ==
    ASSUME NEW b, NEW st, NEW c, NEW st2, Shape(b, st), Pop(b, st, c, st2)
    PROVE  Removal(c, At(st, Len(st))) = [from |-> st[Len(st)].start, to |-> Len(c), repl |-> <<>>]
<1>1. Close(c, At(st, Len(st))) = Len(c)
  BY PopCloses
<1>2. st[Len(st)].start \in Nat
  BY Lengths DEF Shape
<1>3. At(st, Len(st)) - 1 = st[Len(st)].start
  BY <1>2 DEF At
<1> QED  BY <1>1, <1>3 DEF Removal

\* An element that is marked goes, with all that was recorded in it.
LEMMA DroppedUnit ==
    ASSUME NEW b, NEW st, NEW c, NEW st2, NEW u1, EndedBelow(b, st, c, st2, u1),
           At(st, Len(st)) \in Marked(c, st2),
           NEW e, e.start = st[Len(st)].start, e.editMark = st[Len(st)].editMark,
           e.nameMark = st[Len(st)].nameMark,
           NEW u2, u2 = DropElement(u1, e, Len(c))
    PROVE  UnitInv(c, st2, u2)
<1> DEFINE i0 == At(st, Len(st))
           ed2 == Append(SubSeq(u1.edits, 1, e.editMark), Removal(c, i0))
           nm2 == SubSeq(u1.displayNames, 1, e.nameMark)
<1>1. /\ Shape(b, st) /\ Grammar(b, st) /\ Pop(b, st, c, st2)
      /\ Listed(c, st, st2, Dropped(b, st), u1.edits, u1.displayNames)
      /\ u1 \in UnitType
  BY DEF EndedBelow
<1>2. Removal(c, i0) = [from |-> e.start, to |-> Len(c), repl |-> <<>>]
  BY <1>1, RemovalIs
<1>3. e.nameMark \in 0..Len(u1.displayNames) /\ Len(u1.displayNames) \in Nat
  <2>1. Cuts(st, NameColumn(st), u1.displayNames)
    BY <1>1 DEF Listed
  <2>2. Len(st) \in 1..Len(st) /\ Len(st) \in depthUnit..Len(st)
    BY <1>1, Lengths DEF Shape, Pop, depthUnit
  <2>3. NameColumn(st)[Len(st)] = e.nameMark
    BY <2>2 DEF NameColumn
  <2> QED  BY <1>1, <2>1, <2>2, <2>3 DEF Cuts, UnitType
<1>4. (IF e.nameMark < Len(u1.displayNames) THEN e.nameMark ELSE Len(u1.displayNames)) = e.nameMark
  <2> DEFINE m == e.nameMark
             n == Len(u1.displayNames)
  <2>1. m \in 0..n /\ n \in Nat
    BY <1>3
  <2> HIDE DEF m, n
  <2>2. (IF m < n THEN m ELSE n) = m
    BY <2>1
  <2> QED  BY <2>2 DEF m, n
<1>5. u2 = [u1 EXCEPT !.edits = ed2, !.displayNames = nm2]
  BY <1>2, <1>4 DEF DropElement
<1>6. ed2 = Append(SubSeq(u1.edits, 1, st[Len(st)].editMark), Removal(c, i0))
      /\ nm2 = SubSeq(u1.displayNames, 1, st[Len(st)].nameMark)
  OBVIOUS
<1> HIDE DEF ed2, nm2
<1>7. Listed(c, st2, st2, Dropped(c, st2), ed2, nm2)
  BY <1>1, <1>6, DropListed
<1>8. ed2 \in Seq(Edit) /\ nm2 \in Seq(NameEntry)
  BY <1>7 DEF Listed
<1>9. /\ u2 \in UnitType /\ u2.edits = ed2 /\ u2.displayNames = nm2
      /\ u2.topMapped = u1.topMapped /\ u2.mountRoot = u1.mountRoot
      /\ u2.isResponse = u1.isResponse /\ u2.openName = u1.openName /\ u2.statusText = u1.statusText
      /\ u2.propstatNames = u1.propstatNames /\ u2.propstatOK = u1.propstatOK /\ u2.href = u1.href
  BY <1>1, <1>5, <1>8 DEF UnitType
<1>10. Reading(c, st2, u2) /\ Tops(c, st2, u2)
  BY <1>9 DEF Reading, Tops, EndedBelow
<1>11. Listed(c, st2, st2, Dropped(c, st2), u2.edits, u2.displayNames)
  BY <1>7, <1>9
<1>12. u2 \in UnitType
  BY <1>9
<1> QED  BY <1>10, <1>11, <1>12, Zenon DEF UnitInv, EndedBelow

\* An element below the unit ends.
LEMMA EndUnitInv ==
    ASSUME NEW b, NEW st, NEW u, UnitInv(b, st, u), NEW path, Len(path) = Len(st),
           Last(path) = st[Len(st)].name, \A d \in 1..Len(st) : path[d] = st[d].name,
           NEW c, NEW ms, Popped(b, st, c, ms), Len(st) # depthUnit,
           NEW u1, u1 = AfterEnd(u, path, Len(st), Len(b))
    PROVE  /\ ~Last(ms).remove => UnitInv(c, Front(ms), u1)
           /\ Last(ms).remove => UnitInv(c, Front(ms), DropElement(u1, Last(ms), Len(c)))
<1> DEFINE st2 == Front(ms)
           e == Last(ms)
<1>1. Shape(b, st) /\ Grammar(b, st) /\ Len(st) >= depthUnit
  BY DEF UnitInv
<1>2. /\ Pop(b, st, c, st2)
      /\ \A d \in depthUnit..Len(st) : ms[d].remove <=> At(st, d) \in Marked(c, st2)
      /\ \A d \in 1..Len(st2) : st2[d] = ms[d]
      /\ e = ms[Len(st)] /\ ms \in Seq(Entry) /\ Len(ms) = Len(st)
      /\ e.start = st[Len(st)].start /\ e.editMark = st[Len(st)].editMark
      /\ e.nameMark = st[Len(st)].nameMark
  BY DEF Popped
<1> HIDE DEF st2, e
<1>3. EndFields(b, st, u, c, st2, u1)
  BY <1>2, EndsFields
<1>4. Len(st2) = Len(st) - 1 /\ Len(st) \in Nat /\ Len(st) >= 2 /\ Len(st) # 2
  BY <1>1, <1>2, Lengths DEF Shape, Pop, depthUnit
<1>5. Len(st2) >= depthUnit /\ Len(st) \in depthUnit..Len(st)
  BY <1>4 DEF depthUnit
<1>6. Reading(c, st2, u1) /\ Tops(c, st2, u1) /\ Listed(c, st, st2, Dropped(b, st), u1.edits, u1.displayNames)
  BY <1>2, <1>3, <1>5, EndReading, EndTops, EndListed
<1>7. Shape(c, st2) /\ Grammar(c, st2)
  BY <1>1, <1>2, PopShape, PopGrammar
<1>8. Marks(c, st2)
  <2> SUFFICES ASSUME NEW d \in depthUnit..Len(st2)
               PROVE  st2[d].remove <=> At(st2, d) \in Marked(c, st2)
    BY DEF Marks
  <2>1. d \in depthUnit..Len(st) /\ d \in 1..Len(st2)
    BY <1>4 DEF depthUnit
  <2>2. At(st2, d) = At(st, d)
    BY <1>1, <1>2, <2>1, PopFacts
  <2> QED  BY <1>2, <2>1, <2>2
<1>9. e.remove <=> At(st, Len(st)) \in Marked(c, st2)
  BY <1>2, <1>5
<1>10. EndedBelow(b, st, c, st2, u1)
  BY <1>1, <1>2, <1>3, <1>5, <1>6, <1>7, <1>8 DEF EndFields, EndedBelow
<1>11. ASSUME ~e.remove PROVE UnitInv(c, st2, u1)
  BY <1>9, <1>10, <1>11, KeptUnit
<1>12. ASSUME e.remove PROVE UnitInv(c, st2, DropElement(u1, e, Len(c)))
  <2> DEFINE u2 == DropElement(u1, e, Len(c))
  <2>1. u2 = DropElement(u1, e, Len(c))
    OBVIOUS
  <2>2. At(st, Len(st)) \in Marked(c, st2)
    BY <1>9, <1>12
  <2> HIDE DEF u2
  <2>3. UnitInv(c, st2, u2)
    BY <1>2, <1>10, <2>1, <2>2, DroppedUnit
  <2> QED  BY <2>3 DEF u2
<1> QED  BY <1>11, <1>12, Zenon DEF st2, e

-----------------------------------------------------------------------------
\* Known is an invariant of RewriteMultistatus.

\* What the rewriter knows of the unit it reads.
Known ==
    /\ stack \in Seq(Entry)
    /\ Len(stack) >= depthUnit => UnitInv(buf, stack, unit)
    /\ Len(stack) < depthUnit => unit = None

\* A unit that is being read is not the absence of one.
LEMMA UnitNotNone ==
    ASSUME NEW u \in UnitType
    PROVE  u # None
<1>1. "isResponse" \in DOMAIN u
  BY DEF UnitType
<1>2. "isResponse" \notin DOMAIN None
  BY DEF None
<1> QED  BY <1>1, <1>2

\* The entry of an element that is opened.
LEMMA OpenedIs ==
    ASSUME NEW name \in Names, NEW start \in Nat, unit = None \/ unit \in UnitType
    PROVE  LET e == Opened(name, start)
           IN  /\ e \in Entry /\ e.name = name /\ e.start = start /\ e.remove = FALSE
               /\ e.editMark = IF unit = None THEN 0 ELSE Len(unit.edits)
               /\ e.nameMark = IF unit = None THEN 0 ELSE Len(unit.displayNames)
<1>1. unit # None => Len(unit.edits) \in Nat /\ Len(unit.displayNames) \in Nat
  BY DEF UnitType
<1> DEFINE em == IF unit = None THEN 0 ELSE Len(unit.edits)
           nmk == IF unit = None THEN 0 ELSE Len(unit.displayNames)
<1>2. em \in Nat /\ nmk \in Nat
  BY <1>1
<1>3. Opened(name, start) = [name |-> name, start |-> start, remove |-> FALSE, editMark |-> em, nameMark |-> nmk]
  BY DEF Opened
<1> HIDE DEF em, nmk
<1>4. Opened(name, start) \in Entry
  BY <1>2, <1>3 DEF Entry
<1>5. /\ Opened(name, start).name = name /\ Opened(name, start).start = start
      /\ Opened(name, start).remove = FALSE
      /\ Opened(name, start).editMark = em /\ Opened(name, start).nameMark = nmk
  BY <1>3
<1> QED  BY <1>4, <1>5 DEF em, nmk

\* SelfClosed, in the words of the lemmas.
LEMMA SelfClosedIs ==
    ASSUME NEW b, NEW st, Typed(b, st), b = buf, st = stack
    PROVE  SelfClosed <=> Waiting(b, st)
<1>1. b # <<>> /\ st # <<>>
  BY DEF Typed
<1> QED  BY <1>1 DEF SelfClosed, Waiting, Last

\* Nothing is read at first.
LEMMA KnownInit == Init => Known
BY DEF Init, Known, depthUnit

\* And nothing is left after an error.
LEMMA KnownFail == Fail => Known'
BY DEF Fail, Known, depthUnit

\* Steps that leave stack, unit and tokens alone.
LEMMA KnownStays == Known /\ UNCHANGED <<stack, unit, buf>> => Known'
<1> SUFFICES ASSUME Known, UNCHANGED <<stack, unit, buf>> PROVE Known'
  OBVIOUS
<1> QED  BY DEF Known

\* The start of the root.
LEMMA KnownStartRoot == Known /\ StartRoot => Known'
<1> SUFFICES ASSUME Known, StartRoot PROVE Known'
  OBVIOUS
<1>1. CASE Fail
  BY <1>1, KnownFail
<1>2. CASE ~Fail
  <2>1. PICK name \in Content(<<>>) : stack' = <<Opened(name, 0)>> /\ UNCHANGED unit
    BY <1>2 DEF StartRoot
  <2>2. unit = None /\ stack = <<>>
    BY DEF Known, StartRoot, depthUnit
  <2>3. name \in Names
    BY <2>1 DEF Content, Names
  <2>4. Opened(name, 0) \in Entry
    BY <2>2, <2>3, OpenedIs
  <2>5. stack' \in Seq(Entry) /\ Len(stack') = 1
    BY <2>1, <2>4
  <2> QED  BY <2>1, <2>2, <2>5 DEF Known, depthUnit
<1> QED  BY <1>1, <1>2

\* The start of a child of the root.
LEMMA KnownStartUnit == Known /\ StartUnit => Known'
<1> SUFFICES ASSUME Known, StartUnit PROVE Known'
  OBVIOUS
<1>1. PICK name \in Content(Path) :
          /\ stack' = Append(stack, Opened(name, 0))
          /\ unit' = NewUnit(name)
          /\ buf' = <<<<"start", name>>>>
  BY DEF StartUnit
<1>2. Len(stack) = 1 /\ stack \in Seq(Entry) /\ unit = None
  BY DEF StartUnit, Known, depthUnit
<1>3. name \in {"response", "other"}
  <2>1. Len(Path) = 1
    BY <1>2 DEF Path
  <2> QED  BY <1>1, <2>1 DEF Content
<1>4. name \in Names
  BY <1>3 DEF Names
<1> DEFINE e == Opened(name, 0)
<1>5. /\ e \in Entry /\ e.name = name /\ e.start = 0 /\ e.remove = FALSE
      /\ e.editMark = 0 /\ e.nameMark = 0
  <2> DEFINE z == 0
             f == Opened(name, z)
  <2>1. z \in Nat
    OBVIOUS
  <2> HIDE DEF z
  <2>2. /\ f \in Entry /\ f.name = name /\ f.start = z /\ f.remove = FALSE
        /\ f.editMark = 0 /\ f.nameMark = 0
    BY <1>2, <1>4, <2>1, OpenedIs
  <2> QED  BY <2>2 DEF z
<1> HIDE DEF e
<1>6. stack' = Append(stack, e)
  BY <1>1 DEF e
<1>7. stack' \in Seq(Entry) /\ Len(stack') = 2 /\ stack'[2] = e
  <2>1. /\ Append(stack, e) \in Seq(Entry) /\ Len(Append(stack, e)) = Len(stack) + 1
        /\ Append(stack, e)[Len(stack) + 1] = e
    BY <1>2, <1>5, AppendProperties
  <2> QED  BY <1>2, <1>6, <2>1
<1>8. UnitInv(buf', stack', unit')
  BY <1>1, <1>3, <1>5, <1>7, StartUnitInv
<1> QED  BY <1>7, <1>8 DEF Known, depthUnit

\* The start of an element below it.
LEMMA KnownStartElement == Known /\ StartElement => Known'
<1> SUFFICES ASSUME Known, StartElement PROVE Known'
  OBVIOUS
<1>1. PICK name \in Content(Path), kind \in {"start", "empty"} :
          /\ kind = "empty" => name = "displayname"
          /\ stack' = Append(stack, Opened(name, Len(buf)))
          /\ unit' = Enter(unit, Append(Path, name), Len(buf) + 1, kind = "empty")
          /\ buf' = Append(buf, <<kind, name>>)
  BY DEF StartElement
<1>2. UnitInv(buf, stack, unit) /\ stack \in Seq(Entry) /\ Len(stack) >= depthUnit
  BY DEF Known, StartElement
<1>3. Shape(buf, stack) /\ Grammar(buf, stack) /\ unit \in UnitType
  BY <1>2 DEF UnitInv
<1>4. unit # None /\ Len(buf) \in Nat
  BY <1>3, UnitNotNone, Lengths DEF Shape
<1>5. ~Waiting(buf, stack)
  <2>1. ~SelfClosed
    BY DEF StartElement, MayRead
  <2> QED  BY <1>3, <2>1, SelfClosedIs DEF Shape
<1>6. name \in Content([d \in 1..Len(stack) |-> stack[d].name])
  BY <1>1 DEF Path
<1>7. name \in Names
  <2> DEFINE c == <<<<"start", name>>>>
  <2>1. c[Len(c)][1] = "empty" => name = "displayname"
    OBVIOUS
  <2> HIDE DEF c
  <2> QED  BY <1>2, <1>3, <1>6, <2>1, ContentAllowed
<1> DEFINE e == Opened(name, Len(buf))
<1>8. /\ e \in Entry /\ e.name = name /\ e.start = Len(buf) /\ e.remove = FALSE
      /\ e.editMark = Len(unit.edits) /\ e.nameMark = Len(unit.displayNames)
  BY <1>3, <1>4, <1>7, OpenedIs
<1> HIDE DEF e
<1>9. UnitInv(Append(buf, <<kind, name>>), Append(stack, e),
              EnterKind(unit, PathTo(stack, name), Len(buf) + 1, kind))
  BY <1>1, <1>2, <1>5, <1>6, <1>8, EnterUnitInv
<1>10. unit' = EnterKind(unit, PathTo(stack, name), Len(buf) + 1, kind)
  BY <1>1 DEF EnterKind, PathTo, Path
<1>11. stack' = Append(stack, e)
  BY <1>1 DEF e
<1>12. UnitInv(buf', stack', unit')
  BY <1>1, <1>9, <1>10, <1>11
<1>13. stack' \in Seq(Entry) /\ Len(stack') >= depthUnit
  BY <1>12 DEF UnitInv, Shape, Typed
<1> QED  BY <1>12, <1>13, Lengths DEF Known, depthUnit

\* Text.
LEMMA KnownCharData == Known /\ CharData => Known'
<1> SUFFICES ASSUME Known, CharData PROVE Known'
  OBVIOUS
<1>1. unit # None /\ stack \in Seq(Entry)
  BY DEF CharData, Known
<1>2. Len(stack) >= depthUnit
  BY <1>1 DEF Known, depthUnit
<1>3. UnitInv(buf, stack, unit)
  BY <1>2 DEF Known
<1>4. Last(buf) = buf[Len(buf)] /\ Last(stack) = stack[Len(stack)]
  BY DEF Last
<1>5. buf[Len(buf)] = <<"start", stack[Len(stack)].name>>
  BY <1>4 DEF CharData
<1>6. PICK text \in TextContent(stack[Len(stack)].name) :
          /\ buf' = Append(buf, <<"text", text>>)
          /\ unit' = [unit EXCEPT
                !.href = IF @ = None THEN @ ELSE [@ EXCEPT !.text = text],
                !.statusText = IF @ = "none" THEN @ ELSE text]
  BY <1>4 DEF CharData
<1>7. stack' = stack
  BY DEF CharData
<1>8. UnitInv(buf', stack, unit')
  BY <1>3, <1>5, <1>6, SayUnitInv
<1> QED  BY <1>1, <1>2, <1>7, <1>8 DEF Known, depthUnit

\* The tokens after the end of an element.
EndBytes(b, st) == IF Waiting(b, st) THEN b ELSE Append(b, <<"end", st[Len(st)].name>>)

\* EndElement, in the words of the lemmas.
EndStep(ms, c, u1) ==
    /\ stack' = Front(ms)
    /\ IF Len(stack) = depthUnit
       THEN /\ EndUnit(u1, c, Last(ms).remove)
            /\ unit' = None
            /\ buf' = <<>>
            /\ input' = c
       ELSE /\ unit' = IF Last(ms).remove THEN DropElement(u1, Last(ms), Len(c)) ELSE u1
            /\ buf' = c
            /\ UNCHANGED <<result, input, output>>

\* EndElement is EndStep.
LEMMA EndElementIs ==
    ASSUME Known, EndElement
    PROVE  /\ Len(stack) >= depthUnit /\ UnitInv(buf, stack, unit)
           /\ EndStep(EndStack(buf, stack, unit, Path), EndBytes(buf, stack),
                      AfterEnd(unit, Path, Len(stack), Len(buf)))
<1>1. Len(stack) >= depthUnit
  BY DEF EndElement
<1>2. UnitInv(buf, stack, unit)
  BY <1>1 DEF Known
<1>3. Shape(buf, stack)
  BY <1>2 DEF UnitInv
<1>4. SelfClosed <=> Waiting(buf, stack)
  BY <1>3, SelfClosedIs DEF Shape
<1>5. Last(stack) = stack[Len(stack)]
  BY DEF Last
<1>6. (IF SelfClosed THEN buf ELSE Append(buf, <<"end", Last(stack).name>>)) = EndBytes(buf, stack)
  BY <1>4, <1>5 DEF EndBytes
<1> DEFINE depth == Len(stack)
           start == Len(buf)
           bytes == IF SelfClosed THEN buf ELSE Append(buf, <<"end", Last(stack).name>>)
           isHref == unit.href # None /\ unit.href.depth = depth
           out == isHref /\ Outside(unit.href.text)
           u == IF out THEN [unit EXCEPT !.href = None]
                ELSE IF isHref THEN MapHref(unit, start)
                ELSE Leave(unit, Path, start)
           marked == IF out
                     THEN [stack EXCEPT ![removalDepth(unit, Path, depth)].remove = TRUE]
                     ELSE stack
           e == Last(marked)
<1>7. /\ stack' = Front(marked)
      /\ IF depth = depthUnit
         THEN /\ EndUnit(u, bytes, e.remove)
              /\ unit' = None
              /\ buf' = <<>>
              /\ input' = bytes
         ELSE /\ unit' = IF e.remove THEN DropElement(u, e, Len(bytes)) ELSE u
              /\ buf' = bytes
              /\ UNCHANGED <<result, input, output>>
  BY DEF EndElement
<1>8. u = AfterEnd(unit, Path, Len(stack), Len(buf))
  BY DEF AfterEnd, EndsOut, EndsHref
<1>9. marked = EndStack(buf, stack, unit, Path)
  BY DEF EndStack, MarkedStack, EndsOut, EndsHref
<1>10. bytes = EndBytes(buf, stack)
  BY <1>6
<1> HIDE DEF u, marked, bytes
<1>11. EndStep(marked, bytes, u)
  BY <1>7 DEF EndStep
<1> QED  BY <1>1, <1>2, <1>8, <1>9, <1>10, <1>11

\* Path is the names on the stack.
LEMMA PathIs ==
    ASSUME stack \in Seq(Entry), Len(stack) >= depthUnit
    PROVE  /\ Len(Path) = Len(stack) /\ Last(Path) = stack[Len(stack)].name
           /\ \A d \in 1..Len(stack) : Path[d] = stack[d].name
<1>1. Len(stack) \in Nat /\ Len(stack) \in 1..Len(stack)
  BY DEF depthUnit
<1>2. Len(Path) = Len(stack) /\ \A d \in 1..Len(stack) : Path[d] = stack[d].name
  BY <1>1 DEF Path
<1>3. Last(Path) = Path[Len(stack)]
  BY <1>2 DEF Last
<1> QED  BY <1>1, <1>2, <1>3

\* The end of an element below the root.
LEMMA KnownEndElement == Known /\ EndElement => Known'
<1> SUFFICES ASSUME Known, EndElement PROVE Known'
  OBVIOUS
<1> DEFINE ms == EndStack(buf, stack, unit, Path)
           c == EndBytes(buf, stack)
           u1 == AfterEnd(unit, Path, Len(stack), Len(buf))
<1>1. Len(stack) >= depthUnit /\ UnitInv(buf, stack, unit) /\ EndStep(ms, c, u1)
  BY EndElementIs
<1>2. stack \in Seq(Entry) /\ Len(stack) \in Nat
  BY DEF Known
<1>3. /\ Len(Path) = Len(stack) /\ Last(Path) = stack[Len(stack)].name
      /\ \A d \in 1..Len(stack) : Path[d] = stack[d].name
  BY <1>1, <1>2, PathIs
<1>4. /\ ms = EndStack(buf, stack, unit, Path) /\ u1 = AfterEnd(unit, Path, Len(stack), Len(buf))
      /\ c = IF Waiting(buf, stack) THEN buf ELSE Append(buf, <<"end", stack[Len(stack)].name>>)
  BY DEF EndBytes
<1> HIDE DEF ms, c, u1
<1>5. Popped(buf, stack, c, ms)
  BY <1>1, <1>3, <1>4, EndPops
<1>6. stack' = Front(ms) /\ Front(ms) \in Seq(Entry) /\ Len(Front(ms)) = Len(stack) - 1
  BY <1>1, <1>5 DEF EndStep, Popped, Pop
<1>7. CASE Len(stack) = depthUnit
  <2>1. unit' = None
    BY <1>1, <1>7 DEF EndStep
  <2>2. Len(stack') = 1
    BY <1>6, <1>7 DEF depthUnit
  <2>3. ~(Len(stack') >= depthUnit) /\ stack' \in Seq(Entry)
    <3>1. ~(Len(stack') >= depthUnit)
      BY <2>2 DEF depthUnit
    <3>2. stack' \in Seq(Entry)
      BY <1>6, Zenon
    <3> QED  BY <3>1, <3>2
  <2> QED  BY <2>1, <2>3 DEF Known
<1>8. CASE Len(stack) # depthUnit
  <2>1. /\ ~Last(ms).remove => UnitInv(c, Front(ms), u1)
        /\ Last(ms).remove => UnitInv(c, Front(ms), DropElement(u1, Last(ms), Len(c)))
    BY <1>1, <1>3, <1>4, <1>5, <1>8, EndUnitInv
  <2>2. /\ unit' = (IF Last(ms).remove THEN DropElement(u1, Last(ms), Len(c)) ELSE u1)
        /\ buf' = c
    BY <1>1, <1>8 DEF EndStep
  <2>3. UnitInv(buf', stack', unit')
    BY <1>6, <2>1, <2>2, Zenon
  <2>4. Len(stack') >= depthUnit
    BY <2>3 DEF UnitInv
  <2> QED  BY <1>6, <2>3, <2>4, Lengths DEF Known, depthUnit
<1> QED  BY <1>7, <1>8

\* Known is inductive.
LEMMA KnownNext == Known /\ [Next]_vars => Known'
<1> SUFFICES ASSUME Known, [Next]_vars PROVE Known'
  OBVIOUS
<1>1. CASE Fail
  BY <1>1, KnownFail
<1>2. CASE StartRoot
  BY <1>2, KnownStartRoot
<1>3. CASE StartUnit
  BY <1>3, KnownStartUnit
<1>4. CASE StartElement
  BY <1>4, KnownStartElement
<1>5. CASE CharData
  BY <1>5, KnownCharData
<1>6. CASE EndElement
  BY <1>6, KnownEndElement
<1>7. CASE UNCHANGED <<stack, unit, buf>>
  BY <1>7, KnownStays
<1>8. CASE EndRoot
  <2>1. unit' = unit /\ stack' = <<>> /\ Len(stack) = 1
    BY <1>8 DEF EndRoot
  <2> QED  BY <2>1 DEF Known, depthUnit
<1> QED  BY <1>1, <1>2, <1>3, <1>4, <1>5, <1>6, <1>7, <1>8
            DEF Next, TooLarge, DecoderFails, EndOfInput, StrayText, Return, Done, vars

-----------------------------------------------------------------------------
\* A whole unit: the promise, in the words of the invariant.

-----------------------------------------------------------------------------
\* A unit whose last token was read.
Whole(t, s) == Shape(t, s) /\ Grammar(t, s) /\ Len(s) = 1

\* In a whole unit no element is open.
LEMMA WholeElements ==
    ASSUME NEW t, NEW s, Whole(t, s)
    PROVE  /\ Open(s) = {} /\ Finished(t, s) = Elements(t)
           /\ t \in Seq(Token) /\ Len(t) \in Nat /\ Len(t) >= 1
           /\ \A i \in Elements(t) :
                 /\ i \in 1..Len(t) /\ Closes(t, i, Close(t, i))
                 /\ Close(t, i) \in i..Len(t) /\ Close(t, i) \in Nat /\ i \in Nat
<1>1. Open(s) = {}
  <2>1. \A d \in depthUnit..Len(s) : FALSE
    BY DEF Whole, depthUnit
  <2> QED  BY <2>1, OpenIs
<1>2. Finished(t, s) = Elements(t)
  BY <1>1 DEF Finished
<1>3. t \in Seq(Token) /\ Len(t) \in Nat /\ Len(t) >= 1
  BY DEF Whole, Shape, Typed
<1>4. ASSUME NEW i \in Elements(t)
      PROVE  /\ i \in 1..Len(t) /\ Closes(t, i, Close(t, i))
             /\ Close(t, i) \in i..Len(t) /\ Close(t, i) \in Nat /\ i \in Nat
  <2>1. Closes(t, i, Close(t, i)) /\ Close(t, i) \in i..Len(t)
    BY <1>2, FinishedIs DEF Whole
  <2>2. i \in 1..Len(t)
    BY <1>3, ElementsAre
  <2> QED  BY <1>3, <2>1, <2>2
<1> QED  BY <1>1, <1>2, <1>3, <1>4

\* An element that is inside of another ends before it.
LEMMA WholeNested ==
    ASSUME NEW t, NEW s, Whole(t, s), NEW a \in Elements(t), NEW i \in Elements(t),
           a < i, i <= Close(t, a)
    PROVE  Close(t, i) < Close(t, a)
<1>1. a \notin Open(s)
  BY WholeElements
<1> QED  BY <1>1 DEF Whole, Shape, Laminar

\* An element that is not self-closing ends with another token.
LEMMA StartCloses ==
    ASSUME NEW t, NEW s, Whole(t, s), NEW i \in Elements(t), t[i][1] = "start"
    PROVE  i < Close(t, i) /\ i < Len(t)
<1>1. /\ i \in 1..Len(t) /\ Closes(t, i, Close(t, i)) /\ Close(t, i) \in i..Len(t)
      /\ Len(t) \in Nat /\ Close(t, i) \in Nat /\ i \in Nat
  BY WholeElements
<1>2. t[Close(t, i)][1] = "end"
  BY <1>1 DEF Closes
<1>3. Close(t, i) # i
  BY <1>2
<1> QED  BY <1>1, <1>3

\* The ancestors that the promise speaks of are those that the stack held.
LEMMA AncestorIs ==
    ASSUME NEW t, NEW s, Whole(t, s), NEW i \in Elements(t), NEW d \in depthUnit..Depth(t, i)
    PROVE  Ancestor(t, i, d) = Above(t, i, d)
<1> DEFINE a == Above(t, i, d)
           Around(k) == Depth(t, k) = d /\ k <= i /\ i <= Close(t, k)
<1>1. a \in Elements(t) /\ Around(a)
  <2>1. a \in Elements(t) /\ a <= i /\ Depth(t, a) = d /\ (a \in Open(s) \/ i <= Close(t, a))
    BY AboveFacts DEF Whole
  <2> QED  BY <2>1, WholeElements
<1>2. ASSUME NEW k \in Elements(t), Around(k) PROVE k = a
  <2>1. k \notin Open(s)
    BY WholeElements
  <2>2. Above(t, i, Depth(t, k)) = k
    BY <1>2, <2>1, AboveOnly DEF Whole
  <2> QED  BY <1>2, <2>2
<1>3. Ancestor(t, i, d) = CHOOSE k \in Elements(t) : Around(k)
  BY DEF Ancestor
<1> HIDE DEF a, Around
<1>4. (CHOOSE k \in Elements(t) : Around(k)) = a
  BY <1>1, <1>2
<1> QED  BY <1>3, <1>4 DEF a

\* The texts of hrefs and statuses are complete.
LEMMA WholeText ==
    ASSUME NEW t, NEW s, Whole(t, s), NEW i \in Elements(t), t[i][2] \in {"href", "status"}
    PROVE  t[i][1] = "start" /\ i < Close(t, i) /\ i < Len(t) /\ TextOf(t, i) = TextNow(t, i)
<1>1. t[i][1] = "start"
  BY DEF Whole, Grammar, Childless
<1>2. i < Close(t, i) /\ i < Len(t)
  BY <1>1, StartCloses
<1>3. t \in Seq(Token) /\ i \in 1..Len(t)
  BY WholeElements
<1> QED  BY <1>1, <1>2, <1>3, TextIsNow

\* The smallest optional structure around an href is the element that was marked.
LEMMA OptionalIs ==
    ASSUME NEW t, NEW s, Whole(t, s), NEW h \in Elements(t), t[h][2] = "href"
    PROVE  Optional(t, h) = Target(t, h)
<1>1. Depth(t, h) \in Nat /\ Depth(t, h) >= 3 /\ h \in 1..Len(t)
  BY HrefDepth DEF Whole
<1>2. \A d \in depthUnit..Depth(t, h) : Ancestor(t, h, d) = Above(t, h, d)
  BY AncestorIs
<1>3. Ancestor(t, h, 3) = Above(t, h, 3)
  BY <1>1, <1>2 DEF depthUnit
<1>4. Depth(t, h) # 3 => Ancestor(t, h, 4) = Above(t, h, 4)
  BY <1>1, <1>2 DEF depthUnit
<1>5. Depth(t, h) = 4 => Above(t, h, 4) = h
  <2> SUFFICES ASSUME Depth(t, h) = 4 PROVE Above(t, h, 4) = h
    OBVIOUS
  <2>1. h \in Over(t, h, 4) /\ \A k \in Over(t, h, 4) : k <= h
    BY <1>1 DEF Over
  <2>2. t \in Seq(Token)
    BY WholeElements
  <2> QED  BY <2>1, <2>2, AboveIs
<1>6. Depth(t, h) # 3 /\ Depth(t, h) # 4 => Ancestor(t, h, 5) = Above(t, h, 5)
  BY <1>1, <1>2 DEF depthUnit
<1>7. Depth(t, h) = 4 => t[Above(t, h, 4)][2] # "prop"
  BY <1>5
<1> QED
  BY <1>3, <1>4, <1>6, <1>7
     DEF Optional, Target, depthTopHref, depthPropstat, depthStatus, depthProperty

\* The sets of the promise, in the words of what was recorded.
LEMMA HrefsAre ==
    ASSUME NEW t, NEW s, Whole(t, s)
    PROVE  /\ InHrefs(t, s) = {h \in Hrefs(t) : ~Outside(TextOf(t, h))}
           /\ OutHrefs(t, s) = {h \in Hrefs(t) : Outside(TextOf(t, h))}
           /\ TopIn(t, s) = {h \in TopHrefs(t) : ~Outside(TextOf(t, h))}
           /\ \A h \in Hrefs(t) : TextOf(t, h) = TextNow(t, h)
<1>1. FinishedHrefs(t, s) = Hrefs(t)
  BY WholeElements DEF FinishedHrefs, Hrefs
<1>2. \A h \in Hrefs(t) : TextOf(t, h) = TextNow(t, h)
  BY WholeText DEF Hrefs
<1>3. InHrefs(t, s) = {h \in Hrefs(t) : ~Outside(TextOf(t, h))}
  BY <1>1, <1>2 DEF InHrefs
<1>4. OutHrefs(t, s) = {h \in Hrefs(t) : Outside(TextOf(t, h))}
  BY <1>1, <1>2 DEF OutHrefs
<1>5. TopIn(t, s) = {h \in TopHrefs(t) : ~Outside(TextOf(t, h))}
  BY <1>3 DEF TopIn, TopHrefs, depthTopHref
<1> QED  BY <1>2, <1>3, <1>4, <1>5

\* What is gone is what lies in elements that were marked.
LEMMA GoneIs ==
    ASSUME NEW t, NEW s, Whole(t, s)
    PROVE  /\ \A i : i \in Gone(t) <=> \E o \in Marked(t, s) : i \in o..Close(t, o)
           /\ Dropped(t, s) = Marked(t, s)
           /\ \A o \in Marked(t, s) : o \in Elements(t) /\ Depth(t, o) <= depthProperty
<1>1. OutHrefs(t, s) = {h \in Hrefs(t) : Outside(TextOf(t, h))}
  BY HrefsAre
<1>2. \A h \in OutHrefs(t, s) : h \in Elements(t) /\ t[h][2] = "href"
  BY <1>1 DEF Hrefs
<1>3. \A h \in OutHrefs(t, s) : Optional(t, h) = Target(t, h)
  BY <1>2, OptionalIs
<1>4. ASSUME NEW i PROVE i \in Gone(t) <=> \E o \in Marked(t, s) : i \in o..Close(t, o)
  <2>1. i \in Gone(t) <=> \E h \in OutHrefs(t, s) : i \in Optional(t, h)..Close(t, Optional(t, h))
    BY <1>1 DEF Gone
  <2> QED  BY <1>3, <2>1 DEF Marked
<1>5. Dropped(t, s) = Marked(t, s)
  BY WholeElements DEF Dropped
<1>6. \A o \in Marked(t, s) : o \in Elements(t) /\ Depth(t, o) <= depthProperty
  BY <1>2, TargetFacts DEF Marked, Whole
<1> QED  BY <1>4, <1>5, <1>6

\* A propstat that counts is one that was approved.
LEMMA StatusOKIs ==
    ASSUME NEW t, NEW s, Whole(t, s), NEW p
    PROVE  StatusOK(t, p) <=> Approved(t, p)
<1> DEFINE statuses == {r \in Elements(t) :
                           t[r][2] = "status" /\ Depth(t, r) = 4 /\ Ancestor(t, r, 3) = p}
<1>1. ASSUME NEW r \in Elements(t), t[r][2] = "status"
      PROVE  Depth(t, r) = 4 /\ Ancestor(t, r, 3) = Above(t, r, depthPropstat)
  <2>1. Depth(t, r) = 4
    BY <1>1 DEF Whole, Grammar, NamesBelow, depthStatus
  <2>2. 3 \in depthUnit..Depth(t, r)
    BY <2>1 DEF depthUnit
  <2> QED  BY <2>1, <2>2, AncestorIs DEF depthPropstat
<1>2. statuses = Statuses(t, p)
  BY <1>1 DEF Statuses
<1>3. \A r \in Statuses(t, p) : TextOf(t, r) = TextNow(t, r)
  BY WholeText DEF Statuses
<1>4. StatusOK(t, p) <=> \/ statuses = {}
                         \/ \E r \in statuses : TextOf(t, r) = "200" /\ \A q \in statuses : q <= r
  BY DEF StatusOK
<1> HIDE DEF statuses
<1> QED  BY <1>2, <1>3, <1>4 DEF Approved

\* The displaynames that the promise renames.
LEMMA RenamedIs ==
    ASSUME NEW t, NEW s, Whole(t, s), NEW i
    PROVE  i \in Renamed(t) <=>
              /\ i \in FinishedNames(t, s) /\ t[i][1] = "start"
              /\ \E h \in TopIn(t, s) : MountRoot(TextNow(t, h))
              /\ Approved(t, Above(t, i, depthPropstat))
<1>1. (\E h \in TopHrefs(t) : MountRoot(TextOf(t, h))) <=> \E h \in TopIn(t, s) : MountRoot(TextNow(t, h))
  <2>1. \A h \in TopHrefs(t) : TextOf(t, h) = TextNow(t, h)
    BY HrefsAre DEF TopHrefs
  <2>2. \A x : MountRoot(x) => ~Outside(x)
    BY DEF MountRoot, Outside
  <2>3. TopIn(t, s) = {h \in TopHrefs(t) : ~Outside(TextOf(t, h))}
    BY HrefsAre
  <2> QED  BY <2>1, <2>2, <2>3
<1>2. i \in FinishedNames(t, s) <=> i \in Elements(t) /\ t[i][2] = "displayname"
  BY WholeElements DEF FinishedNames
<1>3. ASSUME i \in Elements(t)
      PROVE  t[i] = <<"start", "displayname">> <=> t[i][1] = "start" /\ t[i][2] = "displayname"
  <2>1. t \in Seq(Token) /\ i \in 1..Len(t)
    BY <1>3, WholeElements
  <2>2. t[i] \in Kinds \X Words
    BY <2>1 DEF Token
  <2>3. t[i] = <<t[i][1], t[i][2]>>
    BY <2>2
  <2> QED  BY <2>3
<1>4. ASSUME i \in FinishedNames(t, s)
      PROVE  StatusOK(t, Ancestor(t, i, 3)) <=> Approved(t, Above(t, i, depthPropstat))
  <2>1. i \in Elements(t) /\ Depth(t, i) = 5
    BY <1>4, NameFacts DEF Whole
  <2>2. 3 \in depthUnit..Depth(t, i)
    BY <2>1 DEF depthUnit
  <2>3. Ancestor(t, i, 3) = Above(t, i, depthPropstat)
    BY <2>1, <2>2, AncestorIs DEF depthPropstat
  <2> QED  BY <2>3, StatusOKIs
<1> QED  BY <1>1, <1>2, <1>3, <1>4 DEF Renamed

-----------------------------------------------------------------------------
\* Splice writes one piece for each token.

-----------------------------------------------------------------------------
\* Concatenation is associative.
LEMMA JoinAssociates ==
    ASSUME NEW r \in Seq(Token), NEW s \in Seq(Token), NEW t \in Seq(Token)
    PROVE  r \o (s \o t) = r \o s \o t
<1>1. (r \o s) \o t = r \o (s \o t)
  BY ConcatAssociative, SMTT(30)
<1> QED  BY <1>1

\* And yields tokens from tokens.
LEMMA JoinTyped ==
    /\ <<>> \in Seq(Token)
    /\ \A r, s \in Seq(Token) : r \o s \in Seq(Token)
BY ConcatProperties

\* The first pieces of a sequence, one after the other.
Joined(f, q, k) == f = [i \in 0..k |-> IF i = 0 THEN <<>> ELSE f[i - 1] \o q[i]]

\* The function that Splice and FlattenSeq compute.
LEMMA JoinedExists ==
    ASSUME NEW q, NEW n \in Nat
    PROVE  \E f : Joined(f, q, n)
<1> DEFINE missing == {k \in 0..n : ~ \E f : Joined(f, q, k)}
<1>1. ASSUME missing # {} PROVE FALSE
  <2>1. missing \in SUBSET Nat
    OBVIOUS
  <2>2. PICK k \in missing : \A j \in missing : k <= j
    <3> HIDE DEF missing
    <3> QED  BY <1>1, <2>1, Least
  <2>3. k # 0
    <3>1. Joined([i \in {0} |-> <<>>], q, 0)
      BY DEF Joined
    <3> QED  BY <2>2, <3>1
  <2>4. k - 1 \in 0..n /\ k - 1 \notin missing /\ k \in 0..n
    <3>1. k \in 0..n
      BY <2>2
    <3>2. k - 1 \in 0..n /\ ~(k <= k - 1)
      BY <2>3, <3>1
    <3> HIDE DEF missing
    <3> QED  BY <2>2, <3>1, <3>2
  <2>5. PICK f : Joined(f, q, k - 1)
    BY <2>4
  <2> DEFINE g == [i \in 0..k |-> IF i < k THEN f[i] ELSE f[k - 1] \o q[k]]
  <2>6. \A i \in 0..k : g[i] = IF i = 0 THEN <<>> ELSE g[i - 1] \o q[i]
    <3>1. TAKE i \in 0..k
    <3>2. CASE i = k
      BY <2>3, <2>4, <3>2
    <3>3. CASE i < k
      <4>1. i \in 0..(k - 1)
        BY <2>4, <3>3
      <4>2. f[i] = IF i = 0 THEN <<>> ELSE f[i - 1] \o q[i]
        BY <2>5, <4>1 DEF Joined
      <4> QED  BY <2>4, <3>3, <4>2
    <3> QED  BY <2>4, <3>2, <3>3
  <2>7. Joined(g, q, k)
    <3>1. g = [i \in 0..k |-> g[i]]
      OBVIOUS
    <3> HIDE DEF g
    <3> QED  BY <2>6, <3>1 DEF Joined
  <2> QED  BY <2>2, <2>7
<1>2. n \in 0..n
  OBVIOUS
<1> QED  BY <1>1, <1>2

\* What has been joined is a sequence of tokens.
Joins(f, q, n) ==
    /\ f[0] = <<>>
    /\ \A k \in 0..n : f[k] \in Seq(Token)
    /\ \A k \in 1..n : f[k] = f[k - 1] \o q[k]

\* Its values are sequences of tokens.
LEMMA JoinsTyped ==
    ASSUME NEW n \in Nat, NEW f, NEW q, \A k \in 1..n : q[k] \in Seq(Token),
           f[0] = <<>>, \A k \in 1..n : f[k] = f[k - 1] \o q[k]
    PROVE  Joins(f, q, n)
<1> DEFINE wrong == {k \in 0..n : f[k] \notin Seq(Token)}
<1>1. ASSUME wrong # {} PROVE FALSE
  <2>1. wrong \in SUBSET Nat
    OBVIOUS
  <2>2. PICK k \in wrong : \A j \in wrong : k <= j
    <3> HIDE DEF wrong
    <3> QED  BY <1>1, <2>1, Least
  <2>3. k \in 0..n /\ f[k] \notin Seq(Token)
    BY <2>2
  <2>4. k # 0
    BY <2>3, JoinTyped
  <2>5. k \in 1..n /\ k - 1 \in 0..n /\ ~(k <= k - 1)
    BY <2>3, <2>4
  <2>6. f[k - 1] \in Seq(Token)
    <3> HIDE DEF wrong
    <3>1. k - 1 \notin wrong
      BY <2>2, <2>5
    <3> QED  BY <2>5, <3>1 DEF wrong
  <2>7. f[k] = f[k - 1] \o q[k] /\ q[k] \in Seq(Token)
    BY <2>5
  <2> QED  BY <2>3, <2>6, <2>7, JoinTyped
<1> QED  BY <1>1 DEF Joins

\* FlattenSeq joins all pieces.
LEMMA FlattenIs ==
    ASSUME NEW q, Len(q) \in Nat, Len(q) >= 1, \A k \in 1..Len(q) : q[k] \in Seq(Token)
    PROVE  \E f : Joins(f, q, Len(q)) /\ FlattenSeq(q) = f[Len(q)]
<1> DEFINE n == Len(q)
           Flat(g) == g = [i \in 1..n |-> IF i = 1 THEN q[i] ELSE g[i - 1] \o q[i]]
           flatten == CHOOSE g : Flat(g)
           f == [k \in 0..n |-> IF k = 0 THEN <<>> ELSE flatten[k]]
<1>1. FlattenSeq(q) = flatten[n]
  BY DEF FlattenSeq
<1> HIDE DEF flatten
<1>2. Flat(flatten)
  <2>1. PICK h : Joined(h, q, n)
    BY JoinedExists
  <2> DEFINE g == [i \in 1..n |-> h[i]]
  <2>2. \A i \in 0..n : h[i] = IF i = 0 THEN <<>> ELSE h[i - 1] \o q[i]
    BY <2>1 DEF Joined
  <2>3. ASSUME NEW i \in 1..n PROVE g[i] = IF i = 1 THEN q[i] ELSE g[i - 1] \o q[i]
    <3>1. i \in 0..n /\ i # 0 /\ i - 1 \in 0..n
      OBVIOUS
    <3>2. h[i] = h[i - 1] \o q[i]
      BY <2>2, <3>1
    <3>3. CASE i = 1
      <4>1. h[0] = <<>>
        BY <2>2
      <4>2. h[1] = <<>> \o q[1]
        <5> HIDE DEF g
        <5>1. i - 1 = 0
          BY <3>3
        <5>2. h[1] = h[0] \o q[1]
          BY <3>2, <3>3, <5>1
        <5> QED  BY <4>1, <5>2
      <4>3. q[1] \in Seq(Token)
        BY <3>3
      <4>4. <<>> \o q[1] = q[1]
        BY <4>3, ConcatEmptySeq
      <4>5. g[1] = h[1]
        BY <3>3
      <4> HIDE DEF g
      <4> QED  BY <3>3, <4>2, <4>4, <4>5
    <3>4. CASE i # 1
      <4>1. i - 1 \in 1..n
        BY <3>4
      <4>2. g[i] = h[i] /\ g[i - 1] = h[i - 1]
        BY <4>1
      <4> HIDE DEF g
      <4> QED  BY <3>2, <3>4, <4>2
    <3> QED  BY <3>3, <3>4
  <2>4. Flat(g)
    <3>1. g = [i \in 1..n |-> g[i]]
      OBVIOUS
    <3> HIDE DEF g
    <3> QED  BY <2>3, <3>1
  <2> HIDE DEF Flat, g
  <2> QED  BY <2>4 DEF flatten
<1>3. \A i \in 1..n : flatten[i] = IF i = 1 THEN q[i] ELSE flatten[i - 1] \o q[i]
  BY <1>2
<1>4. f[0] = <<>> /\ f[n] = flatten[n]
  OBVIOUS
<1>5. ASSUME NEW k \in 1..n PROVE f[k] = f[k - 1] \o q[k]
  <2>1. k \in 0..n /\ k # 0 /\ k - 1 \in 0..n /\ f[k] = flatten[k]
    OBVIOUS
  <2>2. CASE k = 1
    <3>1. f[k - 1] = <<>> /\ flatten[k] = q[k]
      BY <1>3, <2>2
    <3>2. q[k] \in Seq(Token)
      OBVIOUS
    <3> HIDE DEF f
    <3>3. <<>> \o q[k] = q[k]
      BY <3>2, ConcatEmptySeq
    <3> QED  BY <2>1, <3>1, <3>3
  <2>3. CASE k # 1
    <3>1. f[k - 1] = flatten[k - 1]
      BY <2>3
    <3> QED  BY <1>3, <2>1, <2>3, <3>1
  <2> QED  BY <2>2, <2>3
<1> HIDE DEF f
<1>6. Joins(f, q, n)
  BY <1>4, <1>5, JoinsTyped
<1> QED  BY <1>1, <1>4, <1>6

-----------------------------------------------------------------------------
\* What Splice has written after each edit.
To(edits, k) == IF k = 0 THEN 0 ELSE edits[k].to
Written(bytes, edits, k) ==
    SubSeq(bytes, To(edits, k - 1) + 1, edits[k].from) \o edits[k].repl

\* Splice writes one piece for each edit, and the rest.
LEMMA SpliceIs ==
    ASSUME NEW bytes \in Seq(Token), NEW edits, Len(edits) \in Nat,
           \A k \in 1..Len(edits) : edits[k] \in Edit /\ edits[k].from <= Len(bytes)
    PROVE  \E f : /\ Joins(f, [k \in 1..Len(edits) |-> Written(bytes, edits, k)], Len(edits))
                  /\ Splice(bytes, edits)
                       = f[Len(edits)] \o SubSeq(bytes, To(edits, Len(edits)) + 1, Len(bytes))
<1> DEFINE n == Len(edits)
           q == [k \in 1..n |-> Written(bytes, edits, k)]
           Out(g) == g = [k \in 0..n |-> IF k = 0 THEN <<>>
                          ELSE g[k - 1] \o SubSeq(bytes, To(edits, k - 1) + 1, edits[k].from)
                                 \o edits[k].repl]
           out == CHOOSE g : Out(g)
<1>1. Splice(bytes, edits) = out[n] \o SubSeq(bytes, To(edits, n) + 1, Len(bytes))
  BY DEF Splice, To
<1>2. ASSUME NEW k \in 1..n
      PROVE  /\ SubSeq(bytes, To(edits, k - 1) + 1, edits[k].from) \in Seq(Token)
             /\ edits[k].repl \in Seq(Token) /\ q[k] = Written(bytes, edits, k)
             /\ q[k] \in Seq(Token)
  <2>1. edits[k] \in Edit /\ edits[k].from <= Len(bytes)
    OBVIOUS
  <2>2. edits[k].from \in Nat /\ edits[k].repl \in Seq(Token)
    BY <2>1 DEF Edit
  <2>3. To(edits, k - 1) + 1 \in Nat /\ To(edits, k - 1) + 1 >= 1
    <3>1. CASE k = 1
      BY <3>1 DEF To
    <3>2. CASE k # 1
      <4>1. k - 1 \in 1..n /\ k - 1 # 0
        BY <3>2
      <4>2. edits[k - 1] \in Edit
        BY <4>1
      <4>3. edits[k - 1].to \in Nat
        BY <4>2 DEF Edit
      <4> QED  BY <4>1, <4>3 DEF To
    <3> QED  BY <3>1, <3>2
  <2> DEFINE m == To(edits, k - 1) + 1
             l == edits[k].from
  <2>4. l \in Nat /\ m \in Nat /\ m >= 1 /\ l <= Len(bytes)
    BY <2>1, <2>2, <2>3
  <2> HIDE DEF m, l
  <2>5. SubSeq(bytes, m, l) \in Seq(Token)
    <3>1. \A j \in m..l : j \in 1..Len(bytes)
      BY <2>4
    <3> QED  BY <2>4, <3>1, SubSeqProperties
  <2>6. SubSeq(bytes, m, l) \o edits[k].repl \in Seq(Token)
    BY <2>2, <2>5, ConcatProperties
  <2> QED  BY <2>2, <2>5, <2>6 DEF m, l, Written
<1>3. Out(out)
  <2>1. PICK h : Joined(h, q, n)
    BY JoinedExists
  <2>2. \A k \in 0..n : h[k] = IF k = 0 THEN <<>> ELSE h[k - 1] \o q[k]
    BY <2>1 DEF Joined
  <2>3. Joins(h, q, n)
    <3>1. h[0] = <<>> /\ \A k \in 1..n : h[k] = h[k - 1] \o q[k]
      <4> HIDE DEF q
      <4>1. h[0] = <<>>
        BY <2>2
      <4>2. \A k \in 1..n : k \in 0..n /\ k # 0
        OBVIOUS
      <4> QED  BY <2>2, <4>1, <4>2
    <3>2. \A k \in 1..n : q[k] \in Seq(Token)
      BY <1>2
    <3> HIDE DEF q
    <3> QED  BY <3>1, <3>2, JoinsTyped
  <2>4. ASSUME NEW k \in 0..n
        PROVE  h[k] = IF k = 0 THEN <<>>
                      ELSE h[k - 1] \o SubSeq(bytes, To(edits, k - 1) + 1, edits[k].from)
                             \o edits[k].repl
    <3>1. CASE k = 0
      BY <2>2, <3>1
    <3>2. CASE k # 0
      <4>1. k \in 1..n /\ k - 1 \in 0..n
        BY <3>2
      <4>2. h[k - 1] \in Seq(Token)
        BY <2>3, <4>1 DEF Joins
      <4>3. h[k] = h[k - 1] \o Written(bytes, edits, k)
        BY <2>2, <3>2, <4>1
      <4> DEFINE sub == SubSeq(bytes, To(edits, k - 1) + 1, edits[k].from)
      <4>4. sub \in Seq(Token) /\ edits[k].repl \in Seq(Token) /\ Written(bytes, edits, k) = sub \o edits[k].repl
        BY <1>2, <4>1 DEF Written
      <4> HIDE DEF sub
      <4>5. h[k - 1] \o (sub \o edits[k].repl) = h[k - 1] \o sub \o edits[k].repl
        BY <4>2, <4>4, JoinAssociates, Zenon
      <4> QED  BY <3>2, <4>3, <4>4, <4>5 DEF sub
    <3> QED  BY <3>1, <3>2
  <2>5. Out(h)
    <3>1. h = [k \in 0..n |-> h[k]]
      BY <2>1 DEF Joined
    <3> QED  BY <2>4, <3>1
  <2> HIDE DEF Out
  <2> QED  BY <2>5
<1> HIDE DEF out
<1>4. \A k \in 0..n : out[k] = IF k = 0 THEN <<>>
                          ELSE out[k - 1] \o SubSeq(bytes, To(edits, k - 1) + 1, edits[k].from)
                                 \o edits[k].repl
  BY <1>3
<1>5. out[0] = <<>>
  BY <1>4
<1>6. \A k \in 0..n : out[k] \in Seq(Token)
  <2> DEFINE wrong == {k \in 0..n : out[k] \notin Seq(Token)}
  <2>1. ASSUME wrong # {} PROVE FALSE
    <3>1. wrong \in SUBSET Nat
      OBVIOUS
    <3>2. PICK k \in wrong : \A j \in wrong : k <= j
      <4> HIDE DEF wrong
      <4> QED  BY <2>1, <3>1, Least
    <3>3. k \in 0..n /\ out[k] \notin Seq(Token)
      BY <3>2
    <3>4. k # 0
      BY <1>5, <3>3, JoinTyped
    <3>5. k \in 1..n /\ k - 1 \in 0..n /\ ~(k <= k - 1)
      BY <3>3, <3>4
    <3>6. out[k - 1] \in Seq(Token)
      <4> HIDE DEF wrong
      <4>1. k - 1 \notin wrong
        BY <3>2, <3>5
      <4> QED  BY <3>5, <4>1 DEF wrong
    <3> DEFINE sub == SubSeq(bytes, To(edits, k - 1) + 1, edits[k].from)
    <3>7. out[k] = out[k - 1] \o sub \o edits[k].repl /\ sub \in Seq(Token) /\ edits[k].repl \in Seq(Token)
      BY <1>2, <1>4, <3>4, <3>5
    <3> HIDE DEF sub
    <3>8. out[k - 1] \o sub \in Seq(Token)
      BY <3>6, <3>7, ConcatProperties
    <3>9. out[k - 1] \o sub \o edits[k].repl \in Seq(Token)
      BY <3>7, <3>8, ConcatProperties
    <3> QED  BY <3>3, <3>7, <3>9
  <2> QED  BY <2>1
<1>7. ASSUME NEW k \in 1..n PROVE out[k] = out[k - 1] \o q[k]
  <2>1. k \in 0..n /\ k - 1 \in 0..n /\ k # 0
    OBVIOUS
  <2> DEFINE sub == SubSeq(bytes, To(edits, k - 1) + 1, edits[k].from)
  <2>2. /\ sub \in Seq(Token) /\ edits[k].repl \in Seq(Token) /\ q[k] = sub \o edits[k].repl
        /\ out[k] = out[k - 1] \o sub \o edits[k].repl /\ out[k - 1] \in Seq(Token)
    BY <1>2, <1>4, <1>6, <2>1 DEF Written
  <2> HIDE DEF sub, q
  <2>3. out[k - 1] \o (sub \o edits[k].repl) = out[k - 1] \o sub \o edits[k].repl
    BY <2>2, JoinAssociates, Zenon
  <2> QED  BY <2>2, <2>3
<1>8. Joins(out, q, n)
  BY <1>5, <1>6, <1>7 DEF Joins
<1> QED  BY <1>1, <1>8

\* Where the pieces are the tokens, or nothing.
AsRead(t, q, a, b) == \A i \in (a + 1)..b : q[i] = <<t[i]>>

LEMMA PlainRun ==
    ASSUME NEW t \in Seq(Token), NEW q, NEW f, Joins(f, q, Len(t)),
           NEW a \in 0..Len(t), NEW b \in a..Len(t), AsRead(t, q, a, b)
    PROVE  f[b] = f[a] \o SubSeq(t, a + 1, b) /\ SubSeq(t, a + 1, b) \in Seq(Token)
<1> DEFINE Right(k) == f[k] = f[a] \o SubSeq(t, a + 1, k) /\ SubSeq(t, a + 1, k) \in Seq(Token)
           wrong == {k \in a..b : ~Right(k)}
<1>0. Len(t) \in Nat /\ a \in Nat /\ b \in Nat /\ a <= b /\ b <= Len(t)
  OBVIOUS
<1>1. ASSUME wrong # {} PROVE FALSE
  <2>1. wrong \in SUBSET Nat
    <3> HIDE DEF Right
    <3>1. a..b \in SUBSET Nat
      BY <1>0
    <3> QED  BY <3>1
  <2>2. PICK k \in wrong : \A j \in wrong : k <= j
    <3> HIDE DEF wrong
    <3> QED  BY <1>1, <2>1, Least
  <2>3. k \in a..b /\ ~Right(k) /\ k \in Nat
    <3> HIDE DEF Right
    <3>1. k \in a..b /\ ~Right(k)
      BY <2>2
    <3> QED  BY <1>0, <3>1
  <2>4. CASE k = a
    <3>1. SubSeq(t, a + 1, a) = <<>>
      BY <1>0, SubSeqEmpty
    <3>2. f[a] \in Seq(Token)
      BY <1>0 DEF Joins
    <3>3. f[a] \o <<>> = f[a]
      BY <3>2, ConcatEmptySeq
    <3> QED  BY <2>3, <2>4, <3>1, <3>3, JoinTyped
  <2>5. CASE k # a
    <3>1. /\ k - 1 \in a..b /\ ~(k <= k - 1) /\ k \in 1..Len(t) /\ k - 1 \in 0..Len(t)
          /\ a + 1 \in 1..Len(t) /\ k \in (a + 1)..Len(t) /\ k \in (a + 1)..b
      BY <1>0, <2>3, <2>5
    <3>2. Right(k - 1)
      <4> HIDE DEF wrong
      <4>1. k - 1 \notin wrong
        BY <2>2, <3>1
      <4> QED  BY <3>1, <4>1 DEF wrong
    <3> DEFINE sub == SubSeq(t, a + 1, k - 1)
               one == <<t[k]>>
    <3>3. SubSeq(t, a + 1, k) = sub \o one
      BY <3>1, SubSeqRecursiveSecond
    <3>4. one \in Seq(Token) /\ sub \in Seq(Token) /\ f[a] \in Seq(Token)
      <4>1. t[k] \in Token
        BY <3>1
      <4> HIDE DEF sub
      <4>2. one \in Seq(Token)
        BY <4>1
      <4> QED  BY <1>0, <3>2, <4>2 DEF Joins, sub
    <3>5. f[k] = f[k - 1] \o one
      BY <3>1 DEF Joins, AsRead
    <3>6. f[k - 1] = f[a] \o sub
      BY <3>2
    <3> HIDE DEF sub, one
    <3>7. f[a] \o (sub \o one) = f[a] \o sub \o one /\ sub \o one \in Seq(Token)
      BY <3>4, JoinAssociates, JoinTyped
    <3>8. Right(k)
      BY <3>3, <3>5, <3>6, <3>7
    <3> QED  BY <2>3, <3>8
  <2> QED  BY <2>4, <2>5
<1>2. b \in a..b
  BY <1>0
<1>3. Right(b)
  BY <1>1, <1>2
<1> QED  BY <1>3

\* Where all pieces are empty, nothing is added.
LEMMA EmptyRun ==
    ASSUME NEW n \in Nat, NEW q, NEW f, Joins(f, q, n),
           NEW a \in 0..n, NEW b \in a..n, \A i \in (a + 1)..b : q[i] = <<>>
    PROVE  f[b] = f[a]
<1> DEFINE wrong == {k \in a..b : f[k] # f[a]}
<1>0. a \in Nat /\ b \in Nat /\ a <= b /\ b <= n
  OBVIOUS
<1>1. ASSUME wrong # {} PROVE FALSE
  <2>1. wrong \in SUBSET Nat
    BY <1>0
  <2>2. PICK k \in wrong : \A j \in wrong : k <= j
    <3> HIDE DEF wrong
    <3> QED  BY <1>1, <2>1, Least
  <2>3. k \in a..b /\ f[k] # f[a] /\ k # a
    BY <2>2
  <2>4. k - 1 \in a..b /\ ~(k <= k - 1) /\ k \in 1..n /\ k \in (a + 1)..b /\ k - 1 \in 0..n
    BY <1>0, <2>3
  <2>5. f[k - 1] = f[a]
    <3> HIDE DEF wrong
    <3>1. k - 1 \notin wrong
      BY <2>2, <2>4
    <3> QED  BY <2>4, <3>1 DEF wrong
  <2>6. f[k] = f[k - 1] \o <<>>
    BY <2>4 DEF Joins
  <2>7. f[k - 1] \in Seq(Token)
    BY <2>4 DEF Joins
  <2>8. f[k - 1] \o <<>> = f[k - 1]
    BY <2>7, ConcatEmptySeq
  <2> QED  BY <2>3, <2>5, <2>6, <2>8
<1>2. b \in a..b
  BY <1>0
<1> QED  BY <1>1, <1>2

-----------------------------------------------------------------------------
\* Edits of n tokens, one after the other.
Apart(edits, n) ==
    /\ Len(edits) \in Nat
    /\ \A k \in 1..Len(edits) : /\ edits[k] \in Edit
                                /\ edits[k].from >= 1 /\ edits[k].from <= edits[k].to
                                /\ edits[k].to <= n
    /\ \A j, k \in 1..Len(edits) :
          j < k => edits[j].from < edits[k].from /\ edits[j].to <= edits[k].from

\* An edit replaces this token.
Covers(e, i) == e.from < i /\ i <= e.to

\* What becomes of each token.
Pieces(t, edits, q) ==
    /\ \A i \in 1..Len(t) : q[i] \in Seq(Token)
    /\ \A k \in 1..Len(edits), i \in 1..Len(t) : Covers(edits[k], i) => q[i] = <<>>
    /\ \A k \in 1..Len(edits) :
          IF \E m \in 1..Len(edits) : Covers(edits[m], edits[k].from)
          THEN edits[k].repl = <<>>
          ELSE q[edits[k].from] = <<t[edits[k].from]>> \o edits[k].repl
    /\ \A i \in 1..Len(t) :
          (\A k \in 1..Len(edits) : ~Covers(edits[k], i) /\ edits[k].from # i) => q[i] = <<t[i]>>

\* The types of an edit.
LEMMA ApartTypes ==
    ASSUME NEW n \in Nat, NEW edits, Apart(edits, n), NEW k \in 1..Len(edits)
    PROVE  /\ edits[k].from \in Nat /\ edits[k].to \in Nat /\ edits[k].repl \in Seq(Token)
           /\ edits[k].from \in 1..n /\ edits[k].to \in edits[k].from..n
           /\ Len(edits) \in Nat /\ k \in Nat
<1>1. edits[k] \in Edit /\ edits[k].from >= 1 /\ edits[k].from <= edits[k].to /\ edits[k].to <= n
      /\ Len(edits) \in Nat
  BY DEF Apart
<1>2. edits[k].from \in Nat /\ edits[k].to \in Nat /\ edits[k].repl \in Seq(Token)
  BY <1>1 DEF Edit
<1> QED  BY <1>1, <1>2

\* The edits up to k are before its end, the others begin later.
LEMMA ApartBefore ==
    ASSUME NEW n \in Nat, NEW edits, Apart(edits, n), NEW k \in 0..Len(edits)
    PROVE  /\ To(edits, k) \in 0..n
           /\ \A m \in 1..Len(edits) : m <= k => edits[m].to <= To(edits, k) /\ edits[m].from <= To(edits, k)
           /\ \A m \in 1..Len(edits) : k < m => To(edits, k) <= edits[m].from
<1>1. \A m \in 1..Len(edits) :
         /\ edits[m].from \in Nat /\ edits[m].to \in Nat /\ edits[m].from \in 1..n
         /\ edits[m].to \in edits[m].from..n
  BY ApartTypes
<1>2. Len(edits) \in Nat
  BY DEF Apart
<1>3. CASE k = 0
  <2>1. To(edits, k) = 0
    BY <1>3 DEF To
  <2> QED  BY <1>1, <1>2, <1>3, <2>1
<1>4. CASE k # 0
  <2>1. k \in 1..Len(edits) /\ To(edits, k) = edits[k].to
    BY <1>2, <1>4 DEF To
  <2>2. ASSUME NEW m \in 1..Len(edits), m <= k
        PROVE  edits[m].to <= edits[k].to /\ edits[m].from <= edits[k].to
    <3>1. CASE m = k
      BY <1>1, <2>1, <3>1
    <3>2. CASE m # k
      <4>1. m < k
        BY <1>2, <2>1, <2>2, <3>2
      <4>2. edits[m].to <= edits[k].from
        BY <2>1, <4>1 DEF Apart
      <4>3. /\ edits[m].from \in Nat /\ edits[m].to \in Nat /\ edits[m].from <= edits[m].to
            /\ edits[k].from \in Nat /\ edits[k].to \in Nat /\ edits[k].from <= edits[k].to
        BY <1>1, <2>1
      <4> QED  BY <4>2, <4>3
    <3> QED  BY <3>1, <3>2
  <2>3. \A m \in 1..Len(edits) : k < m => edits[k].to <= edits[m].from
    BY <2>1 DEF Apart
  <2>4. edits[k].to \in 0..n
    BY <1>1, <2>1
  <2> QED  BY <2>1, <2>2, <2>3, <2>4
<1> QED  BY <1>3, <1>4

\* Between two edits there is none.
LEMMA ApartBetween ==
    ASSUME NEW n \in Nat, NEW edits, Apart(edits, n), NEW k \in 0..Len(edits),
           NEW i \in 1..n, To(edits, k) < i, k < Len(edits) => i <= edits[k + 1].from,
           NEW m \in 1..Len(edits)
    PROVE  ~Covers(edits[m], i) /\ (edits[m].from = i => k < Len(edits) /\ i = edits[k + 1].from)
<1>1. /\ edits[m].from \in Nat /\ edits[m].to \in Nat /\ Len(edits) \in Nat /\ m \in Nat
  BY ApartTypes
<1>2. To(edits, k) \in Nat
  BY ApartBefore
<1>3. CASE m <= k
  <2>1. edits[m].to <= To(edits, k) /\ edits[m].from <= To(edits, k)
    BY <1>3, ApartBefore
  <2> QED  BY <1>1, <1>2, <2>1 DEF Covers
<1>4. CASE ~(m <= k)
  <2>1. k + 1 \in 1..Len(edits) /\ k < Len(edits) /\ (k + 1 = m \/ k + 1 < m)
    BY <1>1, <1>4
  <2>2. edits[k + 1].from \in Nat
    BY <2>1, ApartTypes
  <2>3. k + 1 < m => edits[k + 1].from < edits[m].from
    BY <2>1 DEF Apart
  <2>4. edits[k + 1].from <= edits[m].from
    BY <1>1, <2>1, <2>2, <2>3
  <2>5. i <= edits[k + 1].from
    BY <2>1
  <2>6. ~(edits[m].from < i) /\ (edits[m].from = i => i = edits[k + 1].from)
    BY <1>1, <2>2, <2>4, <2>5
  <2> QED  BY <2>1, <2>6 DEF Covers
<1> QED  BY <1>3, <1>4

\* What is written up to the end of edit k is what the pieces up to there are.
LEMMA NextEdit ==
    ASSUME NEW t \in Seq(Token), NEW edits, Apart(edits, Len(t)),
           NEW q, Pieces(t, edits, q), NEW f, Joins(f, q, Len(t)), NEW k \in 1..Len(edits)
    PROVE  f[edits[k].to] = f[To(edits, k - 1)] \o Written(t, edits, k)
<1> DEFINE n == Len(t)
           a == To(edits, k - 1)
           x == edits[k].from
           y == edits[k].to
           r == edits[k].repl
           sub == SubSeq(t, a + 1, x)
<1>1. n \in Nat /\ Len(edits) \in Nat /\ k \in Nat
  BY DEF Apart
<1>2. /\ x \in Nat /\ y \in Nat /\ r \in Seq(Token) /\ x \in 1..n /\ y \in x..n
  BY ApartTypes
<1>3. k - 1 \in 0..Len(edits) /\ k - 1 < Len(edits) /\ k - 1 + 1 = k /\ k - 1 < k
  BY <1>1
<1>4. a \in 0..n /\ a <= x
  BY <1>3, ApartBefore
<1>5. f[y] = f[x]
  <2>1. \A i \in (x + 1)..y : i \in 1..n /\ x < i /\ i <= y
    BY <1>1, <1>2
  <2>2. \A i \in (x + 1)..y : q[i] = <<>>
    BY <2>1 DEF Pieces, Covers
  <2> HIDE DEF x, y, n
  <2>3. x \in 0..n /\ y \in x..n
    BY <1>1, <1>2
  <2> QED  BY <1>1, <2>2, <2>3, EmptyRun DEF n
<1>6. ASSUME NEW i \in 1..n, a < i, i <= x, NEW m \in 1..Len(edits)
      PROVE  ~Covers(edits[m], i) /\ (edits[m].from = i => i = x)
  BY <1>1, <1>3, <1>6, ApartBetween
<1>7. Written(t, edits, k) = sub \o r
  BY DEF Written
<1>8. CASE x = a
  <2>1. k # 1
    <3>1. k = 1 => a = 0
      BY DEF To
    <3> QED  BY <1>2, <1>8, <3>1
  <2>2. k - 1 \in 1..Len(edits) /\ a = edits[k - 1].to /\ k - 1 < k
    BY <1>1, <2>1 DEF To
  <2>3. edits[k - 1].from < x
    BY <2>2 DEF Apart
  <2>4. Covers(edits[k - 1], x)
    BY <1>8, <1>2, <2>2, <2>3 DEF Covers
  <2>5. r = <<>>
    BY <2>2, <2>4 DEF Pieces
  <2>6. sub = <<>>
    <3> HIDE DEF a, x
    <3>1. a + 1 \in Int /\ x \in Int /\ x < a + 1
      BY <1>2, <1>4, <1>8
    <3> QED  BY <3>1, SubSeqEmpty
  <2>7. f[a] \in Seq(Token)
    BY <1>4 DEF Joins
  <2>8. f[a] \o <<>> = f[a] /\ <<>> \o <<>> = <<>>
    BY <2>7, JoinTyped, ConcatEmptySeq
  <2> HIDE DEF sub, r, a, x, y
  <2>9. f[y] = f[a] \o (sub \o r)
    BY <1>5, <1>8, <2>5, <2>6, <2>8
  <2> QED  BY <1>7, <2>9 DEF a, y
<1>9. CASE x # a
  <2> DEFINE part == SubSeq(t, a + 1, x - 1)
             one == <<t[x]>>
  <2>1. a < x /\ x - 1 \in a..n /\ x - 1 \in 0..n /\ a + 1 \in 1..n /\ x \in (a + 1)..n
    BY <1>1, <1>2, <1>4, <1>9
  <2>2. \A i \in (a + 1)..(x - 1) : i \in 1..n /\ a < i /\ i <= x /\ i # x
    BY <1>1, <1>2, <1>4
  <2>3. AsRead(t, q, a, x - 1)
    <3> USE DEF AsRead
    <3>1. TAKE i \in (a + 1)..(x - 1)
    <3>2. i \in 1..n /\ a < i /\ i <= x /\ i # x
      BY <2>2
    <3>3. \A m \in 1..Len(edits) : ~Covers(edits[m], i) /\ edits[m].from # i
      BY <1>6, <3>2
    <3> QED  BY <3>2, <3>3 DEF Pieces
  <2>4. f[x - 1] = f[a] \o part /\ part \in Seq(Token)
    <3> HIDE DEF a, x
    <3> QED  BY <1>4, <2>1, <2>3, PlainRun
  <2>5. q[x] = one \o r
    <3>1. ~ \E m \in 1..Len(edits) : Covers(edits[m], x)
      BY <1>2, <1>6, <2>1
    <3> QED  BY <3>1 DEF Pieces
  <2>6. f[x] = f[x - 1] \o q[x]
    BY <1>2 DEF Joins
  <2>7. sub = part \o one
    <3> HIDE DEF a, x
    <3> QED  BY <2>1, SubSeqRecursiveSecond
  <2>8. one \in Seq(Token) /\ f[a] \in Seq(Token)
    <3>1. t[x] \in Token
      BY <1>2
    <3> HIDE DEF x
    <3>2. one \in Seq(Token)
      BY <3>1
    <3> QED  BY <1>4, <3>2 DEF Joins
  <2> HIDE DEF part, one, sub, r, a, x, y
  <2>9. f[x] = (f[a] \o part) \o (one \o r)
    BY <2>4, <2>5, <2>6
  <2>10. (f[a] \o part) \o (one \o r) = f[a] \o (part \o (one \o r))
    <3>1. one \o r \in Seq(Token)
      BY <1>2, <2>8, JoinTyped
    <3> QED  BY <2>4, <2>8, <3>1, JoinAssociates
  <2>11. part \o (one \o r) = sub \o r
    BY <1>2, <2>4, <2>7, <2>8, JoinAssociates
  <2>12. f[y] = f[a] \o (sub \o r)
    BY <1>5, <2>9, <2>10, <2>11
  <2> QED  BY <1>7, <2>12 DEF a, y
<1> QED  BY <1>8, <1>9

\* Splice writes each token's piece, one after the other.
LEMMA SpliceJoins ==
    ASSUME NEW t \in Seq(Token), Len(t) >= 1, NEW edits, Apart(edits, Len(t)),
           NEW q, Len(q) = Len(t), Pieces(t, edits, q)
    PROVE  Splice(t, edits) = FlattenSeq(q)
<1> DEFINE n == Len(edits)
           w == [k \in 1..n |-> Written(t, edits, k)]
<1>1. n \in Nat /\ Len(t) \in Nat
  BY DEF Apart
<1>2. PICK f : Joins(f, q, Len(t)) /\ FlattenSeq(q) = f[Len(t)]
  <2>1. \A i \in 1..Len(q) : q[i] \in Seq(Token)
    BY DEF Pieces
  <2>2. \E f : Joins(f, q, Len(q)) /\ FlattenSeq(q) = f[Len(q)]
    BY <1>1, <2>1, FlattenIs
  <2> QED  BY <2>2
<1>3. PICK g : /\ Joins(g, w, n)
               /\ Splice(t, edits) = g[n] \o SubSeq(t, To(edits, n) + 1, Len(t))
  <2>1. \A k \in 1..n : edits[k] \in Edit /\ edits[k].from <= Len(t)
    <3>1. \A k \in 1..n : edits[k] \in Edit /\ edits[k].from \in 1..Len(t)
      BY <1>1, ApartTypes DEF Apart
    <3> QED  BY <1>1, <3>1
  <2> QED  BY <1>1, <2>1, SpliceIs
<1>4. \A k \in 0..n : g[k] = f[To(edits, k)]
  <2> DEFINE wrong == {k \in 0..n : g[k] # f[To(edits, k)]}
  <2>1. ASSUME wrong # {} PROVE FALSE
    <3>1. wrong \in SUBSET Nat
      OBVIOUS
    <3>2. PICK k \in wrong : \A j \in wrong : k <= j
      <4> HIDE DEF wrong
      <4> QED  BY <2>1, <3>1, Least
    <3>3. k \in 0..n /\ g[k] # f[To(edits, k)]
      BY <3>2
    <3>4. k # 0
      <4>1. g[0] = <<>> /\ f[0] = <<>> /\ To(edits, 0) = 0
        BY <1>2, <1>3 DEF Joins, To
      <4> QED  BY <3>3, <4>1
    <3>5. k \in 1..n /\ k - 1 \in 0..n /\ ~(k <= k - 1)
      BY <1>1, <3>3, <3>4
    <3>6. g[k - 1] = f[To(edits, k - 1)]
      <4> HIDE DEF wrong
      <4>1. k - 1 \notin wrong
        BY <3>2, <3>5
      <4> QED  BY <3>5, <4>1 DEF wrong
    <3>7. g[k] = g[k - 1] \o Written(t, edits, k)
      BY <1>3, <3>5 DEF Joins
    <3>8. f[edits[k].to] = f[To(edits, k - 1)] \o Written(t, edits, k)
      BY <1>2, <3>5, NextEdit
    <3>9. To(edits, k) = edits[k].to
      BY <3>4 DEF To
    <3> QED  BY <3>3, <3>6, <3>7, <3>8, <3>9
  <2> QED  BY <2>1
<1> HIDE DEF w
<1>5. To(edits, n) \in 0..Len(t)
  BY <1>1, ApartBefore
<1>6. \A i \in (To(edits, n) + 1)..Len(t) : q[i] = <<t[i]>>
  <2>1. TAKE i \in (To(edits, n) + 1)..Len(t)
  <2>2. i \in 1..Len(t) /\ To(edits, n) < i /\ ~(n < n) /\ n \in 0..n
    BY <1>1, <1>5
  <2>3. \A m \in 1..n : ~Covers(edits[m], i) /\ edits[m].from # i
    BY <1>1, <2>2, ApartBetween
  <2> QED  BY <2>2, <2>3 DEF Pieces
<1>7. f[Len(t)] = f[To(edits, n)] \o SubSeq(t, To(edits, n) + 1, Len(t))
  <2> DEFINE a == To(edits, n)
             l == Len(t)
  <2>1. l \in a..Len(t) /\ a \in 0..Len(t)
    BY <1>1, <1>5
  <2>2. AsRead(t, q, a, l)
    BY <1>6 DEF AsRead
  <2>3. Joins(f, q, Len(t))
    BY <1>2
  <2>4. t \in Seq(Token)
    OBVIOUS
  <2> HIDE DEF a, l
  <2>5. f[l] = f[a] \o SubSeq(t, a + 1, l)
    BY <2>1, <2>2, <2>3, <2>4, PlainRun
  <2> QED  BY <2>5 DEF a, l
<1>8. g[n] = f[To(edits, n)]
  BY <1>1, <1>4
<1> QED  BY <1>2, <1>3, <1>7, <1>8

-----------------------------------------------------------------------------
\* Edits that begin at different tokens have one order.

-----------------------------------------------------------------------------
\* Edits that begin at different tokens can be put into order.
Spread(T, n) ==
    /\ T \in SUBSET Edit
    /\ \A e \in T : e.from <= n
    /\ \A e, g \in T : e.from = g.from => e = g
Orders(s, T) ==
    /\ s \in [1..Cardinality(T) -> T]
    /\ \A i, j \in DOMAIN s : i < j => s[i].from < s[j].from

\* Edits with different starts are finitely many.
LEMMA SpreadFinite ==
    ASSUME NEW n \in Nat, NEW T, Spread(T, n)
    PROVE  IsFiniteSet(T) /\ Cardinality(T) \in Nat
<1> DEFINE f == [e \in T |-> e.from]
<1>1. \A e \in T : e.from \in 0..n
  BY DEF Spread, Edit
<1>2. f \in Injection(T, 0..n)
  <2>1. f \in [T -> 0..n]
    BY <1>1
  <2>2. \A e, g \in T : f[e] = f[g] => e = g
    BY DEF Spread
  <2> HIDE DEF f
  <2> QED  BY <2>1, <2>2 DEF Injection, IsInjective
<1>3. IsFiniteSet(0..n)
  BY FS_Interval
<1> HIDE DEF f
<1> QED  BY <1>2, <1>3, FS_Injection, FS_CardinalityType

\* They can be put into order.
LEMMA OrderExists ==
    ASSUME NEW n \in Nat, NEW T, Spread(T, n)
    PROVE  \E s : Orders(s, T)
<1> DEFINE Bad(S) == Spread(S, n) /\ ~ \E s : Orders(s, S)
           sizes == {m \in Nat : \E S : Bad(S) /\ Cardinality(S) = m}
<1>1. ASSUME sizes # {} PROVE FALSE
  <2>1. PICK m \in sizes : \A k \in sizes : m <= k
    <3>1. sizes \in SUBSET Nat
      OBVIOUS
    <3> HIDE DEF sizes
    <3> QED  BY <1>1, <3>1, Least
  <2>2. PICK S : Bad(S) /\ Cardinality(S) = m
    BY <2>1
  <2>3. IsFiniteSet(S) /\ m \in Nat
    BY <2>1, <2>2, SpreadFinite
  <2>4. CASE m = 0
    <3>1. S = {} /\ Cardinality(S) = 0
      BY <2>2, <2>3, <2>4, FS_EmptySet
    <3> DEFINE s == [i \in 1..0 |-> i]
    <3>2. 1..0 = {}
      OBVIOUS
    <3>3. s \in [1..0 -> S] /\ \A i, j \in DOMAIN s : i < j => s[i].from < s[j].from
      BY <3>1, <3>2
    <3> HIDE DEF s
    <3>4. Orders(s, S)
      BY <3>1, <3>3 DEF Orders
    <3> QED  BY <2>2, <3>4
  <2>5. CASE m # 0
    <3> DEFINE froms == {e.from : e \in S}
    <3>1. S # {}
      BY <2>2, <2>3, <2>5, FS_EmptySet
    <3>2. froms \in SUBSET (0..n) /\ froms # {}
      BY <2>2, <3>1 DEF Spread, Edit
    <3>3. PICK x \in froms : \A y \in froms : y <= x
      <4> HIDE DEF froms
      <4> QED  BY <3>2, Greatest
    <3>4. PICK e \in S : x = e.from
      BY <3>3
    <3>5. \A g \in S : g.from <= e.from /\ g.from \in Nat
      BY <2>2, <3>2, <3>3, <3>4
    <3> DEFINE R == S \ {e}
    <3>6. Cardinality(R) = m - 1 /\ IsFiniteSet(R)
      BY <2>2, <2>3, FS_RemoveElement
    <3>7. Spread(R, n)
      BY <2>2 DEF Spread
    <3>8. PICK s : Orders(s, R)
      <4>1. m - 1 \in Nat /\ ~(m <= m - 1)
        BY <2>3, <2>5
      <4>2. m - 1 \notin sizes
        <5> HIDE DEF sizes
        <5> QED  BY <2>1, <4>1
      <4>3. ~Bad(R)
        <5> HIDE DEF R, Bad
        <5> QED  BY <3>6, <4>1, <4>2
      <4> QED  BY <3>7, <4>3
    <3> DEFINE s2 == [i \in 1..m |-> IF i < m THEN s[i] ELSE e]
    <3>9. s \in [1..(m - 1) -> R] /\ \A i, j \in 1..(m - 1) : i < j => s[i].from < s[j].from
      <4> HIDE DEF R
      <4>1. s \in [1..(m - 1) -> R]
        BY <3>6, <3>8 DEF Orders
      <4>2. DOMAIN s = 1..(m - 1)
        BY <4>1
      <4> QED  BY <3>8, <4>1, <4>2 DEF Orders
    <3>10. \A i \in 1..m : i < m => i \in 1..(m - 1) /\ s[i] \in S /\ s[i] # e
      BY <2>3, <3>9
    <3>11. s2 \in [1..m -> S]
      BY <3>10
    <3>12. ASSUME NEW i \in 1..m, NEW j \in 1..m, i < j PROVE s2[i].from < s2[j].from
      <4>1. i < m /\ i \in 1..(m - 1) /\ s2[i] = s[i]
        BY <2>3, <3>12
      <4>2. CASE j = m
        <5>1. s[i] \in S /\ s[i] # e
          BY <3>10, <4>1
        <5>2. s[i].from # e.from
          BY <2>2, <5>1 DEF Spread
        <5>3. s[i].from <= e.from /\ s[i].from \in Nat /\ e.from \in Nat
          BY <3>5, <5>1
        <5>4. s2[j] = e
          BY <4>2
        <5> HIDE DEF s2
        <5> QED  BY <4>1, <5>2, <5>3, <5>4
      <4>3. CASE j # m
        <5>1. j < m /\ j \in 1..(m - 1) /\ s2[j] = s[j]
          BY <2>3, <4>3
        <5> HIDE DEF s2
        <5> QED  BY <3>9, <3>12, <4>1, <5>1
      <4> QED  BY <4>2, <4>3
    <3> HIDE DEF s2
    <3>13. Orders(s2, S)
      <4>1. DOMAIN s2 = 1..m
        BY <3>11
      <4> QED  BY <2>2, <3>11, <3>12, <4>1 DEF Orders
    <3> QED  BY <2>2, <3>13
  <2> QED  BY <2>4, <2>5
<1>2. Cardinality(T) \in Nat
  BY SpreadFinite
<1> QED  BY <1>1, <1>2

\* All of the edits are in it.
LEMMA OrderOnto ==
    ASSUME NEW n \in Nat, NEW T, Spread(T, n), NEW s, Orders(s, T)
    PROVE  /\ Len(s) = Cardinality(T) /\ Len(s) \in Nat
           /\ \A k \in 1..Len(s) : s[k] \in T
           /\ \A e \in T : \E k \in 1..Len(s) : s[k] = e
           /\ \A i, j \in 1..Len(s) : i < j => s[i].from < s[j].from
<1> DEFINE m == Cardinality(T)
<1>1. IsFiniteSet(T) /\ m \in Nat
  BY SpreadFinite
<1>2. s \in [1..m -> T] /\ \A i, j \in DOMAIN s : i < j => s[i].from < s[j].from
  BY DEF Orders
<1> HIDE DEF m
<1>3. Len(s) = m /\ DOMAIN s = 1..m
  <2>1. s \in Seq(T)
    BY <1>1, <1>2, SeqDef
  <2>2. DOMAIN s = 1..Len(s) /\ DOMAIN s = 1..m /\ Len(s) \in Nat
    BY <1>2, <2>1
  <2> DEFINE l == Len(s)
  <2>3. l \in Nat /\ 1..l = 1..m
    BY <2>2
  <2> HIDE DEF l
  <2>4. l # 0 => l \in 1..m
    <3>1. l # 0 => l \in 1..l
      BY <2>3
    <3> QED  BY <2>3, <3>1
  <2>5. m # 0 => m \in 1..l
    <3>1. m # 0 => m \in 1..m
      BY <1>1
    <3> QED  BY <2>3, <3>1
  <2>6. l = m
    BY <1>1, <2>3, <2>4, <2>5
  <2> QED  BY <2>2, <2>6 DEF l
<1>4. s \in Injection(1..m, T)
  <2>1. ASSUME NEW i \in 1..m, NEW j \in 1..m, s[i] = s[j] PROVE i = j
    <3>1. s[i] \in T /\ s[j] \in T
      BY <1>2
    <3>2. s[i].from \in Nat /\ s[j].from \in Nat
      BY <3>1 DEF Spread, Edit
    <3>3. ~(i < j)
      BY <1>2, <1>3, <2>1, <3>2
    <3>4. ~(j < i)
      BY <1>2, <1>3, <2>1, <3>2
    <3> QED  BY <1>1, <3>3, <3>4
  <2> QED  BY <1>2, <2>1 DEF Injection, IsInjective
<1>5. IsFiniteSet(1..m) /\ Cardinality(1..m) = m
  <2>1. 1 \in Int /\ m \in Int
    BY <1>1
  <2>2. IsFiniteSet(1..m) /\ Cardinality(1..m) = IF 1 > m THEN 0 ELSE m - 1 + 1
    BY <2>1, FS_Interval
  <2> QED  BY <1>1, <2>2
<1>6. s \in Surjection(1..m, T)
  BY <1>1, <1>4, <1>5, FS_Injection DEF m
<1>7. \A e \in T : \E k \in 1..m : s[k] = e
  BY <1>6 DEF Surjection
<1> QED  BY <1>1, <1>2, <1>3, <1>7 DEF m

\* SortedEdits puts all the edits of a unit into order.
LEMMA SortedEditsOrder ==
    ASSUME NEW n \in Nat, NEW u, NEW T, T = ToSet(u.edits) \cup nameEdits(u), Spread(T, n)
    PROVE  Orders(SortedEdits(u), T)
<1>1. \E s : Orders(s, T)
  BY OrderExists
<1>2. SortedEdits(u) = CHOOSE s \in [1..Cardinality(T) -> T] :
                          \A i, j \in DOMAIN s : i < j => s[i].from < s[j].from
  BY DEF SortedEdits
<1> QED  BY <1>1, <1>2 DEF Orders

-----------------------------------------------------------------------------
\* The edits of a whole unit are those of the promise.

-----------------------------------------------------------------------------
\* The edits of a whole unit.
NameEdit(t, i) == [from |-> i, to |-> Close(t, i) - 1, repl |-> MountName]
Outermost(t, s) == Kept(t, Dropped(t, s), Dropped(t, s))
AllEdits(t, s) ==
    {Replacement(t, h) : h \in InHrefs(t, s) \ Gone(t)}
    \cup {Removal(t, o) : o \in Outermost(t, s)}
    \cup {NameEdit(t, i) : i \in Renamed(t) \ Gone(t)}

\* What is not inside of what is dropped is what is not gone.
LEMMA KeptIs ==
    ASSUME NEW t, NEW s, Whole(t, s), NEW X \in SUBSET Elements(t)
    PROVE  Kept(t, X \ Dropped(t, s), Dropped(t, s)) = X \ Gone(t)
<1>1. ASSUME NEW x \in X
      PROVE  x \in Gone(t) <=> \E o \in Dropped(t, s) : o <= x /\ x <= Close(t, o)
  <2>1. x \in Nat
    BY WholeElements
  <2>2. \A o \in Dropped(t, s) : o \in Nat /\ Close(t, o) \in Nat
    BY GoneIs, WholeElements
  <2>3. x \in Gone(t) <=> \E o \in Dropped(t, s) : x \in o..Close(t, o)
    BY GoneIs
  <2> QED  BY <2>1, <2>2, <2>3
<1>2. ASSUME NEW x \in X, x \in Dropped(t, s) PROVE x \in Gone(t)
  <2>1. x \in Nat /\ Close(t, x) \in Nat /\ x <= Close(t, x)
    <3>1. Close(t, x) \in x..Len(t) /\ x \in Nat /\ Len(t) \in Nat
      BY WholeElements
    <3> QED  BY <3>1
  <2> QED  BY <1>1, <1>2, <2>1
<1>3. ASSUME NEW x \in X, x \notin Dropped(t, s)
      PROVE  FreeOf(t, Dropped(t, s), x) <=> x \notin Gone(t)
  BY <1>1, <1>3 DEF FreeOf
<1> QED  BY <1>2, <1>3 DEF Kept

\* What is below a part that is gone is gone.
LEMMA GoneInside ==
    ASSUME NEW t, NEW s, Whole(t, s), NEW x \in Elements(t), x \in Gone(t),
           NEW i \in Nat, x <= i, i <= Close(t, x)
    PROVE  i \in Gone(t)
<1>1. PICK o \in Marked(t, s) : x \in o..Close(t, o)
  BY GoneIs
<1>2. o \in Elements(t)
  BY GoneIs
<1>3. o \in Nat /\ Close(t, o) \in Nat /\ x \in Nat /\ Close(t, x) \in Nat
  BY <1>2, WholeElements
<1>4. Close(t, x) <= Close(t, o)
  <2>1. CASE o = x
    BY <1>3, <2>1
  <2>2. CASE o # x
    <3>1. o < x /\ x <= Close(t, o)
      BY <1>1, <1>3, <2>2
    <3>2. Close(t, x) < Close(t, o)
      BY <1>2, <3>1, WholeNested
    <3> QED  BY <1>3, <3>2
  <2> QED  BY <2>1, <2>2
<1>5. i \in o..Close(t, o)
  BY <1>1, <1>3, <1>4
<1> QED  BY <1>5, GoneIs

\* The outermost of the parts cover the others.
LEMMA GoneOutermost ==
    ASSUME NEW t, NEW s, Whole(t, s), NEW i
    PROVE  i \in Gone(t) <=> \E o \in Outermost(t, s) : i \in o..Close(t, o)
<1>1. Outermost(t, s) \subseteq Marked(t, s) /\ Dropped(t, s) = Marked(t, s)
  BY GoneIs DEF Outermost, Kept
<1>2. ASSUME i \in Gone(t) PROVE \E o \in Outermost(t, s) : i \in o..Close(t, o)
  <2> DEFINE around == {o \in Marked(t, s) : i \in o..Close(t, o)}
  <2>1. \A o \in Marked(t, s) : o \in Elements(t) /\ o \in Nat /\ Close(t, o) \in Nat
    BY GoneIs, WholeElements
  <2>2. around \in SUBSET Nat /\ around # {}
    BY <1>2, <2>1, GoneIs
  <2>3. PICK o \in around : \A k \in around : o <= k
    <3> HIDE DEF around
    <3> QED  BY <2>2, Least
  <2>4. o \in Marked(t, s) /\ i \in o..Close(t, o) /\ o \in Elements(t)
    BY <2>1, <2>3
  <2>5. ASSUME NEW k \in Marked(t, s), k # o, k <= o, o <= Close(t, k) PROVE FALSE
    <3>1. k \in Elements(t) /\ k \in Nat /\ Close(t, k) \in Nat /\ o \in Nat /\ Close(t, o) \in Nat
      BY <2>1, <2>4
    <3>2. k < o
      BY <2>5, <3>1
    <3>3. Close(t, o) < Close(t, k)
      BY <2>4, <2>5, <3>1, <3>2, WholeNested
    <3>4. k \in around
      BY <2>4, <3>1, <3>2, <3>3
    <3> QED  BY <2>3, <3>1, <3>2, <3>4
  <2>6. o \in Outermost(t, s)
    BY <1>1, <2>4, <2>5 DEF Outermost, Kept, FreeOf
  <2> QED  BY <2>4, <2>6
<1>3. ASSUME NEW o \in Outermost(t, s), i \in o..Close(t, o) PROVE i \in Gone(t)
  BY <1>1, <1>3, GoneIs
<1> QED  BY <1>2, <1>3

\* What is recorded when the last token was read.
LEMMA NameEditsAre ==
    ASSUME NEW t, NEW s, Whole(t, s), NEW u, Tops(t, s, u),
           ToSet(u.displayNames) = NameSet(t, s, Dropped(t, s))
    PROVE  nameEdits(u) = {NameEdit(t, i) : i \in Renamed(t) \ Gone(t)}
<1> DEFINE names == FinishedNames(t, s) \ Gone(t)
           Chosen(i) == u.mountRoot /\ NameRecord(t, s, i).ok /\ ~NameRecord(t, s, i).selfClose
           Made(n) == [from |-> n.from, to |-> n.to, repl |-> MountName]
<1>1. FinishedNames(t, s) \in SUBSET Elements(t)
  BY WholeElements DEF FinishedNames
<1>2. ToSet(u.displayNames) = {NameRecord(t, s, i) : i \in names}
  BY <1>1, KeptIs DEF NameSet
<1>3. nameEdits(u) = {Made(n) : n \in {m \in ToSet(u.displayNames) : u.mountRoot /\ m.ok /\ ~m.selfClose}}
  BY DEF nameEdits
<1>4. ASSUME NEW i \in names PROVE Chosen(i) <=> i \in Renamed(t) \ Gone(t)
  <2>1. NameRecord(t, s, i).ok <=> Above(t, i, depthPropstat) \notin Open(s)
                                   /\ Approved(t, Above(t, i, depthPropstat))
    BY DEF NameRecord
  <2>2. NameRecord(t, s, i).selfClose <=> t[i][1] = "empty"
    BY DEF NameRecord
  <2>3. t[i][1] \in {"start", "empty"}
    BY <1>1, WholeElements, ElementsAre
  <2>4. Open(s) = {}
    BY WholeElements
  <2>5. u.mountRoot <=> \E h \in TopIn(t, s) : MountRoot(TextNow(t, h))
    BY DEF Tops
  <2>6. i \in FinishedNames(t, s) /\ i \notin Gone(t)
    OBVIOUS
  <2>7. i \in Renamed(t) <=> /\ t[i][1] = "start"
                             /\ \E h \in TopIn(t, s) : MountRoot(TextNow(t, h))
                             /\ Approved(t, Above(t, i, depthPropstat))
    BY <2>6, RenamedIs
  <2>8. ~NameRecord(t, s, i).selfClose <=> t[i][1] = "start"
    BY <2>2, <2>3
  <2>9. NameRecord(t, s, i).ok <=> Approved(t, Above(t, i, depthPropstat))
    BY <2>1, <2>4
  <2> QED  BY <2>5, <2>6, <2>7, <2>8, <2>9
<1>5. ASSUME NEW i \in Renamed(t) PROVE Made(NameRecord(t, s, i)) = NameEdit(t, i)
  <2>1. t[i][1] = "start"
    BY RenamedIs
  <2> QED  BY <2>1 DEF NameRecord, NameEdit
<1>6. \A i \in Renamed(t) \ Gone(t) : i \in names
  BY RenamedIs
<1> HIDE DEF names
<1>7. ASSUME NEW e PROVE e \in nameEdits(u) <=> \E i \in names : Chosen(i) /\ e = Made(NameRecord(t, s, i))
  <2> HIDE DEF Made
  <2> QED  BY <1>2, <1>3
<1> HIDE DEF Made, Chosen
<1>8. ASSUME NEW e PROVE e \in nameEdits(u) <=> \E i \in Renamed(t) \ Gone(t) : e = NameEdit(t, i)
  BY <1>4, <1>5, <1>6, <1>7
<1> QED  BY <1>8

\* What endUnit applies is all the edits of the unit.
LEMMA AllEditsAre ==
    ASSUME NEW t, NEW s, Whole(t, s), NEW u, Tops(t, s, u), NEW cuts,
           Listed(t, cuts, s, Dropped(t, s), u.edits, u.displayNames)
    PROVE  ToSet(u.edits) \cup nameEdits(u) = AllEdits(t, s)
<1>1. ToSet(u.edits) = EditSet(t, InHrefs(t, s), Dropped(t, s))
      /\ ToSet(u.displayNames) = NameSet(t, s, Dropped(t, s))
  BY DEF Listed
<1>2. InHrefs(t, s) \in SUBSET Elements(t)
  BY HrefsAre DEF Hrefs
<1>3. Kept(t, InHrefs(t, s) \ Dropped(t, s), Dropped(t, s)) = InHrefs(t, s) \ Gone(t)
  BY <1>2, KeptIs
<1>4. nameEdits(u) = {NameEdit(t, i) : i \in Renamed(t) \ Gone(t)}
  BY <1>1, NameEditsAre
<1> QED  BY <1>1, <1>3, <1>4 DEF EditSet, AllEdits, Outermost

\* Hrefs that are mapped and displaynames that are renamed.
Changed(t, s) == InHrefs(t, s) \cup Renamed(t)

\* What is mapped or renamed has a start, an end, and one of two names.
LEMMA ChangedFacts ==
    ASSUME NEW t, NEW s, Whole(t, s), NEW x \in Changed(t, s)
    PROVE  /\ x \in Elements(t) /\ x \in 1..Len(t) /\ x \in Nat /\ Len(t) \in Nat
           /\ t[x][1] = "start" /\ x < Close(t, x) /\ Close(t, x) \in Nat /\ Close(t, x) <= Len(t)
           /\ x \in InHrefs(t, s) <=> t[x][2] = "href"
           /\ x \in Renamed(t) <=> t[x][2] = "displayname"
<1>1. x \in InHrefs(t, s) => x \in Elements(t) /\ t[x][2] = "href" /\ t[x][1] = "start"
  <2>1. x \in InHrefs(t, s) => x \in Elements(t) /\ t[x][2] = "href"
    BY HrefsAre DEF Hrefs
  <2> QED  BY <2>1, WholeText
<1>2. x \in Renamed(t) => x \in Elements(t) /\ t[x][2] = "displayname" /\ t[x][1] = "start"
  BY DEF Renamed
<1>3. x \in Elements(t) /\ t[x][1] = "start"
  BY <1>1, <1>2 DEF Changed
<1>4. x < Close(t, x)
  BY <1>3, StartCloses
<1>5. x \in 1..Len(t) /\ x \in Nat /\ Len(t) \in Nat /\ Close(t, x) \in Nat /\ Close(t, x) \in x..Len(t)
  BY <1>3, WholeElements
<1>6. Close(t, x) <= Len(t)
  BY <1>5
<1>7. (x \in InHrefs(t, s) <=> t[x][2] = "href") /\ (x \in Renamed(t) <=> t[x][2] = "displayname")
  BY <1>1, <1>2 DEF Changed
<1> QED  BY <1>3, <1>4, <1>5, <1>6, <1>7

\* A part that is gone does not begin right after the start of one of them.
LEMMA NotBefore ==
    ASSUME NEW t, NEW s, Whole(t, s), NEW x \in Changed(t, s), NEW o \in Marked(t, s)
    PROVE  x # o - 1
<1> SUFFICES ASSUME x = o - 1 PROVE FALSE
  OBVIOUS
<1>1. /\ x \in Elements(t) /\ x \in 1..Len(t) /\ x \in Nat /\ Len(t) \in Nat
      /\ t[x][1] = "start" /\ x < Close(t, x) /\ Close(t, x) \in Nat /\ Close(t, x) <= Len(t)
  BY ChangedFacts
<1>2. o \in Elements(t) /\ Depth(t, o) <= depthProperty
  BY GoneIs
<1>3. o \in 1..Len(t) /\ o = x + 1 /\ x < Len(t) /\ t \in Seq(Token)
  <2>1. o \in 1..Len(t) /\ t \in Seq(Token) /\ Len(t) \in Nat
    BY <1>2, WholeElements
  <2>2. o = x + 1 /\ x < Len(t)
    BY <1>1, <2>1
  <2> QED  BY <2>1, <2>2
<1>4. t[o][1] \in {"start", "empty"}
  BY <1>2, <1>3, ElementsAre
<1>5. CASE x \in InHrefs(t, s)
  <2>1. t[x][2] = "href"
    BY <1>5, ChangedFacts
  <2>2. t[x + 1][1] \in {"text", "end"}
    BY <1>1, <1>3, <2>1 DEF Whole, Grammar, Childless
  <2> QED  BY <1>3, <1>4, <2>2
<1>6. CASE x \in Renamed(t)
  <2>1. x \in FinishedNames(t, s)
    BY <1>6, RenamedIs
  <2>2. Depth(t, x) = 5
    BY <2>1, NameFacts DEF Whole
  <2>3. Level(t, x - 1) = 3
    <3>1. Depth(t, x) = 2 + Level(t, x - 1)
      BY <1>1, <1>3, DepthIs
    <3>2. x - 1 \in Nat
      BY <1>1
    <3>3. Level(t, x - 1) \in Int
      BY <3>2, LevelSteps
    <3> QED  BY <2>2, <3>1, <3>3
  <2>4. Level(t, x) = 4
    <3> DEFINE n == x - 1
    <3>1. n \in Nat /\ n + 1 = x
      BY <1>1
    <3>2. Level(t, n) = 3
      BY <2>3
    <3> HIDE DEF n
    <3>3. Level(t, n + 1) = Level(t, n) + (IF t[n + 1][1] = "start" THEN 1
                                           ELSE IF t[n + 1][1] = "end" THEN -1 ELSE 0)
      BY <3>1, LevelSteps
    <3> QED  BY <1>1, <3>1, <3>2, <3>3
  <2>5. Depth(t, o) = 2 + Level(t, o - 1)
    BY <1>3, <1>4, DepthIs
  <2>6. o - 1 = x
    BY <1>1, <1>3
  <2>7. Depth(t, o) = 6
    BY <2>4, <2>5, <2>6
  <2> QED  BY <1>2, <2>7 DEF depthProperty
<1> QED  BY <1>5, <1>6 DEF Changed

\* What is removed has a start and an end.
LEMMA OutermostFacts ==
    ASSUME NEW t, NEW s, Whole(t, s), NEW o \in Outermost(t, s)
    PROVE  /\ o \in Marked(t, s) /\ o \in Elements(t) /\ o \in 1..Len(t) /\ o \in Nat
           /\ Close(t, o) \in Nat /\ o <= Close(t, o) /\ Close(t, o) <= Len(t) /\ Len(t) \in Nat
           /\ o \in Finished(t, s)
<1>1. o \in Marked(t, s)
  BY GoneIs DEF Outermost, Kept
<1>2. o \in Elements(t)
  BY <1>1, GoneIs
<1>3. /\ o \in 1..Len(t) /\ o \in Nat /\ Close(t, o) \in Nat /\ Close(t, o) \in o..Len(t)
      /\ Len(t) \in Nat /\ o \in Finished(t, s)
  BY <1>2, WholeElements
<1> QED  BY <1>1, <1>2, <1>3

\* The three kinds of edits.
EditOf(t, s, e) ==
    \/ \E x \in Changed(t, s) \ Gone(t) :
          /\ e.from = x /\ e.to = Close(t, x) - 1
          /\ e = IF x \in InHrefs(t, s) THEN Replacement(t, x) ELSE NameEdit(t, x)
    \/ \E o \in Outermost(t, s) : e.from = o - 1 /\ e.to = Close(t, o) /\ e = Removal(t, o)

\* Each edit is of one of three kinds, and nothing is left out.
LEMMA EditsAre ==
    ASSUME NEW t, NEW s, Whole(t, s)
    PROVE  /\ \A e \in AllEdits(t, s) : EditOf(t, s, e)
           /\ \A x \in Changed(t, s) \ Gone(t) :
                 \E e \in AllEdits(t, s) : e.from = x /\ e.to = Close(t, x) - 1
           /\ \A o \in Outermost(t, s) :
                 \E e \in AllEdits(t, s) : e.from = o - 1 /\ e.to = Close(t, o)
<1>1. \A i : /\ Replacement(t, i).from = i /\ Replacement(t, i).to = Close(t, i) - 1
             /\ NameEdit(t, i).from = i /\ NameEdit(t, i).to = Close(t, i) - 1
             /\ Removal(t, i).from = i - 1 /\ Removal(t, i).to = Close(t, i)
  BY DEF Replacement, NameEdit, Removal
<1>2. \A x \in Changed(t, s) : x \in InHrefs(t, s) <=> ~(x \in Renamed(t))
  <2>1. TAKE x \in Changed(t, s)
  <2>2. /\ x \in InHrefs(t, s) <=> t[x][2] = "href"
        /\ x \in Renamed(t) <=> t[x][2] = "displayname"
    BY ChangedFacts
  <2> QED  BY <2>2 DEF Changed
<1>3. ASSUME NEW e \in AllEdits(t, s) PROVE EditOf(t, s, e)
  <2>1. CASE \E h \in InHrefs(t, s) \ Gone(t) : e = Replacement(t, h)
    BY <1>1, <2>1 DEF EditOf, Changed
  <2>2. CASE \E o \in Outermost(t, s) : e = Removal(t, o)
    BY <1>1, <2>2 DEF EditOf
  <2>3. CASE \E i \in Renamed(t) \ Gone(t) : e = NameEdit(t, i)
    <3>1. PICK i \in Renamed(t) \ Gone(t) : e = NameEdit(t, i)
      BY <2>3
    <3>2. i \in Changed(t, s) \ Gone(t) /\ i \notin InHrefs(t, s)
      BY <1>2 DEF Changed
    <3> QED  BY <1>1, <3>1, <3>2 DEF EditOf
  <2> QED  BY <2>1, <2>2, <2>3 DEF AllEdits
<1>4. ASSUME NEW x \in Changed(t, s) \ Gone(t)
      PROVE  \E e \in AllEdits(t, s) : e.from = x /\ e.to = Close(t, x) - 1
  <2>1. CASE x \in InHrefs(t, s)
    <3>1. Replacement(t, x) \in AllEdits(t, s)
      BY <2>1 DEF AllEdits
    <3> QED  BY <1>1, <3>1
  <2>2. CASE x \in Renamed(t)
    <3>1. NameEdit(t, x) \in AllEdits(t, s)
      BY <2>2 DEF AllEdits
    <3> QED  BY <1>1, <3>1
  <2> QED  BY <2>1, <2>2 DEF Changed
<1>5. ASSUME NEW o \in Outermost(t, s)
      PROVE  \E e \in AllEdits(t, s) : e.from = o - 1 /\ e.to = Close(t, o)
  <2>1. Removal(t, o) \in AllEdits(t, s)
    BY DEF AllEdits
  <2> QED  BY <1>1, <2>1
<1> QED  BY <1>3, <1>4, <1>5

\* Where an edit begins and ends.
LEMMA EditFacts ==
    ASSUME NEW t, NEW s, Whole(t, s), 1 \notin Marked(t, s), NEW e \in AllEdits(t, s)
    PROVE  /\ e \in Edit /\ e.from \in Nat /\ e.to \in Nat
           /\ e.from >= 1 /\ e.from <= e.to /\ e.to <= Len(t) /\ Len(t) \in Nat
<1>1. EditOf(t, s, e)
  BY EditsAre
<1>2. CASE \E x \in Changed(t, s) \ Gone(t) :
              /\ e.from = x /\ e.to = Close(t, x) - 1
              /\ e = IF x \in InHrefs(t, s) THEN Replacement(t, x) ELSE NameEdit(t, x)
  <2>1. PICK x \in Changed(t, s) \ Gone(t) :
              /\ e.from = x /\ e.to = Close(t, x) - 1
              /\ e = IF x \in InHrefs(t, s) THEN Replacement(t, x) ELSE NameEdit(t, x)
    BY <1>2
  <2>2. /\ x \in Nat /\ x \in 1..Len(t) /\ x < Close(t, x) /\ Close(t, x) \in Nat
        /\ Close(t, x) <= Len(t) /\ Len(t) \in Nat
    BY ChangedFacts
  <2>3. x \in InHrefs(t, s) => e \in Edit
    <3>1. x \in InHrefs(t, s) => Replacement(t, x) \in Edit
      BY RecordTypes, SubsetFacts DEF Whole
    <3> QED  BY <2>1, <3>1
  <2>4. NameEdit(t, x) \in Edit
    <3>1. MountName \in Seq(Token)
      <4>1. "" \in Words
        BY DEF Words
      <4> QED  BY <4>1, MappedIsTokens
    <3>2. Close(t, x) - 1 \in Nat
      BY <2>2
    <3> QED  BY <2>2, <3>1, <3>2 DEF NameEdit, Edit
  <2> QED  BY <2>1, <2>2, <2>3, <2>4
<1>3. CASE \E o \in Outermost(t, s) : e.from = o - 1 /\ e.to = Close(t, o) /\ e = Removal(t, o)
  <2>1. PICK o \in Outermost(t, s) : e.from = o - 1 /\ e.to = Close(t, o) /\ e = Removal(t, o)
    BY <1>3
  <2>2. /\ o \in Marked(t, s) /\ o \in 1..Len(t) /\ o \in Nat /\ Close(t, o) \in Nat
        /\ o <= Close(t, o) /\ Close(t, o) <= Len(t) /\ Len(t) \in Nat /\ o \in Finished(t, s)
    BY OutermostFacts
  <2>3. o # 1
    BY <2>2
  <2>4. Removal(t, o) \in Edit
    BY <2>2, RecordTypes DEF Whole
  <2> QED  BY <2>1, <2>2, <2>3, <2>4
<1> QED  BY <1>1, <1>2, <1>3 DEF EditOf

\* All edits of a unit begin at different tokens.
LEMMA EditsSpread ==
    ASSUME NEW t, NEW s, Whole(t, s), 1 \notin Marked(t, s)
    PROVE  Spread(AllEdits(t, s), Len(t))
<1>1. \A e \in AllEdits(t, s) : e \in Edit /\ e.from <= Len(t)
  <2>1. TAKE e \in AllEdits(t, s)
  <2>2. /\ e \in Edit /\ e.from \in Nat /\ e.to \in Nat
        /\ e.from <= e.to /\ e.to <= Len(t) /\ Len(t) \in Nat
    BY EditFacts
  <2> QED  BY <2>2
<1>2. ASSUME NEW x \in Changed(t, s), NEW o \in Outermost(t, s) PROVE x # o - 1
  BY NotBefore, OutermostFacts
<1>3. \A o, p \in Outermost(t, s) : o - 1 = p - 1 => o = p
  <2>1. \A o \in Outermost(t, s) : o \in Nat
    BY OutermostFacts
  <2> QED  BY <2>1
<1>4. ASSUME NEW e \in AllEdits(t, s), NEW g \in AllEdits(t, s), e.from = g.from
      PROVE  e = g
  <2>1. EditOf(t, s, e) /\ EditOf(t, s, g)
    BY EditsAre
  <2> QED  BY <1>2, <1>3, <1>4, <2>1 DEF EditOf
<1> QED  BY <1>1, <1>4 DEF Spread

\* Edits that do not overlap are apart.
LEMMA EditsApart ==
    ASSUME NEW t, NEW s, Whole(t, s), 1 \notin Marked(t, s),
           NEW edits, Orders(edits, AllEdits(t, s)), ~Overlap(edits)
    PROVE  Apart(edits, Len(t))
<1>1. /\ Len(edits) \in Nat /\ \A k \in 1..Len(edits) : edits[k] \in AllEdits(t, s)
      /\ \A i, j \in 1..Len(edits) : i < j => edits[i].from < edits[j].from
  <2>1. Len(t) \in Nat
    BY WholeElements
  <2> QED  BY <2>1, EditsSpread, OrderOnto
<1>2. \A k \in 1..Len(edits) :
         /\ edits[k] \in Edit /\ edits[k].from \in Nat /\ edits[k].to \in Nat
         /\ edits[k].from >= 1 /\ edits[k].from <= edits[k].to /\ edits[k].to <= Len(t)
  BY <1>1, EditFacts
<1>3. ASSUME NEW j \in 1..Len(edits), NEW k \in 1..Len(edits), j < k
      PROVE  edits[j].to <= edits[k].from
  <2>1. j + 1 \in 2..Len(edits) /\ j + 1 \in 1..Len(edits) /\ j + 1 - 1 = j /\ (j + 1 = k \/ j + 1 < k)
    BY <1>1, <1>3
  <2>2. ~(edits[j + 1].from < edits[j].to)
    BY <2>1 DEF Overlap
  <2>3. edits[j + 1].from \in Nat /\ edits[j].to \in Nat /\ edits[k].from \in Nat
    BY <1>2, <2>1
  <2>4. j + 1 < k => edits[j + 1].from < edits[k].from
    BY <1>1, <2>1
  <2> QED  BY <2>1, <2>2, <2>3, <2>4
<1> QED  BY <1>1, <1>2, <1>3 DEF Apart

-----------------------------------------------------------------------------
\* The promise, token by token.
Inner(t, s) == UNION {(x + 1)..(Close(t, x) - 1) : x \in Changed(t, s)}
Piece(t, s, i) ==
    IF i \in Gone(t) \cup Inner(t, s) THEN <<>>
    ELSE IF i \in InHrefs(t, s) THEN <<t[i]>> \o Mapped(TextNow(t, i))
    ELSE IF i \in Renamed(t) THEN <<t[i]>> \o MountName
    ELSE <<t[i]>>

\* The promise is a piece for each token.
LEMMA PromisedIs ==
    ASSUME NEW t, NEW s, Whole(t, s)
    PROVE  Promised(t) = IF t[1][2] = "response" /\ TopIn(t, s) = {} THEN <<>>
                         ELSE FlattenSeq([i \in 1..Len(t) |-> Piece(t, s, i)])
<1> DEFINE mapped == {i \in Hrefs(t) : ~Outside(TextOf(t, i))}
           inner == UNION {(i + 1)..(Close(t, i) - 1) : i \in mapped \cup Renamed(t)}
           P(i) == IF i \in Gone(t) \cup inner THEN <<>>
                   ELSE IF i \in mapped THEN <<t[i]>> \o Mapped(TextOf(t, i))
                   ELSE IF i \in Renamed(t) THEN <<t[i]>> \o MountName
                   ELSE <<t[i]>>
<1>1. Promised(t) = IF t[1][2] = "response" /\ \A i \in TopHrefs(t) : Outside(TextOf(t, i))
                    THEN <<>> ELSE FlattenSeq([i \in DOMAIN t |-> P(i)])
  BY DEF Promised
<1>2. mapped = InHrefs(t, s)
  BY HrefsAre
<1>3. inner = Inner(t, s)
  BY <1>2 DEF Inner, Changed
<1>4. \A i \in mapped : TextOf(t, i) = TextNow(t, i)
  BY HrefsAre
<1> HIDE DEF mapped, inner
<1>5. \A i : P(i) = Piece(t, s, i)
  BY <1>2, <1>3, <1>4 DEF Piece
<1>6. (\A i \in TopHrefs(t) : Outside(TextOf(t, i))) <=> TopIn(t, s) = {}
  <2>1. TopIn(t, s) = {h \in TopHrefs(t) : ~Outside(TextOf(t, h))}
    BY HrefsAre
  <2> QED  BY <2>1
<1>7. DOMAIN t = 1..Len(t)
  BY WholeElements
<1> HIDE DEF P
<1>8. [i \in DOMAIN t |-> P(i)] = [i \in 1..Len(t) |-> Piece(t, s, i)]
  BY <1>5, <1>7
<1> QED  BY <1>1, <1>6, <1>8

\* What the edits cover is what the promise leaves out.
LEMMA CoverIs ==
    ASSUME NEW t, NEW s, Whole(t, s), NEW i \in 1..Len(t)
    PROVE  (\E e \in AllEdits(t, s) : Covers(e, i)) <=> i \in Gone(t) \cup Inner(t, s)
<1>0. i \in Nat
  OBVIOUS
<1>1. ASSUME NEW e \in AllEdits(t, s), Covers(e, i) PROVE i \in Gone(t) \cup Inner(t, s)
  <2>1. EditOf(t, s, e) /\ e.from < i /\ i <= e.to
    BY <1>1, EditsAre DEF Covers
  <2>2. CASE \E x \in Changed(t, s) : e.from = x /\ e.to = Close(t, x) - 1
    <3>1. PICK x \in Changed(t, s) : e.from = x /\ e.to = Close(t, x) - 1
      BY <2>2
    <3>2. x \in Nat /\ Close(t, x) \in Nat
      BY ChangedFacts
    <3>3. i \in (x + 1)..(Close(t, x) - 1)
      BY <1>0, <2>1, <3>1, <3>2
    <3> QED  BY <3>3 DEF Inner
  <2>3. CASE \E o \in Outermost(t, s) : e.from = o - 1 /\ e.to = Close(t, o)
    <3>1. PICK o \in Outermost(t, s) : e.from = o - 1 /\ e.to = Close(t, o)
      BY <2>3
    <3>2. o \in Nat /\ Close(t, o) \in Nat
      BY OutermostFacts
    <3>3. i \in o..Close(t, o)
      BY <1>0, <2>1, <3>1, <3>2
    <3> QED  BY <3>3, GoneOutermost
  <2> QED  BY <2>1, <2>2, <2>3 DEF EditOf
<1>2. ASSUME i \in Gone(t) PROVE \E e \in AllEdits(t, s) : Covers(e, i)
  <2>1. PICK o \in Outermost(t, s) : i \in o..Close(t, o)
    BY <1>2, GoneOutermost
  <2>2. o \in Nat /\ Close(t, o) \in Nat
    BY OutermostFacts
  <2>3. PICK e \in AllEdits(t, s) : e.from = o - 1 /\ e.to = Close(t, o)
    BY EditsAre
  <2>4. o - 1 < i /\ i <= Close(t, o)
    BY <2>1, <2>2
  <2> QED  BY <2>3, <2>4 DEF Covers
<1>3. ASSUME i \in Inner(t, s) PROVE i \in Gone(t) \/ \E e \in AllEdits(t, s) : Covers(e, i)
  <2>1. PICK x \in Changed(t, s) : i \in (x + 1)..(Close(t, x) - 1)
    BY <1>3 DEF Inner
  <2>2. x \in Elements(t) /\ x \in Nat /\ Close(t, x) \in Nat
    BY ChangedFacts
  <2>3. x < i /\ x <= i /\ i <= Close(t, x) - 1 /\ i <= Close(t, x)
    BY <1>0, <2>1, <2>2
  <2>4. CASE x \in Gone(t)
    BY <1>0, <2>2, <2>3, <2>4, GoneInside
  <2>5. CASE x \notin Gone(t)
    <3>1. PICK e \in AllEdits(t, s) : e.from = x /\ e.to = Close(t, x) - 1
      BY <2>5, EditsAre
    <3> QED  BY <2>3, <3>1 DEF Covers
  <2> QED  BY <2>4, <2>5
<1> QED  BY <1>1, <1>2, <1>3

\* Edits that are apart replace nothing inside of one another.
LEMMA NotInside ==
    ASSUME NEW t, NEW s, Whole(t, s), NEW edits, Apart(edits, Len(t)),
           \A e \in AllEdits(t, s) : \E k \in 1..Len(edits) : edits[k] = e,
           NEW x \in Changed(t, s), x \notin Gone(t)
    PROVE  x \notin Inner(t, s)
<1> SUFFICES ASSUME NEW y \in Changed(t, s), x \in (y + 1)..(Close(t, y) - 1) PROVE FALSE
  BY DEF Inner
<1>1. /\ x \in Elements(t) /\ x \in Nat /\ Close(t, x) \in Nat /\ x < Close(t, x)
      /\ y \in Elements(t) /\ y \in Nat /\ Close(t, y) \in Nat
  BY ChangedFacts
<1>2. y < x /\ y <= x /\ x <= Close(t, y) - 1 /\ x <= Close(t, y)
  BY <1>1
<1>3. y \notin Gone(t)
  BY <1>1, <1>2, GoneInside
<1>4. PICK m \in 1..Len(edits) : edits[m].from = y /\ edits[m].to = Close(t, y) - 1
  BY <1>3, EditsAre
<1>5. PICK k \in 1..Len(edits) : edits[k].from = x /\ edits[k].to = Close(t, x) - 1
  BY EditsAre
<1>6. ~(k < m) /\ k # m /\ k \in Nat /\ m \in Nat
  <2>1. k \in Nat /\ m \in Nat
    BY DEF Apart
  <2>2. k < m => edits[k].from < edits[m].from
    BY DEF Apart
  <2> QED  BY <1>1, <1>2, <1>4, <1>5, <2>1, <2>2
<1>7. m < k
  BY <1>6
<1>8. edits[m].to <= edits[k].from
  BY <1>7 DEF Apart
<1>9. x = Close(t, y) - 1
  BY <1>1, <1>2, <1>4, <1>5, <1>8
<1>10. Close(t, x) < Close(t, y)
  BY <1>1, <1>2, WholeNested
<1> QED  BY <1>1, <1>9, <1>10

\* And these are the pieces that the edits leave.
LEMMA PiecesAre ==
    ASSUME NEW t, NEW s, Whole(t, s), NEW edits, Apart(edits, Len(t)),
           \A e \in AllEdits(t, s) : \E k \in 1..Len(edits) : edits[k] = e,
           \A k \in 1..Len(edits) : edits[k] \in AllEdits(t, s),
           NEW q, q = [i \in 1..Len(t) |-> Piece(t, s, i)]
    PROVE  Pieces(t, edits, q)
<1>0. t \in Seq(Token) /\ Len(t) \in Nat
  BY WholeElements
<1>1. \A i \in 1..Len(t) : q[i] = Piece(t, s, i)
  OBVIOUS
<1>2. ASSUME NEW i \in 1..Len(t) PROVE q[i] \in Seq(Token)
  <2>1. TextNow(t, i) \in Words
    BY <1>0, TextIsWord
  <2>2. Mapped(TextNow(t, i)) \in Seq(Token) /\ MountName \in Seq(Token)
    BY <2>1, MappedIsTokens
  <2>3. <<t[i]>> \in Seq(Token)
    <3>1. t[i] \in Token
      BY <1>0
    <3> QED  BY <3>1
  <2> DEFINE one == <<t[i]>>
  <2> HIDE DEF one
  <2>4. one \in Seq(Token) /\ one \o Mapped(TextNow(t, i)) \in Seq(Token) /\ one \o MountName \in Seq(Token)
    BY <2>2, <2>3, JoinTyped DEF one
  <2> QED  BY <1>1, <2>4, JoinTyped DEF Piece, one
<1>3. ASSUME NEW i \in 1..Len(t)
      PROVE  (\E k \in 1..Len(edits) : Covers(edits[k], i)) <=> i \in Gone(t) \cup Inner(t, s)
  <2>1. (\E e \in AllEdits(t, s) : Covers(e, i)) <=> i \in Gone(t) \cup Inner(t, s)
    BY CoverIs
  <2> QED  BY <2>1
<1>4. \A k \in 1..Len(edits), i \in 1..Len(t) : Covers(edits[k], i) => q[i] = <<>>
  BY <1>1, <1>3 DEF Piece
<1>5. \A x \in Changed(t, s) : x \notin Gone(t) => x \notin Inner(t, s)
  BY NotInside
<1>6. ASSUME NEW k \in 1..Len(edits)
      PROVE  IF \E m \in 1..Len(edits) : Covers(edits[m], edits[k].from)
             THEN edits[k].repl = <<>>
             ELSE q[edits[k].from] = <<t[edits[k].from]>> \o edits[k].repl
  <2> DEFINE e == edits[k]
             i == edits[k].from
  <2>1. EditOf(t, s, e)
    BY EditsAre
  <2>2. i \in 1..Len(t)
    BY <1>0, ApartTypes
  <2>3. CASE \E x \in Changed(t, s) \ Gone(t) :
                /\ i = x /\ e.to = Close(t, x) - 1
                /\ e = IF x \in InHrefs(t, s) THEN Replacement(t, x) ELSE NameEdit(t, x)
    <3>1. /\ i \in Changed(t, s) /\ i \notin Gone(t)
          /\ e = IF i \in InHrefs(t, s) THEN Replacement(t, i) ELSE NameEdit(t, i)
      BY <2>3
    <3>2. i \notin Inner(t, s)
      BY <1>5, <3>1
    <3>3. ~ \E m \in 1..Len(edits) : Covers(edits[m], i)
      BY <1>3, <2>2, <3>1, <3>2
    <3>4. e.repl = IF i \in InHrefs(t, s) THEN Mapped(TextNow(t, i)) ELSE MountName
      <4>1. Replacement(t, i).repl = Mapped(TextNow(t, i)) /\ NameEdit(t, i).repl = MountName
        BY DEF Replacement, NameEdit
      <4> QED  BY <3>1, <4>1
    <3>5. q[i] = <<t[i]>> \o e.repl
      <4>1. i \notin InHrefs(t, s) => i \in Renamed(t)
        BY <3>1 DEF Changed
      <4>2. q[i] = Piece(t, s, i)
        BY <1>1, <2>2
      <4> HIDE DEF i, e
      <4> QED  BY <3>1, <3>2, <3>4, <4>1, <4>2 DEF Piece
    <3> QED  BY <3>3, <3>5
  <2>4. CASE \E o \in Outermost(t, s) : i = o - 1 /\ e.to = Close(t, o) /\ e = Removal(t, o)
    <3>1. PICK o \in Outermost(t, s) : i = o - 1 /\ e = Removal(t, o)
      BY <2>4
    <3>2. e.repl = <<>>
      BY <3>1 DEF Removal
    <3>3. i \notin Changed(t, s)
      BY <3>1, NotBefore, OutermostFacts
    <3>4. ASSUME ~ \E m \in 1..Len(edits) : Covers(edits[m], i)
          PROVE  q[i] = <<t[i]>> \o <<>>
      <4>1. i \notin Gone(t) \cup Inner(t, s)
        BY <1>3, <2>2, <3>4
      <4>2. q[i] = <<t[i]>>
        BY <1>1, <2>2, <3>3, <4>1 DEF Piece, Changed
      <4>3. t[i] \in Token
        BY <1>0, <2>2
      <4> HIDE DEF i
      <4>4. <<t[i]>> \in Seq(Token)
        BY <4>3
      <4>5. <<t[i]>> \o <<>> = <<t[i]>>
        BY <4>4, ConcatEmptySeq
      <4> QED  BY <4>2, <4>5
    <3> QED  BY <3>2, <3>4
  <2> QED  BY <2>1, <2>3, <2>4 DEF EditOf
<1>7. ASSUME NEW i \in 1..Len(t), \A k \in 1..Len(edits) : ~Covers(edits[k], i) /\ edits[k].from # i
      PROVE  q[i] = <<t[i]>>
  <2>1. i \notin Gone(t) \cup Inner(t, s)
    BY <1>3, <1>7
  <2>2. i \notin Changed(t, s)
    <3>1. ASSUME i \in Changed(t, s) PROVE FALSE
      <4>1. \E e \in AllEdits(t, s) : e.from = i
        BY <2>1, <3>1, EditsAre
      <4> QED  BY <1>7, <4>1
    <3> QED  BY <3>1
  <2> QED  BY <1>1, <2>1, <2>2 DEF Piece, Changed
<1> QED  BY <1>2, <1>4, <1>6, <1>7 DEF Pieces

\* Without overlaps, what Splice writes is what is promised.
LEMMA SplicedAsPromised ==
    ASSUME NEW t, NEW s, Whole(t, s), 1 \notin Marked(t, s), NEW u, Tops(t, s, u), NEW cuts,
           Listed(t, cuts, s, Dropped(t, s), u.edits, u.displayNames), ~Overlap(SortedEdits(u))
    PROVE  Splice(t, SortedEdits(u)) = FlattenSeq([i \in 1..Len(t) |-> Piece(t, s, i)])
<1> DEFINE edits == SortedEdits(u)
           q == [i \in 1..Len(t) |-> Piece(t, s, i)]
<1>1. t \in Seq(Token) /\ Len(t) \in Nat /\ Len(t) >= 1
  BY WholeElements
<1>2. Spread(AllEdits(t, s), Len(t))
  BY EditsSpread
<1>3. Orders(edits, AllEdits(t, s))
  <2>1. AllEdits(t, s) = ToSet(u.edits) \cup nameEdits(u)
    BY AllEditsAre
  <2> QED  BY <1>1, <1>2, <2>1, SortedEditsOrder
<1> HIDE DEF edits
<1>4. Apart(edits, Len(t))
  BY <1>3, EditsApart DEF edits
<1>5. /\ \A k \in 1..Len(edits) : edits[k] \in AllEdits(t, s)
      /\ \A e \in AllEdits(t, s) : \E k \in 1..Len(edits) : edits[k] = e
  BY <1>1, <1>2, <1>3, OrderOnto
<1>6. Pieces(t, edits, q)
  BY <1>4, <1>5, PiecesAre
<1>7. Len(q) = Len(t)
  BY <1>1
<1> HIDE DEF q
<1>8. Splice(t, edits) = FlattenSeq(q)
  BY <1>1, <1>4, <1>6, <1>7, SpliceJoins
<1> QED  BY <1>8 DEF edits, q

\* A unit that is removed leaves nothing.
LEMMA RemovedAsPromised ==
    ASSUME NEW t, NEW s, Whole(t, s), 1 \in Marked(t, s), Close(t, 1) = Len(t)
    PROVE  Promised(t) = <<>>
<1> DEFINE q == [i \in 1..Len(t) |-> Piece(t, s, i)]
           n == Len(t)
<1>1. n \in Nat /\ n >= 1
  BY WholeElements
<1>2. \A i \in 1..n : i \in Gone(t)
  BY GoneIs
<1>3. \A i \in 1..n : q[i] = <<>>
  BY <1>2 DEF Piece
<1>4. Len(q) = n
  BY <1>1
<1> HIDE DEF q, n
<1>5. PICK f : Joins(f, q, n) /\ FlattenSeq(q) = f[n]
  <2>1. \A k \in 1..Len(q) : q[k] \in Seq(Token)
    BY <1>3, <1>4, JoinTyped
  <2> QED  BY <1>1, <1>4, <2>1, FlattenIs
<1>6. f[n] = f[0]
  <2>1. 0 \in 0..n /\ n \in 0..n /\ \A i \in (0 + 1)..n : q[i] = <<>>
    BY <1>1, <1>3
  <2> QED  BY <1>1, <1>5, <2>1, EmptyRun
<1>7. FlattenSeq(q) = <<>>
  BY <1>5, <1>6 DEF Joins
<1> QED  BY <1>7, PromisedIs DEF q

\* The last element of a unit ends.
LEMMA UnitEnds ==
    ASSUME NEW b, NEW st, NEW u, UnitInv(b, st, u), NEW path, Len(path) = Len(st),
           Last(path) = st[Len(st)].name, Len(st) = depthUnit,
           NEW c, NEW ms, Popped(b, st, c, ms),
           NEW u1, u1 = AfterEnd(u, path, Len(st), Len(b)), NEW s, s = Front(ms)
    PROVE  /\ Whole(c, s) /\ Tops(c, s, u1)
           /\ Listed(c, st, s, Dropped(b, st), u1.edits, u1.displayNames)
           /\ u1.isResponse <=> c[1][2] = "response"
           /\ Last(ms).remove <=> 1 \in Marked(c, s)
           /\ Close(c, 1) = Len(c)
           /\ 1 \notin Marked(c, s) => Dropped(b, st) = Dropped(c, s)
<1>0. Pop(b, st, c, s) /\ Shape(b, st) /\ Grammar(b, st)
  BY DEF Popped, UnitInv
<1>1. EndFields(b, st, u, c, s, u1)
  BY <1>0, EndsFields
<1>2. Listed(c, st, s, Dropped(b, st), u1.edits, u1.displayNames) /\ Tops(c, s, u1)
  BY <1>0, <1>1, EndListed, EndTops
<1>3. Len(s) = 1
  <2>1. Len(s) = Len(st) - 1
    BY <1>0 DEF Pop
  <2> QED  BY <2>1 DEF depthUnit
<1>4. Whole(c, s)
  BY <1>0, <1>3, PopShape, PopGrammar DEF Whole
<1>5. At(st, 2) = 1 /\ Len(st) = 2 /\ 2 \in depthUnit..Len(st)
  <2>1. At(st, 2) = 1 /\ 2 \in depthUnit..Len(st)
    BY <1>0, UnitFirst DEF UnitInv
  <2> QED  BY <2>1 DEF depthUnit
<1>6. Last(ms).remove <=> 1 \in Marked(c, s)
  <2>1. ms[2].remove <=> 1 \in Marked(c, s)
    BY <1>5 DEF Popped
  <2>2. Last(ms) = ms[2]
    BY <1>5 DEF Popped
  <2> QED  BY <2>1, <2>2, Zenon
<1>7. Close(c, 1) = Len(c)
  <2>1. Close(c, At(st, Len(st))) = Len(c)
    BY <1>0, PopCloses
  <2> QED  BY <1>5, <2>1
<1>8. u1.isResponse <=> c[1][2] = "response"
  <2>1. u1.isResponse <=> b[1][2] = "response"
    BY <1>1 DEF EndFields, UnitInv, Reading
  <2>2. c[1] = b[1]
    <3>1. Extends(b, c) /\ 1 \in 1..Len(b)
      <4>1. Len(b) \in Nat /\ Len(b) >= 1
        BY <1>0 DEF Shape, Typed
      <4> QED  BY <1>0, <4>1, PopFacts
    <3> QED  BY <3>1 DEF Extends
  <2> QED  BY <2>1, <2>2
<1>9. 1 \notin Marked(c, s) => Dropped(b, st) = Dropped(c, s)
  <2> DEFINE i0 == At(st, Len(st))
  <2>1. Dropped(c, s) = Dropped(b, st) \cup (IF i0 \in Marked(c, s) THEN {i0} ELSE {})
    BY <1>0, PopSets
  <2>2. i0 = 1
    BY <1>5
  <2> QED  BY <2>1, <2>2
<1> QED  BY <1>2, <1>4, <1>6, <1>7, <1>8, <1>9

\* endUnit writes what is promised, or panics.
LEMMA EndUnitAsPromised ==
    ASSUME NEW t, NEW s, Whole(t, s), NEW u, Tops(t, s, u), NEW removed,
           u.isResponse <=> t[1][2] = "response", removed <=> 1 \in Marked(t, s),
           Close(t, 1) = Len(t), NEW cuts,
           1 \notin Marked(t, s) => Listed(t, cuts, s, Dropped(t, s), u.edits, u.displayNames),
           EndUnit(u, t, removed)
    PROVE  output' = Promised(t) \/ result' = "panic"
<1>1. Promised(t) = IF t[1][2] = "response" /\ TopIn(t, s) = {} THEN <<>>
                    ELSE FlattenSeq([i \in 1..Len(t) |-> Piece(t, s, i)])
  BY PromisedIs
<1>2. u.topMapped <=> TopIn(t, s) # {}
  BY DEF Tops
<1>3. CASE 1 \in Marked(t, s)
  <2>1. Promised(t) = <<>>
    BY <1>3, RemovedAsPromised
  <2>2. output' = <<>>
    BY <1>3 DEF EndUnit
  <2> QED  BY <2>1, <2>2
<1>4. CASE 1 \notin Marked(t, s) /\ u.isResponse /\ ~u.topMapped
  <2>1. output' = <<>>
    BY <1>4 DEF EndUnit
  <2> QED  BY <1>1, <1>2, <1>4, <2>1
<1>5. CASE 1 \notin Marked(t, s) /\ ~(u.isResponse /\ ~u.topMapped)
  <2>1. ~removed
    BY <1>5
  <2>2. IF Overlap(SortedEdits(u)) THEN result' = "panic"
        ELSE output' = Splice(t, SortedEdits(u))
    BY <1>5, <2>1 DEF EndUnit
  <2>3. ~Overlap(SortedEdits(u)) =>
           Splice(t, SortedEdits(u)) = FlattenSeq([i \in 1..Len(t) |-> Piece(t, s, i)])
    BY <1>5, SplicedAsPromised
  <2>4. Promised(t) = FlattenSeq([i \in 1..Len(t) |-> Piece(t, s, i)])
    BY <1>1, <1>2, <1>5
  <2> QED  BY <2>2, <2>3, <2>4
<1> QED  BY <1>3, <1>4, <1>5

\* And so does endElement.
LEMMA EndElementAsPromised == Known /\ EndElement /\ RewrittenAsPromised => RewrittenAsPromised'
<1> SUFFICES ASSUME Known, EndElement, RewrittenAsPromised PROVE RewrittenAsPromised'
  OBVIOUS
<1> DEFINE b == buf
           st == stack
           u == unit
           path == Path
           ms == EndStack(b, st, u, path)
           c == EndBytes(b, st)
           u1 == AfterEnd(u, path, Len(st), Len(b))
           s == Front(ms)
<1>1. Len(stack) >= depthUnit /\ UnitInv(b, st, u) /\ EndStep(ms, c, u1)
  BY EndElementIs
<1>2. /\ Len(path) = Len(st) /\ Last(path) = st[Len(st)].name
      /\ \A d \in 1..Len(st) : path[d] = st[d].name
  BY <1>1, PathIs DEF Known
<1>3. Popped(b, st, c, ms)
  <2>1. c = IF Waiting(b, st) THEN b ELSE Append(b, <<"end", st[Len(st)].name>>)
    BY DEF EndBytes
  <2> HIDE DEF b, st, u, path, c, ms
  <2> QED  BY <1>1, <1>2, <2>1, EndPops DEF ms
<1>4. CASE Len(stack) = depthUnit
  <2>1. EndUnit(u1, c, Last(ms).remove) /\ input' = c
    BY <1>1, <1>4 DEF EndStep
  <2> HIDE DEF b, u, path, ms, c, u1, s
  <2>2. /\ Whole(c, s) /\ Tops(c, s, u1)
        /\ Listed(c, st, s, Dropped(b, st), u1.edits, u1.displayNames)
        /\ u1.isResponse <=> c[1][2] = "response"
        /\ Last(ms).remove <=> 1 \in Marked(c, s)
        /\ Close(c, 1) = Len(c)
        /\ 1 \notin Marked(c, s) => Dropped(b, st) = Dropped(c, s)
    BY <1>1, <1>2, <1>3, <1>4, UnitEnds DEF u1, s
  <2>3. output' = Promised(c) \/ result' = "panic"
    <3> DEFINE removed == Last(ms).remove
    <3>1. removed <=> 1 \in Marked(c, s)
      BY <2>2
    <3>2. EndUnit(u1, c, removed)
      BY <2>1
    <3>3. 1 \notin Marked(c, s) => Listed(c, st, s, Dropped(c, s), u1.edits, u1.displayNames)
      BY <2>2
    <3> HIDE DEF removed, st
    <3> QED  BY <2>2, <3>1, <3>2, <3>3, EndUnitAsPromised
  <2> QED  BY <2>1, <2>3 DEF RewrittenAsPromised
<1>5. CASE Len(stack) # depthUnit
  <2>1. UNCHANGED <<result, input, output>>
    BY <1>1, <1>5 DEF EndStep
  <2> QED  BY <2>1 DEF RewrittenAsPromised
<1> QED  BY <1>4, <1>5

\* What is written of a unit is what is promised, in every state.
LEMMA PromiseKept == Known /\ RewrittenAsPromised /\ [Next]_vars => RewrittenAsPromised'
<1> SUFFICES ASSUME Known, RewrittenAsPromised, [Next]_vars PROVE RewrittenAsPromised'
  OBVIOUS
<1>1. ASSUME Fail PROVE RewrittenAsPromised'
  BY <1>1 DEF Fail, RewrittenAsPromised
<1>2. CASE TooLarge
  BY <1>1, <1>2 DEF TooLarge
<1>3. CASE DecoderFails
  BY <1>1, <1>3 DEF DecoderFails
<1>4. ASSUME NEW r, Return(r), result = "running" PROVE RewrittenAsPromised'
  BY <1>4 DEF Return, RewrittenAsPromised
<1>5. CASE EndOfInput
  BY <1>1, <1>4, <1>5 DEF EndOfInput, MayRead
<1>6. CASE StrayText
  BY <1>1, <1>6 DEF StrayText
<1>7. CASE StartRoot
  <2>1. Fail \/ UNCHANGED <<result, input, output>>
    BY <1>7 DEF StartRoot
  <2> QED  BY <1>1, <2>1 DEF RewrittenAsPromised
<1>8. CASE StartUnit
  BY <1>8 DEF StartUnit, RewrittenAsPromised
<1>9. CASE StartElement
  BY <1>9 DEF StartElement, RewrittenAsPromised
<1>10. CASE CharData
  BY <1>10 DEF CharData, RewrittenAsPromised
<1>11. CASE EndElement
  BY <1>11, EndElementAsPromised
<1>12. CASE EndRoot
  BY <1>12 DEF EndRoot, RewrittenAsPromised
<1>13. CASE Done
  BY <1>13 DEF Done, vars, RewrittenAsPromised
<1>14. CASE UNCHANGED vars
  BY <1>14 DEF vars, RewrittenAsPromised
<1> QED
  BY <1>2, <1>3, <1>5, <1>6, <1>7, <1>8, <1>9, <1>10, <1>11, <1>12, <1>13, <1>14 DEF Next

(* While it reads a child of the root, the rewriter keeps exactly what was   *)
(* read of it: the elements that are open, the edits for the hrefs and       *)
(* removals in those that have ended, and the displaynames with their        *)
(* status; and between two children it keeps nothing.                        *)
THEOREM RecordedAsRead == Spec => []Known
<1>1. Init => Known
  BY KnownInit
<1>2. Known /\ [Next]_vars => Known'
  BY KnownNext
<1> QED  BY <1>1, <1>2, PTL DEF Spec

(* What RewriteMultistatus writes for each child of the root is what its     *)
(* comment promises, for any sequence of elements and texts: hrefs inside of *)
(* the mount are mapped, those outside of it are gone with the smallest      *)
(* optional structure around them, the mount's own displayname is replaced,  *)
(* and everything else is written as it was read.                            *)
THEOREM RewritesAsPromised == Spec => []RewrittenAsPromised
<1>1. Init => RewrittenAsPromised
  BY DEF Init, RewrittenAsPromised
<1>2. Known /\ RewrittenAsPromised /\ [Next]_vars => RewrittenAsPromised'
  BY PromiseKept
<1> QED  BY <1>1, <1>2, RecordedAsRead, PTL DEF Spec

-----------------------------------------------------------------------------
\* No two edits of a unit overlap unless a displayname contains elements.

\* No element is inside of an href or a displayname.
Bare(b) ==
    \A i \in Elements(b) : \A d \in depthUnit..(Depth(b, i) - 1) :
        b[Above(b, i, d)][2] \notin {"href", "displayname"}

\* The elements that were read before stay as they are.
LEMMA BareSame ==
    ASSUME NEW b, NEW st, NEW c, Shape(b, st), Bare(b), Extends(b, c),
           NEW i \in Elements(b), NEW d \in depthUnit..(Depth(c, i) - 1)
    PROVE  c[Above(c, i, d)][2] \notin {"href", "displayname"}
<1>1. b \in Seq(Token) /\ i \in 1..Len(b)
  BY ElementsAre DEF Shape, Typed
<1>2. Depth(c, i) = Depth(b, i) /\ Depth(b, i) \in Int
  BY <1>1, DepthSame, DepthIs
<1>3. Above(c, i, d) = Above(b, i, d)
  BY Stable
<1>4. d \in depthUnit..Depth(b, i) /\ d \in depthUnit..(Depth(b, i) - 1)
  BY <1>2 DEF depthUnit
<1>5. Above(b, i, d) \in 1..Len(b)
  BY <1>4, AboveFacts
<1>6. c[Above(b, i, d)] = b[Above(b, i, d)]
  BY <1>5 DEF Extends
<1> QED  BY <1>3, <1>4, <1>6 DEF Bare

\* So do text and the end of an element leave it.
LEMMA ExtendedBare ==
    ASSUME NEW b, NEW st, NEW c, Shape(b, st), Bare(b), Extends(b, c), Elements(c) = Elements(b)
    PROVE  Bare(c)
BY BareSame DEF Bare

\* The elements that are open are around the one on top.
LEMMA OpenBare ==
    ASSUME NEW b, NEW st, Shape(b, st), Bare(b), NEW d \in depthUnit..Len(st), d # Len(st)
    PROVE  st[d].name \notin {"href", "displayname"}
<1> DEFINE top == At(st, Len(st))
<1>1. Len(st) \in Nat /\ d \in Nat /\ d >= 2 /\ d < Len(st) /\ Len(st) \in depthUnit..Len(st)
  BY Lengths DEF Shape, depthUnit
<1>2. top \in Elements(b) /\ Depth(b, top) = Len(st)
  BY <1>1, TopElement DEF depthUnit
<1>3. At(st, d) < top /\ At(st, d) \in Nat /\ top \in Nat
  BY <1>1, OpenOrder, Lengths DEF Shape
<1> HIDE DEF top
<1>4. Above(b, top, d) = At(st, d)
  BY <1>2, <1>3, AboveOpen
<1>5. d \in depthUnit..(Depth(b, top) - 1)
  BY <1>1, <1>2 DEF depthUnit
<1>6. b[At(st, d)][2] = st[d].name
  BY DEF Shape, OpenShape
<1> QED  BY <1>2, <1>4, <1>5, <1>6 DEF Bare

\* So does the start of one, where nothing is read inside of these.
LEMMA PushBare ==
    ASSUME NEW b, NEW st, NEW c, NEW st2, Shape(b, st), Push(b, st, c, st2), Bare(b),
           st[Len(st)].name \notin {"href", "displayname"}
    PROVE  Bare(c)
<1> DEFINE n == Len(b) + 1
<1>1. /\ Extends(b, c) /\ Elements(c) = Elements(b) \cup {n} /\ Depth(c, n) = Len(st) + 1
      /\ At(st2, Len(st) + 1) = n /\ Len(st2) = Len(st) + 1 /\ \A d \in 1..Len(st) : st2[d] = st[d]
  BY PushFacts
<1>2. Shape(c, st2)
  BY PushShape
<1>3. Len(st) \in Nat /\ Len(b) \in Nat /\ n \in Nat
  BY Lengths DEF Shape
<1> HIDE DEF n
<1>4. ASSUME NEW d \in depthUnit..Len(st)
      PROVE  c[Above(c, n, d)][2] \notin {"href", "displayname"}
  <2>1. /\ d \in 1..Len(st) /\ d \in depthUnit..Len(st2) /\ Len(st) + 1 \in depthUnit..Len(st2)
        /\ d < Len(st) + 1
    BY <1>1, <1>3 DEF depthUnit
  <2>2. At(st2, d) < n
    BY <1>1, <1>2, <2>1, OpenOrder DEF Shape
  <2>3. At(st2, d) \in Nat
    BY <1>2, <2>1, Lengths DEF Shape
  <2>4. Above(c, n, d) = At(st2, d)
    BY <1>1, <1>2, <1>3, <2>1, <2>2, <2>3, AboveOpen
  <2>5. c[At(st2, d)][2] = st2[d].name
    BY <1>2, <2>1 DEF Shape, OpenShape
  <2>6. st[d].name \notin {"href", "displayname"}
    BY OpenBare
  <2> QED  BY <1>1, <2>1, <2>4, <2>5, <2>6
<1>5. Len(st) + 1 - 1 = Len(st)
  BY <1>3
<1> QED  BY <1>1, <1>4, <1>5, BareSame DEF Bare

\* Without elements in displaynames, nothing is read below one.
LEMMA NothingBelow ==
    ASSUME ~NestedNames, NEW b, NEW st, Shape(b, st), Grammar(b, st), Len(st) >= depthUnit,
           NEW name \in Content([d \in 1..Len(st) |-> st[d].name])
    PROVE  st[Len(st)].name \notin {"href", "displayname"}
<1> DEFINE p == [d \in 1..Len(st) |-> st[d].name]
           l == Len(st)
<1>1. l \in Nat /\ l >= 2 /\ Len(p) = l /\ p[l] = st[l].name
  BY Lengths DEF Shape, depthUnit
<1>2. st[l].name # "href"
  <2> DEFINE c == <<<<"start", name>>>>
  <2>1. c[Len(c)][1] = "empty" => name = "displayname"
    OBVIOUS
  <2> HIDE DEF c
  <2>2. Allowed(st, c, name)
    BY <2>1, ContentAllowed
  <2> QED  BY <2>2 DEF Allowed
<1>3. ASSUME st[l].name = "displayname" PROVE FALSE
  <2>1. l = 5
    <3>1. l \in depthUnit..Len(st)
      BY <1>1 DEF depthUnit
    <3> QED  BY <1>3, <3>1 DEF Grammar, StackBelow, depthProperty
  <2>2. p[5] = "displayname" /\ Len(p) = 5
    BY <1>1, <1>3, <2>1
  <2>3. name \in Content(p)
    OBVIOUS
  <2> HIDE DEF p
  <2> QED  BY <2>2, <2>3 DEF Content
<1> QED  BY <1>2, <1>3

\* An element that is inside of another is deeper.
LEMMA InsideDeeper ==
    ASSUME NEW t, NEW s, Whole(t, s), NEW a \in Elements(t), NEW i \in Elements(t),
           a < i, i <= Close(t, a)
    PROVE  Depth(t, a) \in Int /\ Depth(t, a) >= 2 /\ Depth(t, i) \in Int /\ Depth(t, a) < Depth(t, i)
<1> DEFINE da == Depth(t, a)
           di == Depth(t, i)
<1>1. /\ a \in 1..Len(t) /\ i \in 1..Len(t) /\ a \in Nat /\ i \in Nat
      /\ Close(t, a) \in Nat /\ t \in Seq(Token) /\ \A x \in Elements(t) : x \notin Open(s)
  BY WholeElements
<1>2. da \in Int /\ di \in Int /\ da >= 2 /\ di >= 2
  <2>1. da \in Int /\ di \in Int
    BY <1>1, DepthIs
  <2> QED  BY <2>1 DEF Whole, Shape, Ancestors, depthUnit
<1>3. ASSUME di <= da PROVE FALSE
  <2> DEFINE x == Above(t, a, di)
  <2>1. di \in depthUnit..da
    BY <1>2, <1>3 DEF depthUnit
  <2>2. /\ x \in Elements(t) /\ x <= a /\ Depth(t, x) = di /\ x \in 1..Len(t)
        /\ x \in Open(s) \/ a <= Close(t, x)
    BY <2>1, AboveFacts DEF Whole
  <2>3. x \in Nat /\ Close(t, x) \in Nat /\ x < i /\ a <= Close(t, x)
    BY <1>1, <2>2, WholeElements
  <2> HIDE DEF x
  <2>4. Close(t, x) < i
    BY <2>2, <2>3 DEF Whole, Shape, Laminar
  <2>5. x # a
    BY <1>1, <2>3, <2>4
  <2>6. Close(t, a) < Close(t, x)
    <3>1. x < a
      BY <1>1, <2>2, <2>3, <2>5
    <3> QED  BY <2>2, <2>3, <3>1, WholeNested
  <2> QED  BY <1>1, <2>3, <2>4, <2>6
<1> HIDE DEF da, di
<1>4. da < di
  BY <1>2, <1>3
<1> QED  BY <1>2, <1>4 DEF da, di

\* Nothing is inside of what is mapped or renamed.
LEMMA ChangedBare ==
    ASSUME NEW t, NEW s, Whole(t, s), Bare(t), NEW x \in Changed(t, s), NEW i \in Elements(t), x < i
    PROVE  Close(t, x) < i
<1>1. /\ x \in Elements(t) /\ Close(t, x) \in Nat /\ x \in Nat /\ t[x][2] \in {"href", "displayname"}
  BY ChangedFacts DEF Changed
<1>2. i \in Nat /\ x \notin Open(s)
  BY WholeElements
<1>3. ASSUME i <= Close(t, x) PROVE FALSE
  <2>1. Depth(t, x) \in Int /\ Depth(t, x) >= 2 /\ Depth(t, i) \in Int /\ Depth(t, x) < Depth(t, i)
    BY <1>1, <1>3, InsideDeeper
  <2>2. Depth(t, x) \in depthUnit..(Depth(t, i) - 1)
    BY <2>1 DEF depthUnit
  <2>3. Above(t, i, Depth(t, x)) = x
    BY <1>1, <1>2, <1>3, AboveOnly DEF Whole
  <2> QED  BY <1>1, <2>2, <2>3 DEF Bare
<1> QED  BY <1>1, <1>2, <1>3

\* So an edit ends before the next begins.
LEMMA EditsBare ==
    ASSUME NEW t, NEW s, Whole(t, s), 1 \notin Marked(t, s), Bare(t),
           NEW e \in AllEdits(t, s), NEW g \in AllEdits(t, s), e.from < g.from
    PROVE  ~(g.from < e.to)
<1>1. EditOf(t, s, e) /\ EditOf(t, s, g)
  BY EditsAre
<1>2. ASSUME NEW x \in Changed(t, s), e.from = x, e.to = Close(t, x) - 1
      PROVE  ~(g.from < e.to)
  <2>1. x \in Nat /\ Close(t, x) \in Nat
    BY ChangedFacts
  <2>2. ASSUME NEW y \in Changed(t, s), g.from = y PROVE ~(g.from < e.to)
    <3>1. y \in Elements(t) /\ y \in Nat
      BY ChangedFacts
    <3>2. Close(t, x) < y
      BY <1>2, <2>2, <3>1, ChangedBare
    <3> QED  BY <1>2, <2>1, <2>2, <3>1, <3>2
  <2>3. ASSUME NEW o \in Outermost(t, s), g.from = o - 1 PROVE ~(g.from < e.to)
    <3>1. o \in Elements(t) /\ o \in Nat
      BY OutermostFacts
    <3>2. x < o
      BY <1>2, <2>1, <2>3, <3>1
    <3>3. Close(t, x) < o
      BY <3>1, <3>2, ChangedBare
    <3> QED  BY <1>2, <2>1, <2>3, <3>1, <3>3
  <2> QED  BY <1>1, <2>2, <2>3 DEF EditOf
<1>3. ASSUME NEW o \in Outermost(t, s), e.from = o - 1, e.to = Close(t, o)
      PROVE  ~(g.from < e.to)
  <2>1. o \in Nat /\ Close(t, o) \in Nat /\ o \in Dropped(t, s)
    <3>1. o \in Nat /\ Close(t, o) \in Nat
      BY OutermostFacts
    <3> QED  BY <3>1 DEF Outermost, Kept
  <2>2. ASSUME NEW y \in Changed(t, s) \ Gone(t), g.from = y PROVE ~(g.from < e.to)
    <3>1. y \in Nat
      BY ChangedFacts
    <3>2. y \notin o..Close(t, o)
      BY GoneOutermost
    <3> QED  BY <1>3, <2>1, <2>2, <3>1, <3>2
  <2>3. ASSUME NEW p \in Outermost(t, s), g.from = p - 1 PROVE ~(g.from < e.to)
    <3>1. p \in Nat
      BY OutermostFacts
    <3>2. p # o /\ o <= p
      BY <1>3, <2>1, <2>3, <3>1
    <3>3. ~(p <= Close(t, o))
      BY <2>1, <3>2 DEF Outermost, Kept, FreeOf
    <3> QED  BY <1>3, <2>1, <2>3, <3>1, <3>3
  <2> QED  BY <1>1, <2>2, <2>3 DEF EditOf
<1> QED  BY <1>1, <1>2, <1>3 DEF EditOf

\* So what endUnit slices has no negative length.
LEMMA BareApart ==
    ASSUME NEW t, NEW s, Whole(t, s), 1 \notin Marked(t, s), Bare(t), NEW u, Tops(t, s, u), NEW cuts,
           Listed(t, cuts, s, Dropped(t, s), u.edits, u.displayNames)
    PROVE  ~Overlap(SortedEdits(u))
<1> DEFINE edits == SortedEdits(u)
<1>1. Len(t) \in Nat /\ Spread(AllEdits(t, s), Len(t))
  BY WholeElements, EditsSpread
<1>2. Orders(edits, AllEdits(t, s))
  <2>1. AllEdits(t, s) = ToSet(u.edits) \cup nameEdits(u)
    BY AllEditsAre
  <2> QED  BY <1>1, <2>1, SortedEditsOrder
<1> HIDE DEF edits
<1>3. /\ Len(edits) \in Nat /\ \A k \in 1..Len(edits) : edits[k] \in AllEdits(t, s)
      /\ \A i, j \in 1..Len(edits) : i < j => edits[i].from < edits[j].from
  BY <1>1, <1>2, OrderOnto
<1>4. ASSUME NEW i \in 2..Len(edits) PROVE ~(edits[i].from < edits[i - 1].to)
  <2>1. i \in 1..Len(edits) /\ i - 1 \in 1..Len(edits) /\ i - 1 < i
    BY <1>3
  <2>2. edits[i - 1].from < edits[i].from
    BY <1>3, <2>1
  <2> QED  BY <1>3, <2>1, <2>2, EditsBare
<1> QED  BY <1>4 DEF Overlap, edits

\* At first, and with the first token of a unit.
LEMMA EmptyBare == Bare(<<>>)
BY DEF Bare, Elements

LEMMA FirstBare ==
    ASSUME NEW b, NEW st, Shape(b, st), Grammar(b, st), Len(b) = 1
    PROVE  Bare(b)
<1>1. \A i \in Elements(b) : i = 1
  <2>1. \A i \in Elements(b) : i \in 1..1
    BY ElementsAre DEF Shape, Typed
  <2> QED  BY <2>1
<1>2. \A i \in Elements(b) : Depth(b, i) = 2
  BY <1>1 DEF Grammar, BelowUnit, depthUnit
<1>3. \A d \in depthUnit..(2 - 1) : FALSE
  BY DEF depthUnit
<1> QED  BY <1>2, <1>3 DEF Bare

\* Without elements in displaynames, what is read stays bare, and no unit panics.
Calm == Bare(buf) /\ NeverPanics

\* The start of a child of the root.
LEMMA CalmStartUnit == Known /\ Calm /\ StartUnit => Calm'
<1> SUFFICES ASSUME Known, Calm, StartUnit PROVE Calm'
  OBVIOUS
<1>1. PICK name : stack' = Append(stack, Opened(name, 0)) /\ buf' = <<<<"start", name>>>>
  BY DEF StartUnit
<1>2. Known' /\ result' = result
  BY KnownStartUnit DEF StartUnit
<1>3. Len(stack') >= depthUnit
  <2>1. stack \in Seq(Entry) /\ Len(stack) = 1
    BY DEF Known, StartUnit
  <2>2. IsSeq(stack)
    BY <2>1 DEF IsSeq
  <2>3. Len(stack') = Len(stack) + 1
    BY <1>1, <2>2, AppendIsSeq
  <2> QED  BY <2>1, <2>3 DEF depthUnit
<1>4. Shape(buf', stack') /\ Grammar(buf', stack')
  BY <1>2, <1>3 DEF Known, UnitInv
<1>5. Len(buf') = 1
  BY <1>1
<1> QED  BY <1>2, <1>4, <1>5, FirstBare DEF Calm, NeverPanics

\* The start of an element below it.
LEMMA CalmStartElement == ~NestedNames /\ Known /\ Calm /\ StartElement => Calm'
<1> SUFFICES ASSUME ~NestedNames, Known, Calm, StartElement PROVE Calm'
  OBVIOUS
<1>1. PICK name \in Content(Path), kind \in {"start", "empty"} :
          /\ kind = "empty" => name = "displayname"
          /\ stack' = Append(stack, Opened(name, Len(buf)))
          /\ buf' = Append(buf, <<kind, name>>)
  BY DEF StartElement
<1>2. UnitInv(buf, stack, unit) /\ Len(stack) >= depthUnit /\ result' = result
  BY DEF Known, StartElement
<1>3. Shape(buf, stack) /\ Grammar(buf, stack) /\ unit \in UnitType
  BY <1>2 DEF UnitInv
<1>4. name \in Content([d \in 1..Len(stack) |-> stack[d].name])
  BY <1>1 DEF Path
<1>5. stack[Len(stack)].name \notin {"href", "displayname"}
  BY <1>2, <1>3, <1>4, NothingBelow
<1>6. Push(buf, stack, buf', stack')
  <2>1. ~Waiting(buf, stack)
    BY <1>3, SelfClosedIs DEF StartElement, MayRead, Shape
  <2> DEFINE e == Opened(name, Len(buf))
             c == <<<<"start", name>>>>
  <2>2. c[Len(c)][1] = "empty" => name = "displayname"
    OBVIOUS
  <2>3. stack' = Append(stack, e)
    BY <1>1
  <2> HIDE DEF c
  <2>4. name \in Names
    BY <1>2, <1>3, <1>4, <2>2, ContentAllowed
  <2>5. e \in Entry /\ e.name = name /\ e.start = Len(buf)
    BY <1>3, <2>4, OpenedIs, Lengths DEF Shape
  <2> HIDE DEF e
  <2> QED  BY <1>1, <1>2, <2>1, <2>3, <2>5 DEF Push
<1>7. Bare(buf')
  BY <1>3, <1>5, <1>6, PushBare DEF Calm
<1> QED  BY <1>2, <1>7 DEF Calm, NeverPanics

\* Text.
LEMMA CalmCharData == Known /\ Calm /\ CharData => Calm'
<1> SUFFICES ASSUME Known, Calm, CharData PROVE Calm'
  OBVIOUS
<1>1. Len(stack) >= depthUnit /\ stack \in Seq(Entry)
  <2>1. unit # None /\ stack \in Seq(Entry)
    BY DEF CharData, Known
  <2> QED  BY <2>1 DEF Known, depthUnit
<1>2. Shape(buf, stack)
  BY <1>1 DEF Known, UnitInv
<1>3. Say(buf, stack, buf')
  <2>1. Last(buf) = buf[Len(buf)] /\ Last(stack) = stack[Len(stack)]
    BY DEF Last
  <2>2. PICK text \in TextContent(Last(stack).name) : buf' = Append(buf, <<"text", text>>)
    BY DEF CharData
  <2>3. text \in Texts
    BY <2>2 DEF TextContent, Texts
  <2>4. buf[Len(buf)][1] = "start"
    BY <2>1 DEF CharData
  <2> QED  BY <2>2, <2>3, <2>4 DEF Say
<1>4. Extends(buf, buf') /\ Elements(buf') = Elements(buf)
  BY <1>2, <1>3, SayFacts
<1>5. Bare(buf')
  BY <1>2, <1>4, ExtendedBare DEF Calm
<1> QED  BY <1>5 DEF Calm, NeverPanics, CharData

\* The end of an element, and of a unit.
LEMMA CalmEndElement == Known /\ Calm /\ EndElement => Calm'
<1> SUFFICES ASSUME Known, Calm, EndElement PROVE Calm'
  OBVIOUS
<1> DEFINE b == buf
           st == stack
           u == unit
           path == Path
           ms == EndStack(b, st, u, path)
           c == EndBytes(b, st)
           u1 == AfterEnd(u, path, Len(st), Len(b))
           s == Front(ms)
<1>1. Len(stack) >= depthUnit /\ UnitInv(b, st, u) /\ EndStep(ms, c, u1)
  BY EndElementIs
<1>2. /\ Len(path) = Len(st) /\ Last(path) = st[Len(st)].name
      /\ \A d \in 1..Len(st) : path[d] = st[d].name
  BY <1>1, PathIs DEF Known
<1>3. Popped(b, st, c, ms)
  <2>1. c = IF Waiting(b, st) THEN b ELSE Append(b, <<"end", st[Len(st)].name>>)
    BY DEF EndBytes
  <2> HIDE DEF b, st, u, path, c, ms
  <2> QED  BY <1>1, <1>2, <2>1, EndPops DEF ms
<1>4. Bare(c)
  <2>1. Shape(b, st) /\ Pop(b, st, c, s)
    BY <1>1, <1>3 DEF UnitInv, Popped
  <2> HIDE DEF c, s
  <2>2. Extends(b, c) /\ Elements(c) = Elements(b)
    BY <2>1, PopFacts
  <2> QED  BY <2>1, <2>2, ExtendedBare DEF Calm
<1>5. CASE Len(stack) = depthUnit
  <2>1. EndUnit(u1, c, Last(ms).remove) /\ buf' = <<>>
    BY <1>1, <1>5 DEF EndStep
  <2> HIDE DEF b, u, path, ms, c, u1, s
  <2>2. /\ Whole(c, s) /\ Tops(c, s, u1)
        /\ Listed(c, st, s, Dropped(b, st), u1.edits, u1.displayNames)
        /\ Last(ms).remove <=> 1 \in Marked(c, s)
        /\ 1 \notin Marked(c, s) => Dropped(b, st) = Dropped(c, s)
    BY <1>1, <1>2, <1>3, <1>5, UnitEnds DEF u1, s
  <2>3. ~Last(ms).remove => ~Overlap(SortedEdits(u1))
    <3>1. CASE 1 \notin Marked(c, s)
      <4>1. Listed(c, st, s, Dropped(c, s), u1.edits, u1.displayNames)
        BY <2>2, <3>1
      <4> QED  BY <1>4, <2>2, <3>1, <4>1, BareApart
    <3> QED  BY <2>2, <3>1
  <2>4. result' = result
    BY <2>1, <2>3 DEF EndUnit
  <2> QED  BY <2>1, <2>4, EmptyBare DEF Calm, NeverPanics
<1>6. CASE Len(stack) # depthUnit
  <2>1. buf' = c /\ result' = result
    BY <1>1, <1>6 DEF EndStep
  <2> QED  BY <1>4, <2>1 DEF Calm, NeverPanics
<1> QED  BY <1>5, <1>6

\* And every step.
LEMMA CalmNext == ~NestedNames /\ Known /\ Calm /\ [Next]_vars => Calm'
<1> SUFFICES ASSUME ~NestedNames, Known, Calm, [Next]_vars PROVE Calm'
  OBVIOUS
<1>1. ASSUME Fail PROVE Calm'
  BY <1>1, EmptyBare DEF Fail, Calm, NeverPanics
<1>2. ASSUME NEW r \in {"ok", "running"}, Return(r) PROVE Calm'
  BY <1>2 DEF Return, Calm, NeverPanics
<1>3. ASSUME UNCHANGED <<buf, result>> PROVE Calm'
  BY <1>3 DEF Calm, NeverPanics
<1>4. CASE TooLarge \/ DecoderFails \/ StrayText
  BY <1>1, <1>4 DEF TooLarge, DecoderFails, StrayText
<1>5. CASE EndOfInput
  BY <1>1, <1>2, <1>5 DEF EndOfInput
<1>6. CASE StartRoot
  BY <1>1, <1>3, <1>6 DEF StartRoot
<1>7. CASE EndRoot
  BY <1>3, <1>7 DEF EndRoot
<1>8. CASE Done \/ UNCHANGED vars
  BY <1>3, <1>8 DEF Done, vars
<1> QED
  BY <1>4, <1>5, <1>6, <1>7, <1>8, CalmStartUnit, CalmStartElement, CalmCharData, CalmEndElement DEF Next

(* RewriteMultistatus panics on elements inside of displaynames only: while *)
(* those hold text, the edits of endUnit are apart, whatever else an        *)
(* upstream sends.                                                          *)
THEOREM OnlyNestedNamesPanic ==
    ASSUME ~NestedNames
    PROVE  Spec => []NeverPanics
<1>1. Init => Calm
  BY EmptyBare DEF Init, Calm, NeverPanics
<1>2. Known /\ Calm /\ [Next]_vars => Calm'
  BY CalmNext
<1>3. Calm => NeverPanics
  BY DEF Calm
<1> QED  BY <1>1, <1>2, <1>3, RecordedAsRead, PTL DEF Spec
=============================================================================
